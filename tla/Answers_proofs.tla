----------------------------- MODULE Answers_proofs -----------------------------
(***************************************************************************)
(* Theorems about Answers for every world and every request.  Of the four    *)
(* lists no section of which is ever trimmed (announcements, operators,      *)
(* roster and inventory): a client that walks such a list from its first     *)
(* page reads each row of one account's list once and in order; and          *)
(* whatever page is asked for, an answer that is not withheld is one honest  *)
(* page of it, leaves nothing unsaid, and tells the base skills as they are. *)
(* Of every tool: what a plan cuts is the least that fits, an answer that is *)
(* not withheld can be gone by, and every step of a walk brings it nearer    *)
(* to its end.                                                               *)
(***************************************************************************)
EXTENDS Answers, FiniteSetTheorems, SequenceTheorems, WellFoundedInduction, TLAPS

-------------------------------------------------------------------------------
(* A finite set listed in a strict total order. *)
(* R is a strict total order of S. *)
Orders(R, S) ==
  /\ \A x \in S : <<x, x>> \notin R
  /\ \A x, y, z \in S : <<x, y>> \in R /\ <<y, z>> \in R => <<x, z>> \in R
  /\ \A x, y \in S : x = y \/ <<x, y>> \in R \/ <<y, x>> \in R
Under(R, S, x) == {y \in S : <<y, x>> \in R}

(* In a strict total order of a finite set, how many come before a member is its place:
   a number below the size, larger for what comes later, and every number is the place of one. *)
LEMMA Ranked ==
  ASSUME NEW S, IsFiniteSet(S), NEW R, Orders(R, S)
  PROVE  /\ \A x \in S : Cardinality(Under(R, S, x)) \in 0..(Cardinality(S) - 1)
         /\ \A x, y \in S : <<x, y>> \in R => Cardinality(Under(R, S, x)) < Cardinality(Under(R, S, y))
         /\ \A i \in 1..Cardinality(S) : \E x \in S : Cardinality(Under(R, S, x)) = i - 1
<1> DEFINE n == Cardinality(S)
           rank == [x \in S |-> Cardinality(Under(R, S, x)) + 1]
<1>1. n \in Nat
  BY FS_CardinalityType
<1>2. \A x \in S : /\ Under(R, S, x) \in SUBSET S /\ x \notin Under(R, S, x)
                   /\ IsFiniteSet(Under(R, S, x)) /\ Cardinality(Under(R, S, x)) \in Nat
  BY FS_Subset, FS_CardinalityType DEF Under, Orders
<1>3. ASSUME NEW x \in S PROVE Cardinality(Under(R, S, x)) \in 0..(n - 1)
<2>1. Cardinality(Under(R, S, x)) <= n /\ Cardinality(Under(R, S, x)) # n
  BY <1>2, FS_Subset
<2> QED
  BY <2>1, <1>1, <1>2
<1>4. ASSUME NEW x \in S, NEW y \in S, <<x, y>> \in R
      PROVE  Cardinality(Under(R, S, x)) < Cardinality(Under(R, S, y))
<2>1. Under(R, S, x) \in SUBSET Under(R, S, y) /\ x \in Under(R, S, y) /\ x \notin Under(R, S, x)
  BY <1>2, <1>4 DEF Under, Orders
<2>2. /\ Cardinality(Under(R, S, x)) <= Cardinality(Under(R, S, y))
      /\ Cardinality(Under(R, S, x)) # Cardinality(Under(R, S, y))
  BY <1>2, <2>1, FS_Subset
<2> QED
  BY <2>2, <1>2
<1>5. rank \in [S -> 1..n]
  BY <1>1, <1>2, <1>3
<1>6. ASSUME NEW x \in S, NEW y \in S, x # y PROVE rank[x] # rank[y]
<2>1. <<x, y>> \in R \/ <<y, x>> \in R
  BY <1>6 DEF Orders
<2>2. Cardinality(Under(R, S, x)) # Cardinality(Under(R, S, y))
  BY <2>1, <1>2, <1>4
<2> QED
  BY <2>2, <1>2
<1>7. rank \in Injection(S, 1..n)
  BY <1>5, <1>6 DEF Injection, IsInjective
<1>8. IsFiniteSet(1..n) /\ Cardinality(1..n) = n
  BY <1>1, FS_Interval
<1>9. rank \in Surjection(S, 1..n)
  BY <1>7, <1>8, FS_Injection
<1>10. ASSUME NEW i \in 1..n PROVE \E x \in S : Cardinality(Under(R, S, x)) = i - 1
<2>1. PICK x \in S : rank[x] = i
  BY <1>9 DEF Surjection
<2> QED
  BY <2>1, <1>1, <1>2
<1> QED
  BY <1>3, <1>4, <1>10

(* s lists S in the order R. *)
Enumerates(s, S, R) ==
  /\ DOMAIN s = 1..Cardinality(S) /\ s \in [DOMAIN s -> S]
  /\ \A x \in S : \E i \in DOMAIN s : s[i] = x
  /\ \A i, j \in DOMAIN s : i < j => s[i] # s[j] /\ <<s[i], s[j]>> \in R

(* A sequence that has at each place the member with that many before it lists the set in order. *)
LEMMA Enumerated ==
  ASSUME NEW S, IsFiniteSet(S), NEW R, Orders(R, S),
         NEW s, s = [i \in 1..Cardinality(S) |-> s[i]],
         \A i \in 1..Cardinality(S) : s[i] \in S /\ Cardinality(Under(R, S, s[i])) = i - 1
  PROVE  Enumerates(s, S, R)
<1> DEFINE n == Cardinality(S)
           rank(x) == Cardinality(Under(R, S, x))
<1>1. n \in Nat /\ DOMAIN s = 1..n /\ s \in [1..n -> S]
  BY FS_CardinalityType
<1>2. /\ \A x \in S : rank(x) \in 0..(n - 1)
      /\ \A x, y \in S : <<x, y>> \in R => rank(x) < rank(y)
  BY Ranked
<1>3. \A i \in 1..n : rank(s[i]) = i - 1
  OBVIOUS
<1> HIDE DEF rank
<1>4. ASSUME NEW x \in S, NEW y \in S, rank(x) = rank(y) PROVE x = y
<2>1. x = y \/ <<x, y>> \in R \/ <<y, x>> \in R
  BY DEF Orders
<2>2. rank(x) \in Int /\ ~(rank(x) < rank(y)) /\ ~(rank(y) < rank(x))
  BY <1>1, <1>2, <1>4
<2> QED
  BY <2>1, <2>2, <1>2
<1>5. ASSUME NEW x \in S PROVE \E i \in 1..n : s[i] = x
<2>1. rank(x) + 1 \in 1..n
  BY <1>1, <1>2
<2>2. rank(s[rank(x) + 1]) = rank(x)
  BY <2>1, <1>3, <1>2, <1>1
<2> QED
  BY <2>1, <2>2, <1>4, <1>1
<1>6. ASSUME NEW i \in 1..n, NEW j \in 1..n, i < j PROVE <<s[i], s[j]>> \in R
<2>1. s[i] \in S /\ s[j] \in S /\ rank(s[i]) = i - 1 /\ rank(s[j]) = j - 1
  BY <1>1, <1>3
<2>2. ~(rank(s[j]) < rank(s[i])) /\ rank(s[i]) # rank(s[j])
  BY <2>1, <1>6, <1>1
<2> QED
  BY <2>1, <2>2, <1>2 DEF Orders
<1>7. /\ DOMAIN s = 1..n /\ s \in [DOMAIN s -> S]
      /\ \A x \in S : \E i \in DOMAIN s : s[i] = x
  BY <1>1, <1>5
<1>8. \A i, j \in DOMAIN s : i < j => s[i] # s[j] /\ <<s[i], s[j]>> \in R
  BY <1>1, <1>6 DEF Orders
<1> QED
  BY <1>7, <1>8, Zenon DEF Enumerates

-------------------------------------------------------------------------------
(* Building an answer that has no shed plan, and joining fields. *)

(* With no plan, shedding changes nothing, and so does not fit what did not fit. *)
LEMMA NoPlan == \A env : ShedToFit(env, <<>>).fitted = FALSE
<1> TAKE env
<1> DEFINE plan == <<>>
           none == {}
           base == [env |-> env, section |-> FALSE, fitted |-> FALSE]
           take(shed, step) ==
             LET count == Depths(step.part, shed.env)
                 depth == Shallowest(count, [d \in 0..(count - 1) |-> WireSize(Cut(step.part, shed.env, d)) <= Cap])
             IN IF shed.fitted \/ count <= 0 THEN shed
                ELSE [env     |-> Cut(step.part, shed.env, Min({depth, count - 1})),
                      section |-> shed.section \/ ~step.paginated,
                      fitted  |-> depth < count]
           F(iter) == [s \in SUBSET (DOMAIN plan) |->
                         IF s = {} THEN base ELSE take(iter[s \ {Max(s)}], plan[Max(s)])]
           g == [s \in SUBSET (DOMAIN plan) |-> base]
<1>1. ShedToFit(env, <<>>) = (CHOOSE iter : iter = F(iter))[DOMAIN plan]
  BY Zenon DEF ShedToFit, FoldLeft, MapThenFoldSet
<1>2. DOMAIN plan = {}
  OBVIOUS
<1> HIDE DEF take, plan
<1>3. g = F(g)
  BY <1>2
<1>4. (CHOOSE iter : iter = F(iter)) = F(CHOOSE iter : iter = F(iter))
  BY <1>3, Zenon
<1>5. \A iter : F(iter)[DOMAIN plan] = base
  BY <1>2
<1> DEFINE found == CHOOSE iter : iter = F(iter)
<1>6. found = F(found) /\ ShedToFit(env, <<>>) = found[DOMAIN plan]
  BY <1>1, <1>4, Zenon
<1> HIDE DEF found, F
<1>7. ShedToFit(env, <<>>) = base
  BY <1>5, <1>6
<1> QED
  BY <1>7

Caveats(data, lims) == lims \cup (IF Masked(data) THEN {<<"masked">>} ELSE {})

(* What build answers with no plan: the cleaned payload with its caveats, or, over the cap,
   no payload and a partial answer that says it was withheld. *)
LEMMA Built ==
  ASSUME NEW st, NEW data, NEW prov, NEW lims, NEW e, e = Build(st, data, prov, lims)
  PROVE  \/ e.data = CleanPayload(data) /\ e.status = st /\ e.lims = Caveats(data, lims) /\ WireSize(e) <= Cap
         \/ e.data = Nothing /\ e.status = "partial" /\ e.lims = Caveats(data, lims) \cup {<<"withheld">>}
BY NoPlan, Zenon DEF Build, BuildShedding, EnforceCap, Caveats

(* What the joined fields of two payloads are. *)
LEMMA OverKey ==
  ASSUME NEW f, NEW g, NEW k
  PROVE  /\ k \in DOMAIN (f ++ g) <=> k \in DOMAIN f \/ k \in DOMAIN g
         /\ k \in DOMAIN f => (f ++ g)[k] = f[k]
         /\ k \in DOMAIN g /\ k \notin DOMAIN f => (f ++ g)[k] = g[k]
  BY DEF ++

-------------------------------------------------------------------------------
(* The orders the four lists are read in, and that the views list in them. *)
(* What a list owes its reader: its rows are these, once each, and ordered. *)
WorldOf(w, n) == [account |-> w.accounts[n]] ++ w

(* Newer first, no date last, then by id. *)
Later(a, b) == /\ a # None
               /\ b # None => a.day > b.day \/ (a.day = b.day /\ a.tick > b.tick)
Newness(S) == {z \in S \X S : Later(z[1].date, z[2].date) \/ (z[1].date = z[2].date /\ z[1].id < z[2].id)}

(* Newness orders announcements of one server. *)
LEMMA NewestOrders ==
  ASSUME NEW S, \A a \in S : a.id \in Int /\ a.date \in Moment \cup {None},
         \A a, b \in S : a.id = b.id => a = b
  PROVE  Orders(Newness(S), S)
<1>0. \A x, y \in S : <<x, y>> \in Newness(S) <=> Later(x.date, y.date) \/ (x.date = y.date /\ x.id < y.id)
  BY DEF Newness
<1>1. \A x, y \in Moment \cup {None} : x = y \/ Later(x, y) \/ Later(y, x)
<2>1. \A x, y \in Moment : x = y \/ x.day # y.day \/ x.tick # y.tick
  BY DEF Moment
<2>2. \A x \in Moment : x.day \in Int /\ x.tick \in Int
  BY DEF Moment
<2> QED
  BY <2>1, <2>2 DEF Later
<1>2. \A x \in Moment \cup {None} : ~Later(x, x)
<2>2. \A x \in Moment : x.day \in Int /\ x.tick \in Int
  BY DEF Moment
<2> QED
  BY <2>2 DEF Later
<1>3. \A x, y, z \in Moment \cup {None} : Later(x, y) /\ Later(y, z) => Later(x, z)
<2>2. \A x \in Moment : x.day \in Int /\ x.tick \in Int
  BY DEF Moment
<2> QED
  BY <2>2 DEF Later
<1>4. \A x \in S : <<x, x>> \notin Newness(S)
  BY <1>0, <1>2
<1>5. \A x, y, z \in S : <<x, y>> \in Newness(S) /\ <<y, z>> \in Newness(S) => <<x, z>> \in Newness(S)
<2> SUFFICES ASSUME NEW x \in S, NEW y \in S, NEW z \in S,
                    <<x, y>> \in Newness(S), <<y, z>> \in Newness(S)
             PROVE  <<x, z>> \in Newness(S)
  OBVIOUS
<2>1. Later(x.date, y.date) \/ (x.date = y.date /\ x.id < y.id)
  BY <1>0
<2>2. Later(y.date, z.date) \/ (y.date = z.date /\ y.id < z.id)
  BY <1>0
<2>3. Later(x.date, z.date) \/ (x.date = z.date /\ x.id < z.id)
  BY <2>1, <2>2, <1>3
<2> QED
  BY <2>3, <1>0
<1>6. \A x, y \in S : x = y \/ <<x, y>> \in Newness(S) \/ <<y, x>> \in Newness(S)
<2> SUFFICES ASSUME NEW x \in S, NEW y \in S, x.id # y.id
             PROVE  <<x, y>> \in Newness(S) \/ <<y, x>> \in Newness(S)
  OBVIOUS
<2>1. x.date = y.date \/ Later(x.date, y.date) \/ Later(y.date, x.date)
  BY <1>1
<2>2. x.id < y.id \/ y.id < x.id
  OBVIOUS
<2> QED
  BY <2>1, <2>2, <1>0
<1> QED
  BY <1>4, <1>5, <1>6 DEF Orders

(* The announcements are listed newest first. *)
LEMMA NewestListed ==
  ASSUME NEW S, IsFiniteSet(S), \A a \in S : a.id \in Int /\ a.date \in Moment \cup {None},
         \A a, b \in S : a.id = b.id => a = b
  PROVE  Enumerates(NewestFirst(S, "date"), S, Newness(S))
<1> DEFINE s == NewestFirst(S, "date")
           R == Newness(S)
           n == Cardinality(S)
<1>1. s = [i \in 1..n |-> CHOOSE x \in S : Cardinality({y \in S : Later(y["date"], x["date"]) \/ (y["date"] = x["date"] /\ y.id < x.id)}) = i - 1]
  BY DEF NewestFirst, OrderBy, Later
<1>2. \A x \in S : {y \in S : Later(y["date"], x["date"]) \/ (y["date"] = x["date"] /\ y.id < x.id)} = Under(R, S, x)
  BY DEF Under, Newness
<1>3. Orders(R, S)
  BY NewestOrders
<1>4. \A i \in 1..n : \E x \in S : Cardinality(Under(R, S, x)) = i - 1
  BY <1>3, Ranked
<1>6. s = [i \in 1..n |-> s[i]]
  BY <1>1
<1> DEFINE below(x) == Cardinality({y \in S : Later(y["date"], x["date"]) \/ (y["date"] = x["date"] /\ y.id < x.id)})
<1>7. \A i \in 1..n : s[i] = CHOOSE x \in S : below(x) = i - 1
  BY <1>1
<1>8. \A x \in S : below(x) = Cardinality(Under(R, S, x))
  BY <1>2
<1> HIDE DEF s, R, below
<1>5. ASSUME NEW i \in 1..n PROVE s[i] \in S /\ Cardinality(Under(R, S, s[i])) = i - 1
<2>1. \E x \in S : below(x) = i - 1
  BY <1>4, <1>8
<2>2. s[i] \in S /\ below(s[i]) = i - 1
  BY <2>1, <1>7
<2> QED
  BY <2>2, <1>8
<1> QED
  BY <1>3, <1>5, <1>6, Enumerated DEF s, R

(* Rarer first, then by id. *)
Rareness(S) == {z \in S \X S : Rarity(z[1]) > Rarity(z[2]) \/ (Rarity(z[1]) = Rarity(z[2]) /\ z[1].id < z[2].id)}

(* The operators are listed rarest first. *)
LEMMA RarestListed ==
  ASSUME NEW S, IsFiniteSet(S), \A o \in S : o.id \in Int /\ Rarity(o) \in Int,
         \A a, b \in S : a.id = b.id => a = b,
         NEW s, s = [i \in 1..Cardinality(S) |-> CHOOSE x \in S :
                       Cardinality({y \in S : Rarity(y) > Rarity(x) \/ (Rarity(y) = Rarity(x) /\ y.id < x.id)}) = i - 1]
  PROVE  Enumerates(s, S, Rareness(S))
<1> DEFINE R == Rareness(S)
           n == Cardinality(S)
           below(x) == Cardinality({y \in S : Rarity(y) > Rarity(x) \/ (Rarity(y) = Rarity(x) /\ y.id < x.id)})
<1>1. s = [i \in 1..n |-> CHOOSE x \in S : below(x) = i - 1]
  OBVIOUS
<1>2. \A x \in S : below(x) = Cardinality(Under(R, S, x))
<2> TAKE x \in S
<2>1. {y \in S : Rarity(y) > Rarity(x) \/ (Rarity(y) = Rarity(x) /\ y.id < x.id)} = Under(R, S, x)
  BY DEF Under, Rareness
<2> QED
  BY <2>1
<1>3. Orders(R, S)
<2>1. \A x, y \in S : <<x, y>> \in R <=> Rarity(x) > Rarity(y) \/ (Rarity(x) = Rarity(y) /\ x.id < y.id)
  BY DEF Rareness
<2> HIDE DEF R
<2>2. \A x, y \in S : x.id # y.id => <<x, y>> \in R \/ <<y, x>> \in R
  BY <2>1
<2>3. \A x, y, z \in S : <<x, y>> \in R /\ <<y, z>> \in R => <<x, z>> \in R
  BY <2>1
<2>4. \A x \in S : <<x, x>> \notin R
  BY <2>1
<2> QED
  BY <2>2, <2>3, <2>4 DEF Orders
<1>4. \A i \in 1..n : \E x \in S : Cardinality(Under(R, S, x)) = i - 1
  BY <1>3, Ranked
<1>5. s = [i \in 1..n |-> s[i]] /\ \A i \in 1..n : s[i] = CHOOSE x \in S : below(x) = i - 1
  BY <1>1
<1> HIDE DEF R, below
<1>6. ASSUME NEW i \in 1..n PROVE s[i] \in S /\ Cardinality(Under(R, S, s[i])) = i - 1
<2>1. \E x \in S : below(x) = i - 1
  BY <1>2, <1>4
<2>2. s[i] \in S /\ below(s[i]) = i - 1
  BY <2>1, <1>5
<2> QED
  BY <2>2, <1>2
<1> QED
  BY <1>3, <1>5, <1>6, Enumerated DEF R

(* Ids are listed from the smallest. *)
LEMMA IdsListed ==
  ASSUME NEW S, IsFiniteSet(S), S \subseteq Int,
         NEW s, s = [i \in 1..Cardinality(S) |-> CHOOSE x \in S : Cardinality({y \in S : y < x}) = i - 1]
  PROVE  Enumerates(s, S, {z \in S \X S : z[1] < z[2]})
<1> DEFINE R == {z \in S \X S : z[1] < z[2]}
           n == Cardinality(S)
           below(x) == Cardinality({y \in S : y < x})
<1>1. s = [i \in 1..n |-> CHOOSE x \in S : below(x) = i - 1]
  OBVIOUS
<1>2. \A x \in S : below(x) = Cardinality(Under(R, S, x))
<2> TAKE x \in S
<2>1. {y \in S : y < x} = Under(R, S, x)
  BY DEF Under
<2> QED
  BY <2>1
<1>3. Orders(R, S)
<2>1. \A x, y \in S : <<x, y>> \in R <=> x < y
  OBVIOUS
<2>5. \A x, y \in Int : x = y \/ x < y \/ y < x
  OBVIOUS
<2>6. \A x \in S : x \in Int
  OBVIOUS
<2> HIDE DEF R
<2>2. \A x, y \in S : x = y \/ <<x, y>> \in R \/ <<y, x>> \in R
  BY <2>1, <2>5, <2>6, Zenon
<2>3. \A x, y, z \in S : <<x, y>> \in R /\ <<y, z>> \in R => <<x, z>> \in R
  BY <2>1
<2>4. \A x \in S : <<x, x>> \notin R
  BY <2>1
<2> QED
  BY <2>2, <2>3, <2>4 DEF Orders
<1> HIDE DEF R
<1>4. \A i \in 1..n : \E x \in S : Cardinality(Under(R, S, x)) = i - 1
  BY <1>3, Ranked
<1> HIDE DEF R, below
<1>5. s = [i \in 1..n |-> s[i]] /\ \A i \in 1..n : s[i] = CHOOSE x \in S : below(x) = i - 1
<2> HIDE DEF n
<2> QED
  BY <1>1
<1>6. ASSUME NEW i \in 1..n PROVE s[i] \in S /\ Cardinality(Under(R, S, s[i])) = i - 1
<2>1. \E x \in S : below(x) = i - 1
  BY <1>2, <1>4
<2>2. s[i] \in S /\ below(s[i]) = i - 1
  BY <2>1, <1>5
<2> QED
  BY <2>2, <1>2
<1> QED
  BY <1>3, <1>5, <1>6, Enumerated DEF R

(* Rarer first, then further trained, then by id. *)
Ahead(w, server, a, b) ==
  LET r(op) == Rarity(BuildOf(w, server, op.char)) IN
       \/ r(a) > r(b)
       \/ r(a) = r(b) /\ a.elite > b.elite
       \/ r(a) = r(b) /\ a.elite = b.elite /\ a.level > b.level
       \/ r(a) = r(b) /\ a.elite = b.elite /\ a.level = b.level /\ a.char < b.char
Trainedness(w, server, S) == {z \in S \X S : Ahead(w, server, z[1], z[2])}

(* The roster is listed rarest, then furthest trained, then by id. *)
LEMMA TrainedListed ==
  ASSUME NEW w, NEW req, NEW S, IsFiniteSet(S),
         \A a \in S : /\ a.char \in Int /\ a.elite \in Int /\ a.level \in Int
                      /\ Rarity(BuildOf(w, req.server, a.char)) \in Int,
         \A a, b \in S : a.char = b.char => a = b
  PROVE  Enumerates(RosterOrder(w, req, S), S, Trainedness(w, req.server, S))
<1> DEFINE s == RosterOrder(w, req, S)
           R == Trainedness(w, req.server, S)
           n == Cardinality(S)
           below(x) == Cardinality({y \in S : Ahead(w, req.server, y, x)})
<1>1. s = [i \in 1..n |-> CHOOSE x \in S : below(x) = i - 1]
  BY Zenon DEF RosterOrder, OrderBy, Ahead
<1>2. \A x \in S : below(x) = Cardinality(Under(R, S, x))
<2> TAKE x \in S
<2>1. {y \in S : Ahead(w, req.server, y, x)} = Under(R, S, x)
  BY DEF Under, Trainedness
<2> QED
  BY <2>1
<1>3. Orders(R, S)
<2>1. \A x, y \in S : <<x, y>> \in R <=> Ahead(w, req.server, x, y)
  BY DEF Trainedness
<2> DEFINE r(op) == Rarity(BuildOf(w, req.server, op.char))
<2>2. \A x, y \in S : <<x, y>> \in R <=>
       \/ r(x) > r(y)
       \/ r(x) = r(y) /\ x.elite > y.elite
       \/ r(x) = r(y) /\ x.elite = y.elite /\ x.level > y.level
       \/ r(x) = r(y) /\ x.elite = y.elite /\ x.level = y.level /\ x.char < y.char
  BY <2>1 DEF Ahead
<2>3. \A a \in S : /\ a.char \in Int /\ a.elite \in Int /\ a.level \in Int /\ r(a) \in Int
  OBVIOUS
<2> HIDE DEF R, r
<2>4. \A x, y \in S : x.char # y.char => <<x, y>> \in R \/ <<y, x>> \in R
  BY <2>2, <2>3
<2>5. \A x, y, z \in S : <<x, y>> \in R /\ <<y, z>> \in R => <<x, z>> \in R
  BY <2>2, <2>3
<2>6. \A x \in S : <<x, x>> \notin R
  BY <2>2, <2>3
<2> QED
  BY <2>4, <2>5, <2>6 DEF Orders
<1>4. \A i \in 1..n : \E x \in S : Cardinality(Under(R, S, x)) = i - 1
  BY <1>3, Ranked
<1>5. s = [i \in 1..n |-> s[i]] /\ \A i \in 1..n : s[i] = CHOOSE x \in S : below(x) = i - 1
  BY <1>1
<1> HIDE DEF s, R, below
<1>6. ASSUME NEW i \in 1..n PROVE s[i] \in S /\ Cardinality(Under(R, S, s[i])) = i - 1
<2>1. \E x \in S : below(x) = i - 1
  BY <1>2, <1>4
<2>2. s[i] \in S /\ below(s[i]) = i - 1
  BY <2>1, <1>5
<2> QED
  BY <2>2, <1>2
<1> QED
  BY <1>3, <1>5, <1>6, Enumerated DEF s, R

-------------------------------------------------------------------------------
(* What the four lists are of. *)
Plain == {"get_announcements", "get_my_inventory", "find_operators", "get_my_roster"}
PlainOfAccount == {"get_my_inventory", "get_my_roster"}

(* What a tool reads of the world is what the world has, with one account. *)
LEMMA WorldParts ==
  ASSUME NEW w0, NEW n
  PROVE  /\ \A k \in DOMAIN w0 \ {"account"} : WorldOf(w0, n)[k] = w0[k]
         /\ WorldOf(w0, n)["account"] = w0.accounts[n]
<1> DEFINE f == [account |-> w0.accounts[n]]
<1>1. "account" \in DOMAIN f /\ f["account"] = w0.accounts[n] /\ DOMAIN f = {"account"}
  OBVIOUS
<1>2. WorldOf(w0, n) = f ++ w0
  BY Zenon DEF WorldOf
<1> HIDE DEF f
<1> QED
  BY <1>1, <1>2, OverKey

(* Of those, the ones the listings read. *)
LEMMA WorldFields ==
  ASSUME NEW w0, AWorld(w0), NEW n
  PROVE  /\ WorldOf(w0, n).announcements = w0.announcements
         /\ WorldOf(w0, n).operators = w0.operators
         /\ WorldOf(w0, n).domain = w0.domain
         /\ WorldOf(w0, n).feeds = w0.feeds
         /\ WorldOf(w0, n).account = w0.accounts[n]
<1> DEFINE kept == {"announcements", "operators", "domain", "feeds"}
<1>1. kept \subseteq DOMAIN w0 \ {"account"}
  BY DEF AWorld
<1>2. /\ \A k \in DOMAIN w0 \ {"account"} : WorldOf(w0, n)[k] = w0[k]
      /\ WorldOf(w0, n)["account"] = w0.accounts[n]
  BY WorldParts
<1> QED
  BY <1>1, <1>2

(* The cursor of the list a request reads has its page and size, and the rest of the request. *)
LEMMA CursorParts ==
  ASSUME NEW r, r.tool = "get_stage" => r.reads # "spawns", NEW p, NEW s
  PROVE  /\ Cursor(r, p, s).page = p /\ Cursor(r, p, s).size = s
         /\ \A k \in DOMAIN r \ {"page", "size"} : Cursor(r, p, s)[k] = r[k]
<1> DEFINE f == [page |-> p, size |-> s]
<1>1. DOMAIN f = {"page", "size"} /\ f["page"] = p /\ f["size"] = s
  OBVIOUS
<1>2. Cursor(r, p, s) = f ++ r
  BY Zenon DEF Cursor
<1> HIDE DEF f
<1>3. /\ \A k \in DOMAIN r \ {"page", "size"} : (f ++ r)[k] = r[k]
      /\ (f ++ r)["page"] = p /\ (f ++ r)["size"] = s
  BY <1>1, OverKey
<1> QED
  BY <1>2, <1>3

(* So a cursor of a request for a listing changes its page and size and nothing else. *)
LEMMA CursorFields ==
  ASSUME NEW r, ARequest(r), r.tool \in Plain, NEW p, NEW s
  PROVE  /\ Cursor(r, p, s).page = p /\ Cursor(r, p, s).size = s
         /\ \A k \in DOMAIN r \ {"page", "size"} : Cursor(r, p, s)[k] = r[k]
  BY CursorParts DEF Plain

(* Of a stage's two lists with pages the spawns have a cursor of their own. *)
LEMMA CursorOfSpawns ==
  ASSUME NEW r, r.tool = "get_stage", r.reads = "spawns", NEW p, NEW s
  PROVE  /\ Cursor(r, p, s).spawns_page = p /\ Cursor(r, p, s).spawns_size = s
         /\ Cursor(r, p, s).page = 1 /\ Cursor(r, p, s).size = r.size
         /\ \A k \in DOMAIN r \ {"page", "size", "spawns_page", "spawns_size"} : Cursor(r, p, s)[k] = r[k]
<1> DEFINE f == [spawns_page |-> p, spawns_size |-> s, page |-> 1, size |-> r.size]
<1>1. /\ DOMAIN f = {"page", "size", "spawns_page", "spawns_size"}
      /\ f["page"] = 1 /\ f["size"] = r.size /\ f["spawns_page"] = p /\ f["spawns_size"] = s
  OBVIOUS
<1>2. Cursor(r, p, s) = f ++ r
  BY Zenon DEF Cursor
<1> HIDE DEF f
<1>3. /\ \A k \in DOMAIN r \ {"page", "size", "spawns_page", "spawns_size"} : (f ++ r)[k] = r[k]
      /\ (f ++ r)["page"] = 1 /\ (f ++ r)["size"] = r.size /\ (f ++ r)["spawns_page"] = p /\ (f ++ r)["spawns_size"] = s
  BY <1>1, OverKey
<1> QED
  BY <1>2, <1>3

(* The rarity an order compares is a number, known or not. *)
LEMMA RarityInt ==
  ASSUME NEW build, build # None => build.rarity \in Int \cup {None}
  PROVE  Rarity(build) \in Int
  BY DEF Rarity

(* The comparison of the query with its day bounds is the window the caller means. *)
LEMMA WindowIsDays ==
  ASSUME NEW m \in Moment \cup {None}, NEW since \in Bound \cup {None}, NEW until \in Bound \cup {None}
  PROVE  InWindow(m, DayBound(since), DayBound(until)) <=> Lies(m, DayBound(since), DayBound(until))
<1> DEFINE a == DayBound(since)
           b == DayBound(until)
<1>1. None \notin Int
  BY AnswersAssumption
<1>2. \A x \in Bound \cup {None} : DayBound(x) # None => DayBound(x).day \in Int /\ DayBound(x).tick = None
<2> TAKE x \in Bound \cup {None}
<2>1. CASE x = None
  BY <2>1 DEF DayBound
<2>2. CASE x # None
<3>1. DayBound(x) = [x EXCEPT !.tick = None] /\ x \in Bound
  BY <2>2 DEF DayBound
<3> QED
  BY <3>1 DEF Bound
<2> QED
  BY <2>1, <2>2
<1>3. /\ a # None => a.day \in Int /\ a.tick = None
      /\ b # None => b.day \in Int /\ b.tick = None
  BY <1>2
<1>4. m # None => m.day \in Int /\ m.tick \in 0..9
  BY DEF Moment
<1> HIDE DEF a, b
<1>5. m # None => m.tick # None
  BY <1>1, <1>4
<1>6. a # None => ((m # None /\ NotBelow(m, a)) <=> (m # None /\ 10 * m.day + m.tick >= 10 * a.day))
  BY <1>3, <1>4 DEF NotBelow
<1>7. b # None => ((m # None /\ NotAbove(m, b)) <=> (m # None /\ 10 * m.day + m.tick <= 10 * b.day + 9))
  BY <1>3, <1>4 DEF NotAbove
<1>8. InWindow(m, a, b) <=> /\ a # None => m # None /\ NotBelow(m, a)
                            /\ b # None => m # None /\ NotAbove(m, b)
  BY Zenon DEF InWindow
<1>9. /\ m # None => /\ 10 * m.day + (IF m.tick = None THEN 0 ELSE m.tick) = 10 * m.day + m.tick
                     /\ 10 * m.day + (IF m.tick = None THEN 9 ELSE m.tick) = 10 * m.day + m.tick
      /\ a # None => 10 * a.day + (IF a.tick = None THEN 0 ELSE a.tick) = 10 * a.day
      /\ b # None => 10 * b.day + (IF b.tick = None THEN 9 ELSE b.tick) = 10 * b.day + 9
  BY <1>3, <1>4, <1>5
<1>10. Lies(m, a, b) <=>
         /\ a # None => m # None /\ 10 * m.day + (IF m.tick = None THEN 0 ELSE m.tick) >= 10 * a.day + (IF a.tick = None THEN 0 ELSE a.tick)
         /\ b # None => m # None /\ 10 * m.day + (IF m.tick = None THEN 0 ELSE m.tick) <= 10 * b.day + (IF b.tick = None THEN 9 ELSE b.tick)
  BY DEF Lies
<1>11. Lies(m, a, b) <=> /\ a # None => m # None /\ 10 * m.day + m.tick >= 10 * a.day
                         /\ b # None => m # None /\ 10 * m.day + m.tick <= 10 * b.day + 9
  BY <1>9, <1>10
<1>12. InWindow(m, a, b) <=> Lies(m, a, b)
  BY <1>6, <1>7, <1>8, <1>11
<1> QED
  BY <1>12 DEF a, b

(* get_announcements lists the announcements of the server inside the window, newest first. *)
LEMMA AnnouncementsListed ==
  ASSUME NEW w0, AWorld(w0), NEW n, NEW r, ARequest(r), r.tool = "get_announcements"
  PROVE  LET w == WorldOf(w0, n)
             S == {a \in w0.announcements : a.server = r.server /\ Lies(a.date, DayBound(r.since), DayBound(r.until))}
         IN Enumerates(AnnouncementsOf(w, r), S, Newness(S)) /\ IsFiniteSet(S) /\ \A a, b \in S : a.id = b.id => a = b
<1> DEFINE S == {a \in w0.announcements : a.server = r.server /\ Lies(a.date, DayBound(r.since), DayBound(r.until))}
           T == {a \in w0.announcements : a.server = r.server /\ InWindow(a.date, DayBound(r.since), DayBound(r.until))}
<1>1. r.since \in Bound \cup {None} /\ r.until \in Bound \cup {None}
  BY DEF ARequest
<1>2. \A a \in w0.announcements : a.id \in Int /\ a.date \in Moment \cup {None}
  BY DEF AWorld
<1>3. S = T
<2>1. \A a \in w0.announcements : InWindow(a.date, DayBound(r.since), DayBound(r.until))
                                    <=> Lies(a.date, DayBound(r.since), DayBound(r.until))
  BY <1>1, <1>2, WindowIsDays
<2> QED
  BY <2>1
<1>4. AnnouncementsOf(WorldOf(w0, n), r) = NewestFirst(T, "date")
  BY WorldFields, Zenon DEF AnnouncementsOf
<1>5. IsFiniteSet(S) /\ \A a, b \in S : a.id = b.id => a = b
<2>1. IsFiniteSet(w0.announcements) /\ UniqueIds(w0.announcements)
  BY DEF AWorld
<2> QED
  BY <2>1, FS_Subset DEF UniqueIds
<1>6. \A a \in S : a.id \in Int /\ a.date \in Moment \cup {None}
  BY <1>2
<1> HIDE DEF S, T
<1>7. Enumerates(NewestFirst(S, "date"), S, Newness(S))
  BY <1>5, <1>6, NewestListed
<1>8. Enumerates(AnnouncementsOf(WorldOf(w0, n), r), S, Newness(S))
  BY <1>3, <1>4, <1>7
<1> QED
  BY <1>5, <1>8 DEF S

Offering(w, server, room, faction, collab) ==
  {o \in w.operators : /\ o.server = server /\ o.obtainable
                       /\ room # None => \E s \in o.base : s.room = room
                       /\ faction # None => \E f \in o.factions : f.faction = faction
                       /\ collab # None => o.collab = collab}

(* The operators of a build have an id and a rank, and differ in id on a server. *)
LEMMA OperatorsKept ==
  ASSUME NEW w0, AWorld(w0)
  PROVE  /\ IsFiniteSet(w0.operators)
         /\ \A o \in w0.operators : o.id \in Int /\ Rarity(o) \in Int
         /\ \A a, b \in w0.operators : a.server = b.server /\ a.id = b.id => a = b
<1>1. IsFiniteSet(w0.operators) /\ UniqueIds(w0.operators)
  BY DEF AWorld
<1>2. \A o \in w0.operators : o.id \in Int /\ o.rarity \in Int \cup {None}
  BY DEF AWorld
<1>3. \A o \in w0.operators : Rarity(o) \in Int
  BY <1>2, RarityInt
<1> QED
  BY <1>1, <1>2, <1>3 DEF UniqueIds

(* The filtered list, and that the page it is read from does not matter. *)
LEMMA OperatorsListed ==
  ASSUME NEW w0, AWorld(w0), NEW n, NEW r
  PROVE  LET w == WorldOf(w0, n)
             S == IF w.domain THEN Offering(w0, r.server, r.room, r.faction, r.collab) ELSE {}
         IN /\ Enumerates(FilterOperators(w, r), S, Rareness(S)) /\ IsFiniteSet(S)
            /\ S \subseteq w0.operators /\ \A a \in S : a.server = r.server
<1> DEFINE w == WorldOf(w0, n)
           T == Offering(w0, r.server, r.room, r.faction, r.collab)
           S == IF w.domain THEN T ELSE {}
<1>1. T \subseteq w0.operators /\ \A a \in T : a.server = r.server
  BY DEF Offering
<1>2. S \subseteq w0.operators /\ \A a \in S : a.server = r.server
  BY <1>1
<1>3. IsFiniteSet(S) /\ \A o \in S : o.id \in Int /\ Rarity(o) \in Int
  BY <1>2, OperatorsKept, FS_Subset
<1>4. \A a, b \in S : a.id = b.id => a = b
  BY <1>2, OperatorsKept
<1>5. w.operators = w0.operators
  BY WorldFields
<1>6. FilterOperators(w, r) =
        IF ~w.domain THEN <<>>
        ELSE [i \in 1..Cardinality(T) |-> CHOOSE x \in T :
                Cardinality({y \in T : Rarity(y) > Rarity(x) \/ (Rarity(y) = Rarity(x) /\ y.id < x.id)}) = i - 1]
<2>1. Offering(w, r.server, r.room, r.faction, r.collab) = T
  BY <1>5 DEF Offering
<2> DEFINE L(F) == [i \in 1..Cardinality(F) |-> CHOOSE x \in F :
                Cardinality({y \in F : Rarity(y) > Rarity(x) \/ (Rarity(y) = Rarity(x) /\ y.id < x.id)}) = i - 1]
<2> HIDE DEF w, T
<2>2. FilterOperators(w, r) = IF ~w.domain THEN <<>> ELSE L(Offering(w, r.server, r.room, r.faction, r.collab))
  BY Zenon DEF FilterOperators, OrderBy, Offering
<2> HIDE DEF L
<2>3. FilterOperators(w, r) = IF ~w.domain THEN <<>> ELSE L(T)
  BY <2>1, <2>2
<2> QED
  BY <2>3, Zenon DEF L
<1> HIDE DEF w, T
<1>7. CASE w.domain
<2>1. S = T
  BY <1>7
<2> HIDE DEF S
<2>2. FilterOperators(w, r) =
        [i \in 1..Cardinality(S) |-> CHOOSE x \in S :
                Cardinality({y \in S : Rarity(y) > Rarity(x) \/ (Rarity(y) = Rarity(x) /\ y.id < x.id)}) = i - 1]
  BY <1>6, <1>7, <2>1, Zenon
<2>3. Enumerates(FilterOperators(w, r), S, Rareness(S))
  BY <1>3, <1>4, <2>2, RarestListed
<2> QED
  BY <2>3, <1>2, <1>3 DEF w, T, S
<1>8. CASE ~w.domain
<2>1. S = {} /\ FilterOperators(w, r) = <<>>
  BY <1>6, <1>8
<2>2. Enumerates(<<>>, {}, Rareness(S))
  BY FS_EmptySet DEF Enumerates
<2> HIDE DEF S
<2>3. Enumerates(FilterOperators(w, r), S, Rareness(S))
  BY <2>1, <2>2
<2> QED
  BY <2>3, <1>2, <1>3 DEF w, T, S
<1> QED
  BY <1>7, <1>8

(* The filter of find_operators does not read the page. *)
LEMMA SameFilter ==
  ASSUME NEW w, NEW c, NEW r, c.server = r.server, c.room = r.room, c.faction = r.faction, c.collab = r.collab
  PROVE  FilterOperators(w, c) = FilterOperators(w, r)
<1> DEFINE T(server, room, faction, collab) ==
             IF ~w.domain THEN <<>>
             ELSE LET F == Offering(w, server, room, faction, collab)
                  IN [i \in 1..Cardinality(F) |-> CHOOSE x \in F :
                        Cardinality({y \in F : Rarity(y) > Rarity(x) \/ (Rarity(y) = Rarity(x) /\ y.id < x.id)}) = i - 1]
<1>1. FilterOperators(w, r) = T(r.server, r.room, r.faction, r.collab)
  BY Zenon DEF FilterOperators, OrderBy, Offering
<1>2. FilterOperators(w, c) = T(c.server, c.room, c.faction, c.collab)
  BY Zenon DEF FilterOperators, OrderBy, Offering
<1> HIDE DEF T
<1> QED
  BY <1>1, <1>2

(* The stored user. *)
Stored(w0, n) == n \in DOMAIN w0.accounts /\ w0.accounts[n] # None /\ w0.accounts[n].user # None

(* The account rows a parsed user is stored as: every item it holds some of, and one row
   an operator. *)
LEMMA OwnedRows ==
  ASSUME NEW w0, AWorld(w0), NEW n, Stored(w0, n)
  PROVE  LET u == w0.accounts[n].user
             ops == Owned(WorldOf(w0, n)).operators
             held == Owned(WorldOf(w0, n)).inventory
         IN /\ DOMAIN held = {i \in DOMAIN u.inventory : i # NoId /\ u.inventory[i] > 0}
            /\ DOMAIN held \subseteq Int /\ IsFiniteSet(DOMAIN held)
            /\ IsFiniteSet(ops)
            /\ \A a \in ops : a.char \in Int /\ a.elite \in Int /\ a.level \in Int
            /\ \A a, b \in ops : a.char = b.char => a = b
<1> DEFINE u == w0.accounts[n].user
           ops == Owned(WorldOf(w0, n)).operators
           held == Owned(WorldOf(w0, n)).inventory
<1>1. AnAccount(w0.accounts[n], n)
  BY DEF AWorld, Stored
<1>2. /\ u.chars \in Seq(ToSet(u.chars))
      /\ \A e \in ToSet(u.chars) : {e.char, e.elite, e.level} \subseteq Int
      /\ DOMAIN u.inventory \subseteq Int /\ IsFiniteSet(DOMAIN u.inventory)
  BY <1>1 DEF AnAccount, Stored
<1>3. Owned(WorldOf(w0, n)) = ParseSyncData(u)
<2>1. WorldOf(w0, n).account = w0.accounts[n]
  BY WorldFields
<2> QED
  BY <2>1, Zenon DEF Owned
<1>4. ops = {ParseOperator(u.chars[i]) : i \in Kept(u.chars)}
  BY <1>3 DEF ParseSyncData
<1>5. held = [i \in {x \in DOMAIN u.inventory : x # NoId /\ u.inventory[x] > 0} |-> u.inventory[i]]
  BY <1>3 DEF ParseSyncData
<1> HIDE DEF u, ops, held
<1>6. /\ DOMAIN held = {i \in DOMAIN u.inventory : i # NoId /\ u.inventory[i] > 0}
      /\ DOMAIN held \subseteq Int /\ IsFiniteSet(DOMAIN held)
  BY <1>2, <1>5, FS_Subset
<1>7. DOMAIN u.chars = 1..Len(u.chars) /\ Len(u.chars) \in Nat
  BY <1>2
<1>8. Kept(u.chars) \subseteq 1..Len(u.chars)
  BY <1>7 DEF Kept
<1>9. IsFiniteSet(Kept(u.chars))
<2>1. IsFiniteSet(1..Len(u.chars))
  BY <1>7, FS_Interval
<2> QED
  BY <2>1, <1>8, FS_Subset
<1>10. IsFiniteSet(ops)
<2> DEFINE K == Kept(u.chars)
           f == [i \in K |-> ParseOperator(u.chars[i])]
<2>1. f \in Surjection(K, ops)
<3>1. DOMAIN f = K /\ \A i \in K : f[i] = ParseOperator(u.chars[i])
  OBVIOUS
<3>2. ops = {ParseOperator(u.chars[i]) : i \in K}
  BY <1>4
<3> HIDE DEF f, K
<3>3. f \in [K -> ops]
<4>1. f = [i \in K |-> f[i]]
  BY DEF f
<4>2. \A i \in K : f[i] \in ops
  BY <3>1, <3>2
<4> QED
  BY <4>1, <4>2
<3>4. \A x \in ops : \E i \in K : f[i] = x
  BY <3>1, <3>2
<3> QED
  BY <3>3, <3>4 DEF Surjection
<2>2. IsFiniteSet(K)
  BY <1>9
<2> QED
  BY <2>1, <2>2, FS_Surjection
<1>11. \A i \in Kept(u.chars) : u.chars[i].char \in Int /\ u.chars[i].elite \in Int /\ u.chars[i].level \in Int
<2> TAKE i \in Kept(u.chars)
<2>1. u.chars[i] \in ToSet(u.chars)
  BY <1>7, <1>8 DEF ToSet
<2> QED
  BY <2>1, <1>2
<1>12. \A e : ParseOperator(e).char = e.char /\ ParseOperator(e).elite = e.elite /\ ParseOperator(e).level = e.level
  BY DEF ParseOperator
<1>13. \A a \in ops : a.char \in Int /\ a.elite \in Int /\ a.level \in Int
  BY <1>4, <1>11, <1>12
<1>14. \A a, b \in ops : a.char = b.char => a = b
<2> SUFFICES ASSUME NEW i \in Kept(u.chars), NEW j \in Kept(u.chars), u.chars[i].char = u.chars[j].char
             PROVE  i = j
  BY <1>4, <1>12
<2>1. i \in 1..Len(u.chars) /\ j \in 1..Len(u.chars)
  BY <1>8
<2>2. i \notin 1..(j - 1) /\ j \notin 1..(i - 1)
  BY DEF Kept
<2> QED
  BY <2>1, <2>2, <1>7
<1> QED
  BY <1>6, <1>10, <1>13, <1>14 DEF u, ops, held

(* get_my_inventory lists the items held, by id. *)
LEMMA InventoryListed ==
  ASSUME NEW w0, AWorld(w0), NEW n, Stored(w0, n)
  PROVE  LET S == DOMAIN Owned(WorldOf(w0, n)).inventory
         IN Enumerates(OrderBy(S, LAMBDA a, b : a < b), S, {z \in S \X S : z[1] < z[2]})
<1> DEFINE S == DOMAIN Owned(WorldOf(w0, n)).inventory
           s == OrderBy(S, LAMBDA a, b : a < b)
<1>1. S \subseteq Int /\ IsFiniteSet(S)
  BY OwnedRows
<1>2. s = [i \in 1..Cardinality(S) |-> CHOOSE x \in S : Cardinality({y \in S : y < x}) = i - 1]
  BY Zenon DEF OrderBy
<1> HIDE DEF S, s
<1>3. Enumerates(s, S, {z \in S \X S : z[1] < z[2]})
  BY <1>1, <1>2, IdsListed
<1> QED
  BY <1>3, Zenon DEF S, s

(* get_my_roster lists the rows that match the request, in its order. *)
LEMMA RosterListed ==
  ASSUME NEW w0, AWorld(w0), NEW n, Stored(w0, n), NEW r
  PROVE  LET w == WorldOf(w0, n)
             S == Matching(w, r)
         IN /\ Enumerates(RosterOrder(w, r, S), S, Trainedness(w, r.server, S))
            /\ \A a \in S : a.char \in Int /\ Rarity(BuildOf(w, r.server, a.char)) \in Int
            /\ \A a, b \in S : a.char = b.char => a = b
<1> DEFINE w == WorldOf(w0, n)
           S == Matching(w, r)
<1>1. S \subseteq Owned(w).operators
  BY DEF Matching
<1>2. /\ IsFiniteSet(Owned(w).operators)
      /\ \A a \in Owned(w).operators : a.char \in Int /\ a.elite \in Int /\ a.level \in Int
      /\ \A a, b \in Owned(w).operators : a.char = b.char => a = b
  BY OwnedRows
<1>3. \A id : Rarity(BuildOf(w, r.server, id)) \in Int
<2> TAKE id
<2>1. w.operators = w0.operators
  BY WorldFields
<2>2. BuildOf(w, r.server, id) = None \/ BuildOf(w, r.server, id) \in w0.operators
<3>1. Builds(w, r.server, id) \subseteq w0.operators
  BY <2>1 DEF Builds
<3>2. Builds(w, r.server, id) = {} \/ (CHOOSE o \in Builds(w, r.server, id) : TRUE) \in Builds(w, r.server, id)
  OBVIOUS
<3> QED
  BY <3>1, <3>2 DEF BuildOf
<2>3. \A o \in w0.operators : o.rarity \in Int \cup {None}
  BY DEF AWorld
<2> QED
  BY <2>2, <2>3, RarityInt
<1> HIDE DEF S, w
<1>4. IsFiniteSet(S)
  BY <1>1, <1>2, FS_Subset
<1>5. \A a \in S : /\ a.char \in Int /\ a.elite \in Int /\ a.level \in Int
                   /\ Rarity(BuildOf(w, r.server, a.char)) \in Int
  BY <1>1, <1>2, <1>3
<1>6. \A a, b \in S : a.char = b.char => a = b
  BY <1>1, <1>2
<1>7. Enumerates(RosterOrder(w, r, S), S, Trainedness(w, r.server, S))
  BY <1>4, <1>5, <1>6, TrainedListed
<1> QED
  BY <1>5, <1>6, <1>7 DEF S, w

-------------------------------------------------------------------------------
(* Each list is whole: every row it owes, once, in turn, whatever the page. *)
All(w, r) ==
  CASE r.tool = "get_announcements" -> AnnouncementsOf(w, r)
    [] r.tool = "get_my_inventory"  -> OrderBy(DOMAIN Owned(w).inventory, LAMBDA a, b : a < b)
    [] r.tool = "find_operators"    -> FilterOperators(w, r)
    [] r.tool = "get_my_roster"     -> RosterOrder(w, r, Matching(w, r))
IdIn(r, x) == CASE r.tool \in {"get_announcements", "find_operators"} -> x.id
                [] r.tool = "get_my_inventory" -> x
                [] r.tool = "get_my_roster" -> x.char
Owed(w, r) ==
  CASE r.tool = "get_announcements" ->
         {a.id : a \in {x \in w.announcements : x.server = r.server /\ Lies(x.date, DayBound(r.since), DayBound(r.until))}}
    [] r.tool = "get_my_inventory" ->
         {i \in DOMAIN w.account.user.inventory : i # NoId /\ w.account.user.inventory[i] > 0}
    [] r.tool = "find_operators" -> {o.id : o \in ToSet(FilterOperators(w, r))}
    [] r.tool = "get_my_roster"  -> {op.char : op \in Matching(w, r)}
InTurn(w, r, x, y) ==
  CASE r.tool = "get_announcements" -> TRUE
    [] r.tool = "get_my_inventory"  -> x < y
    [] r.tool = "find_operators"    -> Rarity(x) >= Rarity(y)
    [] r.tool = "get_my_roster"     -> Rarity(BuildOf(w, r.server, x.char)) >= Rarity(BuildOf(w, r.server, y.char))

(* A sequence whose entries have these ids, once each, and are in turn. *)
Whole(w, r, L) ==
  /\ DOMAIN L = 1..Len(L) /\ Len(L) \in Nat /\ (\E T : L \in Seq(T))
  /\ \A i \in DOMAIN L : IdIn(r, L[i]) \in Int
  /\ \A i, j \in DOMAIN L : IdIn(r, L[i]) = IdIn(r, L[j]) => i = j
  /\ {IdIn(r, L[i]) : i \in DOMAIN L} = Owed(w, r)
  /\ \A i, j \in DOMAIN L : i < j => InTurn(w, r, L[i], L[j])

(* What it says of a sequence to list a set in an order. *)
LEMMA Spread ==
  ASSUME NEW S, IsFiniteSet(S), NEW R, NEW s, Enumerates(s, S, R)
  PROVE  /\ DOMAIN s = 1..Len(s) /\ Len(s) \in Nat /\ s \in Seq(S)
         /\ \A i \in DOMAIN s : s[i] \in S
         /\ \A i, j \in DOMAIN s : s[i] = s[j] => i = j
         /\ \A i, j \in DOMAIN s : i < j => <<s[i], s[j]>> \in R
         /\ \A x \in S : \E i \in DOMAIN s : s[i] = x
<1> DEFINE n == Cardinality(S)
<1>1. n \in Nat
  BY FS_CardinalityType
<1>2. DOMAIN s = 1..n /\ s \in [1..n -> S]
  BY DEF Enumerates
<1> HIDE DEF n
<1>3. s \in Seq(S) /\ Len(s) = n
  BY <1>1, <1>2
<1>4. \A i, j \in DOMAIN s : s[i] = s[j] => i = j
<2> SUFFICES ASSUME NEW i \in 1..n, NEW j \in 1..n, i # j PROVE s[i] # s[j]
  BY <1>2
<2>1. i < j \/ j < i
  BY <1>1
<2> QED
  BY <2>1, <1>2 DEF Enumerates
<1>5. /\ \A i, j \in DOMAIN s : i < j => <<s[i], s[j]>> \in R
      /\ \A x \in S : \E i \in DOMAIN s : s[i] = x
  BY DEF Enumerates
<1> QED
  BY <1>1, <1>2, <1>3, <1>4, <1>5

(* The list of get_announcements is whole. *)
LEMMA AnnouncementsWhole ==
  ASSUME NEW w0, AWorld(w0), NEW n, NEW r, ARequest(r), r.tool = "get_announcements"
  PROVE  Whole(WorldOf(w0, n), r, All(WorldOf(w0, n), r))
<1> DEFINE w == WorldOf(w0, n)
           L == All(w, r)
           S == {a \in w0.announcements : a.server = r.server /\ Lies(a.date, DayBound(r.since), DayBound(r.until))}
<1>1. L = AnnouncementsOf(w, r)
  BY DEF All
<1>2. Enumerates(L, S, Newness(S)) /\ IsFiniteSet(S) /\ \A a, b \in S : a.id = b.id => a = b
  BY <1>1, AnnouncementsListed
<1>3. \A x : IdIn(r, x) = x.id
  BY DEF IdIn
<1>4. Owed(w, r) = {a.id : a \in S}
<2>1. w.announcements = w0.announcements
  BY WorldFields
<2>2. Owed(w, r) = {a.id : a \in {x \in w.announcements : x.server = r.server /\ Lies(x.date, DayBound(r.since), DayBound(r.until))}}
  BY Zenon DEF Owed
<2> HIDE DEF w
<2> QED
  BY <2>1, <2>2
<1>5. \A x, y : InTurn(w, r, x, y)
  BY DEF InTurn
<1>6. \A a \in S : a.id \in Int
  BY DEF AWorld
<1> HIDE DEF w, L, S
<1>7. /\ DOMAIN L = 1..Len(L) /\ Len(L) \in Nat /\ L \in Seq(S)
      /\ \A i \in DOMAIN L : L[i] \in S
      /\ \A i, j \in DOMAIN L : L[i] = L[j] => i = j
      /\ \A x \in S : \E i \in DOMAIN L : L[i] = x
<2>1. Enumerates(L, S, Newness(S)) /\ IsFiniteSet(S)
  BY <1>2
<2> QED
  BY <2>1, Spread, Zenon
<1>8. {IdIn(r, L[i]) : i \in DOMAIN L} = Owed(w, r)
  BY <1>3, <1>4, <1>7
<1>9. \A i \in DOMAIN L : IdIn(r, L[i]) \in Int
  BY <1>3, <1>6, <1>7
<1>10. \A i, j \in DOMAIN L : IdIn(r, L[i]) = IdIn(r, L[j]) => i = j
  BY <1>2, <1>3, <1>7
<1>11. Whole(w, r, L)
  BY <1>5, <1>7, <1>8, <1>9, <1>10, Zenon DEF Whole
<1> QED
  BY <1>11 DEF w, L

(* The list of find_operators is whole. *)
LEMMA OperatorsWhole ==
  ASSUME NEW w0, AWorld(w0), NEW n, NEW r, r.tool = "find_operators"
  PROVE  Whole(WorldOf(w0, n), r, All(WorldOf(w0, n), r))
<1> DEFINE w == WorldOf(w0, n)
           L == All(w, r)
           S == IF w.domain THEN Offering(w0, r.server, r.room, r.faction, r.collab) ELSE {}
<1>1. L = FilterOperators(w, r)
  BY DEF All
<1>2. /\ Enumerates(L, S, Rareness(S)) /\ IsFiniteSet(S)
      /\ S \subseteq w0.operators /\ \A a \in S : a.server = r.server
  BY <1>1, OperatorsListed
<1>3. \A x : IdIn(r, x) = x.id
  BY DEF IdIn
<1>4. Owed(w, r) = {o.id : o \in ToSet(L)}
  BY <1>1, Zenon DEF Owed
<1>5. \A x, y : InTurn(w, r, x, y) <=> Rarity(x) >= Rarity(y)
  BY DEF InTurn
<1> HIDE DEF w, L, S
<1>6. \A a \in S : a.id \in Int /\ Rarity(a) \in Int
  BY <1>2, OperatorsKept
<1>6a. \A a, b \in S : a.id = b.id => a = b
  BY <1>2, OperatorsKept
<1>7. /\ DOMAIN L = 1..Len(L) /\ Len(L) \in Nat /\ L \in Seq(S)
      /\ \A i \in DOMAIN L : L[i] \in S
      /\ \A i, j \in DOMAIN L : L[i] = L[j] => i = j
      /\ \A i, j \in DOMAIN L : i < j => <<L[i], L[j]>> \in Rareness(S)
<2>1. Enumerates(L, S, Rareness(S)) /\ IsFiniteSet(S)
  BY <1>2
<2> QED
  BY <2>1, Spread, Zenon
<1>8. {IdIn(r, L[i]) : i \in DOMAIN L} = Owed(w, r)
  BY <1>3, <1>4 DEF ToSet
<1>9. \A i, j \in DOMAIN L : i < j => InTurn(w, r, L[i], L[j])
<2> SUFFICES ASSUME NEW i \in DOMAIN L, NEW j \in DOMAIN L, i < j PROVE Rarity(L[i]) >= Rarity(L[j])
  BY <1>5
<2>1. <<L[i], L[j]>> \in Rareness(S)
  BY <1>7
<2>2. Rarity(L[i]) > Rarity(L[j]) \/ Rarity(L[i]) = Rarity(L[j])
  BY <2>1 DEF Rareness
<2>3. Rarity(L[i]) \in Int /\ Rarity(L[j]) \in Int
  BY <1>6, <1>7
<2> QED
  BY <2>2, <2>3
<1>10. \A i \in DOMAIN L : IdIn(r, L[i]) \in Int
  BY <1>3, <1>6, <1>7
<1>11. \A i, j \in DOMAIN L : IdIn(r, L[i]) = IdIn(r, L[j]) => i = j
  BY <1>3, <1>6a, <1>7
<1>12. Whole(w, r, L)
  BY <1>7, <1>8, <1>9, <1>10, <1>11, Zenon DEF Whole
<1> QED
  BY <1>12 DEF w, L

(* The list of get_my_inventory is whole. *)
LEMMA InventoryWhole ==
  ASSUME NEW w0, AWorld(w0), NEW n, NEW r, r.tool = "get_my_inventory", Stored(w0, n)
  PROVE  Whole(WorldOf(w0, n), r, All(WorldOf(w0, n), r))
<1> DEFINE w == WorldOf(w0, n)
           L == All(w, r)
           S == DOMAIN Owned(w).inventory
           R == {z \in S \X S : z[1] < z[2]}
<1>1. L = OrderBy(S, LAMBDA a, b : a < b)
  BY Zenon DEF All
<1>2. Enumerates(L, S, R) /\ IsFiniteSet(S) /\ S \subseteq Int
<2>1. Enumerates(OrderBy(S, LAMBDA a, b : a < b), S, R)
  BY InventoryListed, Zenon
<2>2. IsFiniteSet(S) /\ S \subseteq Int
  BY OwnedRows
<2> HIDE DEF S, R, L
<2> QED
  BY <2>1, <2>2, <1>1, Zenon
<1>3. \A x : IdIn(r, x) = x
  BY DEF IdIn
<1>4. Owed(w, r) = S
<2>1. w.account = w0.accounts[n]
  BY WorldFields
<2>2. Owed(w, r) = {i \in DOMAIN w.account.user.inventory : i # NoId /\ w.account.user.inventory[i] > 0}
  BY Zenon DEF Owed
<2>3. S = {i \in DOMAIN w0.accounts[n].user.inventory : i # NoId /\ w0.accounts[n].user.inventory[i] > 0}
  BY OwnedRows
<2> HIDE DEF w, S
<2> QED
  BY <2>1, <2>2, <2>3
<1>5. \A x, y : InTurn(w, r, x, y) <=> x < y
  BY DEF InTurn
<1>6. \A x, y \in S : <<x, y>> \in R => x < y
  OBVIOUS
<1> HIDE DEF w, L, S, R
<1>7. /\ DOMAIN L = 1..Len(L) /\ Len(L) \in Nat /\ L \in Seq(S)
      /\ \A i \in DOMAIN L : L[i] \in S
      /\ \A i, j \in DOMAIN L : L[i] = L[j] => i = j
      /\ \A i, j \in DOMAIN L : i < j => <<L[i], L[j]>> \in R
      /\ \A x \in S : \E i \in DOMAIN L : L[i] = x
  BY <1>2, Spread
<1>8. {IdIn(r, L[i]) : i \in DOMAIN L} = Owed(w, r)
  BY <1>3, <1>4, <1>7
<1>9. \A i, j \in DOMAIN L : i < j => InTurn(w, r, L[i], L[j])
  BY <1>5, <1>6, <1>7
<1>10. \A i \in DOMAIN L : IdIn(r, L[i]) \in Int
  BY <1>2, <1>3, <1>7
<1>11. \A i, j \in DOMAIN L : IdIn(r, L[i]) = IdIn(r, L[j]) => i = j
  BY <1>3, <1>7
<1>12. Whole(w, r, L)
  BY <1>7, <1>8, <1>9, <1>10, <1>11, Zenon DEF Whole
<1> QED
  BY <1>12 DEF w, L

(* The list of get_my_roster is whole. *)
LEMMA RosterWhole ==
  ASSUME NEW w0, AWorld(w0), NEW n, NEW r, r.tool = "get_my_roster", Stored(w0, n)
  PROVE  Whole(WorldOf(w0, n), r, All(WorldOf(w0, n), r))
<1> DEFINE w == WorldOf(w0, n)
           L == All(w, r)
           S == Matching(w, r)
           R == Trainedness(w, r.server, S)
<1>1. L = RosterOrder(w, r, S)
  BY Zenon DEF All
<1>2. /\ Enumerates(L, S, R)
      /\ \A a \in S : a.char \in Int /\ Rarity(BuildOf(w, r.server, a.char)) \in Int
      /\ \A a, b \in S : a.char = b.char => a = b
  BY <1>1, RosterListed
<1>2a. IsFiniteSet(S)
<2>1. S \subseteq Owned(w).operators
  BY DEF Matching
<2>2. IsFiniteSet(Owned(w).operators)
  BY OwnedRows
<2> QED
  BY <2>1, <2>2, FS_Subset
<1>3. \A x : IdIn(r, x) = x.char
  BY DEF IdIn
<1>4. Owed(w, r) = {op.char : op \in S}
  BY Zenon DEF Owed
<1>5. \A x, y : InTurn(w, r, x, y) <=> Rarity(BuildOf(w, r.server, x.char)) >= Rarity(BuildOf(w, r.server, y.char))
  BY DEF InTurn
<1>6. \A x, y \in S : <<x, y>> \in R => \/ Rarity(BuildOf(w, r.server, x.char)) > Rarity(BuildOf(w, r.server, y.char))
                                        \/ Rarity(BuildOf(w, r.server, x.char)) = Rarity(BuildOf(w, r.server, y.char))
  BY DEF Trainedness, Ahead
<1> HIDE DEF w, L, S, R
<1>7. /\ DOMAIN L = 1..Len(L) /\ Len(L) \in Nat /\ L \in Seq(S)
      /\ \A i \in DOMAIN L : L[i] \in S
      /\ \A i, j \in DOMAIN L : L[i] = L[j] => i = j
      /\ \A i, j \in DOMAIN L : i < j => <<L[i], L[j]>> \in R
      /\ \A x \in S : \E i \in DOMAIN L : L[i] = x
  BY <1>2, <1>2a, Spread
<1>8. {IdIn(r, L[i]) : i \in DOMAIN L} = Owed(w, r)
  BY <1>3, <1>4, <1>7
<1>9. \A i, j \in DOMAIN L : i < j => InTurn(w, r, L[i], L[j])
<2> SUFFICES ASSUME NEW i \in DOMAIN L, NEW j \in DOMAIN L, i < j
             PROVE  Rarity(BuildOf(w, r.server, L[i].char)) >= Rarity(BuildOf(w, r.server, L[j].char))
  BY <1>5
<2>1. /\ <<L[i], L[j]>> \in R /\ L[i] \in S /\ L[j] \in S
  BY <1>7
<2> QED
  BY <2>1, <1>2, <1>6
<1>10. \A i \in DOMAIN L : IdIn(r, L[i]) \in Int
  BY <1>2, <1>3, <1>7
<1>11. \A i, j \in DOMAIN L : IdIn(r, L[i]) = IdIn(r, L[j]) => i = j
  BY <1>2, <1>3, <1>7
<1>12. Whole(w, r, L)
  BY <1>7, <1>8, <1>9, <1>10, <1>11, Zenon DEF Whole
<1> QED
  BY <1>12 DEF w, L

(* Each of the four lists is whole. *)
LEMMA ListsWhole ==
  ASSUME NEW w0, AWorld(w0), NEW n, NEW r, ARequest(r), r.tool \in Plain, r.tool \in PlainOfAccount => Stored(w0, n)
  PROVE  Whole(WorldOf(w0, n), r, All(WorldOf(w0, n), r))
  BY AnnouncementsWhole, OperatorsWhole, InventoryWhole, RosterWhole DEF Plain, PlainOfAccount

(* And does not depend on the page that is asked for. *)
LEMMA SameList ==
  ASSUME NEW w, NEW r, ARequest(r), r.tool \in Plain, NEW p, NEW s
  PROVE  All(w, Cursor(r, p, s)) = All(w, r)
<1> DEFINE c == Cursor(r, p, s)
<1>1. \A k \in DOMAIN r \ {"page", "size"} : c[k] = r[k]
  BY CursorFields
<1>2. {"tool", "server"} \subseteq DOMAIN r
  BY DEF ARequest
<1> HIDE DEF c
<1>3. c.tool = r.tool /\ c.server = r.server
  BY <1>1, <1>2
<1>4. CASE r.tool = "get_announcements"
<2>1. {"since", "until"} \subseteq DOMAIN r
  BY <1>4 DEF ARequest
<2>2. c.since = r.since /\ c.until = r.until
  BY <1>1, <2>1
<2> DEFINE F(server, since, until) ==
             NewestFirst({a \in w.announcements : a.server = server /\ InWindow(a.date, DayBound(since), DayBound(until))}, "date")
<2>3. AnnouncementsOf(w, c) = F(c.server, c.since, c.until) /\ AnnouncementsOf(w, r) = F(r.server, r.since, r.until)
  BY Zenon DEF AnnouncementsOf
<2> HIDE DEF F
<2>4. AnnouncementsOf(w, c) = AnnouncementsOf(w, r)
  BY <1>3, <2>2, <2>3
<2>5. All(w, c) = AnnouncementsOf(w, c) /\ All(w, r) = AnnouncementsOf(w, r)
  BY <1>3, <1>4 DEF All
<2> QED
  BY <2>4, <2>5 DEF c
<1>5. CASE r.tool = "get_my_inventory"
<2> DEFINE L == OrderBy(DOMAIN Owned(w).inventory, LAMBDA a, b : a < b)
<2>1. \A q : q.tool = "get_my_inventory" => All(w, q) = L
  BY Zenon DEF All
<2> HIDE DEF L
<2> QED
  BY <1>3, <1>5, <2>1 DEF c
<1>6. CASE r.tool \in {"find_operators", "get_my_roster"}
<2>1. {"room", "faction", "collab"} \subseteq DOMAIN r
  BY <1>6 DEF ARequest
<2>2. c.room = r.room /\ c.faction = r.faction /\ c.collab = r.collab
  BY <1>1, <2>1
<2>3. FilterOperators(w, c) = FilterOperators(w, r)
  BY <1>3, <2>2, SameFilter
<2>4. CASE r.tool = "find_operators"
<3>1. All(w, c) = FilterOperators(w, c) /\ All(w, r) = FilterOperators(w, r)
  BY <1>3, <2>4 DEF All
<3> QED
  BY <2>3, <3>1 DEF c
<2>5. CASE r.tool = "get_my_roster"
<3>1. {"rarity", "elite"} \subseteq DOMAIN r
  BY <2>5 DEF ARequest
<3>2. c.rarity = r.rarity /\ c.elite = r.elite
  BY <1>1, <3>1
<3>3. Filtered(c) = Filtered(r)
  BY <2>2, Zenon DEF Filtered
<3>4. Matching(w, c) = Matching(w, r)
<4> DEFINE F(server, rarity, elite, filtered, list) ==
             {op \in Owned(w).operators :
               /\ rarity # None => Rarity(BuildOf(w, server, op.char)) >= rarity
               /\ elite # None => op.elite >= elite
               /\ filtered => BuildOf(w, server, op.char) \in ToSet(list)}
<4>1. /\ Matching(w, c) = F(c.server, c.rarity, c.elite, Filtered(c), FilterOperators(w, c))
      /\ Matching(w, r) = F(r.server, r.rarity, r.elite, Filtered(r), FilterOperators(w, r))
  BY Zenon DEF Matching
<4> HIDE DEF F
<4> QED
  BY <4>1, <1>3, <2>3, <3>2, <3>3, Zenon
<3>5. RosterOrder(w, c, Matching(w, c)) = RosterOrder(w, r, Matching(w, r))
<4> DEFINE G(server, ops) == [i \in 1..Cardinality(ops) |-> CHOOSE x \in ops :
                                 Cardinality({y \in ops : Ahead(w, server, y, x)}) = i - 1]
<4>1. \A ops : RosterOrder(w, c, ops) = G(c.server, ops) /\ RosterOrder(w, r, ops) = G(r.server, ops)
  BY Zenon DEF RosterOrder, OrderBy, Ahead
<4> HIDE DEF G
<4> QED
  BY <4>1, <1>3, <3>4, Zenon
<3>6. All(w, c) = RosterOrder(w, c, Matching(w, c)) /\ All(w, r) = RosterOrder(w, r, Matching(w, r))
  BY <1>3, <2>5 DEF All
<3> QED
  BY <3>5, <3>6 DEF c
<2> QED
  BY <1>6, <2>4, <2>5
<1> QED
  BY <1>4, <1>5, <1>6 DEF Plain

-------------------------------------------------------------------------------
(* What the envelope leaves of the fields a reader uses. *)

(* Cleaning drops the fields that are null, and leaves those that are not nested. *)
LEMMA Cleaned ==
  ASSUME NEW row, NEW f
  PROVE  /\ f \in DOMAIN CleanRow(row) <=> f \in DOMAIN row /\ row[f] # None
         /\ f \in DOMAIN row /\ row[f] # None /\ f \notin Nested => CleanRow(row)[f] = row[f]
  BY DEF CleanRow, DropNulls

(* Cleaning keeps every section of a payload, and cleans it row by row. *)
LEMMA CleanedKeys ==
  ASSUME NEW data
  PROVE  /\ DOMAIN CleanPayload(data) = DOMAIN data
         /\ \A k \in DOMAIN data : CleanPayload(data)[k] = [i \in DOMAIN data[k] |-> CleanRow(data[k][i])]
  BY DEF CleanPayload

(* A page says there is more exactly when the rows up to its end are not all. *)
LEMMA MorePages ==
  ASSUME NEW p, NEW s, NEW n
  PROVE  CleanRow(SectionPage(p, s, n)).has_more = (p * s < n)
<1> DEFINE row == SectionPage(p, s, n)
<1>1. "has_more" \in DOMAIN row
  BY DEF SectionPage
<1>2. row["has_more"] = (p * s < n)
  BY Zenon DEF SectionPage
<1>3. (p * s < n) \in BOOLEAN
  OBVIOUS
<1>4. row["has_more"] # None
  BY <1>2, <1>3, AnswersAssumption
<1>5. "has_more" \notin Nested
  BY DEF Nested
<1> HIDE DEF row
<1>6. CleanRow(row)["has_more"] = row["has_more"]
  BY <1>1, <1>4, <1>5, Cleaned
<1> QED
  BY <1>2, <1>6, Zenon DEF row

(* A page counts the rows of the whole list. *)
LEMMA TotalRows ==
  ASSUME NEW p, NEW s, NEW n \in Nat
  PROVE  CleanRow(SectionPage(p, s, n)).total = n
<1> DEFINE row == SectionPage(p, s, n)
<1>1. "total" \in DOMAIN row /\ row["total"] = n /\ n # None
  BY AnswersAssumption DEF SectionPage
<1> HIDE DEF row
<1>2. CleanRow(row)["total"] = n
  BY <1>1, Cleaned DEF Nested
<1> QED
  BY <1>2 DEF row

(* An empty payload has no section. *)
LEMMA NoKeys == DOMAIN Nothing = {}
  BY DEF Nothing

(* What an answer says of a section that was cut. *)
Cuts == {"trimmed", "image_shed"}

(* An error carries its message or nothing. *)
LEMMA Errors ==
  ASSUME NEW st
  PROVE  LET e == Error(st)
         IN /\ "message" \in DOMAIN e.data \/ <<"withheld">> \in e.lims
            /\ DOMAIN e.data \subseteq {"message"}
            /\ \A l \in e.lims : l[1] \notin Cuts
<1> DEFINE data == [message |-> <<[text |-> st]>>]
           e == Error(st)
<1>1. e = Build(st, data, {}, {})
  BY Zenon DEF Error
<1>2. DOMAIN data = {"message"}
  OBVIOUS
<1> HIDE DEF data, e
<1>3. \/ e.data = CleanPayload(data) /\ e.status = st /\ e.lims = Caveats(data, {})
      \/ e.data = Nothing /\ e.status = "partial" /\ e.lims = Caveats(data, {}) \cup {<<"withheld">>}
  BY <1>1, Built
<1>4. DOMAIN CleanPayload(data) = DOMAIN data
  BY CleanedKeys
<1>5. \A l \in Caveats(data, {}) \cup {<<"withheld">>} : l[1] \notin Cuts
  BY DEF Caveats, Cuts
<1>6. /\ "message" \in DOMAIN e.data \/ <<"withheld">> \in e.lims
      /\ DOMAIN e.data \subseteq {"message"}
  BY <1>2, <1>3, <1>4, NoKeys
<1>7. \A l \in e.lims : l[1] \notin Cuts
  BY <1>3, <1>5
<1> QED
  BY <1>6, <1>7 DEF e

(* What an identity shows: its id, and its rarity if it is known. *)
LEMMA Shown ==
  ASSUME NEW id \in Int, NEW build, NEW rest, "rarity" \notin DOMAIN rest,
         NEW row, row = Identity(id, build) ++ rest
  PROVE  CleanRow(row).game_id = id /\ RarityOf(CleanRow(row)) = Rarity(build)
<1> DEFINE a == [game_id |-> id]
           b == IF build = None THEN Nothing
                ELSE [display_name |-> build.name, rarity |-> build.rarity, profession |-> build.profession]
<1>1. Identity(id, build) = a ++ b
  BY Zenon DEF Identity
<1>2. "game_id" \in DOMAIN a /\ a["game_id"] = id /\ "rarity" \notin DOMAIN a
  OBVIOUS
<1>3. "rarity" \in DOMAIN b <=> build # None
  BY NoKeys
<1>4. build # None => b["rarity"] = build.rarity
  OBVIOUS
<1> HIDE DEF a, b
<1>5. "game_id" \in DOMAIN (a ++ b) /\ (a ++ b)["game_id"] = id
  BY <1>2, OverKey
<1>6. "rarity" \in DOMAIN (a ++ b) <=> build # None
  BY <1>2, <1>3, OverKey
<1>7. build # None => (a ++ b)["rarity"] = build.rarity
  BY <1>2, <1>3, <1>4, OverKey
<1>8. row = (a ++ b) ++ rest
  BY <1>1
<1>9. "game_id" \in DOMAIN row /\ row["game_id"] = id
  BY <1>5, <1>8, OverKey
<1>10. "rarity" \in DOMAIN row <=> build # None
  BY <1>6, <1>8, OverKey
<1>11. build # None => row["rarity"] = build.rarity
  BY <1>6, <1>7, <1>8, OverKey
<1>12. CleanRow(row).game_id = id
  BY <1>9, Cleaned, AnswersAssumption DEF Nested
<1>13. "rarity" \in DOMAIN CleanRow(row) <=> build # None /\ build.rarity # None
  BY <1>10, <1>11, Cleaned
<1>14. "rarity" \in DOMAIN CleanRow(row) => CleanRow(row)["rarity"] = build.rarity
  BY <1>10, <1>11, <1>13, Cleaned DEF Nested
<1>15. RarityOf(CleanRow(row)) = Rarity(build)
  BY <1>13, <1>14 DEF RarityOf, Rarity
<1> QED
  BY <1>12, <1>15

-------------------------------------------------------------------------------
(* Cutting a page off a list. *)

(* The smaller of two numbers. *)
LEMMA MinOfTwo ==
  ASSUME NEW a \in Int, NEW b \in Int
  PROVE  Min({a, b}) = IF a <= b THEN a ELSE b
<1>1. \E x \in {a, b} : \A y \in {a, b} : x <= y
  OBVIOUS
<1>2. Min({a, b}) = CHOOSE x \in {a, b} : \A y \in {a, b} : x <= y
  BY DEF Min
<1>3. Min({a, b}) \in {a, b} /\ \A y \in {a, b} : Min({a, b}) <= y
  BY <1>1, <1>2
<1> QED
  BY <1>3

(* A page is the next rows of the list, as many as it holds or there are. *)
LEMMA Paging ==
  ASSUME NEW S, NEW L \in Seq(S), NEW p \in Nat \ {0}, NEW s \in Nat \ {0}, (p - 1) * s <= Len(L)
  PROVE  LET q == (p - 1) * s
             P == PageOf(L, p, s)
         IN /\ q \in Nat /\ p * s = q + s
            /\ P \in Seq(S) /\ Len(P) \in Nat /\ DOMAIN P = 1..Len(P)
            /\ \A i \in 1..Len(P) : P[i] = L[q + i] /\ q + i \in DOMAIN L
            /\ q + Len(P) = IF q + s <= Len(L) THEN q + s ELSE Len(L)
<1> DEFINE q == (p - 1) * s
           P == PageOf(L, p, s)
           n == Len(L)
           last == IF q + s <= n THEN q + s ELSE n
<1>1. q \in Nat /\ p * s = q + s /\ n \in Nat /\ DOMAIN L = 1..n
<2>1. p - 1 \in Nat /\ p = (p - 1) + 1
  OBVIOUS
<2>2. \A k \in Nat : k * s \in Nat /\ (k + 1) * s = k * s + s
  OBVIOUS
<2> QED
  BY <2>1, <2>2
<1>2. q <= n
  OBVIOUS
<1>3. Min({p * s, Len(L)}) = last
<2>1. p * s \in Int /\ Len(L) \in Int
  BY <1>1
<2>2. Min({p * s, Len(L)}) = IF p * s <= Len(L) THEN p * s ELSE Len(L)
  BY <2>1, MinOfTwo
<2> QED
  BY <2>2, <1>1
<1>4. P = SubSeq(L, q + 1, last)
  BY <1>3 DEF PageOf
<1>5. last \in Nat /\ q <= last /\ last <= n
  BY <1>1, <1>2
<1>6. DEFINE m == last - q
<1> HIDE DEF q, n, last, P
<1>7. q + 1 \in 1..(n + 1) /\ last \in ((q + 1) - 1)..n
  BY <1>1, <1>2, <1>5
<1>8. /\ P \in Seq(S) /\ Len(P) = last - (q + 1) + 1
      /\ \A i \in 1..(last - (q + 1) + 1) : P[i] = L[(q + 1) + i - 1]
  BY <1>4, <1>7, SubSeqProperties DEF n
<1>9. Len(P) = last - q /\ DOMAIN P = 1..Len(P)
  BY <1>1, <1>5, <1>8
<1>10. \A i \in 1..Len(P) : P[i] = L[q + i] /\ q + i \in DOMAIN L
  BY <1>1, <1>5, <1>8, <1>9
<1>11. q + Len(P) = last /\ Len(P) \in Nat
  BY <1>1, <1>5, <1>9
<1> QED
  BY <1>1, <1>8, <1>9, <1>10, <1>11 DEF q, P, last, n

-------------------------------------------------------------------------------
(* What an answer to a call for one page is: a page of the list, or a reason. *)
ListOf(r) == CASE r.tool = "get_announcements" -> "announcements"
               [] r.tool = "get_my_inventory"  -> "items"
               [] r.tool \in {"find_operators", "get_my_roster"} -> "operators"
IdOfRow(r, row) == CASE r.tool = "get_announcements" -> row.announce_id
                     [] r.tool = "get_my_inventory"  -> row.item_id
                     [] r.tool \in {"find_operators", "get_my_roster"} -> row.game_id
Rank(w, r, x) == IF r.tool = "find_operators" THEN Rarity(x) ELSE Rarity(BuildOf(w, r.server, x.char))
(* A row stands for an entry of its list. *)
Shows(w, r, row, x) ==
  /\ IdOfRow(r, row) = IdIn(r, x)
  /\ r.tool \in {"find_operators", "get_my_roster"} => RarityOf(row) = Rank(w, r, x)
Proper(e, w, r, p, s) ==
  LET L == All(w, r)
      P == PageOf(L, p, s)
      k == ListOf(r)
  IN /\ {k, "page"} \subseteq DOMAIN e.data /\ "message" \notin DOMAIN e.data
     /\ e.data[k] = [i \in DOMAIN P |-> e.data[k][i]]
     /\ (p - 1) * s <= Len(L) => \A i \in DOMAIN P : Shows(w, r, e.data[k][i], P[i])
     /\ e.data["page"][1].has_more = (p * s < Len(L))
     /\ Len(L) \in Nat => e.data["page"][1].total = Len(L)
     /\ r.tool \in PlainOfAccount => "about" \in DOMAIN e.data /\ e.data["about"][1].synced_at = w.account.synced
Untrimmed(e) == \A l \in e.lims : l[1] \notin Cuts
Framed(e) == WireSize(e) <= Cap /\ e.status = "ok"
(* It says why it has nothing, or it has a page of the list and fits. *)
Sound(e, w, r, p, s) ==
  /\ Untrimmed(e) /\ ("message" \in DOMAIN e.data => DOMAIN e.data = {"message"})
  /\ "message" \in DOMAIN e.data \/ <<"withheld">> \in e.lims \/ (Proper(e, w, r, p, s) /\ Framed(e))

(* What else the list of a tool owes the reader: why it is empty, which rows are of an
   operator the build does not know, and each row as the tool made it. *)
Says(e, w, r, p, s) ==
  LET P == PageOf(All(w, r), p, s)
  IN /\ r.tool = "get_announcements" /\ All(w, r) = <<>> => WhyEmpty(w, r) \subseteq e.lims
     /\ r.tool = "get_my_roster" =>
          /\ <<"unknown_operator">> \in e.lims <=> \E i \in DOMAIN P : BuildOf(w, r.server, P[i].char) = None
          /\ \A i \in DOMAIN P : e.data["operators"][i] = CleanRow(RosterRow(w, Cursor(r, p, s), P[i]))
Full(e, w, r, p, s) == "message" \in DOMAIN e.data \/ <<"withheld">> \in e.lims \/ Says(e, w, r, p, s)

(* An error is a sound answer. *)
LEMMA ErrorSound ==
  ASSUME NEW st, NEW e, e = Error(st), NEW w, NEW r, NEW p, NEW s
  PROVE  Sound(e, w, r, p, s)
  BY Errors DEF Sound, Untrimmed

(* The rows of a page are rows of the list, and have its ids. *)
LEMMA PageIds ==
  ASSUME NEW w, NEW r, Whole(w, r, All(w, r)), NEW p \in Nat \ {0}, NEW s \in Nat \ {0}, (p - 1) * s <= Len(All(w, r))
  PROVE  LET P == PageOf(All(w, r), p, s)
         IN \A i \in DOMAIN P : IdIn(r, P[i]) \in Int /\ \E j \in DOMAIN All(w, r) : P[i] = All(w, r)[j]
<1> DEFINE L == All(w, r)
           P == PageOf(L, p, s)
<1>1. PICK T : L \in Seq(T)
  BY DEF Whole
<1>2. \A i \in DOMAIN L : IdIn(r, L[i]) \in Int
  BY DEF Whole
<1> HIDE DEF L
<1>3. (p - 1) * s <= Len(L)
  BY DEF L
<1>4. \A i \in DOMAIN P : P[i] = L[(p - 1) * s + i] /\ (p - 1) * s + i \in DOMAIN L
  BY <1>1, <1>3, Paging
<1> HIDE DEF P
<1>5. \A i \in DOMAIN P : IdIn(r, P[i]) \in Int /\ \E j \in DOMAIN L : P[i] = L[j]
<2> TAKE i \in DOMAIN P
<2>1. PICK j \in DOMAIN L : P[i] = L[j]
  BY <1>4
<2> QED
  BY <2>1, <1>2
<1> QED
  BY <1>5 DEF P, L

(* What is left to show of a tool's payload. *)
LEMMA PayloadProper ==
  ASSUME NEW e, NEW w, NEW r, NEW p, NEW s, NEW data, NEW lims, NEW prov,
         e = Build("ok", data, prov, lims),
         \A l \in lims : l[1] \notin Cuts,
         "message" \notin DOMAIN data, {ListOf(r), "page"} \subseteq DOMAIN data,
         data["page"] = <<SectionPage(p, s, Len(All(w, r)))>>,
         DOMAIN data[ListOf(r)] = DOMAIN PageOf(All(w, r), p, s),
         (p - 1) * s <= Len(All(w, r)) =>
           \A i \in DOMAIN PageOf(All(w, r), p, s) :
             Shows(w, r, CleanRow(data[ListOf(r)][i]), PageOf(All(w, r), p, s)[i]),
         r.tool \in PlainOfAccount => /\ "about" \in DOMAIN data /\ 1 \in DOMAIN data["about"]
                                      /\ CleanRow(data["about"][1]).synced_at = w.account.synced
  PROVE  Sound(e, w, r, p, s)
<1> DEFINE L == All(w, r)
           P == PageOf(L, p, s)
           k == ListOf(r)
<1>1. \/ e.data = CleanPayload(data) /\ e.lims = Caveats(data, lims) /\ Framed(e)
      \/ e.data = Nothing /\ e.lims = Caveats(data, lims) \cup {<<"withheld">>}
  BY Built DEF Framed
<1>1a. "message" \notin DOMAIN e.data
  BY <1>1, CleanedKeys, NoKeys
<1>2. Untrimmed(e)
<2>1. \A l \in Caveats(data, lims) \cup {<<"withheld">>} : l[1] \notin Cuts
  BY DEF Caveats, Cuts
<2> QED
  BY <1>1, <2>1 DEF Untrimmed
<1>3. CASE e.data = CleanPayload(data) /\ Framed(e)
<2>1. DOMAIN e.data = DOMAIN data /\ \A x \in DOMAIN data : e.data[x] = [i \in DOMAIN data[x] |-> CleanRow(data[x][i])]
  BY <1>3, CleanedKeys
<2>2. {k, "page"} \subseteq DOMAIN e.data /\ "message" \notin DOMAIN e.data
  BY <2>1
<2>3. e.data[k] = [i \in DOMAIN P |-> CleanRow(data[k][i])]
  BY <2>1
<2>4. e.data["page"][1] = CleanRow(SectionPage(p, s, Len(L)))
<3> DEFINE row == SectionPage(p, s, Len(L))
<3>1. data["page"] = <<row>>
  OBVIOUS
<3> HIDE DEF row
<3>2. e.data["page"] = [i \in DOMAIN data["page"] |-> CleanRow(data["page"][i])]
  BY <2>1
<3>3. 1 \in DOMAIN data["page"] /\ data["page"][1] = row
  BY <3>1
<3> QED
  BY <3>2, <3>3 DEF row
<2>5. e.data["page"][1].has_more = (p * s < Len(L))
  BY <2>4, MorePages, Zenon
<2>5a. ASSUME Len(L) \in Nat PROVE e.data["page"][1].total = Len(L)
<3>1. CleanRow(SectionPage(p, s, Len(L))).total = Len(L)
  BY <2>5a, TotalRows, Zenon
<3> QED
  BY <2>4, <3>1, Zenon
<2>6. r.tool \in PlainOfAccount => "about" \in DOMAIN e.data /\ e.data["about"][1].synced_at = w.account.synced
  BY <2>1, ZenonT(30)
<2> HIDE DEF L, P, k
<2>7. e.data[k] = [i \in DOMAIN P |-> e.data[k][i]]
  BY <2>3
<2>8. (p - 1) * s <= Len(L) => \A i \in DOMAIN P : Shows(w, r, CleanRow(data[k][i]), P[i])
  BY DEF L, P, k
<2>9. \A i \in DOMAIN P : e.data[k][i] = CleanRow(data[k][i])
  BY <2>3
<2>10. (p - 1) * s <= Len(L) => \A i \in DOMAIN P : Shows(w, r, e.data[k][i], P[i])
  BY <2>8, <2>9
<2>11. Proper(e, w, r, p, s)
  BY <2>2, <2>5, <2>5a, <2>6, <2>7, <2>10, Zenon DEF Proper, L, P, k
<2> QED
  BY <1>1a, <1>2, <1>3, <2>11 DEF Sound
<1>4. CASE <<"withheld">> \in e.lims
  BY <1>1a, <1>2, <1>4 DEF Sound
<1> QED
  BY <1>1, <1>3, <1>4

(* The request a page is asked with is the one the walk began with. *)
LEMMA CursorKept ==
  ASSUME NEW r, ARequest(r), r.tool \in Plain, NEW p, NEW s
  PROVE  LET c == Cursor(r, p, s) IN c.tool = r.tool /\ c.server = r.server /\ c.page = p /\ c.size = s
<1>1. {"tool", "server"} \subseteq DOMAIN r
  BY DEF ARequest
<1> QED
  BY <1>1, CursorFields

(* Every answer of get_announcements is sound. *)
LEMMA AnnouncementsSound ==
  ASSUME NEW w0, AWorld(w0), NEW n, NEW r, ARequest(r), r.tool = "get_announcements",
         NEW p \in Nat \ {0}, NEW s \in Nat \ {0},
         NEW e, e = Answer(WorldOf(w0, n), Cursor(r, p, s))
  PROVE  Sound(e, WorldOf(w0, n), r, p, s) /\ Full(e, WorldOf(w0, n), r, p, s)
<1> DEFINE w == WorldOf(w0, n)
           c == Cursor(r, p, s)
           res == AnnouncementsResult(w, c)
           data == [server |-> <<[server |-> c.server]>>,
                    announcements |-> [i \in DOMAIN res.announcements |-> AnnouncementRow(res.announcements[i])],
                    page |-> <<res.page>>]
           L == All(w, r)
           P == PageOf(L, p, s)
<1>1. c.tool = "get_announcements" /\ c.page = p /\ c.size = s
  BY CursorKept DEF Plain
<1>2. L = AnnouncementsOf(w, c)
<2>1. L = All(w, c)
  BY SameList DEF Plain
<2> HIDE DEF c, w, L
<2> QED
  BY <1>1, <2>1 DEF All
<1>3. e = IF Inverted(c.since, c.until) THEN Error("invalid_input") ELSE Build("ok", data, res.prov, res.lims)
<2>1. e = GetAnnouncements(w, c)
<3> HIDE DEF c, w, data, res
<3>1. e = Answer(w, c)
  BY DEF c, w
<3> QED
  BY <1>1, <3>1 DEF Answer, Searches
<2> HIDE DEF c, w
<2> QED
  BY <2>1, Zenon DEF GetAnnouncements, ShapeAnnouncements
<1>4. /\ res.announcements = PageOf(AnnouncementsOf(w, c), c.page, c.size)
      /\ res.page = SectionPage(c.page, c.size, Len(AnnouncementsOf(w, c)))
      /\ \A l \in res.lims : l[1] \notin Cuts
      /\ AnnouncementsOf(w, c) = <<>> => WhyEmpty(w, c) \subseteq res.lims
<2> HIDE DEF c, w
<2>1. /\ res.announcements = PageOf(AnnouncementsOf(w, c), c.page, c.size)
      /\ res.page = SectionPage(c.page, c.size, Len(AnnouncementsOf(w, c)))
      /\ res.lims = If(CoarsenedBounds(c) # {}, {<<"day_bounds", CoarsenedBounds(c)>>})
                    \cup If(AnnouncementsOf(w, c) = <<>>, WhyEmpty(w, c))
  BY DEF AnnouncementsResult
<2>2. \A l \in If(CoarsenedBounds(c) # {}, {<<"day_bounds", CoarsenedBounds(c)>>}) : l[1] \notin Cuts
  BY DEF If, Cuts
<2>3. \A l \in If(AnnouncementsOf(w, c) = <<>>, WhyEmpty(w, c)) : l[1] \notin Cuts
  BY DEF If, WhyEmpty, Cuts
<2>4. AnnouncementsOf(w, c) = <<>> => WhyEmpty(w, c) \subseteq If(AnnouncementsOf(w, c) = <<>>, WhyEmpty(w, c))
  BY DEF If
<2> HIDE DEF res
<2> QED
  BY <2>1, <2>2, <2>3, <2>4
<1>4a. WhyEmpty(w, c) = WhyEmpty(w, r)
<2>1. {"server", "since", "until"} \subseteq DOMAIN r
  BY DEF ARequest
<2>2. c.server = r.server /\ c.since = r.since /\ c.until = r.until
  BY <2>1, CursorFields DEF Plain
<2> HIDE DEF c, w
<2> QED
  BY <2>2 DEF WhyEmpty
<1>5. res.announcements = P /\ res.page = SectionPage(p, s, Len(L))
  BY <1>1, <1>2, <1>4
<1>6. CASE Inverted(c.since, c.until)
<2>1. e = Error("invalid_input")
  BY <1>3, <1>6
<2> HIDE DEF w
<2> QED
  BY <2>1, ErrorSound, Errors DEF w, Full
<1>7. CASE ~Inverted(c.since, c.until)
<2>1. e = Build("ok", data, res.prov, res.lims)
  BY <1>3, <1>7
<2>2. ListOf(r) = "announcements"
  BY DEF ListOf
<2>3. /\ "message" \notin DOMAIN data /\ {"announcements", "page"} \subseteq DOMAIN data
      /\ data["announcements"] = [i \in DOMAIN res.announcements |-> AnnouncementRow(res.announcements[i])]
      /\ data["page"] = <<res.page>>
<3> HIDE DEF c, w, res
<3> QED
  OBVIOUS
<2>4. r.tool \notin PlainOfAccount
  BY DEF PlainOfAccount
<2> DEFINE prov == res.prov
           lims == res.lims
<2>5. \A l \in lims : l[1] \notin Cuts
  BY <1>4
<2>6. Whole(w, r, L)
  BY AnnouncementsWhole
<2>6a. e = Build("ok", data, prov, lims)
  BY <2>1
<2> HIDE DEF c, w, res, data, L, P, prov, lims
<2>7. data["announcements"] = [i \in DOMAIN P |-> AnnouncementRow(P[i])] /\ data["page"] = <<SectionPage(p, s, Len(L))>>
  BY <1>5, <2>3
<2>8. ASSUME (p - 1) * s <= Len(L), NEW i \in DOMAIN P
      PROVE  Shows(w, r, CleanRow(data["announcements"][i]), P[i])
<3>1. IdIn(r, P[i]) \in Int /\ IdIn(r, P[i]) = P[i].id
<4>1. Whole(w, r, All(w, r)) /\ (p - 1) * s <= Len(All(w, r)) /\ i \in DOMAIN PageOf(All(w, r), p, s)
  BY <2>6, <2>8 DEF L, P
<4>2. IdIn(r, PageOf(All(w, r), p, s)[i]) \in Int
  BY <4>1, PageIds
<4> QED
  BY <4>2 DEF IdIn, L, P
<3>2. data["announcements"][i] = AnnouncementRow(P[i])
  BY <2>7, <2>8
<3>3. "announce_id" \in DOMAIN AnnouncementRow(P[i]) /\ AnnouncementRow(P[i])["announce_id"] = P[i].id
  BY DEF AnnouncementRow
<3>4. P[i].id # None
  BY <3>1, AnswersAssumption
<3>5. CleanRow(AnnouncementRow(P[i]))["announce_id"] = P[i].id
  BY <3>3, <3>4, Cleaned DEF Nested
<3>6. IdOfRow(r, CleanRow(data["announcements"][i])) = CleanRow(AnnouncementRow(P[i]))["announce_id"]
  BY <3>2 DEF IdOfRow
<3> QED
  BY <3>1, <3>5, <3>6 DEF Shows
<2>9. DOMAIN data["announcements"] = DOMAIN P
  BY <2>7
<2>10. (p - 1) * s <= Len(All(w, r)) =>
          \A i \in DOMAIN PageOf(All(w, r), p, s) :
             Shows(w, r, CleanRow(data[ListOf(r)][i]), PageOf(All(w, r), p, s)[i])
  BY <2>2, <2>8 DEF L, P
<2>11. /\ {ListOf(r), "page"} \subseteq DOMAIN data
       /\ data["page"] = <<SectionPage(p, s, Len(All(w, r)))>>
       /\ DOMAIN data[ListOf(r)] = DOMAIN PageOf(All(w, r), p, s)
  BY <2>2, <2>3, <2>7, <2>9 DEF L, P
<2>12. Sound(e, w, r, p, s)
  BY <2>3, <2>4, <2>5, <2>6a, <2>10, <2>11, PayloadProper
<2>13. Says(e, w, r, p, s)
<3>1. Caveats(data, lims) \subseteq e.lims
  BY <2>6a, Built
<3>2. lims \subseteq e.lims
  BY <3>1 DEF Caveats
<3>3. L = <<>> => WhyEmpty(w, r) \subseteq e.lims
  BY <1>2, <1>4, <1>4a, <3>2 DEF lims
<3> QED
  BY <3>3, Zenon DEF Says, L
<2> QED
  BY <2>12, <2>13 DEF w, Full
<1> QED
  BY <1>6, <1>7

(* As PayloadProper, for the tools whose answer carries an enum legend. *)
LEMMA RowsProper ==
  ASSUME NEW e, NEW w, NEW r, NEW p, NEW s, NEW rows, NEW data, NEW lims, NEW prov,
         e = OperatorRowsOk(rows, data, prov, lims),
         \A l \in lims : l[1] \notin Cuts,
         "message" \notin DOMAIN data, {ListOf(r), "page"} \subseteq DOMAIN data,
         data["page"] = <<SectionPage(p, s, Len(All(w, r)))>>,
         DOMAIN data[ListOf(r)] = DOMAIN PageOf(All(w, r), p, s),
         (p - 1) * s <= Len(All(w, r)) =>
           \A i \in DOMAIN PageOf(All(w, r), p, s) :
             Shows(w, r, CleanRow(data[ListOf(r)][i]), PageOf(All(w, r), p, s)[i]),
         r.tool \in PlainOfAccount => /\ "about" \in DOMAIN data /\ 1 \in DOMAIN data["about"]
                                      /\ CleanRow(data["about"][1]).synced_at = w.account.synced
  PROVE  Sound(e, w, r, p, s)
<1> DEFINE X == IF EmitsProfession(rows) THEN [enum_legend |-> <<[profession |-> TRUE]>>] ELSE Nothing
           d == data ++ X
           ls == lims \cup If(EmitsProfession(rows), {<<"enum_note">>})
<1>1. e = Build("ok", d, prov, ls)
  BY Zenon DEF OperatorRowsOk
<1>2. "message" \notin DOMAIN X
  BY NoKeys
<1>3. \A l \in If(EmitsProfession(rows), {<<"enum_note">>}) : l[1] \notin Cuts
  BY DEF If, Cuts
<1>4. \A l \in ls : l[1] \notin Cuts
  BY <1>3
<1> HIDE DEF X
<1>5. "message" \notin DOMAIN d /\ \A k \in DOMAIN data : k \in DOMAIN d /\ d[k] = data[k]
  BY <1>2, OverKey
<1> HIDE DEF d, ls
<1>6. {ListOf(r), "page"} \subseteq DOMAIN d /\ d["page"] = data["page"] /\ d[ListOf(r)] = data[ListOf(r)]
  BY <1>5
<1>7. r.tool \in PlainOfAccount => /\ "about" \in DOMAIN d /\ 1 \in DOMAIN d["about"]
                                   /\ CleanRow(d["about"][1]).synced_at = w.account.synced
  BY <1>5
<1>8. (p - 1) * s <= Len(All(w, r)) =>
           \A i \in DOMAIN PageOf(All(w, r), p, s) :
             Shows(w, r, CleanRow(d[ListOf(r)][i]), PageOf(All(w, r), p, s)[i])
  BY <1>6
<1>9. d["page"] = <<SectionPage(p, s, Len(All(w, r)))>> /\ DOMAIN d[ListOf(r)] = DOMAIN PageOf(All(w, r), p, s)
  BY <1>6
<1> QED
  BY <1>1, <1>4, <1>5, <1>6, <1>7, <1>8, <1>9, PayloadProper

(* What of such a payload and its limitations reaches the reader. *)
LEMMA PayloadKept ==
  ASSUME NEW e, NEW rows, NEW data, NEW prov, NEW lims, e = OperatorRowsOk(rows, data, prov, lims),
         <<"withheld">> \notin e.lims
  PROVE  /\ \A k \in DOMAIN data : e.data[k] = [i \in DOMAIN data[k] |-> CleanRow(data[k][i])]
         /\ <<"unknown_operator">> \in e.lims <=> <<"unknown_operator">> \in lims
<1> DEFINE X == IF EmitsProfession(rows) THEN [enum_legend |-> <<[profession |-> TRUE]>>] ELSE Nothing
           d == data ++ X
           ls == lims \cup If(EmitsProfession(rows), {<<"enum_note">>})
<1>1. e = Build("ok", d, prov, ls)
  BY Zenon DEF OperatorRowsOk
<1>2. <<"unknown_operator">> \in ls <=> <<"unknown_operator">> \in lims
  BY DEF If
<1> HIDE DEF X
<1>3. \A k \in DOMAIN data : k \in DOMAIN d /\ d[k] = data[k]
  BY OverKey
<1> HIDE DEF d, ls
<1>4. e.data = CleanPayload(d) /\ e.lims = Caveats(d, ls)
  BY <1>1, Built
<1>5. <<"unknown_operator">> \in Caveats(d, ls) <=> <<"unknown_operator">> \in ls
  BY DEF Caveats
<1>6. \A k \in DOMAIN d : e.data[k] = [i \in DOMAIN d[k] |-> CleanRow(d[k][i])]
  BY <1>4, CleanedKeys
<1> QED
  BY <1>2, <1>3, <1>4, <1>5, <1>6

(* Every answer of find_operators is sound. *)
LEMMA OperatorsSound ==
  ASSUME NEW w0, AWorld(w0), NEW n, NEW r, ARequest(r), r.tool = "find_operators",
         NEW p \in Nat \ {0}, NEW s \in Nat \ {0},
         NEW e, e = Answer(WorldOf(w0, n), Cursor(r, p, s))
  PROVE  Sound(e, WorldOf(w0, n), r, p, s)
<1> DEFINE w == WorldOf(w0, n)
           c == Cursor(r, p, s)
           all == FilterOperators(w, c)
           pg == PageOf(all, c.page, c.size)
           extra(o) == [factions |-> FactionEntries(o), collab |-> o.collab]
           base(o) == IF c.room = None THEN Nothing ELSE [base_skills |-> BaseSkillEntries(o, c.room, None)]
           row(o) == (Identity(o.id, o) ++ extra(o)) ++ base(o)
           rows == [i \in DOMAIN pg |-> row(pg[i])]
           data == [about |-> <<[server |-> c.server, room_type |-> c.room, faction_id |-> c.faction]>>,
                    operators |-> rows, page |-> <<SectionPage(c.page, c.size, Len(all))>>]
           prov == {o.snap : o \in ToSet(all)}
           lims == If(all = <<>>, IF w.domain THEN {<<"no_match">>} ELSE {<<"no_domain">>})
                   \cup If(c.room # None /\ pg # <<>>, {<<"slot_note">>})
                   \cup If(c.collab # None, {<<"collab_note">>})
           L == All(w, r)
           P == PageOf(L, p, s)
<1>1. c.tool = "find_operators" /\ c.page = p /\ c.size = s
  BY CursorKept DEF Plain
<1>2. L = all
<2>1. L = All(w, c)
  BY SameList DEF Plain
<2> HIDE DEF c, w, L
<2> QED
  BY <1>1, <2>1 DEF All
<1>3. e = IF c.faction # None /\ ~KnownFaction(w, c) THEN Error("not_found")
          ELSE OperatorRowsOk(rows, data, prov, lims)
<2>1. e = FindOperators(w, c)
<3> HIDE DEF c, w, data, rows, prov, lims
<3>1. e = Answer(w, c)
  BY DEF c, w
<3> QED
  BY <1>1, <3>1 DEF Answer, Searches
<2> HIDE DEF c, w
<2> QED
  BY <2>1, Zenon DEF FindOperators
<1>4. \A l \in lims : l[1] \notin Cuts
<2> HIDE DEF c, w, all, pg
<2>1. \A l \in If(all = <<>>, IF w.domain THEN {<<"no_match">>} ELSE {<<"no_domain">>}) : l[1] \notin Cuts
  BY DEF If, Cuts
<2>2. \A l \in If(c.room # None /\ pg # <<>>, {<<"slot_note">>}) : l[1] \notin Cuts
  BY DEF If, Cuts
<2>3. \A l \in If(c.collab # None, {<<"collab_note">>}) : l[1] \notin Cuts
  BY DEF If, Cuts
<2> QED
  BY <2>1, <2>2, <2>3
<1>5. /\ "message" \notin DOMAIN data /\ {"operators", "page"} \subseteq DOMAIN data
      /\ data["operators"] = rows
      /\ data["page"] = <<SectionPage(c.page, c.size, Len(all))>>
<2> HIDE DEF c, w, rows, all
<2> QED
  OBVIOUS
<1>6. CASE c.faction # None /\ ~KnownFaction(w, c)
<2>1. e = Error("not_found")
  BY <1>3, <1>6
<2> QED
  BY <2>1, ErrorSound
<1>7. CASE ~(c.faction # None /\ ~KnownFaction(w, c))
<2>1. e = OperatorRowsOk(rows, data, prov, lims)
  BY <1>3, <1>7, Zenon
<2>2. ListOf(r) = "operators" /\ r.tool \notin PlainOfAccount
  BY DEF ListOf, PlainOfAccount
<2>3. Whole(w, r, L)
  BY OperatorsWhole
<2>4. pg = P
  BY <1>1, <1>2
<2>5. \A o : o.id \in Int => CleanRow(row(o)).game_id = o.id /\ RarityOf(CleanRow(row(o))) = Rarity(o)
<3> TAKE o
<3> SUFFICES ASSUME o.id \in Int PROVE CleanRow(row(o)).game_id = o.id /\ RarityOf(CleanRow(row(o))) = Rarity(o)
  OBVIOUS
<3>1. row(o) = Identity(o.id, o) ++ (extra(o) ++ base(o))
  BY DEF ++
<3>2. "rarity" \notin DOMAIN (extra(o) ++ base(o))
<4>1. "rarity" \notin DOMAIN extra(o) /\ "rarity" \notin DOMAIN base(o)
  BY NoKeys
<4> HIDE DEF extra, base
<4> QED
  BY <4>1, OverKey
<3> HIDE DEF row, extra, base
<3> QED
  BY <3>1, <3>2, Shown
<2> HIDE DEF row
<2>6. rows = [i \in DOMAIN P |-> row(P[i])]
  BY <2>4
<2> HIDE DEF c, w, rows, data, L, P, prov, lims, all, pg
<2>7. ASSUME (p - 1) * s <= Len(L), NEW i \in DOMAIN P
      PROVE  Shows(w, r, CleanRow(rows[i]), P[i])
<3>1. IdIn(r, P[i]) \in Int /\ IdIn(r, P[i]) = P[i].id
<4>1. Whole(w, r, All(w, r)) /\ (p - 1) * s <= Len(All(w, r)) /\ i \in DOMAIN PageOf(All(w, r), p, s)
  BY <2>3, <2>7 DEF L, P
<4>2. IdIn(r, PageOf(All(w, r), p, s)[i]) \in Int
  BY <4>1, PageIds
<4> QED
  BY <4>2 DEF IdIn, L, P
<3>2. rows[i] = row(P[i])
  BY <2>6, <2>7
<3>3. CleanRow(rows[i]).game_id = P[i].id /\ RarityOf(CleanRow(rows[i])) = Rarity(P[i])
  BY <2>5, <3>1, <3>2
<3>4. IdOfRow(r, CleanRow(rows[i])) = CleanRow(rows[i]).game_id
  BY DEF IdOfRow
<3>5. Rank(w, r, P[i]) = Rarity(P[i])
  BY DEF Rank
<3> QED
  BY <3>1, <3>3, <3>4, <3>5 DEF Shows
<2>8. (p - 1) * s <= Len(All(w, r)) =>
          \A i \in DOMAIN PageOf(All(w, r), p, s) :
             Shows(w, r, CleanRow(data[ListOf(r)][i]), PageOf(All(w, r), p, s)[i])
  BY <1>5, <2>2, <2>7 DEF L, P
<2>9. /\ {ListOf(r), "page"} \subseteq DOMAIN data
      /\ data["page"] = <<SectionPage(p, s, Len(All(w, r)))>>
      /\ DOMAIN data[ListOf(r)] = DOMAIN PageOf(All(w, r), p, s)
  BY <1>1, <1>2, <1>5, <2>2, <2>6 DEF L, P
<2>10. Sound(e, w, r, p, s)
  BY <1>4, <1>5, <2>1, <2>2, <2>8, <2>9, RowsProper
<2> QED
  BY <2>10 DEF w
<1> QED
  BY <1>6, <1>7

(* The account the answer names is the one it was read from. *)
LEMMA AboutKept ==
  ASSUME NEW w0, AWorld(w0), NEW n, Stored(w0, n), NEW c, NEW rest
  PROVE  /\ CleanRow(Synced(WorldOf(w0, n), c) ++ rest).synced_at = WorldOf(w0, n).account.synced
         /\ WorldOf(w0, n).account.synced = n
<1> DEFINE w == WorldOf(w0, n)
           a == Synced(w, c)
<1>1. n \in DOMAIN w0.accounts /\ AnAccount(w0.accounts[n], n)
  BY DEF AWorld, Stored
<1>2. w.account.synced = n
  BY <1>1, WorldFields DEF AnAccount
<1>3. n # None
<2>1. n \in Int
  BY <1>1 DEF AWorld
<2> QED
  BY <2>1, AnswersAssumption
<1>4. "synced_at" \in DOMAIN a /\ a["synced_at"] = w.account.synced
  BY DEF Synced
<1> HIDE DEF a, w
<1>5. "synced_at" \in DOMAIN (a ++ rest) /\ (a ++ rest)["synced_at"] = w.account.synced
  BY <1>4, OverKey
<1>6. CleanRow(a ++ rest)["synced_at"] = w.account.synced
  BY <1>2, <1>3, <1>5, Cleaned DEF Nested
<1> QED
  BY <1>2, <1>6 DEF a, w

(* The account gate lets a call past only when a user is stored. *)
LEMMA GateOpen ==
  ASSUME NEW w0, AWorld(w0), NEW n \in DOMAIN w0.accounts, NEW c, Gate(WorldOf(w0, n), c) = "ok"
  PROVE  Stored(w0, n)
<1>1. WorldOf(w0, n).account = w0.accounts[n]
  BY WorldFields
<1> QED
  BY <1>1 DEF Gate, Stored

(* A roster row shows the id and the rarity of the operator it is about. *)
LEMMA RosterRowShown ==
  ASSUME NEW w, NEW c, NEW op, op.char \in Int
  PROVE  LET row == CleanRow(RosterRow(w, c, op))
         IN row.game_id = op.char /\ RarityOf(row) = Rarity(BuildOf(w, c.server, op.char))
<1> DEFINE build == BuildOf(w, c.server, op.char)
           a == [elite |-> op.elite, level |-> op.level, potential |-> op.potential, skill_level |-> op.rank]
           b == [masteries |-> {s \in op.skills : s.form = op.char},
                 modules |-> {[module_id |-> m.id, module_type |-> TheOne(Typed(build, m.id), "type"), level |-> m.level] :
                                m \in BaseModules(op)},
                 equipped_module_id |-> IF op.equipped = NoId THEN None ELSE op.equipped]
           d == IF c.room = None \/ build = None THEN Nothing
                ELSE [base_skills |-> BaseSkillEntries(build, c.room, Progress(op))]
           row == RosterRow(w, c, op)
<1>1. row = ((Identity(op.char, build) ++ a) ++ b) ++ d
  BY Zenon DEF RosterRow, AccountIdentity
<1>2. "rarity" \notin DOMAIN a /\ "rarity" \notin DOMAIN b /\ "rarity" \notin DOMAIN d
  BY NoKeys
<1> HIDE DEF a, b, d, row, build
<1>3. row = Identity(op.char, build) ++ (a ++ (b ++ d))
  BY <1>1 DEF ++
<1>4. "rarity" \notin DOMAIN (a ++ (b ++ d))
  BY <1>2, OverKey
<1>5. CleanRow(row).game_id = op.char /\ RarityOf(CleanRow(row)) = Rarity(build)
  BY <1>3, <1>4, Shown
<1> QED
  BY <1>5 DEF build, row

(* Every answer of get_my_roster is sound, and has rows only of a stored account. *)
LEMMA RosterSound ==
  ASSUME NEW w0, AWorld(w0), NEW n \in DOMAIN w0.accounts, NEW r, ARequest(r), r.tool = "get_my_roster",
         NEW p \in Nat \ {0}, NEW s \in Nat \ {0},
         NEW e, e = Answer(WorldOf(w0, n), Cursor(r, p, s))
  PROVE  /\ Sound(e, WorldOf(w0, n), r, p, s) /\ Full(e, WorldOf(w0, n), r, p, s)
         /\ Stored(w0, n) \/ "message" \in DOMAIN e.data \/ <<"withheld">> \in e.lims
<1> DEFINE w == WorldOf(w0, n)
           c == Cursor(r, p, s)
           all == RosterOrder(w, c, Matching(w, c))
           pg == PageOf(all, c.page, c.size)
           rows == [i \in DOMAIN pg |-> RosterRow(w, c, pg[i])]
           build(op) == BuildOf(w, c.server, op.char)
           rest == [room_type |-> c.room, faction_id |-> c.faction]
           about == Synced(w, c) ++ rest
           data == [about |-> <<about>>,
                    operators |-> rows, page |-> <<SectionPage(c.page, c.size, Len(all))>>]
           prov == AccountProvenance(w, {build(op) : op \in ToSet(all)})
           lims == {<<"snapshot_note">>}
                   \cup If(\E op \in ToSet(pg) : build(op) = None, {<<"unknown_operator">>})
                   \cup If(all = <<>>, {<<"no_match">>})
                   \cup If(Filtered(c) /\ ~w.domain, {<<"no_domain">>})
                   \cup If(\E i \in DOMAIN rows : "base_skills" \in DOMAIN rows[i] /\ rows[i].base_skills # <<>>,
                           {<<"slot_note">>})
                   \cup If(c.collab # None, {<<"collab_note">>})
           L == All(w, r)
           P == PageOf(L, p, s)
<1>1. c.tool = "get_my_roster" /\ c.page = p /\ c.size = s /\ c.server = r.server
  BY CursorKept DEF Plain
<1>2. L = all
<2>1. L = All(w, c)
  BY SameList DEF Plain
<2> HIDE DEF c, w, L
<2> QED
  BY <1>1, <2>1 DEF All
<1>3. e = IF Gate(w, c) # "ok" THEN ShapeFailure(Gate(w, c))
          ELSE IF c.faction # None /\ ~KnownFaction(w, c) THEN ShapeFailure("unknown_faction")
          ELSE OperatorRowsOk(rows, data, prov, lims)
<2>1. e = GetMyRoster(w, c)
<3> HIDE DEF c, w, data, rows, prov, lims
<3>1. e = Answer(w, c)
  BY DEF c, w
<3> QED
  BY <1>1, <3>1 DEF Answer, Searches
<2> HIDE DEF c, w
<2> QED
  BY <2>1, Zenon DEF GetMyRoster
<1>4. \A l \in lims : l[1] \notin Cuts
<2> HIDE DEF c, w, all, pg, rows, build
<2>1. \A q : \A k \in {"unknown_operator", "no_match", "no_domain", "slot_note", "collab_note"} :
        \A l \in If(q, {<<k>>}) : l[1] \notin Cuts
  BY DEF If, Cuts
<2>2. \A l \in {<<"snapshot_note">>} : l[1] \notin Cuts
  BY DEF Cuts
<2> DEFINE l1 == If(\E op \in ToSet(pg) : build(op) = None, {<<"unknown_operator">>})
           l2 == If(all = <<>>, {<<"no_match">>})
           l3 == If(Filtered(c) /\ ~w.domain, {<<"no_domain">>})
           l4 == If(\E i \in DOMAIN rows : "base_skills" \in DOMAIN rows[i] /\ rows[i].base_skills # <<>>, {<<"slot_note">>})
           l5 == If(c.collab # None, {<<"collab_note">>})
<2>3. /\ \A l \in l1 : l[1] \notin Cuts
      /\ \A l \in l2 : l[1] \notin Cuts
      /\ \A l \in l3 : l[1] \notin Cuts
      /\ \A l \in l4 : l[1] \notin Cuts
      /\ \A l \in l5 : l[1] \notin Cuts
  BY <2>1, Zenon
<2> HIDE DEF l1, l2, l3, l4, l5
<2>4. \A l \in {<<"snapshot_note">>} \cup l1 \cup l2 \cup l3 \cup l4 \cup l5 : l[1] \notin Cuts
  BY <2>2, <2>3
<2> QED
  BY <2>4, Zenon DEF l1, l2, l3, l4, l5
<1>4a. <<"unknown_operator">> \in lims <=> \E op \in ToSet(pg) : build(op) = None
<2> HIDE DEF c, w, all, pg, rows, build
<2> DEFINE l1 == If(\E op \in ToSet(pg) : build(op) = None, {<<"unknown_operator">>})
           l2 == If(all = <<>>, {<<"no_match">>})
           l3 == If(Filtered(c) /\ ~w.domain, {<<"no_domain">>})
           l4 == If(\E i \in DOMAIN rows : "base_skills" \in DOMAIN rows[i] /\ rows[i].base_skills # <<>>, {<<"slot_note">>})
           l5 == If(c.collab # None, {<<"collab_note">>})
           u == <<"unknown_operator">>
<2>1. \A q : \A k \in {"snapshot_note", "no_match", "no_domain", "slot_note", "collab_note"} :
        u \notin If(q, {<<k>>}) /\ u \notin {<<k>>}
  BY DEF If
<2>2. u \notin l2 /\ u \notin l3 /\ u \notin l4 /\ u \notin l5 /\ u \notin {<<"snapshot_note">>}
  BY <2>1, Zenon
<2>3. u \in l1 <=> \E op \in ToSet(pg) : build(op) = None
  BY DEF If
<2> HIDE DEF l1, l2, l3, l4, l5, u
<2>4. u \in {<<"snapshot_note">>} \cup l1 \cup l2 \cup l3 \cup l4 \cup l5 <=> \E op \in ToSet(pg) : build(op) = None
  BY <2>2, <2>3
<2> QED
  BY <2>4, Zenon DEF l1, l2, l3, l4, l5, u
<1>5. /\ "message" \notin DOMAIN data /\ {"operators", "page"} \subseteq DOMAIN data
      /\ data["operators"] = rows
      /\ data["page"] = <<SectionPage(c.page, c.size, Len(all))>>
      /\ "about" \in DOMAIN data /\ data["about"] = <<about>>
<2> HIDE DEF c, w, rows, all, about
<2> QED
  OBVIOUS
<1>6. CASE Gate(w, c) # "ok" \/ (c.faction # None /\ ~KnownFaction(w, c))
<2>1. PICK st : e = ShapeFailure(st)
<3> HIDE DEF c, w, data, rows, prov, lims
<3> QED
  BY <1>3, <1>6
<2>2. PICK st2 : e = Error(st2)
  BY <2>1, Zenon DEF ShapeFailure
<2> HIDE DEF c, w
<2>3. Sound(e, w, r, p, s) /\ ("message" \in DOMAIN e.data \/ <<"withheld">> \in e.lims)
  BY <2>2, ErrorSound, Errors
<2> QED
  BY <2>3 DEF w, Full
<1>7. CASE Gate(w, c) = "ok" /\ ~(c.faction # None /\ ~KnownFaction(w, c))
<2>0. Stored(w0, n)
  BY <1>7, GateOpen
<2>1. e = OperatorRowsOk(rows, data, prov, lims)
  BY <1>3, <1>7, Zenon
<2>2. ListOf(r) = "operators"
  BY DEF ListOf
<2>3. Whole(w, r, L)
  BY <2>0, RosterWhole
<2>4. pg = P
  BY <1>1, <1>2
<2>5. CleanRow(about).synced_at = w.account.synced
  BY <2>0, AboutKept
<2>6. rows = [i \in DOMAIN P |-> RosterRow(w, c, P[i])]
  BY <2>4
<2>6a. (\E op \in ToSet(pg) : build(op) = None) <=> \E i \in DOMAIN P : BuildOf(w, r.server, P[i].char) = None
<3>1. ToSet(pg) = {P[i] : i \in DOMAIN P}
  BY <2>4, Zenon DEF ToSet
<3> HIDE DEF w, P, pg
<3>2. \A op : build(op) = BuildOf(w, r.server, op.char)
  BY <1>1
<3> HIDE DEF build
<3> QED
  BY <3>1, <3>2
<2> HIDE DEF c, w, rows, data, L, P, prov, lims, all, pg, about, build
<2>7. ASSUME (p - 1) * s <= Len(L), NEW i \in DOMAIN P
      PROVE  Shows(w, r, CleanRow(rows[i]), P[i])
<3>1. IdIn(r, P[i]) \in Int /\ IdIn(r, P[i]) = P[i].char
<4>1. Whole(w, r, All(w, r)) /\ (p - 1) * s <= Len(All(w, r)) /\ i \in DOMAIN PageOf(All(w, r), p, s)
  BY <2>3, <2>7 DEF L, P
<4>2. IdIn(r, PageOf(All(w, r), p, s)[i]) \in Int
  BY <4>1, PageIds
<4> QED
  BY <4>2 DEF IdIn, L, P
<3>2. rows[i] = RosterRow(w, c, P[i])
  BY <2>6, <2>7
<3>3. CleanRow(rows[i]).game_id = P[i].char /\ RarityOf(CleanRow(rows[i])) = Rarity(BuildOf(w, r.server, P[i].char))
  BY <1>1, <3>1, <3>2, RosterRowShown
<3>4. IdOfRow(r, CleanRow(rows[i])) = CleanRow(rows[i]).game_id
  BY DEF IdOfRow
<3>5. Rank(w, r, P[i]) = Rarity(BuildOf(w, r.server, P[i].char))
  BY DEF Rank
<3> QED
  BY <3>1, <3>3, <3>4, <3>5 DEF Shows
<2>8. (p - 1) * s <= Len(All(w, r)) =>
          \A i \in DOMAIN PageOf(All(w, r), p, s) :
             Shows(w, r, CleanRow(data[ListOf(r)][i]), PageOf(All(w, r), p, s)[i])
  BY <1>5, <2>2, <2>7 DEF L, P
<2>9. /\ {ListOf(r), "page"} \subseteq DOMAIN data
      /\ data["page"] = <<SectionPage(p, s, Len(All(w, r)))>>
      /\ DOMAIN data[ListOf(r)] = DOMAIN PageOf(All(w, r), p, s)
  BY <1>1, <1>2, <1>5, <2>2, <2>6 DEF L, P
<2>10. "about" \in DOMAIN data /\ 1 \in DOMAIN data["about"] /\ CleanRow(data["about"][1]).synced_at = w.account.synced
  BY <1>5, <2>5
<2>11. Sound(e, w, r, p, s)
  BY <1>4, <1>5, <2>1, <2>2, <2>8, <2>9, <2>10, RowsProper
<2>12. ASSUME <<"withheld">> \notin e.lims PROVE Says(e, w, r, p, s)
<3>1. /\ e.data["operators"] = [i \in DOMAIN rows |-> CleanRow(rows[i])]
      /\ <<"unknown_operator">> \in e.lims <=> <<"unknown_operator">> \in lims
  BY <1>5, <2>1, <2>12, PayloadKept
<3>2. \A i \in DOMAIN P : e.data["operators"][i] = CleanRow(RosterRow(w, c, P[i]))
  BY <2>6, <3>1
<3>3. <<"unknown_operator">> \in e.lims <=> \E i \in DOMAIN P : BuildOf(w, r.server, P[i].char) = None
  BY <1>4a, <2>6a, <3>1, Zenon
<3> QED
  BY <3>2, <3>3, Zenon DEF Says, L, P, c
<2> QED
  BY <2>0, <2>11, <2>12 DEF w, Full
<1> QED
  BY <1>6, <1>7

(* Every answer of get_my_inventory is sound, and has rows only of a stored account. *)
LEMMA InventorySound ==
  ASSUME NEW w0, AWorld(w0), NEW n \in DOMAIN w0.accounts, NEW r, ARequest(r), r.tool = "get_my_inventory",
         NEW p \in Nat \ {0}, NEW s \in Nat \ {0},
         NEW e, e = Answer(WorldOf(w0, n), Cursor(r, p, s))
  PROVE  /\ Sound(e, WorldOf(w0, n), r, p, s)
         /\ Stored(w0, n) \/ "message" \in DOMAIN e.data \/ <<"withheld">> \in e.lims
<1> DEFINE w == WorldOf(w0, n)
           c == Cursor(r, p, s)
           held == Owned(w).inventory
           all == OrderBy(DOMAIN held, LAMBDA a, b : a < b)
           pg == PageOf(all, c.page, c.size)
           named == {i \in w.items : i.server = c.server /\ i.name # None /\ i.id \in ToSet(pg)}
           name(id) == TheOne({i \in named : i.id = id}, "name")
           rows == [i \in DOMAIN pg |-> [item_id |-> pg[i], display_name |-> name(pg[i]), count |-> held[pg[i]]]]
           rest == [lmd |-> Owned(w).lmd]
           about == Synced(w, c) ++ rest
           data == [about |-> <<about>>, items |-> rows,
                    page |-> <<SectionPage(c.page, c.size, Len(all))>>]
           prov == {w.account.snap} \cup If(named # {}, {x.id : x \in {y \in w.snapshots : y.server = c.server}})
           lims == {<<"snapshot_note">>} \cup If(all = <<>>, {<<"no_items">>})
                   \cup If(\E i \in DOMAIN pg : name(pg[i]) = None, {<<"unnamed_item">>})
           L == All(w, r)
           P == PageOf(L, p, s)
<1>1. c.tool = "get_my_inventory" /\ c.page = p /\ c.size = s /\ c.server = r.server
  BY CursorKept DEF Plain
<1>2. L = all
  BY Zenon DEF All
<1>3. e = IF Gate(w, c) # "ok" THEN ShapeFailure(Gate(w, c)) ELSE OperatorRowsOk(<<>>, data, prov, lims)
<2>1. e = GetMyInventory(w, c)
<3> HIDE DEF c, w, data, rows, prov, lims
<3>1. e = Answer(w, c)
  BY DEF c, w
<3> QED
  BY <1>1, <3>1 DEF Answer, Searches
<2> HIDE DEF c, w
<2> QED
  BY <2>1, Zenon DEF GetMyInventory
<1>4. \A l \in lims : l[1] \notin Cuts
<2> HIDE DEF c, w, all, pg, rows, name
<2>1. \A q : \A k \in {"no_items", "unnamed_item"} : \A l \in If(q, {<<k>>}) : l[1] \notin Cuts
  BY DEF If, Cuts
<2>2. \A l \in {<<"snapshot_note">>} : l[1] \notin Cuts
  BY DEF Cuts
<2> DEFINE l1 == If(all = <<>>, {<<"no_items">>})
           l2 == If(\E i \in DOMAIN pg : name(pg[i]) = None, {<<"unnamed_item">>})
<2>3. /\ \A l \in l1 : l[1] \notin Cuts
      /\ \A l \in l2 : l[1] \notin Cuts
  BY <2>1, Zenon
<2> HIDE DEF l1, l2
<2>4. \A l \in {<<"snapshot_note">>} \cup l1 \cup l2 : l[1] \notin Cuts
  BY <2>2, <2>3
<2> QED
  BY <2>4, Zenon DEF l1, l2
<1>5. /\ "message" \notin DOMAIN data /\ {"items", "page"} \subseteq DOMAIN data
      /\ data["items"] = rows
      /\ data["page"] = <<SectionPage(c.page, c.size, Len(all))>>
      /\ "about" \in DOMAIN data /\ data["about"] = <<about>>
<2> HIDE DEF c, w, rows, all, about
<2> QED
  OBVIOUS
<1>6. CASE Gate(w, c) # "ok"
<2>1. PICK st : e = Error(st)
<3>1. e = ShapeFailure(Gate(w, c))
  BY <1>3, <1>6, Zenon
<3> QED
  BY <3>1, Zenon DEF ShapeFailure
<2> HIDE DEF c, w
<2>2. Sound(e, w, r, p, s) /\ ("message" \in DOMAIN e.data \/ <<"withheld">> \in e.lims)
  BY <2>1, ErrorSound, Errors
<2> QED
  BY <2>2 DEF w
<1>7. CASE Gate(w, c) = "ok"
<2>0. Stored(w0, n)
  BY <1>7, GateOpen
<2>1. e = OperatorRowsOk(<<>>, data, prov, lims)
  BY <1>3, <1>7, Zenon
<2>2. ListOf(r) = "items"
  BY DEF ListOf
<2>3. Whole(w, r, L)
  BY <2>0, InventoryWhole
<2>4. pg = P
  BY <1>1, <1>2
<2>5. CleanRow(about).synced_at = w.account.synced
  BY <2>0, AboutKept
<2>6. rows = [i \in DOMAIN P |-> [item_id |-> P[i], display_name |-> name(P[i]), count |-> held[P[i]]]]
  BY <2>4
<2> HIDE DEF c, w, rows, data, L, P, prov, lims, all, pg, about, held, name
<2>7. ASSUME (p - 1) * s <= Len(L), NEW i \in DOMAIN P
      PROVE  Shows(w, r, CleanRow(rows[i]), P[i])
<3>1. IdIn(r, P[i]) \in Int /\ IdIn(r, P[i]) = P[i]
<4>1. Whole(w, r, All(w, r)) /\ (p - 1) * s <= Len(All(w, r)) /\ i \in DOMAIN PageOf(All(w, r), p, s)
  BY <2>3, <2>7 DEF L, P
<4>2. IdIn(r, PageOf(All(w, r), p, s)[i]) \in Int
  BY <4>1, PageIds
<4> QED
  BY <4>2 DEF IdIn, L, P
<3>2. "item_id" \in DOMAIN rows[i] /\ rows[i]["item_id"] = P[i]
  BY <2>6, <2>7
<3>3. P[i] # None
  BY <3>1, AnswersAssumption
<3>4. CleanRow(rows[i])["item_id"] = P[i]
  BY <3>2, <3>3, Cleaned DEF Nested
<3>5. IdOfRow(r, CleanRow(rows[i])) = CleanRow(rows[i])["item_id"]
  BY DEF IdOfRow
<3> QED
  BY <3>1, <3>4, <3>5 DEF Shows
<2>8. (p - 1) * s <= Len(All(w, r)) =>
          \A i \in DOMAIN PageOf(All(w, r), p, s) :
             Shows(w, r, CleanRow(data[ListOf(r)][i]), PageOf(All(w, r), p, s)[i])
  BY <1>5, <2>2, <2>7 DEF L, P
<2>9. /\ {ListOf(r), "page"} \subseteq DOMAIN data
      /\ data["page"] = <<SectionPage(p, s, Len(All(w, r)))>>
      /\ DOMAIN data[ListOf(r)] = DOMAIN PageOf(All(w, r), p, s)
  BY <1>1, <1>2, <1>5, <2>2, <2>6 DEF L, P
<2>10. "about" \in DOMAIN data /\ 1 \in DOMAIN data["about"] /\ CleanRow(data["about"][1]).synced_at = w.account.synced
  BY <1>5, <2>5
<2>11. Sound(e, w, r, p, s)
  BY <1>4, <1>5, <2>1, <2>2, <2>8, <2>9, <2>10, RowsProper
<2> QED
  BY <2>0, <2>11 DEF w
<1> QED
  BY <1>6, <1>7

(* Whatever run_guarded answers with is sound, and of an account only what is stored. *)
LEMMA AnswerSound ==
  ASSUME NEW w0, AWorld(w0), NEW n \in DOMAIN w0.accounts, NEW r, ARequest(r), r.tool \in Plain,
         NEW p \in Nat \ {0}, NEW s \in Nat \ {0},
         NEW e \in RunGuarded(WorldOf(w0, n), Cursor(r, p, s))
  PROVE  /\ Sound(e, WorldOf(w0, n), r, p, s) /\ Full(e, WorldOf(w0, n), r, p, s)
         /\ r.tool \in PlainOfAccount => Stored(w0, n) \/ "message" \in DOMAIN e.data \/ <<"withheld">> \in e.lims
<1> DEFINE w == WorldOf(w0, n)
<1>1. CASE e = Unavailable \/ e = InternalError
<2>1. PICK st : e = Error(st)
  BY <1>1, Zenon DEF Unavailable, InternalError
<2> HIDE DEF w
<2>2. Sound(e, w, r, p, s) /\ ("message" \in DOMAIN e.data \/ <<"withheld">> \in e.lims)
  BY <2>1, ErrorSound, Errors
<2> QED
  BY <2>2 DEF w, Full
<1>2. CASE e = Answer(w, Cursor(r, p, s))
<2>0. r.tool \notin {"get_announcements", "get_my_roster"} => Full(e, w, r, p, s)
  BY Zenon DEF Full, Says
<2>1. CASE r.tool = "get_announcements"
  BY <1>2, <2>1, AnnouncementsSound DEF PlainOfAccount
<2>2. CASE r.tool = "find_operators"
  BY <1>2, <2>0, <2>2, OperatorsSound DEF PlainOfAccount
<2>3. CASE r.tool = "get_my_roster"
  BY <1>2, <2>3, RosterSound
<2>4. CASE r.tool = "get_my_inventory"
  BY <1>2, <2>0, <2>4, InventorySound
<2> QED
  BY <2>1, <2>2, <2>3, <2>4 DEF Plain
<1> QED
  BY <1>1, <1>2 DEF RunGuarded

-------------------------------------------------------------------------------
(* More about pages. *)
(* A function on 1..n for some n. *)
Sequence(s) == \E T : s \in Seq(T)

(* A function on 1..n is a sequence of length n. *)
LEMMA Spelt ==
  ASSUME NEW n \in Nat, NEW t, t = [i \in 1..n |-> t[i]]
  PROVE  Sequence(t) /\ Len(t) = n
<1> DEFINE X == {t[i] : i \in 1..n}
<1>1. \A i \in 1..n : t[i] \in X
  OBVIOUS
<1> HIDE DEF X
<1>2. t \in Seq(X) /\ Len(t) = n
  BY <1>1
<1> QED
  BY <1>2 DEF Sequence

(* The larger of two numbers. *)
LEMMA MaxOfTwo ==
  ASSUME NEW a \in Int, NEW b \in Int
  PROVE  Max({a, b}) = IF a >= b THEN a ELSE b
<1>1. \E x \in {a, b} : \A y \in {a, b} : x >= y
  OBVIOUS
<1>2. Max({a, b}) = CHOOSE x \in {a, b} : \A y \in {a, b} : x >= y
  BY DEF Max
<1>3. Max({a, b}) \in {a, b} /\ \A y \in {a, b} : Max({a, b}) >= y
  BY <1>1, <1>2
<1> QED
  BY <1>3

(* A page past the end of its list is empty; any other is as long as what is left, up to its size. *)
LEMMA PageLength ==
  ASSUME NEW S, NEW L \in Seq(S), NEW p \in Nat \ {0}, NEW s \in Nat \ {0}
  PROVE  LET P == PageOf(L, p, s)
         IN /\ DOMAIN P = 1..Len(P) /\ Len(P) \in Nat
            /\ Len(P) = Max({0, Min({s, Len(L) - (p - 1) * s})})
<1> DEFINE P == PageOf(L, p, s)
           q == (p - 1) * s
           n == Len(L)
<1>1. q \in Nat /\ p * s = q + s /\ n \in Nat
<2>1. p - 1 \in Nat /\ p = (p - 1) + 1
  OBVIOUS
<2>2. \A k \in Nat : k * s \in Nat /\ (k + 1) * s = k * s + s
  OBVIOUS
<2> QED
  BY <2>1, <2>2
<1>2. /\ DOMAIN P = 1..Len(P) /\ Len(P) \in Nat
      /\ Len(P) = IF q > n THEN 0 ELSE IF q + s <= n THEN s ELSE n - q
<2>1. CASE q <= n
<3>1. /\ DOMAIN P = 1..Len(P) /\ Len(P) \in Nat
      /\ q + Len(P) = IF q + s <= n THEN q + s ELSE n
  BY <2>1, Paging
<3>2. q \in Nat /\ n \in Nat /\ s \in Nat /\ q <= n
  BY <1>1, <2>1
<3> DEFINE len == Len(P)
<3>3. len \in Nat /\ q + len = IF q + s <= n THEN q + s ELSE n
  BY <3>1
<3> HIDE DEF q, n, P, len
<3>4. len = IF q > n THEN 0 ELSE IF q + s <= n THEN s ELSE n - q
  BY <3>2, <3>3
<3> QED
  BY <3>1, <3>4 DEF len
<2>2. CASE ~(q <= n)
<3>1. Min({p * s, n}) = n
<4> DEFINE m == p * s
<4>1. m = q + s /\ m \in Int /\ n \in Int
  BY <1>1
<4> HIDE DEF q, n, m
<4>2. Min({m, n}) = IF m <= n THEN m ELSE n
  BY <4>1, MinOfTwo
<4>3. Min({m, n}) = n
  BY <1>1, <2>2, <4>2, <4>1
<4> QED
  BY <4>3 DEF m
<3>2. P = SubSeq(L, q + 1, n)
  BY <3>1 DEF PageOf
<3> HIDE DEF q, n, P
<3>3. P = <<>>
  BY <1>1, <2>2, <3>2, SubSeqEmpty
<3> QED
  BY <1>1, <2>2, <3>3
<2> QED
  BY <2>1, <2>2
<1> HIDE DEF P, q, n
<1>4. Min({s, n - q}) = IF s <= n - q THEN s ELSE n - q
  BY <1>1, MinOfTwo
<1>5. Min({s, n - q}) \in Int /\ Max({0, Min({s, n - q})}) = IF 0 >= Min({s, n - q}) THEN 0 ELSE Min({s, n - q})
<2> DEFINE x == Min({s, n - q})
<2>1. x \in Int /\ 0 \in Int
  BY <1>1, <1>4
<2> HIDE DEF x
<2>2. Max({0, x}) = IF 0 >= x THEN 0 ELSE x
  BY <2>1, MaxOfTwo
<2> QED
  BY <2>1, <2>2 DEF x
<1>6. Len(P) = Max({0, Min({s, n - q})})
  BY <1>1, <1>2, <1>4, <1>5
<1> QED
  BY <1>2, <1>6 DEF P, q, n

(* What get_my_inventory answers: the gate's refusal, or its rows. *)
LEMMA InventoryAnswer ==
  ASSUME NEW w, NEW c
  PROVE  \/ Gate(w, c) # "ok" /\ GetMyInventory(w, c) = ShapeFailure(Gate(w, c))
         \/ \E rows, data, prov, lims : GetMyInventory(w, c) = OperatorRowsOk(rows, data, prov, lims)
  BY Zenon DEF GetMyInventory

-------------------------------------------------------------------------------
(* Where a plan cuts a list. *)
(* A set of natural numbers has a least one. *)
LEMMA LeastNat ==
  ASSUME NEW T \in SUBSET Nat, T # {}
  PROVE  \E n \in T : \A m \in T : n <= m
<1>1. PICK n \in T : \A m \in T : <<m, n>> \notin OpToRel(<, Nat)
  BY NatLessThanWellFounded, WFMin
<1>2. ASSUME NEW m \in T PROVE n <= m
<2>1. ~(m < n)
  BY <1>1 DEF OpToRel
<2> QED
  BY <2>1
<1> QED
  BY <1>2

(* The intervals the bisection of count depths probes, and one step of it on an interval z
   when f has the answers for the smaller ones. *)
Intervals(count) == (0..count) \X (-1..(count - 1))
Middle(z) == (z[1] + z[2]) \div 2
Bisects(f, fits, count, z) ==
  IF z[1] > z[2] THEN count
  ELSE IF fits[Middle(z)] THEN Min({Middle(z), f[<<z[1], Middle(z) - 1>>]}) ELSE f[<<Middle(z) + 1, z[2]>>]

(* The halves of an interval are intervals, and shorter. *)
LEMMA Halves ==
  ASSUME NEW count \in Nat, NEW z \in Intervals(count), ~(z[1] > z[2])
  PROVE  /\ z[1] \in 0..count /\ z[2] \in -1..(count - 1) /\ Middle(z) \in z[1]..z[2] /\ Middle(z) \in 0..(count - 1)
         /\ <<z[1], Middle(z) - 1>> \in Intervals(count) /\ <<Middle(z) + 1, z[2]>> \in Intervals(count)
<1> DEFINE low == z[1]  high == z[2]  mid == Middle(z)
<1>1. low \in 0..count /\ high \in -1..(count - 1) /\ low <= high
  BY DEF Intervals
<1>2. mid = (low + high) \div 2
  BY DEF Middle
<1> HIDE DEF low, high, mid
<1>3. mid \in low..high /\ mid \in 0..(count - 1)
  BY <1>1, <1>2
<1>4. <<low, mid - 1>> \in Intervals(count) /\ <<mid + 1, high>> \in Intervals(count)
  BY <1>1, <1>3 DEF Intervals
<1> QED
  BY <1>1, <1>3, <1>4 DEF low, high, mid

(* The bisection comes to an end on every interval: there is a function that does it. *)
LEMMA Bisection ==
  ASSUME NEW count \in Nat, NEW fits
  PROVE  \E f : f = [z \in Intervals(count) |-> Bisects(f, fits, count, z)]
<1> DEFINE D == Intervals(count)
           Upto(n) == {z \in D : z[2] - z[1] < n}
           Good(n) == \E f : \A z \in Upto(n) : f[z] = Bisects(f, fits, count, z)
           Unsolved == {n \in Nat : ~Good(n)}
<1>1. \A z \in D : z[1] \in Int /\ z[2] \in Int
  BY DEF Intervals
<1>2. Unsolved = {}
<2>1. SUFFICES ASSUME Unsolved # {} PROVE FALSE
  OBVIOUS
<2> HIDE DEF Good
<2>2. PICK n \in Unsolved : \A m \in Unsolved : n <= m
  BY <2>1, LeastNat
<2>3. n \in Nat /\ ~Good(n)
  OBVIOUS
<2>4. CASE n = 0
<3> DEFINE f == [z \in D |-> count]
<3>1. ASSUME NEW z \in Upto(0) PROVE f[z] = Bisects(f, fits, count, z)
<4>1. z \in D /\ z[1] > z[2]
  BY <1>1
<4> QED
  BY <4>1 DEF Bisects
<3> QED
  BY <2>3, <2>4, <3>1 DEF Good
<2>5. CASE n # 0
<3>1. n - 1 \in Nat /\ Good(n - 1)
  BY <2>2, <2>3, <2>5
<3>2. PICK f : \A z \in Upto(n - 1) : f[z] = Bisects(f, fits, count, z)
  BY <3>1 DEF Good
<3> DEFINE g == [z \in D |-> Bisects(f, fits, count, z)]
<3>3. \A z \in Upto(n - 1) : g[z] = f[z]
  BY <3>2
<3>4. ASSUME NEW z \in Upto(n) PROVE g[z] = Bisects(g, fits, count, z)
<4>1. z \in D /\ z[2] - z[1] < n
  OBVIOUS
<4>2. g[z] = Bisects(f, fits, count, z)
  BY <4>1
<4>3. CASE z[1] > z[2]
  BY <4>2, <4>3 DEF Bisects
<4>4. CASE ~(z[1] > z[2])
<5> DEFINE a == <<z[1], Middle(z) - 1>>
           b == <<Middle(z) + 1, z[2]>>
<5>1. /\ Middle(z) \in z[1]..z[2] /\ z[1] \in Int /\ z[2] \in Int /\ a \in D /\ b \in D
  BY <1>1, <4>1, <4>4, Halves
<5>2. a \in Upto(n - 1) /\ b \in Upto(n - 1)
  BY <5>1, <4>1, <2>3
<5>3. g[a] = f[a] /\ g[b] = f[b]
  BY <5>2, <3>3
<5> HIDE DEF g, D
<5> QED
  BY <4>2, <5>3 DEF Bisects
<4> QED
  BY <4>3, <4>4
<3> HIDE DEF g
<3> QED
  BY <2>3, <3>4 DEF Good
<2> QED
  BY <2>4, <2>5
<1>3. Good(count + 1)
<2> HIDE DEF Good
<2> QED
  BY <1>2
<1>4. PICK f : \A z \in Upto(count + 1) : f[z] = Bisects(f, fits, count, z)
  BY <1>3
<1>5. \A z \in D : z[2] - z[1] < count + 1
  BY DEF Intervals
<1> DEFINE g == [z \in D |-> f[z]]
<1>6. ASSUME NEW z \in D PROVE g[z] = Bisects(g, fits, count, z)
<2>1. g[z] = Bisects(f, fits, count, z)
  BY <1>4, <1>5
<2>2. CASE z[1] > z[2]
  BY <2>1, <2>2 DEF Bisects
<2>3. CASE ~(z[1] > z[2])
<3> DEFINE a == <<z[1], Middle(z) - 1>>
           b == <<Middle(z) + 1, z[2]>>
<3>1. a \in D /\ b \in D
  BY <2>3, Halves
<3>2. g[a] = f[a] /\ g[b] = f[b]
  BY <3>1
<3> HIDE DEF g, D
<3> QED
  BY <2>1, <3>2 DEF Bisects
<2> QED
  BY <2>2, <2>3
<1>7. g = [z \in D |-> Bisects(g, fits, count, z)]
<2>1. g = [z \in D |-> g[z]]
  OBVIOUS
<2> HIDE DEF g
<2> QED
  BY <2>1, <1>6
<1> QED
  BY <1>7

(* Fitting at a depth means fitting at every deeper one. *)
Monotone(count, fits) == \A d, e \in 0..(count - 1) : d <= e /\ fits[d] => fits[e]

(* What the bisection of _shallowest_fitting finds: a depth that fits, or count; and, when
   deeper is smaller, that no shallower one fits. *)
THEOREM ShallowestFits ==
  ASSUME NEW count \in Nat, NEW fits
  PROVE  LET depth == Shallowest(count, fits)
         IN /\ depth \in 0..count
            /\ depth < count => fits[depth]
            /\ Monotone(count, fits) => \A d \in 0..(count - 1) : fits[d] => depth <= d
<1> DEFINE D == Intervals(count)
           F(f) == [z \in D |-> Bisects(f, fits, count, z)]
           probe == CHOOSE f : f = F(f)
<1>1. Shallowest(count, fits) = probe[<<0, count - 1>>]
  BY Zenon DEF Shallowest, Bisects, Intervals, Middle
<1>2. probe = F(probe)
  BY Bisection, Zenon
<1> HIDE DEF probe
<1>3. \A z \in D : probe[z] = Bisects(probe, fits, count, z)
  BY <1>2, Zenon
<1> DEFINE Right(z) == /\ probe[z] \in 0..count
                       /\ probe[z] < count => fits[probe[z]] /\ probe[z] \in z[1]..z[2]
                       /\ Monotone(count, fits) => \A d \in z[1]..z[2] : fits[d] => probe[z] <= d
           Unsolved == {n \in Nat : \E z \in D : z[2] - z[1] < n /\ ~Right(z)}
<1>4. \A z \in D : z[1] \in 0..count /\ z[2] \in -1..(count - 1)
  BY DEF Intervals
<1>5. Unsolved = {}
<2>1. SUFFICES ASSUME Unsolved # {} PROVE FALSE
  OBVIOUS
<2> HIDE DEF Right, D
<2>2. PICK n \in Unsolved : \A m \in Unsolved : n <= m
  BY <2>1, LeastNat
<2>3. PICK z \in D : z[2] - z[1] < n /\ ~Right(z)
  BY <2>2
<2> DEFINE low == z[1]  high == z[2]  mid == Middle(z)  v == probe[z]
<2>4. n \in Nat /\ low \in 0..count /\ high \in -1..(count - 1)
  BY <1>4
<2>5. CASE low > high
<3>1. v = count
  BY <1>3, <2>5 DEF Bisects
<3>2. low..high = {}
  BY <2>4, <2>5
<3> QED
  BY <2>3, <3>1, <3>2 DEF Right
<2>6. CASE ~(low > high)
<3> DEFINE a == <<low, mid - 1>>  b == <<mid + 1, high>>  x == probe[a]  y == probe[b]
<3>1. a \in D /\ b \in D /\ mid \in low..high /\ mid \in 0..(count - 1)
  BY <2>6, Halves DEF D
<3>2. n # 0 /\ (mid - 1) - low < n - 1 /\ high - (mid + 1) < n - 1
  BY <2>3, <2>4, <2>6, <3>1
<3>3. \A u \in D : u[2] - u[1] < n - 1 => Right(u)
<4>1. n - 1 \in Nat /\ n - 1 \notin Unsolved
  BY <2>2, <2>4, <3>2
<4> QED
  BY <4>1
<3>4. Right(a) /\ Right(b)
<4>1. a[1] = low /\ a[2] = mid - 1 /\ b[1] = mid + 1 /\ b[2] = high
  OBVIOUS
<4> HIDE DEF a, b
<4> QED
  BY <3>1, <3>2, <3>3, <4>1
<3>5. v = IF fits[mid] THEN Min({mid, x}) ELSE y
  BY <1>3, <2>6 DEF Bisects
<3>6. /\ x \in 0..count
      /\ x < count => fits[x] /\ x \in low..(mid - 1)
      /\ Monotone(count, fits) => \A d \in low..(mid - 1) : fits[d] => x <= d
  BY <3>4 DEF Right
<3>7. /\ y \in 0..count
      /\ y < count => fits[y] /\ y \in (mid + 1)..high
      /\ Monotone(count, fits) => \A d \in (mid + 1)..high : fits[d] => y <= d
  BY <3>4 DEF Right
<3> HIDE DEF low, high, mid, x, y, v, a, b
<3>8. CASE fits[mid]
<4>1. v = IF mid <= x THEN mid ELSE x
  BY <3>1, <3>5, <3>6, <3>8, MinOfTwo
<4>2. v \in 0..count /\ (v < count => fits[v] /\ v \in low..high)
  BY <3>1, <3>6, <3>8, <4>1, <2>4
<4>3. Monotone(count, fits) => \A d \in low..high : fits[d] => v <= d
<5>1. SUFFICES ASSUME Monotone(count, fits), NEW d \in low..high, fits[d] PROVE v <= d
  OBVIOUS
<5>2. CASE d < mid
  BY <3>1, <3>6, <4>1, <5>1, <5>2, <2>4
<5>3. CASE ~(d < mid)
  BY <3>1, <3>6, <4>1, <5>1, <5>3, <2>4
<5> QED
  BY <5>2, <5>3
<4> QED
  BY <4>2, <4>3, <2>3 DEF Right, low, high, v
<3>9. CASE ~fits[mid]
<4>1. v = y
  BY <3>5, <3>9
<4>2. v \in 0..count /\ (v < count => fits[v] /\ v \in low..high)
  BY <3>1, <3>7, <4>1, <2>4
<4>3. Monotone(count, fits) => \A d \in low..high : fits[d] => v <= d
<5>1. SUFFICES ASSUME Monotone(count, fits), NEW d \in low..high, fits[d] PROVE v <= d
  OBVIOUS
<5>2. d > mid
<6>1. d \in 0..(count - 1)
  BY <2>4
<6> QED
  BY <3>1, <3>9, <5>1, <6>1, <2>4 DEF Monotone
<5> QED
  BY <3>1, <3>7, <4>1, <5>1, <5>2, <2>4
<4> QED
  BY <4>2, <4>3, <2>3 DEF Right, low, high, v
<3> QED
  BY <3>8, <3>9
<2> QED
  BY <2>5, <2>6
<1>6. <<0, count - 1>> \in D
  BY DEF Intervals
<1>7. Right(<<0, count - 1>>)
<2> DEFINE all == <<0, count - 1>>
<2>1. all[2] - all[1] < count
  OBVIOUS
<2> HIDE DEF Right
<2>2. \A z \in D : z[2] - z[1] < count => Right(z)
  BY <1>5
<2> HIDE DEF all, D
<2>3. Right(all)
  BY <1>6, <2>1, <2>2 DEF all
<2> QED
  BY <2>3 DEF all
<1> DEFINE depth == probe[<<0, count - 1>>]
<1>8. /\ depth \in 0..count
      /\ depth < count => fits[depth]
      /\ Monotone(count, fits) => \A d \in 0..(count - 1) : fits[d] => depth <= d
<2>1. <<0, count - 1>>[1] = 0 /\ <<0, count - 1>>[2] = count - 1
  OBVIOUS
<2>2. /\ depth \in 0..count
      /\ depth < count => fits[depth]
      /\ Monotone(count, fits) => \A d \in (<<0, count - 1>>[1])..(<<0, count - 1>>[2]) : fits[d] => depth <= d
  BY <1>7, Zenon
<2> HIDE DEF depth
<2> QED
  BY <2>1, <2>2, Zenon
<1>9. Shallowest(count, fits) = depth
  BY <1>1
<1> HIDE DEF depth
<1> QED
  BY <1>8, <1>9

-------------------------------------------------------------------------------
(* What shedding leaves of an answer. *)
(* What shedding starts from, and what one step of the plan makes of it. *)
Uncut(env) == [env |-> env, section |-> FALSE, fitted |-> FALSE]
Spend(shed, step) ==
  LET count == Depths(step.part, shed.env)
      depth == Shallowest(count, [d \in 0..(count - 1) |-> WireSize(Cut(step.part, shed.env, d)) <= Cap])
  IN IF shed.fitted \/ count <= 0 THEN shed
     ELSE [env     |-> Cut(step.part, shed.env, Min({depth, count - 1})),
           section |-> shed.section \/ ~step.paginated,
           fitted  |-> depth < count]

(* A plan of two steps takes them in their order. *)
LEMMA TwoSteps ==
  ASSUME NEW env, NEW a, NEW b
  PROVE  ShedToFit(env, <<a, b>>) = Spend(Spend(Uncut(env), a), b)
<1> DEFINE plan == <<a, b>>
           base == Uncut(env)
           F(iter) == [s \in SUBSET (DOMAIN plan) |->
                         IF s = {} THEN base ELSE Spend(iter[s \ {Max(s)}], plan[Max(s)])]
           one == Spend(base, a)
           g == [s \in SUBSET (DOMAIN plan) |->
                   IF s = {} THEN base ELSE IF s = {1} THEN one ELSE IF s = {2} THEN Spend(base, b) ELSE Spend(one, b)]
           found == CHOOSE iter : iter = F(iter)
<1>1. ShedToFit(env, <<a, b>>) = found[DOMAIN plan]
  BY Zenon DEF ShedToFit, FoldLeft, MapThenFoldSet, Spend, Uncut
<1>2. DOMAIN plan = {1, 2} /\ plan[1] = a /\ plan[2] = b
  OBVIOUS
<1>3. Max({1}) = 1 /\ Max({2}) = 2 /\ Max({1, 2}) = 2
<2>1. \A x \in Int : Max({x}) = x
<3>1. ASSUME NEW x \in Int PROVE Max({x, x}) = x
  BY MaxOfTwo
<3> QED
  BY <3>1
<2>2. Max({1, 2}) = 2
  BY MaxOfTwo
<2> QED
  BY <2>1, <2>2
<1>4. \A s \in SUBSET (DOMAIN plan) : s = {} \/ s = {1} \/ s = {2} \/ s = {1, 2}
  BY <1>2
<1> HIDE DEF plan, base
<1>5. ASSUME NEW s \in SUBSET (DOMAIN plan)
      PROVE  g[s] = IF s = {} THEN base ELSE Spend(g[s \ {Max(s)}], plan[Max(s)])
<2>1. {} \in SUBSET (DOMAIN plan) /\ {1} \in SUBSET (DOMAIN plan)
  BY <1>2
<2>2. g[{}] = base /\ g[{1}] = one
  BY <2>1
<2>3. CASE s = {}
  BY <2>3
<2>4. CASE s = {1}
<3>1. s \ {Max(s)} = {} /\ Max(s) = 1 /\ s # {} /\ g[s] = one
  BY <1>3, <2>2, <2>4
<3> HIDE DEF g
<3> QED
  BY <3>1, <2>2, <1>2
<2>5. CASE s = {2}
<3>1. s \ {Max(s)} = {} /\ Max(s) = 2 /\ s # {} /\ s # {1} /\ g[s] = Spend(base, b)
  BY <1>3, <2>5
<3> HIDE DEF g
<3> QED
  BY <3>1, <2>2, <1>2
<2>6. CASE s = {1, 2}
<3>1. s \ {Max(s)} = {1} /\ Max(s) = 2 /\ s # {} /\ s # {1} /\ s # {2}
  BY <1>3, <2>6
<3>2. g[s] = Spend(one, b)
  BY <3>1
<3> HIDE DEF g
<3> QED
  BY <3>1, <3>2, <2>2, <1>2
<2> QED
  BY <1>4, <2>3, <2>4, <2>5, <2>6
<1>6. g = F(g)
  BY <1>5, Zenon
<1> HIDE DEF F
<1>7. found = F(found)
  BY <1>6, Zenon
<1> HIDE DEF found
<1>8. /\ found[{}] = base
      /\ found[{1}] = Spend(found[{}], a)
      /\ found[{1, 2}] = Spend(found[{1}], b)
<2> USE DEF F
<2>1. \A s \in SUBSET (DOMAIN plan) : found[s] = IF s = {} THEN base ELSE Spend(found[s \ {Max(s)}], plan[Max(s)])
  BY <1>7, Zenon
<2>2. {1} \ {1} = {} /\ {1, 2} \ {2} = {1} /\ {1} # {} /\ {1, 2} # {} /\ {{}, {1}, {1, 2}} \subseteq SUBSET (DOMAIN plan)
  BY <1>2
<2>3. found[{}] = base
  BY <2>1, <2>2, Zenon
<2>4. found[{1}] = Spend(found[{1} \ {Max({1})}], plan[Max({1})])
  BY <2>1, <2>2, Zenon
<2>5. found[{1, 2}] = Spend(found[{1, 2} \ {Max({1, 2})}], plan[Max({1, 2})])
  BY <2>1, <2>2, Zenon
<2> QED
  BY <2>2, <2>3, <2>4, <2>5, <1>2, <1>3, Zenon
<1>9. ShedToFit(env, <<a, b>>) = found[{1, 2}]
  BY <1>1, <1>2
<1> QED
  BY <1>8, <1>9, Zenon DEF base

(* What one step of a plan comes to: nothing when the answer fits already or has nothing of
   the part; the shallowest cut found to fit; or, when none fits, the deepest. *)
Fitting(step, env, depth) == WireSize(Cut(step.part, env, depth)) <= Cap
Fits(step, env) == [d \in 0..(Depths(step.part, env) - 1) |-> Fitting(step, env, d)]
(* A step leaves the answer as it was, or takes one of its cuts. *)
LEMMA Spent ==
  ASSUME NEW shed, NEW step, Depths(step.part, shed.env) \in Nat
  PROVE  LET n == Depths(step.part, shed.env)
             now == Spend(shed, step)
         IN \/ (shed.fitted \/ n = 0) /\ now = shed
            \/ /\ ~shed.fitted
               /\ \E d \in 0..(n - 1) :
                    /\ now.env = Cut(step.part, shed.env, d)
                    /\ now.section = (shed.section \/ ~step.paginated)
                    /\ now.fitted => WireSize(now.env) <= Cap
                    /\ now.fitted /\ Monotone(n, Fits(step, shed.env)) =>
                         \A c \in 0..(d - 1) : ~Fitting(step, shed.env, c)
<1> DEFINE n == Depths(step.part, shed.env)
           fits == Fits(step, shed.env)
           depth == Shallowest(n, fits)
           d == Min({depth, n - 1})
           now == Spend(shed, step)
<1>1. now = IF shed.fitted \/ n <= 0 THEN shed
            ELSE [env |-> Cut(step.part, shed.env, d), section |-> shed.section \/ ~step.paginated, fitted |-> depth < n]
  BY Zenon DEF Spend, Fits, Fitting
<1>2. /\ depth \in 0..n
      /\ depth < n => fits[depth]
      /\ Monotone(n, fits) => \A c \in 0..(n - 1) : fits[c] => depth <= c
  BY ShallowestFits
<1>3. \A c \in 0..(n - 1) : fits[c] = Fitting(step, shed.env, c)
  BY DEF Fits
<1> HIDE DEF depth, fits, n, now
<1>4. n \in Nat /\ d = IF depth <= n - 1 THEN depth ELSE n - 1
  BY <1>2, MinOfTwo DEF n
<1> HIDE DEF d
<1>5. CASE shed.fitted \/ n <= 0
  BY <1>1, <1>4, <1>5 DEF n, now
<1>6. CASE ~(shed.fitted \/ n <= 0)
<2>1. /\ now.env = Cut(step.part, shed.env, d)
      /\ now.section = (shed.section \/ ~step.paginated)
      /\ now.fitted = (depth < n)
  BY <1>1, <1>6, Zenon
<2>2. d \in 0..(n - 1) /\ (depth < n => d = depth)
  BY <1>2, <1>4, <1>6
<2>3. now.fitted => WireSize(now.env) <= Cap
<3>1. SUFFICES ASSUME depth < n PROVE WireSize(Cut(step.part, shed.env, d)) <= Cap
  BY <2>1, Zenon
<3>2. fits[d] /\ d \in 0..(n - 1)
  BY <1>2, <2>2, <3>1
<3> QED
  BY <1>3, <3>2, Zenon DEF Fitting
<2>4. now.fitted /\ Monotone(n, fits) => \A c \in 0..(d - 1) : ~Fitting(step, shed.env, c)
<3>1. SUFFICES ASSUME depth < n, Monotone(n, fits), NEW c \in 0..(d - 1) PROVE ~Fitting(step, shed.env, c)
  BY <2>1, Zenon
<3>2. c \in 0..(n - 1) /\ ~fits[c]
  BY <1>2, <1>4, <2>2, <3>1
<3> QED
  BY <1>3, <3>2, Zenon
<2> QED
  BY <1>6, <2>1, <2>2, <2>3, <2>4, Zenon DEF n, fits, now
<1> QED
  BY <1>5, <1>6

(* What is left of an answer when a step has been taken fits if the step says so. *)
LEMMA StillFits ==
  ASSUME NEW shed, NEW step, Depths(step.part, shed.env) \in Nat, shed.fitted => WireSize(shed.env) <= Cap
  PROVE  Spend(shed, step).fitted => WireSize(Spend(shed, step).env) <= Cap
<1> DEFINE now == Spend(shed, step)
<1>1. now = shed \/ (now.fitted => WireSize(now.env) <= Cap)
  BY Spent, Zenon
<1> HIDE DEF now
<1>2. now.fitted => WireSize(now.env) <= Cap
  BY <1>1
<1> QED
  BY <1>2 DEF now

(* An answer has its four fields. *)
AnAnswer(e) == DOMAIN e = {"status", "data", "prov", "lims"}

(* The three kinds of cut: the map image goes; *)
LEMMA CutImage ==
  ASSUME NEW env, AnAnswer(env), NEW d, NEW c, c = Cut("map_image", env, d)
  PROVE  /\ AnAnswer(c) /\ c.status = env.status /\ c.prov = env.prov
         /\ c.lims = env.lims \cup {<<"image_shed">>}
         /\ DOMAIN c.data = DOMAIN env.data \ {"map_image"}
         /\ \A k \in DOMAIN c.data : c.data[k] = env.data[k]
<1>1. c = DropImage(env)
  BY Zenon DEF Cut
<1>2. c = [env EXCEPT !.data = [k \in DOMAIN env.data \ {"map_image"} |-> env.data[k]],
                      !.lims = env.lims \cup {<<"image_shed">>}]
  BY <1>1, Zenon DEF DropImage
<1> QED
  BY <1>2 DEF AnAnswer

(* the image references of the banners go; *)
LEMMA CutRefs ==
  ASSUME NEW env, AnAnswer(env), NEW d, NEW c, c = Cut("image_refs", env, d)
  PROVE  /\ AnAnswer(c) /\ c.status = env.status /\ c.prov = env.prov
         /\ c.lims = (env.lims \ {<<"image_refs">>}) \cup {<<"refs_shed">>}
         /\ DOMAIN c.data = DOMAIN env.data \ ImageRefKeys
         /\ \A k \in DOMAIN c.data : k # "banners" => c.data[k] = env.data[k]
         /\ "banners" \in DOMAIN c.data =>
              c.data["banners"] = [i \in DOMAIN env.data["banners"] |-> WithoutRefs(env.data["banners"][i])]
<1>1. c = DropRefs(env)
  BY Zenon DEF Cut
<1> DEFINE rows == [i \in DOMAIN env.data["banners"] |-> WithoutRefs(env.data["banners"][i])]
<1>2. c = [env EXCEPT !.data = [k \in DOMAIN env.data \ ImageRefKeys |->
                                  IF k = "banners" THEN [i \in DOMAIN env.data[k] |-> WithoutRefs(env.data[k][i])]
                                  ELSE env.data[k]],
                      !.lims = (env.lims \ {<<"image_refs">>}) \cup {<<"refs_shed">>}]
  BY <1>1, Zenon DEF DropRefs
<1> DEFINE data == [k \in DOMAIN env.data \ ImageRefKeys |->
                     IF k = "banners" THEN [i \in DOMAIN env.data[k] |-> WithoutRefs(env.data[k][i])] ELSE env.data[k]]
<1>3. /\ DOMAIN data = DOMAIN env.data \ ImageRefKeys
      /\ \A k \in DOMAIN data : k # "banners" => data[k] = env.data[k]
      /\ "banners" \in DOMAIN data => data["banners"] = rows
  OBVIOUS
<1> HIDE DEF data, rows
<1>4. c = [env EXCEPT !.data = data, !.lims = (env.lims \ {<<"image_refs">>}) \cup {<<"refs_shed">>}]
  BY <1>2 DEF data
<1>5. /\ AnAnswer(c) /\ c.status = env.status /\ c.prov = env.prov /\ c.data = data
      /\ c.lims = (env.lims \ {<<"image_refs">>}) \cup {<<"refs_shed">>}
  BY <1>4 DEF AnAnswer
<1> QED
  BY <1>3, <1>5 DEF rows

(* or a list keeps its first rows, and says how many of how many. *)
LEMMA CutRows ==
  ASSUME NEW env, AnAnswer(env), NEW part, part \notin {"map_image", "image_refs"}, part \in DOMAIN env.data, NEW d,
         NEW c, c = Cut(part, env, d), NEW kept, kept = Len(env.data[part]) - 1 - d
  PROVE  /\ AnAnswer(c) /\ c.status = env.status /\ c.prov = env.prov
         /\ c.lims = env.lims \cup {<<"trimmed", kept, Len(env.data[part])>>}
         /\ DOMAIN c.data = DOMAIN env.data
         /\ \A k \in DOMAIN c.data : k # part => c.data[k] = env.data[k]
         /\ c.data[part] = SubSeq(env.data[part], 1, kept)
<1>1. c = KeepRows(part, env, kept)
  BY Zenon DEF Cut
<1> DEFINE trim == <<"trimmed", kept, Len(env.data[part])>>
           data == [env.data EXCEPT ![part] = SubSeq(env.data[part], 1, kept)]
<1>2. c = [env EXCEPT !.data = data, !.lims = env.lims \cup {trim}]
<2>1. c = [env EXCEPT !.data[part] = SubSeq(@, 1, kept), !.lims = @ \cup {trim}]
  BY <1>1, Zenon DEF KeepRows
<2> QED
  BY <2>1, Zenon
<1>3. /\ DOMAIN data = DOMAIN env.data
      /\ \A k \in DOMAIN data : k # part => data[k] = env.data[k]
      /\ data[part] = SubSeq(env.data[part], 1, kept)
  OBVIOUS
<1> HIDE DEF data, trim
<1>4. /\ AnAnswer(c) /\ c.status = env.status /\ c.prov = env.prov /\ c.data = data
      /\ c.lims = env.lims \cup {trim}
  BY <1>2 DEF AnAnswer
<1> QED
  BY <1>3, <1>4 DEF trim

(* A part can be counted: it is a single block, or a list with a length. *)
Countable(part, env) ==
  part \in {"map_image", "image_refs"} \/ (part \in DOMAIN env.data => Len(env.data[part]) \in Nat)

(* So many depths. *)
LEMMA DepthsOf ==
  ASSUME NEW env, NEW part, Countable(part, env)
  PROVE  /\ Depths(part, env) \in Nat
         /\ part \in {"map_image", "image_refs"} => Depths(part, env) \in {0, 1}
         /\ part \notin {"map_image", "image_refs"} =>
              IF part \in DOMAIN env.data /\ Len(env.data[part]) > 1
              THEN Depths(part, env) = Len(env.data[part]) - 1 ELSE Depths(part, env) = 0
         /\ part = "map_image" /\ Depths(part, env) # 0 => "map_image" \in DOMAIN env.data
         /\ part = "image_refs" /\ Depths(part, env) # 0 => ImageRefKeys \subseteq DOMAIN env.data
<1> DEFINE n == Depths(part, env)
           m == Len(env.data[part])
           single == part \in {"map_image", "image_refs"}
           there == part \in DOMAIN env.data
           refs == ImageRefKeys \subseteq DOMAIN env.data
<1>1. /\ part = "image_refs" => n = IF refs THEN 1 ELSE 0
      /\ part = "map_image" => n = IF there THEN 1 ELSE 0
      /\ ~single => n = IF there THEN Max({0, m - 1}) ELSE 0
<2>1. CASE part = "image_refs"
  BY <2>1, Zenon DEF Depths
<2>2. CASE part = "map_image"
  BY <2>2 DEF Depths
<2>3. CASE ~single
  BY <2>3 DEF Depths
<2> QED
  BY <2>1, <2>2, <2>3
<1>2. single \/ (there => m \in Nat)
  BY DEF Countable
<1> HIDE DEF n, m, refs
<1>3. m \in Nat => Max({0, m - 1}) = IF m > 1 THEN m - 1 ELSE 0
<2> SUFFICES ASSUME m \in Nat PROVE Max({0, m - 1}) = IF m > 1 THEN m - 1 ELSE 0
  OBVIOUS
<2>1. Max({0, m - 1}) = IF 0 >= m - 1 THEN 0 ELSE m - 1
  BY MaxOfTwo
<2> QED
  BY <2>1
<1>4. /\ n \in Nat
      /\ single => n \in {0, 1}
      /\ ~single => IF there /\ m > 1 THEN n = m - 1 ELSE n = 0
      /\ part = "map_image" /\ n # 0 => there
      /\ part = "image_refs" /\ n # 0 => refs
  BY <1>1, <1>2, <1>3
<1> QED
  BY <1>4 DEF n, m, refs

(* The answer a tool with a plan starts from. *)
Raw(st, data, prov, lims) ==
  [status |-> st, data |-> CleanPayload(data), prov |-> prov, lims |-> Caveats(data, lims)]

(* The status of an answer is not counted in its size. *)
LEMMA StatusFree ==
  ASSUME NEW e, NEW f, f.data = e.data, f.prov = e.prov, f.lims = e.lims
  PROVE  WireSize(f) = WireSize(e)
<1> DEFINE T(data, lims, prov) ==
             2 * (MapThenSumSet(LAMBDA k : Weight(data, k), DOMAIN data) + Cardinality(lims) + Cardinality(prov))
<1>1. WireSize(e) = T(e.data, e.lims, e.prov) /\ WireSize(f) = T(f.data, f.lims, f.prov)
  BY Zenon DEF WireSize
<1> HIDE DEF T
<1> QED
  BY <1>1

(* What is built with a plan of two steps: the whole payload, fitting; the payload as the
   plan cut it, fitting; or no payload, and word that it was withheld. *)
LEMMA Shed ==
  ASSUME NEW st, NEW data, NEW prov, NEW lims, NEW a, NEW b,
         NEW e, e = BuildShedding(st, data, prov, lims, <<a, b>>),
         NEW raw, raw = Raw(st, data, prov, lims),
         NEW one, one = Spend(Uncut(raw), a), NEW two, two = Spend(one, b),
         AnAnswer(two.env), Depths(a.part, raw) \in Nat, Depths(b.part, one.env) \in Nat
  PROVE  \/ e = raw /\ WireSize(e) <= Cap
         \/ /\ e.data = Nothing /\ e.status = "partial" /\ e.prov = raw.prov /\ e.lims = raw.lims \cup {<<"withheld">>}
            /\ ~(WireSize(raw) <= Cap)
         \/ /\ two.fitted /\ WireSize(e) <= Cap /\ ~(WireSize(raw) <= Cap)
            /\ e.data = two.env.data /\ e.prov = two.env.prov /\ e.lims = two.env.lims
            /\ e.status = IF two.section THEN "partial" ELSE two.env.status
<1>1. ShedToFit(raw, <<a, b>>) = two
  BY TwoSteps
<1>2. e = IF WireSize(raw) <= Cap THEN raw
          ELSE IF ~two.fitted
               THEN [raw EXCEPT !.status = "partial", !.data = Nothing, !.lims = raw.lims \cup {<<"withheld">>}]
          ELSE [two.env EXCEPT !.status = IF two.section THEN "partial" ELSE two.env.status]
<2>1. e = EnforceCap(raw, <<a, b>>)
  BY Zenon DEF BuildShedding, Raw, Caveats
<2> QED
  BY <1>1, <2>1, Zenon DEF EnforceCap
<1>3. AnAnswer(raw)
  BY DEF AnAnswer, Raw
<1>4. CASE WireSize(raw) <= Cap
  BY <1>2, <1>4
<1>5. CASE ~(WireSize(raw) <= Cap) /\ ~two.fitted
<2>1. e = [raw EXCEPT !.status = "partial", !.data = Nothing, !.lims = raw.lims \cup {<<"withheld">>}]
  BY <1>2, <1>5, Zenon
<2>2. /\ e.data = Nothing /\ e.status = "partial" /\ e.prov = raw.prov /\ e.lims = raw.lims \cup {<<"withheld">>}
  BY <1>3, <2>1 DEF AnAnswer
<2> QED
  BY <1>5, <2>2
<1>6. CASE ~(WireSize(raw) <= Cap) /\ two.fitted
<2>1. e = [two.env EXCEPT !.status = IF two.section THEN "partial" ELSE two.env.status]
  BY <1>2, <1>6, Zenon
<2>2. /\ e.data = two.env.data /\ e.prov = two.env.prov /\ e.lims = two.env.lims
      /\ e.status = IF two.section THEN "partial" ELSE two.env.status
<3> DEFINE now == two.env
           s == IF two.section THEN "partial" ELSE now.status
<3>1. e = [now EXCEPT !.status = s] /\ DOMAIN now = {"status", "data", "prov", "lims"}
  BY <2>1 DEF AnAnswer
<3> HIDE DEF now, s
<3>2. e.data = now.data /\ e.prov = now.prov /\ e.lims = now.lims /\ e.status = s
  BY <3>1
<3> QED
  BY <3>2 DEF now, s
<2>3. WireSize(e) = WireSize(two.env)
  BY <2>2, StatusFree
<2>4. one.fitted => WireSize(one.env) <= Cap
<3>1. Uncut(raw).env = raw /\ Uncut(raw).fitted = FALSE
  BY DEF Uncut
<3> HIDE DEF Uncut
<3> QED
  BY <3>1, StillFits
<2>5. WireSize(two.env) <= Cap
  BY <1>6, <2>4, StillFits
<2> QED
  BY <1>6, <2>2, <2>3, <2>5
<1> QED
  BY <1>4, <1>5, <1>6

-------------------------------------------------------------------------------
(* Answers a client can go by. *)
(* The page block a client looks for in an answer. *)
KeyIn(e, r) ==
  IF r.tool = "get_stage" THEN IF r.reads = "routes" THEN "routes_page" ELSE "spawns_page"
  ELSE IF r.tool = "get_item_drops" THEN IF "ranking" \in DOMAIN e.data THEN "efficiency_page" ELSE "stages_page"
  ELSE "page"
MoreIn(e, r) == KeyIn(e, r) \in DOMAIN e.data /\ e.data[KeyIn(e, r)][1].has_more
ReadsSpawns(r) == r.tool = "get_stage" /\ r.reads = "spawns"

(* What a client can go by in any answer that is not withheld: it fits its frame, a page
   size it recommends is smaller, pages end, and an answer from the account tells which
   one. *)
Smaller(e, r, s)  == \A l \in e.lims : l[1] = "trimmed" => ReadsSpawns(r) \/ l[2] \in 1..(s - 1)
Stampable(e, w, r) ==
  r.tool \in OfAccount =>
    \/ "message" \in DOMAIN e.data
    \/ w.account # None /\ "about" \in DOMAIN e.data /\ e.data["about"][1].synced_at = w.account.synced
Usable(e, w, r, p, s, n) ==
  \/ <<"withheld">> \in e.lims
  \/ /\ WireSize(e) <= Cap
     /\ Smaller(e, r, s)
     /\ MoreIn(e, r) => p * s < n
     /\ Stampable(e, w, r)

(* What a tool without a plan answers, when it is not withheld. *)
LEMMA Direct ==
  ASSUME NEW st, NEW data, NEW prov, NEW lims, NEW e, e = Build(st, data, prov, lims), <<"withheld">> \notin e.lims
  PROVE  WireSize(e) <= Cap /\ e.data = CleanPayload(data) /\ e.lims = Caveats(data, lims)
<1>1. \/ e.data = CleanPayload(data) /\ e.status = st /\ e.lims = Caveats(data, lims) /\ WireSize(e) <= Cap
      \/ e.data = Nothing /\ e.status = "partial" /\ e.lims = Caveats(data, lims) \cup {<<"withheld">>}
  BY Built
<1>2. <<"withheld">> \in Caveats(data, lims) \cup {<<"withheld">>}
  OBVIOUS
<1> QED
  BY <1>1, <1>2, Zenon

(* A client can go by an error. *)
LEMMA ErrorUsable ==
  ASSUME NEW st, NEW e, e = Error(st), NEW w, NEW r, NEW p, NEW s, NEW n
  PROVE  Usable(e, w, r, p, s, n)
<1> SUFFICES ASSUME <<"withheld">> \notin e.lims PROVE Usable(e, w, r, p, s, n)
  BY DEF Usable
<1>1. e = Build(st, [message |-> <<[text |-> st]>>], {}, {})
  BY Zenon DEF Error
<1>2. WireSize(e) <= Cap
  BY <1>1, Direct, Zenon
<1>3. /\ "message" \in DOMAIN e.data
      /\ DOMAIN e.data \subseteq {"message"}
      /\ \A l \in e.lims : l[1] \notin Cuts
  BY Errors
<1>4. KeyIn(e, r) \in {"routes_page", "spawns_page", "efficiency_page", "stages_page", "page"}
  BY DEF KeyIn
<1>5. ~MoreIn(e, r)
  BY <1>3, <1>4 DEF MoreIn
<1>6. Smaller(e, r, s)
  BY <1>3 DEF Smaller, Cuts
<1> QED
  BY <1>2, <1>3, <1>5, <1>6 DEF Usable, Stampable

(* An answer that was built without a plan. *)
Plainly(e) == \E st, data, prov, lims : e = Build(st, data, prov, lims)

(* Built with no plan are the errors, and the lists of operators. *)
LEMMA PlainlyBuilt ==
  /\ \A st : Plainly(Error(st)) /\ Plainly(ShapeFailure(st))
  /\ \A rows, data, prov, lims : Plainly(OperatorRowsOk(rows, data, prov, lims))
<1>1. ASSUME NEW st PROVE Plainly(Error(st))
<2>1. Error(st) = Build(st, [message |-> <<[text |-> st]>>], {}, {})
  BY Zenon DEF Error
<2> QED
  BY <2>1 DEF Plainly
<1>2. ASSUME NEW st PROVE Plainly(ShapeFailure(st))
  BY <1>1, Zenon DEF ShapeFailure
<1>3. ASSUME NEW rows, NEW data, NEW prov, NEW lims PROVE Plainly(OperatorRowsOk(rows, data, prov, lims))
<2> DEFINE told == data ++ (IF EmitsProfession(rows) THEN [enum_legend |-> <<[profession |-> TRUE]>>] ELSE Nothing)
           all  == lims \cup If(EmitsProfession(rows), {<<"enum_note">>})
<2>1. OperatorRowsOk(rows, data, prov, lims) = Build("ok", told, prov, all)
  BY Zenon DEF OperatorRowsOk
<2> HIDE DEF told, all
<2> QED
  BY <2>1 DEF Plainly
<1> QED
  BY <1>1, <1>2, <1>3

(* What find_operators and get_my_roster answer: a refusal, or their rows. *)
LEMMA OperatorsAnswer ==
  ASSUME NEW w, NEW c
  PROVE  \/ FindOperators(w, c) = Error("not_found")
         \/ \E rows, data, prov, lims : FindOperators(w, c) = OperatorRowsOk(rows, data, prov, lims)
<1> DEFINE all == FilterOperators(w, c)
           pg == PageOf(all, c.page, c.size)
           row(o) == Identity(o.id, o) ++ [factions |-> FactionEntries(o), collab |-> o.collab]
                     ++ (IF c.room = None THEN Nothing ELSE [base_skills |-> BaseSkillEntries(o, c.room, None)])
           rows == [i \in DOMAIN pg |-> row(pg[i])]
           data == [about |-> <<[server |-> c.server, room_type |-> c.room, faction_id |-> c.faction]>>,
                    operators |-> rows, page |-> <<SectionPage(c.page, c.size, Len(all))>>]
           prov == {o.snap : o \in ToSet(all)}
           lims == If(all = <<>>, IF w.domain THEN {<<"no_match">>} ELSE {<<"no_domain">>})
                     \cup If(c.room # None /\ pg # <<>>, {<<"slot_note">>})
                     \cup If(c.collab # None, {<<"collab_note">>})
<1>1. FindOperators(w, c) = IF c.faction # None /\ ~KnownFaction(w, c) THEN Error("not_found")
                            ELSE OperatorRowsOk(rows, data, prov, lims)
  BY Zenon DEF FindOperators
<1> HIDE DEF rows, data, prov, lims
<1> QED
  BY <1>1, Zenon

(* And get_my_roster, which its gate and an unknown faction refuse. *)
LEMMA RosterAnswer ==
  ASSUME NEW w, NEW c
  PROVE  \/ \E st : GetMyRoster(w, c) = ShapeFailure(st)
         \/ \E rows, data, prov, lims : GetMyRoster(w, c) = OperatorRowsOk(rows, data, prov, lims)
<1> DEFINE all == RosterOrder(w, c, Matching(w, c))
           pg == PageOf(all, c.page, c.size)
           rows == [i \in DOMAIN pg |-> RosterRow(w, c, pg[i])]
           build(op) == BuildOf(w, c.server, op.char)
           data == [about |-> <<Synced(w, c) ++ [room_type |-> c.room, faction_id |-> c.faction]>>,
                    operators |-> rows, page |-> <<SectionPage(c.page, c.size, Len(all))>>]
           prov == AccountProvenance(w, {build(op) : op \in ToSet(all)})
           lims == {<<"snapshot_note">>}
                     \cup If(\E op \in ToSet(pg) : build(op) = None, {<<"unknown_operator">>})
                     \cup If(all = <<>>, {<<"no_match">>})
                     \cup If(Filtered(c) /\ ~w.domain, {<<"no_domain">>})
                     \cup If(\E i \in DOMAIN rows : "base_skills" \in DOMAIN rows[i] /\ rows[i].base_skills # <<>>,
                             {<<"slot_note">>})
                     \cup If(c.collab # None, {<<"collab_note">>})
<1>1. GetMyRoster(w, c) = IF Gate(w, c) # "ok" THEN ShapeFailure(Gate(w, c))
                          ELSE IF c.faction # None /\ ~KnownFaction(w, c) THEN ShapeFailure("unknown_faction")
                          ELSE OperatorRowsOk(rows, data, prov, lims)
  BY Zenon DEF GetMyRoster
<1> HIDE DEF rows, data, prov, lims
<1> QED
  BY <1>1, Zenon

(* Which handler answers a request. *)
LEMMA Dispatched ==
  ASSUME NEW w, NEW c
  PROVE  /\ c.tool = "get_stage"         => Answer(w, c) = GetStage(w.stages, c)
         /\ c.tool = "get_stage_drops"   => Answer(w, c) = GetStageDrops(w, c)
         /\ c.tool = "get_item_drops"    => Answer(w, c) = GetItemDrops(w, c)
         /\ c.tool = "get_banners"       => Answer(w, c) = GetBanners(w, c)
         /\ c.tool = "get_announcements" => Answer(w, c) = GetAnnouncements(w, c)
         /\ c.tool = "find_operators"    => Answer(w, c) = FindOperators(w, c)
         /\ c.tool = "get_my_roster"     => Answer(w, c) = GetMyRoster(w, c)
         /\ c.tool = "get_my_operator"   => Answer(w, c) = GetMyOperator(w, c)
         /\ c.tool = "get_my_inventory"  => Answer(w, c) = GetMyInventory(w, c)
         /\ c.tool \in Searches            => Answer(w, c) = Search(w, c)
<1> DEFINE stage == GetStage(w.stages, c)
           stageDrops == GetStageDrops(w, c)
           itemDrops == GetItemDrops(w, c)
           banners == GetBanners(w, c)
           announcements == GetAnnouncements(w, c)
           found == FindOperators(w, c)
           roster == GetMyRoster(w, c)
           operator == GetMyOperator(w, c)
           inventory == GetMyInventory(w, c)
           hits == Search(w, c)
<1>1. Answer(w, c) =
        CASE c.tool = "get_stage"         -> stage
          [] c.tool = "get_stage_drops"   -> stageDrops
          [] c.tool = "get_item_drops"    -> itemDrops
          [] c.tool = "get_banners"       -> banners
          [] c.tool = "get_announcements" -> announcements
          [] c.tool = "find_operators"    -> found
          [] c.tool = "get_my_roster"     -> roster
          [] c.tool = "get_my_operator"   -> operator
          [] c.tool = "get_my_inventory"  -> inventory
          [] c.tool \in Searches          -> hits
  BY Zenon DEF Answer
<1> HIDE DEF stage, stageDrops, itemDrops, banners, announcements, found, roster, operator, inventory, hits
<1>2. /\ c.tool = "get_stage"         => Answer(w, c) = stage
      /\ c.tool = "get_stage_drops"   => Answer(w, c) = stageDrops
      /\ c.tool = "get_item_drops"    => Answer(w, c) = itemDrops
      /\ c.tool = "get_banners"       => Answer(w, c) = banners
      /\ c.tool = "get_announcements" => Answer(w, c) = announcements
      /\ c.tool = "find_operators"    => Answer(w, c) = found
      /\ c.tool = "get_my_roster"     => Answer(w, c) = roster
      /\ c.tool = "get_my_operator"   => Answer(w, c) = operator
      /\ c.tool = "get_my_inventory"  => Answer(w, c) = inventory
      /\ c.tool \in Searches            => Answer(w, c) = hits
  BY <1>1 DEF Searches
<1> QED
  BY <1>2, Zenon DEF stage, stageDrops, itemDrops, banners, announcements, found, roster, operator, inventory, hits

(* What the four listings answer is built without a plan. *)
LEMMA Unplanned ==
  ASSUME NEW w, NEW c, c.tool \in Plain
  PROVE  Plainly(Answer(w, c))
<1>2. CASE c.tool = "get_announcements"
<2>1. Answer(w, c) = GetAnnouncements(w, c)
  BY <1>2, Dispatched
<2>2. ASSUME NEW res PROVE Plainly(ShapeAnnouncements(c, res))
<3> DEFINE told == [server |-> <<[server |-> c.server]>>,
                    announcements |-> [i \in DOMAIN res.announcements |-> AnnouncementRow(res.announcements[i])],
                    page |-> <<res.page>>]
<3>1. ShapeAnnouncements(c, res) = Build("ok", told, res.prov, res.lims)
  BY Zenon DEF ShapeAnnouncements
<3> HIDE DEF told
<3> QED
  BY <3>1 DEF Plainly
<2>3. Answer(w, c) = Error("invalid_input") \/ \E res : Answer(w, c) = ShapeAnnouncements(c, res)
  BY <2>1, Zenon DEF GetAnnouncements
<2> QED
  BY <2>2, <2>3, PlainlyBuilt, Zenon
<1>3. CASE c.tool = "find_operators"
<2>1. Answer(w, c) = FindOperators(w, c)
  BY <1>3, Dispatched
<2> DEFINE e == FindOperators(w, c)
<2>2. e = Error("not_found") \/ \E rows, data, prov, lims : e = OperatorRowsOk(rows, data, prov, lims)
  BY OperatorsAnswer, Zenon
<2> HIDE DEF e
<2>3. Plainly(e)
  BY <2>2, PlainlyBuilt, Zenon
<2> QED
  BY <2>1, <2>3 DEF e
<1>4. CASE c.tool = "get_my_roster"
<2>1. Answer(w, c) = GetMyRoster(w, c)
  BY <1>4, Dispatched
<2> DEFINE e == GetMyRoster(w, c)
<2>2. (\E st : e = ShapeFailure(st)) \/ \E rows, data, prov, lims : e = OperatorRowsOk(rows, data, prov, lims)
  BY RosterAnswer, Zenon
<2> HIDE DEF e
<2>3. Plainly(e)
  BY <2>2, PlainlyBuilt, Zenon
<2> QED
  BY <2>1, <2>3 DEF e
<1>5. CASE c.tool = "get_my_inventory"
<2>1. Answer(w, c) = GetMyInventory(w, c)
  BY <1>5, Dispatched
<2> DEFINE e == GetMyInventory(w, c)
<2>2. e = ShapeFailure(Gate(w, c)) \/ \E rows, data, prov, lims : e = OperatorRowsOk(rows, data, prov, lims)
  BY InventoryAnswer, Zenon
<2> HIDE DEF e
<2>3. Plainly(e)
  BY <2>2, PlainlyBuilt, Zenon
<2> QED
  BY <2>1, <2>3 DEF e
<1> QED
  BY <1>2, <1>3, <1>4, <1>5 DEF Plain

(* Of the listings: the length of the list, once it has one. *)
LEMMA PlainUsable ==
  ASSUME NEW w0, AWorld(w0), NEW k \in DOMAIN w0.accounts, NEW r, ARequest(r), r.tool \in Plain
  PROVE  \E n \in Nat : \A p, s \in Nat \ {0} :
           Usable(Answer(WorldOf(w0, k), Cursor(r, p, s)), WorldOf(w0, k), r, p, s, n)
<1> DEFINE w == WorldOf(w0, k)
           L == All(w, r)
           n == IF Len(L) \in Nat THEN Len(L) ELSE 0
<1>1. ASSUME NEW p \in Nat \ {0}, NEW s \in Nat \ {0}
      PROVE  Usable(Answer(w, Cursor(r, p, s)), w, r, p, s, n)
<2> DEFINE c == Cursor(r, p, s)
           e == Answer(w, c)
<2>1. e \in RunGuarded(w, c)
  BY Zenon DEF RunGuarded
<2>2. /\ Sound(e, w, r, p, s)
      /\ r.tool \in PlainOfAccount => Stored(w0, k) \/ "message" \in DOMAIN e.data \/ <<"withheld">> \in e.lims
  BY <2>1, AnswerSound
<2>3. c.tool \in Plain
  BY CursorKept
<2>4. WireSize(e) <= Cap \/ <<"withheld">> \in e.lims
<3>1. PICK st, data, prov, lims : e = Build(st, data, prov, lims)
  BY <2>3, Unplanned, Zenon DEF Plainly
<3> HIDE DEF e
<3> QED
  BY <3>1, Direct
<2>5. /\ KeyIn(e, r) = "page"
      /\ r.tool \in OfAccount => r.tool \in PlainOfAccount
  BY DEF KeyIn, Plain, OfAccount, PlainOfAccount
<2>6. (r.tool \in PlainOfAccount => Stored(w0, k)) => Len(L) \in Nat
  BY ListsWhole DEF Whole
<2> HIDE DEF e, c, L
<2>7. Smaller(e, r, s)
  BY <2>2 DEF Sound, Untrimmed, Smaller, Cuts
<2>8. CASE "message" \in DOMAIN e.data
<3>1. DOMAIN e.data = {"message"}
  BY <2>2, <2>8 DEF Sound
<3>2. ~MoreIn(e, r)
  BY <2>5, <3>1 DEF MoreIn
<3> QED
  BY <2>4, <2>7, <2>8, <3>2 DEF Usable, Stampable, e, c
<2>9. CASE <<"withheld">> \in e.lims
  BY <2>9 DEF Usable, e, c
<2>10. CASE "message" \notin DOMAIN e.data /\ <<"withheld">> \notin e.lims
<3>1. Proper(e, w, r, p, s) /\ n = Len(L)
  BY <2>2, <2>6, <2>10 DEF Sound
<3>2. MoreIn(e, r) => p * s < n
<4>1. e.data["page"][1].has_more = (p * s < Len(L))
  BY <3>1 DEF Proper, L
<4> HIDE DEF n
<4> QED
  BY <2>5, <3>1, <4>1, Zenon DEF MoreIn
<3>3. r.tool \in PlainOfAccount => w.account # None
<4>1. r.tool \in PlainOfAccount => Stored(w0, k)
  BY <2>2, <2>10
<4> QED
  BY <4>1, WorldFields DEF Stored, w
<3>4. Stampable(e, w, r)
  BY <2>5, <3>1, <3>3 DEF Proper, Stampable
<3> HIDE DEF n, w
<3> QED
  BY <2>4, <2>7, <2>10, <3>2, <3>4 DEF Usable, e, c
<2> QED
  BY <2>8, <2>9, <2>10
<1>2. n \in Nat
  OBVIOUS
<1> QED
  BY <1>1, <1>2

(* The keys of four payloads joined. *)
LEMMA FourJoined ==
  ASSUME NEW a, NEW b, NEW c, NEW d
  PROVE  \A k : k \in DOMAIN (a ++ b ++ c ++ d)
                <=> k \in DOMAIN a \/ k \in DOMAIN b \/ k \in DOMAIN c \/ k \in DOMAIN d
<1> TAKE k
<1> DEFINE x == a ++ b
           y == x ++ c
<1>1. k \in DOMAIN x <=> k \in DOMAIN a \/ k \in DOMAIN b
  BY OverKey
<1> HIDE DEF x
<1>2. k \in DOMAIN y <=> k \in DOMAIN x \/ k \in DOMAIN c
  BY OverKey
<1> HIDE DEF y
<1>3. k \in DOMAIN (y ++ d) <=> k \in DOMAIN y \/ k \in DOMAIN d
  BY OverKey
<1>4. k \in DOMAIN (y ++ d) <=> k \in DOMAIN a \/ k \in DOMAIN b \/ k \in DOMAIN c \/ k \in DOMAIN d
  BY <1>1, <1>2, <1>3
<1> QED
  BY <1>4 DEF x, y

PageKeys == {"routes_page", "spawns_page", "efficiency_page", "stages_page", "page"}

(* A client can go by an answer built without a plan whose pages are of a list. *)
LEMMA BuiltUsable ==
  ASSUME NEW st, NEW data, NEW prov, NEW lims, NEW e, e = Build(st, data, prov, lims),
         NEW w, NEW r, NEW p, NEW s, NEW m \in Nat, NEW n \in Nat, m <= n, p * s \in Nat,
         \A l \in lims : l[1] # "trimmed",
         \A key \in PageKeys \cap DOMAIN data : data[key] = <<SectionPage(p, s, m)>>,
         r.tool \in OfAccount => /\ "about" \in DOMAIN data /\ 1 \in DOMAIN data["about"]
                                 /\ w.account # None /\ CleanRow(data["about"][1]).synced_at = w.account.synced
  PROVE  Usable(e, w, r, p, s, n)
<1> SUFFICES ASSUME <<"withheld">> \notin e.lims PROVE Usable(e, w, r, p, s, n)
  BY DEF Usable
<1>1. WireSize(e) <= Cap /\ e.data = CleanPayload(data) /\ e.lims = Caveats(data, lims)
  BY Direct
<1>2. /\ DOMAIN e.data = DOMAIN data
      /\ \A k \in DOMAIN data : e.data[k] = [i \in DOMAIN data[k] |-> CleanRow(data[k][i])]
  BY <1>1, CleanedKeys
<1>3. Smaller(e, r, s)
  BY <1>1 DEF Smaller, Caveats
<1>4. MoreIn(e, r) => p * s < n
<2> DEFINE key == KeyIn(e, r)
<2>1. key \in PageKeys
  BY DEF KeyIn, PageKeys
<2> HIDE DEF key
<2>2. SUFFICES ASSUME key \in DOMAIN e.data, e.data[key][1].has_more PROVE p * s < n
  BY DEF MoreIn, key
<2>3. key \in DOMAIN data /\ data[key] = <<SectionPage(p, s, m)>>
  BY <1>2, <2>1, <2>2
<2> DEFINE row == SectionPage(p, s, m)
<2>4. e.data[key][1] = CleanRow(row)
<3>1. e.data[key] = [i \in DOMAIN data[key] |-> CleanRow(data[key][i])]
  BY <1>2, <2>3
<3>2. data[key] = <<row>>
  BY <2>3
<3> HIDE DEF row
<3>3. 1 \in DOMAIN data[key] /\ data[key][1] = row
  BY <3>2
<3> QED
  BY <3>1, <3>3
<2>5. p * s < m
<3>1. CleanRow(row).has_more = (p * s < m)
  BY MorePages
<3> HIDE DEF row
<3> QED
  BY <2>2, <2>4, <3>1, Zenon
<2> QED
  BY <2>5
<1>5. Stampable(e, w, r)
<2> SUFFICES ASSUME r.tool \in OfAccount
             PROVE  w.account # None /\ "about" \in DOMAIN e.data /\ e.data["about"][1].synced_at = w.account.synced
  BY DEF Stampable
<2>1. e.data["about"][1] = CleanRow(data["about"][1])
  BY <1>2
<2> QED
  BY <1>2, <2>1
<1> QED
  BY <1>1, <1>3, <1>4, <1>5 DEF Usable

(* And by one without pages. *)
LEMMA PagelessUsable ==
  ASSUME NEW st, NEW data, NEW prov, NEW lims, NEW e, e = Build(st, data, prov, lims),
         NEW w, NEW r, NEW p, NEW s, p * s \in Nat,
         \A l \in lims : l[1] # "trimmed", PageKeys \cap DOMAIN data = {},
         r.tool \in OfAccount => /\ "about" \in DOMAIN data /\ 1 \in DOMAIN data["about"]
                                 /\ w.account # None /\ CleanRow(data["about"][1]).synced_at = w.account.synced
  PROVE  Usable(e, w, r, p, s, 0)
<1>1. 0 \in Nat /\ 0 <= 0
  OBVIOUS
<1>2. \A key \in PageKeys \cap DOMAIN data : data[key] = <<SectionPage(p, s, 0)>>
  OBVIOUS
<1> QED
  BY <1>1, <1>2, BuiltUsable

(* A limitation over alternates starts with the name of what it says. *)
LEMMA Started ==
  ASSUME NEW a, NEW b, NEW c, NEW d, NEW found
  PROVE  (<<a, b, c, d>> \o Named(found))[1] = a /\ (<<a>> \o Named(found))[1] = a
<1>1. \A x, y : (<<a, b, c, d>> \o <<x, y>>)[1] = a /\ (<<a>> \o <<x, y>>)[1] = a
  OBVIOUS
<1>2. \E x, y : Named(found) = <<x, y>>
  BY Zenon DEF Named
<1> QED
  BY <1>1, <1>2, Zenon

(* Of a shared code an answer says nothing else. *)
LEMMA AlternatesTold ==
  ASSUME NEW found
  PROVE  \A l \in AmbiguityLimitation(found) : l[1] = "shared_code"
<1> DEFINE one == <<"shared_code", found.stage.id, StageVariant(found.stage), Len(found.alternates) + 1>> \o Named(found)
<1>1. AmbiguityLimitation(found) \subseteq {one}
<2>1. AmbiguityLimitation(found) = If(found.alternates # <<>>, {one})
  BY Zenon DEF AmbiguityLimitation
<2> HIDE DEF one
<2>2. AmbiguityLimitation(found) = {one} \/ AmbiguityLimitation(found) = {}
  BY <2>1, Zenon DEF If
<2> QED
  BY <2>2
<1>2. one[1] = "shared_code"
<2> DEFINE id == found.stage.id  variant == StageVariant(found.stage)  n == Len(found.alternates) + 1
<2> HIDE DEF id, variant, n
<2>1. (<<"shared_code", id, variant, n>> \o Named(found))[1] = "shared_code"
  BY Started
<2> QED
  BY <2>1, Zenon DEF id, variant, n
<1> HIDE DEF one
<1> QED
  BY <1>1, <1>2

(* Of the drops of a stage. *)
LEMMA StageDropsUsable ==
  ASSUME NEW w, NEW c, NEW e, e = GetStageDrops(w, c), NEW r, r.tool = "get_stage_drops", NEW p, NEW s, p * s \in Nat
  PROVE  Usable(e, w, r, p, s, 0)
<1> DEFINE res == StageDropsResult(w, c)
<1>1. CASE Resolve(w.stages, c).stage = None
<2>1. e = Error("not_found")
  BY <1>1 DEF GetStageDrops
<2> QED
  BY <2>1, ErrorUsable
<1>2. CASE ~(Resolve(w.stages, c).stage = None)
<2> HIDE DEF res
<2>1. e = ShapeStageDrops(w, res)
  BY <1>2, Zenon DEF GetStageDrops, res
<2> DEFINE st       == res.found.stage
           shared   == SharedStamps(res.drops)
           ranked   == res.ranking # <<>>
           residual == SelectSeq(res.drops, LAMBDA f : f \notin ToSet(res.ranking))
           identity(f) == DropIdentity(w, st.server, f)
           kept == [stage |-> <<[server |-> st.server, game_id |-> st.id, stage_code |-> st.code,
                            display_name |-> st.name, sanity_cost |-> st.cost]>>,
                 drop_provenance |-> <<shared>>, enum_legend |-> <<[item_type |-> TRUE]>>]
           left == Section(residual # <<>> \/ res.drops = <<>>,
                         [drops |-> [i \in DOMAIN residual |-> RawRow(residual[i], identity(residual[i]), shared)]])
           warned == Section(res.analyzed, [warnings |-> Listed(Warnings(st.cost, res.drops))])
           best == Section(ranked,
                         [observation |-> <<Observation(res.ranking, res.stale, {})>>,
                          ranking |-> [i \in DOMAIN res.ranking |->
                                         RankedRow(res.ranking[i], identity(res.ranking[i]), shared, res.stale)]])
           data == kept ++ left ++ warned ++ best
           lims == AmbiguityLimitation(res.found)
                   \cup If(res.drops = <<>>, {<<"no_drops">>})
                   \cup If(res.drops = <<>> /\ res.found.alternates # <<>>, {<<"try_alternates">> \o Named(res.found)})
           all == Noted(res.stale, lims, ranked)
<2>2. e = Build(AgedStatus(res.stale), data, {st.snap}, all)
  BY <2>1, Zenon DEF ShapeStageDrops
<2>3. /\ DOMAIN kept = {"stage", "drop_provenance", "enum_legend"}
      /\ DOMAIN left \subseteq {"drops"} /\ DOMAIN warned \subseteq {"warnings"} /\ DOMAIN best \subseteq {"observation", "ranking"}
  BY NoKeys DEF Section
<2>4. \A l \in lims : l[1] \in {"shared_code", "no_drops", "try_alternates"}
<3> DEFINE tried == <<"try_alternates">> \o Named(res.found)
<3>1. tried[1] = "try_alternates"
  BY Started, Zenon
<3>2. \A l \in AmbiguityLimitation(res.found) : l[1] = "shared_code"
  BY AlternatesTold
<3> HIDE DEF tried
<3>3. lims \subseteq AmbiguityLimitation(res.found) \cup {<<"no_drops">>, tried}
<4> HIDE DEF tried
<4>1. lims = AmbiguityLimitation(res.found)
              \cup If(res.drops = <<>>, {<<"no_drops">>})
              \cup If(res.drops = <<>> /\ res.found.alternates # <<>>, {tried})
  BY Zenon DEF tried
<4> DEFINE x == If(res.drops = <<>>, {<<"no_drops">>})
           y == If(res.drops = <<>> /\ res.found.alternates # <<>>, {tried})
<4>2. (x = {<<"no_drops">>} \/ x = {}) /\ (y = {tried} \/ y = {})
  BY Zenon DEF If
<4> HIDE DEF x, y, lims
<4>3. lims = AmbiguityLimitation(res.found) \cup x \cup y
  BY <4>1, Zenon DEF x, y
<4> QED
  BY <4>2, <4>3
<3> HIDE DEF lims
<3> QED
  BY <3>1, <3>2, <3>3
<2> HIDE DEF kept, left, warned, best, lims, ranked
<2>5. \A k \in DOMAIN data : k \in DOMAIN kept \/ k \in DOMAIN left \/ k \in DOMAIN warned \/ k \in DOMAIN best
  BY FourJoined
<2> HIDE DEF data
<2>6. \A l \in all : l[1] # "trimmed"
<3>1. all = lims \cup If(res.stale, {<<"stale">>}) \cup If(ranked, {<<"confidence_scale">>}) \cup {<<"enum_note">>}
  BY Zenon DEF Noted
<3> DEFINE x == If(res.stale, {<<"stale">>})  y == If(ranked, {<<"confidence_scale">>})
<3>2. (x = {<<"stale">>} \/ x = {}) /\ (y = {<<"confidence_scale">>} \/ y = {})
  BY Zenon DEF If
<3> HIDE DEF x, y, all
<3>3. \A l \in all : l \in lims \/ l \in {<<"stale">>, <<"confidence_scale">>, <<"enum_note">>}
  BY <3>1, <3>2 DEF x, y
<3> QED
  BY <2>4, <3>3
<2>7. PageKeys \cap DOMAIN data = {}
  BY <2>3, <2>5 DEF PageKeys
<2> HIDE DEF all
<2> QED
  BY <2>2, <2>6, <2>7, PagelessUsable DEF OfAccount
<1> QED
  BY <1>1, <1>2

(* The stamp of an answer that says no more of itself. *)
LEMMA SyncedKept ==
  ASSUME NEW w0, AWorld(w0), NEW n, Stored(w0, n), NEW c
  PROVE  CleanRow(Synced(WorldOf(w0, n), c)).synced_at = WorldOf(w0, n).account.synced
<1> DEFINE w == WorldOf(w0, n)
           a == Synced(w, c)
<1>1. w.account.synced = n
  BY AboutKept
<1>2. n # None
<2>1. n \in Int
  BY DEF AWorld, Stored
<2> QED
  BY <2>1, AnswersAssumption
<1>3. "synced_at" \in DOMAIN a /\ a["synced_at"] = w.account.synced
  BY DEF Synced
<1> HIDE DEF a, w
<1>4. CleanRow(a)["synced_at"] = w.account.synced
  BY <1>1, <1>2, <1>3, Cleaned DEF Nested
<1> QED
  BY <1>4 DEF a, w

(* Of one operator of the account. *)
LEMMA MyOperatorUsable ==
  ASSUME NEW w0, AWorld(w0), NEW k \in DOMAIN w0.accounts, NEW c, NEW e, e = GetMyOperator(WorldOf(w0, k), c),
         NEW r, r.tool = "get_my_operator", NEW p, NEW s, p * s \in Nat
  PROVE  Usable(e, WorldOf(w0, k), r, p, s, 0)
<1> DEFINE w == WorldOf(w0, k)
           op      == CHOOSE o \in Owned(w).operators : o.char = c.value
           build   == BuildOf(w, c.server, c.value)
           skills  == {SkillRow(op, build, x) : x \in op.skills}
           modules == {ModuleRow(op, build, m) : m \in op.modules}
           skins   == {[skin_id |-> x.id, display_name |-> x.name, alt_form |-> IF x.alternate THEN TRUE ELSE None] :
                         x \in {y \in build.skins : y.id \in Owned(w).skins}}
           row     == AccountIdentity(op, build) ++ [current_skin_id |-> op.skin]
           about   == Synced(w, c)
           base    == [about |-> <<about>>, operator |-> <<row>>, skills |-> Listed(skills), modules |-> Listed(modules)]
           worn    == IF build = None THEN Nothing ELSE [skins |-> Listed(skins)]
           prov    == AccountProvenance(w, {build})
           unnamed == If(\E x \in skills \cup modules : x.display_name = None, {<<"unnamed_part">>})
           lims    == {<<"snapshot_note">>, IF build = None THEN <<"unknown_operator">> ELSE <<"skins_note">>} \cup unnamed
           legend  == IF EmitsProfession(<<row>>) THEN [enum_legend |-> <<[profession |-> TRUE]>>] ELSE Nothing
           noted   == If(EmitsProfession(<<row>>), {<<"enum_note">>})
<1>1. e = IF Gate(w, c) # "ok" THEN ShapeFailure(Gate(w, c))
          ELSE IF ~\E o \in Owned(w).operators : o.char = c.value THEN ShapeFailure("not_found")
          ELSE OperatorRowsOk(<<row>>, base ++ worn, prov, lims)
  BY Zenon DEF GetMyOperator
<1>2. OperatorRowsOk(<<row>>, base ++ worn, prov, lims) = Build("ok", (base ++ worn) ++ legend, prov, lims \cup noted)
  BY Zenon DEF OperatorRowsOk
<1>3. /\ DOMAIN base = {"about", "operator", "skills", "modules"} /\ base["about"] = <<about>>
      /\ DOMAIN worn \subseteq {"skins"} /\ DOMAIN legend \subseteq {"enum_legend"}
<2> HIDE DEF about, row, skills, modules, skins
<2> QED
  BY NoKeys
<1>4. (unnamed = {<<"unnamed_part">>} \/ unnamed = {}) /\ (noted = {<<"enum_note">>} \/ noted = {})
  BY Zenon DEF If
<1>5. lims \cup noted \subseteq {<<"snapshot_note">>, <<"unknown_operator">>, <<"skins_note">>, <<"unnamed_part">>, <<"enum_note">>}
<2> HIDE DEF unnamed, noted, build
<2> QED
  BY <1>4
<1> HIDE DEF w, base, worn, legend, noted, lims, row, about, prov
<1>6. CASE Gate(w, c) # "ok" \/ ~\E o \in Owned(w).operators : o.char = c.value
<2>1. \E st : e = ShapeFailure(st)
  BY <1>1, <1>6, Zenon
<2>2. \E st : e = Error(st)
  BY <2>1, Zenon DEF ShapeFailure
<2> QED
  BY <2>2, ErrorUsable DEF w
<1>7. CASE Gate(w, c) = "ok" /\ \E o \in Owned(w).operators : o.char = c.value
<2> DEFINE data == (base ++ worn) ++ legend
           all == lims \cup noted
<2>1. e = Build("ok", data, prov, all)
  BY <1>1, <1>2, <1>7, Zenon
<2>2. CleanRow(about).synced_at = w.account.synced /\ w.account # None
<3>1. Stored(w0, k)
  BY <1>7, GateOpen DEF w
<3> QED
  BY <3>1, SyncedKept, WorldFields DEF w, about, Stored
<2>3. /\ "about" \in DOMAIN (base ++ worn) /\ (base ++ worn)["about"] = <<about>>
      /\ \A key : key \in DOMAIN (base ++ worn) <=> key \in DOMAIN base \/ key \in DOMAIN worn
  BY <1>3, OverKey
<2>4. /\ "about" \in DOMAIN data /\ data["about"] = <<about>>
      /\ \A key : key \in DOMAIN data <=> key \in DOMAIN (base ++ worn) \/ key \in DOMAIN legend
  BY <2>3, OverKey
<2>5. PageKeys \cap DOMAIN data = {}
  BY <1>3, <2>3, <2>4 DEF PageKeys
<2>6. \A l \in all : l[1] # "trimmed"
  BY <1>5
<2> HIDE DEF data, all
<2>7. 1 \in DOMAIN data["about"] /\ w.account # None /\ CleanRow(data["about"][1]).synced_at = w.account.synced
  BY <2>2, <2>4
<2> QED
  BY <2>1, <2>4, <2>5, <2>6, <2>7, PagelessUsable DEF w
<1> QED
  BY <1>6, <1>7

(* Of what a search finds. *)
LEMMA SearchUsable ==
  ASSUME NEW w, NEW c, NEW e, e = Search(w, c), NEW r, r.tool \in Searches, NEW p, NEW s, p * s \in Nat
  PROVE  Usable(e, w, r, p, s, 0)
<1> DEFINE result == SearchEntities(w, c)
           rows   == [i \in DOMAIN result.hits |-> HitToDict(w, result.hits[i])]
           staged == \E i \in DOMAIN result.hits : result.hits[i].type = "stage"
           base   == [about |-> <<[query |-> c.query, count |-> Len(rows)]>>, results |-> rows]
           legend == IF staged THEN [enum_legend |-> <<[difficulty |-> TRUE]>>] ELSE Nothing
           lims   == If(result.reason # None, {<<result.reason>>})
<1>1. e = IF result.status # "ok" THEN Error(result.status) ELSE Build("ok", base ++ legend, {}, lims)
  BY Zenon DEF Search
<1>2. result.reason \in {None, "no_searchable_tokens", "no_match"}
<2> DEFINE tokens == MatchExpression(c)
           hits   == IF tokens = {} THEN <<>> ELSE Hits(w, c)
           reason == IF tokens = {} THEN "no_searchable_tokens" ELSE IF hits = <<>> THEN "no_match" ELSE None
<2>1. result = IF ~RegionGate(w, c) THEN [status |-> "data_stale", hits |-> <<>>, reason |-> None]
               ELSE [status |-> "ok", hits |-> hits, reason |-> reason]
  BY Zenon DEF SearchEntities
<2>2. reason \in {None, "no_searchable_tokens", "no_match"}
  OBVIOUS
<2> HIDE DEF result, hits, reason
<2> QED
  BY <2>1, <2>2
<1>3. DOMAIN base = {"about", "results"} /\ DOMAIN legend \subseteq {"enum_legend"}
<2> HIDE DEF result, staged
<2> QED
  BY NoKeys
<1>4. \A l \in lims : l[1] # "trimmed"
<2> HIDE DEF result
<2>1. lims = {} \/ (result.reason # None /\ lims = {<<result.reason>>})
  BY Zenon DEF If
<2> HIDE DEF lims
<2> QED
  BY <1>2, <2>1
<1> HIDE DEF result, base, legend, lims
<1>5. PageKeys \cap DOMAIN (base ++ legend) = {}
<2>1. \A key : key \in DOMAIN (base ++ legend) <=> key \in DOMAIN base \/ key \in DOMAIN legend
  BY OverKey
<2> QED
  BY <1>3, <2>1 DEF PageKeys
<1>6. CASE result.status # "ok"
  BY <1>1, <1>6, ErrorUsable
<1>7. CASE ~(result.status # "ok")
<2>1. e = Build("ok", base ++ legend, {}, lims)
  BY <1>1, <1>7, Zenon
<2>2. r.tool \notin OfAccount
  BY DEF Searches, OfAccount
<2> QED
  BY <1>4, <1>5, <2>1, <2>2, PagelessUsable
<1> QED
  BY <1>6, <1>7

(* The values of a function on a finite set are finite in number. *)
LEMMA FewValues ==
  ASSUME NEW S, IsFiniteSet(S), NEW g, DOMAIN g = S
  PROVE  IsFiniteSet({g[x] : x \in S})
<1> DEFINE T == {g[x] : x \in S}
           f == [x \in S |-> g[x]]
<1>1. f \in Surjection(S, T)
  BY DEF Surjection
<1> HIDE DEF T, f
<1>2. IsFiniteSet(T)
  BY <1>1, FS_Surjection
<1> QED
  BY <1>2 DEF T

(* The entries of a list can be counted, and there are finitely many. *)
LEMMA EntriesCounted ==
  ASSUME NEW n \in Nat, NEW t, t = [i \in 1..n |-> t[i]]
  PROVE  Len(t) = n /\ IsFiniteSet(ToSet(t))
<1>1. Len(t) = n
  BY Spelt, Zenon
<1>2. IsFiniteSet(1..n)
  BY FS_Interval
<1>3. DOMAIN t = 1..n
  BY Zenon
<1>4. IsFiniteSet({t[i] : i \in 1..n})
  BY <1>2, <1>3, FewValues, Zenon
<1> QED
  BY <1>1, <1>3, <1>4, Zenon DEF ToSet

(* The drops of an item, and its ranking, have a length. *)
LEMMA FactsCounted ==
  ASSUME NEW w, IsFiniteSet(w.drops), NEW item
  PROVE  Len(ItemDropFacts(w, item)) \in Nat /\ Len(Ranking(ItemDropFacts(w, item))) \in Nat
<1> DEFINE of == {d \in w.drops : d.item = item.pk /\ StageOf(w, d.stage).server = item.server}
           fact == [d \in of |-> LET s == StageOf(w, d.stage) IN Fact(d, w.now, s.id, s.code, s.cost)]
           S == {fact[d] : d \in of}
           all == ItemDropFacts(w, item)
<1>1. IsFiniteSet(of)
  BY FS_Subset
<1>2. DOMAIN fact = of
  OBVIOUS
<1>3. all = OrderBy(S, LAMBDA a, b : Order(a.code) < Order(b.code) \/ (Order(a.code) = Order(b.code) /\ a.id < b.id))
<2>1. S = {LET s == StageOf(w, d.stage) IN Fact(d, w.now, s.id, s.code, s.cost) : d \in of}
  OBVIOUS
<2> HIDE DEF S
<2> QED
  BY <2>1, Zenon DEF ItemDropFacts
<1> HIDE DEF of, fact
<1>4. IsFiniteSet(S)
  BY <1>1, <1>2, FewValues
<1> HIDE DEF S
<1>5. Cardinality(S) \in Nat
  BY <1>4, FS_CardinalityType
<1>6. all = [i \in 1..Cardinality(S) |-> all[i]]
  BY <1>3, Zenon DEF OrderBy
<1> HIDE DEF all
<1>7. Len(all) = Cardinality(S) /\ IsFiniteSet(ToSet(all))
  BY <1>5, <1>6, EntriesCounted, Zenon
<1> DEFINE R == {f \in ToSet(all) : Rankable(f)}
           best == Ranking(all)
<1>8. IsFiniteSet(R)
  BY <1>7, FS_Subset
<1>9. best = [i \in 1..Cardinality(R) |-> best[i]]
<2> DEFINE pick(i) == CHOOSE x \in R : Cardinality({y \in R : RankBefore(y, x)}) = i - 1
           B == [i \in 1..Cardinality(R) |-> pick(i)]
<2>2. best = B
  BY Zenon DEF Ranking, OrderBy
<2> HIDE DEF pick, R
<2>3. B = [i \in 1..Cardinality(R) |-> B[i]]
  BY Zenon
<2> HIDE DEF best, B
<2> QED
  BY <2>2, <2>3, Zenon
<1>10. Cardinality(R) \in Nat
  BY <1>8, FS_CardinalityType
<1> HIDE DEF R, best
<1>11. Len(best) = Cardinality(R)
  BY <1>9, <1>10, EntriesCounted, Zenon
<1> QED
  BY <1>5, <1>7, <1>10, <1>11 DEF all, best

(* Of the drops of an item: the length of both its lists. *)
LEMMA ItemDropsUsable ==
  ASSUME NEW w0, AWorld(w0), NEW k, NEW r, ARequest(r), r.tool = "get_item_drops"
  PROVE  \E n \in Nat : \A p, s \in Nat \ {0} :
           Usable(GetItemDrops(WorldOf(w0, k), Cursor(r, p, s)), WorldOf(w0, k), r, p, s, n)
<1> DEFINE w == WorldOf(w0, k)
           item == CHOOSE i \in w.items : i.server = r.server /\ i.id = r.value
           all == ItemDropFacts(w, item)
           n == Len(all) + Len(Ranking(all))
<1>1. IsFiniteSet(w.drops)
  BY WorldParts DEF AWorld
<1>2. Len(all) \in Nat /\ Len(Ranking(all)) \in Nat
  BY <1>1, FactsCounted
<1>3. ASSUME NEW p \in Nat \ {0}, NEW s \in Nat \ {0}
      PROVE  Usable(GetItemDrops(w, Cursor(r, p, s)), w, r, p, s, n)
<2> DEFINE c == Cursor(r, p, s)
           e == GetItemDrops(w, c)
           res == ItemDropsResult(w, c)
<2>1. c.page = p /\ c.size = s /\ c.server = r.server /\ c.value = r.value
  BY CursorParts DEF ARequest
<2> HIDE DEF c, w
<2>2. CASE ~\E i \in w.items : i.server = c.server /\ i.id = c.value
<3>1. e = Error("not_found")
  BY <2>2 DEF GetItemDrops
<3> HIDE DEF e
<3>2. Usable(e, w, r, p, s, n)
  BY <3>1, ErrorUsable
<3> QED
  BY <3>2 DEF e, c
<2>3. CASE \E i \in w.items : i.server = c.server /\ i.id = c.value
<3> DEFINE ranked == c.efficiency /\ Ranking(all) # <<>>
           total == IF ranked THEN Len(Ranking(all)) ELSE Len(all)
<3>1. res.total = total
<4> DEFINE its  == CHOOSE i \in w.items : i.server = c.server /\ i.id = c.value
           list == ItemDropFacts(w, its)
           best == c.efficiency /\ Ranking(list) # <<>>
           tot  == IF best THEN Len(Ranking(list)) ELSE Len(list)
           pg   == IF best THEN RankedPage(list, c) ELSE PageOf(list, c.page, c.size)
<4>1. its = item
  BY <2>1
<4>2. res = [item |-> its, all |-> list, stale |-> Stale(list), analyzed |-> c.efficiency /\ list # <<>>,
             ranked |-> best, total |-> tot, page |-> pg]
  BY Zenon DEF ItemDropsResult
<4>3. res.total = tot
<5> HIDE DEF its, list, best, tot, pg, res
<5> QED
  BY <4>2
<4>4. tot = total
<5> HIDE DEF its, item
<5> QED
  BY <4>1
<4> QED
  BY <4>3, <4>4, Zenon
<3>2. total \in Nat /\ total <= n /\ p * s \in Nat /\ n \in Nat
<4> HIDE DEF all, ranked
<4> QED
  BY <1>2
<3> HIDE DEF all, ranked, total, n, item
<3>3. e = ShapeItemDrops(res, c)
  BY <2>3, Zenon DEF GetItemDrops
<3> HIDE DEF res, e
<3> DEFINE shared == SharedStamps(res.page)
           of(i)  == StageDropIdentity(res.page[i])
           window == <<SectionPage(c.page, c.size, res.total)>>
           kept   == [item |-> <<ItemFacts(res.item)>>,
                      drop_provenance |-> <<shared>>, enum_legend |-> <<[item_type |-> TRUE]>>]
           rows   == Section(~res.ranked, [stages |-> [i \in DOMAIN res.page |-> RawRow(res.page[i], of(i), shared)]])
           paged  == Section(~res.ranked /\ res.all # <<>>, [stages_page |-> window])
           warned == Section(res.analyzed, [warnings |-> Listed(Excluded(res.all))])
           best   == Section(res.ranked,
                         [observation |-> <<Observation(Ranking(res.all), Stale(Ranking(res.all)), ItemCaveats)>>,
                          ranking |-> [i \in DOMAIN res.page |-> RankedRow(res.page[i], of(i), shared, res.page[i].expired)],
                          efficiency_page |-> window])
           data   == ((kept ++ rows ++ paged) ++ warned) ++ best
           none   == If(res.page = <<>>, {<<"no_drops">>})
           lims   == Noted(res.stale, none, res.ranked)
<3>4. e = Build(AgedStatus(res.stale), data, ItemProvenance(res.all), lims)
  BY <3>3, Zenon DEF ShapeItemDrops
<3>5. \A l \in lims : l[1] # "trimmed"
<4> DEFINE x == If(res.stale, {<<"stale">>})  y == If(res.ranked, {<<"confidence_scale">>})
<4>1. lims = none \cup x \cup y \cup {<<"enum_note">>}
  BY Zenon DEF Noted
<4>2. (x = {<<"stale">>} \/ x = {}) /\ (y = {<<"confidence_scale">>} \/ y = {}) /\ (none = {<<"no_drops">>} \/ none = {})
  BY Zenon DEF If
<4> HIDE DEF x, y, none, lims
<4>3. \A l \in lims : l \in {<<"no_drops">>, <<"stale">>, <<"confidence_scale">>, <<"enum_note">>}
  BY <4>1, <4>2
<4> QED
  BY <4>3
<3>6. window = <<SectionPage(p, s, total)>>
  BY <2>1, <3>1
<3> HIDE DEF window, shared
<3>7. /\ DOMAIN kept = {"item", "drop_provenance", "enum_legend"} /\ DOMAIN rows \subseteq {"stages"}
      /\ DOMAIN warned \subseteq {"warnings"} /\ DOMAIN paged \subseteq {"stages_page"}
      /\ DOMAIN best \subseteq {"observation", "ranking", "efficiency_page"}
      /\ "stages_page" \in DOMAIN paged => paged["stages_page"] = window
      /\ "efficiency_page" \in DOMAIN best => best["efficiency_page"] = window
  BY NoKeys DEF Section
<3> HIDE DEF kept, rows, paged, warned, best, lims
<3>8. \A key : key \in DOMAIN data <=> \/ key \in DOMAIN kept \/ key \in DOMAIN rows \/ key \in DOMAIN paged
                                       \/ key \in DOMAIN warned \/ key \in DOMAIN best
  BY OverKey
<3>9. "stages_page" \in DOMAIN data => data["stages_page"] = window
  BY <3>7, OverKey
<3>10. "efficiency_page" \in DOMAIN data => data["efficiency_page"] = window
  BY <3>7, OverKey
<3> HIDE DEF data
<3>11. \A key \in PageKeys \cap DOMAIN data : data[key] = <<SectionPage(p, s, total)>>
  BY <3>6, <3>7, <3>8, <3>9, <3>10 DEF PageKeys
<3>11a. r.tool \notin OfAccount
  BY DEF OfAccount
<3> DEFINE st == AgedStatus(res.stale)
           prov == ItemProvenance(res.all)
<3>11b. e = Build(st, data, prov, lims)
  BY <3>4
<3> HIDE DEF st, prov, n
<3>12. Usable(e, w, r, p, s, n)
  BY <3>2, <3>5, <3>11, <3>11a, <3>11b, BuiltUsable, ZenonT(60)
<3> QED
  BY <3>12 DEF e, c
<2> QED
  BY <2>2, <2>3 DEF w, c
<1>4. n \in Nat
  BY <1>2
<1> HIDE DEF n
<1>5. \A p, s \in Nat \ {0} : Usable(GetItemDrops(w, Cursor(r, p, s)), w, r, p, s, n)
  BY <1>3
<1> HIDE DEF w
<1> WITNESS n \in Nat
<1> QED
  BY <1>5, Zenon DEF w

-------------------------------------------------------------------------------
(* Answers cut by a plan. *)
(* What a plan leaves of an answer while it cuts it: the pages' blocks as they were, lists
   no longer than a page, and no trim told that a client cannot follow. *)
CutLists == {"routes", "banners"}
Intact(env, data, r, s) ==
  /\ AnAnswer(env)
  /\ \A key \in PageKeys \cap DOMAIN env.data : key \in DOMAIN data /\ env.data[key] = data[key]
  /\ \A part \in CutLists \cap DOMAIN env.data :
       /\ Len(env.data[part]) \in Nat /\ DOMAIN env.data[part] = 1..Len(env.data[part])
       /\ ReadsSpawns(r) \/ Len(env.data[part]) <= s
  /\ Smaller(env, r, s)

(* The head of a list is as long as it says. *)
LEMMA HeadLength ==
  ASSUME NEW t, Len(t) \in Nat, DOMAIN t = 1..Len(t), NEW m \in Nat, m <= Len(t), NEW h, h = SubSeq(t, 1, m)
  PROVE  Len(h) = m /\ DOMAIN h = 1..m
<1> DEFINE S == {t[i] : i \in 1..m}  n == Len(t)
<1>1. \A i \in 1..m : t[i] \in S
  OBVIOUS
<1> HIDE DEF S, n
<1>2. /\ SubSeq(t, 1, m) \in Seq(S)
      /\ Len(SubSeq(t, 1, m)) = IF 1 <= m THEN m - 1 + 1 ELSE 0
  BY <1>1, SubSeqProperties
<1>3. h \in Seq(S) /\ Len(h) = m
  BY <1>2
<1> QED
  BY <1>3

(* A step of a plan keeps to that. *)
LEMMA StepKeeps ==
  ASSUME NEW shed, NEW step, NEW data, NEW r, NEW s \in Nat \ {0}, Intact(shed.env, data, r, s),
         step.part \in {"map_image", "image_refs"} \cup CutLists
  PROVE  Depths(step.part, shed.env) \in Nat /\ Intact(Spend(shed, step).env, data, r, s)
<1> DEFINE env == shed.env
           part == step.part
           n == Depths(part, env)
           now == Spend(shed, step)
<1>1. Countable(part, env)
  BY DEF Intact, Countable
<1>2. /\ n \in Nat
      /\ part \notin {"map_image", "image_refs"} =>
           IF part \in DOMAIN env.data /\ Len(env.data[part]) > 1 THEN n = Len(env.data[part]) - 1 ELSE n = 0
  BY <1>1, DepthsOf
<1>3. now = shed \/ \E d \in 0..(n - 1) : now.env = Cut(part, env, d)
  BY <1>2, Spent, Zenon
<1> HIDE DEF now
<1>4. CASE now = shed
  BY <1>2, <1>4 DEF now
<1>5. CASE \E d \in 0..(n - 1) : now.env = Cut(part, env, d)
<2>1. PICK d \in 0..(n - 1) : now.env = Cut(part, env, d)
  BY <1>5
<2> DEFINE c == now.env
<2>2. AnAnswer(env)
  BY DEF Intact
<2> HIDE DEF c
<2>3. CASE part = "map_image"
<3>1. c = Cut("map_image", env, d)
  BY <2>1, <2>3 DEF c
<3> HIDE DEF env, n, part
<3>2. /\ AnAnswer(c)
      /\ c.lims = env.lims \cup {<<"image_shed">>}
      /\ DOMAIN c.data = DOMAIN env.data \ {"map_image"}
      /\ \A k \in DOMAIN c.data : c.data[k] = env.data[k]
  BY <2>2, <3>1, CutImage
<3>3. Smaller(c, r, s)
  BY <3>2 DEF Intact, Smaller, env
<3>4. Intact(c, data, r, s)
  BY <3>2, <3>3 DEF Intact, env
<3> QED
  BY <1>2, <3>4 DEF c, now, env, part, n
<2>4. CASE part = "image_refs"
<3>1. c = Cut("image_refs", env, d)
  BY <2>1, <2>4 DEF c
<3> HIDE DEF env, n, part
<3>2. /\ AnAnswer(c)
      /\ c.lims = (env.lims \ {<<"image_refs">>}) \cup {<<"refs_shed">>}
      /\ DOMAIN c.data = DOMAIN env.data \ ImageRefKeys
      /\ \A k \in DOMAIN c.data : k # "banners" => c.data[k] = env.data[k]
      /\ "banners" \in DOMAIN c.data =>
           c.data["banners"] = [i \in DOMAIN env.data["banners"] |-> WithoutRefs(env.data["banners"][i])]
  BY <2>2, <3>1, CutRefs
<3>3. Smaller(c, r, s)
  BY <3>2 DEF Intact, Smaller, env
<3>4. \A key \in PageKeys \cap DOMAIN c.data : key \in DOMAIN data /\ c.data[key] = data[key]
  BY <3>2 DEF Intact, PageKeys, env
<3>5. ASSUME "banners" \in DOMAIN c.data
      PROVE  DOMAIN c.data["banners"] = DOMAIN env.data["banners"] /\ Len(c.data["banners"]) = Len(env.data["banners"])
<4> DEFINE t == env.data["banners"]  m == Len(t)  u == c.data["banners"]
<4>1. m \in Nat /\ DOMAIN t = 1..m
  BY <3>2, <3>5 DEF Intact, CutLists, env
<4>2. u = [i \in DOMAIN t |-> WithoutRefs(t[i])]
  BY <3>2, <3>5
<4> HIDE DEF t, u, m
<4>3. u = [i \in 1..m |-> u[i]]
<5>1. u = [i \in 1..m |-> WithoutRefs(t[i])]
  BY <4>1, <4>2, Zenon
<5> DEFINE x(i) == WithoutRefs(t[i])
<5> HIDE DEF x
<5>2. u = [i \in 1..m |-> x(i)]
  BY <5>1, Zenon DEF x
<5> QED
  BY <5>2, Zenon
<4>4. Len(u) = m
  BY <4>1, <4>3, Spelt, Zenon
<4>5. DOMAIN u = 1..m
  BY <4>3, Zenon
<4> QED
  BY <4>1, <4>4, <4>5 DEF t, u, m
<3>6. ASSUME NEW x \in CutLists \cap DOMAIN c.data
      PROVE  /\ x \in CutLists \cap DOMAIN env.data
             /\ DOMAIN c.data[x] = DOMAIN env.data[x] /\ Len(c.data[x]) = Len(env.data[x])
  BY <3>2, <3>5 DEF CutLists
<3>7. Intact(c, data, r, s)
  BY <3>2, <3>3, <3>4, <3>6 DEF Intact, env
<3> QED
  BY <1>2, <3>7 DEF c, now, env, part, n
<2>5. CASE part \in CutLists
<3> DEFINE m == Len(env.data[part])
           kept == m - 1 - d
<3>0. part \notin {"map_image", "image_refs"} /\ part \notin PageKeys
  BY <2>5 DEF CutLists, PageKeys
<3>1. part \in DOMAIN env.data /\ n = m - 1 /\ m > 1
  BY <1>2, <2>1, <3>0
<3>2. m \in Nat /\ DOMAIN env.data[part] = 1..m /\ (ReadsSpawns(r) \/ m <= s)
  BY <2>5, <3>1 DEF Intact
<3>3. kept \in 1..(m - 1)
<4> HIDE DEF m, n
<4> QED
  BY <2>1, <3>1, <3>2
<3>4. /\ AnAnswer(c)
      /\ c.lims = env.lims \cup {<<"trimmed", kept, m>>}
      /\ DOMAIN c.data = DOMAIN env.data
      /\ \A k \in DOMAIN c.data : k # part => c.data[k] = env.data[k]
      /\ c.data[part] = SubSeq(env.data[part], 1, kept)
<4>1. c = Cut(part, env, d)
  BY <2>1 DEF c
<4> HIDE DEF env, part, n
<4> QED
  BY <2>2, <3>0, <3>1, <4>1, CutRows
<3> HIDE DEF n
<3>5. Len(c.data[part]) = kept /\ DOMAIN c.data[part] = 1..kept
<4> DEFINE t == env.data[part]  h == c.data[part]
<4>1. Len(t) \in Nat /\ DOMAIN t = 1..Len(t) /\ kept \in Nat /\ kept <= Len(t) /\ h = SubSeq(t, 1, kept)
<5> HIDE DEF m, env, part
<5>1. kept \in Nat /\ kept <= m
  BY <3>2, <3>3
<5> HIDE DEF kept
<5> QED
  BY <3>2, <3>4, <5>1 DEF m
<4> HIDE DEF t, h, kept
<4>2. Len(h) = kept /\ DOMAIN h = 1..kept
  BY <4>1, HeadLength
<4> QED
  BY <4>2 DEF h
<3>6. ReadsSpawns(r) \/ (kept <= s /\ kept \in 1..(s - 1))
<4> HIDE DEF m
<4> QED
  BY <3>2, <3>3
<3>7. kept \in Nat
  BY <3>3
<3> HIDE DEF kept, m, env, part
<3>8. Smaller(c, r, s)
<4>1. <<"trimmed", kept, m>>[2] = kept
  OBVIOUS
<4> QED
  BY <3>4, <3>6, <4>1 DEF Intact, Smaller, env
<3>9. \A key \in PageKeys \cap DOMAIN c.data : key \in DOMAIN data /\ c.data[key] = data[key]
  BY <3>0, <3>4 DEF Intact, env
<3>10. \A x \in CutLists \cap DOMAIN c.data :
         /\ Len(c.data[x]) \in Nat /\ DOMAIN c.data[x] = 1..Len(c.data[x])
         /\ ReadsSpawns(r) \/ Len(c.data[x]) <= s
<4>1. SUFFICES ASSUME NEW x \in CutLists \cap DOMAIN c.data
               PROVE  /\ Len(c.data[x]) \in Nat /\ DOMAIN c.data[x] = 1..Len(c.data[x])
                      /\ ReadsSpawns(r) \/ Len(c.data[x]) <= s
  OBVIOUS
<4>2. CASE x = part
  BY <3>5, <3>6, <3>7, <4>2
<4>3. CASE x # part
  BY <3>4, <4>3 DEF Intact, env
<4> QED
  BY <4>2, <4>3
<3>11. Intact(c, data, r, s)
  BY <3>4, <3>8, <3>9, <3>10 DEF Intact
<3> QED
  BY <1>2, <3>11 DEF c, now, env, part, n
<2> QED
  BY <2>3, <2>4, <2>5
<1> QED
  BY <1>3, <1>4, <1>5

(* A cleaned list is as long as it was. *)
LEMMA CleanedLength ==
  ASSUME NEW data, NEW k \in DOMAIN data, Len(data[k]) \in Nat, DOMAIN data[k] = 1..Len(data[k])
  PROVE  LET t == CleanPayload(data)[k] IN DOMAIN t = 1..Len(data[k]) /\ Len(t) = Len(data[k])
<1> DEFINE t == CleanPayload(data)[k]
           rows == data[k]
           n == Len(rows)
           x(i) == CleanRow(rows[i])
<1>1. t = [i \in DOMAIN rows |-> CleanRow(rows[i])]
  BY CleanedKeys
<1>2. n \in Nat /\ DOMAIN rows = 1..n
  OBVIOUS
<1> HIDE DEF t, rows, n
<1>3. t = [i \in 1..n |-> x(i)]
  BY <1>1, <1>2, Zenon
<1> HIDE DEF x
<1>4. t = [i \in 1..n |-> t[i]]
  BY <1>3, Zenon
<1>5. Len(t) = n
  BY <1>2, <1>4, Spelt, Zenon
<1>6. DOMAIN t = 1..n
  BY <1>4, Zenon
<1> QED
  BY <1>5, <1>6 DEF t, n, rows

(* What a plan may start from: no word of a trim yet, and lists no longer than a page. *)
NoTrim(lims) == \A l \in lims : l[1] # "trimmed"
Cuttable(data, r, s) ==
  \A part \in CutLists \cap DOMAIN data :
    /\ Len(data[part]) \in Nat /\ DOMAIN data[part] = 1..Len(data[part])
    /\ ReadsSpawns(r) \/ Len(data[part]) <= s

(* A client can go by an answer built with a plan of two steps whose pages are of a list. *)
LEMMA PlannedUsable ==
  ASSUME NEW st, NEW data, NEW prov, NEW lims, NEW a, NEW b, NEW e, e = BuildShedding(st, data, prov, lims, <<a, b>>),
         {a.part, b.part} \subseteq {"map_image", "image_refs"} \cup CutLists,
         NEW w, NEW r, r.tool \notin OfAccount, NEW p, NEW s \in Nat \ {0}, NEW m \in Nat, NEW n \in Nat, m <= n,
         p * s \in Nat, NoTrim(lims), Cuttable(data, r, s),
         KeyIn(e, r) \in DOMAIN data => data[KeyIn(e, r)] = <<SectionPage(p, s, m)>>
  PROVE  Usable(e, w, r, p, s, n)
<1> SUFFICES ASSUME <<"withheld">> \notin e.lims PROVE Usable(e, w, r, p, s, n)
  BY DEF Usable
<1> DEFINE raw == Raw(st, data, prov, lims)
           one == Spend(Uncut(raw), a)
           two == Spend(one, b)
           clean == CleanPayload(data)
           key == KeyIn(e, r)
<1>1. /\ DOMAIN clean = DOMAIN data
      /\ \A k \in DOMAIN data : clean[k] = [i \in DOMAIN data[k] |-> CleanRow(data[k][i])]
  BY CleanedKeys
<1>2. AnAnswer(raw) /\ raw.data = clean /\ raw.lims = Caveats(data, lims)
  BY DEF Raw, AnAnswer
<1>3. \A part \in CutLists \cap DOMAIN clean :
        /\ DOMAIN clean[part] = 1..Len(data[part]) /\ Len(clean[part]) = Len(data[part])
  BY <1>1, CleanedLength DEF Cuttable
<1> HIDE DEF raw, clean
<1>4. Intact(raw, clean, r, s)
<2>1. Smaller(raw, r, s)
  BY <1>2 DEF Smaller, Caveats, NoTrim
<2> QED
  BY <1>1, <1>2, <1>3, <2>1 DEF Intact, Cuttable
<1>5. Depths(a.part, raw) \in Nat /\ Intact(one.env, clean, r, s)
<2>1. Uncut(raw).env = raw
  BY DEF Uncut
<2> DEFINE base == Uncut(raw)
<2> HIDE DEF base
<2>2. Depths(a.part, base.env) \in Nat /\ Intact(Spend(base, a).env, clean, r, s)
<3>1. Intact(base.env, clean, r, s)
  BY <1>4, <2>1 DEF base
<3> QED
  BY <3>1, StepKeeps
<2> QED
  BY <2>1, <2>2 DEF base
<1> HIDE DEF one
<1>6. Depths(b.part, one.env) \in Nat /\ Intact(two.env, clean, r, s)
  BY <1>5, StepKeeps
<1>7. AnAnswer(two.env)
  BY <1>6 DEF Intact
<1> HIDE DEF two
<1>8. /\ WireSize(e) <= Cap
      /\ \/ e.data = clean /\ e.lims = raw.lims
         \/ e.data = two.env.data /\ e.lims = two.env.lims
<2>1. \/ e = raw /\ WireSize(e) <= Cap
      \/ e.lims = raw.lims \cup {<<"withheld">>}
      \/ /\ WireSize(e) <= Cap
         /\ e.data = two.env.data /\ e.lims = two.env.lims
<3>1. raw = Raw(st, data, prov, lims) /\ one = Spend(Uncut(raw), a) /\ two = Spend(one, b)
  BY DEF raw, one, two
<3>2. \/ e = raw /\ WireSize(e) <= Cap
      \/ /\ e.data = Nothing /\ e.status = "partial" /\ e.prov = raw.prov /\ e.lims = raw.lims \cup {<<"withheld">>}
         /\ ~(WireSize(raw) <= Cap)
      \/ /\ two.fitted /\ WireSize(e) <= Cap /\ ~(WireSize(raw) <= Cap)
         /\ e.data = two.env.data /\ e.prov = two.env.prov /\ e.lims = two.env.lims
         /\ e.status = IF two.section THEN "partial" ELSE two.env.status
  BY <1>5, <1>6, <1>7, <3>1, Shed
<3> QED
  BY <3>2, Zenon
<2>2. <<"withheld">> \in raw.lims \cup {<<"withheld">>}
  OBVIOUS
<2>3. e.lims # raw.lims \cup {<<"withheld">>}
  BY <2>2, Zenon
<2> QED
  BY <1>2, <2>1, <2>3, Zenon
<1>9. Smaller(e, r, s) /\ \A k \in PageKeys \cap DOMAIN e.data : k \in DOMAIN clean /\ e.data[k] = clean[k]
  BY <1>4, <1>6, <1>8, <1>2 DEF Intact, Smaller
<1>10. MoreIn(e, r) => p * s < n
<2>1. key \in PageKeys
  BY DEF KeyIn, PageKeys
<2> HIDE DEF key
<2>2. SUFFICES ASSUME key \in DOMAIN e.data, e.data[key][1].has_more PROVE p * s < n
  BY DEF MoreIn, key
<2>3. key \in DOMAIN data /\ data[key] = <<SectionPage(p, s, m)>> /\ e.data[key] = clean[key]
  BY <1>1, <1>9, <2>1, <2>2 DEF key
<2> DEFINE row == SectionPage(p, s, m)
<2>4. e.data[key][1] = CleanRow(row)
<3>1. e.data[key] = [i \in DOMAIN data[key] |-> CleanRow(data[key][i])]
  BY <1>1, <2>3
<3>2. data[key] = <<row>>
  BY <2>3
<3> HIDE DEF row
<3>3. 1 \in DOMAIN data[key] /\ data[key][1] = row
  BY <3>2
<3> QED
  BY <3>1, <3>3
<2>5. p * s < m
<3>1. CleanRow(row).has_more = (p * s < m)
  BY MorePages
<3> HIDE DEF row
<3> QED
  BY <2>2, <2>4, <3>1, Zenon
<2> QED
  BY <2>5
<1> QED
  BY <1>8, <1>9, <1>10 DEF Usable, Stampable

(* A page of a counted list is no longer than it was asked to be. *)
LEMMA PageFits ==
  ASSUME NEW n \in Nat, NEW L, L = [i \in 1..n |-> L[i]], NEW p \in Nat \ {0}, NEW s \in Nat \ {0},
         NEW P, P = PageOf(L, p, s)
  PROVE  DOMAIN P = 1..Len(P) /\ Len(P) \in Nat /\ Len(P) <= s
<1>1. Len(L) = n /\ Sequence(L)
  BY Spelt, Zenon
<1>2. PICK T : L \in Seq(T)
  BY <1>1 DEF Sequence
<1>3. /\ DOMAIN P = 1..Len(P) /\ Len(P) \in Nat
      /\ Len(P) = Max({0, Min({s, n - (p - 1) * s})})
  BY <1>1, <1>2, PageLength
<1> DEFINE left == n - (p - 1) * s
           x == Min({s, left})
<1>4. left \in Int
  OBVIOUS
<1> HIDE DEF left
<1>5. x = IF s <= left THEN s ELSE left
  BY <1>4, MinOfTwo
<1>6. x \in Int /\ x <= s
  BY <1>4, <1>5
<1> HIDE DEF x
<1>7. Max({0, x}) = IF 0 >= x THEN 0 ELSE x
  BY <1>6, MaxOfTwo
<1>8. Len(P) = Max({0, x})
  BY <1>3 DEF x, left
<1> QED
  BY <1>3, <1>6, <1>7, <1>8

(* And so are the rows made from it. *)
LEMMA RowsCounted ==
  ASSUME NEW P, DOMAIN P = 1..Len(P), Len(P) \in Nat, NEW rows, rows = [i \in DOMAIN P |-> rows[i]]
  PROVE  DOMAIN rows = 1..Len(P) /\ Len(rows) = Len(P)
<1> DEFINE n == Len(P)
<1>1. n \in Nat /\ DOMAIN P = 1..n
  OBVIOUS
<1> HIDE DEF n
<1>2. rows = [i \in 1..n |-> rows[i]]
  BY <1>1, Zenon
<1>3. Len(rows) = n
  BY <1>1, <1>2, Spelt, Zenon
<1>4. DOMAIN rows = 1..n
  BY <1>2, Zenon
<1> QED
  BY <1>3, <1>4 DEF n

(* Of the banners. *)
LEMMA BannersUsable ==
  ASSUME NEW w0, AWorld(w0), NEW k, NEW r, ARequest(r), r.tool = "get_banners"
  PROVE  \E n \in Nat : \A p, s \in Nat \ {0} :
           Usable(GetBanners(WorldOf(w0, k), Cursor(r, p, s)), WorldOf(w0, k), r, p, s, n)
<1> DEFINE w == WorldOf(w0, k)
           S == {b \in w.banners : /\ b.server = r.server
                                   /\ InWindow(b.open, r.since, r.until)
                                   /\ r.query # None => b.name # None /\ b.name \in r.query}
           n == Cardinality(S)
<1>1. n \in Nat
<2>1. IsFiniteSet(w.banners)
  BY WorldParts DEF AWorld
<2> HIDE DEF w
<2>2. IsFiniteSet(S)
  BY <2>1, FS_Subset
<2> QED
  BY <2>2, FS_CardinalityType
<1>2. ASSUME NEW p \in Nat \ {0}, NEW s \in Nat \ {0}
      PROVE  Usable(GetBanners(w, Cursor(r, p, s)), w, r, p, s, n)
<2> DEFINE c == Cursor(r, p, s)
           e == GetBanners(w, c)
           res == BannersResult(w, c)
<2>1. c.page = p /\ c.size = s /\ c.server = r.server /\ c.since = r.since /\ c.until = r.until /\ c.query = r.query
  BY CursorParts DEF ARequest
<2> HIDE DEF c, w
<2>2. CASE Inverted(c.since, c.until)
<3>1. e = Error("invalid_input")
  BY <2>2 DEF GetBanners
<3> HIDE DEF e
<3>2. Usable(e, w, r, p, s, n)
  BY <3>1, ErrorUsable
<3> QED
  BY <3>2 DEF e, c
<2>3. CASE ~Inverted(c.since, c.until)
<3> DEFINE all == BannersOf(w, c)
           pg == PageOf(all, c.page, c.size)
           lim == BannerLimitations(pg)
<3>1. /\ res.banners = pg /\ res.page = SectionPage(c.page, c.size, Len(all)) /\ res.lims = lim
<4> DEFINE prov == {b.snap : b \in ToSet(all)}
           block == SectionPage(c.page, c.size, Len(all))
<4>1. res = [banners |-> pg, page |-> block, prov |-> prov, lims |-> lim]
  BY Zenon DEF BannersResult
<4> HIDE DEF res, pg, block, prov, lim
<4>2. res.banners = pg /\ res.page = block /\ res.lims = lim
  BY <4>1
<4> QED
  BY <4>2 DEF block
<3>2. all = [i \in 1..n |-> all[i]]
<4> DEFINE T == {b \in w.banners : /\ b.server = c.server
                                   /\ InWindow(b.open, c.since, c.until)
                                   /\ c.query # None => b.name # None /\ b.name \in c.query}
<4>1. T = S
  BY <2>1
<4>2. all = NewestFirst(T, "open")
  BY Zenon DEF BannersOf
<4> HIDE DEF T, S, all
<4> DEFINE later(x, y) == /\ x # None
                          /\ y # None => x.day > y.day \/ (x.day = y.day /\ x.tick > y.tick)
           pick(i) == CHOOSE x \in T : Cardinality({y \in T : later(y["open"], x["open"])
                                                              \/ (y["open"] = x["open"] /\ y.id < x.id)}) = i - 1
<4>3. all = [i \in 1..Cardinality(T) |-> pick(i)]
  BY <4>2, Zenon DEF NewestFirst, OrderBy
<4> HIDE DEF pick
<4>4. all = [i \in 1..n |-> pick(i)]
  BY <4>1, <4>3, Zenon
<4> HIDE DEF n
<4> QED
  BY <4>4, Zenon
<3> HIDE DEF all, S, n, lim
<3>3. Len(all) = n
  BY <1>1, <3>2, Spelt, Zenon
<3>4. DOMAIN pg = 1..Len(pg) /\ Len(pg) \in Nat /\ Len(pg) <= s
  BY <1>1, <2>1, <3>2, PageFits
<3> HIDE DEF pg, res
<3> DEFINE refs == w.refs /\ \E b \in ToSet(res.banners) : \E op \in b.ops : op.resolved
           shown == [server  |-> <<[server |-> c.server]>>,
                     banners |-> [i \in DOMAIN res.banners |-> BannerRow(res.banners[i], w.refs)],
                     page    |-> <<res.page>>]
           legend == IF res.banners = <<>> THEN Nothing ELSE [enum_legend |-> <<[rule_type |-> TRUE]>>]
           base == shown ++ legend
           data == IF refs THEN WithImageRefs(base) ELSE base
           lims == res.lims \cup If(refs, {<<"image_refs">>}) \cup If(res.banners # <<>>, {<<"enum_note">>})
           a == [part |-> "image_refs", paginated |-> TRUE]
           b == [part |-> "banners", paginated |-> TRUE]
<3>5. e = BuildShedding("ok", data, res.prov, lims, <<a, b>>)
<4>1. e = ShapeBanners(w, c, res)
  BY <2>3, Zenon DEF GetBanners, res
<4>2. ShapeBanners(w, c, res) = BuildShedding("ok", data, res.prov, lims, BannerPlan)
  BY Zenon DEF ShapeBanners
<4> HIDE DEF e, data, lims
<4> QED
  BY <4>1, <4>2, Zenon DEF BannerPlan
<3>6. \A l \in lims : l[1] # "trimmed"
<4> DEFINE x == If(refs, {<<"image_refs">>})  y == If(res.banners # <<>>, {<<"enum_note">>})
<4>1. (x = {<<"image_refs">>} \/ x = {}) /\ (y = {<<"enum_note">>} \/ y = {})
  BY Zenon DEF If
<4> HIDE DEF x, y
<4>2. \A l \in lim : l[1] # "trimmed"
<5> DEFINE bare == {g \in ToSet(pg) : g.ops = {}}
           absent == {g.rule : g \in {h \in bare : ~Standard(h)}}
           t == If(\E g \in bare : Standard(g), {<<"standard_banner">>})
           u == If(absent # {}, {<<"absent_array", absent>>})
           v == If(\E g \in ToSet(pg) : \E op \in g.ops : ~op.resolved, {<<"unresolved">>})
<5>1. lim = t \cup u \cup v
  BY Zenon DEF BannerLimitations, lim
<5>2. (t = {<<"standard_banner">>} \/ t = {}) /\ (u = {<<"absent_array", absent>>} \/ u = {}) /\ (v = {<<"unresolved">>} \/ v = {})
  BY Zenon DEF If
<5> HIDE DEF t, u, v, absent
<5>3. \A l \in t \cup u \cup v : l[1] # "trimmed"
  BY <5>2
<5> QED
  BY <5>1, <5>3
<4>3. lims = lim \cup x \cup y
  BY <3>1, Zenon DEF x, y
<4> HIDE DEF lims
<4> QED
  BY <4>1, <4>2, <4>3
<3> DEFINE block == SectionPage(p, s, n)
<3>7. res.page = block
  BY <2>1, <3>1, <3>3
<3>8. /\ DOMAIN shown = {"server", "banners", "page"}
      /\ shown["page"] = <<block>>
      /\ DOMAIN shown["banners"] = 1..Len(pg) /\ Len(shown["banners"]) = Len(pg)
<4> DEFINE rows == [i \in DOMAIN res.banners |-> BannerRow(res.banners[i], w.refs)]
           it(i) == BannerRow(res.banners[i], w.refs)
           one == [server |-> c.server]
           blk == res.page
<4> HIDE DEF block, blk, one
<4>1. DOMAIN shown = {"server", "banners", "page"} /\ shown["page"] = <<blk>> /\ shown["banners"] = rows
<5> HIDE DEF rows
<5>1. shown = [server |-> <<one>>, banners |-> rows, page |-> <<blk>>]
  BY Zenon DEF rows, one, blk
<5> HIDE DEF shown
<5> QED
  BY <5>1
<4>2. rows = [i \in DOMAIN pg |-> it(i)]
  BY <3>1, Zenon
<4> HIDE DEF it, rows
<4>3. rows = [i \in DOMAIN pg |-> rows[i]]
  BY <4>2, Zenon
<4>4. DOMAIN rows = 1..Len(pg) /\ Len(rows) = Len(pg)
  BY <3>4, <4>3, RowsCounted, Zenon
<4> HIDE DEF shown
<4> QED
  BY <3>7, <4>1, <4>4 DEF blk
<3>9. DOMAIN legend \subseteq {"enum_legend"}
  BY NoKeys
<3> HIDE DEF shown, legend, block
<3>10. /\ \A key : key \in DOMAIN base <=> key \in DOMAIN shown \/ key \in DOMAIN legend
       /\ base["page"] = shown["page"] /\ base["banners"] = shown["banners"]
  BY <3>8, OverKey
<3> HIDE DEF base
<3> DEFINE refd == [key \in ImageRefKeys |-> <<[value |-> key]>>]
<3>11. DOMAIN refd = ImageRefKeys /\ WithImageRefs(base) = refd ++ base
  BY Zenon DEF WithImageRefs
<3> HIDE DEF refd
<3>12. /\ \A key : key \in DOMAIN (refd ++ base) <=> key \in ImageRefKeys \/ key \in DOMAIN base
       /\ (refd ++ base)["page"] = base["page"] /\ (refd ++ base)["banners"] = base["banners"]
  BY <3>8, <3>10, <3>11, OverKey DEF ImageRefKeys
<3>13. data["page"] = <<block>> /\ data["banners"] = shown["banners"] /\ "routes" \notin DOMAIN data
<4>1. CASE refs
<5>1. data = refd ++ base
  BY <3>11, <4>1
<5> HIDE DEF data
<5> QED
  BY <3>8, <3>9, <3>10, <3>12, <5>1 DEF ImageRefKeys
<4>2. CASE ~refs
<5>1. data = base
  BY <4>2
<5> HIDE DEF data
<5> QED
  BY <3>8, <3>9, <3>10, <5>1
<4> QED
  BY <4>1, <4>2
<3> HIDE DEF data, lims, e
<3>14. Cuttable(data, r, s) /\ NoTrim(lims)
  BY <3>4, <3>6, <3>8, <3>13 DEF CutLists, Cuttable, NoTrim
<3>15. KeyIn(e, r) = "page"
  BY DEF KeyIn
<3>16. {a.part, b.part} \subseteq {"map_image", "image_refs"} \cup CutLists
  BY DEF CutLists
<3>17. r.tool \notin OfAccount /\ p * s \in Nat /\ n <= n
  BY <1>1 DEF OfAccount
<3> HIDE DEF a, b
<3>18. KeyIn(e, r) \in DOMAIN data => data[KeyIn(e, r)] = <<SectionPage(p, s, n)>>
  BY <3>13, <3>15 DEF block
<3>19. Usable(e, w, r, p, s, n)
<4> DEFINE prov == res.prov  st == "ok"
<4>1. e = BuildShedding(st, data, prov, lims, <<a, b>>)
  BY <3>5
<4> HIDE DEF prov, st
<4> QED
  BY <1>1, <3>14, <3>16, <3>17, <3>18, <4>1, PlannedUsable
<3> QED
  BY <3>19 DEF e, c
<2> QED
  BY <2>2, <2>3 DEF c
<1> HIDE DEF n
<1>3. \A p, s \in Nat \ {0} : Usable(GetBanners(w, Cursor(r, p, s)), w, r, p, s, n)
  BY <1>2
<1> HIDE DEF w
<1> WITNESS n \in Nat
<1> QED
  BY <1>3, Zenon DEF w

(* What is left of a list when repeats go has a length. *)
LEMMA DistinctCounted ==
  ASSUME NEW s, IsFiniteSet(DOMAIN s), NEW d, d = Distinct(s)
  PROVE  \E k \in Nat : d = [i \in 1..k |-> d[i]]
<1> DEFINE F == {i \in DOMAIN s : \A j \in 1..(i - 1) : s[j] # s[i]}
           k == Cardinality(F)
           pick(n) == CHOOSE x \in F : Cardinality({y \in F : y < x}) = n - 1
           firsts == [i \in 1..k |-> pick(i)]
           item(n) == s[firsts[n]]
<1>1. k \in Nat
<2>1. IsFiniteSet(F)
  BY FS_Subset
<2> QED
  BY <2>1, FS_CardinalityType
<1>2. d = [n \in DOMAIN firsts |-> item(n)]
  BY Zenon DEF Distinct, OrderBy
<1> HIDE DEF F, k, pick
<1>3. DOMAIN firsts = 1..k
  OBVIOUS
<1> HIDE DEF firsts, item
<1>4. d = [n \in 1..k |-> item(n)]
  BY <1>2, <1>3, Zenon
<1>5. d = [n \in 1..k |-> d[n]]
  BY <1>4, Zenon
<1> QED
  BY <1>1, <1>5

(* The head of a list, up to a limit, has finitely many places. *)
LEMMA LimitFinite ==
  ASSUME NEW n \in Nat, NEW L, L = [i \in 1..n |-> L[i]], NEW m \in Nat
  PROVE  IsFiniteSet(DOMAIN Limit(L, m))
<1>1. Len(L) = n /\ DOMAIN L = 1..n
  BY Spelt, Zenon
<1> DEFINE q == Min({m, Len(L)})
<1>2. q = IF m <= n THEN m ELSE n
  BY <1>1, MinOfTwo
<1>3. q \in Nat /\ q <= Len(L)
  BY <1>1, <1>2
<1> HIDE DEF q
<1>4. DOMAIN SubSeq(L, 1, q) = 1..q
  BY <1>1, <1>3, HeadLength
<1>5. Limit(L, m) = SubSeq(L, 1, q)
  BY DEF Limit, q
<1>6. IsFiniteSet(1..q)
  BY <1>3, FS_Interval
<1> QED
  BY <1>4, <1>5, <1>6

(* The paths of a stage can be counted. *)
LEMMA RoutesCounted ==
  ASSUME NEW st, IsFiniteSet(st.routes), NEW d, d = DistinctRoutes(AllRoutes(st))
  PROVE  \E k \in Nat : d = [i \in 1..k |-> d[i]]
<1> DEFINE S == st.routes
           n == Cardinality(S)
           pick(i) == CHOOSE x \in S : Cardinality({y \in S : y.index < x.index}) = i - 1
           L == [i \in 1..n |-> pick(i)]
           all == AllRoutes(st)
           geo(i) == Geometry(all[i])
           forms == [i \in DOMAIN all |-> geo(i)]
           keys == Distinct(forms)
           row(g) == RouteRow(SelectSeq(all, LAMBDA r : Geometry(r) = keys[g]))
<1>1. n \in Nat
  BY FS_CardinalityType
<1>2. all = Limit(L, MaxRoutes)
  BY Zenon DEF AllRoutes, OrderBy
<1>3. d = [g \in DOMAIN keys |-> row(g)]
  BY Zenon DEF DistinctRoutes
<1> HIDE DEF S, n, pick
<1>4. L = [i \in 1..n |-> L[i]]
  BY Zenon
<1> HIDE DEF L, all, geo
<1>5. MaxRoutes \in Nat
  BY StageViewAssumption
<1>6. IsFiniteSet(DOMAIN all)
  BY <1>1, <1>2, <1>4, <1>5, LimitFinite
<1>7. DOMAIN forms = DOMAIN all
  OBVIOUS
<1> HIDE DEF forms
<1>8. \E k \in Nat : keys = [i \in 1..k |-> keys[i]]
  BY <1>6, <1>7, DistinctCounted
<1> HIDE DEF keys, row
<1>9. PICK k \in Nat : keys = [i \in 1..k |-> keys[i]]
  BY <1>8
<1>10. DOMAIN keys = 1..k
  BY <1>9, Zenon
<1>11. d = [g \in 1..k |-> row(g)]
  BY <1>3, <1>10, Zenon
<1>12. d = [g \in 1..k |-> d[g]]
  BY <1>11, Zenon
<1> QED
  BY <1>12

(* And its spawns. *)
LEMMA SpawnsCounted ==
  ASSUME NEW st, IsFiniteSet(st.spawns), NEW d, d = Spawns(st)
  PROVE  \E k \in Nat : d = [i \in 1..k |-> d[i]]
<1> DEFINE S == st.spawns
           n == Cardinality(S)
           before(a, b) == \/ a.wave < b.wave
                           \/ a.wave = b.wave /\ a.time < b.time
                           \/ a.wave = b.wave /\ a.time = b.time /\ a.enemy < b.enemy
                           \/ a.wave = b.wave /\ a.time = b.time /\ a.enemy = b.enemy /\ a.pk < b.pk
           pick(i) == CHOOSE x \in S : Cardinality({y \in S : before(y, x)}) = i - 1
<1>1. n \in Nat
  BY FS_CardinalityType
<1>2. d = [i \in 1..n |-> pick(i)]
  BY Zenon DEF Spawns, OrderBy
<1> HIDE DEF n, pick
<1>3. d = [i \in 1..n |-> d[i]]
  BY <1>2, Zenon
<1> QED
  BY <1>1, <1>3

(* A stage in the order of the keys. *)
LEMMA FirstByKey ==
  ASSUME NEW T, IsFiniteSet(T), \A a, b \in T : a.pk = b.pk => a = b, \A a \in T : a.pk \in Int,
         NEW L, L = ByKey(T)
  PROVE  /\ Cardinality(T) \in Nat /\ L = [i \in 1..Cardinality(T) |-> L[i]]
         /\ Cardinality(T) # 0 => L[1] \in T
<1> DEFINE R == {z \in T \X T : z[1].pk < z[2].pk}
           n == Cardinality(T)
           rank(x) == Cardinality({y \in T : y.pk < x.pk})
           pick(i) == CHOOSE x \in T : rank(x) = i - 1
<1>1. n \in Nat
  BY FS_CardinalityType
<1>2. L = [i \in 1..n |-> pick(i)]
  BY Zenon DEF ByKey, OrderBy
<1>3. Orders(R, T)
  BY DEF Orders
<1>4. \A x \in T : Under(R, T, x) = {y \in T : y.pk < x.pk}
  BY DEF Under
<1> HIDE DEF R
<1>5. \A i \in 1..n : \E x \in T : Cardinality(Under(R, T, x)) = i - 1
  BY <1>3, Ranked
<1>6. \A i \in 1..n : \E x \in T : rank(x) = i - 1
  BY <1>4, <1>5, Zenon
<1> HIDE DEF rank, n
<1>7. \A i \in 1..n : pick(i) \in T
  BY <1>6, Zenon
<1> HIDE DEF pick
<1>8. L = [i \in 1..n |-> L[i]]
  BY <1>2, Zenon
<1>9. n # 0 => L[1] \in T
<2> SUFFICES ASSUME n # 0 PROVE L[1] \in T
  OBVIOUS
<2>1. 1 \in 1..n
  BY <1>1
<2> QED
  BY <1>2, <1>7, <2>1, Zenon
<1> QED
  BY <1>1, <1>8, <1>9 DEF n

(* The stage that a read picks is one of the stages. *)
LEMMA PickedStage ==
  ASSUME NEW rows, Stages(rows), NEW c, NEW st, st = Resolve(rows, c).stage, st # None
  PROVE  st \in rows
<1> DEFINE T == IF c.by = "game_id" THEN {s \in rows : s.server = c.server /\ s.id = c.value}
                ELSE {s \in rows : s.server = c.server /\ s.code = c.value}
           L == ByKey(T)
           matches == IF c.by = "game_id"
                      THEN ByKey({s \in rows : s.server = c.server /\ s.id = c.value})
                      ELSE StagesByCode(rows, c.server, c.value)
<1>1. st = IF matches = <<>> THEN None ELSE matches[1]
<2> DEFINE alternates == [i \in 1..(Len(matches) - 1) |-> matches[i + 1].id]
           cut == c.by = "code" /\ Len(matches) > 1 /\ Len(matches) = MaxMatches
           one == IF matches = <<>> THEN None ELSE matches[1]
<2>1. Resolve(rows, c) = [stage |-> one, alternates |-> alternates, truncated |-> cut]
  BY Zenon DEF Resolve
<2> HIDE DEF alternates, cut, one
<2>2. st = one
  BY <2>1
<2> QED
  BY <2>2 DEF one
<1>2. matches = L \/ matches = Limit(L, MaxMatches)
  BY Zenon DEF StagesByCode
<1>3. T \subseteq rows
  OBVIOUS
<1> HIDE DEF T, matches
<1>4. IsFiniteSet(T) /\ (\A a, b \in T : a.pk = b.pk => a = b) /\ \A a \in T : a.pk \in Int
  BY <1>3, FS_Subset DEF Stages
<1>5. /\ Cardinality(T) \in Nat /\ L = [i \in 1..Cardinality(T) |-> L[i]]
      /\ Cardinality(T) # 0 => L[1] \in T
  BY <1>4, FirstByKey
<1>6. matches # <<>> /\ st = matches[1]
  BY <1>1
<1> DEFINE n == Cardinality(T)
<1> HIDE DEF L
<1>7. Len(L) = n /\ DOMAIN L = 1..n /\ n \in Nat /\ Sequence(L)
  BY <1>5, Spelt, Zenon
<1> HIDE DEF n
<1>8. CASE matches = L
<2>1. n # 0
<3>1. n = 0 => L = <<>>
  BY <1>7 DEF Sequence
<3> QED
  BY <1>6, <1>8, <3>1
<2> QED
  BY <1>3, <1>5, <1>6, <1>8, <2>1 DEF n
<1>9. CASE matches = Limit(L, MaxMatches)
<2> DEFINE q == Min({MaxMatches, Len(L)})
<2>1. MaxMatches \in Nat \ {0}
  BY StageViewAssumption
<2>2. q = IF MaxMatches <= n THEN MaxMatches ELSE n
  BY <1>7, <2>1, MinOfTwo
<2>3. matches = SubSeq(L, 1, q)
  BY <1>9 DEF Limit
<2> HIDE DEF q
<2>4. PICK X : L \in Seq(X)
  BY <1>7 DEF Sequence
<2>5. q # 0
<3> SUFFICES ASSUME q = 0 PROVE FALSE
  OBVIOUS
<3>1. matches = <<>>
  BY <2>3, SubSeqEmpty
<3> QED
  BY <1>6, <3>1
<2>6. n # 0 /\ q \in 1..n
  BY <1>7, <2>1, <2>2, <2>5
<2>7. \A i \in 1..q : L[i] \in X
  BY <1>7, <2>4, <2>6
<2>8. \A i \in 1..(q - 1 + 1) : matches[i] = L[1 + i - 1]
  BY <2>3, <2>6, <2>7, SubSeqProperties
<2>9. matches[1] = L[1]
<3>1. 1 \in 1..(q - 1 + 1) /\ 1 + 1 - 1 = 1
  BY <1>7, <2>6
<3> QED
  BY <2>8, <3>1
<2> QED
  BY <1>3, <1>5, <1>6, <2>6, <2>9 DEF n
<1> QED
  BY <1>2, <1>8, <1>9

-------------------------------------------------------------------------------
(* Answers about a stage. *)
(* Fields of five, the first's where they share one. *)
LEMMA FiveJoined ==
  ASSUME NEW a, NEW b, NEW c, NEW d, NEW e, NEW j, j = a ++ b ++ c ++ d ++ e
  PROVE  \A k : /\ k \in DOMAIN j <=> \/ k \in DOMAIN a \/ k \in DOMAIN b \/ k \in DOMAIN c
                                      \/ k \in DOMAIN d \/ k \in DOMAIN e
                /\ k \in DOMAIN c /\ k \notin DOMAIN a /\ k \notin DOMAIN b => j[k] = c[k]
                /\ /\ k \in DOMAIN d /\ k \notin DOMAIN a /\ k \notin DOMAIN b /\ k \notin DOMAIN c
                   => j[k] = d[k]
<1> TAKE k
<1> DEFINE x == a ++ b
           y == x ++ c
           z == y ++ d
<1>1. j = z ++ e
  OBVIOUS
<1>2. (k \in DOMAIN x <=> k \in DOMAIN a \/ k \in DOMAIN b)
  BY OverKey
<1> HIDE DEF x
<1>3. /\ k \in DOMAIN y <=> k \in DOMAIN x \/ k \in DOMAIN c
      /\ k \in DOMAIN c /\ k \notin DOMAIN x => y[k] = c[k]
  BY OverKey
<1> HIDE DEF y
<1>4. /\ k \in DOMAIN z <=> k \in DOMAIN y \/ k \in DOMAIN d
      /\ k \in DOMAIN y => z[k] = y[k]
      /\ k \in DOMAIN d /\ k \notin DOMAIN y => z[k] = d[k]
  BY OverKey
<1> HIDE DEF z
<1>5. /\ k \in DOMAIN j <=> k \in DOMAIN z \/ k \in DOMAIN e
      /\ k \in DOMAIN z => j[k] = z[k]
  BY <1>1, OverKey
<1> QED
  BY <1>2, <1>3, <1>4, <1>5

(* The keys and the words of each section of a stage. *)
LEMMA SectionParts ==
  ASSUME NEW c, NEW st
  PROVE  /\ \A k \in DOMAIN MapSection(c, st).data : k \in {"map", "tile_grid"}
         /\ \A k \in DOMAIN ImageSection(c, st).data : k \in {"map_image"}
         /\ NoTrim(MapSection(c, st).lims) /\ NoTrim(ImageSection(c, st).lims)
<1>1. /\ \A k \in DOMAIN MapSection(c, st).data : k \in {"map", "tile_grid"}
      /\ NoTrim(MapSection(c, st).lims)
<2> DEFINE tiles == AllTiles(st)
           grid == ResolveTileGrid(tiles, Header(st))
           f == [map |-> <<Header(st)>>]
           g == IF grid = None THEN Nothing ELSE [tile_grid |-> <<grid>>]
           x == GridLimitation(tiles, grid)
           y == If(grid # None, {<<"tile_gloss">>})
           skip == ~c.map \/ (st.map = None /\ tiles = <<>>)
           out == MapSection(c, st)
           data == f ++ g
           lims == x \cup y
<2>1. out = IF skip THEN [data |-> Nothing, lims |-> {}] ELSE [data |-> data, lims |-> lims]
  BY Zenon DEF MapSection
<2>2. DOMAIN f = {"map"} /\ DOMAIN g \subseteq {"tile_grid"}
<3> HIDE DEF grid
<3> QED
  BY NoKeys
<2>3. \A l \in x : l \in {<<"grid_oversize">>, <<"grid_refused">>}
<3> DEFINE u == If(grid = None /\ tiles # <<>>, {<<"grid_refused">>})
<3>1. x = IF Len(tiles) > MaxCells THEN {<<"grid_oversize">>} ELSE u
  BY Zenon DEF GridLimitation
<3>2. u = {<<"grid_refused">>} \/ u = {}
  BY Zenon DEF If
<3> HIDE DEF x, u, tiles, grid
<3> QED
  BY <3>1, <3>2
<2>4. y = {<<"tile_gloss">>} \/ y = {}
  BY Zenon DEF If
<2> HIDE DEF f, g, x, y, out, skip
<2>5. \A k : k \in DOMAIN data <=> k \in DOMAIN f \/ k \in DOMAIN g
  BY OverKey
<2>6. NoTrim(lims)
  BY <2>3, <2>4 DEF NoTrim
<2>7. \A k \in DOMAIN data : k \in {"map", "tile_grid"}
  BY <2>2, <2>5
<2> HIDE DEF data, lims
<2>8. (out.data = Nothing /\ out.lims = {}) \/ (out.data = data /\ out.lims = lims)
  BY <2>1
<2>9. \A k \in DOMAIN out.data : k \in {"map", "tile_grid"}
  BY <2>7, <2>8, NoKeys
<2>10. NoTrim(out.lims)
<3>1. NoTrim({})
  BY DEF NoTrim
<3> QED
  BY <2>6, <2>8, <3>1
<2> QED
  BY <2>9, <2>10 DEF out
<1>2. /\ \A k \in DOMAIN ImageSection(c, st).data : k \in {"map_image"}
      /\ NoTrim(ImageSection(c, st).lims)
<2> DEFINE render == RenderMap(AllTiles(st), Header(st), AllRoutes(st))
           data == IF render.image = None THEN Nothing ELSE [map_image |-> <<render.image>>]
           out == ImageSection(c, st)
           lims == render.lims
<2>1. out = IF ~c.image THEN [data |-> Nothing, lims |-> {}] ELSE [data |-> data, lims |-> lims]
  BY Zenon DEF ImageSection
<2>2. lims \subseteq {<<"image_oversize">>}
<3> DEFINE tiles == AllTiles(st)
           header == Header(st)
           records == AllRoutes(st)
           width  == Extent(header.width, {t.x : t \in ToSet(tiles)})
           height == Extent(header.height, {t.y : t \in ToSet(tiles)})
           bytes == ImageBytes(tiles, records)
           drawn == [svg |-> bytes, tile_count |-> Len(tiles)]
<3>1. render = IF tiles = <<>> THEN [image |-> None, lims |-> {}]
               ELSE IF width * height > MaxCells \/ bytes > MaxImage
                    THEN [image |-> None, lims |-> {<<"image_oversize">>}]
               ELSE [image |-> drawn, lims |-> {}]
  BY Zenon DEF RenderMap
<3> HIDE DEF render, tiles, width, height, bytes, drawn
<3>2. render.lims = {} \/ render.lims = {<<"image_oversize">>}
  BY <3>1
<3> QED
  BY <3>2
<2>3. DOMAIN data \subseteq {"map_image"}
<3> HIDE DEF render
<3> QED
  BY NoKeys
<2>4. NoTrim(lims) /\ NoTrim({})
  BY <2>2 DEF NoTrim
<2> HIDE DEF data, out, lims
<2>5. (out.data = Nothing /\ out.lims = {}) \/ (out.data = data /\ out.lims = lims)
  BY <2>1
<2>6. \A k \in DOMAIN out.data : k \in {"map_image"}
  BY <2>3, <2>5, NoKeys
<2>7. NoTrim(out.lims)
  BY <2>4, <2>5
<2> QED
  BY <2>6, <2>7 DEF out
<1> QED
  BY <1>1, <1>2

(* What the sections f and g of its two lists have. *)
ListsAt(f, g, c, R, L) ==
  /\ \/ DOMAIN f = {}
     \/ /\ DOMAIN f = {"routes", "routes_page"}
        /\ f["routes"] = PageOf(R, c.page, c.size)
        /\ f["routes_page"] = <<SectionPage(c.page, c.size, Len(R))>>
  /\ \/ DOMAIN g = {}
     \/ /\ DOMAIN g = {"spawns", "spawns_page"}
        /\ g["spawns_page"] = <<SectionPage(c.spawns_page, c.spawns_size, Len(L))>>

(* Of the two lists of a stage each has its page and its block, or none. *)
LEMMA ListParts ==
  ASSUME NEW c, NEW st, NEW x, x = RoutesSection(c, st), NEW y, y = SpawnsSection(c, st),
         NEW R, R = DistinctRoutes(AllRoutes(st)), NEW L, L = Spawns(st)
  PROVE  ListsAt(x.data, y.data, c, R, L) /\ NoTrim(x.lims) /\ NoTrim(y.lims)
<1>1. /\ \/ DOMAIN x.data = {}
         \/ /\ DOMAIN x.data = {"routes", "routes_page"}
            /\ x.data["routes"] = PageOf(R, c.page, c.size)
            /\ x.data["routes_page"] = <<SectionPage(c.page, c.size, Len(R))>>
      /\ NoTrim(x.lims)
<2> DEFINE pg == PageOf(R, c.page, c.size)
           block == SectionPage(c.page, c.size, Len(R))
           lims == If(Len(AllRoutes(st)) = MaxRoutes, {<<"routes_truncated">>})
           data == [routes |-> pg, routes_page |-> <<block>>]
<2>1. x = IF ~c.routes THEN [data |-> Nothing, lims |-> {}] ELSE [data |-> data, lims |-> lims]
  BY Zenon DEF RoutesSection
<2>2. lims = {} \/ lims = {<<"routes_truncated">>}
  BY Zenon DEF If
<2>3. NoTrim(lims) /\ NoTrim({})
<3> HIDE DEF lims
<3> QED
  BY <2>2 DEF NoTrim
<2> HIDE DEF pg, block, lims
<2>4. DOMAIN data = {"routes", "routes_page"} /\ data["routes"] = pg /\ data["routes_page"] = <<block>>
  OBVIOUS
<2> HIDE DEF data
<2>5. (x.data = Nothing /\ x.lims = {}) \/ (x.data = data /\ x.lims = lims)
  BY <2>1
<2> QED
  BY <2>3, <2>4, <2>5, NoKeys DEF pg, block
<1>2. /\ \/ DOMAIN y.data = {}
         \/ /\ DOMAIN y.data = {"spawns", "spawns_page"}
            /\ y.data["spawns_page"] = <<SectionPage(c.spawns_page, c.spawns_size, Len(L))>>
      /\ NoTrim(y.lims)
<2> DEFINE rows == PageOf(L, c.spawns_page, c.spawns_size)
           list == [i \in DOMAIN rows |-> SpawnRow(rows[i])]
           block == SectionPage(c.spawns_page, c.spawns_size, Len(L))
           data == [spawns |-> list, spawns_page |-> <<block>>]
           lims == {<<"level_variant_note">>}
<2>1. y = IF ~c.spawns THEN [data |-> Nothing, lims |-> {}] ELSE [data |-> data, lims |-> lims]
  BY Zenon DEF SpawnsSection
<2>2. NoTrim(lims) /\ NoTrim({})
  BY DEF NoTrim
<2> HIDE DEF list, block, lims
<2>3. DOMAIN data = {"spawns", "spawns_page"} /\ data["spawns_page"] = <<block>>
  OBVIOUS
<2> HIDE DEF data
<2>4. (y.data = Nothing /\ y.lims = {}) \/ (y.data = data /\ y.lims = lims)
  BY <2>1
<2> QED
  BY <2>2, <2>3, <2>4, NoKeys DEF block
<1> QED
  BY <1>1, <1>2 DEF ListsAt

(* The sections of a stage in one payload, and what is built from it. *)
StageKeys(data, c, st) ==
  \E u, v, z : /\ DOMAIN u = {"stage", "enum_legend"}
               /\ \A k \in DOMAIN v : k \in {"map", "tile_grid"}
               /\ \A k \in DOMAIN z : k \in {"map_image"}
               /\ data = u ++ v ++ RoutesSection(c, st).data ++ SpawnsSection(c, st).data ++ z
StageForm(e, c, st) ==
  \E data, lims, a, b :
    /\ e = BuildShedding("ok", data, {st.snap}, lims, <<a, b>>)
    /\ {a.part, b.part} \subseteq {"map_image", "image_refs"} \cup CutLists
    /\ StageKeys(data, c, st) /\ NoTrim(lims)

(* An answer about a stage is built with the plan of its two parts, one way or the other. *)
LEMMA StageBuilt ==
  ASSUME NEW c, NEW st, NEW found, NEW e, e = StageResult(c, found, st, Sections(c, st))
  PROVE  StageForm(e, c, st)
<1> DEFINE parts == Sections(c, st)
           u == [stage |-> <<StageBlock(st)>>, enum_legend |-> <<[value |-> "stage"]>>]
           m == MapSection(c, st)  x == RoutesSection(c, st)  y == SpawnsSection(c, st)  z == ImageSection(c, st)
           data == StageData(st, parts)
           A == AmbiguityLimitation(found)
           B == AbsentLimitation(st)
           C == UnknownLimitation(RecordsRead(c, st))
           D == UNION {parts[i].lims : i \in 1..4}
           lims == A \cup B \cup C \cup D
<1>1. parts = <<m, x, y, z>>
  BY Zenon DEF Sections
<1> HIDE DEF m, x, y, z, parts
<1>2. parts[1] = m /\ parts[2] = x /\ parts[3] = y /\ parts[4] = z
  BY <1>1
<1>3. data = u ++ m.data ++ x.data ++ y.data ++ z.data
<2>1. data = u ++ parts[1].data ++ parts[2].data ++ parts[3].data ++ parts[4].data
  BY Zenon DEF StageData
<2> HIDE DEF u, data
<2> QED
  BY <1>2, <2>1, Zenon
<1>4. DOMAIN u = {"stage", "enum_legend"}
  OBVIOUS
<1>5. NoTrim(m.lims) /\ NoTrim(x.lims) /\ NoTrim(y.lims) /\ NoTrim(z.lims)
  BY SectionParts, ListParts DEF m, x, y, z
<1>6. NoTrim(D)
<2>1. D = m.lims \cup x.lims \cup y.lims \cup z.lims
<3> HIDE DEF D
<3>1. \A l : l \in D <=> \E i \in 1..4 : l \in parts[i].lims
  BY DEF D
<3>2. \A i : i \in 1..4 <=> i = 1 \/ i = 2 \/ i = 3 \/ i = 4
  OBVIOUS
<3>3. \A l : l \in D <=> l \in parts[1].lims \/ l \in parts[2].lims \/ l \in parts[3].lims \/ l \in parts[4].lims
<4> DEFINE In(l, i) == l \in parts[i].lims
<4>1. \A l : l \in D <=> \E i \in 1..4 : In(l, i)
  BY <3>1, Zenon
<4> HIDE DEF In
<4>2. \A l : l \in D <=> In(l, 1) \/ In(l, 2) \/ In(l, 3) \/ In(l, 4)
  BY <3>2, <4>1
<4> QED
  BY <4>2, Zenon DEF In
<3> DEFINE p == parts[1].lims  q == parts[2].lims  r == parts[3].lims  t == parts[4].lims
<3>5. p = m.lims /\ q = x.lims /\ r = y.lims /\ t = z.lims
  BY <1>2
<3>6. \A l : l \in D <=> l \in p \/ l \in q \/ l \in r \/ l \in t
  BY <3>3, Zenon
<3> HIDE DEF p, q, r, t
<3>4. \A l : l \in D <=> l \in m.lims \/ l \in x.lims \/ l \in y.lims \/ l \in z.lims
  BY <3>5, <3>6
<3> QED
  BY <3>4
<2> HIDE DEF D
<2> QED
  BY <1>5, <2>1 DEF NoTrim
<1>7. NoTrim(B)
<2> DEFINE X == AbsentFields(st)
<2>1. B = If(X # {}, {<<"absent", X>>})
  BY Zenon DEF AbsentLimitation
<2> HIDE DEF X, B
<2>2. B = {<<"absent", X>>} \/ B = {}
  BY <2>1, Zenon DEF If
<2> QED
  BY <2>2 DEF NoTrim
<1>8. NoTrim(C)
<2> DEFINE X == UnknownTypes(RecordsRead(c, st))
<2>1. C = If(X # {}, {<<"unknown_types", X>>})
  BY Zenon DEF UnknownLimitation
<2> HIDE DEF X, C
<2>2. C = {<<"unknown_types", X>>} \/ C = {}
  BY <2>1, Zenon DEF If
<2> QED
  BY <2>2 DEF NoTrim
<1>9. NoTrim(A)
  BY AlternatesTold DEF NoTrim
<1> HIDE DEF A, B, C, D, u, data
<1>10. NoTrim(lims)
  BY <1>6, <1>7, <1>8, <1>9 DEF NoTrim
<1>11. e = BuildShedding("ok", data, {st.snap}, lims, StagePlan(data))
<2>1. e = StageAnswer(data, st, lims)
  BY Zenon DEF StageResult, data, A, B, C, D, parts
<2> HIDE DEF lims
<2> QED
  BY <2>1, Zenon DEF StageAnswer
<1>12. /\ \A k \in DOMAIN m.data : k \in {"map", "tile_grid"}
       /\ \A k \in DOMAIN z.data : k \in {"map_image"}
  BY SectionParts DEF m, z
<1>13. StageKeys(data, c, st)
  BY <1>3, <1>4, <1>12, Zenon DEF StageKeys, x, y
<1>14. ASSUME NEW a, NEW b, {a.part, b.part} \subseteq {"map_image", "image_refs"} \cup CutLists, StagePlan(data) = <<a, b>>
       PROVE  StageForm(e, c, st)
<2> HIDE DEF lims
<2>1. e = BuildShedding("ok", data, {st.snap}, lims, <<a, b>>)
  BY <1>11, <1>14, Zenon
<2> QED
  BY <1>10, <1>13, <1>14, <2>1, Zenon DEF StageForm
<1>15. /\ {RoutesStep.part, ImageStep.part} \subseteq {"map_image", "image_refs"} \cup CutLists
       /\ {ImageStep.part, RoutesStep.part} \subseteq {"map_image", "image_refs"} \cup CutLists
  BY DEF RoutesStep, ImageStep, CutLists
<1>16. StagePlan(data) = <<ImageStep, RoutesStep>> \/ StagePlan(data) = <<RoutesStep, ImageStep>>
  BY Zenon DEF StagePlan
<1> HIDE DEF lims
<1> QED
  BY <1>14, <1>15, <1>16, Zenon

(* The read of a stage depends on what names it, and not on its pages. *)
LEMMA SameStage ==
  ASSUME NEW rows, NEW c, NEW r, c.by = r.by, c.server = r.server, c.value = r.value
  PROVE  Resolve(rows, c) = Resolve(rows, r)
  BY Zenon DEF Resolve

(* A list that runs from 1 to its length. *)
RunsTo(t, n) == t = [x \in 1..n |-> t[x]]

(* Of one stage: the length of both its lists. *)
LEMMA OneStageUsable ==
  ASSUME NEW st, NEW found, NEW r, r.tool = "get_stage", r.reads \in {"routes", "spawns"}, NEW w,
         NEW R, R = DistinctRoutes(AllRoutes(st)), NEW i \in Nat, RunsTo(R, i),
         NEW L, L = Spawns(st), NEW j \in Nat, RunsTo(L, j),
         NEW c, NEW p \in Nat \ {0}, NEW s \in Nat \ {0},
         c.page \in Nat \ {0}, c.size \in Nat \ {0},
         IF r.reads = "routes" THEN c.page = p /\ c.size = s ELSE c.spawns_page = p /\ c.spawns_size = s,
         NEW e, e = StageResult(c, found, st, Sections(c, st))
  PROVE  Usable(e, w, r, p, s, i + j)
<1> DEFINE m == IF r.reads = "routes" THEN i ELSE j
           x == RoutesSection(c, st)
           y == SpawnsSection(c, st)
<1>0. StageForm(e, c, st)
  BY StageBuilt
<1>1. PICK data, lims, a, b :
        /\ e = BuildShedding("ok", data, {st.snap}, lims, <<a, b>>)
        /\ {a.part, b.part} \subseteq {"map_image", "image_refs"} \cup CutLists
        /\ StageKeys(data, c, st) /\ NoTrim(lims)
  BY <1>0, Zenon DEF StageForm
<1>2. PICK u, v, z :
        /\ DOMAIN u = {"stage", "enum_legend"}
        /\ \A k \in DOMAIN v : k \in {"map", "tile_grid"}
        /\ \A k \in DOMAIN z : k \in {"map_image"}
        /\ data = u ++ v ++ x.data ++ y.data ++ z
  BY <1>1, Zenon DEF StageKeys
<1>3. data = u ++ v ++ x.data ++ y.data ++ z
  BY <1>2
<1>4. Len(R) = i /\ Len(L) = j
  BY Spelt, Zenon DEF RunsTo
<1>5. /\ \/ DOMAIN x.data = {}
         \/ /\ DOMAIN x.data = {"routes", "routes_page"}
            /\ x.data["routes"] = PageOf(R, c.page, c.size)
            /\ x.data["routes_page"] = <<SectionPage(c.page, c.size, i)>>
      /\ \/ DOMAIN y.data = {}
         \/ /\ DOMAIN y.data = {"spawns", "spawns_page"}
            /\ y.data["spawns_page"] = <<SectionPage(c.spawns_page, c.spawns_size, j)>>
<2>1. ListsAt(x.data, y.data, c, R, L)
  BY ListParts
<2> HIDE DEF x, y
<2> QED
  BY <1>4, <2>1 DEF ListsAt
<1> DEFINE f == x.data  g == y.data
<1> HIDE DEF f, g, x, y
<1>6. \A k : /\ k \in DOMAIN data <=> \/ k \in DOMAIN u \/ k \in DOMAIN v \/ k \in DOMAIN f
                                      \/ k \in DOMAIN g \/ k \in DOMAIN z
             /\ k \in DOMAIN f /\ k \notin DOMAIN u /\ k \notin DOMAIN v => data[k] = f[k]
             /\ /\ k \in DOMAIN g /\ k \notin DOMAIN u /\ k \notin DOMAIN v /\ k \notin DOMAIN f
                => data[k] = g[k]
<2>1. data = u ++ v ++ f ++ g ++ z
  BY <1>3, Zenon DEF f, g
<2> QED
  BY <2>1, FiveJoined
<1> DEFINE pg == PageOf(R, c.page, c.size)
<1>7. DOMAIN pg = 1..Len(pg) /\ Len(pg) \in Nat /\ Len(pg) <= c.size
  BY PageFits, Zenon DEF RunsTo
<1>8. /\ \/ DOMAIN f = {}
         \/ /\ DOMAIN f = {"routes", "routes_page"}
            /\ f["routes"] = pg
            /\ f["routes_page"] = <<SectionPage(c.page, c.size, i)>>
      /\ \/ DOMAIN g = {}
         \/ /\ DOMAIN g = {"spawns", "spawns_page"}
            /\ g["spawns_page"] = <<SectionPage(c.spawns_page, c.spawns_size, j)>>
  BY <1>5 DEF f, g
<1> HIDE DEF pg
<1>9. "banners" \notin DOMAIN data
  BY <1>2, <1>3, <1>6, <1>8
<1>10. "routes" \in DOMAIN data => data["routes"] = pg
  BY <1>2, <1>3, <1>6, <1>8
<1>11. Cuttable(data, r, s)
<2>1. ReadsSpawns(r) \/ c.size = s
  BY DEF ReadsSpawns
<2> QED
  BY <1>7, <1>9, <1>10, <2>1 DEF Cuttable, CutLists
<1>12. KeyIn(e, r) = IF r.reads = "routes" THEN "routes_page" ELSE "spawns_page"
  BY DEF KeyIn
<1>13. /\ "routes_page" \in DOMAIN data => data["routes_page"] = <<SectionPage(c.page, c.size, i)>>
       /\ "spawns_page" \in DOMAIN data => data["spawns_page"] = <<SectionPage(c.spawns_page, c.spawns_size, j)>>
  BY <1>2, <1>3, <1>6, <1>8
<1>14. KeyIn(e, r) \in DOMAIN data => data[KeyIn(e, r)] = <<SectionPage(p, s, m)>>
<2>1. CASE r.reads = "routes"
  BY <1>12, <1>13, <2>1
<2>2. CASE r.reads # "routes"
  BY <1>12, <1>13, <2>2
<2> QED
  BY <2>1, <2>2
<1>15. r.tool \notin OfAccount
  BY DEF OfAccount
<1> DEFINE n == i + j
<1>16. m \in Nat /\ n \in Nat /\ m <= n /\ p * s \in Nat
  OBVIOUS
<1> DEFINE prov == {st.snap}  ok == "ok"
<1>17. e = BuildShedding(ok, data, prov, lims, <<a, b>>)
  BY <1>1
<1> HIDE DEF m, n, prov, ok
<1>18. {a.part, b.part} \subseteq {"map_image", "image_refs"} \cup CutLists /\ NoTrim(lims)
  BY <1>1
<1>19. Usable(e, w, r, p, s, n)
  BY <1>11, <1>14, <1>15, <1>16, <1>17, <1>18, PlannedUsable
<1> QED
  BY <1>19 DEF n

(* Of a stage: the length of its routes or of its spawns. *)
LEMMA StageUsable ==
  ASSUME NEW w0, AWorld(w0), NEW k, NEW r, ARequest(r), r.tool = "get_stage"
  PROVE  \E n \in Nat : \A p, s \in Nat \ {0} :
           Usable(GetStage(WorldOf(w0, k).stages, Cursor(r, p, s)), WorldOf(w0, k), r, p, s, n)
<1> DEFINE w == WorldOf(w0, k)
           found == Resolve(w.stages, r)
           st == found.stage
           e(p, s) == GetStage(w.stages, Cursor(r, p, s))
<1>1. Stages(w.stages)
  BY WorldParts DEF AWorld
<1>2. {"tool", "server", "size", "reads", "by", "value"} \subseteq DOMAIN r /\ r.size \in Nat \ {0} /\ r.reads \in {"routes", "spawns"}
  BY DEF ARequest
<1>3. ASSUME NEW p \in Nat \ {0}, NEW s \in Nat \ {0}
      PROVE  LET c == Cursor(r, p, s)
             IN /\ c.by = r.by /\ c.server = r.server /\ c.value = r.value
                /\ c.page \in Nat \ {0} /\ c.size \in Nat \ {0}
                /\ IF r.reads = "routes" THEN c.page = p /\ c.size = s ELSE c.spawns_page = p /\ c.spawns_size = s
<2>1. CASE r.reads = "routes"
  BY <1>2, <2>1, CursorParts
<2>2. CASE r.reads = "spawns"
  BY <1>2, <2>2, CursorOfSpawns
<2> QED
  BY <1>2, <2>1, <2>2
<1>4. ASSUME NEW p \in Nat \ {0}, NEW s \in Nat \ {0}
      PROVE  e(p, s) = IF st = None THEN Error("not_found")
                       ELSE StageResult(Cursor(r, p, s), found, st, Sections(Cursor(r, p, s), st))
<2> DEFINE c == Cursor(r, p, s)
<2>1. Resolve(w.stages, c) = found
  BY <1>3, SameStage
<2>2. GetStage(w.stages, c) = IF Resolve(w.stages, c).stage = None THEN Error("not_found")
        ELSE StageResult(c, Resolve(w.stages, c), Resolve(w.stages, c).stage, Sections(c, Resolve(w.stages, c).stage))
  BY Zenon DEF GetStage
<2> HIDE DEF c, w, found
<2> QED
  BY <2>1, <2>2, Zenon DEF c
<1> HIDE DEF w, found, e
<1>5. CASE st = None
<2>1. \A p, s \in Nat \ {0} : Usable(e(p, s), w, r, p, s, 0)
  BY <1>4, <1>5, ErrorUsable
<2>2. 0 \in Nat
  OBVIOUS
<2> QED
  BY <2>1, <2>2, Zenon DEF e, w
<1>6. CASE st # None
<2> DEFINE R == DistinctRoutes(AllRoutes(st))  L == Spawns(st)
<2>1. st \in w.stages
  BY <1>1, <1>6, PickedStage DEF found
<2>2. IsFiniteSet(st.routes) /\ IsFiniteSet(st.spawns)
  BY <1>1, <2>1 DEF Stages
<2> HIDE DEF st
<2>3. PICK i \in Nat : R = [x \in 1..i |-> R[x]]
  BY <2>2, RoutesCounted
<2>4. PICK j \in Nat : L = [x \in 1..j |-> L[x]]
  BY <2>2, SpawnsCounted
<2>5. ASSUME NEW p \in Nat \ {0}, NEW s \in Nat \ {0}
      PROVE  Usable(e(p, s), w, r, p, s, i + j)
<3> DEFINE c == Cursor(r, p, s)  a == e(p, s)
<3>1. a = StageResult(c, found, st, Sections(c, st))
  BY <1>4, <1>6, Zenon
<3>2. /\ c.page \in Nat \ {0} /\ c.size \in Nat \ {0}
      /\ IF r.reads = "routes" THEN c.page = p /\ c.size = s ELSE c.spawns_page = p /\ c.spawns_size = s
  BY <1>3
<3> HIDE DEF c, a
<3> DEFINE U == R  V == L
<3>3. U = DistinctRoutes(AllRoutes(st)) /\ RunsTo(U, i)
  BY <2>3, Zenon DEF RunsTo
<3>4. V = Spawns(st) /\ RunsTo(V, j)
  BY <2>4, Zenon DEF RunsTo
<3> HIDE DEF R, L, U, V
<3>5. Usable(a, w, r, p, s, i + j)
  BY <1>2, <3>1, <3>2, <3>3, <3>4, OneStageUsable, Zenon
<3> QED
  BY <3>5 DEF a
<2>6. i + j \in Nat
  OBVIOUS
<2> DEFINE n == i + j
<2> HIDE DEF n
<2>7. n \in Nat /\ \A p, s \in Nat \ {0} : Usable(e(p, s), w, r, p, s, n)
  BY <2>5, <2>6 DEF n
<2> QED
  BY <2>7, Zenon DEF e, w
<1> QED
  BY <1>5, <1>6

-------------------------------------------------------------------------------
(* Any answer. *)
(* A request keeps its tool under any cursor. *)
LEMMA SameTool ==
  ASSUME NEW r, ARequest(r), NEW p, NEW s
  PROVE  Cursor(r, p, s).tool = r.tool
<1>1. "tool" \in DOMAIN r
  BY DEF ARequest
<1>2. CASE r.tool = "get_stage" /\ r.reads = "spawns"
  BY <1>1, <1>2, CursorOfSpawns
<1>3. CASE ~(r.tool = "get_stage" /\ r.reads = "spawns")
  BY <1>1, <1>3, CursorParts
<1> QED
  BY <1>2, <1>3

(* Every page and size of a request has an answer a client can go by, and the pages of
   its list end by n. *)
Ends(w, r, n) == \A p, s \in Nat \ {0} : Usable(Answer(w, Cursor(r, p, s)), w, r, p, s, n)

(* Every tool answers every page of every request with an answer a client can go by. *)
LEMMA AnswerUsable ==
  ASSUME NEW w0, AWorld(w0), NEW k \in DOMAIN w0.accounts, NEW r, ARequest(r)
  PROVE  \E n \in Nat : Ends(WorldOf(w0, k), r, n)
<1> DEFINE w == WorldOf(w0, k)
<1>1. ASSUME NEW p, NEW s PROVE Cursor(r, p, s).tool = r.tool
  BY SameTool
<1>2. ASSUME NEW p \in Nat \ {0}, NEW s \in Nat \ {0} PROVE p * s \in Nat
  OBVIOUS
<1>3. CASE r.tool \in Plain
  BY <1>3, PlainUsable DEF Ends
<1>4. CASE r.tool = "get_stage"
<2>1. \A p, s : Answer(w, Cursor(r, p, s)) = GetStage(w.stages, Cursor(r, p, s))
  BY <1>1, <1>4, Dispatched, Zenon
<2>2. PICK n \in Nat : \A p, s \in Nat \ {0} : Usable(GetStage(w.stages, Cursor(r, p, s)), w, r, p, s, n)
  BY <1>4, StageUsable, Zenon
<2> HIDE DEF w
<2> QED
  BY <2>1, <2>2, Zenon DEF Ends, w
<1>5. CASE r.tool = "get_item_drops"
<2>1. \A p, s : Answer(w, Cursor(r, p, s)) = GetItemDrops(w, Cursor(r, p, s))
  BY <1>1, <1>5, Dispatched, Zenon
<2>2. PICK n \in Nat : \A p, s \in Nat \ {0} : Usable(GetItemDrops(w, Cursor(r, p, s)), w, r, p, s, n)
  BY <1>5, ItemDropsUsable, Zenon
<2> HIDE DEF w
<2> QED
  BY <2>1, <2>2, Zenon DEF Ends, w
<1>6. CASE r.tool = "get_banners"
<2>1. \A p, s : Answer(w, Cursor(r, p, s)) = GetBanners(w, Cursor(r, p, s))
  BY <1>1, <1>6, Dispatched, Zenon
<2>2. PICK n \in Nat : \A p, s \in Nat \ {0} : Usable(GetBanners(w, Cursor(r, p, s)), w, r, p, s, n)
  BY <1>6, BannersUsable, Zenon
<2> HIDE DEF w
<2> QED
  BY <2>1, <2>2, Zenon DEF Ends, w
<1>7. CASE r.tool \in Searches \cup {"get_stage_drops", "get_my_operator"}
<2>1. ASSUME NEW p \in Nat \ {0}, NEW s \in Nat \ {0} PROVE Usable(Answer(w, Cursor(r, p, s)), w, r, p, s, 0)
<3> DEFINE c == Cursor(r, p, s)
           e == Answer(w, c)
<3>1. c.tool = r.tool /\ p * s \in Nat
  BY <1>1, <1>2
<3> HIDE DEF c, e
<3>2. CASE r.tool \in Searches
<4>1. e = Search(w, c)
  BY <3>1, <3>2, Dispatched DEF e
<4> HIDE DEF w
<4>2. Usable(e, w, r, p, s, 0)
  BY <3>1, <3>2, <4>1, SearchUsable
<4> QED
  BY <4>2 DEF e, c
<3>3. CASE r.tool = "get_stage_drops"
<4>1. e = GetStageDrops(w, c)
  BY <3>1, <3>3, Dispatched DEF e
<4> HIDE DEF w
<4>2. Usable(e, w, r, p, s, 0)
  BY <3>1, <3>3, <4>1, StageDropsUsable
<4> QED
  BY <4>2 DEF e, c
<3>4. CASE r.tool = "get_my_operator"
<4>1. e = GetMyOperator(w, c)
  BY <3>1, <3>4, Dispatched DEF e
<4>2. Usable(e, w, r, p, s, 0)
  BY <3>1, <3>4, <4>1, MyOperatorUsable
<4> HIDE DEF w
<4> QED
  BY <4>2 DEF e, c
<3> QED
  BY <1>7, <3>2, <3>3, <3>4
<2>2. Ends(w, r, 0)
  BY <2>1 DEF Ends
<2> QED
  BY <2>2
<1> QED
  BY <1>3, <1>4, <1>5, <1>6, <1>7 DEF ARequest, Tools, Plain, Searches

(* One bound for finitely many numbers. *)
LEMMA OneBound ==
  ASSUME NEW N \in Nat, NEW f, \A i \in 1..N : f[i] \in Nat
  PROVE  \E m \in Nat : \A i \in 1..N : f[i] <= m
<1> DEFINE Above(j, m) == \A i \in 1..j : f[i] <= m
           T == {j \in 0..N : ~\E m \in Nat : Above(j, m)}
<1>1. CASE T = {}
<2>1. N \in 0..N /\ N \notin T
<3> HIDE DEF T
<3> QED
  BY <1>1
<2>2. \E m \in Nat : Above(N, m)
<3> HIDE DEF Above
<3> QED
  BY <2>1, Zenon
<2> QED
  BY <2>2
<1>2. CASE T # {}
<2>1. PICK j \in T : \A i \in T : j <= i
<3>1. T \in SUBSET Nat
<4> HIDE DEF Above
<4> QED
  OBVIOUS
<3> HIDE DEF T
<3> QED
  BY <1>2, <3>1, LeastNat
<2>2. j # 0
<3>1. Above(0, 0)
  OBVIOUS
<3> HIDE DEF Above
<3>2. 0 \in Nat
  OBVIOUS
<3>3. ~\E m \in Nat : Above(j, m)
  BY <2>1
<3> QED
  BY <3>1, <3>2, <3>3, Zenon
<2>3. PICK m \in Nat : Above(j - 1, m)
<3>1. j - 1 \in 0..N /\ ~(j <= j - 1)
  BY <2>1, <2>2
<3>2. j - 1 \notin T
  BY <2>1, <3>1
<3> HIDE DEF Above
<3> QED
  BY <3>1, <3>2, Zenon
<2> DEFINE b == IF f[j] <= m THEN m ELSE f[j]
<2>4. b \in Nat /\ f[j] <= b /\ m <= b
  BY <2>1, <2>2
<2> HIDE DEF b
<2>5. Above(j, b)
<3>1. ASSUME NEW i \in 1..j PROVE f[i] <= b
<4>1. CASE i = j
  BY <2>4, <4>1
<4>2. CASE i # j
<5>1. f[i] <= m /\ f[i] \in Nat
  BY <2>1, <2>3, <4>2
<5> QED
  BY <2>4, <5>1
<4> QED
  BY <4>1, <4>2
<3> QED
  BY <3>1
<2> QED
  BY <2>1, <2>4, <2>5
<1> QED
  BY <1>1, <1>2

(* Whatever run_guarded answers with, of whichever account. *)
Guarded(w, r, n) == \A p, s \in Nat \ {0} : \A e \in RunGuarded(w, Cursor(r, p, s)) : Usable(e, w, r, p, s, n)

(* A later end is an end too. *)
LEMMA Further ==
  ASSUME NEW e, NEW w, NEW r, NEW p \in Nat \ {0}, NEW s \in Nat \ {0}, NEW n \in Nat, NEW m \in Nat, n <= m,
         Usable(e, w, r, p, s, n)
  PROVE  Usable(e, w, r, p, s, m)
<1> DEFINE q == p * s
<1>1. q \in Nat
  OBVIOUS
<1> HIDE DEF q
<1>2. q < n => q < m
  BY <1>1
<1> QED
  BY <1>2 DEF Usable, q

(* Every request has one end for all accounts, failed calls included. *)
LEMMA AllUsable ==
  ASSUME NEW w0, AWorld(w0), NEW r, ARequest(r)
  PROVE  \E m \in Nat : \A k \in DOMAIN w0.accounts : Guarded(WorldOf(w0, k), r, m)
<1> DEFINE N == Len(w0.accounts)
           f == [k \in 1..N |-> CHOOSE n \in Nat : Ends(WorldOf(w0, k), r, n)]
<1>1. N \in Nat /\ DOMAIN w0.accounts = 1..N
  BY DEF AWorld
<1>2. ASSUME NEW k \in 1..N PROVE f[k] \in Nat /\ Ends(WorldOf(w0, k), r, f[k])
<2>1. \E n \in Nat : Ends(WorldOf(w0, k), r, n)
  BY <1>1, AnswerUsable
<2>2. f[k] = CHOOSE n \in Nat : Ends(WorldOf(w0, k), r, n)
  OBVIOUS
<2> HIDE DEF f
<2> QED
  BY <2>1, <2>2, Zenon
<1> HIDE DEF f, N
<1>3. PICK m \in Nat : \A k \in 1..N : f[k] <= m
  BY <1>1, <1>2, OneBound
<1>4. ASSUME NEW k \in 1..N, NEW p \in Nat \ {0}, NEW s \in Nat \ {0},
             NEW e \in RunGuarded(WorldOf(w0, k), Cursor(r, p, s))
      PROVE  Usable(e, WorldOf(w0, k), r, p, s, m)
<2>1. CASE e = Unavailable \/ e = InternalError
<3>1. PICK st : e = Error(st)
  BY <2>1, Zenon DEF Unavailable, InternalError
<3> QED
  BY <3>1, ErrorUsable
<2>2. CASE e = Answer(WorldOf(w0, k), Cursor(r, p, s))
<3>1. Usable(e, WorldOf(w0, k), r, p, s, f[k])
  BY <1>2, <2>2, Zenon DEF Ends
<3>2. f[k] \in Nat /\ f[k] <= m
  BY <1>2, <1>3
<3> QED
  BY <3>1, <3>2, Further
<2> QED
  BY <2>1, <2>2 DEF RunGuarded
<1>5. \A k \in 1..N : Guarded(WorldOf(w0, k), r, m)
  BY <1>4, Zenon DEF Guarded
<1> QED
  BY <1>1, <1>5

-------------------------------------------------------------------------------
(* The inductive invariant of the walk. *)
(* A list of the build is the same whatever account is stored. *)
LEMMA Regardless ==
  ASSUME NEW w0, AWorld(w0), NEW r, r.tool \in Plain \ PlainOfAccount, NEW j, NEW k
  PROVE  /\ All(WorldOf(w0, j), r) = All(WorldOf(w0, k), r)
         /\ \A row, x : Shows(WorldOf(w0, j), r, row, x) <=> Shows(WorldOf(w0, k), r, row, x)
<1> DEFINE w == WorldOf(w0, j)
           v == WorldOf(w0, k)
<1>1. w.announcements = v.announcements /\ w.operators = v.operators /\ w.domain = v.domain
  BY WorldFields
<1> HIDE DEF w, v
<1>2. AnnouncementsOf(w, r) = AnnouncementsOf(v, r)
<2> DEFINE T(rows) ==
             NewestFirst({a \in rows : a.server = r.server /\ InWindow(a.date, DayBound(r.since), DayBound(r.until))}, "date")
<2>1. AnnouncementsOf(w, r) = T(w.announcements) /\ AnnouncementsOf(v, r) = T(v.announcements)
  BY Zenon DEF AnnouncementsOf
<2> HIDE DEF T
<2> QED
  BY <1>1, <2>1
<1>3. FilterOperators(w, r) = FilterOperators(v, r)
<2> DEFINE T(domain, operators) ==
             IF ~domain THEN <<>>
             ELSE LET F == {o \in operators : /\ o.server = r.server /\ o.obtainable
                                              /\ r.room # None => \E s \in o.base : s.room = r.room
                                              /\ r.faction # None => \E f \in o.factions : f.faction = r.faction
                                              /\ r.collab # None => o.collab = r.collab}
                  IN [i \in 1..Cardinality(F) |-> CHOOSE x \in F :
                        Cardinality({y \in F : Rarity(y) > Rarity(x) \/ (Rarity(y) = Rarity(x) /\ y.id < x.id)}) = i - 1]
<2>1. FilterOperators(w, r) = T(w.domain, w.operators)
  BY Zenon DEF FilterOperators, OrderBy
<2>2. FilterOperators(v, r) = T(v.domain, v.operators)
  BY Zenon DEF FilterOperators, OrderBy
<2> HIDE DEF T
<2> QED
  BY <1>1, <2>1, <2>2
<1>4. r.tool \in {"get_announcements", "find_operators"}
  BY DEF Plain, PlainOfAccount
<1>5. All(w, r) = All(v, r)
  BY <1>2, <1>3, <1>4 DEF All
<1>6. \A x : Rank(w, r, x) = Rank(v, r, x) \/ r.tool = "get_announcements"
  BY <1>4 DEF Rank
<1>7. \A row, x : Shows(w, r, row, x) <=> Shows(v, r, row, x)
  BY <1>6 DEF Shows
<1> QED
  BY <1>5, <1>7 DEF w, v

(* These rows are the n entries of the list that come after the first q. *)
Follow(w, r, rows, L, q, n) ==
  Sequence(rows) /\ Len(rows) = n /\ \A i \in 1..n : Shows(w, r, rows[i], L[q + i])

(* The account whose list the walk reads; for a list of the build, any. *)
Ours   == IF stamp = None THEN 1 ELSE stamp
Read(k, n) == Follow(WorldOf(world, k), request, got, All(WorldOf(world, k), request), 0, n)

Walking == request.tool \in Plain /\ request.from = 1

(* Where the walk is, of whatever tool, and that the answer is one to the page asked for. *)
PageInv ==
  /\ world \in ToSet(Worlds) /\ request \in Requests /\ synced \in DOMAIN world.accounts
  /\ page \in Nat \ {0} /\ size \in Nat \ {0} /\ failures \in 0..MaxFailures
  /\ pc \in {"ask", "read", "done", "failed"} /\ (stamp # None => request.tool \in OfAccount)
  /\ pc = "read" => \E k \in DOMAIN world.accounts :
       answer \in RunGuarded(WorldOf(world, k), Cursor(request, page, size))

WalkInv ==
  /\ PageInv
  /\ Walking =>
       /\ stamp # None => request.tool \in PlainOfAccount /\ Stored(world, stamp)
       /\ pc \in {"ask", "read"} =>
            /\ page = 1 => got = <<>> /\ stamp = None
            /\ page # 1 => /\ request.tool \in PlainOfAccount => stamp # None
                           /\ (page - 1) * size <= Len(All(WorldOf(world, Ours), request))
                           /\ Read(Ours, (page - 1) * size)
       /\ pc = "done" => /\ request.tool \in PlainOfAccount => stamp # None
                         /\ Stamp = stamp
                         /\ Read(Ours, Len(All(WorldOf(world, Ours), request)))

-------------------------------------------------------------------------------
(* What taking a page adds to the rows read. *)
(* What the client reads off an answer to one of these lists. *)
LEMMA Keys ==
  ASSUME request.tool \in Plain
  PROVE  List = ListOf(request) /\ PageKey = "page"
<1>1. List = ListOf(request) /\ List \in {"announcements", "items", "operators"}
  BY DEF List, ListOf, Plain, Searches
<1> HIDE DEF List
<1> QED
  BY <1>1 DEF PageKey

(* The invariant holds before the first call. *)
LEMMA WalkInit == Init => WalkInv
<1> SUFFICES ASSUME Init PROVE WalkInv
  OBVIOUS
<1>1. AWorld(world) /\ ARequest(request)
  BY AnswersAssumption DEF Init
<1>2. synced \in DOMAIN world.accounts
<2>1. world.accounts \in Seq(ToSet(world.accounts)) /\ world.accounts # <<>>
  BY <1>1 DEF AWorld
<2>2. synced = 1
  BY DEF Init
<2> QED
  BY <2>1, <2>2
<1>3. page \in Nat \ {0} /\ size \in Nat \ {0} /\ (request.from = 1 => page = 1)
  BY <1>1 DEF ARequest, Init
<1>4. failures \in 0..MaxFailures /\ pc = "ask" /\ stamp = None
  BY AnswersAssumption DEF Init
<1> QED
  BY <1>2, <1>3, <1>4 DEF Init, PageInv, WalkInv, Walking

(* The rows of two sequences, one after the other. *)
LEMMA Joined ==
  ASSUME NEW g, Sequence(g), NEW t, Sequence(t)
  PROVE  /\ Sequence(g \o t) /\ Len(g \o t) = Len(g) + Len(t)
         /\ \A i \in 1..(Len(g) + Len(t)) : (g \o t)[i] = IF i <= Len(g) THEN g[i] ELSE t[i - Len(g)]
<1>1. PICK G : g \in Seq(G)
  BY DEF Sequence
<1>2. PICK X : t \in Seq(X)
  BY DEF Sequence
<1> DEFINE R == G \cup X
<1>3. g \in Seq(R) /\ t \in Seq(R)
  BY <1>1, <1>2
<1> HIDE DEF R
<1>4. /\ g \o t \in Seq(R) /\ Len(g \o t) = Len(g) + Len(t)
      /\ \A i \in 1..(Len(g) + Len(t)) : (g \o t)[i] = IF i <= Len(g) THEN g[i] ELSE t[i - Len(g)]
  BY <1>3, ConcatProperties
<1> QED
  BY <1>4 DEF Sequence

(* The rows read and the rows of the next page are the rows up to its end. *)
LEMMA Extended ==
  ASSUME NEW w, NEW r, NEW L, NEW q \in Nat, NEW n \in Nat, NEW g, Follow(w, r, g, L, 0, q), NEW t, Follow(w, r, t, L, q, n)
  PROVE  Follow(w, r, g \o t, L, 0, q + n)
<1> DEFINE h == g \o t
<1>0. /\ Sequence(g) /\ Len(g) = q /\ \A i \in 1..q : Shows(w, r, g[i], L[0 + i])
      /\ Sequence(t) /\ Len(t) = n /\ \A i \in 1..n : Shows(w, r, t[i], L[q + i])
  BY DEF Follow
<1>1. /\ Sequence(g \o t) /\ Len(g \o t) = Len(g) + Len(t)
      /\ \A i \in 1..(Len(g) + Len(t)) : (g \o t)[i] = IF i <= Len(g) THEN g[i] ELSE t[i - Len(g)]
  BY <1>0, Joined, Zenon
<1> HIDE DEF h
<1>2. Sequence(h) /\ Len(h) = q + n
  BY <1>0, <1>1 DEF h
<1>3. \A i \in 1..(q + n) : h[i] = IF i <= q THEN g[i] ELSE t[i - q]
  BY <1>0, <1>1, Zenon DEF h
<1>4. ASSUME NEW i \in 1..(q + n) PROVE Shows(w, r, h[i], L[0 + i])
<2>1. CASE i <= q
<3>1. h[i] = g[i] /\ i \in 1..q
  BY <1>3, <2>1
<3> QED
  BY <1>0, <3>1
<2>2. CASE ~(i <= q)
<3>1. h[i] = t[i - q] /\ i - q \in 1..n /\ q + (i - q) = 0 + i
  BY <1>3, <2>2
<3>2. Shows(w, r, t[i - q], L[q + (i - q)])
  BY <1>0, <3>1
<3> QED
  BY <3>1, <3>2
<2> QED
  BY <2>1, <2>2
<1> QED
  BY <1>2, <1>4 DEF h, Follow

(* Paging, for a page given by name. *)
LEMMA Paged ==
  ASSUME NEW S, NEW L \in Seq(S), NEW p \in Nat \ {0}, NEW s \in Nat \ {0}, NEW q, q = (p - 1) * s, q <= Len(L),
         NEW P, P = PageOf(L, p, s)
  PROVE  /\ q \in Nat /\ p * s = q + s
         /\ Len(P) \in Nat /\ DOMAIN P = 1..Len(P)
         /\ \A i \in 1..Len(P) : P[i] = L[q + i] /\ q + i \in DOMAIN L
         /\ q + Len(P) = IF q + s <= Len(L) THEN q + s ELSE Len(L)
<1>1. (p - 1) * s <= Len(L)
  OBVIOUS
<1> QED
  BY <1>1, Paging

(* What a page taken adds to the rows read. *)
LEMMA Taken ==
  ASSUME NEW w, NEW r, NEW L, L = All(w, r), Whole(w, r, L), NEW p \in Nat \ {0}, NEW s \in Nat \ {0},
         NEW q, q = (p - 1) * s, q <= Len(L), NEW e, Proper(e, w, r, p, s), NEW g, Follow(w, r, g, L, 0, q)
  PROVE  \E k \in Nat : /\ Follow(w, r, g \o e.data[ListOf(r)], L, 0, k)
                        /\ k <= Len(L)
                        /\ p * s < Len(L) => k = p * s
                        /\ ~(p * s < Len(L)) => k = Len(L)
<1> DEFINE P == PageOf(L, p, s)
           t == e.data[ListOf(r)]
           n == Len(P)
           l == Len(L)
           m == p * s
<1>1. PICK T : L \in Seq(T)
  BY DEF Whole
<1>2. /\ q \in Nat /\ p * s = q + s
      /\ Len(P) \in Nat /\ DOMAIN P = 1..Len(P)
      /\ \A i \in 1..Len(P) : P[i] = L[q + i] /\ q + i \in DOMAIN L
      /\ q + Len(P) = IF q + s <= Len(L) THEN q + s ELSE Len(L)
<2>1. P = PageOf(L, p, s)
  OBVIOUS
<2> HIDE DEF P
<2> QED
  BY <1>1, <2>1, Paged
<1>3. t = [i \in DOMAIN P |-> t[i]] /\ \A i \in DOMAIN P : Shows(w, r, t[i], P[i])
  BY DEF Proper
<1>4. Len(L) \in Nat
  BY <1>1
<1> HIDE DEF P, t
<1>5. Follow(w, r, t, L, q, n)
<2>1. t = [i \in 1..n |-> t[i]] /\ n \in Nat
  BY <1>2, <1>3
<2>2. \A i \in 1..n : Shows(w, r, t[i], L[q + i])
  BY <1>2, <1>3
<2> HIDE DEF n
<2>3. Sequence(t) /\ Len(t) = n
  BY <2>1, Spelt, Zenon
<2> QED
  BY <2>2, <2>3, Zenon DEF Follow
<1>6. /\ n \in Nat /\ l \in Nat /\ s \in Nat /\ m = q + s
      /\ q + n = IF q + s <= l THEN q + s ELSE l
  BY <1>2, <1>4
<1> HIDE DEF n, l, m
<1>6a. q \in Nat
  BY <1>2
<1>7. Follow(w, r, g \o t, L, 0, q + n)
  BY <1>5, <1>6, <1>6a, Extended, Zenon
<1>8. q + n <= l /\ (m < l => q + n = m) /\ (~(m < l) => q + n = l) /\ q + n \in Nat
  BY <1>6, <1>6a
<1>9. /\ Follow(w, r, g \o e.data[ListOf(r)], L, 0, q + n) /\ q + n \in Nat /\ q + n <= Len(L)
      /\ p * s < Len(L) => q + n = p * s
      /\ ~(p * s < Len(L)) => q + n = Len(L)
  BY <1>7, <1>8, Zenon DEF l, m, t
<1> QED
  BY <1>9, Zenon

(* The world and the request of a walk are among those assumed of. *)
LEMMA Known == PageInv => AWorld(world) /\ ARequest(request)
  BY AnswersAssumption DEF PageInv

(* What the walk knows of the answer it reads. *)
LEMMA Told ==
  ASSUME PageInv, request.tool \in Plain, pc = "read"
  PROVE  \E k \in DOMAIN world.accounts :
           /\ Sound(answer, WorldOf(world, k), request, page, size)
           /\ Full(answer, WorldOf(world, k), request, page, size)
           /\ request.tool \in PlainOfAccount => Stored(world, k) \/ Refused \/ Withheld
<1>1. PICK k \in DOMAIN world.accounts : answer \in RunGuarded(WorldOf(world, k), Cursor(request, page, size))
  BY DEF PageInv
<1>2. AWorld(world) /\ ARequest(request) /\ page \in Nat \ {0} /\ size \in Nat \ {0}
  BY Known DEF PageInv
<1>3. /\ Sound(answer, WorldOf(world, k), request, page, size)
      /\ Full(answer, WorldOf(world, k), request, page, size)
      /\ request.tool \in PlainOfAccount =>
           Stored(world, k) \/ "message" \in DOMAIN answer.data \/ <<"withheld">> \in answer.lims
  BY <1>1, <1>2, AnswerSound
<1> QED
  BY <1>3 DEF Refused, Withheld, Has

(* No answer to these lists is trimmed: they have no shed plan. *)
LEMMA NeverTrimmed ==
  ASSUME PageInv, request.tool \in Plain, pc = "read"
  PROVE  Trims = {}
<1>1. Untrimmed(answer)
  BY Told DEF Sound
<1> QED
  BY <1>1 DEF Untrimmed, Trims, Cuts

(* The stamp of an answer is the account it was read from. *)
LEMMA Stamped ==
  ASSUME PageInv, request.tool \in Plain, NEW k \in DOMAIN world.accounts,
         Proper(answer, WorldOf(world, k), request, page, size),
         request.tool \in PlainOfAccount => Stored(world, k)
  PROVE  /\ Stamp = IF request.tool \in PlainOfAccount THEN k ELSE None
         /\ k # None
         /\ Rows = answer.data[ListOf(request)]
         /\ HasMore <=> page * size < Len(All(WorldOf(world, k), request))
<1>1. AWorld(world)
  BY Known
<1>2. List = ListOf(request) /\ PageKey = "page"
  BY Keys
<1>3. k # None
<2>1. k \in Int
  BY <1>1 DEF AWorld
<2> QED
  BY <2>1, AnswersAssumption
<1>4. {ListOf(request), "page"} \subseteq DOMAIN answer.data
  BY DEF Proper
<1>5. Rows = answer.data[ListOf(request)]
  BY <1>1, <1>2, <1>4 DEF Rows, RowsIn, Has, Plain
<1>6. answer.data["page"][1].has_more = (page * size < Len(All(WorldOf(world, k), request)))
  BY DEF Proper
<1>7. HasMore <=> page * size < Len(All(WorldOf(world, k), request))
  BY <1>2, <1>4, <1>6, Zenon DEF HasMore, Has
<1>8. CASE request.tool \in PlainOfAccount
<2>1. "about" \in DOMAIN answer.data /\ answer.data["about"][1].synced_at = WorldOf(world, k).account.synced
  BY <1>8 DEF Proper
<2>2. WorldOf(world, k).account.synced = k
  BY <1>1, <1>8, WorldFields DEF AWorld, Stored, AnAccount
<2>3. request.tool \in OfAccount
  BY <1>8 DEF PlainOfAccount, OfAccount
<2>4. Stamp = k
  BY <2>1, <2>2, <2>3 DEF Stamp, Has
<2> QED
  BY <1>3, <1>5, <1>7, <1>8, <2>4
<1>9. CASE request.tool \notin PlainOfAccount
<2>1. request.tool \notin OfAccount
  BY <1>1, <1>9 DEF Plain, PlainOfAccount, OfAccount
<2>2. Stamp = None
  BY <2>1 DEF Stamp
<2> QED
  BY <1>3, <1>5, <1>7, <1>9, <2>2
<1> QED
  BY <1>8, <1>9

(* No rows are the first none of any list. *)
LEMMA NothingRead ==
  ASSUME NEW w, NEW r, NEW L
  PROVE  Follow(w, r, <<>>, L, 0, 0)
<1>1. <<>> \in Seq({}) /\ Len(<<>>) = 0
  OBVIOUS
<1> QED
  BY <1>1 DEF Follow, Sequence

(* A page taken of one account adds the rows it owes. *)
LEMMA TakeReads ==
  ASSUME WalkInv, Walking, Take
  PROVE  LET b == IF Stamp = None THEN 1 ELSE Stamp
             L == All(WorldOf(world, b), request)
         IN /\ request.tool \in PlainOfAccount => Stamp # None
            /\ Stamp # None => request.tool \in PlainOfAccount /\ Stored(world, Stamp)
            /\ HasMore <=> page * size < Len(L)
            /\ \E k \in Nat : /\ Follow(WorldOf(world, b), request, got \o Rows, L, 0, k)
                              /\ k <= Len(L)
                              /\ HasMore => k = page * size
                              /\ ~HasMore => k = Len(L)
<1> DEFINE b == IF Stamp = None THEN 1 ELSE Stamp
           w == WorldOf(world, b)
           L == All(w, request)
           q == (page - 1) * size
<1>1. PageInv /\ AWorld(world) /\ ARequest(request) /\ request.tool \in Plain /\ page \in Nat \ {0} /\ size \in Nat \ {0}
  BY Known DEF PageInv, WalkInv, Walking
<1>2. PICK k \in DOMAIN world.accounts :
        /\ Proper(answer, WorldOf(world, k), request, page, size)
        /\ request.tool \in PlainOfAccount => Stored(world, k)
<2>1. pc = "read" /\ ~Refused /\ ~Withheld
  BY DEF Take
<2> QED
  BY <1>1, <2>1, Told DEF Sound, Refused, Withheld, Has
<1>3. /\ Stamp = IF request.tool \in PlainOfAccount THEN k ELSE None
      /\ k # None
      /\ Rows = answer.data[ListOf(request)]
      /\ HasMore <=> page * size < Len(All(WorldOf(world, k), request))
  BY <1>1, <1>2, Stamped
<1>4. /\ Proper(answer, w, request, page, size)
      /\ All(WorldOf(world, k), request) = L
<2>1. CASE request.tool \in PlainOfAccount
<3>1. b = k
  BY <1>3, <2>1
<3> QED
  BY <1>2, <3>1
<2>2. CASE request.tool \notin PlainOfAccount
<3>1. /\ All(WorldOf(world, k), request) = L
      /\ \A row, x : Shows(WorldOf(world, k), request, row, x) <=> Shows(w, request, row, x)
  BY <1>1, <2>2, Regardless, Zenon
<3> HIDE DEF w, L
<3>2. Proper(answer, w, request, page, size)
  BY <1>2, <2>2, <3>1 DEF Proper, L
<3> QED
  BY <3>1, <3>2
<2> QED
  BY <2>1, <2>2
<1>5. Whole(w, request, L)
<2>1. request.tool \in PlainOfAccount => Stored(world, b)
  BY <1>2, <1>3
<2> QED
  BY <1>1, <2>1, ListsWhole
<1>6. Len(L) \in Nat
  BY <1>5 DEF Whole
<1>7. Follow(w, request, got, L, 0, q) /\ q <= Len(L)
<2>1. CASE page = 1
<3>1. got = <<>>
  BY <2>1 DEF WalkInv, Take
<3>2. q = 0
  BY <1>1, <2>1
<3> HIDE DEF q, L, w
<3> QED
  BY <1>6, <3>1, <3>2, NothingRead
<2>2. CASE page # 1
<3>1. /\ request.tool \in PlainOfAccount => stamp # None
      /\ q <= Len(All(WorldOf(world, Ours), request))
      /\ Read(Ours, q)
      /\ stamp # None => request.tool \in PlainOfAccount
  BY <2>2 DEF WalkInv, Take
<3>2. stamp # None => Stamp = stamp
  BY DEF Take, Moved
<3>3. b = Ours
  BY <1>3, <3>1, <3>2 DEF Ours
<3> QED
  BY <3>1, <3>3 DEF Read
<2> QED
  BY <2>1, <2>2
<1>8. \E j \in Nat : /\ Follow(w, request, got \o answer.data[ListOf(request)], L, 0, j)
                     /\ j <= Len(L)
                     /\ page * size < Len(L) => j = page * size
                     /\ ~(page * size < Len(L)) => j = Len(L)
<2> HIDE DEF w
<2>1. q = (page - 1) * size /\ L = All(w, request)
  OBVIOUS
<2> HIDE DEF q, L
<2> QED
  BY <1>1, <1>4, <1>5, <1>7, <2>1, Taken
<1>9. /\ request.tool \in PlainOfAccount => Stamp # None
      /\ Stamp # None => request.tool \in PlainOfAccount /\ Stored(world, Stamp)
  BY <1>2, <1>3
<1>10. HasMore <=> page * size < Len(L)
  BY <1>3, <1>4, Zenon
<1> HIDE DEF w, L
<1>11. \E j \in Nat : /\ Follow(w, request, got \o Rows, L, 0, j)
                      /\ j <= Len(L)
                      /\ HasMore => j = page * size
                      /\ ~HasMore => j = Len(L)
  BY <1>3, <1>8, <1>10, Zenon
<1> QED
  BY <1>9, <1>10, <1>11, Zenon DEF w, L

(* The page block the client looks for is that of the list it reads. *)
LEMMA KeyRead ==
  ASSUME ARequest(request)
  PROVE  PageKey = KeyIn(answer, request) /\ (List = "spawns" <=> ReadsSpawns(request))
<1>1. CASE request.tool = "get_stage"
<2>1. List = request.reads /\ request.reads \in {"routes", "spawns"}
  BY <1>1 DEF List, ARequest, Searches
<2> HIDE DEF List
<2> QED
  BY <1>1, <2>1 DEF PageKey, KeyIn, ReadsSpawns
<1>2. CASE request.tool = "get_item_drops"
<2>1. List = IF "ranking" \in DOMAIN answer.data THEN "ranking" ELSE "stages"
  BY <1>2 DEF List, Has, Searches
<2> HIDE DEF List
<2> QED
  BY <1>2, <2>1 DEF PageKey, KeyIn, ReadsSpawns
<1>3. CASE request.tool \notin {"get_stage", "get_item_drops"}
<2>1. List \in {"drops", "banners", "announcements", "items", "operator", "results", "operators"}
  BY <1>3 DEF List
<2> HIDE DEF List
<2> QED
  BY <1>3, <2>1 DEF PageKey, KeyIn, ReadsSpawns
<1> QED
  BY <1>1, <1>2, <1>3

(* An answer from the account says which one it is, unless it is refused. *)
LEMMA AccountNamed ==
  ASSUME NEW w0, AWorld(w0), NEW k \in DOMAIN w0.accounts, NEW e, NEW r, Stampable(e, WorldOf(w0, k), r),
         r.tool \in OfAccount, "message" \notin DOMAIN e.data
  PROVE  "about" \in DOMAIN e.data /\ e.data["about"][1].synced_at = k
<1>1. /\ WorldOf(w0, k).account # None /\ "about" \in DOMAIN e.data
      /\ e.data["about"][1].synced_at = WorldOf(w0, k).account.synced
  BY DEF Stampable
<1>2. WorldOf(w0, k).account.synced = k
  BY <1>1, WorldFields DEF AWorld, AnAccount
<1> QED
  BY <1>1, <1>2

(* What a client goes by in an answer that is not withheld: it fits, every page size it
   recommends is smaller, its pages end by m, and of the account it says which one. *)
LEMMA Goes ==
  ASSUME PageInv, NEW m \in Nat, NEW k \in DOMAIN world.accounts, Guarded(WorldOf(world, k), request, m),
         answer \in RunGuarded(WorldOf(world, k), Cursor(request, page, size)), ~Withheld
  PROVE  /\ WireSize(answer) <= Cap
         /\ \A t \in Trims : t[2] \in 1..(size - 1)
         /\ HasMore => page * size < m
         /\ request.tool \in OfAccount /\ ~Refused => Stamp = k
<1>1. AWorld(world) /\ ARequest(request) /\ page \in Nat \ {0} /\ size \in Nat \ {0}
  BY Known DEF PageInv
<1>2. Usable(answer, WorldOf(world, k), request, page, size, m)
  BY <1>1 DEF Guarded
<1>3. /\ WireSize(answer) <= Cap
      /\ Smaller(answer, request, size)
      /\ MoreIn(answer, request) => page * size < m
      /\ Stampable(answer, WorldOf(world, k), request)
  BY <1>2 DEF Usable, Withheld
<1>4. PageKey = KeyIn(answer, request) /\ (List = "spawns" <=> ReadsSpawns(request))
  BY <1>1, KeyRead
<1>5. \A t \in Trims : t[2] \in 1..(size - 1)
  BY <1>3, <1>4 DEF Trims, Smaller
<1>6. HasMore => page * size < m
  BY <1>3, <1>4, Zenon DEF HasMore, Has, MoreIn
<1>7. request.tool \in OfAccount /\ ~Refused => Stamp = k
  BY <1>1, <1>3, AccountNamed DEF Stamp, Refused, Has
<1> QED
  BY <1>3, <1>5, <1>6, <1>7

(* Some end of the walk's pages, whichever account they are read from. *)
LEMMA EndOfPages ==
  ASSUME PageInv
  PROVE  \E m \in Nat : \A k \in DOMAIN world.accounts : Guarded(WorldOf(world, k), request, m)
  BY Known, AllUsable

(* Of every answer that is not withheld. *)
LEMMA ReadUsable ==
  ASSUME PageInv, pc = "read", ~Withheld
  PROVE  WireSize(answer) <= Cap /\ \A t \in Trims : t[2] \in 1..(size - 1)
<1>1. PICK m \in Nat : \A k \in DOMAIN world.accounts : Guarded(WorldOf(world, k), request, m)
  BY EndOfPages
<1>2. PICK k \in DOMAIN world.accounts : answer \in RunGuarded(WorldOf(world, k), Cursor(request, page, size))
  BY DEF PageInv
<1> QED
  BY <1>1, <1>2, Goes

(* A step of the walk restarts it, ends it, or leaves its page and size. *)
LEMMA PageNext == PageInv /\ [Next]_vars => PageInv'
<1> SUFFICES ASSUME PageInv, [Next]_vars PROVE PageInv'
  OBVIOUS
<1> DEFINE RequestKept == world \in ToSet(Worlds) /\ request \in Requests /\ synced \in DOMAIN world.accounts
           PaceKept == page \in Nat \ {0} /\ size \in Nat \ {0} /\ failures \in 0..MaxFailures
           PhaseKept == pc \in {"ask", "read", "done", "failed"} /\ (stamp # None => request.tool \in OfAccount)
           AnswerKept == pc = "read" => \E k \in DOMAIN world.accounts :
                      answer \in RunGuarded(WorldOf(world, k), Cursor(request, page, size))
<1>0. PageInv <=> RequestKept /\ PaceKept /\ PhaseKept /\ AnswerKept
  BY Zenon DEF PageInv
<1>0a. PageInv' <=> RequestKept' /\ PaceKept' /\ PhaseKept' /\ AnswerKept'
  BY Zenon DEF PageInv
<1>0b. MaxFailures \in Nat
  BY AnswersAssumption
<1>1. CASE Ask
<2>1. /\ UNCHANGED <<world, synced, request, page, size, failures, stamp>> /\ pc' = "read"
      /\ answer' \in RunGuarded(WorldAt(synced), Cursor(request, page, size))
  BY <1>1 DEF Ask
<2>2. WorldAt(synced) = WorldOf(world, synced)
  BY Zenon DEF WorldAt, WorldOf
<2>3. RequestKept' /\ PaceKept' /\ PhaseKept'
  BY <1>0, <2>1
<2>4. AnswerKept'
  BY <1>0, <2>1, <2>2
<2> QED
  BY <1>0a, <2>3, <2>4
<1>2. CASE Resync
<2>1. UNCHANGED <<world, request, page, size, answer, failures, pc, stamp>> /\ synced < Len(world.accounts) /\ synced' = synced + 1
  BY <1>2 DEF Resync
<2>2. synced' \in DOMAIN world.accounts
<3>1. synced \in DOMAIN world.accounts /\ DOMAIN world.accounts = 1..Len(world.accounts) /\ Len(world.accounts) \in Nat
  BY <1>0, Known DEF AWorld
<3> QED
  BY <2>1, <3>1
<2> QED
  BY <1>0, <1>0a, <2>1, <2>2
<1>3. CASE Retry \/ GiveUp
<2>1. /\ UNCHANGED <<world, synced, request, page, size, answer, stamp>> /\ pc' \in {"ask", "failed"}
      /\ failures' = failures \/ (failures < MaxFailures /\ failures' = failures + 1)
  BY <1>3 DEF Retry, GiveUp, End
<2>2. failures' \in 0..MaxFailures
  BY <1>0, <1>0b, <2>1
<2> QED
  BY <1>0, <1>0a, <2>1, <2>2
<1>4. CASE Halve \/ Shrink \/ StartOver
<2>1. UNCHANGED <<world, synced, request, failures>> /\ stamp' = None /\ pc' \in {"ask", "failed"}
  BY <1>4 DEF Halve, Shrink, StartOver, Restart, End
<2>2. page' \in Nat \ {0} /\ size' \in Nat \ {0}
<3>1. CASE Shrink
<4>1. pc = "read" /\ ~Withheld /\ page' = 1 /\ \E t \in Trims : size' = t[2]
  BY <3>1 DEF Shrink, Restart
<4> QED
  BY <4>1, ReadUsable
<3>2. CASE Halve \/ StartOver
<4>1. page' \in {1, page} /\ (size' = size \/ (size > 1 /\ size' = size \div 2))
  BY <3>2 DEF Halve, StartOver, Restart, End
<4> QED
  BY <1>0, <4>1
<3> QED
  BY <1>4, <3>1, <3>2
<2> QED
  BY <1>0, <1>0a, <2>1, <2>2
<1>5. CASE Take
<2>1. UNCHANGED <<world, synced, request, size, answer, failures>> /\ page' \in {page, page + 1} /\ pc' \in {"ask", "done"}
  BY <1>5 DEF Take
<2>2. stamp' # None => request.tool \in OfAccount
  BY <1>5 DEF Take, Stamp
<2> QED
  BY <1>0, <1>0a, <2>1, <2>2
<1>6. CASE UNCHANGED vars
  BY <1>0, <1>0a, <1>6 DEF vars
<1> QED
  BY <1>1, <1>2, <1>3, <1>4, <1>5, <1>6 DEF Next

(* Every step keeps the invariant. *)
LEMMA WalkNext == WalkInv /\ [Next]_vars => WalkInv'
<1> SUFFICES ASSUME WalkInv, [Next]_vars PROVE WalkInv'
  OBVIOUS
<1> DEFINE StampKept == stamp # None => request.tool \in PlainOfAccount /\ Stored(world, stamp)
           RowsKept == pc \in {"ask", "read"} =>
                        /\ page = 1 => got = <<>> /\ stamp = None
                        /\ page # 1 => /\ request.tool \in PlainOfAccount => stamp # None
                                       /\ (page - 1) * size <= Len(All(WorldOf(world, Ours), request))
                                       /\ Read(Ours, (page - 1) * size)
           AllRead == pc = "done" => /\ request.tool \in PlainOfAccount => stamp # None
                                   /\ Stamp = stamp
                                   /\ Read(Ours, Len(All(WorldOf(world, Ours), request)))
<1>0. WalkInv <=> PageInv /\ (Walking => StampKept /\ RowsKept /\ AllRead)
  BY Zenon DEF WalkInv
<1>0a. WalkInv' <=> PageInv' /\ (Walking' => StampKept' /\ RowsKept' /\ AllRead')
  BY Zenon DEF WalkInv
<1>0b. PageInv /\ PageInv' /\ (Walking => request.tool \in Plain /\ page \in Nat \ {0} /\ size \in Nat \ {0})
  BY <1>0, PageNext DEF PageInv, Walking
<1>1. CASE Ask
<2>1. UNCHANGED <<world, synced, request, page, size, got, stamp>> /\ pc = "ask" /\ pc' = "read"
  BY <1>1 DEF Ask
<2>2. Walking' => Walking /\ StampKept' /\ RowsKept'
  BY <1>0, <2>1 DEF Walking, Read, Ours
<2>3. AllRead'
  BY <2>1
<2> QED
  BY <1>0a, <1>0b, <2>2, <2>3
<1>2. CASE Resync
<2>1. UNCHANGED <<world, request, page, size, got, stamp, answer, pc>>
  BY <1>2 DEF Resync
<2>2. Stamp' = Stamp
  BY <2>1 DEF Stamp, Has
<2>3. Walking' => Walking /\ StampKept' /\ RowsKept' /\ AllRead'
  BY <1>0, <2>1, <2>2 DEF Walking, Read, Ours
<2> QED
  BY <1>0a, <1>0b, <2>3
<1>3. CASE Retry \/ GiveUp
<2>1. UNCHANGED <<world, synced, request, page, size, got, stamp, answer>> /\ pc = "read" /\ pc' \in {"ask", "failed"}
  BY <1>3 DEF Retry, GiveUp, End
<2>2. AllRead'
  BY <2>1
<2>3. Walking' => Walking /\ StampKept' /\ RowsKept'
  BY <1>0, <2>1 DEF Walking, Read, Ours
<2> QED
  BY <1>0a, <1>0b, <2>2, <2>3
<1>4. CASE Halve \/ Shrink \/ StartOver
<2>1. UNCHANGED <<world, synced, request>> /\ stamp' = None /\ pc = "read"
  BY <1>4 DEF Halve, Shrink, StartOver
<2>2. Walking' => Walking
  BY <2>1 DEF Walking
<2>3. ASSUME Walking PROVE StampKept' /\ RowsKept' /\ AllRead'
<3>1. request.tool \in Plain /\ page \in Nat \ {0} /\ size \in Nat \ {0}
  BY <1>0b, <2>3
<3>2. Halve \/ StartOver
  BY <1>0b, <1>4, <2>1, <3>1, NeverTrimmed DEF Shrink
<3>3. \/ page' = 1 /\ got' = <<>> /\ pc' = "ask"
      \/ pc' = "failed"
  BY <3>1, <3>2 DEF Halve, StartOver, Restart, End
<3> QED
  BY <2>1, <3>1, <3>3
<2> QED
  BY <1>0a, <1>0b, <2>2, <2>3
<1>5. CASE Take
<2> DEFINE b == IF Stamp = None THEN 1 ELSE Stamp
           L == All(WorldOf(world, b), request)
<2>1. UNCHANGED <<world, synced, request, size, answer>> /\ pc = "read" /\ got' = got \o Rows /\ stamp' = Stamp
  BY <1>5 DEF Take
<2>2. Walking' => Walking
  BY <2>1 DEF Walking
<2>3. ASSUME Walking PROVE StampKept' /\ RowsKept' /\ AllRead'
<3>1. request.tool \in Plain /\ page \in Nat \ {0} /\ size \in Nat \ {0}
  BY <1>0b, <2>3
<3>2. /\ request.tool \in PlainOfAccount => Stamp # None
      /\ Stamp # None => request.tool \in PlainOfAccount /\ Stored(world, Stamp)
  BY <1>5, <2>3, TakeReads
<3>3. PICK k \in Nat : /\ Follow(WorldOf(world, b), request, got \o Rows, L, 0, k)
                       /\ k <= Len(L)
                       /\ HasMore => k = page * size
                       /\ ~HasMore => k = Len(L)
  BY <1>5, <2>3, TakeReads, Zenon
<3>4. Ours' = b
  BY <2>1 DEF Ours
<3>5. Stamp' = Stamp
  BY <2>1 DEF Stamp, Has
<3>7. CASE HasMore
<4>1. page' = page + 1 /\ pc' = "ask"
  BY <1>5, <3>7 DEF Take
<4>2. (page + 1) - 1 = page /\ page + 1 \in Nat \ {0} /\ page + 1 # 1
  BY <3>1
<4>3. (page' - 1) * size' = k
  BY <2>1, <3>3, <3>7, <4>1, <4>2
<4> QED
  BY <2>1, <3>1, <3>2, <3>3, <3>4, <4>1, <4>2, <4>3 DEF Read
<3>8. CASE ~HasMore
<4>1. page' = page /\ pc' = "done"
  BY <1>5, <3>8 DEF Take
<4>2. All(WorldOf(world, Ours), request)' = L
  BY <2>1, <3>4
<4> QED
  BY <2>1, <3>1, <3>2, <3>3, <3>4, <3>5, <3>8, <4>1, <4>2 DEF Read
<3> QED
  BY <3>7, <3>8
<2> QED
  BY <1>0a, <1>0b, <2>2, <2>3
<1>6. CASE UNCHANGED vars
<2>1. UNCHANGED <<world, synced, request, page, size, got, stamp, answer, pc>>
  BY <1>6 DEF vars
<2>2. Stamp' = Stamp
  BY <2>1 DEF Stamp, Has
<2>3. Walking' => Walking /\ StampKept' /\ RowsKept' /\ AllRead'
  BY <1>0, <2>1, <2>2 DEF Walking, Read, Ours
<2> QED
  BY <1>0a, <1>0b, <2>3
<1> QED
  BY <1>1, <1>2, <1>3, <1>4, <1>5, <1>6 DEF Next

-------------------------------------------------------------------------------
(* A walk that is done is whole. *)
(* What the client reads off a row, and what the list of a request owes it. *)
LEMMA Meaning ==
  ASSUME request.tool \in Plain
  PROVE  /\ \A row : IdOf(row) = IdOfRow(request, row)
         /\ List # "results"
<1>1. List = ListOf(request) /\ List \in {"announcements", "items", "operators"}
  BY Keys DEF ListOf, Plain
<1>2. CASE request.tool = "get_announcements"
<2>1. List = "announcements"
  BY <1>1, <1>2 DEF ListOf
<2> QED
  BY <1>2, <2>1 DEF IdOf, IdOfRow
<1>3. CASE request.tool = "get_my_inventory"
<2>1. List = "items"
  BY <1>1, <1>3 DEF ListOf
<2> QED
  BY <1>3, <2>1 DEF IdOf, IdOfRow
<1>4. CASE request.tool \in {"find_operators", "get_my_roster"}
<2>1. List = "operators"
  BY <1>1, <1>4 DEF ListOf
<2> QED
  BY <1>4, <2>1 DEF IdOf, IdOfRow
<1> QED
  BY <1>2, <1>3, <1>4 DEF Plain

(* The world the client means, once the walk is done. *)
Meant == IF Stamp = None THEN synced ELSE Stamp

(* What the client expects of the two lists whose ids it counts itself. *)
LEMMA Branches ==
  /\ List = "announcements" => Expected = {a.id : a \in {x \in Of(W.announcements) :
       Lies(x.date, DayBound(request.since), DayBound(request.until))}}
  /\ List = "items" => Expected = {i \in DOMAIN W.account.user.inventory : i # NoId /\ W.account.user.inventory[i] > 0}
<1> DEFINE routes == {{q.index : q \in {x \in ToSet(AllRoutes(Picked)) : Geometry(x) = Geometry(r)}} : r \in ToSet(AllRoutes(Picked))}
           spawns == {CleanRow(SpawnRow(s)) : s \in Picked.spawns}
           drops == {ItemOf(W, d.item).id : d \in {e \in W.drops : e.stage = Picked.pk}}
           stages == {s.id : s \in {t \in Of(W.stages) : \E d \in W.drops :
                        /\ d.stage = t.pk /\ d.item = Item.pk
                        /\ List = "ranking" => Positive(t.cost) /\ Positive(d.rate)}}
           banners == {b.id : b \in {x \in Of(W.banners) :
                         /\ Lies(x.open, request.since, request.until)
                         /\ request.query # None => x.name \in request.query}}
           announcements == {a.id : a \in {x \in Of(W.announcements) :
                               Lies(x.date, DayBound(request.since), DayBound(request.until))}}
           items == {i \in DOMAIN W.account.user.inventory : i # NoId /\ W.account.user.inventory[i] > 0}
           results == LET found == IF MatchExpression(Req) = {} THEN {} ELSE Found(W, Req)
                      IN {Locator(d) : d \in {f \in found :
                            Cardinality({e \in found : Precedes(Strength(e, Req), Strength(f, Req))}) < size}}
           roster == {op.char : op \in Matching(W, Req)}
           others == {o.id : o \in ToSet(FilterOperators(W, Req))}
<1>1. Expected =
        CASE List = "routes" -> routes
          [] List = "spawns" -> spawns
          [] List = "drops"  -> drops
          [] List \in {"stages", "ranking"} -> stages
          [] List = "banners" -> banners
          [] List = "announcements" -> announcements
          [] List = "items" -> items
          [] List = "operator" -> {request.value}
          [] List = "results" -> results
          [] Asks({"get_my_roster"}) -> roster
          [] OTHER -> others
  BY Zenon DEF Expected
<1> HIDE DEF routes, spawns, drops, stages, banners, announcements, items, results, roster, others
<1>2. CASE List \in {"announcements", "items"}
<2>1. ~Asks({"get_my_roster"})
  BY <1>2 DEF List, Asks
<2>2. /\ List = "announcements" => Expected = announcements
      /\ List = "items" => Expected = items
  BY <1>1, <2>1
<2> QED
  BY <2>2, Zenon DEF announcements, items
<1> QED
  BY <1>2

(* What the client expects of a finished walk is what the list owes. *)
LEMMA Owes ==
  ASSUME PageInv, request.tool \in Plain, request.tool \in PlainOfAccount => Stored(world, Meant)
  PROVE  Expected = Owed(W, request)
<1>1. AWorld(world) /\ ARequest(request)
  BY Known
<1>2. List = ListOf(request)
  BY Keys
<1>3. W = WorldOf(world, Meant)
  BY Zenon DEF W, WorldAt, WorldOf, Meant
<1>4. CASE request.tool = "get_announcements"
<2>1. List = "announcements"
  BY <1>2, <1>4 DEF ListOf
<2>2. Expected = {a.id : a \in {x \in Of(W.announcements) : Lies(x.date, DayBound(request.since), DayBound(request.until))}}
  BY <2>1, Branches, Zenon
<2>3. Owed(W, request) =
        {a.id : a \in {x \in W.announcements : x.server = request.server /\ Lies(x.date, DayBound(request.since), DayBound(request.until))}}
  BY <1>4 DEF Owed
<2>4. {x \in Of(W.announcements) : Lies(x.date, DayBound(request.since), DayBound(request.until))} =
        {x \in W.announcements : x.server = request.server /\ Lies(x.date, DayBound(request.since), DayBound(request.until))}
  BY DEF Of
<2> QED
  BY <2>2, <2>3, <2>4
<1>5. CASE request.tool = "get_my_inventory"
<2>1. List = "items"
  BY <1>2, <1>5 DEF ListOf
<2>2. Expected = {i \in DOMAIN W.account.user.inventory : i # NoId /\ W.account.user.inventory[i] > 0}
  BY <2>1, Branches, Zenon
<2>3. Owed(W, request) = {i \in DOMAIN W.account.user.inventory : i # NoId /\ W.account.user.inventory[i] > 0}
  BY <1>5 DEF Owed
<2> QED
  BY <2>2, <2>3
<1>6. CASE request.tool \in {"find_operators", "get_my_roster"}
<2> DEFINE c == Req
<2>1. List = "operators"
  BY <1>2, <1>6 DEF ListOf
<2>2. c = Cursor(request, page, size)
  BY DEF Req
<2> HIDE DEF c
<2>3. c.tool = request.tool /\ All(W, c) = All(W, request)
  BY <1>1, <2>2, CursorKept, SameList
<2>4. Whole(W, request, All(W, request)) /\ Whole(W, c, All(W, c))
  BY <1>1, <1>3, <1>6, <2>3, OperatorsWhole, RosterWhole DEF PlainOfAccount
<2>5. Owed(W, c) = Owed(W, request)
<3>1. \A x : IdIn(c, x) = IdIn(request, x)
  BY <1>6, <2>3 DEF IdIn
<3> DEFINE L == All(W, request)
<3>0. Whole(W, request, L) /\ Whole(W, c, L)
  BY <2>3, <2>4, Zenon
<3> HIDE DEF L
<3>2a. {IdIn(request, L[i]) : i \in DOMAIN L} = Owed(W, request)
  BY <3>0, Zenon DEF Whole
<3>2. {IdIn(c, L[i]) : i \in DOMAIN L} = Owed(W, c)
  BY <3>0, Zenon DEF Whole
<3> QED
  BY <3>1, <3>2, <3>2a
<2>6. Expected = Owed(W, c)
<3>1. CASE request.tool = "get_my_roster"
<4>1. Expected = {op.char : op \in Matching(W, c)}
  BY <2>1, <3>1 DEF Expected, Asks, c
<4>2. Owed(W, c) = {op.char : op \in Matching(W, c)}
  BY <2>3, <3>1 DEF Owed
<4> QED
  BY <4>1, <4>2
<3>2. CASE request.tool = "find_operators"
<4>1. Expected = {o.id : o \in ToSet(FilterOperators(W, c))}
  BY <2>1, <3>2 DEF Expected, Asks, c
<4>2. Owed(W, c) = {o.id : o \in ToSet(FilterOperators(W, c))}
  BY <2>3, <3>2 DEF Owed
<4> QED
  BY <4>1, <4>2
<3> QED
  BY <1>6, <3>1, <3>2
<2> QED
  BY <2>5, <2>6
<1> QED
  BY <1>4, <1>5, <1>6 DEF Plain

(* Rows that show two entries in turn are in order. *)
LEMMA Ordered ==
  ASSUME request.tool \in Plain, NEW w, NEW a, NEW b, NEW x, NEW y,
         Shows(w, request, a, x), Shows(w, request, b, y), InTurn(w, request, x, y)
  PROVE  InOrder(a, b)
<1>1. List = ListOf(request)
  BY Keys
<1>2. CASE request.tool = "get_announcements"
<2>1. List = "announcements"
  BY <1>1, <1>2 DEF ListOf
<2> QED
  BY <2>1 DEF InOrder
<1>3. CASE request.tool = "get_my_inventory"
<2>1. List = "items"
  BY <1>1, <1>3 DEF ListOf
<2>2. a.item_id = x /\ b.item_id = y /\ x < y
  BY <1>3 DEF Shows, IdOfRow, IdIn, InTurn
<2> QED
  BY <2>1, <2>2 DEF InOrder
<1>4. CASE request.tool = "find_operators"
<2>1. List = "operators"
  BY <1>1, <1>4 DEF ListOf
<2>2. RarityOf(a) = Rarity(x) /\ RarityOf(b) = Rarity(y) /\ Rarity(x) >= Rarity(y)
  BY <1>4 DEF Shows, Rank, InTurn
<2> QED
  BY <2>1, <2>2 DEF InOrder
<1>5. CASE request.tool = "get_my_roster"
<2>1. List = "operators"
  BY <1>1, <1>5 DEF ListOf
<2>2. /\ RarityOf(a) = Rarity(BuildOf(w, request.server, x.char))
      /\ RarityOf(b) = Rarity(BuildOf(w, request.server, y.char))
      /\ Rarity(BuildOf(w, request.server, x.char)) >= Rarity(BuildOf(w, request.server, y.char))
  BY <1>5 DEF Shows, Rank, InTurn
<2> QED
  BY <2>1, <2>2 DEF InOrder
<1> QED
  BY <1>2, <1>3, <1>4, <1>5 DEF Plain

(* With the invariant, a walk that is done is whole. *)
LEMMA DoneWhole ==
  ASSUME WalkInv, request.tool \in Plain
  PROVE  WalkWhole
<1> SUFFICES ASSUME pc = "done", request.from = 1 PROVE WalkWhole
  BY Zenon DEF WalkWhole
<1> DEFINE w == WorldOf(world, Meant)
           L == All(w, request)
           n == Len(L)
           ids == [i \in DOMAIN got |-> IdOf(got[i])]
<1>1. PageInv /\ AWorld(world) /\ ARequest(request) /\ Walking
  BY Known DEF WalkInv, Walking
<1>2. /\ request.tool \in PlainOfAccount => stamp # None
      /\ stamp # None => request.tool \in PlainOfAccount /\ Stored(world, stamp)
      /\ Stamp = stamp
      /\ Read(Ours, Len(All(WorldOf(world, Ours), request)))
  BY <1>1 DEF WalkInv
<1>3. request.tool \in PlainOfAccount => Stored(world, Meant)
  BY <1>2 DEF Meant
<1>4. Follow(w, request, got, L, 0, n)
<2>1. CASE request.tool \in PlainOfAccount
<3>1. Meant = Ours
  BY <1>2, <2>1 DEF Meant, Ours
<3> QED
  BY <1>2, <3>1 DEF Read
<2>2. CASE request.tool \notin PlainOfAccount
<3>1. /\ All(WorldOf(world, Ours), request) = L
      /\ \A row, x : Shows(WorldOf(world, Ours), request, row, x) <=> Shows(w, request, row, x)
  BY <1>1, <2>2, Regardless, Zenon
<3> HIDE DEF w, L
<3> QED
  BY <1>2, <3>1 DEF Read, Follow
<2> QED
  BY <2>1, <2>2
<1>5. Whole(w, request, L)
  BY <1>1, <1>3, ListsWhole
<1>6. Expected = Owed(w, request)
<2>1. W = w
  BY Zenon DEF W, WorldAt, WorldOf, Meant
<2> HIDE DEF w
<2> QED
  BY <1>1, <1>3, <2>1, Owes
<1> HIDE DEF w, L
<1>7. /\ DOMAIN L = 1..n /\ n \in Nat
      /\ \A i, j \in DOMAIN L : IdIn(request, L[i]) = IdIn(request, L[j]) => i = j
      /\ {IdIn(request, L[i]) : i \in DOMAIN L} = Owed(w, request)
      /\ \A i, j \in DOMAIN L : i < j => InTurn(w, request, L[i], L[j])
  BY <1>5, Zenon DEF Whole
<1>8. DOMAIN got = 1..n
<2>1. Sequence(got) /\ Len(got) = n
  BY <1>4 DEF Follow
<2> QED
  BY <2>1 DEF Sequence
<1>9. \A i \in 1..n : Shows(w, request, got[i], L[i])
<2>1. \A i \in 1..n : Shows(w, request, got[i], L[0 + i])
  BY <1>4 DEF Follow
<2>2. \A i \in 1..n : 0 + i = i
  BY <1>7
<2> QED
  BY <2>1, <2>2
<1>10. \A i \in 1..n : IdOf(got[i]) = IdIn(request, L[i])
<2>1. \A row, x : Shows(w, request, row, x) => IdOf(row) = IdIn(request, x)
  BY Meaning DEF Shows
<2> QED
  BY <1>9, <2>1
<1> HIDE DEF n
<1>11. IsInjective(ids)
<2>1. DOMAIN ids = 1..n /\ \A i \in 1..n : ids[i] = IdIn(request, L[i])
  BY <1>8, <1>10
<2> HIDE DEF ids
<2>2. \A i, j \in DOMAIN ids : ids[i] = ids[j] => i = j
  BY <1>7, <2>1
<2> QED
  BY <2>2, Zenon DEF IsInjective
<1>12. ToSet(ids) = Expected
<2>1. DOMAIN ids = 1..n /\ \A i \in 1..n : ids[i] = IdIn(request, L[i])
  BY <1>8, <1>10
<2> HIDE DEF ids
<2>2. ToSet(ids) = {ids[i] : i \in DOMAIN ids}
  BY Zenon DEF ToSet
<2>3. {ids[i] : i \in DOMAIN ids} = {IdIn(request, L[i]) : i \in DOMAIN L}
  BY <1>7, <2>1
<2> QED
  BY <1>6, <1>7, <2>2, <2>3
<1>13. ASSUME NEW i \in DOMAIN got, NEW j \in DOMAIN got, i < j PROVE InOrder(got[i], got[j])
<2>1. InTurn(w, request, L[i], L[j]) /\ Shows(w, request, got[i], L[i]) /\ Shows(w, request, got[j], L[j])
  BY <1>7, <1>8, <1>9, <1>13
<2> QED
  BY <2>1, Ordered
<1>14. List # "results"
  BY Meaning
<1> QED
  BY <1>11, <1>12, <1>13, <1>14, Zenon DEF WalkWhole

-------------------------------------------------------------------------------
(* An answer the client reads is honest about its page. *)
(* A whole list has as many rows as it owes. *)
LEMMA Counted ==
  ASSUME NEW w, NEW r, NEW L, Whole(w, r, L)
  PROVE  Cardinality(Owed(w, r)) = Len(L)
<1> DEFINE n == Len(L)
           f == [i \in 1..n |-> IdIn(r, L[i])]
<1>1. /\ DOMAIN L = 1..n /\ n \in Nat
      /\ \A i, j \in DOMAIN L : IdIn(r, L[i]) = IdIn(r, L[j]) => i = j
      /\ {IdIn(r, L[i]) : i \in DOMAIN L} = Owed(w, r)
  BY Zenon DEF Whole
<1> HIDE DEF n
<1>2. f \in Bijection(1..n, Owed(w, r))
  BY <1>1 DEF Bijection, Injection, Surjection, IsInjective
<1>3. Cardinality(Owed(w, r)) = n
  BY <1>1, <1>2, FS_CountingElements DEF ExistsBijection
<1> QED
  BY <1>3 DEF n

(* What the client reads, when it is no refusal and was not withheld, is the page it asked
   for of the list it means, whole and counted. *)
LEMMA PageRead ==
  ASSUME PageInv, request.tool \in Plain, pc = "read", ~Refused, ~Withheld
  PROVE  /\ Proper(answer, W, request, page, size) /\ Framed(answer) /\ Untrimmed(answer)
         /\ Says(answer, W, request, page, size)
         /\ request.tool \in PlainOfAccount => Stored(world, Meant)
         /\ Whole(W, request, All(W, request)) /\ Expected = Owed(W, request)
         /\ Rows = answer.data[ListOf(request)]
         /\ HasMore <=> page * size < Len(All(W, request))
<1>1. AWorld(world) /\ ARequest(request) /\ page \in Nat \ {0} /\ size \in Nat \ {0}
  BY Known DEF PageInv
<1>2. PICK k \in DOMAIN world.accounts :
        /\ Sound(answer, WorldOf(world, k), request, page, size)
        /\ Full(answer, WorldOf(world, k), request, page, size)
        /\ request.tool \in PlainOfAccount => Stored(world, k)
  BY Told
<1>3. /\ Proper(answer, WorldOf(world, k), request, page, size) /\ Framed(answer) /\ Untrimmed(answer)
      /\ Says(answer, WorldOf(world, k), request, page, size)
  BY <1>2 DEF Sound, Full, Refused, Withheld, Has
<1>4. /\ Stamp = IF request.tool \in PlainOfAccount THEN k ELSE None
      /\ k # None
      /\ Rows = answer.data[ListOf(request)]
      /\ HasMore <=> page * size < Len(All(WorldOf(world, k), request))
  BY <1>2, <1>3, Stamped
<1>5. request.tool \in PlainOfAccount => Stored(world, Meant)
  BY <1>2, <1>4 DEF Meant
<1>6. W = WorldOf(world, Meant)
  BY Zenon DEF W, WorldAt, WorldOf, Meant
<1>7. /\ Proper(answer, W, request, page, size) /\ Says(answer, W, request, page, size)
      /\ All(WorldOf(world, k), request) = All(W, request)
<2>1. CASE request.tool \in PlainOfAccount
<3>1. Meant = k
  BY <1>4, <2>1 DEF Meant
<3> QED
  BY <1>3, <1>6, <3>1
<2>2. CASE request.tool \notin PlainOfAccount
<3> DEFINE v == WorldOf(world, k)
<3>1. /\ All(v, request) = All(W, request)
      /\ \A row, x : Shows(v, request, row, x) <=> Shows(W, request, row, x)
  BY <1>1, <1>6, <2>2, Regardless, Zenon
<3>2. Proper(answer, v, request, page, size)
  BY <1>3
<3> HIDE DEF v
<3>3. Proper(answer, W, request, page, size)
  BY <2>2, <3>1, <3>2 DEF Proper
<3>4. request.tool # "get_my_roster"
  BY <2>2 DEF PlainOfAccount
<3>5. WhyEmpty(v, request) = WhyEmpty(W, request)
<4>1. v.feeds = W.feeds
  BY <1>1, <1>6, WorldFields DEF v
<4> QED
  BY <4>1 DEF WhyEmpty
<3>6. Says(answer, v, request, page, size)
  BY <1>3 DEF v
<3>7. Says(answer, W, request, page, size)
  BY <3>1, <3>4, <3>5, <3>6, Zenon DEF Says
<3> QED
  BY <3>1, <3>3, <3>7 DEF v
<2> QED
  BY <2>1, <2>2
<1>8. Whole(W, request, All(W, request))
  BY <1>1, <1>5, <1>6, ListsWhole
<1>9. Expected = Owed(W, request)
  BY <1>5, Owes
<1>10. HasMore <=> page * size < Len(All(W, request))
  BY <1>4, <1>7, Zenon
<1> QED
  BY <1>3, <1>4, <1>5, <1>7, <1>8, <1>9, <1>10, Zenon

(* And so it is honest. *)
LEMMA ReadHonest ==
  ASSUME PageInv, request.tool \in Plain, ~Withheld
  PROVE  HonestPage
<1> SUFFICES ASSUME Answered PROVE HonestPage
  BY Zenon DEF HonestPage
<1> DEFINE L == All(W, request)
           n == Cardinality(Expected)
           window == Max({0, Min({size, n - (page - 1) * size})})
<1>0. pc = "read" /\ ~Refused /\ page \in Nat \ {0} /\ size \in Nat \ {0}
  BY DEF Answered, PageInv
<1>1. /\ Proper(answer, W, request, page, size) /\ Framed(answer) /\ Untrimmed(answer)
      /\ Whole(W, request, L) /\ Expected = Owed(W, request)
      /\ Rows = answer.data[ListOf(request)]
      /\ HasMore <=> page * size < Len(L)
  BY <1>0, PageRead, Zenon
<1>2. Trims = {}
  BY <1>0, NeverTrimmed
<1>3. List = ListOf(request) /\ PageKey = "page" /\ List # "banners"
  BY Keys DEF ListOf, Plain
<1>4. n = Len(L) /\ Len(L) \in Nat
<2> HIDE DEF L
<2>1. Cardinality(Owed(W, request)) = Len(L)
  BY <1>1, Counted, Zenon
<2> QED
  BY <1>1, <2>1 DEF Whole
<1>5. WireSize(answer) <= Cap /\ answer.status = "ok"
  BY <1>1 DEF Framed
<1>6. <<"image_shed">> \notin answer.lims
  BY <1>1 DEF Untrimmed, Cuts
<1>7. answer.data[PageKey][1].total = n
  BY <1>1, <1>3, <1>4 DEF Proper
<1>8. HasMore <=> page * size < n
  BY <1>1, <1>4, Zenon
<1>9. Len(RowsIn(List)) = window
<2> DEFINE t == answer.data[ListOf(request)]
<2>1. RowsIn(List) = t
  BY <1>1, <1>3 DEF RowsIn, Has, Proper
<2>2. t = [i \in DOMAIN PageOf(L, page, size) |-> t[i]]
  BY <1>1 DEF Proper
<2>3. PICK T : L \in Seq(T)
  BY <1>1 DEF Whole
<2> HIDE DEF t, L
<2> DEFINE P == PageOf(L, page, size)
<2>3a. /\ DOMAIN P = 1..Len(P) /\ Len(P) \in Nat
       /\ Len(P) = Max({0, Min({size, Len(L) - (page - 1) * size})})
  BY <1>0, <2>3, PageLength
<2> HIDE DEF P
<2>3b. Len(t) = Len(P)
<3> DEFINE m == Len(P)
<3>1. t = [i \in 1..m |-> t[i]] /\ m \in Nat
  BY <2>2, <2>3a DEF P
<3> HIDE DEF m
<3> QED
  BY <3>1, Spelt, Zenon DEF m
<2>4. Len(t) = Max({0, Min({size, Len(L) - (page - 1) * size})})
  BY <2>3a, <2>3b
<2> QED
  BY <1>4, <2>1, <2>4
<1> HIDE DEF n, window
<1>10. answer.status = "partial" <=> Withheld \/ <<"image_shed">> \in answer.lims
  BY <1>5, <1>6
<1>11. Has(PageKey) =>
         /\ answer.data[PageKey][1].total = n
         /\ HasMore <=> page * size < n
         /\ Trims = {} => Len(RowsIn(List)) = window
         /\ \A t \in Trims : t[2] = Len(RowsIn(List)) /\ t[3] = window /\ t[2] \in 1..(window - 1)
  BY <1>2, <1>7, <1>8, <1>9, Zenon
<1> QED
  BY <1>2, <1>3, <1>5, <1>10, <1>11, Zenon DEF HonestPage, n, window

-------------------------------------------------------------------------------
(* What an answer the client reads discloses. *)
(* What an answer was built to say, or that it is partial. *)
LEMMA StatusOf ==
  ASSUME NEW st, NEW data, NEW prov, NEW lims
  PROVE  Build(st, data, prov, lims).status \in {st, "partial"}
<1> DEFINE e == Build(st, data, prov, lims)
<1> HIDE DEF e
<1>1. e.status = st \/ e.status = "partial"
  BY Built DEF e
<1> QED
  BY <1>1 DEF e

(* Of these tools only get_announcements calls its arguments invalid, and only a window
   that ends before it begins. *)
LEMMA OnlyInverted ==
  ASSUME NEW w, NEW r, ARequest(r), r.tool \in Plain, NEW p, NEW s,
         NEW e \in RunGuarded(w, Cursor(r, p, s)), e.status = "invalid_input"
  PROVE  r.tool = "get_announcements" /\ Inverted(r.since, r.until)
<1> DEFINE c == Cursor(r, p, s)
<1>1. \A st : Error(st).status \in {st, "partial"}
  BY StatusOf, Zenon DEF Error
<1>2. \A rows, data, prov, lims : OperatorRowsOk(rows, data, prov, lims).status \in {"ok", "partial"}
  BY StatusOf, Zenon DEF OperatorRowsOk
<1>3. c.tool = r.tool
  BY CursorKept
<1>4. e \in {Answer(w, c), Unavailable, InternalError}
  BY DEF RunGuarded
<1>5. e # Unavailable /\ e # InternalError
  BY <1>1 DEF Unavailable, InternalError
<1>6. e = Answer(w, c)
  BY <1>4, <1>5
<1>7. r.tool = "get_announcements" => c.since = r.since /\ c.until = r.until
  BY CursorFields DEF ARequest
<1> HIDE DEF c
<1>8. CASE r.tool = "get_announcements"
<2>1. e = GetAnnouncements(w, c)
  BY <1>3, <1>6, <1>8 DEF Answer, Searches
<2>2. ~Inverted(c.since, c.until) => e.status \in {"ok", "partial"}
  BY <2>1, StatusOf, Zenon DEF GetAnnouncements, ShapeAnnouncements
<2> QED
  BY <1>7, <1>8, <2>2
<1>9. CASE r.tool = "find_operators"
<2>1. e = FindOperators(w, c)
  BY <1>3, <1>6, <1>9 DEF Answer, Searches
<2>2. e = Error("not_found") \/ \E rows, data, prov, lims : e = OperatorRowsOk(rows, data, prov, lims)
  BY <2>1, ZenonT(60) DEF FindOperators
<2>3. e.status \in {"not_found", "ok", "partial"}
  BY <1>1, <1>2, <2>2
<2> QED
  BY <2>3
<1>10. \A st \in {"unsupported_server", "account_unavailable", "schema_incompatible", "unknown_faction"} :
         ShapeFailure(st).status # "invalid_input"
  BY <1>1 DEF ShapeFailure
<1>11. Gate(w, c) # "ok" => Gate(w, c) \in {"unsupported_server", "account_unavailable", "schema_incompatible"}
  BY DEF Gate
<1>12. CASE r.tool = "get_my_roster"
<2>1. e = GetMyRoster(w, c)
  BY <1>3, <1>6, <1>12 DEF Answer, Searches
<2> DEFINE all == RosterOrder(w, c, Matching(w, c))
           pg == PageOf(all, c.page, c.size)
           rows == [i \in DOMAIN pg |-> RosterRow(w, c, pg[i])]
           build(op) == BuildOf(w, c.server, op.char)
           ok == OperatorRowsOk(rows,
                   [about |-> <<Synced(w, c) ++ [room_type |-> c.room, faction_id |-> c.faction]>>,
                    operators |-> rows, page |-> <<SectionPage(c.page, c.size, Len(all))>>],
                   AccountProvenance(w, {build(op) : op \in ToSet(all)}),
                   {<<"snapshot_note">>}
                     \cup If(\E op \in ToSet(pg) : build(op) = None, {<<"unknown_operator">>})
                     \cup If(all = <<>>, {<<"no_match">>})
                     \cup If(Filtered(c) /\ ~w.domain, {<<"no_domain">>})
                     \cup If(\E i \in DOMAIN rows : "base_skills" \in DOMAIN rows[i] /\ rows[i].base_skills # <<>>,
                             {<<"slot_note">>})
                     \cup If(c.collab # None, {<<"collab_note">>}))
<2>1a. e = IF Gate(w, c) # "ok" THEN ShapeFailure(Gate(w, c))
           ELSE IF c.faction # None /\ ~KnownFaction(w, c) THEN ShapeFailure("unknown_faction") ELSE ok
  BY <2>1, Zenon DEF GetMyRoster
<2>1b. ok.status \in {"ok", "partial"}
  BY <1>2
<2> HIDE DEF ok
<2>2. \/ Gate(w, c) # "ok" /\ e = ShapeFailure(Gate(w, c))
      \/ e = ShapeFailure("unknown_faction")
      \/ e = ok
  BY <2>1a
<2>3. e # ok
  BY <2>1b
<2>4. \E st \in {"unsupported_server", "account_unavailable", "schema_incompatible", "unknown_faction"} : e = ShapeFailure(st)
  BY <1>11, <2>2, <2>3
<2> QED
  BY <1>10, <2>4
<1>13. CASE r.tool = "get_my_inventory"
<2>1. e = GetMyInventory(w, c)
  BY <1>3, <1>6, <1>13 DEF Answer, Searches
<2>2. \/ Gate(w, c) # "ok" /\ e = ShapeFailure(Gate(w, c))
      \/ \E rows, data, prov, lims : e = OperatorRowsOk(rows, data, prov, lims)
  BY <2>1, InventoryAnswer
<2> QED
  BY <1>2, <1>10, <1>11, <2>2
<1> QED
  BY <1>8, <1>9, <1>12, <1>13 DEF Plain

(* No moment lies in a window that ends before it begins. *)
LEMMA InvertedIsEmpty ==
  ASSUME NEW since \in Bound \cup {None}, NEW until \in Bound \cup {None}, Inverted(since, until),
         NEW m \in Moments
  PROVE  ~Lies(m, since, until)
<1>1. since \in Bound /\ until \in Bound /\ since # None /\ until # None
  BY DEF Inverted
<1>2. /\ since.day \in Int /\ since.tick \in 0..9 \cup {None}
      /\ until.day \in Int /\ until.tick \in 0..9 \cup {None}
  BY <1>1 DEF Bound
<1>3. m.day \in Int /\ m.tick \in 0..9 /\ m.tick # None
<2>1. m.day \in Int /\ m.tick \in 0..9
  BY DEF Moments
<2> QED
  BY <2>1, AnswersAssumption
<1> DEFINE first == IF since.tick = None THEN 0 ELSE since.tick
           last  == IF until.tick = None THEN 9 ELSE until.tick
<1>4. first \in 0..9 /\ last \in 0..9
  BY <1>2
<1>5. since.day > until.day \/ (since.day = until.day /\ first > last)
  BY <1>2 DEF Inverted
<1>6. Lies(m, since, until) => /\ 10 * m.day + m.tick >= 10 * since.day + first
                               /\ 10 * m.day + m.tick <= 10 * until.day + last
  BY <1>1, <1>3 DEF Lies
<1> HIDE DEF first, last
<1> QED
  BY <1>2, <1>3, <1>4, <1>5, <1>6

(* A page past the end of its list is empty. *)
LEMMA PastEnd ==
  ASSUME NEW S, NEW L \in Seq(S), NEW p \in Nat \ {0}, NEW s \in Nat \ {0}, ~((p - 1) * s <= Len(L))
  PROVE  DOMAIN PageOf(L, p, s) = {}
<1> DEFINE P == PageOf(L, p, s)
           q == (p - 1) * s
           n == Len(L)
           m == p * s
<1>1. q \in Nat /\ m = q + s /\ n \in Nat
<2>1. p - 1 \in Nat /\ p = (p - 1) + 1
  OBVIOUS
<2>2. \A k \in Nat : k * s \in Nat /\ (k + 1) * s = k * s + s
  OBVIOUS
<2> QED
  BY <2>1, <2>2
<1>2. ~(q <= n) /\ P = SubSeq(L, q + 1, Min({m, n}))
  BY DEF PageOf
<1> HIDE DEF P, q, n, m
<1>3. Min({m, n}) = IF m <= n THEN m ELSE n
  BY <1>1, MinOfTwo
<1>4. P = <<>>
  BY <1>1, <1>2, <1>3, SubSeqEmpty
<1> QED
  BY <1>4 DEF P

(* The rows of a page past the end are none; the others show the entries of the list. *)
LEMMA RowsShown ==
  ASSUME NEW w, NEW r, NEW L, L = All(w, r), Whole(w, r, L), NEW p \in Nat \ {0}, NEW s \in Nat \ {0},
         NEW e, Proper(e, w, r, p, s), NEW i \in DOMAIN PageOf(L, p, s)
  PROVE  Shows(w, r, e.data[ListOf(r)][i], PageOf(L, p, s)[i]) /\ \E j \in DOMAIN L : PageOf(L, p, s)[i] = L[j]
<1>1. PICK T : L \in Seq(T)
  BY DEF Whole
<1>2. (p - 1) * s <= Len(L)
  BY <1>1, PastEnd
<1>3. \E j \in DOMAIN L : PageOf(L, p, s)[i] = L[j]
  BY <1>2, PageIds
<1>4. Shows(w, r, e.data[ListOf(r)][i], PageOf(L, p, s)[i])
  BY <1>2, Zenon DEF Proper
<1> QED
  BY <1>3, <1>4

(* The build an id finds is one of the world's, if there is one. *)
LEMMA BuildFound ==
  ASSUME NEW w0, AWorld(w0), NEW n, NEW w, w = WorldOf(w0, n), NEW server, NEW id
  PROVE  /\ BuildOf(w, server, id) = None <=> Builds(w, server, id) = {}
         /\ BuildOf(w, server, id) # None => BuildOf(w, server, id) \in w0.operators
<1>1. Builds(w, server, id) \subseteq w0.operators
  BY WorldFields DEF Builds
<1>2. \A o \in w0.operators : o # None
  BY DEF AWorld
<1> QED
  BY <1>1, <1>2 DEF BuildOf

(* An empty list of announcements says why. *)
LEMMA WhyNone ==
  ASSUME PageInv, request.tool = "get_announcements", pc = "read", ~Refused, ~Withheld, Expected = {}
  PROVE  \E l \in answer.lims : CASE l[1] = "feed_not_imported" -> request.server \notin W.feeds
                                  [] l[1] = "empty_window" -> request.server \in W.feeds /\ {request.since, request.until} # {None}
                                  [] l[1] = "feed_empty"   -> request.server \in W.feeds /\ Of(W.announcements) = {}
                                  [] OTHER -> FALSE
<1> DEFINE L == All(W, request)
<1>1. Says(answer, W, request, page, size) /\ Whole(W, request, L) /\ Expected = Owed(W, request)
  BY PageRead DEF Plain
<1>2. L = <<>>
<2> HIDE DEF L
<2>1. PICK T : L \in Seq(T)
  BY <1>1 DEF Whole
<2>2. {IdIn(request, L[i]) : i \in DOMAIN L} = {}
  BY <1>1, Zenon DEF Whole
<2>3. DOMAIN L = {}
  BY <2>2
<2> QED
  BY <2>1, <2>3
<1>3. WhyEmpty(W, request) \subseteq answer.lims
  BY <1>1, <1>2 DEF Says
<1>4. CASE request.server \notin W.feeds
<2>1. <<"feed_not_imported">> \in answer.lims
  BY <1>3, <1>4 DEF WhyEmpty
<2> QED
  BY <1>4, <2>1
<1>5. CASE request.server \in W.feeds /\ (request.since # None \/ request.until # None)
<2>1. <<"empty_window">> \in answer.lims
  BY <1>3, <1>5 DEF WhyEmpty
<2>2. {request.since, request.until} # {None}
  BY <1>5
<2> QED
  BY <1>5, <2>1, <2>2
<1>6. CASE request.server \in W.feeds /\ request.since = None /\ request.until = None
<2>1. <<"feed_empty">> \in answer.lims
  BY <1>3, <1>6 DEF WhyEmpty
<2>2. Of(W.announcements) = {}
<3>1. List = "announcements"
  BY Keys DEF Plain, ListOf
<3>2. Expected = {a.id : a \in {x \in Of(W.announcements) : Lies(x.date, DayBound(request.since), DayBound(request.until))}}
  BY <3>1, Branches, Zenon
<3>3. DayBound(request.since) = None /\ DayBound(request.until) = None
  BY <1>6 DEF DayBound
<3>4. \A m : Lies(m, None, None)
  BY DEF Lies
<3> QED
  BY <3>2, <3>3, <3>4
<2> QED
  BY <1>6, <2>1, <2>2
<1> QED
  BY <1>4, <1>5, <1>6

(* A page of the roster says that an operator is unknown when and only when a row of it is
   of an operator the build does not know. *)
LEMMA UnknownTold ==
  ASSUME PageInv, request.tool = "get_my_roster", pc = "read", ~Withheld, Has("operators")
  PROVE  <<"unknown_operator">> \in answer.lims
           <=> \E i \in DOMAIN Rows : Builds(W, request.server, Rows[i].game_id) = {}
<1> DEFINE L == All(W, request)
           P == PageOf(L, page, size)
<1>1. ~Refused
<2>1. "message" \in DOMAIN answer.data => DOMAIN answer.data = {"message"}
  BY Told DEF Sound, Plain
<2> QED
  BY <2>1 DEF Refused, Has
<1>2. AWorld(world) /\ page \in Nat \ {0} /\ size \in Nat \ {0} /\ ListOf(request) = "operators"
  BY Known DEF PageInv, Plain, ListOf
<1>3. /\ Proper(answer, W, request, page, size) /\ Says(answer, W, request, page, size)
      /\ Whole(W, request, L) /\ Rows = answer.data["operators"]
  BY <1>1, <1>2, PageRead DEF Plain
<1>4. Rows = [i \in DOMAIN P |-> Rows[i]]
  BY <1>2, <1>3 DEF Proper
<1>5. <<"unknown_operator">> \in answer.lims <=> \E i \in DOMAIN P : BuildOf(W, request.server, P[i].char) = None
  BY <1>3, Zenon DEF Says
<1>6. ASSUME NEW i \in DOMAIN P PROVE Rows[i].game_id = P[i].char
<2>1. Shows(W, request, answer.data[ListOf(request)][i], P[i])
<3>1. L = All(W, request) /\ Whole(W, request, L) /\ i \in DOMAIN PageOf(L, page, size)
  BY <1>3, <1>6
<3> HIDE DEF L
<3>2. Shows(W, request, answer.data[ListOf(request)][i], PageOf(L, page, size)[i])
  BY <1>2, <1>3, <3>1, RowsShown
<3> QED
  BY <3>2
<2>2. Shows(W, request, Rows[i], P[i])
  BY <1>2, <1>3, <2>1
<2> HIDE DEF P
<2> QED
  BY <2>2 DEF Shows, IdOfRow, IdIn
<1>7. \A id : BuildOf(W, request.server, id) = None <=> Builds(W, request.server, id) = {}
<2>1. W = WorldOf(world, Meant)
  BY Zenon DEF W, WorldAt, WorldOf, Meant
<2> QED
  BY <1>2, <2>1, BuildFound
<1> HIDE DEF P
<1>8. DOMAIN Rows = DOMAIN P
  BY <1>4
<1> QED
  BY <1>5, <1>6, <1>7, <1>8

(* So these answers leave nothing unsaid. *)
LEMMA ReadDiscloses ==
  ASSUME PageInv, request.tool \in Plain, ~Withheld
  PROVE  Disclosed
<1> SUFFICES ASSUME pc = "read" PROVE Disclosed
  BY Zenon DEF Disclosed
<1>1. ~Asks(OfStage) /\ ~Asks({"get_stage_drops", "get_item_drops"}) /\ ~Asks(Searches)
  BY DEF Asks, OfStage, Searches, Plain
<1>2. List # "banners"
  BY Keys DEF ListOf, Plain
<1>3. Asks({"get_announcements"}) /\ ~Refused /\ Expected = {} =>
        \E l \in answer.lims : CASE l[1] = "feed_not_imported" -> request.server \notin W.feeds
                                 [] l[1] = "empty_window" -> request.server \in W.feeds /\ {request.since, request.until} # {None}
                                 [] l[1] = "feed_empty"   -> request.server \in W.feeds /\ Of(W.announcements) = {}
                                 [] OTHER -> FALSE
<2>1. Asks({"get_announcements"}) => request.tool = "get_announcements"
  BY DEF Asks
<2> QED
  BY <2>1, WhyNone, Zenon
<1>4. answer.status = "invalid_input" => ~\E m \in Moments : Lies(m, request.since, request.until)
<2> SUFFICES ASSUME answer.status = "invalid_input" PROVE ~\E m \in Moments : Lies(m, request.since, request.until)
  OBVIOUS
<2>1. PICK k \in DOMAIN world.accounts : answer \in RunGuarded(WorldOf(world, k), Cursor(request, page, size))
  BY DEF PageInv
<2>2. ARequest(request)
  BY Known
<2>3. request.tool = "get_announcements" /\ Inverted(request.since, request.until)
  BY <2>1, <2>2, OnlyInverted
<2>4. request.since \in Bound \cup {None} /\ request.until \in Bound \cup {None}
  BY <2>2, <2>3 DEF ARequest
<2> QED
  BY <2>3, <2>4, InvertedIsEmpty
<1>5. Asks({"get_my_roster"}) /\ Has("operators") =>
        (<<"unknown_operator">> \in answer.lims
           <=> \E i \in DOMAIN Rows : Builds(W, request.server, Rows[i].game_id) = {})
<2>1. Asks({"get_my_roster"}) => request.tool = "get_my_roster"
  BY DEF Asks
<2> QED
  BY <2>1, UnknownTold, Zenon
<1> QED
  BY <1>1, <1>2, <1>3, <1>4, <1>5, Zenon DEF Disclosed

-------------------------------------------------------------------------------
(* What the base skills of a roster row decode to. *)
Earlier(a, b) == a.slot < b.slot \/ (a.slot = b.slot /\ a.stage < b.stage)
(* What is told of a stage: its slot, when it unlocks, and whether it is in effect. *)
Tells(e, o, x, at) ==
  /\ e.slot = x.slot /\ e.unlock_elite = x.phase /\ e.unlock_level = x.level
  /\ e.in_effect <=> InEffect(o, x, at)
Replaced(o, x, at) == Reached(x, at) /\ ~InEffect(o, x, at)

(* The stages are listed slot by slot, and only they are. *)
LEMMA StagesListed ==
  ASSUME NEW S, BaseSkills(S), NEW s,
         s = [i \in 1..Cardinality(S) |-> CHOOSE x \in S : Cardinality({y \in S : Earlier(y, x)}) = i - 1]
  PROVE  \A i \in DOMAIN s : s[i] \in S
<1> DEFINE R == {z \in S \X S : Earlier(z[1], z[2])}
           n == Cardinality(S)
<1>1. IsFiniteSet(S) /\ \A x \in S : x.slot \in Int /\ x.stage \in Int
  BY DEF BaseSkills
<1>2. \A x, y \in S : <<x, y>> \in R <=> Earlier(x, y)
  OBVIOUS
<1>3. \A x, y \in S : x = y \/ x.slot # y.slot \/ x.stage # y.stage
  BY DEF BaseSkills
<1>4. \A x \in S : {y \in S : Earlier(y, x)} = Under(R, S, x)
  BY DEF Under
<1> HIDE DEF R
<1>5. Orders(R, S)
<2>1. \A x \in S : <<x, x>> \notin R
  BY <1>1, <1>2 DEF Earlier
<2>2. \A x, y, z \in S : <<x, y>> \in R /\ <<y, z>> \in R => <<x, z>> \in R
<3> SUFFICES ASSUME NEW x \in S, NEW y \in S, NEW z \in S, <<x, y>> \in R, <<y, z>> \in R PROVE <<x, z>> \in R
  OBVIOUS
<3>1. Earlier(x, y) /\ Earlier(y, z)
  BY <1>2
<3>2. Earlier(x, z)
  BY <1>1, <3>1 DEF Earlier
<3> QED
  BY <1>2, <3>2
<2>3. \A x, y \in S : x = y \/ <<x, y>> \in R \/ <<y, x>> \in R
<3> SUFFICES ASSUME NEW x \in S, NEW y \in S, x # y PROVE <<x, y>> \in R \/ <<y, x>> \in R
  OBVIOUS
<3>1. x.slot # y.slot \/ x.stage # y.stage
  BY <1>3
<3>2. Earlier(x, y) \/ Earlier(y, x)
  BY <1>1, <3>1 DEF Earlier
<3> QED
  BY <1>2, <3>2
<2> QED
  BY <2>1, <2>2, <2>3 DEF Orders
<1>6. \A i \in 1..n : \E x \in S : Cardinality(Under(R, S, x)) = i - 1
  BY <1>1, <1>5, Ranked
<1> DEFINE below(x) == Cardinality({y \in S : Earlier(y, x)})
<1>7. \A i \in 1..n : s[i] = CHOOSE x \in S : below(x) = i - 1
  OBVIOUS
<1>8. \A x \in S : below(x) = Cardinality(Under(R, S, x))
  BY <1>4
<1>9. DOMAIN s = 1..n
  OBVIOUS
<1> HIDE DEF below, n
<1>10. \A i \in 1..n : \E x \in S : below(x) = i - 1
  BY <1>6, <1>8
<1> QED
  BY <1>7, <1>9, <1>10

(* Part of a base is one too. *)
LEMMA PartOfBase ==
  ASSUME NEW base, BaseSkills(base), NEW S \in SUBSET base
  PROVE  BaseSkills(S)
  BY FS_Subset DEF BaseSkills

(* Each entry of a list with progress is of a stage of the base, cleaned or not, and of none
   that a later one replaced. *)
LEMMA EntriesTell ==
  ASSUME NEW o, BaseSkills(o.base), NEW room, NEW at \in Int \X Int
  PROVE  \A k \in DOMAIN BaseSkillEntries(o, room, at) :
           \E x \in o.base : Tells(DropNulls(BaseSkillEntries(o, room, at)[k]), o, x, at) /\ ~Replaced(o, x, at)
<1> DEFINE told == {s \in o.base : /\ room # None => s.room = room
                                   /\ at # None => ~Reached(s, at) \/ InEffect(o, s, at)}
           listed == [i \in 1..Cardinality(told) |->
                        CHOOSE x \in told : Cardinality({y \in told : Earlier(y, x)}) = i - 1]
           raw(x) == [slot |-> x.slot, room_type |-> IF room = None THEN x.room ELSE None,
                      unlock_elite |-> x.phase, unlock_level |-> x.level,
                      in_effect |-> IF at = None THEN None ELSE InEffect(o, x, at)]
           entries == BaseSkillEntries(o, room, at)
<1>1. entries = [i \in DOMAIN listed |-> raw(listed[i])]
  BY Zenon DEF BaseSkillEntries, OrderBy, Earlier
<1>2. at # None
  BY AnswersAssumption
<1>3. told \in SUBSET o.base /\ \A x \in told : ~Replaced(o, x, at)
  BY <1>2 DEF Replaced
<1>4. BaseSkills(told)
  BY <1>3, PartOfBase
<1> HIDE DEF told
<1>5. \A i \in DOMAIN listed : listed[i] \in told
  BY <1>4, StagesListed
<1>6. ASSUME NEW x \in o.base PROVE Tells(DropNulls(raw(x)), o, x, at)
<2> DEFINE r == raw(x)
           e == DropNulls(r)
<2>1. {x.slot, x.phase, x.level} \subseteq Int
  BY DEF BaseSkills
<2>2. DOMAIN r = {"slot", "room_type", "unlock_elite", "unlock_level", "in_effect"}
  OBVIOUS
<2>3. r["slot"] = x.slot /\ r["unlock_elite"] = x.phase /\ r["unlock_level"] = x.level
  OBVIOUS
<2>4. r["in_effect"] = InEffect(o, x, at)
<3>1. r["in_effect"] = IF at = None THEN None ELSE InEffect(o, x, at)
  BY Zenon
<3> QED
  BY <1>2, <3>1, Zenon
<2>5. InEffect(o, x, at) \in BOOLEAN
  BY Zenon DEF InEffect
<2>6. r["in_effect"] # None
  BY <2>4, <2>5, AnswersAssumption
<2> HIDE DEF r
<2>7. \A f \in DOMAIN r : r[f] # None => e[f] = r[f]
  BY DEF DropNulls
<2>8. e["slot"] = x.slot /\ e["unlock_elite"] = x.phase /\ e["unlock_level"] = x.level
  BY <2>1, <2>2, <2>3, <2>7, AnswersAssumption
<2>9. e["in_effect"] = r["in_effect"]
  BY <2>2, <2>6, <2>7
<2>10. e["in_effect"] <=> InEffect(o, x, at)
  BY <2>4, <2>9, Zenon
<2> QED
  BY <2>8, <2>10, Zenon DEF Tells, r
<1> HIDE DEF listed, raw
<1>7. ASSUME NEW k \in DOMAIN entries
      PROVE  \E x \in o.base : Tells(DropNulls(entries[k]), o, x, at) /\ ~Replaced(o, x, at)
<2>1. listed[k] \in told /\ entries[k] = raw(listed[k])
  BY <1>1, <1>5, <1>7
<2>2. listed[k] \in o.base /\ ~Replaced(o, listed[k], at)
  BY <1>3, <2>1
<2>3. Tells(DropNulls(entries[k]), o, listed[k], at)
  BY <1>6, <2>1, <2>2
<2> QED
  BY <2>2, <2>3
<1> QED
  BY <1>7 DEF entries

(* What a roster row shows of progress, and of base skills if it has any. *)
LEMMA RosterRowSkills ==
  ASSUME NEW w, NEW c, NEW op, op.elite \in Int, op.level \in Int, NEW row, row = CleanRow(RosterRow(w, c, op)),
         NEW build, build = BuildOf(w, c.server, op.char),
         NEW entries, entries = BaseSkillEntries(build, c.room, Progress(op))
  PROVE  /\ row.elite = op.elite /\ row.level = op.level
         /\ "base_skills" \in DOMAIN row => /\ build # None
                                            /\ row.base_skills = [k \in DOMAIN entries |-> DropNulls(entries[k])]
<1> DEFINE id == Identity(op.char, build)
           a == [elite |-> op.elite, level |-> op.level, potential |-> op.potential, skill_level |-> op.rank]
           b == [masteries |-> {s \in op.skills : s.form = op.char},
                 modules |-> {[module_id |-> m.id, module_type |-> TheOne(Typed(build, m.id), "type"), level |-> m.level] :
                                m \in BaseModules(op)},
                 equipped_module_id |-> IF op.equipped = NoId THEN None ELSE op.equipped]
           d == IF c.room = None \/ build = None THEN Nothing ELSE [base_skills |-> entries]
           raw == RosterRow(w, c, op)
<1>1. raw = ((id ++ a) ++ b) ++ d
  BY Zenon DEF RosterRow, AccountIdentity
<1>2. "elite" \notin DOMAIN id /\ "level" \notin DOMAIN id /\ "base_skills" \notin DOMAIN id
<2> DEFINE x == [game_id |-> op.char]
           y == IF build = None THEN Nothing
                ELSE [display_name |-> build.name, rarity |-> build.rarity, profession |-> build.profession]
<2>1. id = x ++ y
  BY Zenon DEF Identity
<2>2. DOMAIN x = {"game_id"} /\ DOMAIN y \subseteq {"display_name", "rarity", "profession"}
  BY NoKeys
<2> HIDE DEF id, x, y
<2>3. DOMAIN id = DOMAIN x \cup DOMAIN y
  BY <2>1 DEF ++
<2> QED
  BY <2>2, <2>3
<1>3. /\ "elite" \in DOMAIN a /\ "level" \in DOMAIN a /\ a["elite"] = op.elite /\ a["level"] = op.level
      /\ "base_skills" \notin DOMAIN a /\ "base_skills" \notin DOMAIN b
  OBVIOUS
<1>4. "base_skills" \in DOMAIN d => build # None /\ d["base_skills"] = entries
  BY NoKeys
<1> HIDE DEF id, a, b, d, raw
<1>5. \A k \in {"elite", "level"} : k \in DOMAIN raw /\ raw[k] = a[k]
<2> TAKE k \in {"elite", "level"}
<2>1. k \in DOMAIN (id ++ a) /\ (id ++ a)[k] = a[k]
  BY <1>2, <1>3, OverKey
<2>2. k \in DOMAIN ((id ++ a) ++ b) /\ ((id ++ a) ++ b)[k] = a[k]
  BY <2>1, OverKey
<2> QED
  BY <1>1, <2>2, OverKey
<1>6. "base_skills" \in DOMAIN raw => "base_skills" \in DOMAIN d /\ raw["base_skills"] = d["base_skills"]
<2>1. "base_skills" \notin DOMAIN ((id ++ a) ++ b)
  BY <1>2, <1>3, OverKey
<2> QED
  BY <1>1, <2>1, OverKey
<1>7. \A k \in {"elite", "level"} : CleanRow(raw)[k] = raw[k]
<2> TAKE k \in {"elite", "level"}
<2>1. raw[k] # None /\ k \in DOMAIN raw /\ k \notin Nested
  BY <1>3, <1>5, AnswersAssumption DEF Nested
<2> QED
  BY <2>1, Cleaned
<1>8. "base_skills" \in DOMAIN CleanRow(raw) =>
        CleanRow(raw)["base_skills"] = [k \in DOMAIN raw["base_skills"] |-> DropNulls(raw["base_skills"][k])]
  BY DEF CleanRow, DropNulls, Nested
<1>9. "base_skills" \in DOMAIN CleanRow(raw) => "base_skills" \in DOMAIN raw
  BY Cleaned
<1>10. row = CleanRow(raw)
  BY DEF raw
<1>11. row.elite = op.elite /\ row.level = op.level
  BY <1>3, <1>5, <1>7, <1>10
<1> QED
  BY <1>4, <1>6, <1>8, <1>9, <1>10, <1>11

(* Every base skill a row tells of is a stage of its operator, told as it is. *)
LEMMA SkillsTold ==
  ASSUME PageInv, request.tool = "get_my_roster", Answered, ~Withheld, NEW i \in DOMAIN Rows,
         "base_skills" \in DOMAIN Rows[i], NEW k \in DOMAIN Rows[i].base_skills
  PROVE  LET o == BuildOf(W, request.server, Rows[i].game_id)
             at == <<Rows[i].elite, Rows[i].level>>
         IN \E x \in o.base : Tells(Rows[i].base_skills[k], o, x, at) /\ ~Replaced(o, x, at)
<1> DEFINE L == All(W, request)
           P == PageOf(L, page, size)
           c == Cursor(request, page, size)
           op == P[i]
           build == BuildOf(W, request.server, op.char)
           at == <<op.elite, op.level>>
           entries == BaseSkillEntries(build, c.room, at)
<1>1. /\ pc = "read" /\ ~Refused /\ AWorld(world) /\ ARequest(request)
      /\ page \in Nat \ {0} /\ size \in Nat \ {0} /\ ListOf(request) = "operators"
  BY Known DEF Answered, PageInv, Plain, ListOf
<1>2. /\ Proper(answer, W, request, page, size) /\ Says(answer, W, request, page, size)
      /\ Whole(W, request, L) /\ Rows = answer.data["operators"] /\ Stored(world, Meant)
  BY <1>1, PageRead DEF Plain, PlainOfAccount
<1>3. Rows = [j \in DOMAIN P |-> Rows[j]]
  BY <1>1, <1>2 DEF Proper
<1>4. i \in DOMAIN P
<2> HIDE DEF P
<2> QED
  BY <1>3
<1>5. Rows[i] = CleanRow(RosterRow(W, c, op))
  BY <1>2, <1>4, Zenon DEF Says
<1>6. Rows[i].game_id = op.char /\ \E j \in DOMAIN L : op = L[j]
<2>1. Shows(W, request, answer.data[ListOf(request)][i], op) /\ \E j \in DOMAIN L : op = L[j]
<3>1. L = All(W, request) /\ Whole(W, request, L) /\ i \in DOMAIN PageOf(L, page, size)
  BY <1>2, <1>4
<3> HIDE DEF L
<3> QED
  BY <1>1, <1>2, <3>1, RowsShown
<2>2. Shows(W, request, Rows[i], op)
  BY <1>1, <1>2, <2>1
<2> HIDE DEF op, L
<2> QED
  BY <2>1, <2>2 DEF Shows, IdOfRow, IdIn
<1>7. W = WorldOf(world, Meant)
  BY Zenon DEF W, WorldAt, WorldOf, Meant
<1>8. op.elite \in Int /\ op.level \in Int
<2>1. op \in Owned(W).operators
<3> DEFINE S == Matching(W, request)
<3>1. L = RosterOrder(W, request, S)
  BY DEF All
<3>2. \A a \in S : a \in Owned(W).operators
  BY DEF Matching
<3>3. Enumerates(RosterOrder(W, request, S), S, Trainedness(W, request.server, S))
  BY <1>1, <1>2, <1>7, RosterListed
<3> HIDE DEF S, L, op
<3>4. \A j \in DOMAIN L : L[j] \in S
  BY <3>1, <3>3 DEF Enumerates
<3> QED
  BY <1>6, <3>2, <3>4
<2> HIDE DEF op
<2> QED
  BY <1>1, <1>2, <1>7, <2>1, OwnedRows
<1>9. c.server = request.server
  BY <1>1, CursorKept DEF Plain
<1>10. /\ Rows[i].elite = op.elite /\ Rows[i].level = op.level
       /\ build # None /\ Rows[i].base_skills = [j \in DOMAIN entries |-> DropNulls(entries[j])]
<2>1. build = BuildOf(W, c.server, op.char)
  BY <1>9
<2>2. entries = BaseSkillEntries(build, c.room, Progress(op))
  BY DEF Progress
<2> DEFINE row == Rows[i]
<2>3. row = CleanRow(RosterRow(W, c, op))
  BY <1>5
<2>4. "base_skills" \in DOMAIN row
  OBVIOUS
<2>5. op.elite \in Int
  BY <1>8
<2>6. op.level \in Int
  BY <1>8
<2> HIDE DEF build, entries, op, c, row
<2>7. /\ row.elite = op.elite /\ row.level = op.level
      /\ "base_skills" \in DOMAIN row => /\ build # None
                                         /\ row.base_skills = [j \in DOMAIN entries |-> DropNulls(entries[j])]
  BY <2>1, <2>2, <2>3, <2>5, <2>6, RosterRowSkills
<2> QED
  BY <2>4, <2>7, Zenon DEF row
<1>11. BaseSkills(build.base)
<2>1. build \in world.operators
<3> HIDE DEF op
<3> QED
  BY <1>1, <1>7, <1>10, BuildFound
<2> HIDE DEF build
<2> QED
  BY <1>1, <2>1 DEF AWorld
<1>12. at \in Int \X Int
  BY <1>8
<1> HIDE DEF op, build, at
<1>13. \E x \in build.base : Tells(DropNulls(entries[k]), build, x, at) /\ ~Replaced(build, x, at)
<2> HIDE DEF c
<2>1. k \in DOMAIN entries
  BY <1>10
<2> QED
  BY <1>11, <1>12, <2>1, EntriesTell
<1> HIDE DEF entries
<1>14. Rows[i].base_skills[k] = DropNulls(entries[k])
  BY <1>10
<1>15. build = BuildOf(W, request.server, Rows[i].game_id) /\ at = <<Rows[i].elite, Rows[i].level>>
  BY <1>6, <1>10 DEF build, at
<1> QED
  BY <1>13, <1>14, <1>15, Zenon

(* So what a row says of a slot is what is unlocked of it, and the last of it in effect. *)
LEMMA ReadDecodes ==
  ASSUME PageInv, request.tool \in Plain, ~Withheld
  PROVE  Decodes
<1>1. ~Asks({"get_stage"}) /\ ~Asks({"get_stage_drops", "get_item_drops"})
  BY DEF Asks, Plain
<1>2. List # "routes"
  BY Keys DEF ListOf, Plain
<1>3. ASSUME Answered, Asks({"get_my_roster"}), NEW i \in DOMAIN Rows, "base_skills" \in DOMAIN Rows[i],
             NEW k \in DOMAIN Rows[i].base_skills
      PROVE  LET e == Rows[i].base_skills[k]
                 own == {s \in BuildOf(W, request.server, Rows[i].game_id).base : s.slot = e.slot}
                 open == {s \in own : Reached(s, <<Rows[i].elite, Rows[i].level>>)}
             IN \E this \in own :
                  /\ this.phase = e.unlock_elite /\ this.level = e.unlock_level
                  /\ IF e.in_effect THEN this \in open /\ \A s \in open : s.stage <= this.stage ELSE this \notin open
<2> DEFINE e == Rows[i].base_skills[k]
           o == BuildOf(W, request.server, Rows[i].game_id)
           at == <<Rows[i].elite, Rows[i].level>>
           own == {s \in o.base : s.slot = e.slot}
           open == {s \in own : Reached(s, at)}
<2>1. request.tool = "get_my_roster"
  BY <1>3 DEF Asks
<2>2. PICK x \in o.base : Tells(e, o, x, at) /\ ~Replaced(o, x, at)
  BY <1>3, <2>1, SkillsTold
<2> HIDE DEF e, o, at
<2>3. x \in own /\ x.phase = e.unlock_elite /\ x.level = e.unlock_level
  BY <2>2 DEF Tells
<2>4. CASE InEffect(o, x, at)
<3>1. x \in open /\ \A s \in open : s.stage <= x.stage
  BY <2>2, <2>3, <2>4 DEF InEffect, Tells
<3>2. e.in_effect
  BY <2>2, <2>4, Zenon DEF Tells
<3> HIDE DEF open, own
<3> QED
  BY <2>3, <3>1, <3>2, Zenon DEF e, o, at, own, open
<2>5. CASE ~InEffect(o, x, at)
<3>1. x \notin open
  BY <2>2, <2>5 DEF Replaced
<3>2. ~e.in_effect
  BY <2>2, <2>5, Zenon DEF Tells
<3> HIDE DEF open, own
<3> QED
  BY <2>3, <3>1, <3>2, Zenon DEF e, o, at, own, open
<2> QED
  BY <2>4, <2>5
<1> QED
  BY <1>1, <1>2, <1>3, Zenon DEF Decodes

-------------------------------------------------------------------------------
(* Every step of a walk brings it nearer to its end. *)
(* How far a walk is from its end.  What may go wrong from outside: failed calls and syncs. *)
Trouble == (MaxFailures - failures) + (Len(world.accounts) - synced)
(* The walk has rows of an account that is not stored any more, or is about to take some. *)
Outdated == \/ stamp \notin {None, synced}
            \/ pc = "read" /\ request.tool \in OfAccount /\ ~Refused /\ ~Withheld /\ Stamp # synced
Detour   == IF Outdated THEN 1 ELSE 0
(* No list of the request has rows from here on. *)
LastRow(w, r) == CHOOSE m \in Nat : \A k \in DOMAIN w.accounts : Guarded(WorldOf(w, k), r, m)
RowsLeft == LET n == LastRow(world, request) - (page - 1) * size IN IF n > 0 THEN n ELSE 0
Calls  == IF pc = "ask" THEN 2 ELSE IF pc = "read" THEN 1 ELSE 0

Distances == {Trouble, Detour, size, RowsLeft, Calls} \subseteq Nat
Nearer ==
  \/ Trouble' < Trouble
  \/ Trouble' = Trouble /\ Detour' < Detour
  \/ Trouble' = Trouble /\ Detour' = Detour /\ size' < size
  \/ Trouble' = Trouble /\ Detour' = Detour /\ size' = size /\ RowsLeft' < RowsLeft
  \/ Trouble' = Trouble /\ Detour' = Detour /\ size' = size /\ RowsLeft' = RowsLeft /\ Calls' < Calls

(* The last row is one all lists end by. *)
LEMMA LastRows ==
  ASSUME PageInv
  PROVE  /\ LastRow(world, request) \in Nat
         /\ \A k \in DOMAIN world.accounts : Guarded(WorldOf(world, k), request, LastRow(world, request))
<1> DEFINE Lasts(m) == \A k \in DOMAIN world.accounts : Guarded(WorldOf(world, k), request, m)
<1>1. \E m \in Nat : Lasts(m)
  BY EndOfPages
<1>2. LastRow(world, request) = CHOOSE m \in Nat : Lasts(m)
  BY DEF LastRow
<1> HIDE DEF Lasts
<1>3. LastRow(world, request) \in Nat /\ Lasts(LastRow(world, request))
  BY <1>1, <1>2, Zenon
<1> QED
  BY <1>3 DEF Lasts

(* Every distance is a natural number. *)
LEMMA Measured == PageInv => Distances
<1> SUFFICES ASSUME PageInv PROVE Distances
  OBVIOUS
<1>1. Trouble \in Nat
<2>1. DOMAIN world.accounts = 1..Len(world.accounts) /\ Len(world.accounts) \in Nat
  BY Known DEF AWorld
<2>2. synced \in 1..Len(world.accounts) /\ failures \in 0..MaxFailures
  BY <2>1 DEF PageInv
<2> QED
  BY <2>1, <2>2, AnswersAssumption DEF Trouble
<1>2. RowsLeft \in Nat
<2> DEFINE a == LastRow(world, request)
           b == (page - 1) * size
           n == a - b
<2>1. a \in Nat /\ b \in Nat
  BY LastRows DEF PageInv
<2>2. RowsLeft = IF n > 0 THEN n ELSE 0
  BY Zenon DEF RowsLeft
<2> HIDE DEF a, b
<2> QED
  BY <2>1, <2>2
<1>3. size \in Nat
  BY DEF PageInv
<1>4. Detour \in Nat /\ Calls \in Nat
  BY DEF Detour, Calls
<1> QED
  BY <1>1, <1>2, <1>3, <1>4 DEF Distances

(* What leaves the list, the page and the size leaves the rows that are left. *)
LEMMA SameLeft == UNCHANGED <<world, request, page, size>> => RowsLeft' = RowsLeft
  BY DEF RowsLeft

(* A walk is put off its way by a sync alone. *)
LEMMA NoDetour ==
  ASSUME PageInv, Next, UNCHANGED <<world, synced, request>>
  PROVE  Detour' <= Detour
<1> SUFFICES ASSUME Outdated' PROVE Outdated
  BY DEF Detour
<1>0. AWorld(world) /\ ARequest(request) /\ page \in Nat \ {0} /\ size \in Nat \ {0} /\ synced \in DOMAIN world.accounts
  BY Known DEF PageInv
<1>1. CASE Ask
<2>1. UNCHANGED <<stamp, page, size>> /\ answer' \in RunGuarded(WorldOf(world, synced), Cursor(request, page, size))
<3>1. WorldAt(synced) = WorldOf(world, synced)
  BY Zenon DEF WorldAt, WorldOf
<3> QED
  BY <1>1, <3>1 DEF Ask
<2>2. PICK m \in Nat : Guarded(WorldOf(world, synced), request, m)
  BY <1>0, EndOfPages
<2>3. Usable(answer', WorldOf(world, synced), request, page, size, m)
  BY <1>0, <2>1, <2>2 DEF Guarded
<2>4. CASE request.tool \in OfAccount /\ ~Refused' /\ ~Withheld' /\ Stamp' # synced'
<3>1. "message" \notin DOMAIN answer'.data /\ <<"withheld">> \notin answer'.lims
  BY <2>4 DEF Refused, Withheld, Has
<3>2. Stampable(answer', WorldOf(world, synced), request)
  BY <2>3, <3>1 DEF Usable
<3>3. "about" \in DOMAIN answer'.data /\ answer'.data["about"][1].synced_at = synced
  BY <1>0, <2>4, <3>1, <3>2, AccountNamed
<3>4. Stamp' = synced
  BY <2>4, <3>3 DEF Stamp, Has
<3> QED
  BY <2>4, <3>4
<2> QED
  BY <2>1, <2>4 DEF Outdated
<1>2. CASE Retry \/ GiveUp
<2>1. UNCHANGED stamp /\ pc' # "read"
  BY <1>2 DEF Retry, GiveUp, End
<2> QED
  BY <2>1 DEF Outdated
<1>3. CASE Halve \/ Shrink \/ StartOver
<2>1. stamp' = None /\ pc' # "read"
  BY <1>3 DEF Halve, Shrink, StartOver, Restart, End
<2> QED
  BY <2>1 DEF Outdated
<1>4. CASE Take
<2>1. stamp' = Stamp /\ pc = "read" /\ pc' # "read" /\ ~Refused /\ ~Withheld
  BY <1>4 DEF Take
<2>2. Stamp \notin {None, synced}
  BY <2>1 DEF Outdated
<2>3. request.tool \in OfAccount
  BY <2>2 DEF Stamp
<2> QED
  BY <2>1, <2>2, <2>3 DEF Outdated
<1>5. CASE Resync
<2>1. synced' = synced + 1 /\ synced \in Int
<3>1. synced \in DOMAIN world.accounts /\ DOMAIN world.accounts = 1..Len(world.accounts)
  BY <1>0 DEF AWorld
<3> QED
  BY <1>5, <3>1 DEF Resync
<2> QED
  BY <2>1
<1> QED
  BY <1>1, <1>2, <1>3, <1>4, <1>5 DEF Next

(* Starting over ends a detour: what made the rows old was a sync. *)
LEMMA DetourEnds ==
  ASSUME PageInv, StartOver
  PROVE  Detour' < Detour
<1>1. pc = "read" /\ ~Refused /\ ~Withheld /\ stamp # None /\ Stamp # stamp /\ stamp' = None /\ pc' = "ask"
  BY DEF StartOver, Moved, Restart
<1>2. request.tool \in OfAccount
  BY <1>1 DEF PageInv
<1>3. Outdated
  BY <1>1, <1>2 DEF Outdated
<1>4. ~Outdated'
  BY <1>1 DEF Outdated
<1> QED
  BY <1>3, <1>4 DEF Detour

(* Taking a page that is not the last leaves fewer rows. *)
LEMMA PageTaken ==
  ASSUME PageInv, Take, HasMore
  PROVE  RowsLeft' < RowsLeft
<1> DEFINE m == LastRow(world, request)
           q == (page - 1) * size
           t == page * size
<1>1. PICK k \in DOMAIN world.accounts : answer \in RunGuarded(WorldOf(world, k), Cursor(request, page, size))
  BY DEF Take, PageInv
<1>2. m \in Nat /\ Guarded(WorldOf(world, k), request, m)
  BY LastRows
<1>3. t < m
<2>1. ~Withheld
  BY DEF Take
<2> QED
  BY <1>1, <1>2, <2>1, Goes
<1>4. UNCHANGED <<world, request, size>> /\ page' = page + 1
  BY DEF Take
<1>5. page \in Nat \ {0} /\ size \in Nat \ {0}
  BY DEF PageInv
<1>6. q \in Nat /\ t \in Nat /\ q < t /\ (page' - 1) * size' = t
<2>1. (page + 1) - 1 = page /\ page - 1 \in Nat /\ page = (page - 1) + 1
  BY <1>5
<2>2. \A n \in Nat : n * size \in Nat /\ (n + 1) * size = n * size + size
  BY <1>5
<2>3. t = q + size /\ q \in Nat
  BY <2>1, <2>2
<2>4. (page' - 1) * size' = t
  BY <1>4, <2>1
<2> HIDE DEF q, t
<2> QED
  BY <1>5, <2>3, <2>4
<1>7. RowsLeft = IF m - q > 0 THEN m - q ELSE 0
  BY Zenon DEF RowsLeft
<1>8. RowsLeft' = IF m - t > 0 THEN m - t ELSE 0
<2>1. RowsLeft' = IF LastRow(world', request') - (page' - 1) * size' > 0 THEN LastRow(world', request') - (page' - 1) * size' ELSE 0
  BY Zenon DEF RowsLeft
<2> HIDE DEF t
<2> QED
  BY <1>4, <1>6, <2>1
<1> HIDE DEF m, q, t
<1> QED
  BY <1>2, <1>3, <1>6, <1>7, <1>8

(* Every step brings the walk nearer to its end. *)
LEMMA NextNearer == PageInv /\ Next => Nearer
<1> SUFFICES ASSUME PageInv, Next PROVE Nearer
  OBVIOUS
<1>0. Distances /\ PageInv'
  BY Measured, PageNext
<1>1. page \in Nat \ {0} /\ size \in Nat \ {0} /\ {Trouble, Detour, RowsLeft, Calls} \subseteq Nat
  BY <1>0 DEF Distances, PageInv
<1>2. UNCHANGED <<world, synced, failures>> => Trouble' = Trouble
  BY DEF Trouble
<1>3. Detour' \in Nat
  BY DEF Detour
<1>4. UNCHANGED <<world, synced, request>> => Detour' = Detour \/ Detour' < Detour
  BY <1>1, <1>3, NoDetour
<1>5. CASE Ask
<2>1. UNCHANGED <<world, synced, failures, request, page, size>> /\ pc = "ask" /\ pc' = "read"
  BY <1>5 DEF Ask
<2>2. Calls' < Calls
  BY <2>1 DEF Calls
<2> QED
  BY <1>2, <1>4, <2>1, <2>2, SameLeft DEF Nearer
<1>6. CASE Resync
<2>1. UNCHANGED <<world, failures>> /\ synced' = synced + 1 /\ synced \in Int /\ Len(world.accounts) \in Int /\ failures \in Int
<3>1. world.accounts \in Seq(ToSet(world.accounts))
  BY Known DEF AWorld
<3>2. synced \in DOMAIN world.accounts /\ DOMAIN world.accounts = 1..Len(world.accounts) /\ Len(world.accounts) \in Nat
  BY <3>1 DEF PageInv
<3> QED
  BY <1>6, <3>2 DEF Resync, PageInv
<2>2. Trouble' < Trouble
  BY <2>1, AnswersAssumption DEF Trouble
<2> QED
  BY <2>2 DEF Nearer
<1>7. CASE Retry \/ GiveUp
<2>1. UNCHANGED <<world, synced, request>> /\ pc = "read"
  BY <1>7 DEF Retry, GiveUp
<2>2. CASE failures' = failures + 1
<3>1. failures \in Int /\ synced \in Int /\ Len(world.accounts) \in Int
<4>1. world.accounts \in Seq(ToSet(world.accounts))
  BY Known DEF AWorld
<4> QED
  BY <4>1 DEF PageInv
<3>2. Trouble' < Trouble
  BY <2>1, <2>2, <3>1, AnswersAssumption DEF Trouble
<3> QED
  BY <3>2 DEF Nearer
<2>3. CASE UNCHANGED <<failures, page, size>> /\ pc' = "failed"
<3>1. Calls' < Calls
  BY <2>1, <2>3 DEF Calls
<3> QED
  BY <1>2, <1>4, <2>1, <2>3, <3>1, SameLeft DEF Nearer
<2> QED
  BY <1>7, <2>2, <2>3 DEF Retry, GiveUp, End
<1>8. CASE Halve
<2>1. UNCHANGED <<world, synced, request, failures>> /\ pc = "read"
  BY <1>8 DEF Halve
<2>2. CASE size > 1
<3>1. size' = size \div 2
  BY <1>8, <2>2 DEF Halve, Restart
<3>2. size' < size
  BY <1>1, <2>2, <3>1
<3> QED
  BY <1>2, <1>4, <2>1, <3>2 DEF Nearer
<2>3. CASE ~(size > 1)
<3>1. UNCHANGED <<page, size>> /\ pc' = "failed"
  BY <1>8, <2>3 DEF Halve, End
<3>2. Calls' < Calls
  BY <2>1, <3>1 DEF Calls
<3> QED
  BY <1>2, <1>4, <2>1, <3>1, <3>2, SameLeft DEF Nearer
<2> QED
  BY <2>2, <2>3
<1>9. CASE Shrink
<2>1. UNCHANGED <<world, synced, request, failures>> /\ pc = "read" /\ ~Withheld /\ \E t \in Trims : size' = t[2]
  BY <1>9 DEF Shrink, Restart
<2>2. size' < size
  BY <1>1, <2>1, ReadUsable
<2> QED
  BY <1>2, <1>4, <2>1, <2>2 DEF Nearer
<1>10. CASE StartOver
<2>1. UNCHANGED <<world, synced, failures>>
  BY <1>10 DEF StartOver
<2> QED
  BY <1>2, <1>10, <2>1, DetourEnds DEF Nearer
<1>11. CASE Take
<2>1. UNCHANGED <<world, synced, request, failures, size>> /\ pc = "read"
  BY <1>11 DEF Take
<2>2. CASE HasMore
<3>1. RowsLeft' < RowsLeft
  BY <1>11, <2>2, PageTaken
<3> QED
  BY <1>2, <1>4, <2>1, <3>1 DEF Nearer
<2>3. CASE ~HasMore
<3>1. UNCHANGED page /\ pc' = "done"
  BY <1>11, <2>3 DEF Take
<3>2. Calls' < Calls
  BY <2>1, <3>1 DEF Calls
<3> QED
  BY <1>2, <1>4, <2>1, <3>1, <3>2, SameLeft DEF Nearer
<2> QED
  BY <2>2, <2>3
<1> QED
  BY <1>5, <1>6, <1>7, <1>8, <1>9, <1>10, <1>11 DEF Next

-------------------------------------------------------------------------------
(* What holds of every walk. *)
(* Every rows the client has read so far, over any number of calls, retries, halved
   pages and syncs in between, are the first rows of the list of the account it is
   reading from, each once and in the order of the list. *)
THEOREM WalkRead == Spec => []WalkInv
<1>1. Init => WalkInv
  BY WalkInit
<1>2. WalkInv /\ [Next]_vars => WalkInv'
  BY WalkNext
<1> QED
  BY <1>1, <1>2, PTL DEF Spec

(* A walk from the first page of announcements, operators, roster or inventory ends with
   every row the list owes, once, in order, and of one account, whatever was synced
   in between and however often a page was too large (services/paging.py, mcp/response.py). *)
THEOREM PlainWalksWhole == Spec => [](request.tool \in Plain => WalkWhole)
<1>1. WalkInv => (request.tool \in Plain => WalkWhole)
  BY DoneWhole
<1> QED
  BY <1>1, WalkRead, PTL

(* From Init on, of whatever tool, an answer is one to the page that was asked for. *)
THEOREM PageAsked == Spec => []PageInv
<1>1. Init => PageInv
  BY WalkInit DEF WalkInv
<1>2. PageInv /\ [Next]_vars => PageInv'
  BY PageNext
<1> QED
  BY <1>1, <1>2, PTL DEF Spec

(* Whatever page of these lists a client asks for, also past the end and in the middle of a
   walk begun anywhere: an answer that is not withheld fits the frame, is complete, counts
   the whole list, has as many rows as its page has room for and the list has left, and
   says there is more exactly when there is (mcp/response.py, services/paging.py). *)
THEOREM PlainPagesHonest == Spec => [](request.tool \in Plain /\ ~Withheld => HonestPage)
<1>1. PageInv => (request.tool \in Plain /\ ~Withheld => HonestPage)
  BY ReadHonest
<1> QED
  BY <1>1, PageAsked, PTL

(* Whatever page of these lists is asked for, an answer that is not withheld leaves nothing
   unsaid: an empty list of announcements says whether its feed was never imported, its
   window is empty or its feed is; only a window no moment lies in is called invalid; a
   page of the roster names its unknown operators and claims none (services/, mcp/tools/account.py). *)
THEOREM PlainDiscloses == Spec => [](request.tool \in Plain /\ ~Withheld => Disclosed)
<1>1. PageInv => (request.tool \in Plain /\ ~Withheld => Disclosed)
  BY ReadDiscloses
<1> QED
  BY <1>1, PageAsked, PTL

(* Every base skill a page of the roster tells of is a stage of that operator in the build
   the reader means; one that is told to be in effect is the last its slot has unlocked at
   the operator's progress, and one that is told not to be is not unlocked
   (services/base_skills.py base_skill_entries). *)
THEOREM PlainDecodes == Spec => [](request.tool \in Plain /\ ~Withheld => Decodes)
<1>1. PageInv => (request.tool \in Plain /\ ~Withheld => Decodes)
  BY ReadDecodes
<1> QED
  BY <1>1, PageAsked, PTL

(* Whatever is asked, of any tool and any page, an answer that is not withheld fits the frame,
   and the page size a trimmed one recommends is at least one row and smaller than the one
   asked for: a client that does as it is told gets past it (mcp/response.py shed_to_fit,
   mcp/envelope.py build_envelope). *)
THEOREM AnswersUsable ==
  Spec => [](pc = "read" /\ ~Withheld => WireSize(answer) <= Cap /\ \A t \in Trims : t[2] \in 1..(size - 1))
<1>1. PageInv => (pc = "read" /\ ~Withheld => WireSize(answer) <= Cap /\ \A t \in Trims : t[2] \in 1..(size - 1))
  BY ReadUsable
<1> QED
  BY <1>1, PageAsked, PTL

(* No walk goes round in circles, whatever tool it reads and wherever it began: with every
   step, what a client's failures and the syncs leave of their number, the rows it has of a
   replaced roster, the page size, the rows left of the list and the calls left of this page
   go down in this order, and none of them for ever.  A walk that does not end has stopped. *)
THEOREM WalkProgress == Spec => []Distances /\ [][Nearer]_vars
<1>1. PageInv => Distances
  BY Measured
<1>2. PageInv /\ [Next]_vars => [Nearer]_vars
  BY NextNearer
<1> QED
  BY <1>1, <1>2, PageAsked, PTL DEF Spec
=================================================================================
