------------------------ MODULE ImportPipeline_proofs ------------------------
(***************************************************************************)
(* Theorems about ImportPipeline, for every order of servers and every     *)
(* choice of files: where a step stands in the plan, the invariant that    *)
(* every row of the candidate is sound (RefInv), and then the combat rows, *)
(* the search index, the domains that are all there or reported, and the   *)
(* values that read back, each by an invariant of its own on top of it.    *)
(***************************************************************************)
EXTENDS Candidate_proofs

(***************************************************************************)
(* The plan of a sync, position by position                                *)
(***************************************************************************)

(* How many servers a sync is for, and the steps there are. *)
N     == Len(ServerOrder)
Pairs == (Servers \cup {"all"}) \X StepKinds

(* The servers are those of ServerOrder; "all" is none of them. *)
LEMMA ServersNamed ==
  /\ N \in Nat /\ N >= 1 /\ \A i \in 1..N : ServerOrder[i] \in Servers
  /\ Servers \subseteq {"en", "cn"} /\ "all" \notin Servers
<1>1. ServerOrder \in Seq({"en", "cn"}) /\ ServerOrder # <<>>
  BY PipelineAssumption
<1>2. Servers = {ServerOrder[i] : i \in 1..N}
  BY <1>1 DEF Servers, ToSet, N
<1> QED
  BY <1>1, <1>2 DEF N

(* c is a followed by b. *)
Joined(a, b, c) ==
  /\ Len(c) = Len(a) + Len(b)
  /\ \A i \in 1..Len(a) : c[i] = a[i]
  /\ \A i \in 1..Len(b) : c[Len(a) + i] = b[i]

(* What concatenating two sequences gives, position by position. *)
LEMMA ConcatJoined ==
  ASSUME NEW S, NEW a \in Seq(S), NEW b \in Seq(S)
  PROVE  a \o b \in Seq(S) /\ Joined(a, b, a \o b)
BY DEF Joined
(* f is the five sequences one after the other. *)
InOrder(f, a, b, c, d, e) ==
  LET k == Len(a)  l == Len(b)  m == Len(c)  n == Len(d)  o == Len(e)
  IN /\ Len(f) = k + l + m + n + o
     /\ \A i \in 1..k : f[i] = a[i]
     /\ \A i \in 1..l : f[k + i] = b[i]
     /\ \A i \in 1..m : f[k + l + i] = c[i]
     /\ \A i \in 1..n : f[k + l + m + i] = d[i]
     /\ \A i \in 1..o : f[k + l + m + n + i] = e[i]

(* What concatenating five gives. *)
LEMMA ConcatInOrder ==
  ASSUME NEW S, NEW a \in Seq(S), NEW b \in Seq(S), NEW c \in Seq(S), NEW d \in Seq(S), NEW e \in Seq(S)
  PROVE  LET f == a \o b \o c \o d \o e IN f \in Seq(S) /\ InOrder(f, a, b, c, d, e)
<1> DEFINE k == Len(a)  l == Len(b)  m == Len(c)  n == Len(d)  o == Len(e)
<1> DEFINE ab   == a \o b
           abc  == ab \o c
           abcd == abc \o d
           f    == abcd \o e
<1>0. f = a \o b \o c \o d \o e
  OBVIOUS
<1>1. ab \in Seq(S) /\ Joined(a, b, ab)
  BY ConcatJoined, Zenon
<1> HIDE DEF ab
<1>2. abc \in Seq(S) /\ Joined(ab, c, abc)
  BY <1>1, ConcatJoined, Zenon
<1> HIDE DEF abc
<1>3. abcd \in Seq(S) /\ Joined(abc, d, abcd)
  BY <1>2, ConcatJoined, Zenon
<1> HIDE DEF abcd
<1>4. f \in Seq(S) /\ Joined(abcd, e, f)
  BY <1>3, ConcatJoined, Zenon
<1> HIDE DEF f
<1>n. k \in Nat /\ l \in Nat /\ m \in Nat /\ n \in Nat /\ o \in Nat
  OBVIOUS
<1>j. Len(ab) = k + l /\ Len(abc) = Len(ab) + m /\ Len(abcd) = Len(abc) + n /\ Len(f) = Len(abcd) + o
  BY <1>1, <1>2, <1>3, <1>4 DEF Joined
<1>5. Len(ab) = k + l /\ Len(abc) = k + l + m /\ Len(abcd) = k + l + m + n /\ Len(f) = k + l + m + n + o
  BY <1>n, <1>j
<1> HIDE DEF k, l, m, n, o
<1>6. /\ \A i \in 1..(k + l) : abc[i] = ab[i]
      /\ \A i \in 1..(k + l + m) : f[i] = abc[i]
<2>1. \A i \in 1..(k + l) : abc[i] = ab[i]
  BY <1>2, <1>5 DEF Joined, m
<2>2. \A i \in 1..(k + l + m) : abcd[i] = abc[i]
  BY <1>3, <1>5 DEF Joined, n
<2>3. \A i \in 1..(k + l + m + n) : f[i] = abcd[i]
  BY <1>4, <1>5 DEF Joined, o
<2>4. \A i \in 1..(k + l + m) : i \in 1..(k + l + m + n)
  BY <1>n
<2> QED
  BY <2>1, <2>2, <2>3, <2>4, Zenon
<1>7. /\ \A i \in 1..k : f[i] = a[i]
      /\ \A i \in 1..l : f[k + i] = b[i]
<2>1. /\ \A i \in 1..k : ab[i] = a[i]
      /\ \A i \in 1..l : ab[k + i] = b[i]
  BY <1>1 DEF Joined, k, l
<2>2. /\ \A i \in 1..k : i \in 1..(k + l) /\ i \in 1..(k + l + m)
      /\ \A i \in 1..l : k + i \in 1..(k + l) /\ k + i \in 1..(k + l + m)
  BY <1>n
<2> QED
  BY <1>6, <2>1, <2>2, Zenon
<1>10. \A i \in 1..m : f[k + l + i] = c[i]
<2>1. \A i \in 1..m : abc[k + l + i] = c[i]
  BY <1>2, <1>5 DEF Joined, m
<2>2. \A i \in 1..m : k + l + i \in 1..(k + l + m)
  BY <1>n
<2> QED
  BY <1>6, <2>1, <2>2, Zenon
<1>8. \A i \in 1..n : f[k + l + m + i] = d[i]
<2>1. \A i \in 1..n : abcd[k + l + m + i] = d[i]
  BY <1>3, <1>5 DEF Joined, n
<2>2. \A i \in 1..(k + l + m + n) : f[i] = abcd[i]
  BY <1>4, <1>5 DEF Joined, o
<2>3. \A i \in 1..n : k + l + m + i \in 1..(k + l + m + n)
  BY <1>n
<2> QED
  BY <2>1, <2>2, <2>3, Zenon
<1>9. \A i \in 1..o : f[k + l + m + n + i] = e[i]
  BY <1>4, <1>5 DEF Joined, o
<1> QED
  BY <1>0, <1>4, <1>5, <1>7, <1>8, <1>9, <1>10, Zenon DEF InOrder, k, l, m, n, o

(* The first 8 * N steps: server by server, the eight steps of
   run_in_build. *)
LEMMA BuildBlock ==
  /\ ForEach(InBuild) \in Seq(Pairs) /\ Len(ForEach(InBuild)) = 8 * N
  /\ \A i \in 1..(8 * N) :
       ForEach(InBuild)[i] = <<ServerOrder[((i - 1) \div 8) + 1], InBuild[((i - 1) % 8) + 1]>>
<1>1. Len(InBuild) = 8 /\ \A i \in 1..8 : InBuild[i] \in StepKinds
  BY DEF InBuild, StepKinds, ToSet
<1>2. N \in Nat /\ \A i \in 1..N : ServerOrder[i] \in Servers
  BY ServersNamed
<1> DEFINE f == [i \in 1..(8 * N) |-> <<ServerOrder[((i - 1) \div 8) + 1], InBuild[((i - 1) % 8) + 1]>>]
<1>3. ForEach(InBuild) = f
  BY <1>1, <1>2 DEF ForEach, N
<1>4. ASSUME NEW i \in 1..(8 * N) PROVE f[i] \in Pairs
<2>1. ((i - 1) \div 8) + 1 \in 1..N /\ ((i - 1) % 8) + 1 \in 1..8
  BY <1>2
<2> QED
  BY <1>1, <1>2, <2>1 DEF Pairs
<1>5. f \in Seq(Pairs) /\ Len(f) = 8 * N
<2>1. 8 * N \in Nat
  BY <1>2
<2>2. f \in [1..(8 * N) -> Pairs]
  BY <1>4
<2> HIDE DEF f
<2> QED
  BY <2>1, <2>2
<1> QED
  BY <1>3, <1>5

(* One step for each server. *)
LEMMA OneBlock ==
  ASSUME NEW d \in StepKinds
  PROVE  /\ ForEach(<<d>>) \in Seq(Pairs) /\ Len(ForEach(<<d>>)) = N
         /\ \A i \in 1..N : ForEach(<<d>>)[i] = <<ServerOrder[i], d>>
<1>1. N \in Nat /\ \A i \in 1..N : ServerOrder[i] \in Servers
  BY ServersNamed
<1>2. \A i \in 1..(N * 1) : ((i - 1) \div 1) + 1 = i /\ ((i - 1) % 1) + 1 = 1
  BY <1>1
<1> DEFINE f == [i \in 1..N |-> <<ServerOrder[i], d>>]
<1>3. ForEach(<<d>>) = f
  BY <1>1, <1>2 DEF ForEach, N
<1>4. f \in [1..N -> Pairs]
  BY <1>1 DEF Pairs
<1> QED
  BY <1>1, <1>3, <1>4

(* The whole plan, position by position. *)
LEMMA PlanAt ==
  /\ Plan \in Seq(Pairs) /\ Len(Plan) = 10 * N + 3
  /\ \A i \in 1..(8 * N) :
       Plan[i] = <<ServerOrder[((i - 1) \div 8) + 1], InBuild[((i - 1) % 8) + 1]>>
  /\ Plan[8 * N + 1] = <<"all", "index">>
  /\ \A i \in 1..N : /\ Plan[8 * N + 1 + i] = <<ServerOrder[i], "penguin">>
                     /\ Plan[9 * N + 1 + i] = <<ServerOrder[i], "announcements">>
  /\ Plan[10 * N + 2] = <<"all", "reindex">> /\ Plan[10 * N + 3] = <<"all", "gate">>
<1> DEFINE a == ForEach(InBuild)
           b == <<<<"all", "index">>>>
           c == ForEach(<<"penguin">>)
           d == ForEach(<<"announcements">>)
           e == <<<<"all", "reindex">>, <<"all", "gate">>>>
           k == 8 * N
           l == 1
           o == 2
<1>1. {"penguin", "announcements", "index", "reindex", "gate"} \subseteq StepKinds
  BY DEF StepKinds
<1>2. /\ a \in Seq(Pairs) /\ Len(a) = k /\ N \in Nat
      /\ \A i \in 1..k : a[i] = <<ServerOrder[((i - 1) \div 8) + 1], InBuild[((i - 1) % 8) + 1]>>
  BY BuildBlock, ServersNamed
<1>3. b \in Seq(Pairs) /\ e \in Seq(Pairs) /\ Len(b) = l /\ Len(e) = o
  BY <1>1 DEF Pairs
<1>4. /\ c \in Seq(Pairs) /\ Len(c) = N /\ \A i \in 1..N : c[i] = <<ServerOrder[i], "penguin">>
      /\ d \in Seq(Pairs) /\ Len(d) = N /\ \A i \in 1..N : d[i] = <<ServerOrder[i], "announcements">>
  BY <1>1, OneBlock
<1>5. b[1] = <<"all", "index">> /\ e[1] = <<"all", "reindex">> /\ e[2] = <<"all", "gate">>
  OBVIOUS
<1>6. k \in Nat /\ l \in Nat /\ o \in Nat
  BY <1>2
<1>7. Plan = a \o b \o c \o d \o e
  BY DEF Plan
<1> HIDE DEF a, b, c, d, e
<1>i. Plan \in Seq(Pairs) /\ InOrder(Plan, a, b, c, d, e)
  BY <1>2, <1>3, <1>4, <1>7, ConcatInOrder, Zenon
<1>8. /\ Plan \in Seq(Pairs) /\ Len(Plan) = k + l + N + N + o
      /\ \A i \in 1..k : Plan[i] = a[i]
      /\ \A i \in 1..l : Plan[k + i] = b[i]
      /\ \A i \in 1..N : Plan[k + l + i] = c[i]
      /\ \A i \in 1..N : Plan[k + l + N + i] = d[i]
      /\ \A i \in 1..o : Plan[k + l + N + N + i] = e[i]
<2> HIDE DEF k, l, o
<2> QED
  BY <1>2, <1>3, <1>4, <1>i, Zenon DEF InOrder
<1>9. /\ k + l + N + N + o = 10 * N + 3 /\ k + l + N + N + 1 = 10 * N + 2
      /\ k + l + N + N + 2 = 10 * N + 3
      /\ \A i \in 1..N : k + l + N + i = 9 * N + 1 + i /\ k + l + i = 8 * N + 1 + i
      /\ 1 \in 1..l /\ 1 \in 1..o /\ 2 \in 1..o
  BY <1>2
<1>10. /\ Plan[k + 1] = b[1] /\ Plan[k + l + N + N + 1] = e[1] /\ Plan[k + l + N + N + 2] = e[2]
       /\ Plan \in Seq(Pairs) /\ Len(Plan) = k + l + N + N + o
  BY <1>8, <1>9, Zenon
<1>11. \A i \in 1..N : Plan[k + l + i] = <<ServerOrder[i], "penguin">> /\ Plan[k + l + N + i] = <<ServerOrder[i], "announcements">>
  BY <1>4, <1>8, Zenon
<1>12. \A i \in 1..k : Plan[i] = <<ServerOrder[((i - 1) \div 8) + 1], InBuild[((i - 1) % 8) + 1]>>
  BY <1>2, <1>8, Zenon
<1> HIDE DEF l, o
<1> QED
  BY <1>5, <1>9, <1>10, <1>11, <1>12, Zenon

(* The same, read from a position. *)
LEMMA PlanPlace ==
  ASSUME NEW i \in 1..Len(Plan)
  PROVE  \/ /\ i \in 1..(8 * N)
            /\ Plan[i] = <<ServerOrder[((i - 1) \div 8) + 1], InBuild[((i - 1) % 8) + 1]>>
         \/ i = 8 * N + 1 /\ Plan[i] = <<"all", "index">>
         \/ /\ i \in (8 * N + 2)..(9 * N + 1)
            /\ Plan[i][1] \in Servers /\ Plan[i][2] = "penguin"
         \/ /\ i \in (9 * N + 2)..(10 * N + 1)
            /\ Plan[i][1] \in Servers /\ Plan[i][2] = "announcements"
         \/ i = 10 * N + 2 /\ Plan[i] = <<"all", "reindex">>
         \/ i = 10 * N + 3 /\ Plan[i] = <<"all", "gate">>
<1>1. Len(Plan) = 10 * N + 3 /\ N \in Nat /\ N >= 1
  BY PlanAt, ServersNamed
<1>2. CASE i \in 1..(8 * N)
  BY <1>2, PlanAt, Zenon
<1>3. CASE i = 8 * N + 1
  BY <1>3, PlanAt, Zenon
<1>4. CASE i \in (8 * N + 2)..(9 * N + 1)
<2>1. i - (8 * N + 1) \in 1..N /\ i = 8 * N + 1 + (i - (8 * N + 1))
  BY <1>1, <1>4
<2>2. Plan[i] = <<ServerOrder[i - (8 * N + 1)], "penguin">>
  BY <2>1, PlanAt, Zenon
<2>3. ServerOrder[i - (8 * N + 1)] \in Servers
  BY <2>1, ServersNamed, Zenon
<2> QED
  BY <1>4, <2>2, <2>3
<1>5. CASE i \in (9 * N + 2)..(10 * N + 1)
<2>1. i - (9 * N + 1) \in 1..N /\ i = 9 * N + 1 + (i - (9 * N + 1))
  BY <1>1, <1>5
<2>2. Plan[i] = <<ServerOrder[i - (9 * N + 1)], "announcements">>
  BY <2>1, PlanAt, Zenon
<2>3. ServerOrder[i - (9 * N + 1)] \in Servers
  BY <2>1, ServersNamed, Zenon
<2> QED
  BY <1>5, <2>2, <2>3
<1>6. CASE i = 10 * N + 2
  BY <1>6, PlanAt, Zenon
<1>7. CASE i = 10 * N + 3
  BY <1>7, PlanAt, Zenon
<1>8. \/ i \in 1..(8 * N) \/ i = 8 * N + 1 \/ i \in (8 * N + 2)..(9 * N + 1)
      \/ i \in (9 * N + 2)..(10 * N + 1) \/ i = 10 * N + 2 \/ i = 10 * N + 3
  BY <1>1
<1> QED
  BY <1>2, <1>3, <1>4, <1>5, <1>6, <1>7, <1>8

(* The eight steps of a server inside the build. *)
InBuildKinds == {"enemies", "stages", "operators", "modules", "banners", "skins",
                 "base_skills", "ranges"}

(* InBuild lists them, the enemies first. *)
LEMMA InBuildAt ==
  /\ \A i \in 1..8 : InBuild[i] \in InBuildKinds /\ InBuild[1] = "enemies"
  /\ ToSet(InBuild) = InBuildKinds
<1>1. InBuild \in Seq(InBuildKinds) /\ Len(InBuild) = 8
  BY DEF InBuild, InBuildKinds
<1>2. /\ InBuild[1] = "enemies" /\ InBuild[2] = "stages" /\ InBuild[3] = "operators"
      /\ InBuild[4] = "modules" /\ InBuild[5] = "banners" /\ InBuild[6] = "skins"
      /\ InBuild[7] = "base_skills" /\ InBuild[8] = "ranges"
  BY DEF InBuild
<1>3. ToSet(InBuild) = {InBuild[i] : i \in 1..8}
  BY <1>1 DEF ToSet
<1> QED
  BY <1>1, <1>2, <1>3 DEF InBuildKinds

(* Where a step that is due stands in the plan. *)
LEMMA StepAt ==
  ASSUME at \in 1..(Len(Plan) + 1), NEW s, NEW d, Due(s, d)
  PROVE  /\ at \in 1..Len(Plan) /\ Plan[at] = <<s, d>> /\ outcome = "building"
         /\ d \in InBuildKinds   => at \in 1..(8 * N) /\ d = InBuild[((at - 1) % 8) + 1]
         /\ d = "index"          => at = 8 * N + 1
         /\ d = "penguin"        => at \in (8 * N + 2)..(9 * N + 1)
         /\ d = "announcements"  => at \in (9 * N + 2)..(10 * N + 1)
         /\ d = "reindex"        => at = 10 * N + 2
         /\ d = "gate"           => at = 10 * N + 3
<1>1. at \in 1..Len(Plan) /\ Plan[at] = <<s, d>> /\ outcome = "building"
  BY PlanAt, ServersNamed DEF Due
<1>2. ASSUME at \in 1..(8 * N) PROVE InBuild[((at - 1) % 8) + 1] \in InBuildKinds
  BY <1>2, InBuildAt
<1> QED
  BY <1>1, <1>2, PlanPlace DEF InBuildKinds

(* Whatever else a server imports inside the build, its enemies came
   before. *)
LEMMA EnemiesBefore ==
  ASSUME at \in 1..(Len(Plan) + 1), NEW s, NEW d, Due(s, d), d \in InBuildKinds \ {"enemies"}
  PROVE  \E j \in 1..(at - 1) : Plan[j] = <<s, "enemies">>
<1> DEFINE q == (at - 1) \div 8
           j == 8 * q + 1
<1>1. /\ at \in 1..(8 * N) /\ d = InBuild[((at - 1) % 8) + 1] /\ N \in Nat
      /\ Plan[at] = <<ServerOrder[q + 1], InBuild[((at - 1) % 8) + 1]>> /\ Plan[at] = <<s, d>>
  BY StepAt, PlanAt, ServersNamed
<1>2. (at - 1) % 8 # 0
<2>1. ASSUME NEW r, r = (at - 1) % 8, r = 0 PROVE d = "enemies"
<3>1. d = InBuild[r + 1] /\ r + 1 = 1
  BY <1>1, <2>1
<3> QED
  BY <3>1, InBuildAt
<2> QED
  BY <2>1
<1>3. j \in 1..(at - 1) /\ j \in 1..(8 * N) /\ (j - 1) \div 8 = q /\ (j - 1) % 8 = 0
<2>1. q \in Nat /\ at - 1 = 8 * q + ((at - 1) % 8) /\ (at - 1) % 8 \in 1..7
  BY <1>1, <1>2
<2>2. (8 * q) \div 8 = q /\ (8 * q) % 8 = 0
<3> HIDE DEF q
<3> QED
  BY <2>1
<2>3. j - 1 = 8 * q /\ j <= at - 1 /\ j >= 1
<3> HIDE DEF q
<3> QED
  BY <2>1, <1>1
<2>4. j \in Int /\ j <= 8 * N
<3> HIDE DEF q
<3> QED
  BY <2>1, <2>3, <1>1
<2>5. (j - 1) \div 8 = q /\ (j - 1) % 8 = 0
  BY <2>2, <2>3
<2> HIDE DEF j
<2> QED
  BY <2>3, <2>4, <2>5, <1>1
<1>4. Plan[j] = <<ServerOrder[q + 1], InBuild[1]>>
  BY <1>3, PlanAt
<1> QED
  BY <1>1, <1>3, <1>4, InBuildAt

(***************************************************************************)
(* Every row is sound                                                      *)
(***************************************************************************)

(* The inductive invariant. Every row is sound, of one of the servers. *)
AllSound == \A t \in Game : \A r \in db[t] : \E s \in Servers : Sound(t, r, s, db)
(* The search index references nothing. *)
NoLinks  == \A r \in db["entity_fts"] : r.refs = {}
(* A server whose enemies were imported has the snapshot its later steps
   cite. *)
Opened   == \A j \in 1..(at - 1) :
              Plan[j][2] = "enemies" => Holds(db, "source_snapshots", <<Plan[j][1], GameData>>)
RefInv   == TypeOK /\ AllSound /\ NoLinks /\ Opened /\ CommitPromotes

(* The tables a step on a server's files fills, and the paths of its provenance. *)
StepTables(d) == CASE d = "enemies"   -> EnemyTables
                   [] d = "stages"    -> StageTables
                   [] d = "operators" -> RosterTables
                   [] d = "modules"   -> ModuleTables
                   [] OTHER           -> Owned[d]
StepPaths(d)  == CASE d = "enemies"   -> {"enemy_handbook_table"}
                   [] d = "stages"    -> StagePaths
                   [] d = "operators" -> RosterPaths
                   [] d = "modules"   -> {"uniequip_table"}
                   [] OTHER           -> SourcePaths[d]
Kept(rows, d) == Within(rows, StepTables(d) \cup {"source_snapshots"}, StepPaths(d))

(* What such a step does to the candidate. *)
Fed(s, d) == \/ db' = db
             \/ \E rows : Insert(rows) /\ Fits(rows, s, Join(db, rows)) /\ Kept(rows, d)

(* Rows within a step's tables are what it may add. *)
LEMMA KeptBy ==
  ASSUME NEW rows, NEW d, Within(rows, StepTables(d), StepPaths(d))
  PROVE  Kept(rows, d)
BY DEF Kept, Within

(* Joining rows to a candidate loses none. *)
LEMMA Grown ==
  ASSUME NEW b, NEW rows
  PROVE  /\ Includes(Join(b, rows), rows)
         /\ \A t \in DOMAIN b : b[t] \subseteq Join(b, rows)[t]
         /\ \A t \in DOMAIN b : \A key : Holds(b, t, key) => Holds(Join(b, rows), t, key)
BY DEF Includes, Join, RowsOf, Holds

(* The tables of the game are all but the index. *)
LEMMA GameTables ==
  /\ Game \subseteq Tables /\ "entity_fts" \in Tables /\ Tables = Game \cup {"entity_fts"}
  /\ "entity_fts" \notin Game
  /\ {"enemies", "stages", "operators", "source_snapshots", "record_provenance"} \subseteq Game
BY InGame DEF Game, Tables

(* A step that fed the candidate lost none of its rows, and left the index
   alone. *)
LEMMA FedGrows ==
  ASSUME NEW s, NEW d, Fed(s, d), DOMAIN db = Tables
  PROVE  /\ \A t \in Tables : db[t] \subseteq db'[t]
         /\ \A t \in Tables : \A key : Holds(db, t, key) => Holds(db', t, key)
         /\ db'["entity_fts"] = db["entity_fts"] /\ DOMAIN db' = Tables
<1>1. CASE db' = db
  BY <1>1
<1>2. ASSUME NEW rows, Insert(rows), Fits(rows, s, Join(db, rows))
      PROVE  /\ \A t \in Tables : db[t] \subseteq db'[t]
             /\ db'["entity_fts"] = db["entity_fts"] /\ DOMAIN db' = Tables
<2>1. "entity_fts" \notin DOMAIN rows
  BY <1>2, GameTables DEF Fits
<2> QED
  BY <1>2, <2>1, GameTables DEF Insert, RowsOf
<1>3. /\ \A t \in Tables : db[t] \subseteq db'[t]
      /\ db'["entity_fts"] = db["entity_fts"] /\ DOMAIN db' = Tables
  BY <1>1, <1>2 DEF Fed
<1> QED
  BY <1>3 DEF Holds

(* A row stays sound while what is held stays held. *)
LEMMA SoundKept ==
  ASSUME NEW t, NEW r, NEW s, NEW b, NEW c, Sound(t, r, s, b),
         \A u \in Game : \A key : Holds(b, u, key) => Holds(c, u, key)
  PROVE  Sound(t, r, s, c)
<1>1. \A ref \in r.refs : Named(ref, s, c)
  BY DEF Sound, Named
<1>2. r.prov # <<>> => Proven(r.prov, s, c)
  BY GameTables DEF Sound, Proven
<1> QED
  BY <1>1, <1>2 DEF Sound

(* Feeding it rows that fit keeps every row sound. *)
LEMMA FedSound ==
  ASSUME NEW s \in Servers, NEW d, Fed(s, d), DOMAIN db = Tables, AllSound
  PROVE  AllSound'
<1>1. CASE db' = db
  BY <1>1 DEF AllSound, Sound, Named, Proven, Holds
<1>2. ASSUME NEW rows, Insert(rows), Fits(rows, s, Join(db, rows)),
             NEW t \in Game, NEW r \in db'[t]
      PROVE  \E x \in Servers : Sound(t, r, x, db')
<2> DEFINE c == Join(db, rows)
<2>1. DOMAIN rows \subseteq Game
  BY <1>2 DEF Fits
<2>2. \A u \in Tables : db'[u] = c[u]
  BY <1>2, <2>1, GameTables DEF Insert, Join, RowsOf
<2>3. \A u \in Game : \A key : /\ Holds(c, u, key) => Holds(db', u, key)
                               /\ Holds(db, u, key) => Holds(db', u, key)
  BY <2>2, Grown, GameTables DEF Holds
<2>4. CASE r \in db[t]
<3>1. PICK x \in Servers : Sound(t, r, x, db)
  BY <2>4 DEF AllSound
<3> QED
  BY <3>1, <2>3, SoundKept
<2>5. CASE r \notin db[t]
<3>1. t \in DOMAIN rows /\ r \in rows[t]
  BY <1>2, <2>5, GameTables DEF Insert, RowsOf
<3>2. Sound(t, r, s, c)
  BY <1>2, <3>1 DEF Fits
<3> QED
  BY <3>2, <2>3, SoundKept
<2> QED
  BY <2>4, <2>5
<1> QED
  BY <1>1, <1>2 DEF Fed, AllSound

(* So at every later step of a server its snapshot is there. *)
LEMMA SnapshotThere ==
  ASSUME TypeOK, Opened, NEW s \in Servers, NEW d \in InBuildKinds \ {"enemies"}, Due(s, d)
  PROVE  Holds(db, "source_snapshots", <<s, GameData>>)
<1>1. PICK j \in 1..(at - 1) : Plan[j] = <<s, "enemies">>
  BY EnemiesBefore DEF TypeOK
<1> QED
  BY <1>1 DEF Opened

(* How a step may end. *)
Moved(result) ==
  \/ result.error = "none" /\ Insert(result.rows) /\ at' = at + 1 /\ outcome' = outcome
  \/ db' = db /\ at' = at + 1 /\ outcome' = outcome
  \/ db' = db /\ at' = at /\ outcome' = "failed"

(* The three ways a step's result is handled (fail closed, optional,
   ride-along) end as Moved says. *)
LEMMA Handled ==
  ASSUME NEW s, NEW d, NEW result,
         FailClosed(result) \/ ImportOptionalDomain(s, d, result) \/ RideAlong(s, d, result)
  PROVE  Moved(result)
BY DEF Moved, FailClosed, ImportOptionalDomain, RideAlong, Done

(* A result that fits feeds the candidate. *)
LEMMA MovedFeeds ==
  ASSUME NEW s, NEW d, NEW result, Moved(result),
         result.error = "none" => /\ Fits(result.rows, s, Join(db, result.rows))
                                  /\ Kept(result.rows, d)
  PROVE  Fed(s, d)
BY DEF Moved, Fed

(* What each step does to the candidate and to the plan: enemies, *)
LEMMA EnemiesFeed ==
  ASSUME TypeOK, NEW s \in Servers, ImportOneEnemies(s)
  PROVE  /\ Fed(s, "enemies") /\ Due(s, "enemies") /\ outcome' \in {outcome, "failed"}
         /\ \/ at' = at /\ outcome' = "failed"
            \/ at' = at + 1 /\ outcome' = outcome /\ Holds(db', "source_snapshots", <<s, GameData>>)
<1>1. PICK raw : FailClosed([ImportEnemies(s, raw) EXCEPT !.rows =
                               Join(@, InsertSnapshot(s, GameData))])
  BY DEF ImportOneEnemies
<1> DEFINE made   == ImportEnemies(s, raw)
           snap   == InsertSnapshot(s, GameData)
           rows   == Join(made.rows, snap)
           result == [made EXCEPT !.rows = Join(@, snap)]
           c      == Join(db, rows)
<1>2. DOMAIN made = {"error", "rows"}
  BY DEF ImportEnemies, Torn, Refused, Ok
<1>3. result.error = made.error /\ result.rows = rows
<2> HIDE DEF made, snap
<2> QED
  BY <1>2
<1>4. ASSUME made.error = "none" PROVE Fits(rows, s, c) /\ Kept(rows, "enemies") /\ "source_snapshots" \in DOMAIN rows
                                        /\ SnapshotRow(s, GameData) \in rows["source_snapshots"]
<2>1. Includes(c, rows)
  BY Grown
<2>2. Includes(c, made.rows) /\ Includes(c, snap)
<3> HIDE DEF made, snap, c
<3> QED
  BY <2>1, JoinIncluded
<2>3. Fits(snap, s, c) /\ Holds(c, "source_snapshots", <<s, GameData>>)
  BY <2>2, SnapshotFits DEF Sources
<2>4. Fits(made.rows, s, c)
  BY <1>4, <2>2, <2>3, EnemiesFit
<2>5. Fits(rows, s, c)
<3> HIDE DEF made, snap, c
<3> QED
  BY <2>3, <2>4, JoinFits
<2>6. snap = [source_snapshots |-> {SnapshotRow(s, GameData)}]
  BY DEF InsertSnapshot
<2>7. Kept(rows, "enemies")
<3> DEFINE tables == EnemyTables \cup {"source_snapshots"}
           paths  == {"enemy_handbook_table"}
<3>1. Within(made.rows, tables, paths)
<4>1. Within(made.rows, EnemyTables, paths)
  BY <1>4, <2>2, <2>3, EnemiesFit
<4> HIDE DEF made
<4> QED
  BY <4>1 DEF Within
<3>2. Within(snap, tables, paths)
  BY <2>2, SnapshotFits DEF Sources
<3>3. StepTables("enemies") = EnemyTables /\ StepPaths("enemies") = paths
  BY DEF StepTables, StepPaths
<3> HIDE DEF made, snap
<3> QED
  BY <3>1, <3>2, <3>3, WithinJoin DEF Kept
<2> HIDE DEF made, snap, c
<2> QED
  BY <2>5, <2>6, <2>7 DEF Join, RowsOf
<1>5. Due(s, "enemies")
  BY DEF ImportOneEnemies
<1>6. FailClosed(result)
  BY <1>1
<1> HIDE DEF made, snap, rows, result, c
<1>7. Fed(s, "enemies")
  BY <1>3, <1>4, <1>6, Handled, MovedFeeds DEF c
<1>8. CASE result.error = "none"
<2>1. Insert(rows) /\ at' = at + 1 /\ outcome' = outcome
  BY <1>3, <1>6, <1>8 DEF FailClosed, Done
<2>2. SnapshotRow(s, GameData) \in db'["source_snapshots"]
  BY <1>3, <1>4, <1>8, <2>1, GameTables DEF Insert, RowsOf
<2> QED
  BY <1>5, <1>7, <2>1, <2>2 DEF Holds, SnapshotRow, Row
<1>9. CASE result.error # "none"
  BY <1>5, <1>6, <1>7, <1>9 DEF FailClosed
<1> QED
  BY <1>8, <1>9

(* stages, *)
LEMMA StagesFeed ==
  ASSUME TypeOK, Opened, NEW s \in Servers, ImportOneStages(s)
  PROVE  /\ Fed(s, "stages") /\ Due(s, "stages") /\ \E result : Moved(result)
         /\ \E raw : LET result == ImportStages(s, raw, db)
                     IN /\ FailClosed(result)
                        /\ result.error = "none" => Fits(result.rows, s, Join(db, result.rows))
<1>1. Due(s, "stages") /\ \E raw : FailClosed(ImportStages(s, raw, db))
  BY DEF ImportOneStages
<1>2. PICK raw : FailClosed(ImportStages(s, raw, db))
  BY <1>1
<1> DEFINE result == ImportStages(s, raw, db)
           c      == Join(db, result.rows)
<1>3. Includes(c, result.rows)
  BY Grown
<1>4. /\ db["enemies"] \subseteq c["enemies"] /\ db["operators"] \subseteq c["operators"]
      /\ \A key : Holds(db, "source_snapshots", key) => Holds(c, "source_snapshots", key)
<2>1. "enemies" \in DOMAIN db /\ "operators" \in DOMAIN db /\ "source_snapshots" \in DOMAIN db
  BY GameTables DEF TypeOK
<2> HIDE DEF result
<2> QED
  BY <2>1, Grown
<1>5. Holds(c, "source_snapshots", <<s, GameData>>)
<2>1. "stages" \in InBuildKinds \ {"enemies"}
  BY DEF InBuildKinds
<2> HIDE DEF c
<2> QED
  BY <1>1, <1>4, <2>1, SnapshotThere
<1>6. ASSUME result.error = "none" PROVE Fits(result.rows, s, c) /\ Kept(result.rows, "stages")
<2> HIDE DEF c
<2>1. Fits(result.rows, s, c) /\ Within(result.rows, StageTables, StagePaths)
  BY <1>3, <1>4, <1>5, <1>6, StagesFit
<2> HIDE DEF result
<2> QED
  BY <2>1, KeptBy DEF StepTables, StepPaths
<1>7. Moved(result)
  BY <1>2, Handled
<1>8. \E x : LET made == ImportStages(s, x, db)
             IN /\ FailClosed(made)
                /\ made.error = "none" => Fits(made.rows, s, Join(db, made.rows))
  BY <1>2, <1>6, Zenon
<1> HIDE DEF result
<1> QED
  BY <1>1, <1>6, <1>7, <1>8, MovedFeeds

(* operators, *)
LEMMA OperatorsFeed ==
  ASSUME TypeOK, Opened, NEW s \in Servers, ImportOneOperators(s)
  PROVE  Fed(s, "operators") /\ Due(s, "operators") /\ \E result : Moved(result)
<1>1. Due(s, "operators") /\ \E raw : FailClosed(ImportOperators(s, raw))
  BY DEF ImportOneOperators
<1>2. PICK raw : FailClosed(ImportOperators(s, raw))
  BY <1>1
<1> DEFINE result == ImportOperators(s, raw)
           c      == Join(db, result.rows)
<1>3. Includes(c, result.rows)
  BY Grown
<1>4. /\ db["enemies"] \subseteq c["enemies"] /\ db["operators"] \subseteq c["operators"]
      /\ \A key : Holds(db, "source_snapshots", key) => Holds(c, "source_snapshots", key)
<2>1. "enemies" \in DOMAIN db /\ "operators" \in DOMAIN db /\ "source_snapshots" \in DOMAIN db
  BY GameTables DEF TypeOK
<2> HIDE DEF result
<2> QED
  BY <2>1, Grown
<1>5. Holds(c, "source_snapshots", <<s, GameData>>)
<2>1. "operators" \in InBuildKinds \ {"enemies"}
  BY DEF InBuildKinds
<2> HIDE DEF c
<2> QED
  BY <1>1, <1>4, <2>1, SnapshotThere
<1>6. ASSUME result.error = "none" PROVE Fits(result.rows, s, c) /\ Kept(result.rows, "operators")
<2> HIDE DEF c
<2>1. Fits(result.rows, s, c) /\ Within(result.rows, RosterTables, RosterPaths)
  BY <1>3, <1>4, <1>5, <1>6, OperatorsFit
<2> HIDE DEF result
<2> QED
  BY <2>1, KeptBy DEF StepTables, StepPaths
<1>7. Moved(result)
  BY <1>2, Handled
<1> HIDE DEF result
<1> QED
  BY <1>1, <1>6, <1>7, MovedFeeds

(* modules, *)
LEMMA ModulesFeed ==
  ASSUME TypeOK, Opened, NEW s \in Servers, ImportOneModules(s)
  PROVE  Fed(s, "modules") /\ Due(s, "modules") /\ \E result : Moved(result)
<1>1. Due(s, "modules") /\ \E raw : FailClosed(ImportModules(s, raw, db))
  BY DEF ImportOneModules
<1>2. PICK raw : FailClosed(ImportModules(s, raw, db))
  BY <1>1
<1> DEFINE result == ImportModules(s, raw, db)
           c      == Join(db, result.rows)
<1>3. Includes(c, result.rows)
  BY Grown
<1>4. /\ db["enemies"] \subseteq c["enemies"] /\ db["operators"] \subseteq c["operators"]
      /\ \A key : Holds(db, "source_snapshots", key) => Holds(c, "source_snapshots", key)
<2>1. "enemies" \in DOMAIN db /\ "operators" \in DOMAIN db /\ "source_snapshots" \in DOMAIN db
  BY GameTables DEF TypeOK
<2> HIDE DEF result
<2> QED
  BY <2>1, Grown
<1>5. Holds(c, "source_snapshots", <<s, GameData>>)
<2>1. "modules" \in InBuildKinds \ {"enemies"}
  BY DEF InBuildKinds
<2> HIDE DEF c
<2> QED
  BY <1>1, <1>4, <2>1, SnapshotThere
<1>6. ASSUME result.error = "none" PROVE Fits(result.rows, s, c) /\ Kept(result.rows, "modules")
<2> HIDE DEF c
<2>1. Fits(result.rows, s, c) /\ Within(result.rows, ModuleTables, {"uniequip_table"})
  BY <1>3, <1>4, <1>5, <1>6, ModulesFit
<2> HIDE DEF result
<2> QED
  BY <2>1, KeptBy DEF StepTables, StepPaths
<1>7. Moved(result)
  BY <1>2, Handled
<1> HIDE DEF result
<1> QED
  BY <1>1, <1>6, <1>7, MovedFeeds

(* The optional domains, each with its importer, *)
Optional == {"banners", "skins", "base_skills", "ranges"}

OptionalResult(s, d, raw, b) ==
  CASE d = "banners"     -> ImportBanners(s, raw, b)
    [] d = "skins"       -> ImportSkins(s, raw, b)
    [] d = "base_skills" -> ImportBaseSkills(s, raw, b)
    [] d = "ranges"      -> ImportRanges(s, raw)

(* and what their steps do, *)
LEMMA OptionalFeed ==
  ASSUME TypeOK, Opened, NEW s \in Servers, NEW d \in Optional, ImportOneOptional(s, d)
  PROVE  /\ Fed(s, d) /\ Due(s, d) /\ \E result : Moved(result)
         /\ \E raw \in Files(d) :
              LET result == OptionalResult(s, d, raw, db)
              IN /\ Read(s, d, raw) /\ ImportOptionalDomain(s, d, result)
                 /\ result.error = "none" => Fits(result.rows, s, Join(db, result.rows))
<1> DEFINE Made(raw) == OptionalResult(s, d, raw, db)
<1>1. Due(s, d) /\ \E raw \in Files(d) : Read(s, d, raw) /\ ImportOptionalDomain(s, d, Made(raw))
  BY Zenon DEF ImportOneOptional, OptionalResult
<1>2. PICK raw \in Files(d) : Read(s, d, raw) /\ ImportOptionalDomain(s, d, Made(raw))
<2> HIDE DEF Made
<2> QED
  BY <1>1
<1> DEFINE result == Made(raw)
           c      == Join(db, result.rows)
<1>3. Includes(c, result.rows)
  BY Grown, Zenon
<1>4. /\ db["operators"] \subseteq c["operators"]
      /\ \A key : Holds(db, "source_snapshots", key) => Holds(c, "source_snapshots", key)
<2>1. "operators" \in DOMAIN db /\ "source_snapshots" \in DOMAIN db
  BY GameTables DEF TypeOK
<2> HIDE DEF result
<2> QED
  BY <2>1, Grown
<1>5. Holds(c, "source_snapshots", <<s, GameData>>)
<2>1. d \in InBuildKinds \ {"enemies"}
  BY DEF InBuildKinds, Optional
<2> HIDE DEF c
<2> QED
  BY <1>1, <1>4, <2>1, SnapshotThere
<1>6. ASSUME result.error = "none"
      PROVE  Fits(result.rows, s, c) /\ Within(result.rows, Owned[d], SourcePaths[d])
<2> HIDE DEF c
<2>1. CASE d = "banners"
<3>1. result = ImportBanners(s, raw, db)
  BY <2>1 DEF OptionalResult
<3>2. Fits(result.rows, s, c) /\ Within(result.rows, Owned["banners"], SourcePaths["banners"])
<4> HIDE DEF result
<4> QED
  BY <3>1, <1>3, <1>4, <1>5, <1>6, BannersFit
<3> HIDE DEF result
<3> QED
  BY <2>1, <3>2
<2>2. CASE d = "skins"
<3>1. result = ImportSkins(s, raw, db)
  BY <2>2 DEF OptionalResult
<3>2. Fits(result.rows, s, c) /\ Within(result.rows, Owned["skins"], SourcePaths["skins"])
<4> HIDE DEF result
<4> QED
  BY <3>1, <1>3, <1>4, <1>5, <1>6, SkinsFit
<3> HIDE DEF result
<3> QED
  BY <2>2, <3>2
<2>3. CASE d = "base_skills"
<3>1. result = ImportBaseSkills(s, raw, db)
  BY <2>3 DEF OptionalResult
<3>2. Fits(result.rows, s, c) /\ Within(result.rows, Owned["base_skills"], SourcePaths["base_skills"])
<4> HIDE DEF result
<4> QED
  BY <3>1, <1>3, <1>4, <1>5, <1>6, BaseSkillsFit
<3> HIDE DEF result
<3> QED
  BY <2>3, <3>2
<2>4. CASE d = "ranges"
<3>1. result = ImportRanges(s, raw)
  BY <2>4 DEF OptionalResult
<3>2. Fits(result.rows, s, c) /\ Within(result.rows, Owned["ranges"], SourcePaths["ranges"])
<4> HIDE DEF result
<4> QED
  BY <3>1, <1>3, <1>5, <1>6, RangesFit
<3> HIDE DEF result
<3> QED
  BY <2>4, <3>2
<2> QED
  BY <2>1, <2>2, <2>3, <2>4 DEF Optional
<1>9. \E x \in Files(d) :
        LET made == OptionalResult(s, d, x, db)
        IN /\ Read(s, d, x) /\ ImportOptionalDomain(s, d, made)
           /\ made.error = "none" => Fits(made.rows, s, Join(db, made.rows))
  BY <1>2, <1>6, Zenon
<1> HIDE DEF Made
<1>7. Moved(result)
  BY <1>2, Handled
<1> HIDE DEF result
<1>8. StepTables(d) = Owned[d] /\ StepPaths(d) = SourcePaths[d]
  BY DEF Optional, StepTables, StepPaths
<1> QED
  BY <1>1, <1>6, <1>7, <1>8, <1>9, KeptBy, MovedFeeds

(* penguin, *)
LEMMA PenguinFeed ==
  ASSUME TypeOK, NEW s \in Servers, RideAlongPenguin(s)
  PROVE  /\ Fed(s, "penguin") /\ Due(s, "penguin") /\ at' = at + 1 /\ outcome' = outcome
         /\ \E raw \in Files("penguin") :
              LET result == ImportPenguinDrops(s, raw, db)
              IN /\ Read(s, "penguin", raw) /\ RideAlong(s, "penguin", result)
                 /\ result.error = "none" => Fits(result.rows, s, Join(db, result.rows))
<1>1. /\ Due(s, "penguin")
      /\ \E raw \in Files("penguin") :
           Read(s, "penguin", raw) /\ RideAlong(s, "penguin", ImportPenguinDrops(s, raw, db))
  BY DEF RideAlongPenguin
<1>2. PICK raw \in Files("penguin") :
        Read(s, "penguin", raw) /\ RideAlong(s, "penguin", ImportPenguinDrops(s, raw, db))
  BY <1>1
<1> DEFINE result == ImportPenguinDrops(s, raw, db)
           c      == Join(db, result.rows)
<1>3. Includes(c, result.rows)
  BY Grown
<1>4. db["stages"] \subseteq c["stages"]
<2>1. "stages" \in DOMAIN db
  BY GameTables DEF TypeOK
<2> HIDE DEF result
<2> QED
  BY <2>1, Grown
<1>5. ASSUME result.error = "none" PROVE Fits(result.rows, s, c) /\ Kept(result.rows, "penguin")
<2> HIDE DEF c
<2> QED
  BY <1>3, <1>4, <1>5, PenguinFit DEF Kept, StepTables, StepPaths
<1>6. Moved(result) /\ at' = at + 1 /\ outcome' = outcome
  BY <1>2, Handled DEF RideAlong, Done
<1>7. \E x \in Files("penguin") :
        LET made == ImportPenguinDrops(s, x, db)
        IN /\ Read(s, "penguin", x) /\ RideAlong(s, "penguin", made)
           /\ made.error = "none" => Fits(made.rows, s, Join(db, made.rows))
  BY <1>2, <1>5, Zenon
<1> HIDE DEF result
<1> QED
  BY <1>1, <1>5, <1>6, <1>7, MovedFeeds

(* announcements. *)
LEMMA AnnouncementsFeed ==
  ASSUME TypeOK, NEW s \in Servers, RideAlongAnnouncements(s)
  PROVE  /\ Fed(s, "announcements") /\ Due(s, "announcements") /\ at' = at + 1 /\ outcome' = outcome
         /\ \/ db' = db /\ reported' = reported /\ given' = given
            \/ \E raw \in Files("announcements") :
                 LET result == ImportAnnouncements(s, raw)
                 IN /\ Read(s, "announcements", raw) /\ RideAlong(s, "announcements", result)
                    /\ result.error = "none" => Fits(result.rows, s, Join(db, result.rows))
<1>1. Due(s, "announcements")
  BY DEF RideAlongAnnouncements
<1>2. CASE s \notin Feeds
  BY <1>1, <1>2 DEF RideAlongAnnouncements, Done, Fed
<1>3. CASE s \in Feeds
<2>1. PICK raw \in Files("announcements") :
        Read(s, "announcements", raw) /\ RideAlong(s, "announcements", ImportAnnouncements(s, raw))
  BY <1>3 DEF RideAlongAnnouncements
<2> DEFINE result == ImportAnnouncements(s, raw)
           c      == Join(db, result.rows)
<2>2. Includes(c, result.rows)
  BY Grown
<2>3. ASSUME result.error = "none" PROVE Fits(result.rows, s, c) /\ Kept(result.rows, "announcements")
<3> HIDE DEF c
<3> QED
  BY <2>2, <2>3, AnnouncementsFit DEF Kept, StepTables, StepPaths
<2>4. Moved(result) /\ at' = at + 1 /\ outcome' = outcome
  BY <2>1, Handled DEF RideAlong, Done
<2>5. \E x \in Files("announcements") :
        LET made == ImportAnnouncements(s, x)
        IN /\ Read(s, "announcements", x) /\ RideAlong(s, "announcements", made)
           /\ made.error = "none" => Fits(made.rows, s, Join(db, made.rows))
  BY <2>1, <2>3, Zenon
<2> HIDE DEF result
<2> QED
  BY <1>1, <2>3, <2>4, <2>5, MovedFeeds
<1> QED
  BY <1>2, <1>3

(* The index rows carry no reference. *)
LEMMA IndexLinks == \A r \in BuildSearchIndex(db) : r.refs = {}
BY DEF BuildSearchIndex, Row

(* A step of a server, or one of the three that belong to all. *)
ServerStep(s) ==
  \/ ImportOneEnemies(s) \/ ImportOneStages(s) \/ ImportOneOperators(s) \/ ImportOneModules(s)
  \/ \E d \in Optional : ImportOneOptional(s, d)
  \/ RideAlongPenguin(s) \/ RideAlongAnnouncements(s)

(* A step of a server feeds the candidate and moves on, or, inside the
   build, fails the sync. *)
LEMMA ServerStepFeeds ==
  ASSUME TypeOK, Opened, NEW s \in Servers, ServerStep(s)
  PROVE  \E d \in InBuildKinds \cup {"penguin", "announcements"} :
           /\ Due(s, d) /\ Fed(s, d)
           /\ \/ d \in InBuildKinds /\ at' = at /\ outcome' = "failed"
              \/ /\ at' = at + 1 /\ outcome' = outcome
                 /\ d = "enemies" => Holds(db', "source_snapshots", <<s, GameData>>)
<1>1. CASE ImportOneEnemies(s)
  BY <1>1, EnemiesFeed DEF InBuildKinds
<1>2. CASE ImportOneStages(s)
  BY <1>2, StagesFeed DEF InBuildKinds, Moved
<1>3. CASE ImportOneOperators(s)
  BY <1>3, OperatorsFeed DEF InBuildKinds, Moved
<1>4. CASE ImportOneModules(s)
  BY <1>4, ModulesFeed DEF InBuildKinds, Moved
<1>5. ASSUME NEW d \in Optional, ImportOneOptional(s, d)
      PROVE  /\ Fed(s, d) /\ d \in InBuildKinds /\ d # "enemies" /\ Due(s, d)
             /\ \/ at' = at /\ outcome' = "failed"
                \/ at' = at + 1 /\ outcome' = outcome
  BY <1>5, OptionalFeed DEF InBuildKinds, Moved, Optional
<1>6. CASE RideAlongPenguin(s)
  BY <1>6, PenguinFeed DEF InBuildKinds
<1>7. CASE RideAlongAnnouncements(s)
  BY <1>7, AnnouncementsFeed DEF InBuildKinds
<1> QED
  BY <1>1, <1>2, <1>3, <1>4, <1>5, <1>6, <1>7 DEF ServerStep

(* Every step is a server's, or one of the three that belong to all, or the
   end. *)
LEMMA NextSplit ==
  ASSUME Next
  PROVE  (\E s \in Servers : ServerStep(s)) \/ IndexBuild \/ Reindex \/ Gate \/ Ended
BY DEF Next, ServerStep, Optional

(* Reading a file keeps the types of what was read. *)
LEMMA Reading ==
  ASSUME TypeOK, NEW s \in Servers, NEW d \in StepKinds, NEW raw, Read(s, d, raw)
  PROVE  DOMAIN given' \subseteq Servers \X StepKinds /\ irregular' \in 0..MaxIrregular
BY PipelineAssumption DEF Read, TypeOK

(* Handling a result keeps the type of the reports. *)
LEMMA Telling ==
  ASSUME TypeOK, NEW s \in Servers, NEW d \in StepKinds, NEW result,
         FailClosed(result) \/ ImportOptionalDomain(s, d, result) \/ RideAlong(s, d, result)
  PROVE  reported' \subseteq (Servers \cup {"all"}) \X StepKinds
BY DEF FailClosed, ImportOptionalDomain, RideAlong, TypeOK

(* The steps of a server and the three that belong to all are all there
   are. *)
LEMMA KindsKnown == InBuildKinds \cup {"index", "penguin", "announcements", "reindex", "gate"} = StepKinds
BY InBuildAt DEF StepKinds

(* So a server's step keeps those types. *)
LEMMA ServerStepTypes ==
  ASSUME TypeOK, NEW s \in Servers, ServerStep(s)
  PROVE  /\ DOMAIN given' \subseteq Servers \X StepKinds /\ irregular' \in 0..MaxIrregular
         /\ reported' \subseteq (Servers \cup {"all"}) \X StepKinds
<1>1. CASE ImportOneEnemies(s)
<2>1. "enemies" \in StepKinds
  BY KindsKnown DEF InBuildKinds
<2> QED
  BY <1>1, <2>1, Reading, Telling DEF ImportOneEnemies
<1>2. CASE ImportOneStages(s)
<2>1. "stages" \in StepKinds
  BY KindsKnown DEF InBuildKinds
<2> QED
  BY <1>2, <2>1, Reading, Telling DEF ImportOneStages
<1>3. CASE ImportOneOperators(s)
<2>1. "operators" \in StepKinds
  BY KindsKnown DEF InBuildKinds
<2> QED
  BY <1>3, <2>1, Reading, Telling DEF ImportOneOperators
<1>4. CASE ImportOneModules(s)
<2>1. "modules" \in StepKinds
  BY KindsKnown DEF InBuildKinds
<2> QED
  BY <1>4, <2>1, Reading, Telling DEF ImportOneModules
<1>5. ASSUME NEW d \in Optional, ImportOneOptional(s, d)
      PROVE  /\ DOMAIN given' \subseteq Servers \X StepKinds /\ irregular' \in 0..MaxIrregular
             /\ reported' \subseteq (Servers \cup {"all"}) \X StepKinds
<2>1. d \in StepKinds
  BY KindsKnown DEF InBuildKinds, Optional
<2>2. \E raw, result : Read(s, d, raw) /\ ImportOptionalDomain(s, d, result)
  BY <1>5, Zenon DEF ImportOneOptional
<2> QED
  BY <2>1, <2>2, Reading, Telling
<1>6. CASE RideAlongPenguin(s)
<2>1. "penguin" \in StepKinds
  BY KindsKnown
<2> QED
  BY <1>6, <2>1, Reading, Telling DEF RideAlongPenguin
<1>7. CASE RideAlongAnnouncements(s)
<2>1. "announcements" \in StepKinds
  BY KindsKnown
<2>2. CASE s \in Feeds
  BY <1>7, <2>1, <2>2, Reading, Telling DEF RideAlongAnnouncements
<2>3. CASE s \notin Feeds
  BY <1>7, <2>3 DEF RideAlongAnnouncements, TypeOK
<2> QED
  BY <2>2, <2>3
<1> QED
  BY <1>1, <1>2, <1>3, <1>4, <1>5, <1>6, <1>7 DEF ServerStep

(* A set of six is finite. *)
LEMMA FiniteSix == \A a, b, c, d, e, f : IsFiniteSet({a, b, c, d, e, f})
<1> TAKE a, b, c, d, e, f
<1>1. IsFiniteSet({a}) /\ IsFiniteSet({d})
  BY FS_Singleton
<1>2. IsFiniteSet({a} \cup {b}) /\ IsFiniteSet({d} \cup {e})
  BY <1>1, FS_AddElement
<1>3. IsFiniteSet({a} \cup {b} \cup {c}) /\ IsFiniteSet({d} \cup {e} \cup {f})
  BY <1>2, FS_AddElement
<1>4. IsFiniteSet(({a} \cup {b} \cup {c}) \cup ({d} \cup {e} \cup {f}))
  BY <1>3, FS_Union
<1>5. ({a} \cup {b} \cup {c}) \cup ({d} \cup {e} \cup {f}) = {a, b, c, d, e, f}
  OBVIOUS
<1> QED
  BY <1>4, <1>5

(* At the gate all it checks holds: no foreign key dangles, no orphans,
   rows of each kind, the golden stage. *)
LEMMA GateOpens ==
  ASSUME TypeOK, AllSound, NoLinks, Opened, Due("all", "gate")
  PROVE  ForeignKeyCheck /\ ~Orphans /\ RowCounts /\ Golden
<1>1. ForeignKeyCheck
<2>1. ASSUME NEW t \in Game, NEW r \in db[t], NEW ref \in r.refs PROVE Names(ref)
  BY <2>1 DEF AllSound, Sound, Named, Holds, Names
<2> QED
  BY <2>1, GameTables DEF ForeignKeyCheck, NoLinks
<1>2. ~Orphans
<2>1. ASSUME NEW t \in Game, NEW r \in db[t], NEW ref \in r.refs PROVE ref[2][1] = r.key[1]
  BY <2>1 DEF AllSound, Sound, Named
<2>2. RegionChecked \subseteq Game
  BY InGame DEF RegionChecked
<2> QED
  BY <2>1, <2>2 DEF Orphans
<1>3. Golden
<2>1. \A t \in Game : \A r \in db[t] : r.key[1] \in {"en", "cn"}
  BY ServersNamed DEF AllSound, Sound
<2> QED
  BY <2>1, InGame DEF Golden
<1>4. RowCounts
<2> DEFINE snaps == db["source_snapshots"]
           all   == {SnapshotRow("en", GameData), SnapshotRow("en", Penguin), SnapshotRow("en", Announcers),
                     SnapshotRow("cn", GameData), SnapshotRow("cn", Penguin), SnapshotRow("cn", Announcers)}
<2>1. snaps \subseteq all
<3>1. ASSUME NEW r \in snaps
      PROVE  \E s \in {"en", "cn"} : \E x \in Sources : r = SnapshotRow(s, x)
  BY GameTables, ServersNamed DEF AllSound, Sound
<3> QED
  BY <3>1 DEF Sources
<2>2. IsFiniteSet(all)
  BY FiniteSix
<2>3. IsFiniteSet(snaps)
  BY <2>1, <2>2, FS_Subset
<2>4. snaps # {}
<3>1. at = 10 * N + 3 /\ N \in Nat /\ N >= 1
  BY StepAt, ServersNamed, KindsKnown DEF TypeOK
<3>2. 1 \in 1..(at - 1) /\ 1 \in 1..(8 * N)
  BY <3>1
<3>3. Plan[1] = <<ServerOrder[((1 - 1) \div 8) + 1], InBuild[((1 - 1) % 8) + 1]>>
  BY <3>2, PlanAt
<3>4. ((1 - 1) % 8) + 1 = 1
  OBVIOUS
<3>5. Plan[1][2] = "enemies"
  BY <3>3, <3>4, InBuildAt
<3> QED
  BY <3>2, <3>5 DEF Opened, Holds
<2> HIDE DEF snaps
<2>5. Cardinality(snaps) \in Nat /\ Cardinality(snaps) # 0
  BY <2>3, <2>4, FS_CardinalityType, FS_EmptySet
<2> QED
  BY <2>5 DEF RowCounts, snaps
<1> QED
  BY <1>1, <1>2, <1>3, <1>4

(* Opened holds after a step that keeps the snapshots, and adds that of the
   enemies it imported. *)
LEMMA OpenedKept ==
  ASSUME TypeOK, Opened,
         \A key : Holds(db, "source_snapshots", key) => Holds(db', "source_snapshots", key),
         \/ at' = at
         \/ /\ at' = at + 1
            /\ Plan[at][2] = "enemies" => Holds(db', "source_snapshots", <<Plan[at][1], GameData>>)
  PROVE  Opened'
<1> DEFINE Held(j) == Plan[j][2] = "enemies" => Holds(db', "source_snapshots", <<Plan[j][1], GameData>>)
<1>1. \A j \in 1..(at - 1) : Held(j)
  BY DEF Opened
<1>2. at \in Nat
  BY PlanAt, ServersNamed DEF TypeOK
<1>3. \A j \in 1..(at' - 1) : Held(j)
<2>1. CASE at' = at
  BY <1>1, <2>1
<2>2. CASE at' # at
<3>1. Held(at) /\ at' - 1 = at
  BY <1>2, <2>2
<3>2. \A j \in 1..at : j \in 1..(at - 1) \/ j = at
  BY <1>2
<3> HIDE DEF Held
<3> QED
  BY <1>1, <3>1, <3>2
<2> QED
  BY <2>1, <2>2
<1> QED
  BY <1>3 DEF Opened

(* The invariant holds at first, *)
LEMMA RefInit ==
  ASSUME Init
  PROVE  RefInv
<1>1. TypeOK
  BY PlanAt, ServersNamed, PipelineAssumption DEF Init, TypeOK
<1>2. AllSound /\ NoLinks /\ Opened /\ CommitPromotes
  BY GameTables DEF Init, AllSound, NoLinks, Opened, CommitPromotes
<1> QED
  BY <1>1, <1>2 DEF RefInv

(* after a step of a server, *)
LEMMA RefServerStep ==
  ASSUME RefInv, NEW s \in Servers, ServerStep(s)
  PROVE  RefInv'
<1>1. TypeOK /\ AllSound /\ NoLinks /\ Opened
  BY DEF RefInv
<1>2. PICK d \in InBuildKinds \cup {"penguin", "announcements"} :
        /\ Due(s, d) /\ Fed(s, d)
        /\ \/ d \in InBuildKinds /\ at' = at /\ outcome' = "failed"
           \/ /\ at' = at + 1 /\ outcome' = outcome
              /\ d = "enemies" => Holds(db', "source_snapshots", <<s, GameData>>)
  BY <1>1, ServerStepFeeds
<1>3. Fed(s, d)
  BY <1>2
<1>4. /\ \A t \in Tables : \A key : Holds(db, t, key) => Holds(db', t, key)
      /\ db'["entity_fts"] = db["entity_fts"] /\ DOMAIN db' = Tables
  BY <1>1, <1>3, FedGrows DEF TypeOK
<1>5. at \in 1..Len(Plan) /\ Plan[at] = <<s, d>> /\ outcome = "building"
  BY <1>1, <1>2, StepAt DEF TypeOK
<1>6. at \in Nat /\ Len(Plan) \in Nat
  BY <1>5, PlanAt, ServersNamed
<1>7. TypeOK'
  BY <1>1, <1>2, <1>4, <1>5, <1>6, ServerStepTypes DEF TypeOK
<1>8. AllSound'
  BY <1>1, <1>3, FedSound DEF TypeOK
<1>9. NoLinks'
  BY <1>1, <1>4 DEF NoLinks
<1>10. Opened'
  BY <1>1, <1>2, <1>4, <1>5, OpenedKept, GameTables
<1>11. CommitPromotes'
  BY <1>2, <1>5, <1>6, InBuildAt DEF CommitPromotes
<1> QED
  BY <1>7, <1>8, <1>9, <1>10, <1>11 DEF RefInv

(* Only the search index changes. *)
Reindexed == DOMAIN db' = Tables /\ \A t \in Game : db'[t] = db[t]

(* Then every row is as sound as before. *)
LEMMA IndexOnly ==
  ASSUME DOMAIN db = Tables, AllSound, Reindexed
  PROVE  /\ AllSound'
         /\ \A key : Holds(db, "source_snapshots", key) => Holds(db', "source_snapshots", key)
<1>1. \A t \in Game : \A key : Holds(db, t, key) => Holds(db', t, key)
  BY DEF Holds, Reindexed
<1>2. ASSUME NEW t \in Game, NEW r \in db'[t] PROVE \E s \in Servers : Sound(t, r, s, db')
<2>1. PICK s \in Servers : Sound(t, r, s, db)
  BY <1>2 DEF AllSound, Reindexed
<2> QED
  BY <2>1, <1>1, SoundKept
<1> QED
  BY <1>1, <1>2, GameTables DEF AllSound

(* The first index adds to what was there, *)
LEMMA IndexBuilt ==
  ASSUME DOMAIN db = Tables, IndexBuild
  PROVE  Reindexed /\ db'["entity_fts"] = db["entity_fts"] \cup BuildSearchIndex(db)
<1> DEFINE rows == [entity_fts |-> BuildSearchIndex(db)]
<1>1. db' = [t \in Tables |-> db[t] \cup RowsOf(rows, t)]
  BY DEF IndexBuild, Insert
<1>2. /\ \A t \in Tables : t # "entity_fts" => RowsOf(rows, t) = {}
      /\ RowsOf(rows, "entity_fts") = BuildSearchIndex(db)
  BY DEF RowsOf
<1> HIDE DEF rows
<1> QED
  BY <1>1, <1>2, GameTables DEF Reindexed

(* the second replaces it, or fails and says so. *)
LEMMA IndexRebuilt ==
  ASSUME DOMAIN db = Tables, Reindex
  PROVE  /\ Reindexed
         /\ \/ db'["entity_fts"] = BuildSearchIndex(db) /\ reported' = reported
            \/ /\ db'["entity_fts"] = db["entity_fts"]
               /\ reported' = reported \cup {<<"all", "reindex">>}
BY GameTables DEF Reindex, Reindexed

(* Hence the invariant holds after the first index, *)
LEMMA RefIndexBuild ==
  ASSUME RefInv, IndexBuild
  PROVE  RefInv'
<1>1. TypeOK /\ AllSound /\ NoLinks /\ Opened
  BY DEF RefInv
<1>2. /\ Due("all", "index") /\ at' = at + 1
      /\ outcome' = outcome /\ reported' = reported /\ given' = given /\ irregular' = irregular
  BY DEF IndexBuild, Done
<1>3. Reindexed /\ db'["entity_fts"] = db["entity_fts"] \cup BuildSearchIndex(db)
  BY <1>1, IndexBuilt DEF TypeOK
<1>4. /\ DOMAIN db' = Tables /\ AllSound'
      /\ \A key : Holds(db, "source_snapshots", key) => Holds(db', "source_snapshots", key)
  BY <1>1, <1>3, IndexOnly DEF TypeOK, Reindexed
<1>5. at \in 1..Len(Plan) /\ Plan[at] = <<"all", "index">> /\ outcome = "building" /\ Len(Plan) \in Nat
  BY <1>1, <1>2, StepAt, PlanAt, ServersNamed DEF TypeOK
<1>6. TypeOK' /\ CommitPromotes'
  BY <1>1, <1>2, <1>4, <1>5 DEF TypeOK, CommitPromotes
<1>7. NoLinks'
  BY <1>1, <1>3, IndexLinks DEF NoLinks
<1>8. Opened'
  BY <1>1, <1>2, <1>4, <1>5, OpenedKept
<1> QED
  BY <1>4, <1>6, <1>7, <1>8 DEF RefInv

(* after the second, *)
LEMMA RefReindex ==
  ASSUME RefInv, Reindex
  PROVE  RefInv'
<1>1. TypeOK /\ AllSound /\ NoLinks /\ Opened
  BY DEF RefInv
<1>2. /\ Due("all", "reindex") /\ at' = at + 1
      /\ outcome' = outcome /\ given' = given /\ irregular' = irregular
      /\ reported' = reported \/ reported' = reported \cup {<<"all", "reindex">>}
  BY DEF Reindex, Done
<1>3. Reindexed /\ db'["entity_fts"] \in {db["entity_fts"], BuildSearchIndex(db)}
  BY <1>1, IndexRebuilt DEF TypeOK
<1>4. /\ DOMAIN db' = Tables /\ AllSound'
      /\ \A key : Holds(db, "source_snapshots", key) => Holds(db', "source_snapshots", key)
  BY <1>1, <1>3, IndexOnly DEF TypeOK, Reindexed
<1>5. at \in 1..Len(Plan) /\ Plan[at] = <<"all", "reindex">> /\ outcome = "building" /\ Len(Plan) \in Nat
  BY <1>1, <1>2, StepAt, PlanAt, ServersNamed DEF TypeOK
<1>6. TypeOK' /\ CommitPromotes'
  BY <1>1, <1>2, <1>4, <1>5, KindsKnown DEF TypeOK, CommitPromotes
<1>7. NoLinks'
  BY <1>1, <1>3, IndexLinks DEF NoLinks
<1>8. Opened'
  BY <1>1, <1>2, <1>4, <1>5, OpenedKept
<1> QED
  BY <1>4, <1>6, <1>7, <1>8 DEF RefInv

(* after the gate, which finds nothing to refuse, *)
LEMMA RefGate ==
  ASSUME RefInv, Gate
  PROVE  RefInv'
<1>1. TypeOK /\ AllSound /\ NoLinks /\ Opened
  BY DEF RefInv
<1>2. /\ Due("all", "gate") /\ at' = at + 1 /\ db' = db
      /\ reported' = reported /\ given' = given /\ irregular' = irregular
  BY DEF Gate, Done
<1>3. outcome' = "promoted"
  BY <1>1, <1>2, GateOpens DEF Gate
<1>4. at = 10 * N + 3 /\ Plan[at] = <<"all", "gate">> /\ Len(Plan) = 10 * N + 3 /\ N \in Nat
  BY <1>1, <1>2, StepAt, PlanAt, ServersNamed DEF TypeOK
<1>5. TypeOK' /\ CommitPromotes'
  BY <1>1, <1>2, <1>3, <1>4 DEF TypeOK, CommitPromotes
<1>6. AllSound' /\ NoLinks'
  BY <1>1, <1>2 DEF AllSound, NoLinks, Sound, Named, Proven, Holds
<1>7. Opened'
  BY <1>1, <1>2, <1>4, OpenedKept
<1> QED
  BY <1>5, <1>6, <1>7 DEF RefInv

(* and after a step that changes nothing. *)
LEMMA RefUnchanged ==
  ASSUME RefInv, UNCHANGED vars
  PROVE  RefInv'
BY ZenonT(30) DEF RefInv, TypeOK, AllSound, NoLinks, Opened, CommitPromotes, Sound, Named, Proven, Holds, vars

(* RefInv is an invariant: every row of the candidate is sound at every
   moment of a sync, whatever files the servers have, in whatever order
   they are. *)
THEOREM RefInvariant == Spec => []RefInv
<1>1. Init => RefInv
  BY RefInit
<1>2. RefInv /\ [Next]_vars => RefInv'
  BY NextSplit, RefServerStep, RefIndexBuild, RefReindex, RefGate, RefUnchanged DEF Ended
<1> QED
  BY <1>1, <1>2, PTL DEF Spec

(* The types hold. *)
THEOREM TypeCorrect == Spec => []TypeOK
BY RefInvariant, PTL DEF RefInv

(* Every reference of every row, provenance too, names a row that is there
   and of the same server: no importer (importers/*.py) inserts a row whose
   foreign key or soft reference dangles or crosses servers, so _orphans
   never has one to find. *)
THEOREM ReferencesResolve == Spec => []Resolved
<1>1. RefInv => Resolved
  BY GameTables DEF RefInv, AllSound, Resolved, Game, Sound, Named, Proven, Holds, Names
<1> QED
  BY <1>1, RefInvariant, PTL

(* Once the game data is committed nothing keeps the build from being
   promoted: no ride-along, whatever it raises, and no failed rebuild of
   the index adds a row that run_gate (validation) would refuse. *)
THEOREM CommitAlwaysPromotes == Spec => []CommitPromotes
BY RefInvariant, PTL DEF RefInv

(***************************************************************************)
(* No server without its combat rows                                       *)
(***************************************************************************)

(* The steps of a server. *)
ServerKinds == InBuildKinds \cup {"penguin", "announcements"}

(* Rows that were inserted are in the candidate. *)
LEMMA Taken ==
  ASSUME NEW rows, NEW s, NEW c, Insert(rows), Fits(rows, s, c)
  PROVE  /\ Includes(db', rows) /\ \A t \in Game : RowsOf(rows, t) \subseteq db'[t]
         /\ \A t \in DOMAIN rows : \A r \in rows[t] : r.key[1] = s
BY GameTables DEF Insert, Fits, Includes, RowsOf, Sound

(* A row a step added is of its server, its tables and its paths. *)
LEMMA FedRows ==
  ASSUME NEW s, NEW d, Fed(s, d), DOMAIN db = Tables, NEW t \in Tables, NEW r \in db'[t], r \notin db[t]
  PROVE  /\ t \in StepTables(d) \cup {"source_snapshots", "record_provenance"}
         /\ r.key[1] = s
         /\ t = "record_provenance" => r.key[3] \in StepPaths(d)
<1>1. PICK rows : Insert(rows) /\ Fits(rows, s, Join(db, rows)) /\ Kept(rows, d)
  BY DEF Fed
<1>2. t \in DOMAIN rows /\ r \in rows[t]
  BY <1>1 DEF Insert, RowsOf
<1> QED
  BY <1>1, <1>2, Taken DEF Kept, Within, RowsOf

(* Stages come from the stages' step only; ride-alongs touch none of these
   four tables. *)
LEMMA TablesApart ==
  /\ \A d \in ServerKinds \ {"stages"} : "stages" \notin StepTables(d)
  /\ \A d \in {"penguin", "announcements"} :
       {"stages", "zones", "enemies", "operators"} \cap StepTables(d) = {}
<1>1. ASSUME NEW d \in ServerKinds \ {"stages"} PROVE "stages" \notin StepTables(d)
<2>1. d \in {"enemies", "operators", "modules"} \/ StepTables(d) = Owned[d]
  BY DEF StepTables
<2>2. StepTables("enemies") = EnemyTables /\ StepTables("operators") = RosterTables
      /\ StepTables("modules") = ModuleTables
  BY DEF StepTables
<2>3. d \notin {"enemies", "operators", "modules"} => d \in DOMAIN Owned
  BY <1>1 DEF ServerKinds, InBuildKinds, Owned
<2>4. \A x \in DOMAIN Owned : "stages" \notin Owned[x]
  BY DEF Owned
<2> QED
  BY <2>1, <2>2, <2>3, <2>4 DEF EnemyTables, RosterTables, ModuleTables
<1>2. StepTables("penguin") = Owned["penguin"] /\ StepTables("announcements") = Owned["announcements"]
  BY DEF StepTables
<1> QED
  BY <1>1, <1>2 DEF Owned
(* A server whose stages name level files has combat rows and enemies:
   CombatWhole at every moment, not at the promotion only. *)
Fought ==
  \A s \in Servers :
    (\E r \in db["stages"] : r.key[1] = s /\ r.val # NoText) =>
      \A t \in CombatTables \cup {"enemies"} : \E r \in db[t] : r.key[1] = s

(* These are tables of the game. *)
LEMMA CombatGame == CombatTables \cup {"enemies", "stages"} \subseteq Game
BY InGame DEF CombatTables

(* A step that adds rows but no stages keeps it. *)
LEMMA FoughtKept ==
  ASSUME Fought, \A t \in Tables : db[t] \subseteq db'[t], db'["stages"] = db["stages"]
  PROVE  Fought'
BY CombatGame, GameTables DEF Fought

(* The stages' step, whose guard is per server, keeps it. *)
LEMMA StagesFought ==
  ASSUME TypeOK, Opened, Fought, NEW s \in Servers, ImportOneStages(s)
  PROVE  Fought'
<1>1. PICK raw : LET result == ImportStages(s, raw, db)
                 IN /\ FailClosed(result)
                    /\ result.error = "none" => Fits(result.rows, s, Join(db, result.rows))
  BY StagesFeed
<1> DEFINE result == ImportStages(s, raw, db)
           rows   == result.rows
<1>2. Fed(s, "stages") /\ DOMAIN db = Tables
  BY StagesFeed DEF TypeOK
<1>3. \A t \in Tables : db[t] \subseteq db'[t]
  BY <1>2, FedGrows
<1>4. CASE result.error # "none"
<2>1. db' = db
<3> HIDE DEF result
<3> QED
  BY <1>1, <1>4 DEF FailClosed, result
<2> QED
  BY <2>1 DEF Fought
<1>5. CASE result.error = "none"
<2>1. Insert(rows) /\ Fits(rows, s, Join(db, rows))
<3> HIDE DEF result
<3> QED
  BY <1>1, <1>5 DEF FailClosed, result
<2>2. /\ \A t \in Game : RowsOf(rows, t) \subseteq db'[t]
      /\ \A t \in Game : \A r \in RowsOf(rows, t) : r.key[1] = s
<3> HIDE DEF result
<3> QED
  BY <2>1, Taken DEF RowsOf
<2>3. SUFFICES ASSUME NEW x \in Servers, NEW r \in db'["stages"], r.key[1] = x, r.val # NoText,
                      NEW t \in CombatTables \cup {"enemies"}
               PROVE  \E y \in db'[t] : y.key[1] = x
  BY DEF Fought
<2>4. CASE r \in db["stages"]
<3>1. \E y \in db[t] : y.key[1] = x
  BY <2>3, <2>4 DEF Fought
<3>2. t \in Tables
  BY CombatGame, GameTables
<3> QED
  BY <1>3, <3>1, <3>2
<2>5. CASE r \notin db["stages"]
<3>1. r \in RowsOf(rows, "stages") /\ x = s
<4>1. "stages" \in Tables
  BY GameTables
<4>2. r \in RowsOf(rows, "stages")
<5> HIDE DEF result
<5> QED
  BY <2>1, <2>5, <4>1 DEF Insert
<4>3. r.key[1] = s
<5> HIDE DEF result
<5> QED
  BY <1>2, <2>3, <2>5, <4>1, FedRows
<4> HIDE DEF result
<4> QED
  BY <2>3, <4>2, <4>3
<3>2. /\ \A u \in CombatTables : RowsOf(rows, u) # {}
      /\ \E y \in db["enemies"] : y.key[1] = s
  BY <1>5, <2>3, <3>1, CombatRows
<3> HIDE DEF result
<3>3. CASE t = "enemies"
  BY <1>3, <3>1, <3>2, <3>3, GameTables
<3>4. CASE t \in CombatTables
  BY <2>2, <3>1, <3>2, <3>4, CombatGame
<3> QED
  BY <3>3, <3>4
<2> QED
  BY <2>4, <2>5
<1> QED
  BY <1>4, <1>5

(* So does every step. *)
LEMMA FoughtNext ==
  ASSUME RefInv, Fought, Next
  PROVE  Fought'
<1>1. TypeOK /\ Opened /\ AllSound
  BY DEF RefInv
<1>2. ASSUME NEW s \in Servers, ServerStep(s) PROVE Fought'
<2>1. PICK d \in ServerKinds : Due(s, d) /\ Fed(s, d)
  BY <1>1, <1>2, ServerStepFeeds DEF ServerKinds
<2>2. \A t \in Tables : db[t] \subseteq db'[t]
  BY <1>1, <2>1, FedGrows DEF TypeOK
<2>3. CASE d = "stages"
<3>1. ImportOneStages(s)
<4>1. Plan[at] = <<s, "stages">>
  BY <2>1, <2>3 DEF Due
<4> QED
  BY <1>2, <4>1 DEF ServerStep, Optional, Due, ImportOneEnemies, ImportOneStages, ImportOneOperators,
       ImportOneModules, ImportOneOptional, RideAlongPenguin, RideAlongAnnouncements
<3> QED
  BY <1>1, <3>1, StagesFought
<2>4. CASE d # "stages"
<3>1. db'["stages"] = db["stages"]
<4>1. "stages" \in Tables /\ "stages" \notin StepTables(d) \cup {"source_snapshots", "record_provenance"}
  BY <2>1, <2>4, TablesApart, GameTables
<4>2. \A r \in db'["stages"] : r \in db["stages"]
  BY <1>1, <2>1, <4>1, FedRows DEF TypeOK
<4> QED
  BY <2>2, <4>1, <4>2
<3> QED
  BY <2>2, <3>1, FoughtKept
<2> QED
  BY <2>3, <2>4
<1>3. CASE IndexBuild \/ Reindex
<2>1. Reindexed
  BY <1>1, <1>3, IndexBuilt, IndexRebuilt DEF TypeOK
<2> QED
  BY <2>1, CombatGame DEF Reindexed, Fought
<1>4. CASE Gate \/ Ended
<2>1. db' = db
  BY <1>4 DEF Gate, Ended, vars
<2> QED
  BY <2>1 DEF Fought
<1> QED
  BY <1>2, <1>3, <1>4, NextSplit

(* No promoted server whose stages name level files is without combat rows:
   the guard of the stages' importer is per server, the gate's counts are
   not. *)
THEOREM CombatAlwaysWhole == Spec => []CombatWhole
<1>1. Init => Fought
  BY GameTables DEF Init, Fought
<1>2. RefInv /\ Fought /\ [Next]_vars => Fought'
  BY FoughtNext DEF vars, Fought
<1>3. Fought => CombatWhole
  BY DEF Fought, CombatWhole, CombatTables, StagesOf
<1> QED
  BY <1>1, <1>2, <1>3, RefInvariant, PTL DEF Spec

(***************************************************************************)
(* The search index                                                        *)
(***************************************************************************)

(* The documents find every entity of b, items apart. *)
Finds(docs, b) ==
  /\ \A r \in b["stages"] : \E d \in DocsOf(docs, "stage", r.key) :
       \A z \in b["zones"] : <<"zones", z.key>> \in r.refs =>
         {z.val.subtitle, z.val.title} \subseteq d.val \cup {NoText}
  /\ \A r \in b["enemies"]   : DocsOf(docs, "enemy", r.key) # {}
  /\ \A r \in b["operators"] : DocsOf(docs, "operator", r.key) # {}
(* The documents find every item of b. *)
FindsItems(docs, b) == \A r \in b["items"] : DocsOf(docs, "item", r.key) # {}

(* What the index finds is there; and once it is built it finds all but
   items, once it is rebuilt items too, unless the log says it was not. *)
Docs    == \A d \in db["entity_fts"] : /\ d.key[1] \in {"enemy", "stage", "operator", "item"}
                                       /\ Holds(db, DocTable[d.key[1]], d.key[2])
Indexed == /\ at > 8 * N + 1 => Finds(db["entity_fts"], db)
           /\ at > 10 * N + 2 => <<"all", "reindex">> \in reported \/ FindsItems(db["entity_fts"], db)

(* The tables the index is built from. *)
IndexTables == {"stages", "zones", "enemies", "operators", "items"}

(* They are of the game. *)
LEMMA IndexGame == /\ IndexTables \subseteq Game
                   /\ \A k \in {"enemy", "stage", "operator", "item"} : DocTable[k] \in Game
BY InGame DEF IndexTables, DocTable

(* More documents find as much. *)
LEMMA FindsMore ==
  ASSUME NEW docs, NEW more, docs \subseteq more, NEW b, NEW c
  PROVE  /\ (\A t \in IndexTables \ {"items"} : c[t] = b[t]) /\ Finds(docs, b) => Finds(more, c)
         /\ c["items"] = b["items"] /\ FindsItems(docs, b) => FindsItems(more, c)
<1>1. \A kind, key : DocsOf(docs, kind, key) \subseteq DocsOf(more, kind, key)
  BY DEF DocsOf
<1> QED
  BY <1>1 DEF Finds, FindsItems, IndexTables

(* A fresh index finds everything. *)
LEMMA IndexFindsAll ==
  ASSUME NEW b
  PROVE  Finds(BuildSearchIndex(b), b) /\ FindsItems(BuildSearchIndex(b), b)
BY IndexFinds DEF Finds, FindsItems

(* What is found stays there, as rows do. *)
LEMMA DocsGrow ==
  ASSUME Docs, \A t \in Game : \A key : Holds(db, t, key) => Holds(db', t, key),
         \A d \in db'["entity_fts"] : d \in db["entity_fts"] \/ d \in BuildSearchIndex(db)
  PROVE  Docs'
<1>1. ASSUME NEW d \in db'["entity_fts"]
      PROVE  /\ d.key[1] \in {"enemy", "stage", "operator", "item"}
             /\ Holds(db, DocTable[d.key[1]], d.key[2])
  BY <1>1, IndexNames DEF Docs
<1> QED
  BY <1>1, IndexGame DEF Docs

(* Every step keeps both: no step between the two indexes adds anything but
   items, drops and announcements. *)
LEMMA SearchNext ==
  ASSUME RefInv, Docs, Indexed, Next
  PROVE  Docs' /\ Indexed'
<1>1. TypeOK /\ Opened /\ DOMAIN db = Tables /\ N \in Nat /\ at \in 1..(Len(Plan) + 1)
  BY ServersNamed DEF RefInv, TypeOK
<1>2. ASSUME NEW s \in Servers, ServerStep(s) PROVE Docs' /\ Indexed'
<2>1. PICK d \in ServerKinds : /\ Due(s, d) /\ Fed(s, d)
                               /\ at' = at \/ at' = at + 1
                               /\ at' = at + 1 \/ d \in InBuildKinds
  BY <1>1, <1>2, ServerStepFeeds DEF ServerKinds
<2>2. /\ \A t \in Tables : db[t] \subseteq db'[t]
      /\ \A t \in Tables : \A key : Holds(db, t, key) => Holds(db', t, key)
      /\ db'["entity_fts"] = db["entity_fts"]
  BY <1>1, <2>1, FedGrows
<2>3. Docs'
  BY <2>2, DocsGrow, GameTables
<2>4. CASE d \in InBuildKinds
<3>1. at \in 1..(8 * N)
  BY <1>1, <2>1, <2>4, StepAt
<3>2. ~(at' > 8 * N + 1) /\ ~(at' > 10 * N + 2)
  BY <1>1, <2>1, <3>1
<3> QED
  BY <2>3, <3>2 DEF Indexed
<2>5. CASE d \in {"penguin", "announcements"}
<3>1. at \in (8 * N + 2)..(10 * N + 1) /\ at' = at + 1
<4>1. at \in (8 * N + 2)..(9 * N + 1) \/ at \in (9 * N + 2)..(10 * N + 1)
  BY <1>1, <2>1, <2>5, StepAt
<4>2. d \notin InBuildKinds
  BY <2>5 DEF InBuildKinds
<4> QED
  BY <1>1, <2>1, <4>1, <4>2
<3>2. ~(at' > 10 * N + 2) /\ at > 8 * N + 1
  BY <1>1, <3>1
<3>3. \A t \in IndexTables \ {"items"} : db'[t] = db[t]
<4>1. ASSUME NEW t \in IndexTables \ {"items"} PROVE \A r \in db'[t] : r \in db[t]
<5>1. t \in Tables /\ t \notin StepTables(d) \cup {"source_snapshots", "record_provenance"}
  BY <2>5, IndexGame, GameTables, TablesApart DEF IndexTables
<5> QED
  BY <1>1, <2>1, <5>1, FedRows
<4> QED
  BY <2>2, <4>1, IndexGame, GameTables
<3>4. Finds(db'["entity_fts"], db')
  BY <2>2, <3>2, <3>3, FindsMore DEF Indexed
<3> QED
  BY <2>3, <3>2, <3>4 DEF Indexed
<2> QED
  BY <2>4, <2>5 DEF ServerKinds
<1>3. ASSUME Reindexed,
             \A d \in db'["entity_fts"] : d \in db["entity_fts"] \/ d \in BuildSearchIndex(db)
      PROVE  Docs' /\ \A t \in IndexTables : db'[t] = db[t]
<2>1. \A t \in Game : \A key : Holds(db, t, key) => Holds(db', t, key)
  BY <1>3 DEF Reindexed, Holds
<2> QED
  BY <1>3, <2>1, DocsGrow, IndexGame DEF Reindexed
<1>4. CASE IndexBuild
<2>1. Reindexed /\ db'["entity_fts"] = db["entity_fts"] \cup BuildSearchIndex(db)
  BY <1>1, <1>4, IndexBuilt
<2>2. Docs' /\ \A t \in IndexTables : db'[t] = db[t]
  BY <1>3, <2>1
<2>3. Finds(db'["entity_fts"], db')
  BY <2>1, <2>2, IndexFindsAll, FindsMore
<2>4. at' = 8 * N + 2
  BY <1>1, <1>4, StepAt DEF IndexBuild, Done
<2>5. ~(at' > 10 * N + 2)
  BY <1>1, <2>4
<2> QED
  BY <2>2, <2>3, <2>5 DEF Indexed
<1>5. CASE Reindex
<2>1. /\ Reindexed
      /\ \/ db'["entity_fts"] = BuildSearchIndex(db) /\ reported' = reported
         \/ /\ db'["entity_fts"] = db["entity_fts"]
            /\ reported' = reported \cup {<<"all", "reindex">>}
  BY <1>1, <1>5, IndexRebuilt
<2>2. Docs' /\ \A t \in IndexTables : db'[t] = db[t]
  BY <1>3, <2>1
<2>3. at = 10 * N + 2
  BY <1>1, <1>5, StepAt DEF Reindex
<2>4. Finds(db["entity_fts"], db)
  BY <1>1, <2>3 DEF Indexed
<2>5. CASE db'["entity_fts"] = BuildSearchIndex(db)
<3>1. Finds(db'["entity_fts"], db') /\ FindsItems(db'["entity_fts"], db')
  BY <2>2, <2>5, IndexFindsAll, FindsMore DEF IndexTables
<3> QED
  BY <2>2, <3>1 DEF Indexed
<2>6. CASE db'["entity_fts"] = db["entity_fts"] /\ <<"all", "reindex">> \in reported'
<3>1. Finds(db'["entity_fts"], db')
  BY <2>2, <2>4, <2>6, FindsMore
<3> QED
  BY <2>2, <2>6, <3>1 DEF Indexed
<2> QED
  BY <2>1, <2>5, <2>6
<1>6. CASE Gate
<2>1. db' = db /\ reported' = reported
  BY <1>6 DEF Gate
<2>2. at = 10 * N + 3
  BY <1>1, <1>6, StepAt DEF Gate
<2>3. at > 8 * N + 1 /\ at > 10 * N + 2
  BY <1>1, <2>2
<2> QED
  BY <2>1, <2>3 DEF Docs, Indexed, Holds
<1>7. CASE Ended
  BY <1>7 DEF Ended, vars, Docs, Indexed, Holds
<1> QED
  BY <1>2, <1>4, <1>5, <1>6, <1>7, NextSplit

(* A promoted build finds each entity by its names, a stage by its event's
   title too, and finds nothing that is gone; only items may be missing,
   when the log says the second build of the index failed. *)
THEOREM AlwaysSearchable == Spec => []Searchable
<1>1. Init => Docs /\ Indexed
<2> SUFFICES ASSUME Init PROVE Docs /\ Indexed
  OBVIOUS
<2>1. db["entity_fts"] = {} /\ at = 1 /\ N \in Nat /\ N >= 1
  BY GameTables, ServersNamed DEF Init
<2>2. ~(at > 8 * N + 1) /\ ~(at > 10 * N + 2)
  BY <2>1
<2> QED
  BY <2>1, <2>2 DEF Docs, Indexed
<1>2. RefInv /\ Docs /\ Indexed /\ [Next]_vars => (Docs /\ Indexed)'
  BY SearchNext DEF vars, Docs, Indexed, Holds
<1>3. RefInv /\ Docs /\ Indexed => Searchable
<2> SUFFICES ASSUME RefInv, Docs, Indexed, outcome = "promoted" PROVE Searchable
  BY DEF Searchable
<2>1. at = 10 * N + 4 /\ N \in Nat
  BY PlanAt, ServersNamed DEF RefInv, TypeOK
<2>2. at > 8 * N + 1 /\ at > 10 * N + 2
  BY <2>1
<2>3. /\ Finds(db["entity_fts"], db)
      /\ <<"all", "reindex">> \in reported \/ FindsItems(db["entity_fts"], db)
  BY <2>2 DEF Indexed
<2>4. \A kind, key : Doc(kind, key) = DocsOf(db["entity_fts"], kind, key)
  BY DEF Doc, DocsOf
<2>5. \A d \in db["entity_fts"] : Has(DocTable[d.key[1]], d.key[2])
  BY DEF Docs, Has, Holds
<2> QED
  BY <2>3, <2>4, <2>5 DEF Searchable, Finds, FindsItems, DocTable
<1> QED
  BY <1>1, <1>2, <1>3, RefInvariant, PTL DEF Spec

(***************************************************************************)
(* No step comes twice                                                     *)
(***************************************************************************)

(* No server comes twice. *)
LEMMA OrderOnce == \A i, j \in 1..N : ServerOrder[i] = ServerOrder[j] => i = j
<1>1. ServerOrder \in Seq({"en", "cn"}) /\ IsInjective(ServerOrder)
  BY PipelineAssumption
<1>2. DOMAIN ServerOrder = 1..N
  BY <1>1 DEF N
<1> QED
  BY <1>1, <1>2 DEF IsInjective

(* No step comes twice in a server's round. *)
LEMMA KindsOnce == \A i, j \in 1..8 : InBuild[i] = InBuild[j] => i = j
<1>1. /\ InBuild[1] = "enemies" /\ InBuild[2] = "stages" /\ InBuild[3] = "operators"
      /\ InBuild[4] = "modules" /\ InBuild[5] = "banners" /\ InBuild[6] = "skins"
      /\ InBuild[7] = "base_skills" /\ InBuild[8] = "ranges"
  BY DEF InBuild
<1> QED
  BY <1>1

(* A position inside the build is a round and a step of it. *)
LEMMA BuildPlace ==
  ASSUME NEW i \in 1..(8 * N)
  PROVE  \E q \in 1..N, r \in 1..8 :
           i = 8 * (q - 1) + r /\ Plan[i] = <<ServerOrder[q], InBuild[r]>>
<1> DEFINE q == ((i - 1) \div 8) + 1
           r == ((i - 1) % 8) + 1
<1>1. N \in Nat
  BY ServersNamed
<1>2. q \in 1..N /\ r \in 1..8 /\ i = 8 * (q - 1) + r
  BY <1>1
<1>3. Plan[i] = <<ServerOrder[q], InBuild[r]>>
  BY PlanAt
<1> HIDE DEF q, r
<1> QED
  BY <1>2, <1>3

(* So no step of a server is in the plan twice. *)
LEMMA OncePlanned ==
  ASSUME NEW i \in 1..Len(Plan), NEW j \in 1..Len(Plan), Plan[i] = Plan[j], Plan[i][2] \in ServerKinds
  PROVE  i = j
<1>1. N \in Nat /\ Len(Plan) = 10 * N + 3
  BY ServersNamed, PlanAt
<1>2. ASSUME NEW k \in 1..Len(Plan), Plan[k][2] \in ServerKinds
      PROVE  \/ \E q \in 1..N, r \in 1..8 :
                  /\ k = 8 * (q - 1) + r
                  /\ Plan[k][1] = ServerOrder[q] /\ Plan[k][2] = InBuild[r]
                  /\ InBuild[r] \in InBuildKinds
             \/ \E q \in 1..N : /\ k = 8 * N + 1 + q
                                /\ Plan[k][1] = ServerOrder[q] /\ Plan[k][2] = "penguin"
             \/ \E q \in 1..N : /\ k = 9 * N + 1 + q
                                /\ Plan[k][1] = ServerOrder[q] /\ Plan[k][2] = "announcements"
<2>1. CASE k \in 1..(8 * N)
  BY <2>1, BuildPlace, InBuildAt
<2>2. CASE k \in (8 * N + 2)..(9 * N + 1)
<3>1. k - (8 * N + 1) \in 1..N /\ k = 8 * N + 1 + (k - (8 * N + 1))
  BY <1>1, <2>2
<3>2. Plan[k] = <<ServerOrder[k - (8 * N + 1)], "penguin">>
  BY <3>1, PlanAt, Zenon
<3> QED
  BY <3>1, <3>2
<2>3. CASE k \in (9 * N + 2)..(10 * N + 1)
<3>1. k - (9 * N + 1) \in 1..N /\ k = 9 * N + 1 + (k - (9 * N + 1))
  BY <1>1, <2>3
<3>2. Plan[k] = <<ServerOrder[k - (9 * N + 1)], "announcements">>
  BY <3>1, PlanAt, Zenon
<3> QED
  BY <3>1, <3>2
<2>4. k \notin {8 * N + 1, 10 * N + 2, 10 * N + 3}
  BY <1>2, PlanAt DEF ServerKinds, InBuildKinds
<2>5. \/ k \in 1..(8 * N) \/ k \in (8 * N + 2)..(9 * N + 1) \/ k \in (9 * N + 2)..(10 * N + 1)
  BY <1>1, <2>4
<2> QED
  BY <2>1, <2>2, <2>3, <2>5
<1>3. {"penguin", "announcements"} \cap InBuildKinds = {}
  BY DEF InBuildKinds
<1> QED
  BY <1>1, <1>2, <1>3, OrderOnce, KindsOnce, SMTT(30)
(* What was read was read at a step that is over. *)
Once == \A k \in DOMAIN given : outcome = "failed" \/ \E j \in 1..(at - 1) : Plan[j] = k

(* A step that is due has read nothing before. *)
LEMMA FirstTime ==
  ASSUME TypeOK, Once, NEW s, NEW d \in ServerKinds, Due(s, d)
  PROVE  <<s, d>> \notin DOMAIN given
<1>1. at \in 1..Len(Plan) /\ Plan[at] = <<s, d>> /\ outcome = "building"
  BY StepAt DEF TypeOK
<1>2. ASSUME NEW j \in 1..(at - 1) PROVE Plan[j] # <<s, d>>
<2>1. j \in 1..Len(Plan) /\ j # at
  BY <1>1, PlanAt, ServersNamed
<2> QED
  BY <1>1, <2>1, OncePlanned
<1> QED
  BY <1>1, <1>2 DEF Once

(* The file a server's step reads, if it reads one. *)
Reads(s, d) == \/ \E raw : Read(s, d, raw)
               \/ given' = given

(* A step of a server reads its own file or none. *)
LEMMA StepReads ==
  ASSUME NEW s \in Servers, NEW d \in ServerKinds, Due(s, d), ServerStep(s)
  PROVE  Reads(s, d)
<1>1. Plan[at] = <<s, d>>
  BY DEF Due
<1>2. \A x : Due(s, x) => x = d
  BY <1>1 DEF Due
<1>3. CASE d = "announcements"
<2>1. RideAlongAnnouncements(s)
  BY <1>2, <1>3 DEF ServerStep, Optional, ImportOneEnemies, ImportOneStages, ImportOneOperators,
     ImportOneModules, ImportOneOptional, RideAlongPenguin
<2> QED
  BY <1>3, <2>1 DEF RideAlongAnnouncements, Reads
<1>4. ASSUME d # "announcements" PROVE \E x : Due(s, x) /\ \E raw : Read(s, x, raw)
<2>1. ~RideAlongAnnouncements(s)
  BY <1>2, <1>4 DEF RideAlongAnnouncements
<2>2. \A x : ImportOneOptional(s, x) => Due(s, x) /\ \E raw : Read(s, x, raw)
  BY Zenon DEF ImportOneOptional
<2> QED
  BY <2>1, <2>2 DEF ServerStep, ImportOneEnemies, ImportOneStages, ImportOneOperators,
     ImportOneModules, RideAlongPenguin
<1> QED
  BY <1>2, <1>3, <1>4 DEF Reads

(* Every step keeps Once. *)
LEMMA OnceNext ==
  ASSUME TypeOK, Opened, Once, Next
  PROVE  Once'
<1>0. at \in Nat
  BY PlanAt, ServersNamed DEF TypeOK
<1>1. ASSUME NEW s \in Servers, ServerStep(s) PROVE Once'
<2>1. PICK d \in ServerKinds : /\ Due(s, d)
                               /\ outcome' = "failed" \/ (at' = at + 1 /\ outcome' = outcome)
  BY <1>1, ServerStepFeeds DEF ServerKinds
<2>2. Reads(s, d) /\ Plan[at] = <<s, d>>
  BY <1>1, <2>1, StepReads DEF Due
<2>3. DOMAIN given' \subseteq DOMAIN given \cup {<<s, d>>}
  BY <2>2 DEF Reads, Read
<2>4. CASE outcome' = "failed"
  BY <2>4 DEF Once
<2>5. CASE at' = at + 1 /\ outcome' = outcome
<3>1. at' - 1 = at /\ at \in 1..at /\ \A j \in 1..(at - 1) : j \in 1..at
  BY <1>0, <2>1, <2>5 DEF Due, TypeOK
<3>2. ASSUME NEW k \in DOMAIN given' PROVE outcome' = "failed" \/ \E j \in 1..at : Plan[j] = k
  BY <2>2, <2>3, <2>5, <3>1 DEF Once
<3> QED
  BY <3>1, <3>2 DEF Once
<2> QED
  BY <2>1, <2>4, <2>5
<1>2. CASE IndexBuild \/ Reindex \/ Gate
<2>1. given' = given /\ at' = at + 1 /\ outcome # "failed"
  BY <1>2 DEF IndexBuild, Reindex, Gate, Done, Due
<2>2. \A j \in 1..(at - 1) : j \in 1..(at' - 1)
  BY <1>0, <2>1
<2> QED
  BY <2>1, <2>2 DEF Once
<1>3. CASE Ended
  BY <1>3 DEF Ended, vars, Once
<1> QED
  BY <1>1, <1>2, <1>3, NextSplit

(***************************************************************************)
(* All there, or reported                                                  *)
(***************************************************************************)

(* The domains with tables of their own. *)
Owners == DOMAIN Owned

(* OwnRows, Whole and Yield of any candidate b, not only of the current
   one. *)
OwnIn(b, s, d) ==
  (UNION {{<<t, r.key>> : r \in {x \in b[t] : x.key[1] = s}} : t \in Owned[d]})
  \cup {<<"record_provenance", r.key>> :
          r \in {x \in b["record_provenance"] : x.key[1] = s /\ x.key[3] \in SourcePaths[d]}}
WholeIn(b, s, d, raw) ==
  CASE d = "banners"     -> \A i \in DOMAIN raw.pools : raw.pools[i].id # NoText =>
                              /\ Holds(b, "banners", <<s, raw.pools[i].id>>)
                              /\ \A c \in ToSet(FeaturedCharIds(raw.pools[i])) :
                                   Holds(b, "banner_featured_ops", <<s, raw.pools[i].id, c>>)
    [] d = "skins"       -> \A i \in DOMAIN raw.skins :
                              LET k == raw.skins[i] IN
                              k.operator /\ k.id # NoText /\ k.portrait
                                => Holds(b, "operator_skins", <<s, k.id>>)
    [] d = "base_skills" -> \A i \in DOMAIN raw.buffs :
                              raw.buffs[i].id # NoText /\ raw.buffs[i].room
                                => Holds(b, "base_skills", <<s, raw.buffs[i].id>>)
    [] d = "ranges"      -> \A i \in DOMAIN raw.ranges : raw.ranges[i].cells # {}
                                => Holds(b, "ranges", <<s, RangeId(raw.ranges[i])>>)
    [] d = "penguin"     -> \A id \in ItemIds(raw) : Holds(b, "items", <<s, id>>)
    [] OTHER             -> \A i \in DOMAIN raw.entries : raw.entries[i].id # NoText
                                => Holds(b, "announcements", <<s, raw.entries[i].id>>)
YieldIn(b, s, d) ==
  CASE d = "penguin"       -> {r \in b["stage_drops"] : r.key[1] = s}
    [] d = "announcements" -> {r \in b["announcements"] : r.key[1] = s /\ r.val}
    [] OTHER               -> OwnIn(b, s, d)
(* A file that could be read is all there, and yielded something if it
   offered something. *)
Delivered(b, s, d, raw) ==
  raw.shape = "ok" /\ WholeIn(b, s, d, raw) /\ (Offered(d, raw) => YieldIn(b, s, d) # {})

(* What the log and the candidate say of domain d of server s: before its
   step nothing; after it, nothing and a report or a silent shape, or
   everything. *)
ToldOf(s, d, b, files, rep, out) ==
  IF <<s, d>> \notin DOMAIN files THEN OwnIn(b, s, d) = {} /\ <<s, d>> \notin rep
  ELSE out # "failed" =>
         IF <<s, d>> \in rep \/ files[<<s, d>>].shape \in Silent(d) THEN OwnIn(b, s, d) = {}
         ELSE Delivered(b, s, d, files[<<s, d>>])
Told == \A s \in Servers, d \in Owners : ToldOf(s, d, db, given, reported, outcome)

(* The domains with tables of their own are the optional ones and the
   ride-alongs. *)
LEMMA OwnersAre == /\ Owners = Optional \cup {"penguin", "announcements"}
                   /\ Owners \subseteq ServerKinds
                   /\ \A d \in Owners : Owned[d] \subseteq Tables
BY DEF Owners, Owned, Optional, ServerKinds, InBuildKinds, Tables

(* No step writes tables another domain owns, or provenance of its paths. *)
LEMMA OwnApart ==
  ASSUME NEW d \in ServerKinds, NEW e \in Owners, d # e
  PROVE  /\ Owned[e] \cap (StepTables(d) \cup {"source_snapshots", "record_provenance"}) = {}
         /\ SourcePaths[e] \cap StepPaths(d) = {}
<1>1. CASE d = "enemies"
  BY <1>1 DEF StepTables, StepPaths, EnemyTables, Owners, Owned, SourcePaths
<1>2. CASE d = "stages"
  BY <1>2 DEF StepTables, StepPaths, StageTables, StagePaths, Owners, Owned, SourcePaths
<1>3. CASE d = "operators"
  BY <1>3 DEF StepTables, StepPaths, RosterTables, RosterPaths, Owners, Owned, SourcePaths
<1>4. CASE d = "modules"
  BY <1>4 DEF StepTables, StepPaths, ModuleTables, Owners, Owned, SourcePaths
<1>5. CASE d \in Owners
<2>1. StepTables(d) = Owned[d] /\ StepPaths(d) = SourcePaths[d]
  BY <1>5 DEF StepTables, StepPaths, Owners, Owned
<2>2. d \in {"banners", "skins", "base_skills", "ranges", "penguin", "announcements"}
      /\ e \in {"banners", "skins", "base_skills", "ranges", "penguin", "announcements"}
  BY <1>5 DEF Owners, Owned
<2> QED
  BY <2>1, <2>2 DEF Owned, SourcePaths
<1> QED
  BY <1>1, <1>2, <1>3, <1>4, <1>5, OwnersAre DEF ServerKinds, InBuildKinds, Optional

(* What a domain owns depends on its rows only. *)
LEMMA OwnSame ==
  ASSUME NEW s, NEW d, NEW b, NEW c,
         \A t \in Owned[d] : {x \in c[t] : x.key[1] = s} = {x \in b[t] : x.key[1] = s},
         {x \in c["record_provenance"] : x.key[1] = s /\ x.key[3] \in SourcePaths[d]}
           = {x \in b["record_provenance"] : x.key[1] = s /\ x.key[3] \in SourcePaths[d]}
  PROVE  OwnIn(c, s, d) = OwnIn(b, s, d)
BY DEF OwnIn

(* So a step leaves what another server or domain owns as it was. *)
LEMMA OwnOthers ==
  ASSUME DOMAIN db = Tables, NEW s \in Servers, NEW d \in ServerKinds, Fed(s, d),
         NEW x \in Servers, NEW e \in Owners, x # s \/ e # d
  PROVE  OwnIn(db', x, e) = OwnIn(db, x, e)
<1>1. \A t \in Tables : db[t] \subseteq db'[t]
  BY FedGrows
<1>2. ASSUME NEW t \in Owned[e], NEW r \in db'[t], r.key[1] = x PROVE r \in db[t]
  BY <1>2, OwnersAre, OwnApart, FedRows
<1>3. ASSUME NEW r \in db'["record_provenance"], r.key[1] = x, r.key[3] \in SourcePaths[e]
      PROVE  r \in db["record_provenance"]
  BY <1>3, GameTables, OwnApart, FedRows
<1>4. \A t \in Owned[e] : {r \in db'[t] : r.key[1] = x} = {r \in db[t] : r.key[1] = x}
  BY <1>1, <1>2, OwnersAre
<1>5. {r \in db'["record_provenance"] : r.key[1] = x /\ r.key[3] \in SourcePaths[e]}
        = {r \in db["record_provenance"] : r.key[1] = x /\ r.key[3] \in SourcePaths[e]}
  BY <1>1, <1>3, GameTables
<1> QED
  BY <1>4, <1>5, OwnSame

(* What is all there stays all there, *)
LEMMA WholeGrows ==
  ASSUME NEW b, NEW c, \A t \in Game : b[t] \subseteq c[t],
         NEW s, NEW d \in Owners, NEW raw, WholeIn(b, s, d, raw)
  PROVE  WholeIn(c, s, d, raw)
<1>1. \A t \in Game : \A key : Holds(b, t, key) => Holds(c, t, key)
  BY DEF Holds
<1>2. {"banners", "banner_featured_ops", "operator_skins", "base_skills", "ranges", "items",
       "announcements"} \subseteq Game
  BY InGame
<1>3. CASE d = "banners"
  BY <1>1, <1>2, <1>3 DEF WholeIn
<1>4. CASE d = "skins"
  BY <1>1, <1>2, <1>4 DEF WholeIn
<1>5. CASE d = "base_skills"
  BY <1>1, <1>2, <1>5 DEF WholeIn
<1>6. CASE d = "ranges"
  BY <1>1, <1>2, <1>6 DEF WholeIn
<1>7. CASE d = "penguin"
  BY <1>1, <1>2, <1>7 DEF WholeIn
<1>8. CASE d = "announcements"
  BY <1>1, <1>2, <1>8 DEF WholeIn
<1> QED
  BY <1>3, <1>4, <1>5, <1>6, <1>7, <1>8, OwnersAre DEF Optional

(* and what yielded something still does. *)
LEMMA YieldGrows ==
  ASSUME NEW b, NEW c, \A t \in Game : b[t] \subseteq c[t],
         NEW s, NEW d \in Owners, OwnIn(c, s, d) = OwnIn(b, s, d), YieldIn(b, s, d) # {}
  PROVE  YieldIn(c, s, d) # {}
<1>1. {"stage_drops", "announcements"} \subseteq Game
  BY InGame
<1>2. CASE d = "penguin"
  BY <1>1, <1>2 DEF YieldIn
<1>3. CASE d = "announcements"
<2>1. {r \in b["announcements"] : r.key[1] = s /\ r.val} \subseteq {r \in c["announcements"] : r.key[1] = s /\ r.val}
  BY <1>1, Zenon
<2>2. YieldIn(b, s, d) = {r \in b["announcements"] : r.key[1] = s /\ r.val}
      /\ YieldIn(c, s, d) = {r \in c["announcements"] : r.key[1] = s /\ r.val}
  BY <1>3, Zenon DEF YieldIn
<2> QED
  BY <2>1, <2>2, Zenon
<1>4. CASE d \notin {"penguin", "announcements"}
  BY <1>4 DEF YieldIn
<1> QED
  BY <1>2, <1>3, <1>4

(* So what was said of a domain stays true while its rows, its file and its
   report stay. *)
LEMMA ToldKept ==
  ASSUME NEW b, NEW c, \A t \in Game : b[t] \subseteq c[t],
         NEW s, NEW d \in Owners, OwnIn(c, s, d) = OwnIn(b, s, d),
         NEW files, NEW more, NEW rep, NEW said, NEW out, NEW end,
         <<s, d>> \in DOMAIN more <=> <<s, d>> \in DOMAIN files,
         <<s, d>> \in DOMAIN files => more[<<s, d>>] = files[<<s, d>>],
         <<s, d>> \in said <=> <<s, d>> \in rep,
         end # "failed" => out # "failed",
         ToldOf(s, d, b, files, rep, out)
  PROVE  ToldOf(s, d, c, more, said, end)
BY WholeGrows, YieldGrows DEF ToldOf, Delivered

(* A row of a domain's tables makes it one that has rows. *)
LEMMA OwnHeld ==
  ASSUME NEW b, NEW s, NEW d, NEW t \in Owned[d], NEW key, key[1] = s, Holds(b, t, key)
  PROVE  OwnIn(b, s, d) # {}
<1>1. PICK x \in b[t] : x.key = key
  BY DEF Holds
<1> DEFINE mine(u) == {<<u, r.key>> : r \in {y \in b[u] : y.key[1] = s}}
<1>2. <<t, x.key>> \in mine(t)
  BY <1>1
<1>3. UNION {mine(u) : u \in Owned[d]} \subseteq OwnIn(b, s, d)
  BY DEF OwnIn
<1> HIDE DEF mine
<1> QED
  BY <1>2, <1>3

(* The shapes of the files. *)
LEMMA FilesShaped ==
  ASSUME NEW d \in Owners, NEW raw \in Files(d)
  PROVE  \/ raw.shape \in {"absent", "corrupt", "foreign", "ok"}
         \/ raw.shape = "bare" /\ d \in {"banners", "skins"}
<1>1. raw \in {Ordinary[d]} \cup Irregular[d]
  BY DEF Files
<1>2. d \in {"base_skills", "ranges", "penguin", "announcements"} \/ d \in {"banners", "skins"}
  BY OwnersAre DEF Optional
<1> QED
  BY <1>1, <1>2, FilesAssumption

(* An importer that raised nothing of a file of a silent shape made no rows;
   of any other, its file could be read. *)
LEMMA OptionalShapes ==
  ASSUME NEW s, NEW d \in Optional, NEW raw \in Files(d), NEW b, NEW result,
         result = OptionalResult(s, d, raw, b), result.error = "none"
  PROVE  IF raw.shape \in Silent(d) THEN result.rows = NoRows ELSE raw.shape = "ok"
<1>0. \/ raw.shape \in {"absent", "corrupt", "foreign", "ok"}
      \/ raw.shape = "bare" /\ d \in {"banners", "skins"}
  BY FilesShaped, OwnersAre
<1>1. CASE d = "banners"
<2>1. Silent(d) = {"absent", "bare"} /\ result = ImportBanners(s, raw, b)
  BY <1>1 DEF Silent, OptionalResult
<2> QED
  BY <1>0, <2>1 DEF ImportBanners, Ok, Torn, Refused
<1>2. CASE d = "skins"
<2>1. Silent(d) = {"absent", "bare"} /\ result = ImportSkins(s, raw, b)
  BY <1>2 DEF Silent, OptionalResult
<2> QED
  BY <1>0, <2>1 DEF ImportSkins, Ok, Torn, Refused
<1>3. CASE d = "base_skills"
<2>1. Silent(d) = {"absent"} /\ result = ImportBaseSkills(s, raw, b)
  BY <1>3 DEF Silent, OptionalResult
<2> QED
  BY <1>0, <1>3, <2>1 DEF ImportBaseSkills, Ok, Torn, Refused
<1>4. CASE d = "ranges"
<2>1. Silent(d) = {"absent"} /\ result = ImportRanges(s, raw)
  BY <1>4 DEF Silent, OptionalResult
<2> QED
  BY <1>0, <1>4, <2>1 DEF ImportRanges, Ok, Torn, Refused
<1> QED
  BY <1>1, <1>2, <1>3, <1>4 DEF Optional

(* No rows, and what a domain owns is as it was. *)
LEMMA OwnUntouched ==
  ASSUME NEW s, NEW d \in Owners, Insert(NoRows)
  PROVE  OwnIn(db', s, d) = OwnIn(db, s, d)
<1>1. \A t \in Tables : db'[t] = db[t]
  BY DEF Insert, NoRows, RowsOf
<1>2. Owned[d] \subseteq Tables /\ "record_provenance" \in Tables
  BY OwnersAre, GameTables
<1> QED
  BY <1>1, <1>2, OwnSame

(* An importer that raised nothing of a file it could read delivered it: the
   optional domains, *)
LEMMA OptionalDelivered ==
  ASSUME NEW s, NEW d \in Optional, NEW raw, NEW b, NEW c, NEW result, raw.shape = "ok",
         result = OptionalResult(s, d, raw, b), result.error = "none", Includes(c, result.rows)
  PROVE  Delivered(c, s, d, raw)
<1>0. SUFFICES WholeIn(c, s, d, raw) /\ (Offered(d, raw) => YieldIn(c, s, d) # {})
  BY DEF Delivered
<1>1. YieldIn(c, s, d) = OwnIn(c, s, d)
  BY DEF YieldIn, Optional
<1>2. CASE d = "banners"
<2>1. result = ImportBanners(s, raw, b)
  BY <1>2 DEF OptionalResult
<2>2. /\ \A i \in DOMAIN raw.pools : raw.pools[i].id # NoText =>
           /\ Holds(c, "banners", <<s, raw.pools[i].id>>)
           /\ \A x \in ToSet(FeaturedCharIds(raw.pools[i])) :
                Holds(c, "banner_featured_ops", <<s, raw.pools[i].id, x>>)
      /\ DOMAIN raw.pools # {} => \E i \in DOMAIN raw.pools : raw.pools[i].id # NoText
  BY <2>1, BannersWhole
<2>3. ASSUME Offered(d, raw) PROVE OwnIn(c, s, d) # {}
<3>1. DOMAIN raw.pools # {}
  BY <1>2, <2>3 DEF Offered
<3>2. PICK i \in DOMAIN raw.pools : Holds(c, "banners", <<s, raw.pools[i].id>>)
  BY <2>2, <3>1
<3> QED
  BY <1>2, <3>2, OwnHeld DEF Owned
<2> QED
  BY <1>1, <1>2, <2>2, <2>3 DEF WholeIn
<1>3. CASE d = "skins"
<2>1. result = ImportSkins(s, raw, b)
  BY <1>3 DEF OptionalResult
<2>2. /\ \A i \in ParseSkins(raw) : Holds(c, "operator_skins", <<s, raw.skins[i].id>>)
      /\ OperatorEntries(raw) # {} => ParseSkins(raw) # {}
  BY <2>1, SkinsWhole
<2>3. ASSUME Offered(d, raw) PROVE OwnIn(c, s, d) # {}
<3>1. OperatorEntries(raw) # {}
  BY <1>3, <2>3 DEF Offered
<3>2. PICK i \in ParseSkins(raw) : Holds(c, "operator_skins", <<s, raw.skins[i].id>>)
  BY <2>2, <3>1
<3> QED
  BY <1>3, <3>2, OwnHeld DEF Owned
<2>4. WholeIn(c, s, d, raw)
  BY <1>3, <2>2 DEF WholeIn, ParseSkins, OperatorEntries
<2> QED
  BY <1>1, <2>3, <2>4
<1>4. CASE d = "base_skills"
<2>1. result = ImportBaseSkills(s, raw, b)
  BY <1>4 DEF OptionalResult
<2>2. /\ \A i \in ParseBuffs(raw) : Holds(c, "base_skills", <<s, raw.buffs[i].id>>)
      /\ DOMAIN raw.buffs # {} => ParseBuffs(raw) # {}
  BY <2>1, BaseSkillsWhole
<2>3. ASSUME Offered(d, raw) PROVE OwnIn(c, s, d) # {}
<3>1. DOMAIN raw.buffs # {}
  BY <1>4, <2>3 DEF Offered
<3>2. PICK i \in ParseBuffs(raw) : Holds(c, "base_skills", <<s, raw.buffs[i].id>>)
  BY <2>2, <3>1
<3> QED
  BY <1>4, <3>2, OwnHeld DEF Owned
<2>4. WholeIn(c, s, d, raw)
  BY <1>4, <2>2 DEF WholeIn, ParseBuffs
<2> QED
  BY <1>1, <2>3, <2>4
<1>5. CASE d = "ranges"
<2>1. result = ImportRanges(s, raw)
  BY <1>5 DEF OptionalResult
<2>2. /\ \A i \in ParseRanges(raw) : Holds(c, "ranges", <<s, RangeId(raw.ranges[i])>>)
      /\ DOMAIN raw.ranges # {} => ParseRanges(raw) # {}
  BY <2>1, RangesWhole
<2>3. ASSUME Offered(d, raw) PROVE OwnIn(c, s, d) # {}
<3>1. DOMAIN raw.ranges # {}
  BY <1>5, <2>3 DEF Offered
<3>2. PICK i \in ParseRanges(raw) : Holds(c, "ranges", <<s, RangeId(raw.ranges[i])>>)
  BY <2>2, <3>1
<3> QED
  BY <1>5, <3>2, OwnHeld DEF Owned
<2>4. WholeIn(c, s, d, raw)
  BY <1>5, <2>2 DEF WholeIn, ParseRanges
<2> QED
  BY <1>1, <2>3, <2>4
<1> QED
  BY <1>2, <1>3, <1>4, <1>5 DEF Optional

(* penguin, *)
LEMMA PenguinDelivered ==
  ASSUME NEW s, NEW raw \in Files("penguin"), NEW b, NEW c, NEW result,
         result = ImportPenguinDrops(s, raw, b), result.error = "none", Includes(c, result.rows),
         \A r \in RowsOf(result.rows, "stage_drops") : r \in c["stage_drops"] /\ r.key[1] = s
  PROVE  Delivered(c, s, "penguin", raw)
<1>1. /\ \A id \in ItemIds(raw) : Holds(c, "items", <<s, id>>)
      /\ ParseMatrix(raw) # {} => RowsOf(result.rows, "stage_drops") # {}
  BY PenguinWhole
<1>2. WholeIn(c, s, "penguin", raw)
  BY <1>1 DEF WholeIn
<1>3. Offered("penguin", raw) => YieldIn(c, s, "penguin") # {}
  BY <1>1 DEF Offered, YieldIn
<1>4. raw.shape = "ok"
<2>1. raw.shape \in {"absent", "corrupt", "foreign", "ok"}
  BY FilesShaped, OwnersAre
<2>2. CASE raw.shape \in {"absent", "corrupt"}
<3>1. result = Torn
  BY <2>2, Zenon DEF ImportPenguinDrops
<3> QED
  BY <3>1 DEF Torn
<2>3. CASE raw.shape = "foreign"
<3>1. result = Refused(NoRows)
  BY <2>3 DEF ImportPenguinDrops
<3> QED
  BY <3>1 DEF Refused
<2> QED
  BY <2>1, <2>2, <2>3
<1> QED
  BY <1>2, <1>3, <1>4 DEF Delivered

(* announcements. *)
LEMMA AnnouncementsDelivered ==
  ASSUME NEW s, NEW raw \in Files("announcements"), NEW c, NEW result,
         result = ImportAnnouncements(s, raw), result.error = "none", Includes(c, result.rows)
  PROVE  Delivered(c, s, "announcements", raw)
<1>1. /\ \A i \in ParseAnnouncements(raw) : Holds(c, "announcements", <<s, raw.entries[i].id>>)
      /\ DOMAIN raw.entries # {} => \E r \in c["announcements"] : r.key[1] = s /\ r.val
  BY AnnouncementsWhole
<1>2. WholeIn(c, s, "announcements", raw)
  BY <1>1 DEF WholeIn, ParseAnnouncements
<1>3. Offered("announcements", raw) => DOMAIN raw.entries # {}
  BY DEF Offered
<1>4. YieldIn(c, s, "announcements") = {r \in c["announcements"] : r.key[1] = s /\ r.val}
  BY Zenon DEF YieldIn
<1>5. (\E r \in c["announcements"] : r.key[1] = s /\ r.val) => YieldIn(c, s, "announcements") # {}
  BY <1>4, Zenon
<1>6. raw.shape = "ok"
  BY FilesShaped, OwnersAre DEF ImportAnnouncements, Torn, Refused
<1> QED
  BY <1>1, <1>2, <1>3, <1>5, <1>6, Zenon DEF Delivered

(* How a step on domain d may end: nothing read, the sync failed, a report
   and no rows, or no report and, unless the file is of a silent shape, all
   rows. *)
Taking(s, d, raw) ==
  IF raw.shape \in Silent(d) THEN OwnIn(db', s, d) = OwnIn(db, s, d) ELSE Delivered(db', s, d, raw)
Tells(s, d) ==
  \/ db' = db /\ reported' = reported /\ given' = given
  \/ \E raw : /\ Read(s, d, raw)
              /\ \/ outcome' = "failed" /\ reported' = reported
                 \/ db' = db /\ reported' = reported \cup {<<s, d>>}
                 \/ reported' = reported /\ Taking(s, d, raw)

(* The step of an owner ends so: what a handler rolls back it reports. *)
LEMMA OwnTells ==
  ASSUME TypeOK, Opened, NEW s \in Servers, NEW d \in Owners, Due(s, d), ServerStep(s)
  PROVE  Tells(s, d)
<1>1. \A x : Due(s, x) => x = d
  BY DEF Due
<1>2. CASE d \in Optional
<2>1. ImportOneOptional(s, d)
  BY <1>1, <1>2 DEF ServerStep, Optional, ImportOneEnemies, ImportOneStages, ImportOneOperators,
     ImportOneModules, ImportOneOptional, RideAlongPenguin, RideAlongAnnouncements
<2>2. PICK raw \in Files(d) :
        LET result == OptionalResult(s, d, raw, db)
        IN /\ Read(s, d, raw) /\ ImportOptionalDomain(s, d, result)
           /\ result.error = "none" => Fits(result.rows, s, Join(db, result.rows))
  BY <1>2, <2>1, OptionalFeed
<2> DEFINE result == OptionalResult(s, d, raw, db)
<2>3. ASSUME result.error = "none" PROVE reported' = reported /\ Taking(s, d, raw)
<3>1. /\ Insert(result.rows) /\ reported' = reported /\ Fits(result.rows, s, Join(db, result.rows))
  BY <2>2, <2>3 DEF ImportOptionalDomain
<3>2. Includes(db', result.rows)
  BY <3>1, Taken
<3>3. CASE raw.shape \in Silent(d)
<4>1. result.rows = NoRows
  BY <1>2, <2>3, <3>3, OptionalShapes
<4>2. OwnIn(db', s, d) = OwnIn(db, s, d)
  BY <3>1, <4>1, OwnUntouched
<4> QED
  BY <3>1, <3>3, <4>2 DEF Taking
<3>4. CASE raw.shape \notin Silent(d)
<4>1. raw.shape = "ok"
  BY <1>2, <2>3, <3>4, OptionalShapes
<4>2. Delivered(db', s, d, raw)
  BY <1>2, <2>3, <3>2, <4>1, OptionalDelivered
<4> QED
  BY <3>1, <3>4, <4>2 DEF Taking
<3> QED
  BY <3>3, <3>4
<2>4. ASSUME result.error # "none"
      PROVE  \/ outcome' = "failed" /\ reported' = reported
             \/ db' = db /\ reported' = reported \cup {<<s, d>>}
  BY <2>2, <2>4 DEF ImportOptionalDomain
<2> HIDE DEF result
<2> QED
  BY <2>2, <2>3, <2>4 DEF Tells
<1>3. CASE d = "penguin"
<2>1. RideAlongPenguin(s)
  BY <1>1, <1>3 DEF ServerStep, Optional, ImportOneEnemies, ImportOneStages, ImportOneOperators,
     ImportOneModules, ImportOneOptional, RideAlongAnnouncements
<2>2. PICK raw \in Files("penguin") :
        LET result == ImportPenguinDrops(s, raw, db)
        IN /\ Read(s, "penguin", raw) /\ RideAlong(s, "penguin", result)
           /\ result.error = "none" => Fits(result.rows, s, Join(db, result.rows))
  BY <2>1, PenguinFeed
<2> DEFINE result == ImportPenguinDrops(s, raw, db)
<2>3. ASSUME result.error = "none" PROVE reported' = reported /\ Taking(s, "penguin", raw)
<3>1. /\ Insert(result.rows) /\ reported' = reported /\ Fits(result.rows, s, Join(db, result.rows))
  BY <2>2, <2>3 DEF RideAlong
<3>2. /\ Includes(db', result.rows)
      /\ \A r \in RowsOf(result.rows, "stage_drops") : r \in db'["stage_drops"] /\ r.key[1] = s
<4> HIDE DEF result
<4> QED
  BY <3>1, Taken, InGame DEF RowsOf
<3>3. Delivered(db', s, "penguin", raw)
  BY <2>3, <3>2, PenguinDelivered
<3>4. Silent("penguin") = {}
  BY DEF Silent
<3> QED
  BY <3>1, <3>3, <3>4 DEF Taking
<2>4. ASSUME result.error # "none" PROVE db' = db /\ reported' = reported \cup {<<s, "penguin">>}
  BY <2>2, <2>4 DEF RideAlong
<2> HIDE DEF result
<2> QED
  BY <1>3, <2>2, <2>3, <2>4 DEF Tells
<1>4. CASE d = "announcements"
<2>1. RideAlongAnnouncements(s)
  BY <1>1, <1>4 DEF ServerStep, Optional, ImportOneEnemies, ImportOneStages, ImportOneOperators,
     ImportOneModules, ImportOneOptional, RideAlongPenguin
<2>2. CASE db' = db /\ reported' = reported /\ given' = given
  BY <2>2 DEF Tells
<2>3. ASSUME NEW raw \in Files("announcements"), Read(s, "announcements", raw),
             RideAlong(s, "announcements", ImportAnnouncements(s, raw)),
             ImportAnnouncements(s, raw).error = "none" =>
               Fits(ImportAnnouncements(s, raw).rows, s, Join(db, ImportAnnouncements(s, raw).rows))
      PROVE  Tells(s, d)
<3> DEFINE result == ImportAnnouncements(s, raw)
<3>1. ASSUME result.error = "none"
      PROVE  reported' = reported /\ Taking(s, "announcements", raw)
<4>1. /\ Insert(result.rows) /\ reported' = reported /\ Fits(result.rows, s, Join(db, result.rows))
  BY <2>3, <3>1 DEF RideAlong
<4>2. Includes(db', result.rows)
  BY <4>1, Taken
<4>3. Delivered(db', s, "announcements", raw)
  BY <3>1, <4>2, AnnouncementsDelivered
<4>4. Silent("announcements") = {}
  BY DEF Silent
<4> QED
  BY <4>1, <4>3, <4>4 DEF Taking
<3>2. ASSUME result.error # "none"
      PROVE  db' = db /\ reported' = reported \cup {<<s, "announcements">>}
  BY <2>3, <3>2 DEF RideAlong
<3> HIDE DEF result
<3> QED
  BY <1>4, <2>3, <3>1, <3>2 DEF Tells
<2> QED
  BY <2>1, <2>2, <2>3, AnnouncementsFeed
<1> QED
  BY <1>2, <1>3, <1>4, OwnersAre

(* After its step what is said of a domain is true, *)
LEMMA OwnTold ==
  ASSUME TypeOK, Once, Told, NEW s \in Servers, NEW d \in Owners, Due(s, d), Tells(s, d)
  PROVE  ToldOf(s, d, db', given', reported', outcome')
<1>1. <<s, d>> \notin DOMAIN given
  BY FirstTime, OwnersAre
<1>2. OwnIn(db, s, d) = {} /\ <<s, d>> \notin reported
  BY <1>1 DEF Told, ToldOf
<1>3. CASE db' = db /\ reported' = reported /\ given' = given
  BY <1>1, <1>2, <1>3 DEF ToldOf
<1>4. ASSUME NEW raw, Read(s, d, raw),
             \/ outcome' = "failed" /\ reported' = reported
             \/ db' = db /\ reported' = reported \cup {<<s, d>>}
             \/ reported' = reported /\ Taking(s, d, raw)
      PROVE  ToldOf(s, d, db', given', reported', outcome')
<2>1. <<s, d>> \in DOMAIN given' /\ given'[<<s, d>>] = raw
  BY <1>4 DEF Read
<2> QED
  BY <1>2, <1>4, <2>1 DEF ToldOf, Taking
<1> QED
  BY <1>3, <1>4 DEF Tells

(* a step reports only itself, *)
LEMMA StepTells ==
  ASSUME TypeOK, Opened, NEW s \in Servers, NEW d \in ServerKinds, Due(s, d), ServerStep(s)
  PROVE  reported' = reported \/ reported' = reported \cup {<<s, d>>}
<1>1. CASE d \in Owners
  BY <1>1, OwnTells DEF Tells
<1>2. CASE d \notin Owners
<2>1. \A x : Due(s, x) => x = d
  BY DEF Due
<2>2. d \notin Optional \cup {"penguin", "announcements"}
  BY <1>2, OwnersAre
<2>3. ImportOneEnemies(s) \/ ImportOneStages(s) \/ ImportOneOperators(s) \/ ImportOneModules(s)
  BY <2>1, <2>2 DEF ServerStep, ImportOneOptional, RideAlongPenguin, RideAlongAnnouncements
<2>4. \E result : FailClosed(result)
  BY <2>3, Zenon DEF ImportOneEnemies, ImportOneStages, ImportOneOperators, ImportOneModules
<2> QED
  BY <2>4 DEF FailClosed
<1> QED
  BY <1>1, <1>2

(* and what is said of the others stays true. *)
LEMMA OtherTold ==
  ASSUME TypeOK, Opened, Told, NEW s \in Servers, NEW d \in ServerKinds, Due(s, d), ServerStep(s),
         Fed(s, d), NEW x \in Servers, NEW e \in Owners, x # s \/ e # d
  PROVE  ToldOf(x, e, db', given', reported', outcome')
<1>1. DOMAIN db = Tables /\ outcome # "failed" /\ <<x, e>> # <<s, d>>
  BY DEF TypeOK, Due
<1>2. OwnIn(db', x, e) = OwnIn(db, x, e) /\ \A t \in Tables : db[t] \subseteq db'[t]
  BY <1>1, OwnOthers, FedGrows
<1>3. <<x, e>> \in reported' <=> <<x, e>> \in reported
  BY <1>1, StepTells
<1>4. /\ <<x, e>> \in DOMAIN given' <=> <<x, e>> \in DOMAIN given
      /\ <<x, e>> \in DOMAIN given => given'[<<x, e>>] = given[<<x, e>>]
<2>1. Reads(s, d)
  BY StepReads
<2>2. CASE given' = given
  BY <2>2
<2>3. ASSUME NEW raw, Read(s, d, raw)
      PROVE  /\ DOMAIN given' = DOMAIN given \cup {<<s, d>>}
             /\ \A k \in DOMAIN given \ {<<s, d>>} : given'[k] = given[k]
  BY <2>3 DEF Read
<2> QED
  BY <1>1, <2>1, <2>2, <2>3 DEF Reads
<1>5. ToldOf(x, e, db, given, reported, outcome)
  BY DEF Told
<1> QED
  BY <1>1, <1>2, <1>3, <1>4, <1>5, ToldKept, GameTables

(* So every step keeps Told. *)
LEMMA ToldNext ==
  ASSUME RefInv, Once, Told, Next
  PROVE  Told'
<1>1. TypeOK /\ Opened /\ DOMAIN db = Tables
  BY DEF RefInv, TypeOK
<1>2. ASSUME NEW s \in Servers, ServerStep(s) PROVE Told'
<2>1. PICK d \in ServerKinds : Due(s, d) /\ Fed(s, d)
  BY <1>1, <1>2, ServerStepFeeds DEF ServerKinds
<2>2. ASSUME NEW x \in Servers, NEW e \in Owners
      PROVE  ToldOf(x, e, db', given', reported', outcome')
<3>1. CASE x # s \/ e # d
  BY <1>1, <1>2, <2>1, <3>1, OtherTold
<3>2. CASE x = s /\ e = d
  BY <1>1, <1>2, <2>1, <3>2, OwnTells, OwnTold
<3> QED
  BY <3>1, <3>2
<2> QED
  BY <2>2 DEF Told
<1>3. CASE IndexBuild \/ Reindex \/ Gate
<2>1. Reindexed
  BY <1>1, <1>3, IndexBuilt, IndexRebuilt DEF Reindexed, Gate
<2>2. /\ given' = given /\ outcome # "failed"
      /\ reported' = reported \/ reported' = reported \cup {<<"all", "reindex">>}
  BY <1>3 DEF IndexBuild, Reindex, Gate, Due
<2>3. ASSUME NEW x \in Servers, NEW e \in Owners
      PROVE  ToldOf(x, e, db', given', reported', outcome')
<3>1. OwnIn(db', x, e) = OwnIn(db, x, e)
<4>1. Owned[e] \subseteq Game
  BY InGame, OwnersAre DEF Owners, Owned
<4> QED
  BY <2>1, <4>1, GameTables, OwnSame DEF Reindexed
<3>2. <<x, e>> \in reported' <=> <<x, e>> \in reported
  BY <2>2, ServersNamed
<3>3. \A t \in Game : db[t] \subseteq db'[t]
  BY <2>1 DEF Reindexed
<3>4. ToldOf(x, e, db, given, reported, outcome)
  BY DEF Told
<3> QED
  BY <2>2, <3>1, <3>2, <3>3, <3>4, ToldKept
<2> QED
  BY <2>3 DEF Told
<1>4. CASE Ended
  BY <1>4 DEF Ended, vars, Told
<1> QED
  BY <1>2, <1>3, <1>4, NextSplit

(* An optional domain or a ride-along is all there, or not there at all down
   to its provenance, and then the log says so or its file was of a shape the
   importer takes for an empty domain: the savepoint of
   _import_optional_domain and the guards of the importers never leave a
   half-filled domain, nor silently an empty one of a file with entries. *)
THEOREM OptionalAllOrReported == Spec => []AllOrReported
<1>1. Init => Once /\ Told
<2> SUFFICES ASSUME Init PROVE Once /\ Told
  OBVIOUS
<2>1. DOMAIN given = {} /\ reported = {} /\ \A t \in Tables : db[t] = {}
  BY DEF Init
<2>2. ASSUME NEW s \in Servers, NEW d \in Owners PROVE OwnIn(db, s, d) = {}
  BY <2>1, GameTables, OwnersAre DEF OwnIn
<2> QED
  BY <2>1, <2>2 DEF Once, Told, ToldOf
<1>2. RefInv /\ Once /\ Told /\ [Next]_vars => (Once /\ Told)'
<2>1. RefInv /\ Once /\ Told /\ Next => (Once /\ Told)'
  BY OnceNext, ToldNext DEF RefInv
<2>2. Once /\ Told /\ UNCHANGED vars => (Once /\ Told)'
  BY DEF Once, Told, vars
<2> QED
  BY <2>1, <2>2
<1>3. RefInv /\ Told => AllOrReported
<2> SUFFICES ASSUME RefInv, Told, NEW k \in DOMAIN given, k[2] \in DOMAIN Owned, outcome # "failed"
             PROVE  IF k \in reported \/ given[k].shape \in Silent(k[2]) THEN OwnRows(k[1], k[2]) = {}
                    ELSE /\ given[k].shape = "ok"
                         /\ Whole(k[1], k[2], given[k])
                         /\ Offered(k[2], given[k]) => Yield(k[1], k[2]) # {}
  BY Zenon DEF AllOrReported
<2>1. k = <<k[1], k[2]>> /\ k[1] \in Servers /\ k[2] \in Owners
  BY DEF RefInv, TypeOK, Owners
<2>2. ToldOf(k[1], k[2], db, given, reported, outcome)
  BY <2>1 DEF Told
<2>3. /\ OwnRows(k[1], k[2]) = OwnIn(db, k[1], k[2])
      /\ Whole(k[1], k[2], given[k]) = WholeIn(db, k[1], k[2], given[k])
      /\ Yield(k[1], k[2]) = YieldIn(db, k[1], k[2])
  BY Zenon DEF OwnRows, OwnIn, Whole, WholeIn, Has, Holds, Yield, YieldIn
<2> QED
  BY <2>1, <2>2, <2>3 DEF ToldOf, Delivered
<1> QED
  BY <1>1, <1>2, <1>3, RefInvariant, PTL DEF Spec

(***************************************************************************)
(* Stored once, read back level by level                                   *)
(***************************************************************************)

(* What the rows say of the files they came from. *)
EnemyKept(r, files) ==
  LET k == <<r.key[1], "enemies">> IN k \in DOMAIN files /\ Inherits(r, files[k])
SkillKept(x, files) ==
  LET k == <<x.key[1], "operators">>
  IN k \in DOMAIN files /\ x.val = UniformStr(files[k].skills[x.key[2]])
LevelKept(r, files) ==
  LET k == <<r.key[1], "operators">>
  IN /\ k \in DOMAIN files
     /\ Shown(r, files[k].skills[r.key[2]]) = files[k].skills[r.key[2]][r.key[3]]
(* Every stored value reads back as its file has it. *)
Valued ==
  /\ \A r \in db["enemy_levels"] : EnemyKept(r, given)
  /\ \A x \in db["skills"] : SkillKept(x, given)
  /\ \A r \in db["skill_levels"] :
       LevelKept(r, given) /\ \E x \in db["skills"] : x.key = <<r.key[1], r.key[2]>>

(* Enemy levels come from the enemies' step only, skills and their levels
   from the operators'. *)
LEMMA ValueTables ==
  /\ {"enemy_levels", "skills", "skill_levels"} \subseteq Game
  /\ \A d \in ServerKinds : /\ "enemy_levels" \in StepTables(d) => d = "enemies"
                            /\ {"skills", "skill_levels"} \cap StepTables(d) # {} => d = "operators"
<1>1. ASSUME NEW d \in ServerKinds, d \notin {"enemies", "stages", "operators", "modules"}
      PROVE  StepTables(d) \cap {"enemy_levels", "skills", "skill_levels"} = {}
<2>1. d \in Owners
  BY <1>1, OwnersAre DEF ServerKinds, InBuildKinds, Optional
<2>2. StepTables(d) = Owned[d]
  BY <1>1 DEF StepTables
<2> QED
  BY <2>1, <2>2 DEF Owners, Owned
<1>2. /\ StepTables("enemies") = EnemyTables /\ StepTables("stages") = StageTables
      /\ StepTables("operators") = RosterTables /\ StepTables("modules") = ModuleTables
  BY DEF StepTables
<1> QED
  BY <1>1, <1>2, InGame DEF EnemyTables, StageTables, RosterTables, ModuleTables

(* Reading further files changes nothing of the earlier ones. *)
LEMMA ValuedMore ==
  ASSUME NEW files, NEW more, DOMAIN files \subseteq DOMAIN more,
         \A k \in DOMAIN files : more[k] = files[k], NEW r
  PROVE  /\ EnemyKept(r, files) => EnemyKept(r, more)
         /\ SkillKept(r, files) => SkillKept(r, more)
         /\ LevelKept(r, files) => LevelKept(r, more)
BY DEF EnemyKept, SkillKept, LevelKept

(* The enemies' step adds levels that read back, *)
LEMMA EnemiesValued ==
  ASSUME TypeOK, NEW s \in Servers, ImportOneEnemies(s), <<s, "enemies">> \in DOMAIN given',
         NEW r \in db'["enemy_levels"], r \notin db["enemy_levels"]
  PROVE  EnemyKept(r, given')
<1>1. PICK raw \in {Ordinary["enemies"]} \cup Irregular["enemies"] :
        /\ Read(s, "enemies", raw)
        /\ FailClosed([ImportEnemies(s, raw) EXCEPT !.rows = Join(@, InsertSnapshot(s, GameData))])
  BY DEF ImportOneEnemies, Files
<1> DEFINE made   == ImportEnemies(s, raw)
           snap   == InsertSnapshot(s, GameData)
           rows   == Join(made.rows, snap)
           result == [made EXCEPT !.rows = Join(@, snap)]
<1>2. DOMAIN made = {"error", "rows"}
  BY DEF ImportEnemies, Torn, Refused, Ok
<1>3. result.error = made.error /\ result.rows = rows
<2> HIDE DEF made, snap
<2> QED
  BY <1>2
<1>4. made.error = "none" /\ Insert(rows)
<2>1. FailClosed(result)
  BY <1>1
<2> HIDE DEF made, rows, result
<2> QED
  BY <1>3, <2>1 DEF FailClosed
<1>5. r \in RowsOf(made.rows, "enemy_levels")
<2>1. r \in RowsOf(rows, "enemy_levels")
<3> HIDE DEF rows
<3> QED
  BY <1>4, ValueTables, GameTables DEF Insert
<2>2. RowsOf(snap, "enemy_levels") = {}
  BY DEF InsertSnapshot, RowsOf
<2> HIDE DEF made, snap
<2> QED
  BY <2>1, <2>2, RowsOfJoin
<1>6. Inherits(r, raw)
  BY <1>4, <1>5, EnemyValues
<1>7. r.key[1] = s
<2>1. Fed(s, "enemies") /\ DOMAIN db = Tables
  BY EnemiesFeed DEF TypeOK
<2> QED
  BY <2>1, FedRows, ValueTables, GameTables
<1>8. given'[<<s, "enemies">>] = raw
  BY <1>1 DEF Read
<1> QED
  BY <1>6, <1>7, <1>8 DEF EnemyKept

(* the operators' step skills and levels that do. *)
LEMMA OperatorsValued ==
  ASSUME TypeOK, Opened, NEW s \in Servers, ImportOneOperators(s), <<s, "operators">> \in DOMAIN given'
  PROVE  /\ \A x \in db'["skills"] \ db["skills"] : SkillKept(x, given')
         /\ \A r \in db'["skill_levels"] \ db["skill_levels"] :
              LevelKept(r, given') /\ \E x \in db'["skills"] : x.key = <<r.key[1], r.key[2]>>
<1>1. PICK raw : Read(s, "operators", raw) /\ FailClosed(ImportOperators(s, raw))
  BY DEF ImportOneOperators
<1> DEFINE result == ImportOperators(s, raw)
           rows   == result.rows
<1>2. CASE result.error # "none"
<2>1. db' = db
<3> HIDE DEF result
<3> QED
  BY <1>1, <1>2 DEF FailClosed, result
<2> QED
  BY <2>1
<1>3. CASE result.error = "none"
<2>1. Insert(rows)
<3> HIDE DEF result
<3> QED
  BY <1>1, <1>3 DEF FailClosed, result
<2>2. /\ \A x \in RowsOf(rows, "skills") :
           x.key[1] = s /\ x.val = UniformStr(raw.skills[x.key[2]])
      /\ \A r \in RowsOf(rows, "skill_levels") :
           /\ Shown(r, raw.skills[r.key[2]]) = raw.skills[r.key[2]][r.key[3]]
           /\ r.key[1] = s
           /\ \E x \in RowsOf(rows, "skills") : x.key = <<r.key[1], r.key[2]>>
  BY <1>3, SkillValues
<2>3. \A t \in {"skills", "skill_levels"} : db'[t] = db[t] \cup RowsOf(rows, t)
<3> HIDE DEF result
<3> QED
  BY <2>1, ValueTables, GameTables DEF Insert
<2>4. given'[<<s, "operators">>] = raw
  BY <1>1 DEF Read
<2> HIDE DEF result
<2> QED
  BY <2>2, <2>3, <2>4 DEF SkillKept, LevelKept
<1> QED
  BY <1>2, <1>3

(* So every step keeps Valued. *)
LEMMA ValuedNext ==
  ASSUME RefInv, Once, Valued, Next
  PROVE  Valued'
<1>1. TypeOK /\ Opened /\ DOMAIN db = Tables
  BY DEF RefInv, TypeOK
<1>2. ASSUME NEW s \in Servers, ServerStep(s) PROVE Valued'
<2>1. PICK d \in ServerKinds : Due(s, d) /\ Fed(s, d)
  BY <1>1, <1>2, ServerStepFeeds DEF ServerKinds
<2>2. /\ DOMAIN given \subseteq DOMAIN given'
      /\ \A k \in DOMAIN given : given'[k] = given[k]
<3>1. <<s, d>> \notin DOMAIN given
  BY <1>1, <2>1, FirstTime
<3>2. ASSUME NEW raw, Read(s, d, raw)
      PROVE  /\ DOMAIN given' = DOMAIN given \cup {<<s, d>>}
             /\ \A k \in DOMAIN given \ {<<s, d>>} : given'[k] = given[k]
  BY <3>2 DEF Read
<3>3. Reads(s, d)
  BY <1>2, <2>1, StepReads
<3> QED
  BY <3>1, <3>2, <3>3 DEF Reads
<2>3. \A t \in Tables : db[t] \subseteq db'[t]
  BY <1>1, <2>1, FedGrows
<2>4. /\ \A r \in db["enemy_levels"] : EnemyKept(r, given')
      /\ \A x \in db["skills"] : SkillKept(x, given')
      /\ \A r \in db["skill_levels"] :
           LevelKept(r, given') /\ \E x \in db'["skills"] : x.key = <<r.key[1], r.key[2]>>
  BY <2>2, <2>3, ValuedMore, ValueTables, GameTables DEF Valued
<2>5. \A x : Due(s, x) => x = d
  BY <2>1 DEF Due
<2>6. ASSUME NEW r \in db'["enemy_levels"], r \notin db["enemy_levels"] PROVE EnemyKept(r, given')
<3>1. d = "enemies"
  BY <1>1, <2>1, <2>6, FedRows, ValueTables, GameTables
<3>2. ImportOneEnemies(s)
  BY <1>2, <2>5, <3>1 DEF ServerStep, Optional, ImportOneStages, ImportOneOperators,
     ImportOneModules, ImportOneOptional, RideAlongPenguin, RideAlongAnnouncements
<3>3. <<s, "enemies">> \in DOMAIN given'
  BY <3>2 DEF ImportOneEnemies, Read
<3> QED
  BY <1>1, <2>6, <3>2, <3>3, EnemiesValued
<2>7. ASSUME NEW t \in {"skills", "skill_levels"}, NEW r \in db'[t], r \notin db[t]
      PROVE  ImportOneOperators(s) /\ <<s, "operators">> \in DOMAIN given'
<3>1. d = "operators"
  BY <1>1, <2>1, <2>7, FedRows, ValueTables, GameTables
<3>2. ImportOneOperators(s)
  BY <1>2, <2>5, <3>1 DEF ServerStep, Optional, ImportOneStages, ImportOneEnemies,
     ImportOneModules, ImportOneOptional, RideAlongPenguin, RideAlongAnnouncements
<3> QED
  BY <3>2 DEF ImportOneOperators, Read
<2>8. /\ \A x \in db'["skills"] \ db["skills"] : SkillKept(x, given')
      /\ \A r \in db'["skill_levels"] \ db["skill_levels"] :
           LevelKept(r, given') /\ \E x \in db'["skills"] : x.key = <<r.key[1], r.key[2]>>
  BY <1>1, <2>7, OperatorsValued
<2> QED
  BY <2>4, <2>6, <2>8 DEF Valued
<1>3. CASE IndexBuild \/ Reindex \/ Gate
<2>1. Reindexed /\ given' = given
  BY <1>1, <1>3, IndexBuilt, IndexRebuilt DEF Reindexed, Gate, IndexBuild, Reindex
<2> QED
  BY <2>1, ValueTables DEF Reindexed, Valued
<1>4. CASE Ended
  BY <1>4 DEF Ended, vars, Valued
<1> QED
  BY <1>2, <1>3, <1>4, NextSplit

(* Values stored once for several levels read back, level by level, as the
   file had them: an enemy's base stats (apply_level_deltas,
   finalize_level) and a skill's one name (uniform_str). *)
THEOREM ValuesAlwaysKept == Spec => []ValuesKept
<1>1. Init => Once /\ Valued
  BY ValueTables, GameTables DEF Init, Once, Valued
<1>2. RefInv /\ Once /\ Valued /\ [Next]_vars => (Once /\ Valued)'
<2>1. RefInv /\ Once /\ Valued /\ Next => (Once /\ Valued)'
  BY OnceNext, ValuedNext DEF RefInv
<2>2. Once /\ Valued /\ UNCHANGED vars => (Once /\ Valued)'
  BY DEF Once, Valued, vars
<2> QED
  BY <2>1, <2>2
<1>3. Valued => ValuesKept
<2>1. ASSUME Valued, NEW r \in db["enemy_levels"] PROVE StatsInherited(r)
<3>1. Inherits(r, given[<<r.key[1], "enemies">>])
  BY <2>1 DEF Valued, EnemyKept
<3> QED
  BY <3>1, Zenon DEF Inherits, StatsInherited
<2>2. ASSUME Valued, NEW r \in db["skill_levels"] PROVE NameKept(r)
<3> DEFINE file   == given[<<r.key[1], "operators">>]
           shared == CHOOSE k \in db["skills"] : k.key = <<r.key[1], r.key[2]>>
<3>1. shared \in db["skills"] /\ shared.key = <<r.key[1], r.key[2]>>
  BY <2>2 DEF Valued
<3>2. shared.key[1] = r.key[1] /\ shared.key[2] = r.key[2]
  BY <3>1
<3> HIDE DEF shared
<3>3. shared.val = UniformStr(file.skills[r.key[2]])
  BY <2>2, <3>1, <3>2 DEF Valued, SkillKept
<3>4. Shown(r, file.skills[r.key[2]]) = file.skills[r.key[2]][r.key[3]]
  BY <2>2 DEF Valued, LevelKept
<3> QED
  BY <3>3, <3>4 DEF Shown, NameKept, shared
<2> QED
  BY <2>1, <2>2 DEF ValuesKept
<1> QED
  BY <1>1, <1>2, <1>3, RefInvariant, PTL DEF Spec

(***************************************************************************)
(* One story per level                                                     *)
(***************************************************************************)

(* The rows of b and the level files they were read off: the figures agree,
   and every row's file was read. *)
Story(b, files) ==
  /\ \A x \in b["enemies"] : x.key = <<x.key[1], x.key[2]>>
  /\ \A t \in LevelTables : \A x \in b[t] : <<x.key[1], "stages">> \in DOMAIN files
  /\ \A e \in b["stage_enemies"] : TalliedIn(SpawnsIn(b["stage_spawns"], e), e)
  /\ \A r \in b["stage_spawns"] :
       /\ CountedIn(b["stage_enemies"], r)
       /\ LinkedIn(b["stage_enemy_variants"], r, LevelOfRow(r, files[<<r.key[1], "stages">>]))
  /\ \A r \in b["stage_routes"] :
       BoardIn(b["stage_tiles"], r, LevelOfRow(r, files[<<r.key[1], "stages">>]))

(* The level tables are filled by the stages' step only, the enemies by theirs. *)
LEMMA StoryTables ==
  /\ LevelTables \cup {"enemies"} \subseteq Game
  /\ \A d \in ServerKinds : /\ LevelTables \cap StepTables(d) # {} => d = "stages"
                            /\ "enemies" \in StepTables(d) => d = "enemies"
  /\ {"source_snapshots", "record_provenance"} \cap (LevelTables \cup {"enemies"}) = {}
<1>1. ASSUME NEW d \in ServerKinds, d \notin {"enemies", "stages", "operators", "modules"}
      PROVE  StepTables(d) \cap (LevelTables \cup {"enemies"}) = {}
<2>1. d \in Owners
  BY <1>1, OwnersAre DEF ServerKinds, InBuildKinds, Optional
<2>2. StepTables(d) = Owned[d]
  BY <1>1 DEF StepTables
<2> QED
  BY <2>1, <2>2 DEF Owners, Owned, LevelTables
<1>2. /\ StepTables("enemies") = EnemyTables /\ StepTables("stages") = StageTables
      /\ StepTables("operators") = RosterTables /\ StepTables("modules") = ModuleTables
  BY DEF StepTables
<1>3. LevelTables \cup {"enemies"} \subseteq Game
  BY InGame DEF LevelTables
<1>4. {"source_snapshots", "record_provenance"} \cap (LevelTables \cup {"enemies"}) = {}
  BY DEF LevelTables
<1> QED
  BY <1>1, <1>2, <1>3, <1>4 DEF EnemyTables, StageTables, RosterTables, ModuleTables, LevelTables

(* Further files, and further enemies, leave the story as it is. *)
LEMMA StoryKept ==
  ASSUME NEW b, NEW c, NEW files, NEW more, Story(b, files), DOMAIN files \subseteq DOMAIN more,
         \A k \in DOMAIN files : more[k] = files[k],
         \A t \in LevelTables : c[t] = b[t],
         \A x \in c["enemies"] : x.key = <<x.key[1], x.key[2]>>
  PROVE  Story(c, more)
<1>1. LevelTables = {"stage_tiles", "stage_routes", "stage_enemy_variants", "stage_spawns", "stage_enemies"}
  BY DEF LevelTables
<1>2. \A t \in LevelTables : \A x \in b[t] :
        <<x.key[1], "stages">> \in DOMAIN files /\ more[<<x.key[1], "stages">>] = files[<<x.key[1], "stages">>]
  BY DEF Story
<1>3. /\ \A t \in LevelTables : \A x \in c[t] : <<x.key[1], "stages">> \in DOMAIN more
      /\ \A e \in c["stage_enemies"] : TalliedIn(SpawnsIn(c["stage_spawns"], e), e)
  BY <1>1, <1>2 DEF Story
<1>4. \A r \in c["stage_spawns"] :
       /\ CountedIn(c["stage_enemies"], r)
       /\ LinkedIn(c["stage_enemy_variants"], r, LevelOfRow(r, more[<<r.key[1], "stages">>]))
  BY <1>1, <1>2 DEF Story
<1>5. \A r \in c["stage_routes"] :
       BoardIn(c["stage_tiles"], r, LevelOfRow(r, more[<<r.key[1], "stages">>]))
  BY <1>1, <1>2 DEF Story
<1> QED
  BY <1>3, <1>4, <1>5 DEF Story

(* The enemies' step adds enemies by server and id, *)
LEMMA EnemiesPaired ==
  ASSUME TypeOK, NEW s \in Servers, ImportOneEnemies(s),
         NEW x \in db'["enemies"], x \notin db["enemies"]
  PROVE  x.key = <<x.key[1], x.key[2]>>
<1>1. PICK raw : FailClosed([ImportEnemies(s, raw) EXCEPT !.rows = Join(@, InsertSnapshot(s, GameData))])
  BY DEF ImportOneEnemies
<1> DEFINE made   == ImportEnemies(s, raw)
           snap   == InsertSnapshot(s, GameData)
           rows   == Join(made.rows, snap)
           result == [made EXCEPT !.rows = Join(@, snap)]
<1>2. DOMAIN made = {"error", "rows"}
  BY DEF ImportEnemies, Torn, Refused, Ok
<1>3. result.error = made.error /\ result.rows = rows
<2> HIDE DEF made, snap
<2> QED
  BY <1>2
<1>4. made.error = "none" /\ Insert(rows)
<2>1. FailClosed(result)
  BY <1>1
<2> HIDE DEF made, rows, result
<2> QED
  BY <1>3, <2>1 DEF FailClosed
<1>5. x \in RowsOf(made.rows, "enemies")
<2>1. x \in RowsOf(rows, "enemies")
<3> HIDE DEF rows
<3> QED
  BY <1>4, StoryTables, GameTables DEF Insert
<2>2. RowsOf(snap, "enemies") = {}
  BY DEF InsertSnapshot, RowsOf
<2> HIDE DEF made, snap
<2> QED
  BY <2>1, <2>2, RowsOfJoin
<1> QED
  BY <1>4, <1>5, EnemyPairs

(* The rows of two servers tell their stories apart. *)
LEMMA StoryJoined ==
  ASSUME NEW b, NEW c, NEW new, NEW s, NEW files, NEW more, NEW raw, Story(b, files),
         <<s, "stages">> \notin DOMAIN files, <<s, "stages">> \in DOMAIN more, more[<<s, "stages">>] = raw,
         DOMAIN files \subseteq DOMAIN more, \A k \in DOMAIN files : more[k] = files[k],
         c["enemies"] = b["enemies"],
         \A t \in LevelTables : c[t] = b[t] \cup RowsOf(new, t),
         \A t \in LevelTables : \A x \in RowsOf(new, t) : x.key[1] = s,
         \A e \in RowsOf(new, "stage_enemies") : TalliedIn(SpawnsIn(RowsOf(new, "stage_spawns"), e), e),
         \A r \in RowsOf(new, "stage_spawns") :
              /\ CountedIn(RowsOf(new, "stage_enemies"), r)
              /\ LinkedIn(RowsOf(new, "stage_enemy_variants"), r, LevelOfRow(r, raw)),
         \A r \in RowsOf(new, "stage_routes") : BoardIn(RowsOf(new, "stage_tiles"), r, LevelOfRow(r, raw))
  PROVE  Story(c, more)
<1> DEFINE Own(t) == RowsOf(new, t)
           File(r) == more[<<r.key[1], "stages">>]
<1>1. LevelTables = {"stage_tiles", "stage_routes", "stage_enemy_variants", "stage_spawns", "stage_enemies"}
  BY DEF LevelTables
<1>2. \A t \in LevelTables : \A x \in b[t] :
        x.key[1] # s /\ <<x.key[1], "stages">> \in DOMAIN more /\ File(x) = files[<<x.key[1], "stages">>]
  BY DEF Story
<1>3. \A t \in LevelTables : \A x \in Own(t) : x.key[1] = s /\ <<x.key[1], "stages">> \in DOMAIN more /\ File(x) = raw
  OBVIOUS
<1>4. \A t \in LevelTables : c[t] = b[t] \cup Own(t) /\ b[t] \subseteq c[t] /\ Own(t) \subseteq c[t]
  OBVIOUS
<1> HIDE DEF Own, File
<1>5. \A t \in LevelTables : \A x \in c[t] : <<x.key[1], "stages">> \in DOMAIN more
  BY <1>2, <1>3, <1>4
<1>6. ASSUME NEW e \in c["stage_enemies"] PROVE TalliedIn(SpawnsIn(c["stage_spawns"], e), e)
<2>1. CASE e \in b["stage_enemies"]
<3>1. SpawnsIn(c["stage_spawns"], e) = SpawnsIn(b["stage_spawns"], e)
<4>1. e.key[1] # s
  BY <1>1, <1>2, <2>1
<4>2. \A r \in c["stage_spawns"] : r.key[1] = e.key[1] => r \in b["stage_spawns"]
  BY <1>1, <1>3, <1>4, <4>1
<4>3. b["stage_spawns"] \subseteq c["stage_spawns"]
  BY <1>1, <1>4
<4> QED
  BY <4>2, <4>3 DEF SpawnsIn
<3> QED
  BY <2>1, <3>1 DEF Story
<2>2. CASE e \in Own("stage_enemies")
<3>1. SpawnsIn(c["stage_spawns"], e) = SpawnsIn(Own("stage_spawns"), e)
<4>1. e.key[1] = s
  BY <1>1, <1>3, <2>2
<4>2. \A r \in c["stage_spawns"] : r.key[1] = e.key[1] => r \in Own("stage_spawns")
  BY <1>1, <1>2, <1>4, <4>1
<4>3. Own("stage_spawns") \subseteq c["stage_spawns"]
  BY <1>1, <1>4
<4> QED
  BY <4>2, <4>3 DEF SpawnsIn
<3> QED
  BY <2>2, <3>1 DEF Own
<2> QED
  BY <1>1, <1>4, <2>1, <2>2
<1>7. ASSUME NEW r \in c["stage_spawns"]
      PROVE  CountedIn(c["stage_enemies"], r) /\ LinkedIn(c["stage_enemy_variants"], r, LevelOfRow(r, File(r)))
<2>1. CASE r \in b["stage_spawns"]
<3>1. CountedIn(b["stage_enemies"], r) /\ LinkedIn(b["stage_enemy_variants"], r, LevelOfRow(r, File(r)))
  BY <1>1, <1>2, <2>1 DEF Story
<3> QED
  BY <1>1, <1>4, <3>1, TellsMore
<2>2. CASE r \in Own("stage_spawns")
<3>1. CountedIn(Own("stage_enemies"), r) /\ LinkedIn(Own("stage_enemy_variants"), r, LevelOfRow(r, File(r)))
  BY <1>1, <1>3, <2>2 DEF Own
<3> QED
  BY <1>1, <1>4, <3>1, TellsMore
<2> QED
  BY <1>1, <1>4, <2>1, <2>2
<1>8. ASSUME NEW r \in c["stage_routes"]
      PROVE  BoardIn(c["stage_tiles"], r, LevelOfRow(r, File(r)))
<2>1. CASE r \in b["stage_routes"]
<3>1. BoardIn(b["stage_tiles"], r, LevelOfRow(r, File(r)))
  BY <1>1, <1>2, <2>1 DEF Story
<3> QED
  BY <1>1, <1>4, <3>1, TellsMore
<2>2. CASE r \in Own("stage_routes")
<3>1. BoardIn(Own("stage_tiles"), r, LevelOfRow(r, File(r)))
  BY <1>1, <1>3, <2>2 DEF Own
<3> QED
  BY <1>1, <1>4, <3>1, TellsMore
<2> QED
  BY <1>1, <1>4, <2>1, <2>2
<1>9. \A x \in c["enemies"] : x.key = <<x.key[1], x.key[2]>>
  BY DEF Story
<1> QED
  BY <1>5, <1>6, <1>7, <1>8, <1>9 DEF Story, File

(* the stages' step a further server's story. *)
LEMMA StagesStory ==
  ASSUME TypeOK, Opened, NEW s \in Servers, ImportOneStages(s), Story(db, given),
         <<s, "stages">> \notin DOMAIN given, DOMAIN given \subseteq DOMAIN given',
         \A k \in DOMAIN given : given'[k] = given[k]
  PROVE  Story(db', given')
<1>1. PICK raw \in {Ordinary["stages"]} \cup Irregular["stages"] :
        Read(s, "stages", raw) /\ FailClosed(ImportStages(s, raw, db))
  BY DEF ImportOneStages, Files
<1> DEFINE result == ImportStages(s, raw, db)
           rows   == result.rows
<1>2. <<s, "stages">> \in DOMAIN given' /\ given'[<<s, "stages">>] = raw
  BY <1>1 DEF Read
<1>3. CASE result.error # "none"
<2>1. db' = db
<3> HIDE DEF result
<3> QED
  BY <1>1, <1>3 DEF FailClosed, result
<2>2. \A x \in db["enemies"] : x.key = <<x.key[1], x.key[2]>>
  BY DEF Story
<2> QED
  BY <2>1, <2>2, StoryKept
<1>4. CASE result.error = "none"
<2>1. Insert(rows)
<3> HIDE DEF result
<3> QED
  BY <1>1, <1>4 DEF FailClosed, result
<2>2. /\ raw.shape \in {"absent", "corrupt", "foreign", "ok"}
      /\ raw.shape = "ok" => \A f \in DOMAIN raw.files : LevelFile(raw.files[f])
  BY FilesAssumption
<2>3. \A x \in db["enemies"] : x.key = <<x.key[1], x.key[2]>>
  BY DEF Story
<2>4. /\ \A t \in LevelTables : \A x \in RowsOf(rows, t) : x.key[1] = s
      /\ \A e \in RowsOf(rows, "stage_enemies") : TalliedIn(SpawnsIn(RowsOf(rows, "stage_spawns"), e), e)
      /\ \A r \in RowsOf(rows, "stage_spawns") :
           /\ CountedIn(RowsOf(rows, "stage_enemies"), r)
           /\ LinkedIn(RowsOf(rows, "stage_enemy_variants"), r, LevelOfRow(r, raw))
      /\ \A r \in RowsOf(rows, "stage_routes") : BoardIn(RowsOf(rows, "stage_tiles"), r, LevelOfRow(r, raw))
  BY <1>4, <2>2, <2>3, StagesTell
<2>5. \A t \in LevelTables : db'[t] = db[t] \cup RowsOf(rows, t)
<3> HIDE DEF result
<3> QED
  BY <2>1, StoryTables, GameTables DEF Insert
<2>6. db'["enemies"] = db["enemies"]
<3>1. Fed(s, "stages") /\ DOMAIN db = Tables
  BY StagesFeed DEF TypeOK
<3>2. "stages" \in ServerKinds
  BY DEF ServerKinds, InBuildKinds
<3>3. "enemies" \in Tables /\ "enemies" \notin StepTables("stages") \cup {"source_snapshots", "record_provenance"}
  BY <3>2, StoryTables, GameTables
<3>4. db["enemies"] \subseteq db'["enemies"]
  BY <3>1, <3>3, FedGrows
<3>5. \A x \in db'["enemies"] : x \in db["enemies"]
  BY <3>1, <3>3, FedRows
<3> QED
  BY <3>4, <3>5
<2> HIDE DEF result
<2> QED
  BY <1>2, <2>4, <2>5, <2>6, StoryJoined, SMTT(30)
<1> QED
  BY <1>3, <1>4

(* So every step keeps it. *)
LEMMA StoryNext ==
  ASSUME RefInv, Once, Story(db, given), Next
  PROVE  Story(db', given')
<1>1. TypeOK /\ Opened /\ DOMAIN db = Tables
  BY DEF RefInv, TypeOK
<1>2. \A x \in db["enemies"] : x.key = <<x.key[1], x.key[2]>>
  BY DEF Story
<1>3. ASSUME NEW s \in Servers, ServerStep(s) PROVE Story(db', given')
<2>1. PICK d \in ServerKinds : Due(s, d) /\ Fed(s, d)
  BY <1>1, <1>3, ServerStepFeeds DEF ServerKinds
<2>2. <<s, d>> \notin DOMAIN given
  BY <1>1, <2>1, FirstTime
<2>3. /\ DOMAIN given \subseteq DOMAIN given'
      /\ \A k \in DOMAIN given : given'[k] = given[k]
<3>1. ASSUME NEW raw, Read(s, d, raw)
      PROVE  /\ DOMAIN given' = DOMAIN given \cup {<<s, d>>}
             /\ \A k \in DOMAIN given \ {<<s, d>>} : given'[k] = given[k]
  BY <3>1 DEF Read
<3>2. Reads(s, d)
  BY <1>3, <2>1, StepReads
<3> QED
  BY <2>2, <3>1, <3>2 DEF Reads
<2>4. \A x : Due(s, x) => x = d
  BY <2>1 DEF Due
<2>5. CASE d = "stages"
<3>1. ImportOneStages(s)
  BY <1>3, <2>4, <2>5 DEF ServerStep, Optional, ImportOneEnemies, ImportOneOperators,
     ImportOneModules, ImportOneOptional, RideAlongPenguin, RideAlongAnnouncements
<3> QED
  BY <1>1, <2>2, <2>3, <2>5, <3>1, StagesStory
<2>6. CASE d # "stages"
<3>1. ASSUME NEW t \in LevelTables PROVE db'[t] = db[t]
<4>1. t \in Tables /\ t \notin StepTables(d) \cup {"source_snapshots", "record_provenance"}
  BY <2>1, <2>6, StoryTables, GameTables
<4>2. db[t] \subseteq db'[t]
  BY <1>1, <2>1, <4>1, FedGrows
<4>3. \A x \in db'[t] : x \in db[t]
  BY <1>1, <2>1, <4>1, FedRows
<4> QED
  BY <4>2, <4>3
<3>2. ASSUME NEW x \in db'["enemies"], x \notin db["enemies"] PROVE x.key = <<x.key[1], x.key[2]>>
<4>1. d = "enemies"
  BY <1>1, <2>1, <3>2, FedRows, StoryTables, GameTables
<4>2. ImportOneEnemies(s)
  BY <1>3, <2>4, <4>1 DEF ServerStep, Optional, ImportOneStages, ImportOneOperators,
     ImportOneModules, ImportOneOptional, RideAlongPenguin, RideAlongAnnouncements
<4> QED
  BY <1>1, <3>2, <4>2, EnemiesPaired
<3>3. \A x \in db'["enemies"] : x.key = <<x.key[1], x.key[2]>>
  BY <1>2, <3>2
<3> QED
  BY <2>3, <3>1, <3>3, StoryKept
<2> QED
  BY <2>5, <2>6
<1>4. CASE IndexBuild \/ Reindex \/ Gate
<2>1. Reindexed /\ given' = given
  BY <1>1, <1>4, IndexBuilt, IndexRebuilt DEF Reindexed, Gate, IndexBuild, Reindex
<2>2. \A t \in LevelTables \cup {"enemies"} : db'[t] = db[t]
  BY <2>1, StoryTables DEF Reindexed
<2> QED
  BY <1>2, <2>1, <2>2, StoryKept
<1>5. CASE Ended
  BY <1>5 DEF Ended, vars, Story
<1> QED
  BY <1>3, <1>4, <1>5, NextSplit

(* The tables read off one level file tell one story (insert_level,
   normalize_level): a total is the sum of its spawns, every spawn is counted,
   an inline variant and its base agree, a route starts on its tile. *)
THEOREM LevelsAlwaysConsistent == Spec => []LevelsConsistent
<1>1. Init => Once /\ Story(db, given)
<2> SUFFICES ASSUME Init PROVE Once /\ Story(db, given)
  OBVIOUS
<2>1. Once
  BY DEF Init, Once
<2>2. \A t \in LevelTables \cup {"enemies"} : db[t] = {}
  BY StoryTables, GameTables DEF Init
<2>3. LevelTables = {"stage_tiles", "stage_routes", "stage_enemy_variants", "stage_spawns", "stage_enemies"}
  BY DEF LevelTables
<2> QED
  BY <2>1, <2>2, <2>3 DEF Story
<1>2. RefInv /\ Once /\ Story(db, given) /\ [Next]_vars => (Once /\ Story(db, given))'
<2>1. RefInv /\ Once /\ Story(db, given) /\ Next => (Once /\ Story(db, given))'
  BY OnceNext, StoryNext DEF RefInv
<2>2. Once /\ Story(db, given) /\ UNCHANGED vars => (Once /\ Story(db, given))'
  BY DEF Once, Story, vars
<2> QED
  BY <2>1, <2>2
<1>3. Story(db, given) => LevelsConsistent
<2> SUFFICES ASSUME Story(db, given) PROVE LevelsConsistent
  OBVIOUS
<2>1. ASSUME NEW e \in db["stage_enemies"] PROVE Tallied(e)
<3>1. SpawnsOf(e) = SpawnsIn(db["stage_spawns"], e)
  BY Zenon DEF SpawnsOf, SpawnsIn
<3>2. TalliedIn(SpawnsOf(e), e)
  BY <3>1 DEF Story
<3> QED
  BY <3>2, Zenon DEF Tallied, TalliedIn, Spans
<2>2. ASSUME NEW r \in db["stage_spawns"] PROVE Counted(r) /\ Linked(r)
<3> DEFINE lv == LevelOfRow(r, given[<<r.key[1], "stages">>])
<3>1. CountedIn(db["stage_enemies"], r) /\ LinkedIn(db["stage_enemy_variants"], r, lv)
  BY DEF Story
<3>2. Counted(r)
  BY <3>1, Zenon DEF Counted, CountedIn, Has
<3>3. Linked(r)
  BY <3>1, Zenon DEF Linked, LinkedIn, LevelOfRow
<3> QED
  BY <3>2, <3>3
<2>3. ASSUME NEW r \in db["stage_routes"] PROVE OnBoard(r)
<3>1. BoardIn(db["stage_tiles"], r, LevelOfRow(r, given[<<r.key[1], "stages">>]))
  BY DEF Story
<3> QED
  BY <3>1, Zenon DEF OnBoard, BoardIn, LevelOfRow
<2> QED
  BY <2>1, <2>2, <2>3 DEF LevelsConsistent
<1> QED
  BY <1>1, <1>2, <1>3, RefInvariant, PTL DEF Spec
===============================================================================
