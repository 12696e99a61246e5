----------------------------- MODULE Account_proofs -----------------------------
(***************************************************************************)
(* Theorems about Account for every finite set of processes and every set  *)
(* of readers.                                                             *)
(***************************************************************************)
EXTENDS Account, FiniteSetTheorems, SequenceTheorems, TLAPS

(* Which commands get where, and what they have done by then. *)
PhaseOf(r) ==
  /\ r.pc = "session" => r.kind = "sync"
  /\ r.pc \in {"check", "confirm", "request"} => r.kind \in {"login", "sync"}
  /\ r.pc \in {"code", "save"} => r.kind = "login"
  /\ r.pc \in {"confirm", "request", "code", "save"} => r.proven
  /\ r.pc \in {"request", "code", "save"} => r.confirmed
  /\ r.sent => r.kind \in {"login", "sync"} /\ r.proven /\ r.confirmed
  /\ r.pc = "insert" => r.kind = "sync"
  /\ r.pc \in {"delete", "deleting", "commit"} => r.kind \in {"sync", "purge"}
  /\ r.pc = "remove" => r.kind \in {"logout", "purge"}
  /\ r.pc # "end" => r.told = "nothing" /\ ~r.lost
  /\ r.pc = "idle" => ~r.sent
Phase == \A p \in Procs : PhaseOf(run[p])
PhaseInv == TypeOK /\ Phase

-------------------------------------------------------------------------------

LEMMA InitPhase == Init => PhaseInv
<1> SUFFICES ASSUME Init PROVE PhaseInv
  OBVIOUS
<1>1. row \in Rows /\ <<row>> \in Seq(Rows)
  BY DEF Init, Rows
<1>2. Fresh \in Run
  BY DEF Fresh, Run, Kinds, Pcs, Told, Rows
<1>3. TypeOK
<2>1. replaced \in [Procs -> Rows]
  BY DEF Init, Rows
<2> QED
  BY <1>1, <1>2, <2>1 DEF Init, TypeOK
<1>4. Phase
  BY DEF Init, Phase, PhaseOf, Fresh
<1> QED
  BY <1>3, <1>4 DEF PhaseInv

(* The steps that move one process and nothing of the others. *)
Moves(p, r) == run' = [run EXCEPT ![p] = r]

LEMMA MoveType ==
  ASSUME TypeOK, NEW p \in Procs, NEW r \in Run, Moves(p, r)
  PROVE  run' \in [Procs -> Run]
  BY DEF TypeOK, Moves

LEMMA StartPhase ==
  ASSUME NEW r \in Run, PhaseOf(r), r.pc = "idle", NEW kind \in Kinds, NEW alone \in BOOLEAN
  PROVE  /\ [r EXCEPT !.kind = kind, !.pc = First(kind), !.alone = alone] \in Run
         /\ PhaseOf([r EXCEPT !.kind = kind, !.pc = First(kind), !.alone = alone])
<1> DEFINE s == [r EXCEPT !.kind = kind, !.pc = First(kind), !.alone = alone]
<1>1. First(kind) \in {"session", "check", "remove", "delete"}
  BY DEF First, Kinds
<1>2. s \in Run
  BY <1>1 DEF Run, Pcs
<1>3. s.kind = kind /\ s.pc = First(kind) /\ s.sent = FALSE /\ s.told = "nothing" /\ s.lost = FALSE
  BY DEF Run, PhaseOf
<1>4. PhaseOf(s)
  BY <1>3 DEF PhaseOf, First, Kinds
<1> QED
  BY <1>2, <1>4

LEMMA StepPhase ==
  ASSUME PhaseInv, NEW p \in Procs, Step(p)
  PROVE  run' \in [Procs -> Run] /\ Phase'
<1> USE DEF PhaseInv
<1>0. run \in [Procs -> Run] /\ run[p] \in Run
  BY DEF TypeOK
<1> DEFINE Good == run' \in [Procs -> Run] /\ Phase'
<1>1. CASE Start(p)
  <2>1. PICK kind \in Kinds :
          run' = [q \in Procs |->
                 IF q = p THEN [run[p] EXCEPT !.kind = kind, !.pc = First(kind),
                                              !.alone = \A o \in Procs : ~Active(o)]
                 ELSE [run[q] EXCEPT !.alone = @ /\ ~Active(q)]]
    BY <1>1 DEF Start
  <2>2. ASSUME NEW q \in Procs PROVE run'[q] \in Run /\ PhaseOf(run'[q])
    <3>1. run[q] \in Run /\ PhaseOf(run[q])
      BY DEF Phase, TypeOK
    <3>2. CASE q = p
      <4>1. PICK alone \in BOOLEAN : alone = (\A o \in Procs : ~Active(o))
        OBVIOUS
      <4>2. run'[q] = [run[q] EXCEPT !.kind = kind, !.pc = First(kind), !.alone = alone]
        BY <2>1, <3>2, <4>1
      <4>3. run[q].pc = "idle"
        BY <1>1, <3>2 DEF Start, At
      <4> DEFINE r == run[q]
      <4>4. /\ [r EXCEPT !.kind = kind, !.pc = First(kind), !.alone = alone] \in Run
            /\ PhaseOf([r EXCEPT !.kind = kind, !.pc = First(kind), !.alone = alone])
        BY <3>1, <4>3, StartPhase
      <4> QED
        BY <4>2, <4>4
    <3>3. CASE q # p
      <4>1. run'[q] = [run[q] EXCEPT !.alone = @ /\ ~Active(q)]
        BY <2>1, <3>3
      <4> QED
        BY <3>1, <4>1 DEF Run, PhaseOf
    <3> QED
      BY <3>2, <3>3
  <2>3. run' \in [Procs -> Run]
    BY <2>1, <2>2
  <2> QED
    BY <2>2, <2>3 DEF Phase
<1>2. ASSUME NEW r \in Run, Moves(p, r), PhaseOf(r) PROVE Good
  <2>1. \A q \in Procs : run'[q] = IF q = p THEN r ELSE run[q]
    BY <1>0, <1>2 DEF Moves
  <2>2. run' \in [Procs -> Run]
    BY <1>2, MoveType
  <2> QED
    BY <1>2, <2>1, <2>2 DEF Phase
<1>3. PhaseOf(run[p])
  BY DEF Phase
<1>4. ASSUME NEW told \in {"done", "failed", "cancelled"}, NEW lost \in BOOLEAN, Ended(p, told, lost) PROVE Good
  <2> DEFINE r == [run[p] EXCEPT !.pc = "end", !.told = told, !.lost = lost, !.target = NoRow,
                                 !.deleted = FALSE, !.inserted = FALSE]
  <2>1. r \in Run
    BY <1>0 DEF Run, Pcs, Told, Rows
  <2>2. PhaseOf(r)
    BY <1>0, <1>3 DEF PhaseOf, Run
  <2>3. Moves(p, r)
    BY <1>4 DEF Ended, Moves
  <2> QED
    BY <1>2, <2>1, <2>2, <2>3
<1>5. ASSUME NEW pc \in Pcs, Go(p, pc), PhaseOf([run[p] EXCEPT !.pc = pc]) PROVE Good
  <2>1. [run[p] EXCEPT !.pc = pc] \in Run
    BY <1>0 DEF Run
  <2>2. Moves(p, [run[p] EXCEPT !.pc = pc])
    BY <1>5 DEF Go, Moves
  <2> QED
    BY <1>2, <1>5, <2>1, <2>2
<1>6. CASE ReadSession(p)
  <2>1. PhaseOf([run[p] EXCEPT !.pc = "check"])
    BY <1>0, <1>3, <1>6 DEF ReadSession, At, PhaseOf, Run
  <2> QED
    BY <1>4, <1>5, <1>6, <2>1 DEF ReadSession, Ends, Pcs
<1>7. CASE CheckWritable(p)
  <2> DEFINE r == [run[p] EXCEPT !.pc = "confirm", !.proven = TRUE]
  <2>1. r \in Run
    BY <1>0 DEF Run, Pcs
  <2>2. PhaseOf(r)
    BY <1>0, <1>3, <1>7 DEF CheckWritable, At, PhaseOf, Run
  <2>3. Moves(p, r)
    BY <1>7 DEF CheckWritable, Moves
  <2> QED
    BY <1>2, <2>1, <2>2, <2>3
<1>8. CASE Confirm(p)
  <2> DEFINE r == [run[p] EXCEPT !.pc = "request", !.confirmed = TRUE]
  <2>1. r \in Run
    BY <1>0 DEF Run, Pcs
  <2>2. PhaseOf(r)
    BY <1>0, <1>3, <1>8 DEF Confirm, At, PhaseOf, Run
  <2>3. Moves(p, r) \/ Ends(p, "cancelled")
    BY <1>8 DEF Confirm, Moves
  <2> QED
    BY <1>2, <1>4, <2>1, <2>2, <2>3 DEF Ends
<1>9. CASE Request(p)
  <2> DEFINE on  == [run[p] EXCEPT !.pc = After(p), !.sent = TRUE]
             off == [run[p] EXCEPT !.pc = "end", !.sent = TRUE, !.told = "failed"]
  <2>1. on \in Run /\ off \in Run
    BY <1>0 DEF Run, Pcs, Told, After
  <2>2. PhaseOf(on) /\ PhaseOf(off)
    BY <1>0, <1>3, <1>9 DEF Request, At, After, PhaseOf, Run, Kinds
  <2>3. Moves(p, on) \/ Moves(p, off)
    BY <1>9 DEF Request, Moves
  <2> QED
    BY <1>2, <2>1, <2>2, <2>3
<1>10. CASE Code(p)
  <2>1. PhaseOf([run[p] EXCEPT !.pc = "request"])
    BY <1>0, <1>3, <1>10 DEF Code, At, PhaseOf, Run
  <2> QED
    BY <1>4, <1>5, <1>10, <2>1 DEF Code, Ends, Pcs
<1>11. CASE WriteSession(p) \/ RemoveSession(p) \/ Breaks(p)
  BY <1>4, <1>11 DEF WriteSession, RemoveSession, Breaks, Ends
<1>12. CASE StartDelete(p)
  <2> DEFINE r == [run[p] EXCEPT !.pc = "deleting", !.target = row]
  <2>1. r \in Run
    BY <1>0 DEF Run, Pcs, TypeOK
  <2>2. PhaseOf(r)
    BY <1>0, <1>3, <1>12 DEF StartDelete, At, PhaseOf, Run
  <2>3. Moves(p, r)
    BY <1>12 DEF StartDelete, Moves
  <2> QED
    BY <1>2, <2>1, <2>2, <2>3
<1>13. CASE FinishDelete(p)
  <2> DEFINE r == [run[p] EXCEPT !.pc = IF run[p].kind = "sync" THEN "insert" ELSE "commit",
                                 !.deleted = row # NoRow /\ row = run[p].target]
  <2>1. r \in Run
    BY <1>0 DEF Run, Pcs
  <2>2. PhaseOf(r)
    BY <1>0, <1>3, <1>13 DEF FinishDelete, At, PhaseOf, Run
  <2>3. Moves(p, r)
    BY <1>13 DEF FinishDelete, Moves
  <2> QED
    BY <1>2, <2>1, <2>2, <2>3
<1>14. CASE Insert(p)
  <2> DEFINE r == [run[p] EXCEPT !.pc = "commit", !.inserted = TRUE]
  <2>1. r \in Run
    BY <1>0 DEF Run, Pcs
  <2>2. PhaseOf(r)
    BY <1>0, <1>3, <1>14 DEF Insert, At, PhaseOf, Run
  <2>3. Moves(p, r) \/ Ends(p, "failed")
    BY <1>14 DEF Insert, Moves
  <2> QED
    BY <1>2, <1>4, <2>1, <2>2, <2>3 DEF Ends
<1>15. CASE Commit(p)
  <2>1. run[p].kind = "purge" => PhaseOf([run[p] EXCEPT !.pc = "remove"])
    BY <1>0, <1>3, <1>15 DEF Commit, At, PhaseOf, Run
  <2> QED
    BY <1>4, <1>5, <1>15, <2>1 DEF Commit, Ends, Pcs
<1> QED
  BY <1>1, <1>6, <1>7, <1>8, <1>9, <1>10, <1>11, <1>12, <1>13, <1>14, <1>15 DEF Step

LEMMA StepType ==
  ASSUME TypeOK, NEW p \in Procs, Step(p)
  PROVE  /\ session' \in {"none", "saved", "unreadable"} /\ row' \in Rows /\ table' \in BOOLEAN
         /\ reader' \in [Readers -> Rows \cup {"nothing", "table"}] /\ log' \in Seq(Rows)
         /\ replaced' \in [Procs -> Rows]
<1>1. CASE Commit(p)
  <2>1. Outcome(p) \in Rows
    BY DEF Outcome, Rows, TypeOK
  <2>2. Append(log, Outcome(p)) \in Seq(Rows)
    BY <2>1 DEF TypeOK
  <2>3. replaced' \in [Procs -> Rows]
    <3>1. run[p].target \in Rows /\ NoRow \in Rows
      BY DEF TypeOK, Run, Rows
    <3> QED
      BY <1>1, <3>1 DEF Commit, Applied, TypeOK
  <2> QED
    BY <1>1, <2>1, <2>2, <2>3 DEF Commit, Applied, TypeOK
<1>2. CASE ~Commit(p)
  BY <1>2 DEF Step, TypeOK, Start, ReadSession, CheckWritable, Confirm, Request, Code, WriteSession,
              StartDelete, FinishDelete, Insert, RemoveSession, Breaks
<1> QED
  BY <1>1, <1>2

LEMMA ReadType ==
  ASSUME TypeOK, NEW r \in Readers, HasTable(r) \/ Select(r)
  PROVE  TypeOK' /\ UNCHANGED <<session, row, table, run, log, replaced>>
<1>1. reader' \in [Readers -> Rows \cup {"nothing", "table"}]
  BY DEF TypeOK, HasTable, Select, Rows
<1>2. UNCHANGED <<session, row, table, run, log, replaced>>
  BY DEF HasTable, Select
<1> QED
  BY <1>1, <1>2 DEF TypeOK

LEMMA NextPhase == PhaseInv /\ [Next]_vars => PhaseInv'
<1> SUFFICES ASSUME PhaseInv, [Next]_vars PROVE PhaseInv'
  OBVIOUS
<1>1. ASSUME NEW p \in Procs, Step(p) PROVE PhaseInv'
  BY <1>1, StepPhase, StepType DEF PhaseInv, TypeOK
<1>2. ASSUME NEW r \in Readers, HasTable(r) \/ Select(r) PROVE PhaseInv'
  BY <1>2, ReadType DEF PhaseInv, Phase
<1>3. CASE UNCHANGED vars
  BY <1>3 DEF vars, PhaseInv, TypeOK, Phase
<1> QED
  BY <1>1, <1>2, <1>3 DEF Next

(* The variables stay in their types, and every command in its phases: the
   invariant the others lean on. *)
THEOREM AccountPhases == Spec => []PhaseInv
<1>1. Init => PhaseInv
  BY InitPhase
<1>2. PhaseInv /\ [Next]_vars => PhaseInv'
  BY NextPhase
<1> QED
  BY <1>1, <1>2, PTL DEF Spec

(* No request leaves for Yostar or the game server but from a login or a sync
   that has proven its database writable and whose owner confirmed. *)
THEOREM AccountSent == Spec => []SentOnlyProven
<1>1. PhaseInv => SentOnlyProven
  BY DEF PhaseInv, Phase, PhaseOf, SentOnlyProven
<1> QED
  BY <1>1, AccountPhases, PTL

-------------------------------------------------------------------------------

(* What a step does to the process that takes it, and to the others. *)
LEMMA StepOthers ==
  ASSUME PhaseInv, NEW p \in Procs, Step(p), NEW q \in Procs, q # p
  PROVE  /\ run'[q].kind = run[q].kind /\ run'[q].pc = run[q].pc /\ run'[q].told = run[q].told
         /\ run'[q].lost = run[q].lost /\ run'[q].deleted = run[q].deleted
         /\ run'[q].target = run[q].target /\ run'[q].inserted = run[q].inserted
         /\ run'[q].alone => run[q].alone
         /\ ~Start(p) => run'[q] = run[q]
<1>1. run \in [Procs -> Run] /\ run[q] \in Run
  BY DEF PhaseInv, TypeOK
<1>2. CASE Start(p)
  <2>1. PICK kind \in Kinds :
          run' = [o \in Procs |->
                 IF o = p THEN [run[p] EXCEPT !.kind = kind, !.pc = First(kind),
                                              !.alone = \A i \in Procs : ~Active(i)]
                 ELSE [run[o] EXCEPT !.alone = @ /\ ~Active(o)]]
    BY <1>2 DEF Start
  <2>2. run'[q] = [run[q] EXCEPT !.alone = @ /\ ~Active(q)]
    BY <2>1
  <2> QED
    BY <1>1, <1>2, <2>2 DEF Run
<1>3. CASE ~Start(p)
  <2>1. run'[q] = run[q]
    BY <1>1, <1>3 DEF Step, ReadSession, CheckWritable, Confirm, Request, Code, WriteSession, StartDelete,
                      FinishDelete, Insert, Commit, RemoveSession, Breaks, Go, Ends, Ended
  <2> QED
    BY <2>1, <1>3
<1> QED
  BY <1>2, <1>3

(* A start gives the process its kind and its first step. *)
LEMMA StepStart ==
  ASSUME PhaseInv, NEW p \in Procs, Start(p)
  PROVE  /\ run[p].pc = "idle" /\ UNCHANGED <<session, row, table, reader, log, replaced>>
         /\ run'[p].kind \in Kinds /\ run'[p].pc = First(run'[p].kind) /\ run'[p].told = "nothing"
         /\ run'[p].lost = run[p].lost /\ run'[p].inserted = run[p].inserted
         /\ run'[p].alone <=> \A o \in Procs : ~Active(o)
         /\ \A q \in Procs \ {p} : run'[q].alone <=> run[q].alone /\ ~Active(q)
<1>1. run \in [Procs -> Run]
  BY DEF PhaseInv, TypeOK
<1>2. PICK kind \in Kinds :
        run' = [q \in Procs |->
                 IF q = p THEN [run[p] EXCEPT !.kind = kind, !.pc = First(kind),
                                              !.alone = \A o \in Procs : ~Active(o)]
                 ELSE [run[q] EXCEPT !.alone = @ /\ ~Active(q)]]
  BY DEF Start
<1>3. PICK alone \in BOOLEAN : alone = (\A o \in Procs : ~Active(o))
  OBVIOUS
<1>4. run'[p] = [run[p] EXCEPT !.kind = kind, !.pc = First(kind), !.alone = alone]
  BY <1>2, <1>3
<1>5. /\ run'[p].kind = kind /\ run'[p].pc = First(kind) /\ run'[p].told = run[p].told
      /\ run'[p].lost = run[p].lost /\ run'[p].inserted = run[p].inserted /\ run'[p].alone = alone
  BY <1>1, <1>4 DEF Run
<1>6. run[p].pc = "idle" /\ UNCHANGED <<session, row, table, reader, log, replaced>>
  BY DEF Start, At
<1>7. run[p].told = "nothing"
  BY <1>6 DEF PhaseInv, Phase, PhaseOf
<1>8. ASSUME NEW q \in Procs \ {p} PROVE run'[q].alone <=> run[q].alone /\ ~Active(q)
  <2>1. run'[q] = [run[q] EXCEPT !.alone = @ /\ ~Active(q)]
    BY <1>2
  <2>2. run[q] \in Run
    BY <1>1
  <2> QED
    BY <2>1, <2>2 DEF Run
<1> QED
  BY <1>3, <1>5, <1>6, <1>7, <1>8

LEMMA EndedEffect ==
  ASSUME TypeOK, NEW p \in Procs, NEW told, NEW lost, Ended(p, told, lost)
  PROVE  /\ run'[p].pc = "end" /\ run'[p].told = told /\ run'[p].lost = lost
         /\ run'[p].kind = run[p].kind /\ run'[p].alone = run[p].alone /\ run'[p].inserted = FALSE
<1> DEFINE r == [run[p] EXCEPT !.pc = "end", !.told = told, !.lost = lost, !.target = NoRow,
                               !.deleted = FALSE, !.inserted = FALSE]
<1>1. run \in [Procs -> Run] /\ run[p] \in Run
  BY DEF TypeOK
<1>2. run'[p] = r
  BY <1>1 DEF Ended
<1>3. /\ r.pc = "end" /\ r.told = told /\ r.lost = lost /\ r.inserted = FALSE
      /\ r.kind = run[p].kind /\ r.alone = run[p].alone
  BY <1>1 DEF Run
<1> QED
  BY <1>2, <1>3

LEMMA GoEffect ==
  ASSUME TypeOK, NEW p \in Procs, NEW pc, Go(p, pc)
  PROVE  /\ run'[p].pc = pc /\ run'[p].told = run[p].told
         /\ run'[p].kind = run[p].kind /\ run'[p].alone = run[p].alone
         /\ run'[p].inserted = run[p].inserted
  BY DEF TypeOK, Go, Run

LEMMA StepSelf ==
  ASSUME PhaseInv, NEW p \in Procs, Step(p), ~Start(p), ~Commit(p)
  PROVE  /\ Active(p) /\ UNCHANGED <<row, reader, log, replaced>> /\ (table => table')
         /\ run'[p].kind = run[p].kind
         /\ run'[p].told = "done" => run[p].kind # "sync"
         /\ run[p].kind = "purge" /\ run'[p].told = "done" => run[p].pc = "remove" /\ session' = "none"
         /\ run[p].kind = "purge" /\ session' # session => run[p].pc = "remove"
         /\ run[p].pc = "remove" => run'[p].pc = "end"
         /\ run'[p].alone = run[p].alone
         /\ run'[p].pc \notin {"remove", "idle"}
         /\ run'[p].pc = "deleting" => run'[p].target = row
         /\ run'[p].pc = "commit" /\ run[p].kind = "purge" =>
              run[p].pc = "deleting" /\ run'[p].deleted = (row # NoRow /\ row = run[p].target)
<1>1. run \in [Procs -> Run] /\ run[p] \in Run /\ PhaseOf(run[p])
  BY DEF PhaseInv, Phase, TypeOK
<1>2. TypeOK
  BY DEF PhaseInv
<1> USE DEF At, PhaseOf, Active
<1>3. CASE ReadSession(p)
  <2>1. Go(p, "check") \/ Ended(p, "failed", FALSE)
    BY <1>3 DEF ReadSession, Ends
  <2>2. CASE Go(p, "check")
    BY <1>1, <1>2, <1>3, <2>2, GoEffect DEF ReadSession
  <2>3. CASE Ended(p, "failed", FALSE)
    <3>1. /\ run'[p].pc = "end" /\ run'[p].told = "failed" /\ run'[p].kind = run[p].kind
          /\ run'[p].alone = run[p].alone
      BY <1>2, <2>3, EndedEffect
    <3> QED
      BY <1>1, <1>3, <3>1 DEF ReadSession
  <2> QED
    BY <2>1, <2>2, <2>3
<1>4. CASE Code(p)
  <2>1. Go(p, "request") \/ Ended(p, "cancelled", FALSE)
    BY <1>4 DEF Code, Ends
  <2>2. CASE Go(p, "request")
    BY <1>1, <1>2, <1>4, <2>2, GoEffect DEF Code
  <2>3. CASE Ended(p, "cancelled", FALSE)
    <3>1. /\ run'[p].pc = "end" /\ run'[p].told = "cancelled" /\ run'[p].kind = run[p].kind
          /\ run'[p].alone = run[p].alone
      BY <1>2, <2>3, EndedEffect
    <3> QED
      BY <1>1, <1>4, <3>1 DEF Code
  <2> QED
    BY <2>1, <2>2, <2>3
<1>5. CASE CheckWritable(p)
  BY <1>1, <1>2, <1>5 DEF CheckWritable, TypeOK, Run
<1>6. CASE Confirm(p)
  <2>1. CASE run' = [run EXCEPT ![p].pc = "request", ![p].confirmed = TRUE]
    BY <1>1, <1>6, <2>1 DEF Confirm, Run
  <2>2. CASE Ended(p, "cancelled", FALSE)
    <3>1. /\ run'[p].pc = "end" /\ run'[p].told = "cancelled" /\ run'[p].kind = run[p].kind
          /\ run'[p].alone = run[p].alone
      BY <1>2, <2>2, EndedEffect
    <3> QED
      BY <1>1, <1>6, <3>1 DEF Confirm
  <2> QED
    BY <1>6, <2>1, <2>2 DEF Confirm, Ends
<1>7. CASE Request(p)
  BY <1>1, <1>7 DEF Request, After, Run
<1>8. CASE WriteSession(p)
  <2>1. Ended(p, "done", FALSE)
    BY <1>8 DEF WriteSession, Ends
  <2>2. /\ run'[p].pc = "end" /\ run'[p].told = "done" /\ run'[p].kind = run[p].kind
        /\ run'[p].alone = run[p].alone
    BY <1>2, <2>1, EndedEffect
  <2> QED
    BY <1>1, <1>8, <2>2 DEF WriteSession
<1>9. CASE RemoveSession(p)
  <2>1. Ended(p, "done", FALSE)
    BY <1>9 DEF RemoveSession, Ends
  <2>2. /\ run'[p].pc = "end" /\ run'[p].told = "done" /\ run'[p].kind = run[p].kind
        /\ run'[p].alone = run[p].alone
    BY <1>2, <2>1, EndedEffect
  <2> QED
    BY <1>1, <1>9, <2>2 DEF RemoveSession
<1>10. CASE StartDelete(p)
  BY <1>1, <1>10 DEF StartDelete, Run
<1>11. CASE Insert(p)
  <2>1. CASE run' = [run EXCEPT ![p].pc = "commit", ![p].inserted = TRUE]
    BY <1>1, <1>11, <2>1 DEF Insert, Run
  <2>2. CASE Ended(p, "failed", FALSE)
    <3>1. /\ run'[p].pc = "end" /\ run'[p].told = "failed" /\ run'[p].kind = run[p].kind
          /\ run'[p].alone = run[p].alone
      BY <1>2, <2>2, EndedEffect
    <3> QED
      BY <1>1, <1>11, <3>1 DEF Insert
  <2> QED
    BY <1>11, <2>1, <2>2 DEF Insert, Ends
<1>12. CASE FinishDelete(p)
  BY <1>1, <1>12 DEF FinishDelete, Run
<1>13. CASE Breaks(p)
  <2>1. Ended(p, "failed", FALSE)
    BY <1>13 DEF Breaks, Ends
  <2>2. /\ run'[p].pc = "end" /\ run'[p].told = "failed" /\ run'[p].kind = run[p].kind
        /\ run'[p].alone = run[p].alone
    BY <1>2, <2>1, EndedEffect
  <2> QED
    BY <1>1, <1>13, <2>2 DEF Breaks
<1> QED
  BY <1>3, <1>4, <1>5, <1>6, <1>7, <1>8, <1>9, <1>10, <1>11, <1>12, <1>13 DEF Step

LEMMA StepCommit ==
  ASSUME PhaseInv, NEW p \in Procs, Commit(p)
  PROVE  /\ run[p].pc = "commit" /\ run[p].kind \in {"sync", "purge"}
         /\ UNCHANGED <<session, reader>> /\ Applied(p)
         /\ run'[p].kind = run[p].kind /\ run'[p].alone = run[p].alone
         /\ \/ run[p].kind = "sync" /\ run'[p].pc = "end" /\ run'[p].told = "done"
            \/ run[p].kind = "purge" /\ run'[p].pc = "remove" /\ run'[p].told = "nothing"
            \/ run'[p].pc = "end" /\ run'[p].told = "failed" /\ run'[p].lost = TRUE
<1>1. run \in [Procs -> Run] /\ run[p] \in Run /\ PhaseOf(run[p])
  BY DEF PhaseInv, Phase, TypeOK
<1>2. /\ run[p].pc = "commit" /\ Applied(p) /\ UNCHANGED <<session, reader>>
      /\ \/ run[p].kind = "sync"  /\ Ended(p, "done", FALSE)
         \/ run[p].kind = "purge" /\ Go(p, "remove")
         \/ Ended(p, "failed", TRUE)
  BY DEF Commit, At, Ends
<1>3. TypeOK /\ run[p].kind \in {"sync", "purge"} /\ run[p].told = "nothing"
  BY <1>1, <1>2 DEF PhaseInv, PhaseOf
<1>4. CASE run[p].kind = "purge" /\ Go(p, "remove")
  BY <1>2, <1>3, <1>4, GoEffect
<1>5. CASE run[p].kind = "sync" /\ Ended(p, "done", FALSE)
  <2>1. /\ run'[p].pc = "end" /\ run'[p].told = "done" /\ run'[p].kind = run[p].kind
        /\ run'[p].alone = run[p].alone
    BY <1>3, <1>5, EndedEffect
  <2> QED
    BY <1>2, <1>5, <2>1
<1>6. CASE Ended(p, "failed", TRUE)
  <2>1. /\ run'[p].pc = "end" /\ run'[p].told = "failed" /\ run'[p].lost = TRUE
        /\ run'[p].kind = run[p].kind /\ run'[p].alone = run[p].alone
    BY <1>3, <1>6, EndedEffect
  <2> QED
    BY <1>2, <1>3, <2>1
<1> QED
  BY <1>2, <1>4, <1>5, <1>6

-------------------------------------------------------------------------------

(* A run that has the database to itself deletes what is there. *)
AloneOf(p) ==
  /\ run[p].alone /\ Active(p) => \A o \in Procs \ {p} : ~Active(o)
  /\ run[p].alone /\ run[p].pc = "deleting" => run[p].target = row
  /\ run[p].alone /\ run[p].pc = "commit" /\ run[p].kind = "purge" /\ row # NoRow => run[p].deleted
  /\ run[p].alone /\ run[p].pc = "remove" /\ run[p].kind = "purge" => row = NoRow
Alone == \A p \in Procs : AloneOf(p)

LEMMA NextAlone == PhaseInv /\ Alone /\ [Next]_vars => Alone'
<1> SUFFICES ASSUME PhaseInv, Alone, [Next]_vars, NEW p \in Procs PROVE AloneOf(p)'
  BY DEF Alone
<1>1. AloneOf(p)
  BY DEF Alone
<1>2. ASSUME NEW q \in Procs, q # p, Step(q) PROVE AloneOf(p)'
  <2>1. CASE Start(q)
    <3>1. run'[p].pc = run[p].pc /\ (run'[p].alone => ~Active(p))
      BY <1>2, <2>1, StepOthers, StepStart
    <3> QED
      BY <3>1 DEF AloneOf, Active
  <2>2. CASE ~Start(q)
    <3>1. run'[p] = run[p]
      BY <1>2, <2>2, StepOthers
    <3>2. Active(q)
      BY <1>2, <2>2, StepSelf, StepCommit DEF Active
    <3>3. ~(run[p].alone /\ Active(p))
      BY <1>1, <1>2, <3>2 DEF AloneOf
    <3> QED
      BY <3>1, <3>3 DEF AloneOf, Active
  <2> QED
    BY <2>1, <2>2
<1>3. CASE Start(p)
  <2>1. run'[p].kind \in Kinds /\ run'[p].pc = First(run'[p].kind) /\ (run'[p].alone => \A o \in Procs : ~Active(o))
    BY <1>3, StepStart
  <2>2. \A o \in Procs \ {p} : run'[o].pc = run[o].pc
    BY <1>3, StepOthers DEF Step
  <2>3. run'[p].pc \notin {"deleting", "commit"} /\ (run'[p].pc = "remove" => run'[p].kind # "purge")
    BY <2>1 DEF First, Kinds
  <2> QED
    BY <2>1, <2>2, <2>3 DEF AloneOf, Active
<1>4. ASSUME Step(p), ~Start(p) PROVE AloneOf(p)'
  <2>1. \A o \in Procs \ {p} : run'[o].pc = run[o].pc
    BY <1>4, StepOthers
  <2>2. CASE Commit(p)
    <3>1. /\ run[p].pc = "commit" /\ run'[p].alone = run[p].alone /\ run'[p].kind = run[p].kind
          /\ run'[p].pc = "end" \/ (run[p].kind = "purge" /\ run'[p].pc = "remove")
          /\ row' = Outcome(p)
      BY <2>2, StepCommit DEF Applied
    <3>2. run[p].kind = "purge" /\ run[p].alone => Outcome(p) = NoRow
      BY <1>1, <3>1 DEF Outcome, AloneOf
    <3> QED
      BY <1>1, <2>1, <3>1, <3>2 DEF AloneOf, Active
  <2>3. CASE ~Commit(p)
    <3>1. /\ Active(p) /\ row' = row /\ run'[p].alone = run[p].alone /\ run'[p].kind = run[p].kind
          /\ run'[p].pc \notin {"remove", "idle"}
          /\ run'[p].pc = "deleting" => run'[p].target = row
          /\ run'[p].pc = "commit" /\ run[p].kind = "purge" =>
               run[p].pc = "deleting" /\ run'[p].deleted = (row # NoRow /\ row = run[p].target)
      BY <1>4, <2>3, StepSelf
    <3> QED
      BY <1>1, <2>1, <3>1 DEF AloneOf, Active
  <2> QED
    BY <2>2, <2>3
<1>5. CASE UNCHANGED <<row, run>>
  BY <1>1, <1>5 DEF AloneOf, Active
<1>6. ASSUME NEW r \in Readers, HasTable(r) \/ Select(r) PROVE UNCHANGED <<row, run>>
  BY <1>6 DEF HasTable, Select
<1> QED
  BY <1>2, <1>3, <1>4, <1>5, <1>6 DEF Next, vars

(* A purge that had the database to itself and says it is done has removed the roster
   and the session, and it removed the session only with the roster gone. *)
THEOREM AccountPurge == Spec => PurgeLeavesNothing
<1>1. Init => Alone
  BY DEF Init, Alone, AloneOf, Active, Fresh
<1>2. PhaseInv /\ Alone /\ [Next]_vars => Alone'
  BY NextAlone
<1>3. PhaseInv /\ Alone /\ [Next]_vars =>
        [\A p \in Procs : run[p].kind = "purge" /\ Active(p) =>
           /\ run'[p].told = "done" /\ run[p].alone => row' = NoRow /\ session' = "none"
           /\ session' # session /\ run[p].alone => row = NoRow]_vars
  <2> SUFFICES ASSUME PhaseInv, Alone, Next, NEW p \in Procs, run[p].kind = "purge", Active(p)
               PROVE  /\ run'[p].told = "done" /\ run[p].alone => row' = NoRow /\ session' = "none"
                      /\ session' # session /\ run[p].alone => row = NoRow
    OBVIOUS
  <2>1. run[p].told = "nothing" /\ run[p].pc # "idle"
    BY DEF PhaseInv, Phase, PhaseOf, Active
  <2>2. ASSUME NEW q \in Procs, q # p, Step(q)
        PROVE  run'[p].told = "nothing" /\ (session' # session => ~run[p].alone)
    <3>1. run'[p].told = "nothing"
      BY <2>1, <2>2, StepOthers
    <3>2. CASE Start(q)
      BY <3>1, <3>2, StepStart
    <3>3. CASE ~Start(q)
      <4>1. Active(q)
        BY <2>2, <3>3, StepSelf, StepCommit DEF Active
      <4>2. AloneOf(p)
        BY DEF Alone
      <4> QED
        BY <2>2, <3>1, <4>1, <4>2 DEF AloneOf
    <3> QED
      BY <3>2, <3>3
  <2>3. ASSUME NEW r \in Readers, HasTable(r) \/ Select(r)
        PROVE  run'[p].told = "nothing" /\ session' = session
    BY <2>1, <2>3 DEF HasTable, Select
  <2>4. CASE Start(p)
    BY <2>1, <2>4 DEF Start, At
  <2>5. CASE Commit(p)
    BY <2>5, StepCommit
  <2>6. CASE Step(p) /\ ~Start(p) /\ ~Commit(p)
    <3>1. /\ row' = row
          /\ run'[p].told = "done" => run[p].pc = "remove" /\ session' = "none"
          /\ session' # session => run[p].pc = "remove"
      BY <2>6, StepSelf
    <3>2. AloneOf(p)
      BY DEF Alone
    <3> QED
      BY <3>1, <3>2 DEF AloneOf
  <2> QED
    BY <2>2, <2>3, <2>4, <2>5, <2>6 DEF Next
<1> QED
  BY <1>1, <1>2, <1>3, AccountPhases, PTL DEF Spec, PurgeLeavesNothing

-------------------------------------------------------------------------------

(* A process's row is committed once, at its end, by a sync that says so or whose
   answer was lost. *)
CommittedOf(p) ==
  /\ run[p].kind = "sync" /\ run[p].told = "done" => p \in Committed
  /\ p \in Committed =>
       run[p].pc = "end" /\ run[p].kind = "sync" /\ (run[p].told = "done" \/ run[p].lost)
LogInv ==
  /\ Len(log) > 0 /\ row = log[Len(log)] /\ (row # NoRow => table)
  /\ \A p \in Procs : CommittedOf(p)
  /\ \A i, j \in DOMAIN log : log[i] = log[j] /\ log[i] # NoRow => i = j
ReadInv == \A r \in Readers : reader[r] \in Committed \cup {"nothing", "table"}

(* What a commit appends, if anything. *)
LEMMA CommitAppends ==
  ASSUME PhaseInv, LogInv, NEW p \in Procs, Commit(p)
  PROVE  /\ p \notin Committed
         /\ \/ run[p].kind = "sync" /\ row' = p /\ log' = Append(log, p)
            \/ run[p].kind = "purge" /\ row' = NoRow /\ row # NoRow /\ log' = Append(log, NoRow)
            \/ run[p].kind = "purge" /\ row' = row /\ log' = log
<1>1. p \notin Committed
  BY StepCommit DEF LogInv, CommittedOf
<1>2. row \in Committed
  BY DEF LogInv, Committed, PhaseInv, TypeOK
<1>3. run[p].kind \in {"sync", "purge"} /\ Applied(p)
  BY StepCommit
<1> QED
  BY <1>1, <1>2, <1>3 DEF Applied, Outcome

LEMMA AppendCommitted ==
  ASSUME log \in Seq(Rows), NEW v \in Rows, log' = Append(log, v)
  PROVE  /\ Committed' = Committed \cup {v} /\ Len(log') = Len(log) + 1 /\ log'[Len(log) + 1] = v
         /\ \A i \in DOMAIN log : log'[i] = log[i]
         /\ DOMAIN log = 1..Len(log) /\ DOMAIN log' = 1..(Len(log) + 1)
<1>1. /\ Len(log') = Len(log) + 1 /\ log'[Len(log) + 1] = v
      /\ \A i \in 1..Len(log) : log'[i] = log[i]
      /\ DOMAIN log = 1..Len(log) /\ DOMAIN log' = 1..(Len(log) + 1) /\ Len(log) \in Nat
  OBVIOUS
<1>2. 1..(Len(log) + 1) = 1..Len(log) \cup {Len(log) + 1}
  BY <1>1
<1>3. Committed' = {log'[i] : i \in 1..(Len(log) + 1)} /\ Committed = {log[i] : i \in 1..Len(log)}
  BY <1>1 DEF Committed
<1>4. Committed' = Committed \cup {v}
  <2>1. \A x \in Committed' : x \in Committed \cup {v}
    BY <1>1, <1>3
  <2>2. \A x \in Committed : x \in Committed'
    BY <1>1, <1>3
  <2>3. v \in Committed'
    BY <1>1, <1>3
  <2> QED
    BY <2>1, <2>2, <2>3
<1> QED
  BY <1>1, <1>4

(* A process that goes on as it was, or gets on without success as a sync. *)
Still(p) == /\ run'[p].pc = run[p].pc /\ run'[p].kind = run[p].kind
            /\ run'[p].told = run[p].told /\ run'[p].lost = run[p].lost
Moved(p) == run[p].pc # "end" /\ (run'[p].told = "done" => run'[p].kind # "sync")

LEMMA KeepsLog ==
  ASSUME LogInv, UNCHANGED <<row, log>>, table => table', \A p \in Procs : Still(p) \/ Moved(p)
  PROVE  LogInv'
<1>1. Committed' = Committed
  BY DEF Committed
<1>2. ASSUME NEW p \in Procs PROVE CommittedOf(p)'
  BY <1>1 DEF LogInv, CommittedOf, Still, Moved
<1> QED
  BY <1>2 DEF LogInv

LEMMA NextLog == PhaseInv /\ LogInv /\ [Next]_vars => LogInv'
<1> SUFFICES ASSUME PhaseInv, LogInv, [Next]_vars PROVE LogInv'
  OBVIOUS
<1>2. ASSUME NEW p \in Procs, Commit(p) PROVE LogInv'
  <2>1. PICK v \in Rows : /\ row' = v /\ (v = p \/ (v = NoRow /\ row # NoRow) \/ v = row)
                          /\ (v = row => log' = log) /\ (v # row => log' = Append(log, v))
                          /\ (run[p].kind = "sync" <=> v = p)
    <3>1. p \in Rows /\ NoRow \in Rows /\ row \in Rows /\ p # NoRow
      BY AccountAssumption DEF Rows, PhaseInv, TypeOK
    <3>2. row \in Committed /\ p \notin Committed
      BY <1>2, CommitAppends DEF LogInv, Committed, PhaseInv, TypeOK
    <3> QED
      BY <1>2, <3>1, <3>2, CommitAppends
  <2>2. p \notin Committed /\ row \in Committed /\ Committed' = Committed \cup {v} /\ log \in Seq(Rows)
    <3>1. p \notin Committed /\ row \in Committed /\ log \in Seq(Rows)
      BY <1>2, CommitAppends DEF LogInv, Committed, PhaseInv, TypeOK
    <3>2. CASE v = row
      BY <2>1, <3>1, <3>2 DEF Committed
    <3>3. CASE v # row
      BY <2>1, <3>1, <3>3, AppendCommitted
    <3> QED
      BY <3>1, <3>2, <3>3
  <2>3. Len(log') > 0 /\ row' = log'[Len(log')] /\ (row' # NoRow => table')
    <3>1. table' = TRUE
      BY <1>2 DEF Commit, Applied
    <3>2. CASE v = row
      BY <2>1, <3>1, <3>2 DEF LogInv
    <3>3. CASE v # row
      BY <2>1, <2>2, <3>1, <3>3, AppendCommitted DEF LogInv
    <3> QED
      BY <3>2, <3>3
  <2>4. ASSUME NEW q \in Procs PROVE CommittedOf(q)'
    <3>1. CASE q = p
      <4>1. /\ run'[p].kind = run[p].kind
            /\ \/ run[p].kind = "sync" /\ run'[p].pc = "end" /\ run'[p].told = "done"
               \/ run[p].kind = "purge"
               \/ run[p].kind = "sync" /\ run'[p].pc = "end" /\ run'[p].told = "failed" /\ run'[p].lost = TRUE
        BY <1>2, StepCommit
      <4> QED
        BY <2>1, <2>2, <3>1, <4>1 DEF CommittedOf
    <3>2. CASE q # p
      <4>1. /\ run'[q].kind = run[q].kind /\ run'[q].pc = run[q].pc /\ run'[q].told = run[q].told
            /\ run'[q].lost = run[q].lost
        BY <1>2, <3>2, StepOthers DEF Step
      <4>2. q # NoRow
        BY AccountAssumption
      <4>3. q \in Committed' <=> q \in Committed
        BY <2>1, <2>2, <3>2, <4>2
      <4> QED
        BY <4>1, <4>3 DEF LogInv, CommittedOf
    <3> QED
      BY <3>1, <3>2
  <2>5. \A i, j \in DOMAIN log' : log'[i] = log'[j] /\ log'[i] # NoRow => i = j
    <3>1. CASE v = row
      BY <2>1, <3>1 DEF LogInv
    <3>2. CASE v # row
      <4>1. /\ log'[Len(log) + 1] = v /\ (\A i \in DOMAIN log : log'[i] = log[i])
            /\ DOMAIN log' = DOMAIN log \cup {Len(log) + 1}
        <5>1. 1..(Len(log) + 1) = 1..Len(log) \cup {Len(log) + 1}
          BY <2>2
        <5> QED
          BY <2>1, <2>2, <3>2, <5>1, AppendCommitted
      <4>2. v = NoRow \/ \A i \in DOMAIN log : log[i] # v
        BY <2>1, <2>2, <3>2 DEF Committed
      <4> QED
        BY <4>1, <4>2 DEF LogInv
    <3> QED
      BY <3>1, <3>2
  <2> QED
    BY <2>3, <2>4, <2>5 DEF LogInv
<1>3. ASSUME NEW p \in Procs, Step(p), ~Commit(p) PROVE LogInv'
  <2>1. \A q \in Procs \ {p} : Still(q)
    BY <1>3, StepOthers DEF Still
  <2>2. UNCHANGED <<row, log>> /\ (table => table') /\ Moved(p)
    <3>1. CASE Start(p)
      BY <3>1, StepStart DEF Moved
    <3>2. CASE ~Start(p)
      BY <1>3, <3>2, StepSelf DEF Active, Moved
    <3> QED
      BY <3>1, <3>2
  <2> QED
    BY <2>1, <2>2, KeepsLog
<1>4. ASSUME NEW r \in Readers, HasTable(r) \/ Select(r) PROVE LogInv'
  <2>1. UNCHANGED <<session, row, table, run, log, replaced>>
    BY <1>4, ReadType DEF PhaseInv
  <2>2. \A p \in Procs : Still(p)
    BY <2>1 DEF Still
  <2> QED
    BY <2>1, <2>2, KeepsLog
<1>5. CASE UNCHANGED vars
  BY <1>5, KeepsLog DEF vars, Still
<1> QED
  BY <1>2, <1>3, <1>4, <1>5 DEF Next

LEMMA InitLog == Init => LogInv
<1> SUFFICES ASSUME Init PROVE LogInv
  OBVIOUS
<1>1. log = <<row>> /\ Len(log) = 1 /\ log[1] = row /\ DOMAIN log = {1} /\ Committed = {row}
  BY DEF Init, Committed
<1>2. row \notin Procs
  BY AccountAssumption DEF Init
<1> QED
  BY <1>1, <1>2 DEF Init, LogInv, CommittedOf, Fresh

(* A reader has found a row that was committed, or no row before there was a table. *)
LEMMA NextRead == PhaseInv /\ LogInv /\ ReadInv /\ [Next]_vars => ReadInv'
<1> SUFFICES ASSUME PhaseInv, LogInv, ReadInv, [Next]_vars PROVE ReadInv'
  OBVIOUS
<1>1. row \in Committed /\ (~table => NoRow \in Committed)
  BY DEF LogInv, Committed, PhaseInv, TypeOK
<1>2. ASSUME NEW p \in Procs, Step(p) PROVE ReadInv'
  <2>1. reader' = reader
    BY <1>2, StepStart, StepSelf, StepCommit
  <2>2. Committed \subseteq Committed'
    <3>1. CASE Commit(p)
      <4>1. log' = log \/ \E v \in Rows : log' = Append(log, v)
        BY <3>1, CommitAppends, AccountAssumption DEF Rows
      <4> QED
        BY <4>1, AppendCommitted DEF Committed, PhaseInv, TypeOK
    <3>2. CASE ~Commit(p)
      BY <1>2, <3>2, StepStart, StepSelf DEF Committed
    <3> QED
      BY <3>1, <3>2
  <2> QED
    BY <2>1, <2>2 DEF ReadInv
<1>3. ASSUME NEW r \in Readers, HasTable(r) \/ Select(r) PROVE ReadInv'
  <2>1. Committed' = Committed
    BY <1>3 DEF HasTable, Select, Committed
  <2> QED
    BY <1>1, <1>3, <2>1 DEF ReadInv, HasTable, Select, PhaseInv, TypeOK
<1>4. CASE UNCHANGED vars
  BY <1>4 DEF vars, ReadInv, Committed
<1> QED
  BY <1>2, <1>3, <1>4 DEF Next

(* Every removal is some purge's, and no purge removes twice. *)
RemovalInv == Cardinality(Removals) <= Cardinality(Purges)

LEMMA NextRemoval == PhaseInv /\ LogInv /\ RemovalInv /\ [Next]_vars => RemovalInv'
<1> SUFFICES ASSUME PhaseInv, LogInv, RemovalInv, [Next]_vars PROVE RemovalInv'
  OBVIOUS
<1>1. log \in Seq(Rows) /\ Len(log) \in Nat /\ Len(log) > 0 /\ DOMAIN log = 1..Len(log)
  BY DEF PhaseInv, TypeOK, LogInv
<1>2. IsFiniteSet(Removals) /\ Cardinality(Removals) \in Nat
  <2>1. IsFiniteSet(1..Len(log)) /\ Removals \subseteq 1..Len(log)
    BY <1>1, FS_Interval DEF Removals
  <2> QED
    BY <2>1, FS_Subset, FS_CardinalityType
<1>3. IsFiniteSet(Purges) /\ IsFiniteSet(Purges') /\ Cardinality(Purges) \in Nat /\ Cardinality(Purges') \in Nat
  <2>1. Purges \subseteq Procs /\ Purges' \subseteq Procs
    BY DEF Purges
  <2> QED
    BY <2>1, AccountAssumption, FS_Subset, FS_CardinalityType
<1>4. ASSUME Purges \subseteq Purges', log' = log PROVE RemovalInv'
  <2>1. Removals' = Removals
    BY <1>4 DEF Removals
  <2>2. Cardinality(Purges) <= Cardinality(Purges')
    BY <1>3, <1>4, FS_Subset
  <2> QED
    BY <1>2, <1>3, <2>1, <2>2 DEF RemovalInv
<1>5. ASSUME NEW p \in Procs, Step(p) PROVE Purges \subseteq Purges'
  <2> SUFFICES ASSUME NEW q \in Purges PROVE q \in Purges'
    OBVIOUS
  <2>1. q \in Procs /\ run[q].kind = "purge" /\ run[q].pc \in {"remove", "end"}
    BY DEF Purges
  <2>2. CASE q # p
    BY <1>5, <2>1, <2>2, StepOthers DEF Purges
  <2>3. CASE q = p
    <3>1. ~Start(p) /\ ~Commit(p)
      BY <2>1, <2>3, StepStart, StepCommit
    <3> QED
      BY <1>5, <2>1, <2>3, <3>1, StepSelf DEF Purges, Active
  <2> QED
    BY <2>2, <2>3
<1>6. ASSUME NEW p \in Procs, Commit(p) PROVE RemovalInv'
  <2>1. Purges \subseteq Purges'
    BY <1>5, <1>6 DEF Step
  <2>2. CASE log' = log
    BY <1>4, <2>1, <2>2
  <2>3. CASE log' = Append(log, p)
    <3>1. p \in Rows /\ p # NoRow
      BY AccountAssumption DEF Rows
    <3>2. Removals' = Removals
      BY <1>1, <2>3, <3>1, AppendCommitted DEF Removals
    <3>3. Cardinality(Purges) <= Cardinality(Purges')
      BY <1>3, <2>1, FS_Subset
    <3> QED
      BY <1>2, <1>3, <3>2, <3>3 DEF RemovalInv
  <2>4. CASE run[p].kind = "purge" /\ log' = Append(log, NoRow)
    <3>1. Removals' = Removals \cup {Len(log) + 1} /\ Len(log) + 1 \notin Removals
      <4>1. NoRow \in Rows
        BY DEF Rows
      <4>2. 1..(Len(log) + 1) = 1..Len(log) \cup {Len(log) + 1}
        BY <1>1
      <4>3. /\ log'[Len(log) + 1] = NoRow /\ \A i \in 1..Len(log) : log'[i] = log[i]
            /\ DOMAIN log' = 1..(Len(log) + 1)
        BY <1>1, <2>4, <4>1, AppendCommitted
      <4> QED
        BY <1>1, <4>2, <4>3 DEF Removals
    <3>2. p \notin Purges /\ p \in Purges'
      BY <1>6, <2>4, StepCommit DEF Purges
    <3>3. Cardinality(Removals') = Cardinality(Removals) + 1
      BY <1>2, <3>1, FS_AddElement
    <3>4. Cardinality(Purges \cup {p}) = Cardinality(Purges) + 1 /\ IsFiniteSet(Purges \cup {p})
      BY <1>3, <3>2, FS_AddElement
    <3>5. Cardinality(Purges \cup {p}) <= Cardinality(Purges')
      BY <1>3, <2>1, <3>2, FS_Subset
    <3> QED
      BY <1>2, <1>3, <3>3, <3>4, <3>5 DEF RemovalInv
  <2> QED
    BY <1>6, <2>2, <2>3, <2>4, CommitAppends
<1>7. ASSUME NEW p \in Procs, Step(p), ~Commit(p) PROVE RemovalInv'
  BY <1>4, <1>5, <1>7, StepStart, StepSelf
<1>8. ASSUME NEW r \in Readers, HasTable(r) \/ Select(r) PROVE RemovalInv'
  BY <1>4, <1>8 DEF HasTable, Select, Purges
<1>9. CASE UNCHANGED vars
  BY <1>4, <1>9 DEF vars, Purges
<1> QED
  BY <1>6, <1>7, <1>8, <1>9 DEF Next

-------------------------------------------------------------------------------

(* The locks of the open transactions: one that deleted the row has it still, one
   that inserted deleted it or found the table empty, and there is no second one;
   what a run removed it removed by its commit. *)
LockOf(p) ==
  /\ run[p].pc \in {"insert", "commit"} /\ run[p].deleted => row # NoRow /\ row = run[p].target
  /\ run[p].pc = "commit" /\ run[p].kind = "sync" => run[p].inserted
  /\ run[p].inserted => /\ run[p].pc = "commit" /\ run[p].kind = "sync"
                        /\ run[p].deleted \/ row = NoRow
  /\ replaced[p] # NoRow => run[p].pc \in {"remove", "end"}
LockInv ==
  /\ \A p \in Procs : LockOf(p)
  /\ \A p, q \in Procs : Holds(p) /\ Holds(q) => p = q

(* The step of a run keeps what is said of its own transaction. *)
LEMMA LockSelf ==
  ASSUME PhaseInv, NEW p \in Procs, LockOf(p), Step(p), ~Start(p), ~Commit(p)
  PROVE  LockOf(p)' /\ (Holds(p)' => Holds(p) \/ \A q \in Procs \ {p} : ~Holds(q))
<1>1. run \in [Procs -> Run] /\ run[p] \in Run /\ PhaseOf(run[p]) /\ TypeOK
  BY DEF PhaseInv, Phase, TypeOK
<1>2. row' = row /\ replaced' = replaced /\ run'[p].kind = run[p].kind /\ Active(p)
  BY StepSelf
<1> DEFINE Good == LockOf(p)' /\ (Holds(p)' => Holds(p) \/ \A q \in Procs \ {p} : ~Holds(q))
<1>3. ASSUME run'[p].pc \notin {"insert", "commit"}, run'[p].inserted = FALSE,
             run[p].pc = "remove" => run'[p].pc = "end"
      PROVE  Good
  BY <1>2, <1>3 DEF LockOf, Holds, Active
<1>4. ASSUME NEW told, NEW lost, Ended(p, told, lost) PROVE Good
  <2>1. run'[p].pc = "end" /\ run'[p].inserted = FALSE
    BY <1>1, <1>4, EndedEffect
  <2> QED
    BY <1>3, <2>1
<1>5. ASSUME NEW pc \in {"check", "request"}, Go(p, pc), run[p].pc \notin {"commit", "remove"} PROVE Good
  <2>1. run'[p].pc = pc /\ run'[p].inserted = run[p].inserted
    BY <1>1, <1>5, GoEffect
  <2>2. run[p].inserted = FALSE
    BY <1>1, <1>5 DEF LockOf, Run
  <2> QED
    BY <1>3, <1>5, <2>1, <2>2
<1>6. run[p].pc # "commit" => run[p].inserted = FALSE
  BY <1>1 DEF LockOf, Run
<1>7. CASE ReadSession(p)
  BY <1>4, <1>5, <1>7 DEF ReadSession, At, Ends
<1>8. CASE Code(p)
  BY <1>4, <1>5, <1>8 DEF Code, At, Ends
<1>9. CASE CheckWritable(p)
  <2>1. run[p].pc = "check" /\ run'[p].pc = "confirm" /\ run'[p].inserted = run[p].inserted
    BY <1>1, <1>9 DEF CheckWritable, At, Run
  <2> QED
    BY <1>3, <1>6, <2>1
<1>10. CASE Confirm(p)
  <2>1. CASE run' = [run EXCEPT ![p].pc = "request", ![p].confirmed = TRUE]
    <3>1. run[p].pc = "confirm" /\ run'[p].pc = "request" /\ run'[p].inserted = run[p].inserted
      BY <1>1, <1>10, <2>1 DEF Confirm, At, Run
    <3> QED
      BY <1>3, <1>6, <3>1
  <2> QED
    BY <1>4, <1>10, <2>1 DEF Confirm, Ends
<1>11. CASE Request(p)
  <2>1. /\ run[p].pc = "request" /\ run'[p].pc \in {"delete", "save", "code", "end"}
        /\ run'[p].inserted = run[p].inserted
    BY <1>1, <1>11 DEF Request, At, After, Run
  <2> QED
    BY <1>3, <1>6, <2>1
<1>12. CASE StartDelete(p)
  <2>1. run[p].pc = "delete" /\ run'[p].pc = "deleting" /\ run'[p].inserted = run[p].inserted
    BY <1>1, <1>12 DEF StartDelete, At, Run
  <2> QED
    BY <1>3, <1>6, <2>1
<1>13. CASE FinishDelete(p)
  <2>1. /\ run[p].pc = "deleting" /\ \A q \in Procs \ {p} : ~Holds(q)
        /\ run'[p].pc = IF run[p].kind = "sync" THEN "insert" ELSE "commit"
        /\ run'[p].deleted = (row # NoRow /\ row = run[p].target)
        /\ run'[p].target = run[p].target /\ run'[p].inserted = run[p].inserted
    BY <1>1, <1>13 DEF FinishDelete, At, Run
  <2> QED
    BY <1>2, <1>6, <2>1 DEF LockOf
<1>14. CASE Insert(p)
  <2>1. CASE run' = [run EXCEPT ![p].pc = "commit", ![p].inserted = TRUE]
    <3>1. /\ run[p].pc = "insert" /\ \A q \in Procs \ {p} : ~Holds(q)
          /\ run'[p].pc = "commit" /\ run'[p].inserted = TRUE
          /\ run'[p].deleted = run[p].deleted /\ run'[p].target = run[p].target
      BY <1>1, <1>14, <2>1 DEF Insert, At, Run
    <3>2. run[p].deleted \/ row = NoRow
      <4>1. CASE row # NoRow /\ ~run[p].deleted
        <5>1. run'[p].pc = "end"
          BY <1>1, <1>14, <4>1, EndedEffect DEF Insert, Ends
        <5> QED
          BY <3>1, <5>1
      <4> QED
        BY <4>1
    <3>3. run[p].kind = "sync"
      BY <1>1, <3>1 DEF PhaseOf
    <3> QED
      BY <1>2, <3>1, <3>2, <3>3 DEF LockOf
  <2>2. CASE Ended(p, "failed", FALSE)
    BY <1>4, <2>2
  <2> QED
    BY <1>14, <2>1, <2>2 DEF Insert, Ends
<1>15. CASE WriteSession(p) \/ RemoveSession(p) \/ Breaks(p)
  BY <1>4, <1>15 DEF WriteSession, RemoveSession, Breaks, Ends
<1> QED
  BY <1>7, <1>8, <1>9, <1>10, <1>11, <1>12, <1>13, <1>14, <1>15 DEF Step

(* What a commit writes down as removed, and the row it leaves. *)
LEMMA CommitReplaces ==
  ASSUME PhaseInv, LockInv, NEW p \in Procs, Commit(p)
  PROVE  /\ replaced' = [replaced EXCEPT ![p] = IF run[p].deleted THEN row ELSE NoRow]
         /\ run[p].deleted => row # NoRow
         /\ run[p].kind = "sync" => run[p].deleted \/ row = NoRow
         /\ row' # row => Holds(p)
         /\ row' = row => ~run[p].deleted \/ run[p].kind = "sync"
<1>1. run[p].pc = "commit" /\ Applied(p) /\ LockOf(p)
  BY StepCommit DEF LockInv
<1>2. run[p].deleted => row # NoRow /\ row = run[p].target
  BY <1>1 DEF LockOf
<1>3. replaced' = [replaced EXCEPT ![p] = IF run[p].deleted THEN row ELSE NoRow]
  BY <1>1, <1>2 DEF Applied
<1>4. run[p].kind = "sync" => run[p].inserted /\ (run[p].deleted \/ row = NoRow)
  BY <1>1 DEF LockOf
<1>5. row' # row => Holds(p)
  BY <1>1, <1>4 DEF Applied, Outcome, Holds
<1> QED
  BY <1>1, <1>2, <1>3, <1>4, <1>5 DEF Applied, Outcome

(* A commit ends its transaction, and the row it changes no other one held. *)
LEMMA LockCommit ==
  ASSUME PhaseInv, LockInv, NEW p \in Procs, Commit(p)
  PROVE  LockOf(p)' /\ ~Holds(p)'
<1>1. /\ run'[p].pc \in {"end", "remove"} /\ LockOf(p) /\ TypeOK
      /\ run[p].kind = "purge" => run[p].inserted = FALSE
  BY StepCommit DEF LockInv, LockOf, PhaseInv, TypeOK, Run
<1>2. run'[p].inserted = FALSE
  <2>1. CASE run[p].kind = "purge" /\ Go(p, "remove")
    BY <1>1, <2>1, GoEffect
  <2>2. CASE \E told, lost : Ended(p, told, lost)
    BY <1>1, <2>2, EndedEffect
  <2> QED
    BY <2>1, <2>2 DEF Commit, Ends
<1> QED
  BY <1>1, <1>2 DEF LockOf, Holds

LEMMA NextLock == PhaseInv /\ LockInv /\ [Next]_vars => LockInv'
<1> SUFFICES ASSUME PhaseInv, LockInv, [Next]_vars PROVE LockInv'
  OBVIOUS
<1>1. ASSUME NEW p \in Procs, Step(p) PROVE LockInv'
  <2>1. LockOf(p)' /\ (Holds(p)' => Holds(p) \/ \A q \in Procs \ {p} : ~Holds(q))
    <3>1. CASE Start(p)
      <4>1. /\ run[p].pc = "idle" /\ row' = row /\ replaced' = replaced
            /\ run'[p].pc = First(run'[p].kind) /\ run'[p].kind \in Kinds
            /\ run'[p].inserted = run[p].inserted
        BY <3>1, StepStart
      <4>2. run'[p].pc \notin {"insert", "commit"}
        BY <4>1 DEF First, Kinds
      <4>3. replaced[p] = NoRow /\ ~run[p].inserted
        BY <4>1 DEF LockInv, LockOf
      <4> QED
        BY <4>1, <4>2, <4>3 DEF LockOf, Holds
    <3>2. CASE Commit(p)
      BY <3>2, LockCommit
    <3>3. CASE ~Start(p) /\ ~Commit(p)
      BY <1>1, <3>3, LockSelf DEF LockInv
    <3> QED
      BY <3>1, <3>2, <3>3
  <2>2. ASSUME NEW q \in Procs, q # p PROVE LockOf(q)' /\ (Holds(q)' <=> Holds(q))
    <3>1. /\ run'[q].pc = run[q].pc /\ run'[q].kind = run[q].kind /\ run'[q].target = run[q].target
          /\ run'[q].deleted = run[q].deleted /\ run'[q].inserted = run[q].inserted
      BY <1>1, <2>2, StepOthers
    <3>2. replaced'[q] = replaced[q]
      <4>1. CASE Commit(p)
        BY <2>2, <4>1, CommitReplaces DEF PhaseInv, TypeOK
      <4> QED
        BY <1>1, <4>1, StepStart, StepSelf
    <3>3. row' = row \/ ~Holds(q)
      <4>1. CASE Commit(p)
        BY <2>2, <4>1, CommitReplaces DEF LockInv
      <4> QED
        BY <1>1, <4>1, StepStart, StepSelf
    <3>4. LockOf(q)
      BY DEF LockInv
    <3> QED
      BY <3>1, <3>2, <3>3, <3>4 DEF LockOf, Holds
  <2> QED
    BY <2>1, <2>2 DEF LockInv
<1>2. ASSUME NEW r \in Readers, HasTable(r) \/ Select(r) PROVE LockInv'
  BY <1>2 DEF HasTable, Select, LockInv, LockOf, Holds
<1>3. CASE UNCHANGED vars
  BY <1>3 DEF vars, LockInv, LockOf, Holds
<1> QED
  BY <1>1, <1>2, <1>3 DEF Next

(* What was removed was committed and is gone, by one run only; a sync's row took
   the place of the one it removed. *)
SwapInv ==
  /\ \A p \in Procs : replaced[p] # NoRow => replaced[p] \in Committed /\ replaced[p] # row
  /\ \A p, q \in Procs : replaced[p] = replaced[q] /\ replaced[p] # NoRow => p = q
  /\ \A i \in DOMAIN log : i > 1 /\ log[i] \in Procs => replaced[log[i]] = log[i - 1]

LEMMA NextSwap == PhaseInv /\ LockInv /\ LogInv /\ SwapInv /\ [Next]_vars => SwapInv'
<1> SUFFICES ASSUME PhaseInv, LockInv, LogInv, SwapInv, [Next]_vars PROVE SwapInv'
  OBVIOUS
<1>1. ASSUME UNCHANGED <<row, log, replaced>> PROVE SwapInv'
  BY <1>1 DEF SwapInv, Committed
<1>2. ASSUME NEW p \in Procs, Commit(p) PROVE SwapInv'
  <2>1. /\ log \in Seq(Rows) /\ Len(log) \in Nat /\ Len(log) > 0 /\ DOMAIN log = 1..Len(log)
        /\ row = log[Len(log)] /\ row \in Committed /\ NoRow \in Rows /\ p \in Rows /\ p # NoRow
    BY AccountAssumption DEF LogInv, PhaseInv, TypeOK, Committed, Rows
  <2>2. /\ \A q \in Procs \ {p} : replaced'[q] = replaced[q]
        /\ replaced'[p] = IF run[p].deleted THEN row ELSE NoRow
        /\ run[p].deleted => row # NoRow
        /\ run[p].kind = "sync" => run[p].deleted \/ row = NoRow
    BY <1>2, CommitReplaces DEF PhaseInv, TypeOK
  <2>3. /\ p \notin Committed
        /\ \/ run[p].kind = "sync" /\ row' = p /\ log' = Append(log, p)
           \/ run[p].kind = "purge" /\ row' = NoRow /\ row # NoRow /\ log' = Append(log, NoRow)
           \/ run[p].kind = "purge" /\ row' = row /\ log' = log
    BY <1>2, CommitAppends
  <2>4. Committed \subseteq Committed'
    BY <2>1, <2>3, AppendCommitted DEF Committed
  <2>5. run[p].deleted => row' # row
    BY <1>2, <2>1, <2>3, CommitReplaces
  <2>6. ASSUME NEW q \in Procs, replaced'[q] # NoRow
        PROVE  replaced'[q] \in Committed' /\ replaced'[q] # row'
    <3>1. CASE q = p
      BY <2>1, <2>2, <2>4, <2>5, <2>6, <3>1
    <3>2. CASE q # p
      <4>1. replaced[q] \in Committed /\ replaced[q] # row /\ replaced'[q] = replaced[q]
        BY <2>2, <2>6, <3>2 DEF SwapInv
      <4> QED
        BY <2>3, <2>4, <2>6, <4>1
    <3> QED
      BY <3>1, <3>2
  <2>7. ASSUME NEW q \in Procs, NEW o \in Procs, replaced'[q] = replaced'[o], replaced'[q] # NoRow
        PROVE  q = o
    <3>1. ASSUME NEW x \in Procs \ {p} PROVE replaced'[x] = NoRow \/ replaced'[x] # replaced'[p]
      BY <2>2, <3>1 DEF SwapInv
    <3> QED
      BY <2>2, <2>7, <3>1 DEF SwapInv
  <2>8. ASSUME NEW i \in DOMAIN log', i > 1, log'[i] \in Procs PROVE replaced'[log'[i]] = log'[i - 1]
    <3>1. CASE i \in DOMAIN log
      <4>1. log'[i] = log[i] /\ log'[i - 1] = log[i - 1]
        <5>1. i - 1 \in DOMAIN log
          BY <2>1, <2>8, <3>1
        <5> QED
          BY <2>1, <2>3, <3>1, <5>1, AppendCommitted
      <4>2. log[i] \in Committed
        BY <3>1 DEF Committed
      <4> QED
        BY <2>2, <2>3, <2>8, <3>1, <4>1, <4>2 DEF SwapInv
    <3>2. CASE i \notin DOMAIN log
      <4>1. log' # log
        BY <2>8, <3>2
      <4>2. ASSUME NEW v \in Rows, log' = Append(log, v)
            PROVE  i = Len(log) + 1 /\ log'[i] = v /\ log'[i - 1] = row
        <5>1. /\ DOMAIN log' = 1..(Len(log) + 1) /\ log'[Len(log) + 1] = v
              /\ \A k \in DOMAIN log : log'[k] = log[k]
          BY <2>1, <4>2, AppendCommitted
        <5>2. i = Len(log) + 1
          BY <2>1, <2>8, <3>2, <5>1
        <5>3. i - 1 = Len(log) /\ Len(log) \in DOMAIN log
          BY <2>1, <5>2
        <5> QED
          BY <2>1, <5>1, <5>2, <5>3
      <4>3. NoRow \notin Procs
        BY AccountAssumption
      <4>4. run[p].kind = "sync" /\ log'[i] = p /\ log'[i - 1] = row
        BY <2>1, <2>3, <2>8, <4>1, <4>2, <4>3
      <4> QED
        BY <2>2, <4>4
    <3> QED
      BY <3>1, <3>2
  <2> QED
    BY <2>6, <2>7, <2>8 DEF SwapInv
<1>3. ASSUME NEW p \in Procs, Step(p), ~Commit(p) PROVE SwapInv'
  BY <1>1, <1>3, StepStart, StepSelf
<1>4. ASSUME NEW r \in Readers, HasTable(r) \/ Select(r) PROVE SwapInv'
  BY <1>1, <1>4 DEF HasTable, Select
<1>5. CASE UNCHANGED vars
  BY <1>1, <1>5 DEF vars
<1> QED
  BY <1>2, <1>3, <1>4, <1>5 DEF Next

LEMMA InitSwap == Init => LockInv /\ SwapInv
<1> SUFFICES ASSUME Init PROVE LockInv /\ SwapInv
  OBVIOUS
<1>1. \A p \in Procs : run[p] = Fresh /\ replaced[p] = NoRow
  BY DEF Init
<1>2. DOMAIN log = {1}
  BY DEF Init
<1> QED
  BY <1>1, <1>2 DEF LockInv, LockOf, Holds, SwapInv, Fresh

(* The roster is kept: what a reader finds was stored, what a sync says is so, and
   nothing but a purge ever leaves the table without a row, and each row that goes is
   removed by one run, a sync's by the one that takes its place. *)
THEOREM AccountRoster == Spec => []RosterKept
<1> DEFINE Inv == LogInv /\ ReadInv /\ RemovalInv /\ LockInv /\ SwapInv
<1>1. Init => Inv
  <2> SUFFICES ASSUME Init PROVE Inv
    OBVIOUS
  <2>1. LogInv
    BY InitLog
  <2>2. ReadInv
    BY DEF Init, ReadInv
  <2>3. Removals = {} /\ Purges = {}
    BY DEF Init, Removals, Purges, Fresh
  <2> QED
    BY <2>1, <2>2, <2>3, InitSwap, FS_EmptySet DEF RemovalInv
<1>2. PhaseInv /\ Inv /\ [Next]_vars => Inv'
  BY NextLog, NextRead, NextRemoval, NextLock, NextSwap
<1>3. Inv => RosterKept
  BY DEF LogInv, CommittedOf, ReadInv, RemovalInv, SwapInv, RosterKept
<1> QED
  BY <1>1, <1>2, <1>3, AccountPhases, PTL DEF Spec
===============================================================================
