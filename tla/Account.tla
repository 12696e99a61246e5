------------------------------- MODULE Account --------------------------------
(***************************************************************************)
(* The account commands (cli/account.py) and the tools that read what they *)
(* store: the session file, the one account_roster row (db/account.py) and *)
(* the requests to Yostar (sources/yostar.py).  Each process runs one      *)
(* command; commands overlap and die anywhere.  The database is PostgreSQL *)
(* at READ COMMITTED: a DELETE waits for the transaction that holds its    *)
(* row and then finds it gone, an INSERT waits for one that holds the key. *)
(* A step that uses the database or the network may fail.                  *)
(***************************************************************************)
EXTENDS Naturals, Sequences, FiniteSets

CONSTANTS Procs, Readers

VARIABLES session,   \* the session file
          row,       \* the committed row, as the process that wrote it
          table,     \* account_roster exists
          run,       \* per process
          reader,    \* per reader: what it found
          log,       \* every committed row, in order (history)
          replaced   \* per process: the row its committed DELETE removed (history)

vars == <<session, row, table, run, reader, log, replaced>>

(* The row that was there first may be of another schema version. *)
NoRow == "none"
Old   == "old"
Alien == "alien"
Rows  == Procs \cup {NoRow, Old, Alien}

ASSUME AccountAssumption == IsFiniteSet(Procs) /\ Procs \cap {NoRow, Old, Alien} = {}

Kinds == {"login", "sync", "logout", "purge"}
Pcs   == {"idle", "session", "check", "confirm", "request", "code", "save",
          "delete", "deleting", "insert", "commit", "remove", "end"}
Told  == {"nothing", "done", "failed", "cancelled"}

(* What a run holds in memory: whether it has sent a request, whether its check of
   the database passed and its owner confirmed, and its open transaction: the row
   its DELETE saw, whether it deleted one, whether it inserted.  lost and alone are
   history: its COMMIT was answered or not, another run overlapped it or not. *)
Run == [kind : Kinds, pc : Pcs, told : Told, sent : BOOLEAN, proven : BOOLEAN,
        confirmed : BOOLEAN, target : Rows, deleted : BOOLEAN, inserted : BOOLEAN,
        lost : BOOLEAN, alone : BOOLEAN]
Fresh == [kind |-> "login", pc |-> "idle", told |-> "nothing", sent |-> FALSE,
          proven |-> FALSE, confirmed |-> FALSE, target |-> NoRow, deleted |-> FALSE,
          inserted |-> FALSE, lost |-> FALSE, alone |-> TRUE]

TypeOK ==
  /\ session \in {"none", "saved", "unreadable"}
  /\ row \in Rows /\ table \in BOOLEAN
  /\ run \in [Procs -> Run]
  /\ reader \in [Readers -> Rows \cup {"nothing", "table"}]
  /\ log \in Seq(Rows)
  /\ replaced \in [Procs -> Rows]

Init ==
  /\ session \in {"none", "saved", "unreadable"}
  /\ row \in {NoRow, Old, Alien} /\ table \in BOOLEAN /\ (row # NoRow => table)
  /\ run = [p \in Procs |-> Fresh]
  /\ reader = [r \in Readers |-> "nothing"]
  /\ log = <<row>>
  /\ replaced = [p \in Procs |-> NoRow]

Active(p) == run[p].pc \notin {"idle", "end"}
At(p, pc) == run[p].pc = pc
Go(p, pc) == run' = [run EXCEPT ![p].pc = pc]
(* The command ends; an open transaction is rolled back. *)
Ended(p, told, lost) ==
  run' = [run EXCEPT ![p] = [@ EXCEPT !.pc = "end", !.told = told, !.lost = lost, !.target = NoRow,
                                      !.deleted = FALSE, !.inserted = FALSE]]
Ends(p, told) == Ended(p, told, FALSE)

First(kind) == CASE kind = "sync"   -> "session" [] kind = "login" -> "check"
                 [] kind = "logout" -> "remove"  [] kind = "purge" -> "delete"

Start(p) ==
  /\ At(p, "idle")
  /\ \E kind \in Kinds :
       run' = [q \in Procs |->
                 IF q = p THEN [run[p] EXCEPT !.kind = kind, !.pc = First(kind),
                                              !.alone = \A o \in Procs : ~Active(o)]
                 ELSE [run[q] EXCEPT !.alone = @ /\ ~Active(q)]]
  /\ UNCHANGED <<session, row, table, reader, log, replaced>>

(* _read_session *)
ReadSession(p) ==
  /\ At(p, "session")
  /\ IF session = "saved" THEN Go(p, "check") ELSE Ends(p, "failed")
  /\ UNCHANGED <<session, row, table, reader, log, replaced>>

(* Slip: a login does not ask the database first. *)
CheckWritableSyncOnly(p) ==
  /\ At(p, "check")
  /\ IF run[p].kind = "login" THEN Go(p, "confirm") /\ UNCHANGED table
     ELSE /\ run' = [run EXCEPT ![p].pc = "confirm", ![p].proven = TRUE]
          /\ table' = TRUE
  /\ UNCHANGED <<session, row, reader, log, replaced>>

(* AccountStore.check_writable: creates the table and tries a DELETE of no row. *)
CheckWritable(p) ==
  /\ At(p, "check")
  /\ run' = [run EXCEPT ![p].pc = "confirm", ![p].proven = TRUE]
  /\ table' = TRUE
  /\ UNCHANGED <<session, row, reader, log, replaced>>

(* The owner, at a terminal, says the game is closed; or cancels, there or at
   the email prompt. *)
Confirm(p) ==
  /\ At(p, "confirm")
  /\ \/ run' = [run EXCEPT ![p].pc = "request", ![p].confirmed = TRUE]
     \/ Ends(p, "cancelled")
  /\ UNCHANGED <<session, row, table, reader, log, replaced>>

(* A login asks for the code, and signs in with it; a sync sends the requests of
   fetch_sync_data, one after the other. *)
Burst(p) == IF run[p].kind = "sync"
            THEN <<"network_config", "getToken", "version", "account/login", "syncData">>
            ELSE IF run[p].sent THEN <<"get-auth", "user/login">> ELSE <<"send-code">>
After(p) == IF run[p].kind = "sync" THEN "delete" ELSE IF run[p].sent THEN "save" ELSE "code"

(* The requests of a burst, none of them twice; the first that is refused, or
   whose answer is malformed (the roster that does not parse, too), ends the run. *)
Request(p) ==
  /\ At(p, "request")
  /\ \E answered \in 0..Len(Burst(p)) :
       run' = [run EXCEPT ![p] =
                 IF answered = Len(Burst(p)) THEN [@ EXCEPT !.pc = After(p), !.sent = TRUE]
                 ELSE [@ EXCEPT !.pc = "end", !.sent = TRUE, !.told = "failed"]]
  /\ UNCHANGED <<session, row, table, reader, log, replaced>>

(* The verification code is typed in, or its prompt cancelled. *)
Code(p) ==
  /\ At(p, "code")
  /\ Go(p, "request") \/ Ends(p, "cancelled")
  /\ UNCHANGED <<session, row, table, reader, log, replaced>>

(* _write_session: the file is replaced whole. *)
WriteSession(p) ==
  /\ At(p, "save")
  /\ session' = "saved"
  /\ Ends(p, "done")
  /\ UNCHANGED <<row, table, reader, log, replaced>>

(***************************************************************************)
(* The transactions: write_roster (create_all, DELETE, INSERT) and purge   *)
(***************************************************************************)
(* An open transaction that has deleted the row, or inserted one. *)
Holds(q) == run[q].pc \in {"insert", "commit"} /\ (run[q].deleted \/ run[q].inserted)

(* Slip: a purge removes the session before it opens its transaction. *)
StartDeleteSessionFirst(p) ==
  /\ At(p, "delete")
  /\ run' = [run EXCEPT ![p].pc = "deleting", ![p].target = row]
  /\ session' = IF run[p].kind = "purge" THEN "none" ELSE session
  /\ UNCHANGED <<row, table, reader, log, replaced>>

StartDelete(p) ==
  /\ At(p, "delete")
  /\ run' = [run EXCEPT ![p].pc = "deleting", ![p].target = row]
  /\ UNCHANGED <<session, row, table, reader, log, replaced>>

FinishDelete(p) ==
  /\ At(p, "deleting")
  /\ \A q \in Procs \ {p} : ~Holds(q)
  /\ run' = [run EXCEPT ![p].pc = IF run[p].kind = "sync" THEN "insert" ELSE "commit",
                        ![p].deleted = row # NoRow /\ row = run[p].target]
  /\ UNCHANGED <<session, row, table, reader, log, replaced>>

(* Slip: an upsert, which another run's row does not fail. *)
InsertUpserts(p) ==
  /\ At(p, "insert")
  /\ \A q \in Procs \ {p} : ~Holds(q)
  /\ run' = [run EXCEPT ![p].pc = "commit", ![p].inserted = TRUE]
  /\ UNCHANGED <<session, row, table, reader, log, replaced>>

(* The primary key: another run's row, committed since, fails the INSERT. *)
Insert(p) ==
  /\ At(p, "insert")
  /\ \A q \in Procs \ {p} : ~Holds(q)
  /\ IF row # NoRow /\ ~run[p].deleted THEN Ends(p, "failed")
     ELSE run' = [run EXCEPT ![p].pc = "commit", ![p].inserted = TRUE]
  /\ UNCHANGED <<session, row, table, reader, log, replaced>>

(* The row a commit leaves. *)
Outcome(p) == IF run[p].kind = "sync" THEN p ELSE IF run[p].deleted THEN NoRow ELSE row
Applied(p) == /\ row' = Outcome(p) /\ table' = TRUE
              /\ replaced' = [replaced EXCEPT ![p] = IF run[p].deleted THEN run[p].target ELSE NoRow]
              /\ log' = IF Outcome(p) = row THEN log ELSE Append(log, Outcome(p))

(* Applied and acknowledged; or applied and the answer lost. *)
Commit(p) ==
  /\ At(p, "commit")
  /\ Applied(p)
  /\ \/ run[p].kind = "sync"  /\ Ends(p, "done")
     \/ run[p].kind = "purge" /\ Go(p, "remove")
     \/ Ended(p, "failed", TRUE)
  /\ UNCHANGED <<session, reader>>

(* _remove_session, of logout and, after the database, of purge *)
RemoveSession(p) ==
  /\ At(p, "remove")
  /\ session' = "none"
  /\ Ends(p, "done")
  /\ UNCHANGED <<row, table, reader, log, replaced>>

(* No URL, a reader's URL, no terminal, a lost connection, a full disk; or the
   process dies. *)
Breaks(p) ==
  /\ Active(p)
  /\ Ends(p, "failed")
  /\ UNCHANGED <<session, row, table, reader, log, replaced>>

(***************************************************************************)
(* The tools and account status: AccountStore.load                         *)
(***************************************************************************)
HasTable(r) ==
  /\ reader[r] = "nothing"
  /\ reader' = [reader EXCEPT ![r] = IF table THEN "table" ELSE NoRow]
  /\ UNCHANGED <<session, row, table, run, log, replaced>>

Select(r) ==
  /\ reader[r] = "table"
  /\ \E found \in {row, "nothing"} : reader' = [reader EXCEPT ![r] = found]
  /\ UNCHANGED <<session, row, table, run, log, replaced>>

Step(p) ==
  \/ Start(p) \/ ReadSession(p) \/ CheckWritable(p) \/ Confirm(p) \/ Request(p) \/ Code(p)
  \/ WriteSession(p) \/ StartDelete(p) \/ FinishDelete(p) \/ Insert(p) \/ Commit(p)
  \/ RemoveSession(p) \/ Breaks(p)

Next == (\E p \in Procs : Step(p)) \/ \E r \in Readers : HasTable(r) \/ Select(r)
Spec == Init /\ [][Next]_vars

(***************************************************************************)
(* Properties                                                              *)
(***************************************************************************)
(* ADR 0020 (j), (m): nothing is sent to Yostar or the game server but by a
   login or sync whose check of the database passed and whose owner confirmed;
   a read-only or unset database, a refusal, a cancel, a logout or a purge
   sends nothing, however the commands overlap. *)
SentOnlyProven ==
  \A p \in Procs : run[p].sent =>
    run[p].kind \in {"login", "sync"} /\ run[p].proven /\ run[p].confirmed

Committed == {log[i] : i \in DOMAIN log}
Removals  == {i \in DOMAIN log : i > 1 /\ log[i] = NoRow}
Purges    == {p \in Procs : /\ run[p].kind = "purge"
                            /\ run[p].pc \in {"remove", "end"}}

(* ADR 0020 (e), (i): a reader finds a whole roster that was stored, and finds
   none only when a purge removed it; a sync that reports success has stored its
   roster, one that fails has left the old row, unless the answer to its COMMIT
   was lost; a sync's row takes the place of the very row that its own DELETE
   removed, and no two runs, syncs or purges, ever both remove one row. *)
RosterKept ==
  /\ \A p \in Procs : run[p].kind = "sync" =>
       /\ run[p].told = "done" => p \in Committed
       /\ p \in Committed => run[p].told = "done" \/ run[p].lost
  /\ Cardinality(Removals) <= Cardinality(Purges)
  /\ row = log[Len(log)]
  /\ \A i, j \in DOMAIN log : log[i] = log[j] /\ log[i] # NoRow => i = j
  /\ \A i \in DOMAIN log : i > 1 /\ log[i] \in Procs => replaced[log[i]] = log[i - 1]
  /\ \A p, q \in Procs : replaced[p] = replaced[q] /\ replaced[p] # NoRow => p = q
  /\ \A r \in Readers : reader[r] \in Committed \cup {"nothing", "table"}

(* A purge that runs alone and reports success leaves neither roster nor session,
   also when it repeats one that died between the two; and one that runs alone
   removes the session only once the roster is gone, so wherever it dies the
   session never goes before the roster. *)
PurgeLeavesNothing ==
  [][\A p \in Procs : run[p].kind = "purge" /\ Active(p) =>
       /\ run'[p].told = "done" /\ run[p].alone => row' = NoRow /\ session' = "none"
       /\ session' # session /\ run[p].alone => row = NoRow]_vars

===============================================================================
