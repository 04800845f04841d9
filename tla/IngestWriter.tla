---------------------------- MODULE IngestWriter ----------------------------
(***************************************************************************)
(* internal/ingest Run and Write, executed by several `ingest` processes   *)
(* at once against one Postgres database.  One action is one SQL statement *)
(* with the Go code around it.  Transactions are READ COMMITTED: a         *)
(* statement sees the committed rows and its own transaction's, and waits  *)
(* while another open transaction has written a row it conflicts with.     *)
(***************************************************************************)
EXTENDS ExportData

VARIABLES
    db,      \* the committed rows
    phase,   \* where each run stands: its next statement, or how it ended
    export,  \* the export each run was started on
    row,     \* i of Write's loop over records; 0 before it
    entry,   \* place in the record's journal, in insertEvents; 0 outside it
    tx,      \* what each open transaction has written: the locks it holds
    sum      \* the Summary each run is accumulating

vars == <<db, phase, export, row, entry, tx, sum>>

\* A run is one execution of the CLI; it inserts at most one imports row, so
\* the run itself serves as that row's id.
Run == Import

InTransaction == {"import", "lookup", "client", "service", "ticket", "event", "commit"}
Ended  == {"ok", "failed", "orphan", "orphan_commit"}
Phases == {"idle", "committed"} \cup InTransaction \cup Ended

Summary == [tickets_new: Nat, tickets_updated: Nat, events_new: Nat,
            events_skipped: Nat, short: BOOLEAN]

NoSummary == [tickets_new |-> 0, tickets_updated |-> 0, events_new |-> 0,
              events_skipped |-> 0, short |-> FALSE]

TypeOK ==
    /\ db \in Database
    /\ phase \in [Run -> Phases]
    /\ export \in [Run -> Export \cup {Absent}]
    /\ row \in [Run -> Nat]
    /\ entry \in [Run -> Nat]
    /\ tx \in [Run -> Database]
    /\ sum \in [Run -> Summary]

Init ==
    /\ db = Empty
    /\ phase = [r \in Run |-> "idle"]
    /\ export = [r \in Run |-> Absent]
    /\ row = [r \in Run |-> 0]
    /\ entry = [r \in Run |-> 0]
    /\ tx = [r \in Run |-> Empty]
    /\ sum = [r \in Run |-> NoSummary]

-----------------------------------------------------------------------------
(* Where a run stands, and whom it waits for. *)

Rec(r)     == Rows[export[r]][row[r]]
Journal(r) == Rec(r).journal
View(r)    == Overlay(db, tx[r])

\* The next statement of r needs a row that q has written and not committed.
WaitsFor(r, q) ==
    /\ q # r
    /\ \/ phase[r] = "import"  /\ Imported(tx[q], export[r])
       \/ phase[r] = "client"  /\ ClientOf[Rec(r).svc] \in tx[q].clients
       \/ phase[r] = "service" /\ Rec(r).svc \in tx[q].business_services
       \/ phase[r] = "ticket"  /\ tx[q].tickets[Rec(r).num] # Absent
       \/ phase[r] = "event"   /\ HasEvent(tx[q], Rec(r).num, Journal(r)[entry[r]])

Executes(r, p) == phase[r] = p /\ \A q \in Run : ~WaitsFor(r, q)

GoTo(r, p) == phase' = [phase EXCEPT ![r] = p]

\* Write's loop goes on to record i, or falls through to Commit.
ToRecord(r, i) ==
    /\ row' = [row EXCEPT ![r] = i]
    /\ entry' = [entry EXCEPT ![r] = 0]
    /\ GoTo(r, IF i \in DOMAIN Rows[export[r]] THEN "client" ELSE "commit")

\* insertEvents goes on to entry j, or Write goes on to the next record.
ToEntry(r, j) ==
    IF j \in DOMAIN Journal(r)
    THEN /\ entry' = [entry EXCEPT ![r] = j]
         /\ GoTo(r, "event")
         /\ UNCHANGED row
    ELSE ToRecord(r, row[r] + 1)

-----------------------------------------------------------------------------
(* The statements of one run. *)

\* Read, Headers and MapRow have accepted the file and BeginTx has succeeded.
Start(r, x) ==
    /\ phase[r] = "idle"
    /\ GoTo(r, "import")
    /\ export' = [export EXCEPT ![r] = x]
    /\ UNCHANGED <<db, row, entry, tx, sum>>

\* Read, Headers, MapRow or BeginTx returns an error: nothing was written.
Reject(r) ==
    /\ phase[r] = "idle"
    /\ GoTo(r, "failed")
    /\ UNCHANGED <<db, export, row, entry, tx, sum>>

\* Mutant: the imports row is inserted outside the transaction.
InsertImport_Autocommit(r) ==
    /\ Executes(r, "import")
    /\ ~Imported(View(r), export[r])
    /\ db' = [db EXCEPT !.imports = @ \cup {[hash |-> export[r], id |-> r]}]
    /\ ToRecord(r, 1)
    /\ UNCHANGED <<tx, export, sum>>

\* upsertImport, the INSERT: RETURNING id yields a row.
InsertImport(r) ==
    /\ Executes(r, "import")
    /\ ~Imported(View(r), export[r])
    /\ tx' = [tx EXCEPT ![r].imports = @ \cup {[hash |-> export[r], id |-> r]}]
    /\ ToRecord(r, 1)
    /\ UNCHANGED <<db, export, sum>>

\* upsertImport, the INSERT: ON CONFLICT DO NOTHING, hence ErrNoRows.
FindImport(r) ==
    /\ Executes(r, "import")
    /\ Imported(View(r), export[r])
    /\ GoTo(r, "lookup")
    /\ UNCHANGED <<db, export, row, entry, tx, sum>>

\* upsertImport, the SELECT: the run short-circuits to its Commit.
LookupImport(r) ==
    /\ Executes(r, "lookup")
    /\ Imported(View(r), export[r])
    /\ GoTo(r, "commit")
    /\ sum' = [sum EXCEPT ![r].events_skipped = TotalEvents(export[r]),
                          ![r].short = TRUE]
    /\ UNCHANGED <<db, export, row, entry, tx>>

\* A nil client name reaches no SQL.
UpsertClient(r) ==
    /\ Executes(r, "client")
    /\ tx' = [tx EXCEPT ![r].clients = @ \cup ({ClientOf[Rec(r).svc]} \ {Null})]
    /\ GoTo(r, "service")
    /\ UNCHANGED <<db, export, row, entry, sum>>

UpsertBusinessService(r) ==
    /\ Executes(r, "service")
    /\ tx' = [tx EXCEPT ![r].business_services = @ \cup {Rec(r).svc}]
    /\ GoTo(r, "ticket")
    /\ UNCHANGED <<db, export, row, entry, sum>>

\* Mutant: ON CONFLICT leaves the row of a known ticket alone, and unlocked.
UpsertTicket_DoNothing(r) ==
    /\ Executes(r, "ticket")
    /\ tx' = IF View(r).tickets[Rec(r).num] = Absent
             THEN [tx EXCEPT ![r].tickets[Rec(r).num] = RowOf(Rec(r), r)]
             ELSE tx
    /\ sum' = IF View(r).tickets[Rec(r).num] = Absent
              THEN [sum EXCEPT ![r].tickets_new = @ + 1]
              ELSE [sum EXCEPT ![r].tickets_updated = @ + 1]
    /\ ToEntry(r, 1)
    /\ UNCHANGED <<db, export>>

\* Mutant: DO UPDATE forgets source_import_id.
UpsertTicket_StaleSource(r) ==
    /\ Executes(r, "ticket")
    /\ LET old == View(r).tickets[Rec(r).num] IN
       tx' = [tx EXCEPT ![r].tickets[Rec(r).num] =
                 RowOf(Rec(r), IF old = Absent THEN r ELSE old.source)]
    /\ sum' = IF View(r).tickets[Rec(r).num] = Absent
              THEN [sum EXCEPT ![r].tickets_new = @ + 1]
              ELSE [sum EXCEPT ![r].tickets_updated = @ + 1]
    /\ ToEntry(r, 1)
    /\ UNCHANGED <<db, export>>

\* Mutant: each ticket row is committed by a statement of its own.
UpsertTicket_Autocommit(r) ==
    /\ Executes(r, "ticket")
    /\ db' = [db EXCEPT !.tickets[Rec(r).num] = RowOf(Rec(r), r)]
    /\ sum' = IF View(r).tickets[Rec(r).num] = Absent
              THEN [sum EXCEPT ![r].tickets_new = @ + 1]
              ELSE [sum EXCEPT ![r].tickets_updated = @ + 1]
    /\ ToEntry(r, 1)
    /\ UNCHANGED <<tx, export>>

\* Mutant: a ticket is new unless an earlier import has it.
UpsertTicket_NewByImport(r) ==
    /\ Executes(r, "ticket")
    /\ tx' = [tx EXCEPT ![r].tickets[Rec(r).num] = RowOf(Rec(r), r)]
    /\ sum' = IF db.tickets[Rec(r).num] = Absent
              THEN [sum EXCEPT ![r].tickets_new = @ + 1]
              ELSE [sum EXCEPT ![r].tickets_updated = @ + 1]
    /\ ToEntry(r, 1)
    /\ UNCHANGED <<db, export>>

\* (xmax = 0) AS new_row tells an insert from an update, of a row of this very
\* transaction too.
UpsertTicket(r) ==
    /\ Executes(r, "ticket")
    /\ tx' = [tx EXCEPT ![r].tickets[Rec(r).num] = RowOf(Rec(r), r)]
    /\ sum' = IF View(r).tickets[Rec(r).num] = Absent
              THEN [sum EXCEPT ![r].tickets_new = @ + 1]
              ELSE [sum EXCEPT ![r].tickets_updated = @ + 1]
    /\ ToEntry(r, 1)
    /\ UNCHANGED <<db, export>>

\* Mutant: the INSERT has no ON CONFLICT, and no constraint to conflict with.
InsertEvent_NoConflict(r) ==
    /\ Executes(r, "event")
    /\ sum' = [sum EXCEPT ![r].events_new = @ + 1]
    /\ tx' = [tx EXCEPT ![r].ticket_events = @ \cup
                 {[num |-> Rec(r).num, entry |-> Journal(r)[entry[r]], source |-> r]}]
    /\ ToEntry(r, entry[r] + 1)
    /\ UNCHANGED <<db, export>>

\* Mutant: RowsAffected is not looked at.
InsertEvent_CountAll(r) ==
    /\ Executes(r, "event")
    /\ LET e == Journal(r)[entry[r]] IN
       tx' = IF HasEvent(View(r), Rec(r).num, e)
             THEN tx
             ELSE [tx EXCEPT ![r].ticket_events = @ \cup
                      {[num |-> Rec(r).num, entry |-> e, source |-> r]}]
    /\ sum' = [sum EXCEPT ![r].events_new = @ + 1]
    /\ ToEntry(r, entry[r] + 1)
    /\ UNCHANGED <<db, export>>

\* ON CONFLICT DO NOTHING; RowsAffected tells new from skipped.
InsertEvent(r) ==
    /\ Executes(r, "event")
    /\ LET e == Journal(r)[entry[r]] IN
       IF HasEvent(View(r), Rec(r).num, e)
       THEN /\ sum' = [sum EXCEPT ![r].events_skipped = @ + 1]
            /\ UNCHANGED tx
       ELSE /\ sum' = [sum EXCEPT ![r].events_new = @ + 1]
            /\ tx' = [tx EXCEPT ![r].ticket_events = @ \cup
                         {[num |-> Rec(r).num, entry |-> e, source |-> r]}]
    /\ ToEntry(r, entry[r] + 1)
    /\ UNCHANGED <<db, export>>

-----------------------------------------------------------------------------
(* The end of a transaction, and of a run. *)

\* What r wrote becomes visible, and its locks are released.
Publish(r) ==
    /\ db' = View(r)
    /\ tx' = [tx EXCEPT ![r] = Empty]

\* The transaction of r is gone as if it had never been.
Discard(r) ==
    /\ tx' = [tx EXCEPT ![r] = Empty]
    /\ UNCHANGED db

\* The run returns err: its Summary is never printed.
EndInError(r) ==
    /\ GoTo(r, "failed")
    /\ row' = [row EXCEPT ![r] = 0]
    /\ entry' = [entry EXCEPT ![r] = 0]
    /\ sum' = [sum EXCEPT ![r] = NoSummary]
    /\ UNCHANGED export

\* The server carries out COMMIT; the answer is still on its way.
ServerCommit(r) ==
    /\ phase[r] = "commit"
    /\ Publish(r)
    /\ GoTo(r, "committed")
    /\ UNCHANGED <<export, row, entry, sum>>

\* Commit returns nil and main prints the Summary.
Ack(r) ==
    /\ phase[r] = "committed"
    /\ GoTo(r, "ok")
    /\ row' = [row EXCEPT ![r] = 0]
    /\ UNCHANGED <<db, export, entry, tx, sum>>

\* The answer is lost, or ctx expires first: the run fails though it committed.
AckLost(r) ==
    /\ phase[r] = "committed"
    /\ EndInError(r)
    /\ UNCHANGED <<db, tx>>

\* Mutant: no deferred Rollback.
StatementFails_NoRollback(r) ==
    /\ phase[r] \in InTransaction
    /\ EndInError(r)
    /\ UNCHANGED <<db, tx>>

\* Mutant: the error of Commit is dropped.
StatementFails_IgnoreCommit(r) ==
    /\ phase[r] \in InTransaction
    /\ Discard(r)
    /\ IF phase[r] = "commit"
       THEN GoTo(r, "ok") /\ UNCHANGED <<row, entry, sum, export>>
       ELSE EndInError(r)

\* A statement or the COMMIT fails; the deferred Rollback undoes the run.
StatementFails(r) ==
    /\ phase[r] \in InTransaction
    /\ Discard(r)
    /\ EndInError(r)

\* Postgres breaks a cycle of waits by failing the statement of one member.
DeadlockAbort(r) ==
    /\ \E C \in SUBSET Run :
          /\ r \in C
          /\ \A p \in C : \E q \in C : WaitsFor(p, q)
          /\ \A p \in C : \E q \in C : WaitsFor(q, p)
    /\ Discard(r)
    /\ EndInError(r)

\* Mutant: a dropped connection commits what it has.
LoseClient_CommitsLater(r) ==
    /\ phase[r] \in InTransaction
    /\ GoTo(r, "orphan_commit")
    /\ UNCHANGED <<db, export, row, entry, tx, sum>>

\* The 5-minute ctx expires or the process dies: the backend has yet to
\* notice, and may already have been told to commit.
LoseClient(r) ==
    /\ phase[r] \in InTransaction
    /\ GoTo(r, IF phase[r] = "commit" THEN "orphan_commit" ELSE "orphan")
    /\ UNCHANGED <<db, export, row, entry, tx, sum>>

BackendRollback(r) ==
    /\ phase[r] \in {"orphan", "orphan_commit"}
    /\ Discard(r)
    /\ EndInError(r)

BackendCommit(r) ==
    /\ phase[r] = "orphan_commit"
    /\ Publish(r)
    /\ EndInError(r)

-----------------------------------------------------------------------------
\* What the code and the server do by themselves, with nothing going wrong.
Proceed(r) ==
    \/ InsertImport(r) \/ FindImport(r) \/ LookupImport(r)
    \/ UpsertClient(r) \/ UpsertBusinessService(r)
    \/ UpsertTicket(r) \/ InsertEvent(r)
    \/ ServerCommit(r) \/ Ack(r)
    \/ DeadlockAbort(r) \/ BackendRollback(r)

Step(r) ==
    \/ \E x \in Export : Start(r, x)
    \/ Reject(r)
    \/ Proceed(r)
    \/ AckLost(r) \/ StatementFails(r)
    \/ LoseClient(r) \/ BackendCommit(r)

Next == \E r \in Run : Step(r)

Spec == Init /\ [][Next]_vars

\* A run that can execute its statement does, a cycle of waits is broken, and
\* a backend notices that its client is gone.
FairSpec == Spec /\ \A r \in Run : WF_vars(Proceed(r))

-----------------------------------------------------------------------------
(***************************************************************************)
(* Where the loops stand and what the transactions hold: the inductive     *)
(* invariant behind the theorems.                                          *)
(***************************************************************************)

Catalog == INSTANCE IngestCatalog WITH db <- db

Looping    == {"client", "service", "ticket", "event"}
Committing == {"commit", "orphan_commit"}

\* The run is between its INSERT into imports and the end of its COMMIT.
Writing(r) == phase[r] \in Looping \/ (phase[r] \in Committing /\ ~sum[r].short)

\* The indices of a run are inside its export whenever a statement uses them,
\* and past its end when the run commits.
Place(r) ==
    /\ phase[r] \notin {"idle", "failed"} => export[r] \in Export
    /\ phase[r] \in Looping => row[r] \in DOMAIN Rows[export[r]] /\ ~sum[r].short
    /\ phase[r] = "event" => entry[r] \in DOMAIN Journal(r)
    /\ phase[r] \in Committing /\ ~sum[r].short => row[r] = Len(Rows[export[r]]) + 1
    /\ phase[r] \in {"idle", "import", "lookup"} => ~sum[r].short

PlaceOK == \A r \in Run : Place(r)

\* The records behind r, counting its current one if it is at a statement in past.
Behind(r, past) ==
    {k \in DOMAIN Rows[export[r]] :
        k < row[r] \/ (k = row[r] /\ phase[r] \in past)}

\* Entry e of ticket n is behind r.
Passed(r, n, e) ==
    \E k \in DOMAIN Rows[export[r]] : \E j \in DOMAIN Rows[export[r]][k].journal :
        /\ Rows[export[r]][k].num = n
        /\ Rows[export[r]][k].journal[j] = e
        /\ \/ k < row[r]
           \/ k = row[r] /\ phase[r] = "event" /\ j < entry[r]

\* A transaction has written exactly what the loops have passed: the last
\* record of every ticket so far, and the entries the database does not have.
Wrote(r) ==
    LET x == export[r]
        w == tx[r]
        Upserted == Behind(r, {"event"})
    IN  /\ w.imports = {[hash |-> x, id |-> r]}
        /\ w.clients = {ClientOf[Rows[x][k].svc] :
                           k \in Behind(r, {"service", "ticket", "event"})} \ {Null}
        /\ w.business_services = {Rows[x][k].svc : k \in Behind(r, {"ticket", "event"})}
        /\ \A n \in Ticket :
              IF \E k \in Upserted : Rows[x][k].num = n
              THEN \E k \in Upserted :
                      /\ Rows[x][k].num = n
                      /\ \A l \in Upserted : l > k => Rows[x][l].num # n
                      /\ w.tickets[n] = RowOf(Rows[x][k], r)
              ELSE w.tickets[n] = Absent
        /\ \A v \in EventRow :
              v \in w.ticket_events <=>
                 /\ v.source = r
                 /\ Passed(r, v.num, v.entry)
                 /\ ~HasEvent(db, v.num, v.entry)

WrittenSoFar == \A r \in Run : Writing(r) => Wrote(r)

\* Any other transaction has written nothing, but for one whose client is lost:
\* it will be rolled back, so only its locks matter.
ElseEmpty ==
    \A r \in Run : Writing(r) \/ phase[r] = "orphan" \/ tx[r] = Empty

\* No two open transactions have written the same import or the same ticket.
LocksExclude ==
    \A r, q \in Run : r # q =>
        /\ \A i \in tx[r].imports : ~Imported(tx[q], i.hash)
        /\ \A n \in Ticket : tx[r].tickets[n] # Absent => tx[q].tickets[n] = Absent

\* A transaction has written events of tickets it has locked only, even one
\* whose client is lost.
EventsLocked ==
    \A r \in Run : \A v \in tx[r].ticket_events : tx[r].tickets[v.num] # Absent

\* Nor has one written an import that duplicates a committed one ...
NotYetImported == \A r \in Run : Writing(r) => ~Imported(db, export[r])

\* ... and a committed import belongs to a run that is past its COMMIT.
ImportIds == \A i \in db.imports : phase[i.id] \in {"committed", "ok", "failed"}

IInv == /\ TypeOK
        /\ PlaceOK
        /\ ElseEmpty
        /\ LocksExclude
        /\ EventsLocked
        /\ NotYetImported
        /\ ImportIds
        /\ WrittenSoFar

-----------------------------------------------------------------------------
(***************************************************************************)
(* What the Summaries count, while the loops run and after the COMMIT: the *)
(* second inductive invariant, on top of the first.                        *)
(***************************************************************************)

\* The runs whose imports row is committed, and those that know it is.
Importers == {i.id : i \in db.imports}
Done      == {r \in Run : phase[r] \in {"committed", "ok"}}

Stored       == {n \in Ticket : db.tickets[n] # Absent}
Fresh(r)     == {n \in Ticket : tx[r].tickets[n] # Absent /\ db.tickets[n] = Absent}
SourcedBy(r) == {v \in db.ticket_events : v.source = r}

\* The journal slots behind r.
SlotsBehind(r) ==
    {s \in Slots(export[r]) :
        s[1] < row[r] \/ (s[1] = row[r] /\ phase[r] = "event" /\ s[2] < entry[r])}

\* As many elements as the runs in R have reported new tickets.
Counted(R) == UNION {{r} \X (1 .. sum[r].tickets_new) : r \in R}

\* In the loops: new tickets and events are the uncommitted ones, and with the
\* updated and skipped ones make up all that is behind.
CountsLoop(r) ==
    /\ IsFiniteSet(Fresh(r)) /\ sum[r].tickets_new = Cardinality(Fresh(r))
    /\ IsFiniteSet(tx[r].ticket_events)
    /\ sum[r].events_new = Cardinality(tx[r].ticket_events)
    /\ sum[r].tickets_new + sum[r].tickets_updated
         = IF phase[r] = "event" THEN row[r] ELSE row[r] - 1
    /\ sum[r].events_new + sum[r].events_skipped = Cardinality(SlotsBehind(r))

\* A run that short-circuited reports all its entries skipped.
CountsShort(r) ==
    /\ sum[r].tickets_new = 0 /\ sum[r].tickets_updated = 0
    /\ sum[r].events_new = 0 /\ sum[r].events_skipped = TotalEvents(export[r])

\* Past the COMMIT of a run that did not.
CountsDone(r) ==
    /\ IsFiniteSet(SourcedBy(r)) /\ sum[r].events_new = Cardinality(SourcedBy(r))
    /\ sum[r].tickets_new + sum[r].tickets_updated = Len(Rows[export[r]])
    /\ sum[r].events_new + sum[r].events_skipped = TotalEvents(export[r])

Counts(r) ==
    /\ phase[r] \in {"idle", "import", "lookup"} => sum[r] = NoSummary
    /\ Writing(r) => CountsLoop(r)
    /\ phase[r] \in Committing /\ sum[r].short => CountsShort(r)
    /\ r \in Done => IF sum[r].short THEN CountsShort(r) /\ r \notin Importers
                                    ELSE CountsDone(r) /\ r \in Importers

CountsOK == \A r \in Run : Counts(r)

\* A run that committed and was not told keeps its tickets uncounted.
TicketsCounted ==
    /\ IsFiniteSet(Stored) /\ IsFiniteSet(Counted(Done))
    /\ Cardinality(Counted(Done)) <= Cardinality(Stored)
    /\ Importers \subseteq Done => Cardinality(Counted(Done)) = Cardinality(Stored)

Accounts == CountsOK /\ TicketsCounted

-----------------------------------------------------------------------------
(***************************************************************************)
(* Properties.                                                             *)
(***************************************************************************)

\* What ingestion promises about the tables alone, whoever runs it: IngestCatalog
\* states these four.
ImportComplete  == Catalog!ImportComplete
StoredOnce      == Catalog!StoredOnce
Provenance      == Catalog!Provenance
ExportsNeverMix == Catalog!ExportsNeverMix

\* The Summary a successful run prints accounts for its file: every journal
\* entry is new or skipped, the new ones are exactly the events it is the
\* source of, every record is a new or an updated ticket; a short-circuited run
\* reports all its entries skipped and is the source of nothing.
SummaryAccounts ==
    \A r \in Run : phase[r] = "ok" =>
        LET x == export[r]
            s == sum[r]
        IN  /\ s.events_new + s.events_skipped = TotalEvents(x)
            /\ s.events_new = Cardinality({v \in db.ticket_events : v.source = r})
            /\ s.tickets_new + s.tickets_updated = IF s.short THEN 0 ELSE Len(Rows[x])
            /\ s.short <=> r \notin Importers

\* Over all runs the tickets reported new are the tickets there are, but for
\* those of a run that committed without learning of it.
TicketsCountedOnce ==
    LET Good == {r \in Run : phase[r] = "ok"}
    IN  /\ Cardinality(Counted(Good)) <= Cardinality(Stored)
        /\ Importers \subseteq Good => Cardinality(Counted(Good)) = Cardinality(Stored)

\* A run that reports success, short-circuited or not, leaves its export
\* imported: the one it short-circuits to has committed, not just begun.
OkMeansImported ==
    \A r \in Run : phase[r] = "ok" => Imported(db, export[r])

\* insertEvents never waits for another run: the ticket's row lock, taken just
\* before, already keeps everyone else from that ticket's events.
EventInsertNeverWaits ==
    \A r, q \in Run : phase[r] = "event" => ~WaitsFor(r, q)

\* Seen from outside, an ingest takes in one whole export, at once and at most
\* once, or changes nothing, whatever fails and whoever else is running.
IngestIsAtomic == Catalog!Spec

\* Every run that was started ends, and no transaction stays open behind it:
\* no lost client, failed statement or circle of waiting runs stops the others.
EveryRunEnds ==
    \A r \in Run : phase[r] # "idle" ~> phase[r] \in {"ok", "failed"} /\ tx[r] = Empty
=============================================================================
