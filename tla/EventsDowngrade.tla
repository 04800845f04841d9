-------------------------- MODULE EventsDowngrade --------------------------
(***************************************************************************)
(* Migration 0006 taken back and applied again while `ingest` processes    *)
(* write ticket_events.  `server -migrate=down` runs beside them: its      *)
(* DELETE keeps one body per second and author, its ALTERs then want the   *)
(* table for themselves, and an ingest written for the wide key meets the  *)
(* narrow one.  Statements are those of IngestWriter, READ COMMITTED; the  *)
(* locks are Postgres's.                                                   *)
(***************************************************************************)
EXTENDS FiniteSetsExt, Integers, Sequences

CONSTANTS
    Entry,     \* journal entries: records of num, moment, author and body
    Rows,      \* export |-> sequence of records of num and journal
    Run,       \* executions of the ingest CLI
    Migration, \* the execution of the migrations, beside the runs
    MaxDowns   \* how often the operator takes 0006 back

Export == DOMAIN Rows

ASSUME RowsAssumption ==
    \A x \in Export :
        /\ Len(Rows[x]) \in Nat /\ DOMAIN Rows[x] = 1 .. Len(Rows[x])
        /\ \A k \in DOMAIN Rows[x] : LET journal == Rows[x][k].journal IN
              /\ Len(journal) \in Nat /\ DOMAIN journal = 1 .. Len(journal)
              /\ \A j \in DOMAIN journal : journal[j] \in Entry /\ journal[j].num = Rows[x][k].num

ASSUME MigrationAssumption == Migration \notin Run /\ MaxDowns \in Nat

VARIABLES
    rows,      \* the committed rows of ticket_events: records of id and entry
    key,       \* the UNIQUE of ticket_events: "idem", or "triple" without 0006
    serial,    \* the last id that ticket_events.id has given out
    imports,   \* the exports whose imports row is committed
    phase,     \* where each run stands
    export,    \* the export each run was started on
    row,       \* Write's loop over records
    entry,     \* insertEvents's loop over the record's journal
    touched,   \* the runs whose transaction holds a lock on ticket_events
    tx,        \* the rows each open transaction has inserted
    mig,       \* where the migration stands
    deleting,  \* the rows the migration has deleted and not committed
    downs,     \* downgrades started
    first,     \* history: the first body committed at each triple
    removed    \* history: the entries downgrades have removed

vars == <<rows, key, serial, imports, phase, export, row, entry, touched, tx,
          mig, deleting, downs, first, removed>>
ingest    == <<imports, phase, export, row, entry, touched, tx>>
migration == <<key, mig, deleting, downs, removed>>

Triple(e) == <<e.num, e.moment, e.author>>
Triples   == {Triple(e) : e \in Entry}
None      == [triple |-> FALSE]

ASSUME NoneAssumption == None \notin Entry

Open   == {"import", "ticket", "event", "commit"}
Phases == {"idle", "ok", "failed"} \cup Open

Record(r)  == Rows[export[r]][row[r]]
Current(r) == Record(r).journal[entry[r]]

TypeOK ==
    /\ rows \subseteq [id : 1..serial, entry : Entry]
    /\ key \in {"idem", "triple"}
    /\ serial \in Nat
    /\ imports \subseteq Export
    /\ phase \in [Run -> Phases]
    /\ \A r \in Run : phase[r] # "idle" => export[r] \in Export
    /\ \A r \in Run : phase[r] \in {"ticket", "event"} => row[r] \in DOMAIN Rows[export[r]]
    /\ \A r \in Run : phase[r] = "event" => entry[r] \in DOMAIN Record(r).journal
    /\ touched \subseteq Run
    /\ \A r \in Run : tx[r] # {} => r \in touched
    /\ mig \in {"idle", "deleted", "altering", "altered"}
    /\ deleting \subseteq rows
    /\ downs \in 0..MaxDowns
    /\ first \in [Triples -> Entry \cup {None}]
    /\ removed \subseteq Entry

Init ==
    /\ rows = {}
    /\ key = "idem"
    /\ serial = 0
    /\ imports = {}
    /\ phase = [r \in Run |-> "idle"]
    /\ export = [r \in Run |-> None]
    /\ row = [r \in Run |-> 0]
    /\ entry = [r \in Run |-> 0]
    /\ touched = {}
    /\ tx = [r \in Run |-> {}]
    /\ mig = "idle"
    /\ deleting = {}
    /\ downs = 0
    /\ first = [t \in Triples |-> None]
    /\ removed = {}

-----------------------------------------------------------------------------
(* Who waits for whom. *)

\* The tickets a run has upserted, and so locked.
Locked(r) ==
    {Rows[export[r]][k].num : k \in
        {i \in DOMAIN Rows[export[r]] : i < row[r] \/ (i = row[r] /\ phase[r] = "event")}}

\* ticket_events is asked for by, or is in the hands of, the ALTER TABLE: a
\* transaction that has not touched it yet queues behind.
Queues(r) == phase[r] = "event" /\ r \notin touched /\ mig \in {"altering", "altered"}

WaitsFor(p, q) ==
    \/ /\ {p, q} \subseteq Run /\ p # q /\ phase[q] \in Open
       /\ \/ phase[p] = "import" /\ phase[q] # "import" /\ export[q] = export[p]
          \/ phase[p] = "ticket" /\ phase[q] # "import" /\ Record(p).num \in Locked(q)
    \/ /\ p \in Run /\ q = Migration
       /\ \/ Queues(p)
          \/ /\ phase[p] = "event" /\ p \in touched
             /\ \E v \in deleting : v.entry = Current(p)
    \/ p = Migration /\ mig = "altering" /\ q \in touched

Waits(p) == \E q \in Run \cup {Migration} : WaitsFor(p, q)

\* C holds p, and every member waits for a member and is waited for by one.
DeadlockOf(p, C) ==
    /\ p \in C
    /\ \A a \in C : (\E b \in C : WaitsFor(a, b)) /\ (\E b \in C : WaitsFor(b, a))

Circles(p) == {C \in SUBSET (Run \cup {Migration}) : DeadlockOf(p, C)}

-----------------------------------------------------------------------------
(* One run. *)

GoTo(r, p) == phase' = [phase EXCEPT ![r] = p]

ToRecord(r, i) ==
    /\ row' = [row EXCEPT ![r] = i]
    /\ entry' = [entry EXCEPT ![r] = 0]
    /\ GoTo(r, IF i \in DOMAIN Rows[export[r]] THEN "ticket" ELSE "commit")

ToEntry(r, j) ==
    IF j \in DOMAIN Record(r).journal
    THEN entry' = [entry EXCEPT ![r] = j] /\ GoTo(r, "event") /\ UNCHANGED row
    ELSE ToRecord(r, row[r] + 1)

\* The transaction is rolled back; ids it was given are not given back.
Rollback(r) ==
    /\ GoTo(r, "failed")
    /\ row' = [row EXCEPT ![r] = 0]
    /\ entry' = [entry EXCEPT ![r] = 0]
    /\ tx' = [tx EXCEPT ![r] = {}]
    /\ touched' = touched \ {r}
    /\ UNCHANGED <<imports, export>>

Start(r, x) ==
    /\ phase[r] = "idle"
    /\ GoTo(r, "import")
    /\ export' = [export EXCEPT ![r] = x]
    /\ UNCHANGED <<rows, serial, first, imports, row, entry, touched, tx, migration>>

\* upsertImport: a known export short-circuits the run, whatever has become of
\* its events.
UpsertImport(r) ==
    /\ phase[r] = "import" /\ ~Waits(r)
    /\ IF export[r] \in imports
       THEN GoTo(r, "ok") /\ UNCHANGED <<row, entry>>
       ELSE ToRecord(r, 1)
    /\ UNCHANGED <<rows, serial, first, imports, export, touched, tx, migration>>

\* Mutant: DO NOTHING leaves the ticket's row unlocked.
UpsertTicket_Unlocked(r) ==
    /\ phase[r] = "ticket"
    /\ ToEntry(r, 1)
    /\ UNCHANGED <<rows, serial, first, imports, export, touched, tx, migration>>

\* The statements of a record up to its ticket, whose row stays locked.
UpsertTicket(r) ==
    /\ phase[r] = "ticket" /\ ~Waits(r)
    /\ ToEntry(r, 1)
    /\ UNCHANGED <<rows, serial, first, imports, export, touched, tx, migration>>

\* The first INSERT of the transaction locks ticket_events against ALTER TABLE.
\* Postgres lets it jump the queue when waiting there would close a circle.
Touch(r) ==
    /\ phase[r] = "event" /\ r \notin touched
    /\ ~Waits(r) \/ Circles(r) # {}
    /\ touched' = touched \cup {r}
    /\ UNCHANGED <<rows, serial, first, imports, phase, export, row, entry, tx, migration>>

\* Mutant: an event that cannot be inserted is skipped.
InsertEvent_Skips(r) ==
    /\ phase[r] = "event" /\ r \in touched /\ ~Waits(r)
    /\ IF key = "triple" \/ \E v \in rows \cup tx[r] : v.entry = Current(r)
       THEN UNCHANGED <<tx, serial>>
       ELSE /\ serial' = serial + 1
            /\ tx' = [tx EXCEPT ![r] = @ \cup {[id |-> serial + 1, entry |-> Current(r)]}]
    /\ ToEntry(r, entry[r] + 1)
    /\ UNCHANGED <<rows, first, imports, export, touched, migration>>

\* insertEventSQL names body_hash: without 0006 there is no such column, and
\* the run fails.
InsertEvent(r) ==
    /\ phase[r] = "event" /\ r \in touched /\ ~Waits(r)
    /\ IF key = "triple"
       THEN Rollback(r) /\ UNCHANGED serial
       ELSE /\ IF \E v \in rows \cup tx[r] : v.entry = Current(r)
               THEN UNCHANGED <<tx, serial>>
               ELSE /\ serial' = serial + 1
                    /\ tx' = [tx EXCEPT ![r] =
                                 @ \cup {[id |-> serial + 1, entry |-> Current(r)]}]
            /\ ToEntry(r, entry[r] + 1)
            /\ UNCHANGED <<imports, export, touched>>
    /\ UNCHANGED <<rows, first, migration>>

\* The first body of a triple is the one of lowest id among those that are
\* committed together.
Commit(r) ==
    /\ phase[r] = "commit"
    /\ rows' = rows \cup tx[r]
    /\ first' = [t \in Triples |->
                    LET new == {v \in tx[r] : Triple(v.entry) = t}
                    IN  IF first[t] # None \/ new = {} THEN first[t]
                        ELSE (CHOOSE v \in new : \A w \in new : v.id <= w.id).entry]
    /\ imports' = imports \cup {export[r]}
    /\ tx' = [tx EXCEPT ![r] = {}]
    /\ touched' = touched \ {r}
    /\ row' = [row EXCEPT ![r] = 0]
    /\ GoTo(r, "ok")
    /\ UNCHANGED <<serial, export, entry, migration>>

\* A statement fails, or Postgres picks the run to break a deadlock that no
\* reordering of a queue can break.
RunFails(r) ==
    /\ phase[r] \in Open
    /\ Rollback(r)
    /\ UNCHANGED <<rows, serial, first, migration>>

DeadlockFailsRun(r) ==
    /\ \E C \in Circles(r) : \A q \in C \cap Run : ~Queues(q)
    /\ RunFails(r)

-----------------------------------------------------------------------------
(* The migration: `server -migrate=down`, and the Up of a later boot. *)

\* Mutant: the body observed last is kept.
Extra_KeepsLast ==
    {v \in rows : \E w \in rows : Triple(w.entry) = Triple(v.entry) /\ w.id > v.id}

\* Mutant: grouped without author_name.
Extra_NoAuthor ==
    {v \in rows : \E w \in rows :
        /\ w.entry.num = v.entry.num /\ w.entry.moment = v.entry.moment
        /\ w.id < v.id}

\* The rows that are not the lowest id of their triple.
Extra == {v \in rows : \E w \in rows : Triple(w.entry) = Triple(v.entry) /\ w.id < v.id}

\* DELETE sees the rows committed so far, and locks those it deletes.
DownDelete ==
    /\ mig = "idle" /\ key = "idem" /\ downs < MaxDowns
    /\ downs' = downs + 1
    /\ deleting' = Extra
    /\ mig' = "deleted"
    /\ UNCHANGED <<rows, serial, first, key, removed, ingest>>

\* ALTER TABLE asks for ticket_events ...
DownAlter ==
    /\ mig = "deleted"
    /\ mig' = "altering"
    /\ UNCHANGED <<rows, serial, first, key, deleting, downs, removed, ingest>>

\* Rows committed after the DELETE can violate the narrow key.
Conflict ==
    \E v, w \in rows \ deleting : v # w /\ Triple(v.entry) = Triple(w.entry)

MigrationRollback ==
    /\ mig' = "idle"
    /\ deleting' = {}
    /\ UNCHANGED <<rows, serial, first, key, downs, removed, ingest>>

\* Mutant: the narrow key is a plain index, which accepts the rows as they are.
AddConstraint_Unchecked ==
    /\ mig = "altering" /\ ~Waits(Migration)
    /\ mig' = "altered"
    /\ UNCHANGED <<rows, serial, first, key, deleting, downs, removed, ingest>>

\* Mutant: a conflict is tried again within the transaction, until it goes away.
AddConstraint_Retries ==
    /\ mig = "altering" /\ ~Waits(Migration) /\ ~Conflict
    /\ mig' = "altered"
    /\ UNCHANGED <<rows, serial, first, key, deleting, downs, removed, ingest>>

\* ... gets it when no transaction holds a lock on it, and ADD CONSTRAINT looks
\* at every row: a conflict takes the whole downgrade back.
AddConstraint ==
    /\ mig = "altering" /\ ~Waits(Migration)
    /\ IF Conflict
       THEN MigrationRollback
       ELSE /\ mig' = "altered"
            /\ UNCHANGED <<rows, serial, first, key, deleting, downs, removed, ingest>>

DownCommit ==
    /\ mig = "altered"
    /\ rows' = rows \ deleting
    /\ removed' = removed \cup {v.entry : v \in deleting}
    /\ key' = "triple"
    /\ mig' = "idle"
    /\ deleting' = {}
    /\ UNCHANGED <<serial, first, downs, ingest>>

\* The next boot applies 0006 again, in one transaction that has the table to
\* itself from its first ALTER.
Up ==
    /\ mig = "idle" /\ key = "triple" /\ touched = {}
    /\ key' = "idem"
    /\ UNCHANGED <<rows, serial, first, mig, deleting, downs, removed, ingest>>

\* Its context runs out, its process or its connection dies, or Postgres picks
\* it to break a deadlock.
MigrationFails ==
    /\ mig # "idle"
    /\ MigrationRollback

DeadlockFailsMigration ==
    /\ \E C \in Circles(Migration) : \A q \in C \cap Run : ~Queues(q)
    /\ MigrationFails

-----------------------------------------------------------------------------
Proceed(r) ==
    \/ UpsertImport(r) \/ UpsertTicket(r) \/ Touch(r) \/ InsertEvent(r) \/ Commit(r)
    \/ DeadlockFailsRun(r)

MigrationStep == DownAlter \/ AddConstraint \/ DownCommit \/ DeadlockFailsMigration

Next ==
    \/ \E r \in Run : (\E x \in Export : Start(r, x)) \/ Proceed(r) \/ RunFails(r)
    \/ MigrationStep
    \/ DownDelete \/ Up \/ MigrationFails

Spec == Init /\ [][Next]_vars

\* What can go on does; a deadlock is broken at the cost of a member.
FairSpec ==
    Spec /\ (\A r \in Run : WF_vars(Proceed(r))) /\ WF_vars(MigrationStep)

-----------------------------------------------------------------------------
(* Properties. *)

\* The UNIQUE constraint that ingestion's ON CONFLICT and the timeline rely on
\* holds of the committed rows, whichever of the two it is: no ingest that
\* commits between the DELETE and the ALTER TABLE gets past the narrow one.
KeyHolds ==
    \A v, w \in rows : v # w =>
        /\ v.entry # w.entry
        /\ key = "triple" => Triple(v.entry) # Triple(w.entry)

\* 0006's "we keep the lowest-id row per 3-col group (= the first observed body
\* at that triple)": through any downgrades, upgrades and ingests, the lowest
\* id of a triple is the body that was committed there first, and it stays.
FirstBodyKept ==
    \A t \in Triples : first[t] # None =>
        \E v \in rows :
            /\ v.entry = first[t]
            /\ \A w \in rows : Triple(w.entry) = t => v.id <= w.id

\* An imported export has lost no journal entry but to a downgrade: an ingest
\* that straddles one fails as a whole or leaves every entry stored.
OnlyDowngradesLose ==
    \A x \in imports : \A k \in DOMAIN Rows[x] : \A j \in DOMAIN Rows[x][k].journal :
        LET e == Rows[x][k].journal[j]
        IN  e \in removed \/ \E v \in rows : v.entry = e

\* Neither side waits for the other for ever: a run ends, and so does a
\* downgrade, though each may hold what the other one wants.
EveryoneEnds ==
    /\ \A r \in Run : phase[r] \in Open ~> phase[r] \in {"ok", "failed"}
    /\ mig # "idle" ~> mig = "idle"
=============================================================================
