# dh-support-assistant in TLA+

dh-support-assistant takes ServiceNow ticket exports (`.xlsx`) into Postgres with a
one-shot CLI and serves a read-only JSON API for a dashboard: ticket lists, one ticket
with its journal, statistics, and rollups by client and market.  This directory models
what it does: ingests that overlap, requests that read while they commit, servers that
boot, migrate and stop, and the parsers that decide what is stored.  TLC checks the
models, and TLAPS proves their central properties.

## The system

| part | state it keeps | operations | interacts with |
|---|---|---|---|
| ingest CLI (`cmd/ingest`, `ingest.Run`) | nothing between runs | read, map, hash, write, print the summary | writer; Postgres |
| ingest writer (`ingest/writer.go`) | one open transaction, loop indices, a `Summary` | `Write`: `upsertImport`, then per record `upsertClient`, `upsertBusinessService`, `upsertTicket`, `insertEvents`; commit | other runs, through row locks and unique keys |
| schema (`migrations/*.sql`) | five tables | unique keys on `import_hash`, `client_name`, `raw_value`, `ticket_external_id` and (ticket, second, author, body hash) | everything |
| read queries (`queries/*`) | none; one SQL statement is one snapshot | `Stats` (7 statements), `ListTickets` (2), `GetTicket` (2), `ListClients`, `ListMarkets` | commits of the writer; scoring |
| API handlers (`api/*`) | none | validate parameters, 2 s timeout, map errors to 400, 404, 500 | queries |
| scoring (`scoring/scoring.go`) | the unknown severities already warned about | `Score`, `BucketFor`, `StaleAsOf` | queries, the clock |
| reader, mapper, normaliser (`ingest/*`) | none | cells to records; content hash | writer |
| journal and service parsers (`domain/*`) | none | cell to entries; service to client, country, product | mapper |
| migrations (`db/migrate.go`) | `goose_db_version`, the schema | up at boot, down by hand | server, everything stored |
| server (`cmd/server`, `server/router.go`) | the pool, the listener | boot, readiness, shutdown | migrations, API |
| configuration, logging, egress probe, containers | read or opened once | | |

What is hard to get right, and hard to test, in it:

* **Overlapping ingests.**  A transaction is dozens to thousands of statements.  Two
  runs meet in row locks in whatever order their files list records; they may deadlock.
* **Failure in the middle**: a failing statement, a killed process, the five-minute
  timeout, and above all a COMMIT whose answer is lost.
* **Idempotency** at three levels (file, ticket, journal entry), each relying on what the
  others guarantee.
* **Reads of several statements** with commits in between, and offset paging.
* **Numeric edges** of scores, and staleness decided twice, once in Go and once in SQL.
* **What a hash or a key tells apart**: exports by their normalised content, journal
  entries by second, author and body, and a journal that is exported again and again.
* **Migrations without a lock**: boots, `make migrate` and `make migrate-down` beside
  each other and beside ingests, with crashes between two migrations.
* **Stopping** under load, with a pool, a deadline and clients that do not hurry.

For each part, what makes it correct: an ingest is atomic and happens at most once per
content; rows are traceable to the export they came from; the summary adds up; runs end.
One answer of the API may mix moments but no impossible ones; nothing stored is hidden
by a join.  Scores are in range and only grow with waiting; the two staleness decisions agree.
Parsers lose nothing but what they say they lose.  The schema is always a prefix of the
migrations, and a ready server has all of them unless somebody took one back under it.  A clean stop has answered everyone.

## Modules

```
ExportData              exports, records, the five tables, overlay of a transaction
 ├─ IngestCatalog       abstract: the tables change by taking in one whole export
 ├─ IngestWriter        detailed: runs, statements, locks, commits, failures
 │   ├─ IngestWriter_proofs
 │   └─ MCIngest
 └─ DashboardReads      requests over IngestCatalog's commits and Scoring
     ├─ DashboardReads_proofs
     └─ MCDashboard     MCDashboard.cfg, MCDashboardTotal.cfg
Scoring                 score, buckets, staleness as operators
 └─ TicketAging         one ticket, its events and the clock; TicketAging_proofs, MCTicketAging
Scorer                  the warn-once set of scoring.Scorer
 └─ Serving             requests, the pool and shutdown of one server; Serving_proofs, MCServing
ExportContent           sheets to records and hashes; MCExportContent
Journal                 ParseJournal's loop body and return, as operators
 ├─ JournalCell         the loop, a line a step
 │   └─ RowParsing      MapRow: ParseBusinessService, then ParseJournal; MCRowParsing
 └─ TicketJournal       a journal that grows, is exported and ingested; MCTicketJournal.cfg,
                        MCTicketJournalTies.cfg
BusinessService         ParseBusinessService's loop (run by RowParsing)
Parsing_proofs          the proofs about RowParsing, TicketJournal and ExportContent, which
                        share their lemmas about sequences
ServerBoot              boots, migrations, readiness; ServerBoot_proofs, MCServerBoot.cfg,
                        MCServerBootRace.cfg
EventsDowngrade         migration 0006 back and forth beside ingests; EventsDowngrade_proofs, MCEventsDowngrade
```

### ExportData

An export is its normalised content, so two files with one hash are one member of
`Export`.  `Rows` gives the records `MapRow` yields, in file order.  A record keeps what
decides which rows are written: the ticket number, the service, the journal, and one
`cols` for all columns the upsert copies.  A journal entry is its idempotency key.
`Overlay` lays an open transaction's writes over the committed rows; it serves both as
the transaction's own view and as the effect of COMMIT.

### IngestWriter

One run is one execution of the CLI.  `phase` is its next SQL statement, `row` and
`entry` are the loop indices of `Write` and `insertEvents`, `tx` is what its transaction
has written, `sum` the `Summary`.

| action | code |
|---|---|
| `Start`, `Reject` | `Run` up to `Write`: the file was accepted, or not |
| `InsertImport`, `FindImport`, `LookupImport` | `upsertImport`: the INSERT returned a row, or none; the SELECT |
| `UpsertClient`, `UpsertBusinessService`, `UpsertTicket` | the functions of these names; `xmax = 0` decides new or updated |
| `InsertEvent` | one turn of `insertEvents` |
| `ServerCommit`, `Ack`, `AckLost` | COMMIT carried out; its answer arrives, or does not |
| `StatementFails`, `DeadlockAbort` | an error return: deferred `Rollback`, exit 1 |
| `LoseClient`, `BackendRollback`, `BackendCommit` | process killed or `ctx` expired: the backend finds out later, and may already have been told to commit |

Locks need no state of their own.  A statement waits for an open transaction that has
written a row it conflicts with (`WaitsFor`), under READ COMMITTED; so an upsert that
follows a wait sees the committed row.  Which statements wait, and that they see
committed rows plus their own, is Postgres' behaviour as the SQL in `writer.go` uses it.

### IngestCatalog

The promise: `db` changes only by `Take`, which adds one whole export under a fresh
import id, never twice the same.  `IngestWriter` implements it with the identity on
`db`: each COMMIT is a step, all else stutters.

### DashboardReads

`at` is a handler's next statement, `got` what its statements have returned.  Statements
and commits interleave freely; the commits are `IngestCatalog`'s, which is sound because
the writer implements it.  `from`, `to` and `shown` are history variables for the
properties: the tables when the request came in and at its last statement, and what
lists have shown.  `NotInt` is a limit or offset `Atoi` refuses, and an id that is not a positive
number (`getTicket` refuses both alike).  `Orders` allows any order among rows the ORDER BY leaves tied, which is what SQL
promises.  Imports are numbered by (`ingested_at`, `id`), the order `last_import` uses.  That is the order in which
their transactions began; `Take` picks any free number, so they commit in any order.

### Scoring and TicketAging

Floats become whole numbers: time in days, weights in tenths, severities in quarters, and
the score counted in parts of `One`, so comparisons are exact.  Weights are any integers: `config.Load`
refuses none, not even a negative one, so the properties name what they need of them (`NoneNegative`, `AddUp`).  `TicketAging` lets the clock and
ingests run and asks what the score and the stale flag do.  `LastDay` bounds the clock.

### ExportContent

`Read`, `Headers`, `MapRow` and `ContentHash` are operators of the same names.  A cell is
a sequence of characters of which only those the code looks at are told apart: tab, line
ends, blank, hyphen, en dash, and words.  SHA-256 is taken to be injective, so the hash
*is* the text that is hashed.  `Import`, `ShortCircuit` and `Reject` are the ways
`Run` can end; `written` remembers which sheets the tables were written from.

### Journal, BusinessService, RowParsing and TicketJournal

A cell is a sequence of lines: a header (what the regular expression matches, with a time
that may be impossible), or a text, of which some are white and one is the empty line.
`OnHeader` and `OnText` are the two arms of `ParseJournal`'s loop, `flush` its closure,
`Returns` what comes after the loop: a set, because `sort.Slice` is not stable.  `JournalCell`
runs it a line a step.  Up to
12 elements Go's sort is an insertion sort, which keeps ties in order; `InsertionMax`
stands for that 12.

`TicketJournal` composes them with what surrounds them: people append entries
(`WriteEntry`); an export shows all so far, newest first (`Rendered`, external); `Ingest`
normalises, parses and inserts a snapshot of any length, an old one after a new one too.
One ingest is one step, which `Atomicity` of `IngestWriter_proofs` justifies.

`BusinessService` is the loop of `ParseBusinessService` over the fields of a cell: `Skip`,
`Client` and `Internal` are the turns it takes, `Empty` its error.  `RowParsing` puts the
two in the order of `MapRow`, where an error of the first leaves the second unread.

### ServerBoot

`pc` is where a process stands in `run` and `runMigrations`: ping, `currentVersion`
(which creates goose's table), the search for skipped migrations, then *read the
version* and *run one migration in a transaction* by turns, then serve or exit.  Goose is
external; that it locks nothing between the two (no session locker is configured in
`migrate.go`) is what the module is about.  `schema` is what is in the database, `rows`
what goose has recorded, and the two differ after a race.

| action | code |
|---|---|
| `Start` | `run` up to `db.NewPool`, with its flag and its configuration |
| `Ping`, `ReadBefore`, `Create`, `ReadAfter` | `NewPool`, `currentVersion` |
| `FindMissing`, `ReadCurrent`, `Up`, `Down` | `goose.UpContext`, `goose.DownContext`, and the six files |
| `Fail`, `Kill`, `Lose`, `Recover` | errors, timeouts, kills; the database container |

`raced` remembers that a down and another process' migration met between read and commit;
`overtaken` are the servers that were past the look for skipped migrations (`Past`) when a down
committed, until they exit.

### EventsDowngrade

`IngestWriter` takes the schema as given.  Here 0006 goes and comes under running ingests.
A run keeps its loops and the locks on tickets, but only `ticket_events` is a
table; `touched` are the transactions that hold its table lock, `deleting` the rows the
downgrade has deleted and not committed, `key` the unique key in force.  `DownDelete`,
`DownAlter`, `AddConstraint` and `DownCommit` are the statements of 0006's Down, `Up` its
Up.  `WaitsFor` has row locks, the table lock and the queue behind it; `Circles` are the
deadlocks Postgres breaks (`DeadlockFailsRun`, `DeadlockFailsMigration`), save those it avoids by
letting a waiter jump the queue (`Touch`).

### Scorer and Serving

`Serving` is `serveOnly`, the deferred `pool.Close`, and the handlers in between.
`Shutdown` closes the listener, `Drained` and `DrainTimeout` are its two returns, `Exit`
waits for the pool.  A handler acquires and releases a connection per query, and scores
the tickets a query brought while it holds the connection (statistics) or after
(`ScoreRow`).  Scoring is `Scorer`'s: `LoadOrStore` and the log line after it (`Warn`)
are two steps, so another request, or the exit, may come between them.  `Abandon` is a
handler whose query fails on the way or whose two seconds are over.

## What is checked

| run | instance | shows |
|---|---|---|
| `ingest` | 3 runs, exports A, B, D, 2 tickets, 3 services (2 internal), `FairSpec` | the table invariants, the summaries, that `insertEvents` never waits, that `IngestWriter` implements `IngestCatalog`, and that every started run ends |
| `ticket_aging` | 13 kinds of ticket, 3 journal entries, 21 days | growth of scores, bucket caps, staleness |
| `dashboard_reads` | 3 exports, 3 imports, 1 handler, requests of all kinds | what an answer may mix, which import it may call the last, what joins and rollups count |
| `list_total` | one filtered list | violated: a page longer than its total |
| `export_content` | 168 sheets, of which 148 are accepted; up to 2 ingests | cells over several lines lose nothing to a short circuit; cosmetics do not defeat it |
| `row_parsing` | every journal cell of up to 5 lines over 2 times, an impossible one, 3 texts; every service of up to 3 fields of up to 4 words and hyphens | entries, bodies and errors of `ParseJournal`; a client has its country, the parts are parts of the cell |
| `ticket_journal` | up to 4 entries over 2 seconds, 4 bodies, any sequence of ingests | what is stored is the longest snapshot, in order of time |
| `journal_ties` | up to 3 entries; cells of up to 12 are sorted by insertion | violated: entries of one second go in newest first |
| `server_boot` | 2 servers, 1 tool, 1 down, 1 fault, `FairSpec` | the schema is a prefix; ready means current unless a down overtook the server; a down takes back the latest; every server comes to serve |
| `down_race` | 1 server, 1 tool, 1 down | violated: a down that takes back two |
| `serving` | 3 requests of up to 2 queries, a pool of 2, an unknown severity, `FairSpec` | a clean stop has answered all, every stop ends, no second warning about a severity |
| `events_downgrade` | 2 runs, 2 exports, 2 downs, `FairSpec` | the unique key, the first body, nothing else lost, and all end |

*Bounds of the ingest and dashboard runs.*  Export A repeats an entry within one journal; B has the same tickets in the
other order, changed and moved to another service, with an old and a new entry; D has two
records about one ticket.  Three runs over them reach every wait, a deadlock of two, a
short circuit during and after the first run, and a retry after a lost commit; two runs
can only meet in a row, and two rows make the circle.  Handlers only read, so
they do not disturb each other: one handler suffices for what one answer says.  Three commits give a multi-statement request a commit between
any two of several of its statements.  The list limits are 1 by default and 3 at most,
for at most three tickets.

*Bounds of the parsers.*  The loop of `ParseJournal` remembers one open entry and one
error: five lines have every sequence of preamble, header, body, blank line, second header
and failure, and `InsertionMax` is 2 there, as in `ticket_journal`, so that cells go beyond it; `journal_ties` has Go's 12,
so that its trace is one the program has.
`TicketJournal` has a tie of two and of three among four entries, and bodies with a blank line
inside, at the end and of blanks only.  A field of four characters has a hyphen in every place and two in any two.
The sheets pair ten cells, with each separator inside and each blank at the end, in two
adjacent columns, put two tickets below each other with texts over several lines and what looks like the next ticket's number in
them, and have short, long, doubled, reordered and missing columns.  A short circuit needs two ingests, one to write and one to skip.

*Bounds of the server.*  A migration race needs two processes and a commit of a third
at most, since what a process has read is one version; one down beside a boot already meets the
dependency of 0006 on 0005, and `ServerBoot_proofs` covers any number.  One fault hits any step.  Two exports that take two tickets
in opposite orders give every deadlock with and without the migration, and a burst of
two bodies at one triple is the smallest 0006 is about.  Three requests are one more than the
pool, and each may bring the unknown severity in either of its queries.

No run uses symmetry: the ones with liveness or a refinement must not, and the others are small enough.

*Fairness.*  `IngestWriter` has weak fairness of `Proceed(r)`, per run: a process whose
statement can execute gets to execute it, Postgres breaks deadlocks (`deadlock_timeout`)
and notices dead clients.  No fairness is asked of failures, nor of `Start`.  A waiting
run needs no strong fairness: the one it waits for ends, and runs are finite in number.
`EventsDowngrade` adds weak fairness of the migration's steps.
`ServerBoot` has weak fairness of a process' steps, of a server's next start
(`docker/compose.yaml:60`, `restart: unless-stopped`) and of the database's return; faults and
downs are finite.  `Serving` has it for `serveOnly`, for queries, which
`withTimeout` bounds, and for scoring, which waits for nobody; not for the wait for a connection, nor for answers, since the server sets no `WriteTimeout` and a client
may never read.

*Deadlock* checking is off where the system may stop: all runs ended (`MCIngest`,
`MCEventsDowngrade`, `MCExportContent`), the row mapped (`MCRowParsing`), the process gone
(`MCServing`).

The type invariants, the range of scores and the order of entries are theorems below, and not
repeated in the runs.

Every property of a passing run has a mutant (`<definition>_<what is broken>`, beside
the definition it stands in for): the code change it mimics makes TLC find it violated.

### Disagreements between code and comments

Three are runs that TLC finds violated:

* `TotalMatchesFilter`: `queries/tickets.go:111-113` promises that `Total` matches the
  filtered rows; page and count are two snapshots, so a commit that closes tickets between them gives a
  page of three with a total of two.
* `InsertionChronological`: `domain/journal.go:43-45` sorts "so the writer's insertion order matches
  chronological order regardless of how ServiceNow rendered the cell".  Entries of one second keep the
  cell's newest-first order, and the timeline (`event_ts DESC, id DESC`) then shows the older one on top.
* `AlwaysTakesBackTheLatest`: `db/migrate.go:33` says `MigrateDown` "rolls back the most recent migration".
  When a boot commits 0006 after the down has read version 5, the table of 0005 goes with the column
  of 0006, which stays recorded.  Then goose refuses to go up over the gap, and a down of 0006 finds no
  table: somebody has to repair `goose_db_version` by hand.

Others can be read off the code, and the models behave as it does:

* `migrations/0005_ticket_events.sql:7` calls tickets "immutable once ingested", and
  `0004_tickets.sql:3-4` has re-ingestion skip them; `UpsertTicket` updates every column, as the
  writer's integration test expects.
* `queries/tickets.go:28-31` and `:177-178` speak of a deterministic SQL order;
  `t.updated_at DESC` leaves tickets of one second open, so pages may overlap (`Orders`).
* `normalise.go:43-46` lets the hash stand for the file.  Cells may hold the tabs and line feeds
  they are joined with, so another file may be skipped unwritten: two sheets that split the text `a`, tab, `b` between two columns
  in different places have one hash, and so may two whose ticket numbers or headers hold line feeds (the sheets of `export_content`
  have both).  Line feeds in any other cell do no harm, and descriptions and journals are full of them:
  `MultilineLosesNothing` claims that of all exports without tabs whose headers and first cells are single lines, as
  those of ServiceNow are.
* `scoring.go:92-94` says that under the thresholds "a maximally-stale Low ticket tops out at 0.75", which would be
  high (0.7 and up).  By the default weights it is 0.5 * 0.25 + 0.2 + 0.3 = 0.625 and moderate, as `scoring_test.go:171-179`
  has it; `SeverityCapsBucket` says what the code and the test say.
* `0001_imports.sql:2-4` has the hash over "trimmed lines, LF newlines"; only the end of a cell is
  trimmed, and a CR LF inside it stays (`NormaliseCell`).
* `business_service.go:36-37` scans for a token whose hyphen is neither first nor last character;
  the code looks at its last hyphen alone, and `Acme-UK-` counts as internal (`Splits`).
* `db/migrate.go:22-24` says the server "never exposes /readiness=200 over a schema that doesn't
  match the code".  Readiness is a ping; when `make migrate-down` commits under a server, or under a boot
  that has already looked for skipped migrations, the server answers 200 over the older schema and goes on to do so until it is restarted.
  `ReadyUnlessOvertaken` says that this is the only way: not boots that race, nor a boot into what a down has
  left, a hole in the recorded versions included.

## What is proved

All for any exports, runs, cells, processes and requests, under the assumptions named in
the modules (`RowsAssumption` and the like: rows are records, a service has at most one client,
weights are integers and severities in range, servers and tools are different processes; `NoRowAssumption` and
`NilAssumption`: the absent row and the nil pointer are none of the ids, numbers and texts;
`ListLimitAssumption`: the limits of a list are numbers, the default one at least 1;
`EventsAssumption`: the journal of a ticket is finite; `CellAssumption` and `SheetAssumption`:
cells and sheets are finite sequences; `BodyAssumption`: a body is a finite sequence of lines none of which reads like a header, since
such a line would start an entry of its own).

* `IngestCatalog`: `CatalogCorrect`.  Taking in whole exports keeps `CatalogOK`, which is inductive:
  complete imports, nothing stored twice, provenance, exports never mixed.
  `LastExists` finds the last record about a ticket by well-foundedness of the naturals.
* `IngestWriter_proofs`: `TypeCorrect`, then `Invariant`.  The table properties are not
  inductive for the writer, since they say nothing of open transactions.  `IInv` does:
  `WrittenSoFar` says that a transaction has written exactly what its two loops have
  passed; `LocksExclude` that no two have written one import or ticket; `EventsLocked` that
  events are only ever written under the ticket's lock; `NotYetImported` and `ImportIds`
  that hash and id are still free.  TLC checked `IInv` on the instance above before the proof.
* From it: `NoWaitForEvents`, `SuccessIsImport`, and `Atomicity`, the refinement: at
  COMMIT the loops are through, so the overlay equals `Take`.  `TablesCorrect`
  combines it with `CatalogCorrect`, and `ImportsAreComplete`, `NothingStoredTwice`, `EverythingTraceable`
  and `NeverMixed` are its four parts, as the runs check them.
* `AccountsKept` is a second inductive invariant of the writer, on top of `IInv`, which says nothing of counters.
  `Accounts` says of a run in its loops (`CountsLoop`) that the tickets and entries it has counted as new are as many as it has
  written and not committed (`Fresh`), and that with the updated and skipped ones they make up the records and journal slots behind it
  (`SlotsBehind`); of one that short-circuits that it skips all its entries, of one that committed that its new entries are those it is
  the source of.  `TicketsCounted`: the tickets counted as new by all runs that know they committed are at most those stored, and
  as many when every importer knows.  `SummariesAccount` and `NoTicketCountedTwice` follow.
* `DashboardReads_proofs`: `TimelineCorrect` and `HidingCorrect`.  The tables only ever grow between
  two statements of a request (`Take` is monotone), and `CatalogOK` holds of what each saw; so the second snapshot of a
  detail has every entry of the version the first one showed, and the inner joins find a partner for every ticket.
* `AnswersInvariant`: the second inductive invariant there.  `AnswerOK` says of every statement that has returned that its
  result is what its SQL selects (`Says`) from tables the database has been through since the request came in, in the
  order of the statements (`Saw`); `TablesOK` what holds of any such tables.  Which tables those were is
  existentially quantified, so TLC cannot evaluate `AnswerOK`; it checks what follows from it.
  `StatsPartsLineUp` adds that a `GROUP BY` adds up to its rows (`TotalOfTally`) and that later tables hold no less;
  `NoDataYetMeansNone` that tables without an import are empty; `LastImportStaysLatest` that
  the newest import of the tables read is at least that of the earlier ones and still there in the later; `PagesFitTotals` how long a window of LIMIT and
  OFFSET is and that `sortByScoreDesc` keeps its items (`PageIs`); `RollupsCountOnce` that the groups of a join share
  no service and no ticket (`TotalOfParts`); `LinksStayGood` that what was shown is stored and stays.
* `TicketAging_proofs`: `AlwaysInRange` and `NeverSinks`, for any weights that are not negative (and, in the first, add up to 1.0), by bounding each of
  the three components and then the sum of products; `BucketsCapped` from the same bounds, for the weights its property
  names; `FlagsAlwaysAgree` by an induction over the scan of `StaleAsOf`, which in any order of the events keeps the newest
  support-side one, the one SQL's `max` picks.
* `Serving_proofs`: `TypeCorrect`, `WarnsOnce` and `CleanStopCorrect`.  `OneEach`: a severity that is a
  key of the map has had its line, or has exactly one request about to write it, never both.
  `NoneLost`: the pool is open as long as the server listens or drains, so no request has met a
  closed one when Shutdown returns; `Counted` keeps the number of a handler's queries in range.
* `Parsing_proofs`, of `RowParsing`: `ParseCorrect` is the loop invariant: the entries closed so far cover exactly the headers
  read but the last, the open one has the lines since, and each has its lines in place.  From it
  `EntriesCorrect`, `NothingElseDropped`, `OrderCorrect` and `FailureCorrect`, for cells of any length.
  `MapRowCorrect` has the same of the cells of a row, with `ServiceOK` for the loop before it; `PartsCorrect` cuts
  the token at its last hyphen and puts it together again.
* `Parsing_proofs`, of `TicketJournal`: `JournalKept`, an invariant of journal and table: every entry of the longest
  snapshot ingested has a row and every row is such an entry (`Keeps`), no two rows have one key, and rows ascend in time.  That an ingest keeps it
  rests on a round trip, `ExportReads`: a journal that is rendered newest first (`FlattenLays`: where each entry lies in the cell), cut
  at its trailing whitespace and parsed line by line gives back its entries, in order of time and each body as `Shown`, whatever the
  length of the snapshot.  Then `InsertEnds`: of these the conflict clause takes just those without a row.  `StoredCorrect` and
  `AscentCorrect` follow, for journals of any length and for a sort that leaves ties in any order.
* `Parsing_proofs`, of `ExportContent`: `ContentKept`: the stored hashes are those of the written sheets, and no two of these
  have one hash.  `HashOnce`: a text of cells joined by tabs and rows joined by line feeds can be cut in one way only where no cell holds a tab and
  headers and first cells no line feed.  The header row ends at the first line feed (`FirstEnds`, `HeaderOnce`) and gives the width; then row
  after row, each has as many tabs as the header, so its last cell is found, and that ends where the last line feed before the next tab is,
  since the first cell of the next row has none (`RowEnds`, `RowsMeet`); what lies between two tabs is a cell (`JoinedOnce`, `RowsAlike`).
  So equal hashes mean equal files; hence `ShortCircuitCorrect`.  `AlikeNormalised`: cells with the same words are normalised to one text; hence `CosmeticsCorrect`.
  The hash is the hashed text, so both are up to collisions of SHA-256.
* `ServerBoot_proofs`: `SchemaCorrect`.  `SchemaIsPrefix` is not inductive: what keeps a stale plan
  from harm is that an up whose version was overtaken fails (`Applies`), and that as long as nothing
  `raced` the plan of a down is still the current version.  `DownCorrect` is the action property.
  `ReadinessCorrect` must hold of what a race has left, too, where the schema is no prefix.  `Sound` is what remains: every
  change stands on the tables it names, and the rows say what is in the schema, except for a row of 6 left behind when 5 is dropped with
  6's column, which is older than any later row of 5.  `Checked` is what a server has made sure of that no down has overtaken: past the look for
  skipped migrations, no row of 6 is there without 5 (`Sighted`); past the last migration, 6 is in the schema.  A server that reads no version
  below 6 then has all six (`LastIsThere`, `SixNeedsAll`).
* `EventsDowngrade_proofs`: `KeyCorrect`, `FirstBodyCorrect` and `LossCorrect`, for any exports, runs and
  number of downgrades.  `LoopsOK`: no two open runs have locked one ticket.  `DataOK`: what an open transaction
  inserted belongs to its tickets and has ids above all committed rows of them, so the lowest id
  of a triple is the first committed.  `MigrationOK`: the DELETE spares the lowest, and once ALTER TABLE
  has the table no transaction holds a lock on it (not even one that jumps the queue: the migration waits
  for nobody then, so no circle runs through it).  `PassedOK` and `FirstOK` are what is then claimed of entries and first bodies.

Sums, counts and folds are proved about by induction over a *set* of numbers (`Induction`: a set of naturals that
has 0, and n + 1 with every n, has them all), since the provers cannot use a theorem with an operator parameter.

Only model-checked: liveness (`EveryRunEnds`, `EventuallyServes`, `StopEnds`, `EveryoneEnds`), which is out of the
prover's reach.  Every other property of a passing run is a theorem.

## Not modelled

* Float rounding, durations below a day, and the clock read once per answer.
* The JSON envelopes and error codes of the API: wording around outcomes that are modelled.
* Configuration: `Load` merges defaults, the file and the environment once, before anything else runs,
  and the merging is a library's; the weights and the threshold are constants of the models.
* Logging, the egress probe, the containers' networks, fixtures and `openapi.yaml`: one
  call at boot, or data; nothing reads their state.
* The regular expressions and date layouts character by character: a line is a header or it is not, a date parses or it does not.
* The `author_context` of an entry is stored by whoever comes first and is no part of the key; no
  document says what should happen when it changes.
* Rows of the other tables in `EventsDowngrade`, and downgrades below 0005 beside running ingests, which
  simply fail for want of a table.
