----------------------------- MODULE ExportData -----------------------------
(***************************************************************************)
(* The data that the ingest pipeline and the database exchange: ServiceNow *)
(* exports after reading, mapping and journal parsing, and the rows of the *)
(* five tables they are written to.                                        *)
(*                                                                         *)
(* Only identity matters below.  An export is its normalised content, so   *)
(* two files with one content hash are one member of Export; a journal     *)
(* entry is its idempotency key (event_ts, author_name, md5(body)); all    *)
(* the ticket columns the writer copies verbatim are one version.          *)
(***************************************************************************)
EXTENDS Integers, Sequences, FiniteSets

CONSTANTS
    Export,    \* the distinct normalised contents of export files
    Rows,      \* the records MapRow yields for each export, in file order
    Ticket,    \* values of Number
    Service,   \* values of Business service (business_services.raw_value)
    Client,    \* client names
    ClientOf,  \* the client ParseBusinessService finds in a service, or Null
    Version,   \* everything else an upsert copies into a ticket row
    Entry,     \* journal entries, up to (event_ts, author_name, body_hash)
    Import,    \* values of imports.id
    Null,      \* no client: an internal service
    Absent     \* no such row

\* ingest.Record, cut down to what decides which rows are written.
Record == [num: Ticket, svc: Service, cols: Version, journal: Seq(Entry)]

TicketRow == [cols: Version, svc: Service, source: Import]

ASSUME RowsAssumption     == Rows \in [Export -> Seq(Record)]
ASSUME ClientOfAssumption == ClientOf \in [Service -> Client \cup {Null}]
ASSUME NullAssumption     == Null \notin Client
ASSUME AbsentAssumption   == Absent \notin TicketRow

(***************************************************************************)
(* The database.  A value of this type is also what one open transaction   *)
(* has written and not yet committed.                                      *)
(***************************************************************************)
ImportRow == [hash: Export, id: Import]
EventRow  == [num: Ticket, entry: Entry, source: Import]

Database == [imports:           SUBSET ImportRow,
             clients:           SUBSET Client,
             business_services: SUBSET Service,
             tickets:           [Ticket -> TicketRow \cup {Absent}],
             ticket_events:     SUBSET EventRow]

Empty == [imports           |-> {},
          clients           |-> {},
          business_services |-> {},
          tickets           |-> [n \in Ticket |-> Absent],
          ticket_events     |-> {}]

\* What is seen with the writes w laid over the rows of d.
Overlay(d, w) ==
    [imports           |-> d.imports \cup w.imports,
     clients           |-> d.clients \cup w.clients,
     business_services |-> d.business_services \cup w.business_services,
     tickets           |-> [n \in Ticket |-> IF w.tickets[n] # Absent
                                             THEN w.tickets[n]
                                             ELSE d.tickets[n]],
     ticket_events     |-> d.ticket_events \cup w.ticket_events]

\* UNIQUE (import_hash) and ticket_events_idem_key, asked of a database.
Imported(d, x)    == \E i \in d.imports : i.hash = x
HasEvent(d, n, e) == \E v \in d.ticket_events : v.num = n /\ v.entry = e

-----------------------------------------------------------------------------
\* The clients, services and tickets an export mentions.
ServicesIn(x) == {Rows[x][i].svc : i \in DOMAIN Rows[x]}
ClientsIn(x)  == {ClientOf[s] : s \in ServicesIn(x)} \ {Null}
TicketsIn(x)  == {Rows[x][i].num : i \in DOMAIN Rows[x]}

\* Ticket n has journal entry e in export x.
Mentions(x, n, e) ==
    \E i \in DOMAIN Rows[x] : \E j \in DOMAIN Rows[x][i].journal :
        Rows[x][i].num = n /\ Rows[x][i].journal[j] = e

\* Row i of export x is the last one about its ticket: the version that wins.
IsLast(x, i) == \A j \in DOMAIN Rows[x] : j > i => Rows[x][j].num # Rows[x][i].num

\* The row an upsert leaves behind for record rec of import id.
RowOf(rec, id) == [cols |-> rec.cols, svc |-> rec.svc, source |-> id]

\* countJournalEntries, as the number of slots the journals of x have.
Slots(x)       == UNION {{i} \X DOMAIN Rows[x][i].journal : i \in DOMAIN Rows[x]}
TotalEvents(x) == Cardinality(Slots(x))
=============================================================================
