---------------------------- MODULE IngestCatalog ----------------------------
(***************************************************************************)
(* What ingestion promises to whoever reads the tables, with no trace of   *)
(* runs, statements, locks or failures: the database changes only by       *)
(* taking in one whole export, at most once per content.                   *)
(***************************************************************************)
EXTENDS ExportData, WellFoundedInduction, TLAPS

VARIABLE db

Init == db = Empty

\* The rows of ticket n after export x: the last record about n wins.
Latest(x, id, n) ==
    RowOf(Rows[x][CHOOSE i \in DOMAIN Rows[x] : Rows[x][i].num = n /\ IsLast(x, i)], id)

\* Mutant: an export replaces the tickets instead of adding to them.
Take_Replaces(d, x, id) ==
    [imports           |-> d.imports \cup {[hash |-> x, id |-> id]},
     clients           |-> d.clients \cup ClientsIn(x),
     business_services |-> d.business_services \cup ServicesIn(x),
     tickets           |-> [n \in Ticket |-> IF n \in TicketsIn(x)
                                             THEN Latest(x, id, n)
                                             ELSE Absent],
     ticket_events     |-> d.ticket_events \cup
                           {v \in [num: Ticket, entry: Entry, source: {id}] :
                              /\ Mentions(x, v.num, v.entry)
                              /\ ~HasEvent(d, v.num, v.entry)}]

\* Database d with export x taken in as import id.
Take(d, x, id) ==
    [imports           |-> d.imports \cup {[hash |-> x, id |-> id]},
     clients           |-> d.clients \cup ClientsIn(x),
     business_services |-> d.business_services \cup ServicesIn(x),
     tickets           |-> [n \in Ticket |-> IF n \in TicketsIn(x)
                                             THEN Latest(x, id, n)
                                             ELSE d.tickets[n]],
     ticket_events     |-> d.ticket_events \cup
                           {v \in [num: Ticket, entry: Entry, source: {id}] :
                              /\ Mentions(x, v.num, v.entry)
                              /\ ~HasEvent(d, v.num, v.entry)}]

Ingest(x, id) ==
    /\ ~Imported(db, x)
    /\ \A i \in db.imports : i.id # id
    /\ db' = Take(db, x, id)

Next == \E x \in Export, id \in Import : Ingest(x, id)

Spec == Init /\ [][Next]_db

-----------------------------------------------------------------------------
\* An import row is never seen without everything its export holds: the
\* clients and services it names, a row for every ticket, every journal entry.
\* Write keeps the imports row and all it stands for in one transaction; were
\* they apart, a crash in between would leave a hash that short-circuits every
\* later attempt to ingest the missing rest.
ImportComplete ==
    \A i \in db.imports :
        /\ ClientsIn(i.hash) \subseteq db.clients
        /\ ServicesIn(i.hash) \subseteq db.business_services
        /\ \A n \in TicketsIn(i.hash) : db.tickets[n] # Absent
        /\ \A n \in Ticket, e \in Entry :
               Mentions(i.hash, n, e) => HasEvent(db, n, e)

\* However many exports, runs and files repeat a journal entry of a ticket, and
\* however those runs overlap, the timeline shows it once; and one content is
\* imported once.
StoredOnce ==
    /\ \A v, w \in db.ticket_events :
           v.num = w.num /\ v.entry = w.entry => v = w
    /\ \A i, j \in db.imports : i.hash = j.hash => i = j

\* Every row says where it comes from, and it does come from there: a ticket is
\* the last record its source export has about it, an event is in its source
\* export.  DO UPDATE must refresh every column, source_import_id included.
Provenance ==
    /\ \A n \in Ticket : db.tickets[n] # Absent =>
           \E i \in db.imports : \E k \in DOMAIN Rows[i.hash] :
               /\ Rows[i.hash][k].num = n
               /\ IsLast(i.hash, k)
               /\ db.tickets[n] = RowOf(Rows[i.hash][k], i.id)
    /\ \A v \in db.ticket_events :
           \E i \in db.imports : i.id = v.source /\ Mentions(i.hash, v.num, v.entry)

\* Two exports that both hold tickets n and m are never mixed: the two rows are
\* not one of the first and one of the second.  The row locks of an open
\* transaction last until it commits.
ExportsNeverMix ==
    \A i, j \in db.imports : i # j =>
        ~ \E n, m \in TicketsIn(i.hash) \cap TicketsIn(j.hash) :
              db.tickets[n].source = i.id /\ db.tickets[m].source = j.id

-----------------------------------------------------------------------------
(***************************************************************************)
(* The four hold for any exports, and whoever implements Spec inherits     *)
(* them.                                                                   *)
(***************************************************************************)
TypeOK == db \in Database

\* A ticket an export mentions has a last record in it: the indices of its
\* records, counted from the end of the file, have a least one.
LEMMA LastExists ==
    ASSUME NEW x \in Export, NEW n \in TicketsIn(x)
    PROVE  \E i \in DOMAIN Rows[x] : Rows[x][i].num = n /\ IsLast(x, i)
<1> DEFINE L == Len(Rows[x])
           T == {m \in Nat : m < L /\ Rows[x][L - m].num = n}
<1>1. L \in Nat /\ DOMAIN Rows[x] = 1 .. L
  BY RowsAssumption
<1>2. T # {}
  <2>1. PICK i \in 1 .. L : Rows[x][i].num = n
    BY <1>1 DEF TicketsIn
  <2>2. L - i \in Nat /\ L - i < L /\ L - (L - i) = i
    BY <1>1
  <2>3. L - i \in T
    BY <2>1, <2>2
  <2>4. QED
    BY <2>3
<1>3. PICK m \in T : \A y \in T : ~(<<y, m>> \in OpToRel(<, Nat))
  <2>1. T \subseteq Nat
    OBVIOUS
  <2> HIDE DEF T
  <2>2. QED
    BY <1>2, <2>1, NatLessThanWellFounded, WFMin
<1>4. \A y \in T : ~(y < m)
  BY <1>3 DEF OpToRel
<1>5. L - m \in 1 .. L /\ Rows[x][L - m].num = n
  BY <1>1
<1>6. ASSUME NEW j \in 1 .. L, j > L - m
      PROVE  Rows[x][j].num # n
  <2>1. L - j \in Nat /\ L - j < L /\ L - (L - j) = j /\ L - j < m
    BY <1>1, <1>6
  <2>2. L - j \notin T
    BY <1>4, <2>1
  <2>3. QED
    BY <2>1, <2>2
<1>7. QED
  BY <1>1, <1>5, <1>6 DEF IsLast

\* What the newest import leaves behind of a ticket it mentions.
LEMMA LatestRow ==
    ASSUME NEW x \in Export, NEW id \in Import, NEW n \in TicketsIn(x)
    PROVE  /\ \E k \in DOMAIN Rows[x] : /\ Rows[x][k].num = n
                                        /\ IsLast(x, k)
                                        /\ Latest(x, id, n) = RowOf(Rows[x][k], id)
           /\ Latest(x, id, n) \in TicketRow
           /\ Latest(x, id, n).source = id
<1> DEFINE k == CHOOSE i \in DOMAIN Rows[x] : Rows[x][i].num = n /\ IsLast(x, i)
<1>1. k \in DOMAIN Rows[x] /\ Rows[x][k].num = n /\ IsLast(x, k)
  BY LastExists
<1>2. Latest(x, id, n) = RowOf(Rows[x][k], id)
  BY DEF Latest
<1>3. Rows[x][k] \in Record
  BY <1>1, RowsAssumption
<1> HIDE DEF k
<1>4. QED
  BY <1>1, <1>2, <1>3 DEF RowOf, TicketRow, Record

CatalogOK == TypeOK /\ ImportComplete /\ StoredOnce /\ Provenance /\ ExportsNeverMix

LEMMA CatalogInit == Init => CatalogOK
BY DEF Init, CatalogOK, TypeOK, ImportComplete, StoredOnce, Provenance, ExportsNeverMix,
       Empty, Database

LEMMA CatalogStep == CatalogOK /\ [Next]_db => CatalogOK'
<1> SUFFICES ASSUME CatalogOK, Next PROVE CatalogOK'
  BY DEF CatalogOK, TypeOK, ImportComplete, StoredOnce, Provenance, ExportsNeverMix
<1> PICK x \in Export, id \in Import : Ingest(x, id)
  BY DEF Next
<1> DEFINE new == [hash |-> x, id |-> id]
<1> USE DEF CatalogOK, TypeOK
<1>1. /\ db'.imports = db.imports \cup {new}
      /\ db'.clients = db.clients \cup ClientsIn(x)
      /\ db'.business_services = db.business_services \cup ServicesIn(x)
      /\ db'.tickets = [n \in Ticket |-> IF n \in TicketsIn(x) THEN Latest(x, id, n)
                                         ELSE db.tickets[n]]
      /\ db'.ticket_events = db.ticket_events \cup
             {v \in [num: Ticket, entry: Entry, source: {id}] :
                Mentions(x, v.num, v.entry) /\ ~HasEvent(db, v.num, v.entry)}
      /\ ~Imported(db, x)
      /\ \A i \in db.imports : i.id # id
  BY DEF Ingest, Take
<1>2. \A n \in TicketsIn(x) : Latest(x, id, n) \in TicketRow /\ Latest(x, id, n).source = id
  BY LatestRow
<1>3. \A i \in db.imports : i.hash \in Export
  BY DEF Database, ImportRow
<1>4. TypeOK'
  <2>1. new \in ImportRow
    BY DEF ImportRow
  <2>2. ServicesIn(x) \subseteq Service
    <3>1. \A i \in DOMAIN Rows[x] : Rows[x][i] \in Record
      BY RowsAssumption
    <3>2. QED
      BY <3>1 DEF ServicesIn, Record
  <2>3. ClientsIn(x) \subseteq Client
    BY <2>2, ClientOfAssumption DEF ClientsIn
  <2>4. db'.tickets \in [Ticket -> TicketRow \cup {Absent}]
    BY <1>1, <1>2 DEF Database
  <2>5. db'.ticket_events \subseteq EventRow
    BY <1>1 DEF Database, EventRow
  <2>6. db' = [imports |-> db'.imports, clients |-> db'.clients,
               business_services |-> db'.business_services, tickets |-> db'.tickets,
               ticket_events |-> db'.ticket_events]
    BY DEF Ingest, Take
  <2>7. /\ db'.imports \subseteq ImportRow /\ db'.clients \subseteq Client
        /\ db'.business_services \subseteq Service
    BY <1>1, <2>1, <2>2, <2>3 DEF Database
  <2>8. QED
    BY <2>4, <2>5, <2>6, <2>7 DEF Database
<1>5. ImportComplete'
  <2>1. ASSUME NEW n, NEW e, HasEvent(db, n, e) PROVE HasEvent(db', n, e)
    BY <1>1, <2>1 DEF HasEvent
  <2>2. ASSUME NEW n \in Ticket, NEW e \in Entry, Mentions(x, n, e) PROVE HasEvent(db', n, e)
    <3> DEFINE v == [num |-> n, entry |-> e, source |-> id]
    <3>1. CASE HasEvent(db, n, e)
      BY <2>1, <3>1
    <3>2. CASE ~HasEvent(db, n, e)
      <4>1. v \in db'.ticket_events
        BY <1>1, <2>2, <3>2
      <4>2. QED
        BY <4>1 DEF HasEvent
    <3>3. QED
      BY <3>1, <3>2
  <2>3. \A n \in Ticket : db.tickets[n] # Absent \/ n \in TicketsIn(x) => db'.tickets[n] # Absent
    BY <1>1, <1>2, AbsentAssumption
  <2>4. \A y \in Export : TicketsIn(y) \subseteq Ticket
    <3> TAKE y \in Export
    <3>1. \A i \in DOMAIN Rows[y] : Rows[y][i] \in Record
      BY RowsAssumption
    <3>2. QED
      BY <3>1 DEF TicketsIn, Record
  <2>5. QED
    BY <1>1, <1>3, <2>1, <2>2, <2>3, <2>4 DEF ImportComplete
<1>6. StoredOnce'
  <2>1. \A v, w \in db'.ticket_events : v.num = w.num /\ v.entry = w.entry => v = w
    BY <1>1 DEF StoredOnce, HasEvent
  <2>2. \A i, j \in db'.imports : i.hash = j.hash => i = j
    BY <1>1 DEF StoredOnce, Imported
  <2>3. QED
    BY <2>1, <2>2 DEF StoredOnce
<1>7. Provenance'
  <2>1. ASSUME NEW n \in Ticket, db'.tickets[n] # Absent
        PROVE  \E i \in db'.imports : \E k \in DOMAIN Rows[i.hash] :
                  /\ Rows[i.hash][k].num = n /\ IsLast(i.hash, k)
                  /\ db'.tickets[n] = RowOf(Rows[i.hash][k], i.id)
    <3>1. CASE n \in TicketsIn(x)
      <4>1. db'.tickets[n] = Latest(x, id, n) /\ new \in db'.imports
        BY <1>1, <3>1
      <4>2. \E k \in DOMAIN Rows[x] : /\ Rows[x][k].num = n /\ IsLast(x, k)
                                      /\ Latest(x, id, n) = RowOf(Rows[x][k], id)
        BY <3>1, LatestRow
      <4>3. QED
        BY <4>1, <4>2
    <3>2. CASE n \notin TicketsIn(x)
      <4>1. db'.tickets[n] = db.tickets[n] /\ db.imports \subseteq db'.imports
        BY <1>1, <3>2
      <4>2. PICK i \in db.imports : \E k \in DOMAIN Rows[i.hash] :
                  /\ Rows[i.hash][k].num = n /\ IsLast(i.hash, k)
                  /\ db.tickets[n] = RowOf(Rows[i.hash][k], i.id)
        BY <2>1, <4>1 DEF Provenance
      <4>3. QED
        BY <4>1, <4>2
    <3>3. QED
      BY <3>1, <3>2
  <2>2. ASSUME NEW v \in db'.ticket_events
        PROVE  \E i \in db'.imports : i.id = v.source /\ Mentions(i.hash, v.num, v.entry)
    <3>1. CASE v \in db.ticket_events
      <4>1. \E i \in db.imports : i.id = v.source /\ Mentions(i.hash, v.num, v.entry)
        BY <3>1 DEF Provenance
      <4>2. QED
        BY <1>1, <4>1
    <3>2. CASE v \notin db.ticket_events
      <4>1. v.source = new.id /\ Mentions(new.hash, v.num, v.entry) /\ new \in db'.imports
        BY <1>1, <3>2
      <4>2. QED
        BY <4>1
    <3>3. QED
      BY <3>1, <3>2
  <2>3. QED
    BY <2>1, <2>2 DEF Provenance
<1>8. ExportsNeverMix'
  <2> SUFFICES ASSUME NEW i \in db'.imports, NEW j \in db'.imports, i # j,
                      NEW n \in TicketsIn(i.hash) \cap TicketsIn(j.hash),
                      NEW m \in TicketsIn(i.hash) \cap TicketsIn(j.hash),
                      db'.tickets[n].source = i.id, db'.tickets[m].source = j.id
               PROVE  FALSE
    BY DEF ExportsNeverMix
  <2>1. n \in Ticket /\ m \in Ticket
    <3>1. \A y \in Export : \A k \in DOMAIN Rows[y] : Rows[y][k] \in Record
      BY RowsAssumption
    <3>2. i.hash \in Export
      BY <1>1, <1>3
    <3>3. QED
      BY <3>1, <3>2 DEF TicketsIn, Record
  <2>2. \A t \in Ticket : t \in TicketsIn(x) => db'.tickets[t].source = id
    BY <1>1, <1>2
  <2>3. CASE i = new
    BY <1>1, <2>1, <2>2, <2>3
  <2>4. CASE j = new
    BY <1>1, <2>1, <2>2, <2>4
  <2>5. CASE i # new /\ j # new
    <3>1. i \in db.imports /\ j \in db.imports
      BY <1>1, <2>5
    <3>2. n \notin TicketsIn(x) /\ m \notin TicketsIn(x)
      BY <1>1, <2>1, <2>2, <3>1
    <3>3. db.tickets[n].source = i.id /\ db.tickets[m].source = j.id
      BY <1>1, <2>1, <3>2
    <3>4. QED
      BY <2>5, <3>1, <3>3 DEF ExportsNeverMix
  <2>6. QED
    BY <2>3, <2>4, <2>5
<1>9. QED
  BY <1>4, <1>5, <1>6, <1>7, <1>8

\* Taking in whole exports, at most once each, keeps the catalog complete, free
\* of duplicates, traceable and unmixed.
THEOREM CatalogCorrect == Spec => []CatalogOK
<1>1. QED
  BY CatalogInit, CatalogStep, PTL DEF Spec
==============================================================================
