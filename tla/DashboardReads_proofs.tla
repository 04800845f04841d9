------------------------ MODULE DashboardReads_proofs ------------------------
(***************************************************************************)
(* Proofs about DashboardReads, for any exports, requests and handlers:    *)
(* tables that grow as IngestCatalog says keep every import, ticket and    *)
(* event a request has met, so its later statements find them.  DInv says  *)
(* so of what a request has read last; AnswersInv of everything it has     *)
(* read: each part of an answer is what SQL selects from tables that the   *)
(* database has been through, in the order of the statements.              *)
(***************************************************************************)
EXTENDS DashboardReads, FiniteSetTheorems, SequenceTheorems, TLAPS

Kinds == {"stats", "ticket", "list", "clients", "markets"}

\* Statement s belongs to a request of kind k.
Runs(k, s) == k \in Kinds /\ \E i \in DOMAIN Statements[k] : Statements[k][i] = s

\* Tables e have every import, client, service, ticket and event of tables d,
\* and no other tables have the same imports.
Grows(d, e) ==
    /\ d.imports \subseteq e.imports
    /\ d.clients \subseteq e.clients
    /\ d.business_services \subseteq e.business_services
    /\ \A n \in Ticket : d.tickets[n] # Absent => e.tickets[n] # Absent
    /\ d.ticket_events \subseteq e.ticket_events
    /\ d.imports = e.imports => d = e

\* The row a ticket request has read names an import, whose entries about the
\* ticket are all stored.
Sourced(h) ==
    \E i \in db.imports :
        /\ i.id = got[h].ticket.source
        /\ \A e \in Entry : Mentions(i.hash, ask[h].id, e) => HasEvent(db, ask[h].id, e)

\* The total of a list is of the tables its count saw.
CountOf(h) ==
    got[h].count = Cardinality(
        {n \in Stored(to[h]) : /\ ask[h].severity \in {NoFilter, Cols(to[h], n).severity}
                               /\ ask[h].state \in {NoFilter, Cols(to[h], n).state}})

\* The timeline property, of one answer.
Covers(h) ==
    \E i \in db.imports :
        /\ i.id = got[h].ticket.source
        /\ \A e \in Entry : Mentions(i.hash, ask[h].id, e) => \E v \in got[h].events : v = e

RequestOK(h) ==
    /\ at[h] \notin Ended => Runs(ask[h].kind, at[h])
    /\ at[h] \notin {"idle", "bad_request"} /\ ask[h].kind = "ticket" => ask[h].id \in Ticket
    /\ at[h] = "not_found" => ask[h].kind = "ticket" /\ from[h].tickets[ask[h].id] = Absent
    /\ Grows(from[h], db)
    /\ at[h] = "events" => DOMAIN got[h] = {"ticket"} /\ Sourced(h)
    /\ at[h] = "ticket" => DOMAIN got[h] = {}
    /\ at[h] = "ok" /\ ask[h].kind = "ticket" => Covers(h)
    /\ at[h] = "ok" /\ ask[h].kind = "list" => CountOf(h)

DInv ==
    /\ Catalog!CatalogOK
    /\ DOMAIN ask = Handler /\ DOMAIN at = Handler /\ DOMAIN got = Handler
    /\ DOMAIN from = Handler /\ DOMAIN to = Handler
    /\ \A h \in Handler : RequestOK(h)

-----------------------------------------------------------------------------
(* The tables. *)

\* Tables have grown when an ingest commits.
LEMMA CommitGrows ==
    ASSUME Catalog!CatalogOK, Catalog!Next
    PROVE  Catalog!CatalogOK' /\ Grows(db, db')
<1> USE RowsAssumption, ClientOfAssumption, NullAssumption, AbsentAssumption
        DEF Record, TicketRow, Catalog!Record, Catalog!TicketRow
<1>1. Catalog!CatalogOK'
  BY Catalog!CatalogStep
<1>2. PICK x \in Export, id \in Import : Catalog!Ingest(x, id)
  BY DEF Catalog!Next
<1>3. db' = Catalog!Take(db, x, id)
  BY <1>2 DEF Catalog!Ingest
<1>4. \A n \in Ticket : db.tickets[n] # Absent => db'.tickets[n] # Absent
  <2> TAKE n \in Ticket
  <2> HAVE db.tickets[n] # Absent
  <2>1. db'.tickets[n] = IF n \in Catalog!TicketsIn(x) THEN Catalog!Latest(x, id, n)
                         ELSE db.tickets[n]
    BY <1>3 DEF Catalog!Take
  <2>2. n \in Catalog!TicketsIn(x) => Catalog!Latest(x, id, n) \in TicketRow
    BY Catalog!LatestRow
  <2>3. QED
    BY <2>1, <2>2
<1>5. /\ db.imports \subseteq db'.imports /\ db.ticket_events \subseteq db'.ticket_events
      /\ db.clients \subseteq db'.clients
      /\ db.business_services \subseteq db'.business_services
  BY <1>3 DEF Catalog!Take
<1>6. db.imports # db'.imports
  <2>1. [hash |-> x, id |-> id] \in db'.imports
    BY <1>3 DEF Catalog!Take
  <2>2. [hash |-> x, id |-> id] \notin db.imports
    BY <1>2 DEF Catalog!Ingest
  <2>3. QED
    BY <2>1, <2>2
<1>7. QED
  BY <1>1, <1>4, <1>5, <1>6 DEF Grows

\* What IngestCatalog says, in the words of this module.
LEMMA CatalogSays ==
    ASSUME Catalog!CatalogOK
    PROVE  /\ \A n \in Ticket : db.tickets[n] # Absent =>
                  \E i \in db.imports : \E k \in DOMAIN Rows[i.hash] :
                      Rows[i.hash][k].num = n /\ db.tickets[n] = RowOf(Rows[i.hash][k], i.id)
           /\ \A i \in db.imports :
                  /\ ServicesIn(i.hash) \subseteq db.business_services
                  /\ \A n \in Ticket, e \in Entry : Mentions(i.hash, n, e) => HasEvent(db, n, e)
<1>1. /\ \A c, i : Catalog!RowOf(c, i) = RowOf(c, i)
      /\ \A x : Catalog!ServicesIn(x) = ServicesIn(x)
      /\ \A x, n, e : Catalog!Mentions(x, n, e) <=> Mentions(x, n, e)
      /\ \A d, n, e : Catalog!HasEvent(d, n, e) <=> HasEvent(d, n, e)
  BY DEF Catalog!RowOf, RowOf, Catalog!ServicesIn, ServicesIn, Catalog!Mentions, Mentions,
         Catalog!HasEvent, HasEvent
<1>2. ASSUME NEW n \in Ticket, db.tickets[n] # Absent
      PROVE  \E i \in db.imports : \E k \in DOMAIN Rows[i.hash] :
                 Rows[i.hash][k].num = n /\ db.tickets[n] = RowOf(Rows[i.hash][k], i.id)
  BY <1>1, <1>2 DEF Catalog!CatalogOK, Catalog!Provenance
<1>3. \A i \in db.imports :
          /\ ServicesIn(i.hash) \subseteq db.business_services
          /\ \A n \in Ticket, e \in Entry : Mentions(i.hash, n, e) => HasEvent(db, n, e)
  BY <1>1 DEF Catalog!CatalogOK, Catalog!ImportComplete
<1>4. QED
  BY <1>2, <1>3

\* Joining business_services hides no ticket: its service came in with it.
LEMMA JoinKeepsAll ==
    ASSUME Catalog!CatalogOK PROVE Joined(db) = Stored(db)
<1> SUFFICES ASSUME NEW n \in Stored(db) PROVE db.tickets[n].svc \in db.business_services
  BY DEF Joined
<1>1. n \in Ticket /\ db.tickets[n] # Absent
  BY DEF Stored
<1>2. PICK i \in db.imports : \E k \in DOMAIN Rows[i.hash] :
          Rows[i.hash][k].num = n /\ db.tickets[n] = RowOf(Rows[i.hash][k], i.id)
  BY <1>1, CatalogSays
<1>3. db.tickets[n].svc \in ServicesIn(i.hash)
  BY <1>2 DEF ServicesIn, RowOf
<1>4. QED
  BY <1>3, CatalogSays

\* A stored ticket's source has all of its entries in the tables.
LEMMA SourceHasEvents ==
    ASSUME Catalog!CatalogOK, NEW n \in Ticket, db.tickets[n] # Absent
    PROVE  \E i \in db.imports :
               /\ i.id = db.tickets[n].source
               /\ \A e \in Entry : Mentions(i.hash, n, e) => HasEvent(db, n, e)
<1>1. PICK i \in db.imports : \E k \in DOMAIN Rows[i.hash] :
          Rows[i.hash][k].num = n /\ db.tickets[n] = RowOf(Rows[i.hash][k], i.id)
  BY CatalogSays
<1>2. i.id = db.tickets[n].source
  BY <1>1 DEF RowOf
<1>3. QED
  BY <1>2, CatalogSays

-----------------------------------------------------------------------------
(* The requests. *)

\* A handler that a step of the tables or of another handler leaves alone keeps
\* what it has: its source and its events are still there.
LEMMA OthersKeep ==
    ASSUME NEW h \in Handler, RequestOK(h), Grows(db, db'),
           ask'[h] = ask[h], at'[h] = at[h], got'[h] = got[h],
           from'[h] = from[h], to'[h] = to[h]
    PROVE  RequestOK(h)'
<1>1. Grows(from[h], db)' 
  BY DEF RequestOK, Grows
<1>2. Sourced(h) => Sourced(h)'
  BY DEF Sourced, Grows, HasEvent
<1>3. Covers(h) => Covers(h)'
  BY DEF Covers, Grows
<1>4. CountOf(h) => CountOf(h)'
  BY DEF CountOf
<1>5. QED
  BY <1>1, <1>2, <1>3, <1>4 DEF RequestOK

\* A request comes in.
LEMMA ReceiveStep ==
    ASSUME DInv, NEW h \in Handler, NEW q \in Requests, Receive(h, q)
    PROVE  RequestOK(h)'
<1>1. /\ got'[h] = <<>> /\ from'[h] = db /\ db' = db
      /\ DOMAIN at = Handler /\ DOMAIN ask = Handler
  BY DEF Receive, DInv
<1>2. Grows(from[h], db)'
  BY <1>1 DEF Grows
<1>3. CASE ~Acceptable(q)
  <2>1. at'[h] = "bad_request"
    BY <1>1, <1>3 DEF Receive, End
  <2>2. QED
    BY <1>2, <2>1 DEF RequestOK, Ended
<1>4. CASE Acceptable(q)
  <2>1. ask'[h] = Normalise(q) /\ at'[h] = Statements[q.kind][1]
    BY <1>1, <1>4 DEF Receive, End
  <2>2. q.kind \in Kinds /\ (q.kind = "ticket" => q.id \in Ticket \cup {NotInt})
    BY RequestsAssumption DEF Kinds
  <2>3. q.kind = "ticket" => q.id \in Ticket
    BY <1>4, <2>2 DEF Acceptable
  <2>4. ask'[h].kind = q.kind /\ (q.kind # "list" => ask'[h] = q)
    <3>1. CASE q.kind # "list"
      BY <2>1, <3>1 DEF Normalise
    <3>2. CASE q.kind = "list"
      <4>1. "kind" \in DOMAIN q
        BY <3>2, RequestsAssumption
      <4>2. QED
        BY <2>1, <3>2, <4>1 DEF Normalise
    <3>3. QED
      BY <3>1, <3>2
  <2>5. /\ 1 \in DOMAIN Statements[q.kind]
        /\ at'[h] \in {"tickets_total", "ticket", "page", "clients", "markets"}
        /\ q.kind = "list" => at'[h] = "page"
    BY <2>1, <2>2 DEF Statements, Kinds
  <2>6. Runs(ask'[h].kind, at'[h])
    BY <2>1, <2>2, <2>4, <2>5 DEF Runs
  <2>7. DOMAIN got'[h] = {}
    BY <1>1
  <2>8. QED
    BY <1>2, <2>3, <2>4, <2>5, <2>6, <2>7 DEF RequestOK, Ended
<1>5. QED
  BY <1>3, <1>4

\* The statement after at[h], or the answer.
LEMMA NextStatement ==
    ASSUME DInv, NEW h \in Handler, at[h] \notin Ended, NEW result, Return(h, result)
    PROVE  /\ at'[h] = "ok" \/ (at'[h] \notin Ended /\ Runs(ask[h].kind, at'[h]))
           /\ at'[h] # "ticket"
           /\ at[h] = "ticket" => at'[h] = "events" /\ ask[h].kind = "ticket"
           /\ at'[h] = "events" => at[h] = "ticket"
           /\ at'[h] = "ok" /\ ask[h].kind = "ticket" => at[h] = "events"
           /\ at'[h] = "ok" /\ ask[h].kind = "list" => at[h] = "count"
<1> DEFINE kind == ask[h].kind
           all == Statements[kind]
           k == CHOOSE i \in DOMAIN all : all[i] = at[h]
<1>1. kind \in Kinds /\ \E i \in DOMAIN all : all[i] = at[h]
  BY DEF DInv, RequestOK, Runs
<1>2. k \in DOMAIN all /\ all[k] = at[h]
  BY <1>1
<1>3. at'[h] = IF k = Len(all) THEN "ok" ELSE all[k + 1]
  BY DEF Return, End, DInv
<1> HIDE DEF k
<1>4. CASE kind = "ticket"
  <2>1. all = <<"ticket", "events">>  BY <1>4 DEF Statements
  <2> HIDE DEF all
  <2>2. k = 1 \/ k = 2  BY <1>2, <2>1
  <2>3. CASE k = 1
    <3>1. at[h] = "ticket" /\ at'[h] = "events"  BY <1>2, <1>3, <2>1, <2>3
    <3>2. 2 \in DOMAIN all /\ all[2] = "events"  BY <2>1
    <3>3. Runs(kind, "events")  BY <1>1, <3>2 DEF Runs, all
    <3>4. QED  BY <1>4, <3>1, <3>3 DEF Ended
  <2>4. CASE k = 2
    <3>1. at[h] = "events" /\ at'[h] = "ok"  BY <1>2, <1>3, <2>1, <2>4
    <3>2. QED  BY <1>4, <3>1
  <2>5. QED  BY <2>2, <2>3, <2>4
<1>5. CASE kind = "list"
  <2>1. all = <<"page", "count">>  BY <1>5 DEF Statements
  <2> HIDE DEF all
  <2>2. k = 1 \/ k = 2  BY <1>2, <2>1
  <2>3. CASE k = 1
    <3>1. at[h] = "page" /\ at'[h] = "count"  BY <1>2, <1>3, <2>1, <2>3
    <3>2. 2 \in DOMAIN all /\ all[2] = "count"  BY <2>1
    <3>3. Runs(kind, "count")  BY <1>1, <3>2 DEF Runs, all
    <3>4. QED  BY <1>5, <3>1, <3>3 DEF Ended
  <2>4. CASE k = 2
    <3>1. at[h] = "count" /\ at'[h] = "ok"  BY <1>2, <1>3, <2>1, <2>4
    <3>2. QED  BY <1>5, <3>1
  <2>5. QED  BY <2>2, <2>3, <2>4
<1>6. CASE kind \in {"stats", "clients", "markets"}
  <2> DEFINE Labels == {"tickets_total", "by_state", "by_severity", "clients_total",
                        "services_total", "last_import", "priority", "clients", "markets"}
  <2>1. /\ DOMAIN all = 1 .. Len(all) /\ Len(all) \in Nat
        /\ \A i \in DOMAIN all : all[i] \in Labels
    BY <1>6 DEF Statements
  <2> HIDE DEF all
  <2>2. at[h] \in Labels  BY <1>2, <2>1
  <2>3. CASE k = Len(all)  BY <1>3, <1>6, <2>2, <2>3
  <2>4. CASE k # Len(all)
    <3>1. k + 1 \in DOMAIN all  BY <1>2, <2>1, <2>4
    <3>2. at'[h] \in Labels /\ at'[h] = all[k + 1]  BY <1>3, <2>1, <2>4, <3>1
    <3>3. Runs(kind, at'[h])  BY <1>1, <3>1, <3>2 DEF Runs, all
    <3>4. QED  BY <1>6, <2>2, <3>2, <3>3 DEF Ended
  <2>5. QED  BY <2>3, <2>4
<1>7. QED  BY <1>1, <1>4, <1>5, <1>6 DEF Kinds

\* A statement returns.
LEMMA ReturnStep ==
    ASSUME DInv, NEW h \in Handler, at[h] \notin Ended, NEW result, Return(h, result),
           at[h] = "ticket" => ask[h].id \in Ticket /\ db.tickets[ask[h].id] # Absent
                               /\ result = db.tickets[ask[h].id],
           at[h] = "events" => result = EventsOf(db, ask[h].id),
           at[h] = "count" => result = Cardinality(Matches(db, ask[h]))
    PROVE  RequestOK(h)'
<1>1. /\ got'[h] = [s \in DOMAIN got[h] \cup {at[h]} |-> IF s = at[h] THEN result ELSE got[h][s]]
      /\ to'[h] = db /\ UNCHANGED <<db, ask, from>>
  BY DEF Return, DInv
<1>2. Grows(from[h], db)'
  BY <1>1 DEF Grows, DInv, RequestOK
<1>3. CASE at[h] = "ticket"
  <2>1. at'[h] = "events" /\ Runs(ask[h].kind, at'[h]) /\ ask[h].kind = "ticket"
    BY <1>3, NextStatement DEF Ended
  <2>2. DOMAIN got'[h] = {"ticket"} /\ got'[h].ticket = result
    BY <1>1, <1>3 DEF DInv, RequestOK
  <2>3. Sourced(h)'
    <3>1. \E i \in db.imports :
              /\ i.id = db.tickets[ask[h].id].source
              /\ \A e \in Entry : Mentions(i.hash, ask[h].id, e) => HasEvent(db, ask[h].id, e)
      BY <1>3, SourceHasEvents DEF DInv
    <3>2. QED  BY <1>1, <1>3, <2>2, <3>1 DEF Sourced
  <2>4. QED  BY <1>1, <1>2, <1>3, <2>1, <2>2, <2>3 DEF RequestOK, Ended
<1>4. CASE at[h] = "events"
  <2>1. at'[h] # "events" /\ at'[h] # "ticket" /\ at'[h] \notin Ended \ {"ok"}
    BY <1>4, NextStatement DEF Ended
  <2>2. at'[h] = "ok" /\ ask[h].kind = "ticket" => Covers(h)'
    <3>1. got'[h].ticket = got[h].ticket /\ got'[h].events = EventsOf(db, ask[h].id)
      BY <1>1, <1>4 DEF DInv, RequestOK
    <3>2. Sourced(h)  BY <1>4 DEF DInv, RequestOK
    <3>3. \A e : HasEvent(db, ask[h].id, e) => e \in EventsOf(db, ask[h].id)
      BY DEF HasEvent, EventsOf
    <3>4. QED  BY <1>1, <3>1, <3>2, <3>3 DEF Sourced, Covers
  <2>3. at'[h] # "ok" => Runs(ask[h].kind, at'[h])
    BY NextStatement
  <2>4. ask[h].kind = "ticket" => ask[h].id \in Ticket
    BY <1>4 DEF DInv, RequestOK
  <2>5. ~(at'[h] = "ok" /\ ask[h].kind = "list")
    BY <1>4, NextStatement
  <2>6. QED
    BY <1>1, <1>2, <2>1, <2>2, <2>3, <2>4, <2>5 DEF RequestOK, Ended
<1>5. CASE at[h] \notin {"ticket", "events"}
  <2>1. /\ at'[h] \notin {"events", "ticket"} /\ at'[h] \notin Ended \ {"ok"}
        /\ ~(at'[h] = "ok" /\ ask[h].kind = "ticket")
    BY <1>5, NextStatement DEF Ended
  <2>2. at'[h] # "ok" => Runs(ask[h].kind, at'[h])
    BY NextStatement
  <2>3. ask[h].kind = "ticket" => ask[h].id \in Ticket
    BY DEF DInv, RequestOK, Ended
  <2>4. at'[h] = "ok" /\ ask[h].kind = "list" => CountOf(h)'
    <3>1. SUFFICES ASSUME at'[h] = "ok", ask[h].kind = "list" PROVE CountOf(h)'  OBVIOUS
    <3>2. at[h] = "count"  BY <3>1, NextStatement
    <3>3. got'[h].count = Cardinality(Matches(db, ask[h]))  BY <1>1, <3>2
    <3>4. Matches(db, ask[h]) =
             {n \in Stored(db) : /\ ask[h].severity \in {NoFilter, Cols(db, n).severity}
                                 /\ ask[h].state \in {NoFilter, Cols(db, n).state}}
      <4>1. Joined(db) = Stored(db)  BY JoinKeepsAll DEF DInv
      <4>2. QED  BY <4>1 DEF Matches
    <3>5. QED  BY <1>1, <3>3, <3>4 DEF CountOf, Stored, Cols
  <2>5. QED
    BY <1>1, <1>2, <2>1, <2>2, <2>3, <2>4 DEF RequestOK, Ended
<1>6. QED  BY <1>3, <1>4, <1>5

\* A statement that fails, or finds no row, ends the request.
LEMMA EndStep ==
    ASSUME DInv, NEW h \in Handler, TicketMissing(h) \/ QueryFails(h)
    PROVE  RequestOK(h)'
<1>1. Grows(from[h], db)' /\ UNCHANGED <<db, ask, from>>
  BY DEF TicketMissing, QueryFails, DInv, RequestOK, Grows
<1>2. CASE QueryFails(h)
  <2>1. at[h] \notin Ended /\ at'[h] = "internal"
    BY <1>2 DEF QueryFails, End, DInv
  <2>2. ask[h].kind = "ticket" => ask[h].id \in Ticket
    BY <2>1 DEF DInv, RequestOK, Ended
  <2>3. QED  BY <1>1, <2>1, <2>2 DEF RequestOK, Ended
<1>3. CASE TicketMissing(h)
  <2>1. at[h] = "ticket" /\ at'[h] = "not_found"
    BY <1>3 DEF TicketMissing, End, DInv
  <2>2. ask[h].kind = "ticket"
    <3>1. Runs(ask[h].kind, "ticket")  BY <2>1 DEF DInv, RequestOK, Ended
    <3>2. PICK i \in DOMAIN Statements[ask[h].kind] : Statements[ask[h].kind][i] = "ticket"
      BY <3>1 DEF Runs
    <3>3. QED  BY <3>1, <3>2 DEF Runs, Kinds, Statements
  <2>3. ask[h].id \in Ticket  BY <2>1, <2>2 DEF DInv, RequestOK
  <2>4. ask[h].id \notin Stored(db)
    BY <1>3, JoinKeepsAll DEF TicketMissing, DInv
  <2>5. from[h].tickets[ask[h].id] = Absent
    BY <2>3, <2>4 DEF Stored, DInv, RequestOK, Grows
  <2>6. QED  BY <1>1, <2>1, <2>2, <2>3, <2>5 DEF RequestOK, Ended
<1>4. QED  BY <1>2, <1>3

\* A step of one handler.
LEMMA HandleStep ==
    ASSUME DInv, NEW h \in Handler, Handle(h)
    PROVE  RequestOK(h)'
<1>1. ASSUME NEW q \in Requests, Receive(h, q) PROVE RequestOK(h)'
  BY <1>1, ReceiveStep
<1>2. CASE TicketQuery(h)
  <2>1. at[h] = "ticket" /\ Return(h, db.tickets[ask[h].id])  BY <1>2 DEF TicketQuery
  <2>2. ask[h].id \in Ticket /\ db.tickets[ask[h].id] # Absent
    BY <1>2 DEF TicketQuery, Joined, Stored
  <2>3. QED  BY <2>1, <2>2, ReturnStep DEF Ended
<1>3. CASE EventsQuery(h)
  BY <1>3, ReturnStep DEF EventsQuery, Ended
<1>4. CASE CountQuery(h)
  BY <1>4, ReturnStep DEF CountQuery, Ended
<1>5. CASE PageQuery(h)
  <2>1. PICK page \in PagesOf(db, ask[h]) : Return(h, page)  BY <1>5 DEF PageQuery
  <2>2. at[h] = "page"  BY <1>5 DEF PageQuery
  <2>3. QED  BY <2>1, <2>2, ReturnStep DEF Ended
<1>6. CASE StatsQuery(h)
  <2>1. PICK result : Return(h, result)  BY <1>6 DEF StatsQuery
  <2>2. at[h] \in {"tickets_total", "by_state", "by_severity", "clients_total",
                   "services_total", "last_import"}
    BY <1>6 DEF StatsQuery, StatsOf
  <2>3. at[h] \notin Ended \cup {"ticket", "events", "count"}  BY <2>2 DEF Ended
  <2>4. QED  BY <2>1, <2>3, ReturnStep
<1>7. CASE PriorityQuery(h)
  <2>1. PICK result : Return(h, result)  BY <1>7 DEF PriorityQuery
  <2>2. at[h] = "priority"  BY <1>7 DEF PriorityQuery
  <2>3. QED  BY <2>1, <2>2, ReturnStep DEF Ended
<1>8. CASE ClientsQuery(h) \/ MarketsQuery(h)
  <2>1. PICK result : Return(h, result)  BY <1>8 DEF ClientsQuery, MarketsQuery
  <2>2. at[h] \in {"clients", "markets"}  BY <1>8 DEF ClientsQuery, MarketsQuery
  <2>3. QED  BY <2>1, <2>2, ReturnStep DEF Ended
<1>9. CASE TicketMissing(h) \/ QueryFails(h)
  BY <1>9, EndStep
<1>10. QED
  BY <1>1, <1>2, <1>3, <1>4, <1>5, <1>6, <1>7, <1>8, <1>9 DEF Handle

\* It leaves the tables and the other handlers alone.
LEMMA HandleFrame ==
    ASSUME DInv, NEW h \in Handler, Handle(h)
    PROVE  /\ db' = db
           /\ DOMAIN ask' = Handler /\ DOMAIN at' = Handler /\ DOMAIN got' = Handler
           /\ DOMAIN from' = Handler /\ DOMAIN to' = Handler
           /\ \A g \in Handler \ {h} :
                 /\ ask'[g] = ask[g] /\ at'[g] = at[g] /\ got'[g] = got[g]
                 /\ from'[g] = from[g] /\ to'[g] = to[g]
<1> DEFINE Frame ==
             /\ db' = db
             /\ DOMAIN ask' = Handler /\ DOMAIN at' = Handler /\ DOMAIN got' = Handler
             /\ DOMAIN from' = Handler /\ DOMAIN to' = Handler
             /\ \A g \in Handler \ {h} :
                   /\ ask'[g] = ask[g] /\ at'[g] = at[g] /\ got'[g] = got[g]
                   /\ from'[g] = from[g] /\ to'[g] = to[g]
<1>1. ASSUME NEW result, Return(h, result) PROVE Frame
  <2>1. UNCHANGED <<db, ask, from>>  BY <1>1 DEF Return
  <2>2. \E f : got' = [got EXCEPT ![h] = f]  BY <1>1 DEF Return
  <2>3. \E c : at' = [at EXCEPT ![h] = c]  BY <1>1 DEF Return, End
  <2>4. to' = [to EXCEPT ![h] = db]  BY <1>1 DEF Return
  <2>5. QED  BY <2>1, <2>2, <2>3, <2>4 DEF DInv
<1>2. ASSUME NEW q, Receive(h, q) PROVE Frame
  BY <1>2 DEF Receive, End, DInv
<1>3. TicketMissing(h) => Frame
  BY DEF TicketMissing, End, DInv
<1>4. QueryFails(h) => Frame
  BY DEF QueryFails, End, DInv
<1> HIDE DEF Frame
<1>5. \/ \E q : Receive(h, q)
      \/ \E result : Return(h, result)
      \/ TicketMissing(h)
      \/ QueryFails(h)
  BY DEF Handle, StatsQuery, PriorityQuery, PageQuery, CountQuery, TicketQuery, EventsQuery,
         ClientsQuery, MarketsQuery
<1>6. Frame
  <2>1. CASE \E q : Receive(h, q)  BY <2>1, <1>2
  <2>2. CASE \E result : Return(h, result)  BY <2>2, <1>1
  <2>3. QED  BY <1>3, <1>4, <1>5, <2>1, <2>2
<1>7. QED
  BY <1>6 DEF Frame

\* Before anything happens.
LEMMA DInvInit == Init => DInv
<1> SUFFICES ASSUME Init PROVE DInv
  OBVIOUS
<1>1. Catalog!CatalogOK
  BY RowsAssumption, ClientOfAssumption, NullAssumption, AbsentAssumption, Catalog!CatalogInit
     DEF Init, Record, TicketRow, Catalog!Record, Catalog!TicketRow
<1>2. ASSUME NEW h \in Handler PROVE RequestOK(h)
  <2>1. at[h] = "idle" /\ from[h] = Empty  BY DEF Init
  <2>2. db = Empty  BY DEF Init, Catalog!Init, Catalog!Empty, Empty
  <2>3. Grows(Empty, db)  BY <2>2 DEF Grows
  <2>4. QED  BY <2>1, <2>3 DEF RequestOK, Ended
<1>3. QED
  BY <1>1, <1>2 DEF DInv, Init

\* No step, of an ingest or of a request, breaks it.
LEMMA DInvNext == DInv /\ [Next]_vars => DInv'
<1> SUFFICES ASSUME DInv, [Next]_vars PROVE DInv'
  OBVIOUS
<1>1. CASE Commit
  <2>1. Catalog!CatalogOK' /\ Grows(db, db')  BY <1>1, CommitGrows DEF Commit, DInv
  <2>2. UNCHANGED <<ask, at, got, from, to>>  BY <1>1 DEF Commit
  <2>3. \A h \in Handler : RequestOK(h)'  BY <2>1, <2>2, OthersKeep DEF DInv
  <2>4. QED  BY <2>1, <2>2, <2>3 DEF DInv
<1>2. ASSUME NEW h \in Handler, Handle(h) PROVE DInv'
  <2>1. Catalog!CatalogOK' /\ Grows(db, db')
    <3>1. db' = db  BY <1>2, HandleFrame
    <3>2. Grows(db, db')  BY <3>1 DEF Grows
    <3>3. Catalog!CatalogOK'
      BY <3>1 DEF DInv, Catalog!CatalogOK, Catalog!TypeOK, Catalog!ImportComplete,
                  Catalog!StoredOnce, Catalog!Provenance, Catalog!ExportsNeverMix
    <3>4. QED  BY <3>2, <3>3
  <2>2. ASSUME NEW g \in Handler PROVE RequestOK(g)'
    <3>1. CASE g = h  BY <1>2, <3>1, HandleStep
    <3>2. CASE g # h  BY <1>2, <2>1, <3>2, HandleFrame, OthersKeep DEF DInv
    <3>3. QED  BY <3>1, <3>2
  <2>3. QED  BY <1>2, <2>1, <2>2, HandleFrame DEF DInv
<1>3. CASE UNCHANGED vars
  <2>1. UNCHANGED <<db, ask, at, got, from, to>>  BY <1>3 DEF vars
  <2>2. Grows(db, db')  BY <2>1 DEF Grows
  <2>3. \A h \in Handler : RequestOK(h)'  BY <2>1, <2>2, OthersKeep DEF DInv
  <2>4. Catalog!CatalogOK'
    BY <2>1 DEF DInv, Catalog!CatalogOK, Catalog!TypeOK, Catalog!ImportComplete,
                Catalog!StoredOnce, Catalog!Provenance, Catalog!ExportsNeverMix
  <2>5. QED  BY <2>1, <2>3, <2>4 DEF DInv
<1>4. QED
  BY <1>1, <1>2, <1>3 DEF Next

\* So it holds in every state.
LEMMA ReadsInvariant == Spec => []DInv
BY DInvInit, DInvNext, PTL DEF Spec

-----------------------------------------------------------------------------
(* The theorems. *)

\* Whatever commits between GetTicket's two statements, the timeline has every
\* entry that the export behind the row has about the ticket.
THEOREM TimelineCorrect == Spec => []TimelineCoversVersion
<1>1. DInv => TimelineCoversVersion
  BY DEF DInv, RequestOK, Covers, TimelineCoversVersion, Answered
<1>2. QED
  BY <1>1, ReadsInvariant, PTL

\* No join and no commit hides a stored ticket from a 404 or from a total.
THEOREM HidingCorrect == Spec => []NothingHidden
<1>1. DInv => NothingHidden
  BY DEF DInv, RequestOK, CountOf, NothingHidden, Answered
<1>2. QED
  BY <1>1, ReadsInvariant, PTL

-----------------------------------------------------------------------------
(* Counts: what a GROUP BY adds up to. *)

\* Sets P[k] that share nothing, put together, hold as many as their sizes add up to.
LEMMA TotalOfParts ==
    ASSUME NEW f, NEW P, DOMAIN P = DOMAIN f, NEW S, IsFiniteSet(S),
           \A k \in DOMAIN f : P[k] \subseteq S /\ f[k] = Cardinality(P[k]),
           \A x \in S : \E k \in DOMAIN f : x \in P[k],
           \A j, k \in DOMAIN f : j # k => P[j] \cap P[k] = {}
    PROVE  Total(f) = Cardinality(S) /\ IsFiniteSet(Piles(f))
<1> DEFINE B(k) == Bijection(P[k], 1 .. f[k])
           b    == [k \in DOMAIN f |-> CHOOSE g : g \in B(k)]
           of   == [x \in S |-> CHOOSE k \in DOMAIN f : x \in P[k]]
           place == [x \in S |-> <<of[x], b[of[x]][x]>>]
<1>1. ASSUME NEW k \in DOMAIN f PROVE b[k] \in B(k)
  <2> DEFINE Q == P[k]  n == f[k]
  <2>1. IsFiniteSet(Q) /\ n = Cardinality(Q)
    BY FS_Subset
  <2> HIDE DEF Q, n
  <2>2. n \in Nat /\ IsFiniteSet(1 .. n) /\ Cardinality(1 .. n) = n
    <3>1. n \in Nat
      BY <2>1, FS_CardinalityType
    <3>2. Cardinality(1 .. n) = IF 1 > n THEN 0 ELSE n - 1 + 1
      BY <3>1, FS_Interval
    <3>3. QED
      BY <3>1, <3>2, FS_Interval
  <2> DEFINE I == 1 .. n
  <2>3. IsFiniteSet(I) /\ Cardinality(I) = Cardinality(Q)
    BY <2>1, <2>2
  <2> HIDE DEF I
  <2>4. ExistsBijection(Q, I)
    BY <2>1, <2>3, FS_SameCardinalityBij
  <2>5. \E g : g \in B(k)
    BY <2>4 DEF ExistsBijection, Q, n, I
  <2> HIDE DEF B
  <2>6. QED
    BY <2>5
<1>2. ASSUME NEW x \in S PROVE of[x] \in DOMAIN f /\ x \in P[of[x]]
  OBVIOUS
<1>3. ASSUME NEW k \in DOMAIN f, NEW x \in P[k] PROVE x \in S /\ of[x] = k
  <2>1. x \in S
    OBVIOUS
  <2>2. of[x] \in DOMAIN f /\ x \in P[of[x]]
    BY <2>1
  <2> HIDE DEF of
  <2>3. QED
    BY <2>1, <2>2
<1> HIDE DEF of
<1>4. ASSUME NEW k \in DOMAIN f
      PROVE  /\ b[k] \in [P[k] -> 1 .. f[k]]
             /\ \A x, y \in P[k] : b[k][x] = b[k][y] => x = y
             /\ \A i \in 1 .. f[k] : \E x \in P[k] : b[k][x] = i
  <2> DEFINE Q == P[k]  I == 1 .. f[k]  g == b[k]
  <2>1. g \in Bijection(Q, I)
    BY <1>1
  <2> HIDE DEF Q, I, g
  <2>2. /\ g \in [Q -> I]
        /\ \A x, y \in Q : g[x] = g[y] => x = y
        /\ \A i \in I : \E x \in Q : g[x] = i
    BY <2>1 DEF Bijection, Injection, Surjection, IsInjective
  <2>3. QED
    BY <2>2 DEF Q, I, g
<1> HIDE DEF b
<1>5. place \in [S -> Piles(f)]
  <2> SUFFICES ASSUME NEW x \in S PROVE <<of[x], b[of[x]][x]>> \in Piles(f)
    OBVIOUS
  <2>1. of[x] \in DOMAIN f /\ b[of[x]][x] \in 1 .. f[of[x]]
    BY <1>2, <1>4
  <2>2. QED
    BY <2>1 DEF Piles
<1>6. \A x, y \in S : place[x] = place[y] => x = y
  <2> SUFFICES ASSUME NEW x \in S, NEW y \in S, of[x] = of[y], b[of[x]][x] = b[of[y]][y]
               PROVE  x = y
    OBVIOUS
  <2> DEFINE k == of[x]
  <2>1. k \in DOMAIN f /\ x \in P[k] /\ y \in P[k] /\ b[k][x] = b[k][y]
    BY <1>2
  <2> HIDE DEF k
  <2>2. QED
    BY <1>4, <2>1
<1>7. \A p \in Piles(f) : \E x \in S : place[x] = p
  <2> SUFFICES ASSUME NEW p \in Piles(f)
               PROVE  \E x \in S : place[x] = p
    OBVIOUS
  <2>1. PICK k \in DOMAIN f : \E i \in 1 .. f[k] : p = <<k, i>>
    BY DEF Piles
  <2>0. PICK i \in 1 .. f[k] : p = <<k, i>>
    BY <2>1
  <2>2. PICK x \in P[k] : b[k][x] = i
    BY <1>4
  <2>3. x \in S /\ of[x] = k
    BY <1>3
  <2>4. QED
    BY <2>0, <2>2, <2>3
<1> HIDE DEF place
<1>8. ExistsBijection(S, Piles(f))
  BY <1>5, <1>6, <1>7 DEF ExistsBijection, Bijection, Injection, Surjection, IsInjective
<1>9. QED
  BY <1>8, FS_Bijection DEF Total

\* Tallying loses nothing: a GROUP BY adds up to the rows it groups.
LEMMA TotalOfTally ==
    ASSUME NEW f, IsFiniteSet(DOMAIN f)
    PROVE  Total(Tally(f)) = Cardinality(DOMAIN f)
<1> DEFINE P == [k \in Range(f) |-> {n \in DOMAIN f : f[n] = k}]
           T == Tally(f)
           S == DOMAIN f
<1>1. DOMAIN T = Range(f) /\ DOMAIN P = DOMAIN T
  BY DEF Tally
<1>2. \A k \in DOMAIN T : P[k] \subseteq S /\ T[k] = Cardinality(P[k])
  BY DEF Tally
<1>3. \A x \in S : \E k \in DOMAIN T : x \in P[k]
  BY <1>1 DEF Range
<1>4. \A j, k \in DOMAIN T : j # k => P[j] \cap P[k] = {}
  BY <1>1
<1> HIDE DEF P, T, S
<1>5. Total(T) = Cardinality(S)
  BY <1>1, <1>2, <1>3, <1>4, TotalOfParts DEF S
<1>6. QED
  BY <1>5 DEF T, S

-----------------------------------------------------------------------------
(* Tables the database has been through. *)

\* What holds of any tables the database has been through.
TablesOK(d) ==
    /\ IsFiniteSet(d.imports) /\ IsFiniteSet(d.clients)
    /\ IsFiniteSet(d.business_services) /\ IsFiniteSet(Stored(d))
    /\ \A n \in Stored(d) : d.tickets[n].svc \in d.business_services
    /\ \A c \in d.clients : c # Null /\ \E s \in d.business_services : ClientOf[s] = c
    /\ \A s \in d.business_services : ClientOf[s] # Null => ClientOf[s] \in d.clients
    /\ d.imports = {} => d.clients = {} /\ d.business_services = {} /\ Stored(d) = {}
    /\ \A i \in d.imports : i.id \in Import /\ TicketsIn(i.hash) \subseteq Stored(d)
    /\ \A i, j \in d.imports : i.id = j.id => i = j

\* The image of a finite set is finite.
LEMMA FiniteImage ==
    ASSUME NEW S, IsFiniteSet(S), NEW f
    PROVE  IsFiniteSet({f[x] : x \in S})
<1> DEFINE T == {f[x] : x \in S}
           g == [x \in S |-> f[x]]
<1>1. g \in Surjection(S, T)
  BY DEF Surjection
<1> HIDE DEF T, g
<1>2. IsFiniteSet(T)
  BY <1>1, FS_Surjection
<1>3. QED
  BY <1>2 DEF T

\* A file names finitely many services, clients and tickets.
LEMMA ExportFinite ==
    ASSUME NEW x \in Export
    PROVE  /\ IsFiniteSet(ServicesIn(x)) /\ IsFiniteSet(ClientsIn(x)) /\ IsFiniteSet(TicketsIn(x))
           /\ TicketsIn(x) \subseteq Ticket /\ ServicesIn(x) \subseteq Service
<1> DEFINE D   == DOMAIN Rows[x]
           svc == [i \in D |-> Rows[x][i].svc]
           num == [i \in D |-> Rows[x][i].num]
<1>1. Rows[x] \in Seq(Record)
  BY RowsAssumption
<1>2. IsFiniteSet(D)
  <2>1. D = 1 .. Len(Rows[x]) /\ Len(Rows[x]) \in Nat
    BY <1>1
  <2>2. IsFiniteSet(1 .. Len(Rows[x]))
    BY <2>1, FS_Interval
  <2>3. QED
    BY <2>1, <2>2
<1>3. \A i \in D : Rows[x][i].num \in Ticket /\ Rows[x][i].svc \in Service
  <2>1. \A i \in D : Rows[x][i] \in Record
    BY <1>1
  <2>2. QED
    BY <2>1 DEF Record
<1>4. ServicesIn(x) = {svc[i] : i \in D} /\ TicketsIn(x) = {num[i] : i \in D}
  BY DEF ServicesIn, TicketsIn
<1> HIDE DEF D, svc, num
<1>5. IsFiniteSet(ServicesIn(x)) /\ IsFiniteSet(TicketsIn(x))
  BY <1>2, <1>4, FiniteImage
<1>6. IsFiniteSet(ClientsIn(x))
  <2> DEFINE C == {ClientOf[s] : s \in ServicesIn(x)}
  <2>1. IsFiniteSet(C)
    BY <1>5, FiniteImage
  <2>2. ClientsIn(x) \in SUBSET C
    BY DEF ClientsIn
  <2> HIDE DEF C
  <2>3. QED
    BY <2>1, <2>2, FS_Subset
<1>7. TicketsIn(x) \subseteq Ticket /\ ServicesIn(x) \subseteq Service
  BY <1>3 DEF TicketsIn, ServicesIn, D
<1>8. QED
  BY <1>5, <1>6, <1>7

\* Of the empty tables.
LEMMA TablesInit == Init => TablesOK(db)
<1> SUFFICES ASSUME Init PROVE TablesOK(db)
  OBVIOUS
<1>1. /\ db.imports = {} /\ db.clients = {} /\ db.business_services = {}
      /\ \A n \in Ticket : db.tickets[n] = Absent
  BY DEF Init, Catalog!Init, Catalog!Empty
<1>2. Stored(db) = {}
  BY <1>1 DEF Stored
<1>3. QED
  BY <1>1, <1>2, FS_EmptySet DEF TablesOK

\* An ingest that commits keeps the tables so.
LEMMA TablesStep ==
    ASSUME Catalog!CatalogOK, Catalog!Next, TablesOK(db)
    PROVE  TablesOK(db')
<1> USE RowsAssumption, ClientOfAssumption, NullAssumption, AbsentAssumption
        DEF Record, TicketRow, Catalog!Record, Catalog!TicketRow
<1>1. PICK x \in Export, id \in Import : Catalog!Ingest(x, id)
  BY DEF Catalog!Next
<1> DEFINE new == [hash |-> x, id |-> id]
<1>2. /\ Catalog!ServicesIn(x) = ServicesIn(x) /\ Catalog!ClientsIn(x) = ClientsIn(x)
      /\ Catalog!TicketsIn(x) = TicketsIn(x)
  BY DEF Catalog!ServicesIn, ServicesIn, Catalog!ClientsIn, ClientsIn, Catalog!TicketsIn, TicketsIn
<1>3. /\ db'.imports = db.imports \cup {new}
      /\ db'.clients = db.clients \cup ClientsIn(x)
      /\ db'.business_services = db.business_services \cup ServicesIn(x)
      /\ db'.tickets = [n \in Ticket |-> IF n \in TicketsIn(x) THEN Catalog!Latest(x, id, n)
                                         ELSE db.tickets[n]]
      /\ \A i \in db.imports : i.id # id
  BY <1>1, <1>2 DEF Catalog!Ingest, Catalog!Take
<1>4. \A n \in TicketsIn(x) : Catalog!Latest(x, id, n) # Absent
  <2> SUFFICES ASSUME NEW n \in Catalog!TicketsIn(x) PROVE Catalog!Latest(x, id, n) # Absent
    BY <1>2
  <2>1. Catalog!Latest(x, id, n) \in TicketRow
    BY Catalog!LatestRow
  <2>2. QED
    BY <2>1
<1>5. TicketsIn(x) \subseteq Ticket
  BY ExportFinite
<1>6. Stored(db') = Stored(db) \cup TicketsIn(x)
  <2>1. \A n \in Ticket : db'.tickets[n] = IF n \in TicketsIn(x) THEN Catalog!Latest(x, id, n)
                                           ELSE db.tickets[n]
    BY <1>3
  <2>2. QED
    BY <1>4, <1>5, <2>1 DEF Stored
<1>7. \A n \in Stored(db') : db'.tickets[n].svc \in db'.business_services
  <2> SUFFICES ASSUME NEW n \in Ticket, db'.tickets[n] # Absent
               PROVE  db'.tickets[n].svc \in db'.business_services
    BY DEF Stored
  <2>1. Catalog!Provenance' /\ Catalog!ImportComplete'
    BY CommitGrows DEF Catalog!CatalogOK
  <2>2. PICK i \in db'.imports : \E k \in DOMAIN Rows[i.hash] :
            db'.tickets[n] = Catalog!RowOf(Rows[i.hash][k], i.id)
    BY <2>1 DEF Catalog!Provenance
  <2>3. db'.tickets[n].svc \in Catalog!ServicesIn(i.hash)
    BY <2>2 DEF Catalog!RowOf, Catalog!ServicesIn
  <2>4. QED
    BY <2>1, <2>3 DEF Catalog!ImportComplete
<1>8. /\ IsFiniteSet(db'.imports) /\ IsFiniteSet(db'.clients)
      /\ IsFiniteSet(db'.business_services) /\ IsFiniteSet(Stored(db'))
  <2>1. IsFiniteSet({new})
    BY FS_Singleton
  <2> HIDE DEF new
  <2>2. IsFiniteSet(db.imports \cup {new})
    BY <2>1, FS_Union DEF TablesOK
  <2>3. IsFiniteSet(db.clients \cup ClientsIn(x))
    BY ExportFinite, FS_Union DEF TablesOK
  <2>4. IsFiniteSet(db.business_services \cup ServicesIn(x))
    BY ExportFinite, FS_Union DEF TablesOK
  <2>5. IsFiniteSet(Stored(db) \cup TicketsIn(x))
    BY ExportFinite, FS_Union DEF TablesOK
  <2>6. QED
    BY <1>3, <1>6, <2>2, <2>3, <2>4, <2>5
<1>9. \A c \in db'.clients : c # Null /\ \E s \in db'.business_services : ClientOf[s] = c
  BY <1>3 DEF TablesOK, ClientsIn
<1>10. \A s \in db'.business_services : ClientOf[s] # Null => ClientOf[s] \in db'.clients
  BY <1>3 DEF TablesOK, ClientsIn
<1>11. \A i \in db'.imports : i.id \in Import /\ TicketsIn(i.hash) \subseteq Stored(db')
  <2>1. \A i \in db.imports : i.id \in Import /\ TicketsIn(i.hash) \subseteq Stored(db)
    BY DEF TablesOK
  <2>2. QED
    BY <1>3, <1>6, <2>1
<1>12. \A i, j \in db'.imports : i.id = j.id => i = j
  <2>1. \A i, j \in db.imports : i.id = j.id => i = j
    BY DEF TablesOK
  <2>2. QED
    BY <1>3, <2>1
<1>13. db'.imports # {}
  BY <1>3
<1>14. QED
  BY <1>7, <1>8, <1>9, <1>10, <1>11, <1>12, <1>13 DEF TablesOK

-----------------------------------------------------------------------------
(* sortByScoreDesc, an induction over what it has sorted. *)

\* The lesser of two numbers.
LEMMA MinOfTwo ==
    ASSUME NEW a \in Int, NEW b \in Int
    PROVE  Min({a, b}) = IF a <= b THEN a ELSE b
BY DEF Min

\* The greater of two numbers.
LEMMA MaxOfTwo ==
    ASSUME NEW a \in Int, NEW b \in Int
    PROVE  Max({a, b}) = IF a >= b THEN a ELSE b
BY DEF Max

\* Induction over the natural numbers, for the set of those a fact holds for.
LEMMA Induction ==
    ASSUME NEW S, 0 \in S, \A n \in Nat : n \in S => n + 1 \in S
    PROVE  \A n \in Nat : n \in S
<1> DEFINE T == Nat \ S
<1>1. SUFFICES ASSUME T # {} PROVE FALSE
  OBVIOUS
<1>2. IsWellFoundedOn(OpToRel(<, Nat), Nat)
  BY NatLessThanWellFounded
<1>3. PICK i \in T : \A j \in T : <<j, i>> \notin OpToRel(<, Nat)
  BY <1>1, <1>2, WFMin
<1>4. \A j \in T : ~(j < i)
  BY <1>3 DEF OpToRel
<1>5. i # 0 /\ i - 1 \in Nat /\ i - 1 \notin T
  BY <1>4
<1>6. QED
  BY <1>5

\* The greatest index of a prefix.
LEMMA MaxOfInterval ==
    ASSUME NEW k \in Nat, NEW s \in SUBSET (1 .. k), k \in s
    PROVE  Max(s) = k
<1>1. \A x \in s : x \in Int /\ k >= x
  OBVIOUS
<1>2. \A x \in s : (\A y \in s : x >= y) => x = k
  BY <1>1
<1>3. QED
  BY <1>1, <1>2 DEF Max

\* g is the function on index sets that sortByScoreDesc's fold over page is.
IsSort(g, k, page) ==
    g = [s \in SUBSET (1 .. k) |->
            IF s = {} THEN <<>> ELSE InsertByScore(g[s \ {Max(s)}], page[Max(s)])]

\* There is one such function: it is built index by index.
LEMMA SortExists ==
    ASSUME NEW n \in Nat, NEW page
    PROVE  \E g : IsSort(g, n, page)
<1> DEFINE S == {k \in Nat : \E g : IsSort(g, k, page)}
<1>1. 0 \in S
  <2> DEFINE g == [s \in SUBSET (1 .. 0) |-> <<>>]
  <2>1. SUBSET (1 .. 0) = {{}}
    OBVIOUS
  <2>2. IsSort(g, 0, page)
    BY <2>1 DEF IsSort
  <2>3. QED
    BY <2>2
<1>2. ASSUME NEW k \in Nat, k \in S PROVE k + 1 \in S
  <2>1. PICK g : IsSort(g, k, page)
    BY <1>2
  <2> DEFINE h == [s \in SUBSET (1 .. k + 1) |->
                      IF k + 1 \in s THEN InsertByScore(g[s \ {k + 1}], page[k + 1]) ELSE g[s]]
  <2>2. ASSUME NEW s \in SUBSET (1 .. k + 1)
        PROVE  h[s] = IF s = {} THEN <<>> ELSE InsertByScore(h[s \ {Max(s)}], page[Max(s)])
    <3>1. CASE k + 1 \in s
      <4>1. Max(s) = k + 1
        BY <3>1, MaxOfInterval
      <4>2. s \ {k + 1} \in SUBSET (1 .. k + 1) /\ k + 1 \notin s \ {k + 1}
        OBVIOUS
      <4>3. h[s \ {k + 1}] = g[s \ {k + 1}]
        BY <4>2
      <4>4. QED
        BY <3>1, <4>1, <4>3
    <3>2. CASE k + 1 \notin s
      <4>1. s \in SUBSET (1 .. k)
        BY <3>2
      <4>2. h[s] = g[s]
        BY <3>2
      <4>3. h[s \ {Max(s)}] = g[s \ {Max(s)}]
        BY <3>2
      <4>4. g[s] = IF s = {} THEN <<>> ELSE InsertByScore(g[s \ {Max(s)}], page[Max(s)])
        BY <2>1, <4>1 DEF IsSort
      <4>5. QED
        BY <4>2, <4>3, <4>4
    <3>3. QED
      BY <3>1, <3>2
  <2>3. h = [s \in SUBSET (1 .. k + 1) |->
                IF s = {} THEN <<>> ELSE InsertByScore(h[s \ {Max(s)}], page[Max(s)])]
    <3>1. h = [s \in SUBSET (1 .. k + 1) |-> h[s]]
      OBVIOUS
    <3> HIDE DEF h
    <3>2. QED
      BY <2>2, <3>1
  <2>4. IsSort(h, k + 1, page)
    BY <2>3 DEF IsSort
  <2> HIDE DEF h
  <2>5. QED
    BY <2>4
<1> HIDE DEF S
<1>3. n \in S
  BY <1>1, <1>2, Induction
<1>4. QED
  BY <1>3 DEF S

\* What InsertAt does to a sequence, for the provers.
LEMMA InsertAtIs ==
    ASSUME NEW s, NEW i, NEW e
    PROVE  InsertAt(s, i, e) = SubSeq(s, 1, i - 1) \o <<e>> \o SubSeq(s, i, Len(s))
BY DEF InsertAt

\* One round of the sort adds its item.
LEMMA InsertKeeps ==
    ASSUME NEW T, NEW items \in Seq(T), NEW x \in T
    PROVE  /\ InsertByScore(items, x) \in Seq(T)
           /\ Len(InsertByScore(items, x)) = Len(items) + 1
<1> DEFINE NotBelow == {i \in DOMAIN items : items[i].score >= x.score}
           n == Len(items)
           j == Cardinality(NotBelow) + 1
           k == j - 1
           Above == SubSeq(items, 1, k)
           Below == SubSeq(items, j, n)
           Upper == Above \o <<x>>
<1>1. n \in Nat /\ DOMAIN items = 1 .. n
  OBVIOUS
<1>2. IsFiniteSet(1 .. n) /\ Cardinality(1 .. n) = n
  <2>1. Cardinality(1 .. n) = IF 1 > n THEN 0 ELSE n - 1 + 1
    BY <1>1, FS_Interval
  <2>2. QED
    BY <1>1, <2>1, FS_Interval
<1>3. NotBelow \in SUBSET (1 .. n)
  BY <1>1
<1>4. InsertByScore(items, x) = InsertAt(items, j, x)
  BY DEF InsertByScore
<1> HIDE DEF NotBelow
<1>5. j \in 1 .. n + 1 /\ k \in 0 .. n /\ k = j - 1
  <2>1. Cardinality(NotBelow) \in Nat /\ Cardinality(NotBelow) <= n
    BY <1>2, <1>3, FS_Subset, FS_CardinalityType
  <2>2. QED
    BY <1>1, <2>1
<1> HIDE DEF j
<1>6. InsertByScore(items, x) = Upper \o Below
  BY <1>4, InsertAtIs
<1> HIDE DEF k, n
<1>7. Above \in Seq(T) /\ Len(Above) = k
  <2>1. \A i \in 1 .. k : items[i] \in T
    BY <1>1, <1>5
  <2>2. k \in Int /\ 1 \in Int
    BY <1>5
  <2>3. Above \in Seq(T) /\ Len(Above) = IF 1 <= k THEN k - 1 + 1 ELSE 0
    BY <2>1, <2>2, SubSeqProperties
  <2>4. QED
    BY <1>5, <2>3
<1>8. Below \in Seq(T) /\ Len(Below) = n - k
  <2>1. \A i \in j .. n : items[i] \in T
    BY <1>1, <1>5
  <2>2. j \in Int /\ n \in Int
    BY <1>1, <1>5
  <2>3. Below \in Seq(T) /\ Len(Below) = IF j <= n THEN n - j + 1 ELSE 0
    BY <2>1, <2>2, SubSeqProperties
  <2>4. QED
    BY <1>1, <1>5, <2>3
<1> HIDE DEF Above, Below
<1>9. <<x>> \in Seq(T) /\ Len(<<x>>) = 1
  OBVIOUS
<1>10. Upper \in Seq(T) /\ Len(Upper) = k + 1
  BY <1>7, <1>9, ConcatProperties
<1> HIDE DEF Upper
<1>11. Upper \o Below \in Seq(T) /\ Len(Upper \o Below) = Len(Upper) + Len(Below)
  BY <1>8, <1>10, ConcatProperties
<1>12. Len(Upper) + Len(Below) = n + 1
  BY <1>1, <1>5, <1>8, <1>10
<1>13. QED
  BY <1>6, <1>11, <1>12 DEF n

\* The sort returns as many items as it is given, and no other.
LEMMA SortKeeps ==
    ASSUME NEW n \in Nat, NEW T, NEW page, \A i \in 1 .. n : page[i] \in T,
           NEW g, IsSort(g, n, page)
    PROVE  g[1 .. n] \in Seq(T) /\ Len(g[1 .. n]) = n
<1> DEFINE S == {k \in Nat : k <= n => g[1 .. k] \in Seq(T) /\ Len(g[1 .. k]) = k}
<1>1. 0 \in S
  <2>1. g[1 .. 0] = <<>>
    <3>1. 1 .. 0 = {} /\ {} \in SUBSET (1 .. n)
      OBVIOUS
    <3>2. g[{}] = <<>>
      BY <3>1 DEF IsSort
    <3>3. QED
      BY <3>1, <3>2
  <2>2. <<>> \in Seq(T) /\ Len(<<>>) = 0
    BY EmptySeq
  <2>3. QED
    BY <2>1, <2>2
<1>2. ASSUME NEW k \in Nat, k \in S PROVE k + 1 \in S
  <2> SUFFICES ASSUME k + 1 <= n
               PROVE  g[1 .. k + 1] \in Seq(T) /\ Len(g[1 .. k + 1]) = k + 1
    OBVIOUS
  <2>1. 1 .. k + 1 \in SUBSET (1 .. n) /\ k + 1 \in 1 .. k + 1 /\ (1 .. k + 1) \ {k + 1} = 1 .. k
    OBVIOUS
  <2>2. Max(1 .. k + 1) = k + 1
    BY <2>1, MaxOfInterval
  <2>3. g[1 .. k + 1] = InsertByScore(g[1 .. k], page[k + 1])
    BY <2>1, <2>2 DEF IsSort
  <2>4. g[1 .. k] \in Seq(T) /\ Len(g[1 .. k]) = k
    BY <1>2
  <2>5. page[k + 1] \in T
    OBVIOUS
  <2> DEFINE items == g[1 .. k]  x == page[k + 1]
  <2> HIDE DEF items, x
  <2>6. InsertByScore(items, x) \in Seq(T) /\ Len(InsertByScore(items, x)) = Len(items) + 1
    BY <2>4, <2>5, InsertKeeps DEF items, x
  <2>7. QED
    BY <2>3, <2>4, <2>6 DEF items, x
<1> HIDE DEF S
<1>3. n \in S
  BY <1>1, <1>2, Induction
<1>4. QED
  BY <1>3 DEF S

\* The fold is that function.
LEMMA SortIs ==
    ASSUME NEW n \in Nat, NEW page, DOMAIN page = 1 .. n
    PROVE  LET g == CHOOSE g : IsSort(g, n, page)
           IN  FoldLeft(InsertByScore, <<>>, page) = g[1 .. n]
BY DEF FoldLeft, MapThenFoldSet, IsSort

-----------------------------------------------------------------------------
(* Pages. *)

\* LIMIT and OFFSET leave the window v, of length w, of the first N rows of s.
IsWindow(v, w, s, limit, offset, N) ==
    /\ limit \in Nat /\ offset \in Nat /\ N \in Nat
    /\ v = SubSeq(s, offset + 1, Min({offset + limit, N}))
    /\ w = Max({0, Min({limit, N - offset})})

\* How long a window is, and where its rows come from.
LEMMA WindowIs ==
    ASSUME NEW M, NEW N, NEW s, \A i \in 1 .. N : s[i] \in M,
           NEW limit, NEW offset, NEW v, NEW w,
           IsWindow(v, w, s, limit, offset, N)
    PROVE  v \in Seq(M) /\ Len(v) = w
<1> DEFINE m == offset + 1
           n == Min({offset + limit, N})
<1>1. n = IF offset + limit <= N THEN offset + limit ELSE N
  <2>1. offset + limit \in Int /\ N \in Int /\ n = Min({offset + limit, N})
    BY DEF IsWindow
  <2>2. QED
    BY <2>1, MinOfTwo
<1>2. m \in Int /\ n \in Int /\ n <= N /\ m >= 1
  BY <1>1 DEF IsWindow
<1>3. \A i \in m .. n : s[i] \in M
  BY <1>2 DEF IsWindow
<1>4. (IF m <= n THEN n - m + 1 ELSE 0) = w
  <2> DEFINE r == Min({limit, N - offset})
  <2>1. N - offset \in Int /\ limit \in Nat /\ offset \in Nat /\ N \in Nat
    BY DEF IsWindow
  <2>2. r = IF limit <= N - offset THEN limit ELSE N - offset
    BY <2>1, MinOfTwo
  <2>3. r \in Int
    BY <2>1, <2>2
  <2>4. w = Max({0, r}) /\ m = offset + 1
    BY DEF IsWindow
  <2> HIDE DEF r
  <2>5. Max({0, r}) = IF 0 >= r THEN 0 ELSE r
    BY <2>3, MaxOfTwo
  <2>6. QED
    BY <1>1, <2>1, <2>2, <2>4, <2>5
<1>5. v = SubSeq(s, m, n)
  BY DEF IsWindow
<1> HIDE DEF m, n
<1>6. /\ SubSeq(s, m, n) \in Seq(M)
      /\ Len(SubSeq(s, m, n)) = IF m <= n THEN n - m + 1 ELSE 0
  BY <1>2, <1>3, SubSeqProperties
<1>7. QED
  BY <1>4, <1>5, <1>6

\* A page holds the tickets that match, as many as LIMIT and OFFSET leave.
LEMMA PageIs ==
    ASSUME NEW d, NEW p, p.limit \in Nat, p.offset \in Nat, IsFiniteSet(Matches(d, p)),
           NEW page \in PagesOf(d, p)
    PROVE  /\ Len(page) = Max({0, Min({p.limit, Cardinality(Matches(d, p)) - p.offset})})
           /\ Len(page) \in Nat /\ DOMAIN page = 1 .. Len(page)
           /\ Numbers(page) \subseteq Matches(d, p)
<1> DEFINE M == Matches(d, p)
           N == Cardinality(M)
           n == Max({0, Min({p.limit, N - p.offset})})
           Window(s) == SubSeq(s, p.offset + 1, Min({p.offset + p.limit, Len(s)}))
           Page(s) == [i \in DOMAIN Window(s) |-> Item(d, Window(s)[i])]
           T == {Item(d, x) : x \in M}
<1>1. N \in Nat
  BY FS_CardinalityType
<1>2. PICK s \in Orders(d, p) :
          page = IF p.sort = "score_desc" THEN FoldLeft(InsertByScore, <<>>, Page(s)) ELSE Page(s)
  BY DEF PagesOf
<1>3. s \in [1 .. N -> M]
  BY DEF Orders, SetToSeqs
<1> DEFINE w == Window(s)
           q == Page(s)
<1> HIDE DEF M, N
<1>4. w \in Seq(M) /\ Len(w) = n
  <2> DEFINE limit == p.limit  offset == p.offset
  <2>1. IsWindow(w, n, s, limit, offset, N)
    <3>1. Len(s) = N
      BY <1>1, <1>3
    <3>2. QED
      BY <1>1, <3>1 DEF IsWindow
  <2>2. \A i \in 1 .. N : s[i] \in M
    BY <1>3
  <2> HIDE DEF limit, offset, n, w
  <2>3. QED
    BY <2>1, <2>2, WindowIs
<1> HIDE DEF Window
<1>0. q = [i \in DOMAIN w |-> Item(d, w[i])]
  OBVIOUS
<1> HIDE DEF w, q, Page
<1>5. n \in Nat /\ DOMAIN w = 1 .. n /\ \A i \in 1 .. n : w[i] \in M
  <2>1. Len(w) \in Nat /\ DOMAIN w = 1 .. Len(w) /\ w \in [1 .. Len(w) -> M]
    BY <1>4, LenProperties
  <2>2. QED
    BY <1>4, <2>1
<1> HIDE DEF n
<1>6. DOMAIN q = 1 .. n /\ \A i \in 1 .. n : q[i] \in T
  BY <1>0, <1>5
<1>7. q \in Seq(T) /\ Len(q) = n
  <2>1. q \in [1 .. n -> T]
    <3>1. q = [i \in 1 .. n |-> q[i]]
      BY <1>0, <1>5
    <3> HIDE DEF T
    <3>2. QED
      BY <1>6, <3>1
  <2> HIDE DEF T
  <2>2. q \in Seq(T)
    BY <1>5, <2>1
  <2>3. Len(q) = n
    BY <1>5, <2>1
  <2>4. QED
    BY <2>2, <2>3
<1>8. page \in Seq(T) /\ Len(page) = n
  <2>1. CASE p.sort # "score_desc"
    BY <1>2, <1>7, <2>1 DEF q
  <2>2. CASE p.sort = "score_desc"
    <3> DEFINE g == CHOOSE g : IsSort(g, n, q)
    <3>1. page = FoldLeft(InsertByScore, <<>>, q)
      BY <1>2, <2>2 DEF q
    <3>2. page = g[1 .. n]
      BY <1>5, <1>6, <3>1, SortIs
    <3>3. IsSort(g, n, q)
      BY <1>5, SortExists
    <3> HIDE DEF g, T
    <3>4. g[1 .. n] \in Seq(T) /\ Len(g[1 .. n]) = n
      BY <1>5, <1>6, <3>3, SortKeeps
    <3>5. QED
      BY <3>2, <3>4
  <2>3. QED
    BY <2>1, <2>2
<1>9. DOMAIN page = 1 .. n /\ \A i \in 1 .. n : page[i] \in T
  <2> HIDE DEF T
  <2>1. QED
    BY <1>5, <1>8
<1>10. Numbers(page) \subseteq M
  <2>1. \A t \in T : t.num \in M
    BY DEF Item
  <2> HIDE DEF T
  <2>2. QED
    BY <1>9, <2>1 DEF Numbers
<1>11. QED
  BY <1>5, <1>8, <1>9, <1>10 DEF n, M, N

-----------------------------------------------------------------------------
(* Answers, statement by statement. *)

\* What statement s of request q returns from tables d.
Says(q, s, d, result) ==
    /\ s \in DOMAIN StatsOf(d) => result = StatsOf(d)[s]
    /\ s = "page" => result \in PagesOf(d, q)
    /\ s = "count" => result = Cardinality(Matches(d, q))
    /\ s = "ticket" => result = d.tickets[q.id]
    /\ s = "events" => result = EventsOf(d, q.id)
    /\ s = "clients" => result = ClientRollup(d)
    /\ s = "markets" => result = MarketRollup(d)

\* The first k statements of h have answered from tables the database has been
\* through since the request came in, one after the other.
Saw(h, k, seen) ==
    \A i \in 1 .. k :
        LET s == Statements[ask[h].kind][i]
        IN  /\ TablesOK(seen[i]) /\ Grows(from[h], seen[i]) /\ Grows(seen[i], db)
            /\ \A j \in i .. k : Grows(seen[i], seen[j])
            /\ s \in DOMAIN got[h] /\ Says(ask[h], s, seen[i], got[h][s])

\* h is about to run the statement after the first k, or has run them all.
Reached(h, k) ==
    LET all == Statements[ask[h].kind]
    IN  IF at[h] = "ok" THEN k = Len(all) ELSE k + 1 \in DOMAIN all /\ at[h] = all[k + 1]

AnswerOK(h) ==
    at[h] \notin Ended \ {"ok"} =>
        /\ ask[h].kind \in Kinds
        /\ ask[h].kind = "list" => ask[h].limit \in Nat /\ ask[h].offset \in Nat
        /\ \E k \in Nat : \E seen :
               /\ Reached(h, k) /\ Saw(h, k, seen)
               /\ at[h] = "ok" => to[h] = seen[k]

\* Growing is transitive.
LEMMA GrowsFurther ==
    ASSUME NEW d, NEW e, NEW f, Grows(d, e), Grows(e, f)
    PROVE  Grows(d, f)
BY DEF Grows

\* Each statement of a request has one place.
LEMMA StatementsOnce ==
    ASSUME NEW kind \in Kinds
    PROVE  LET all == Statements[kind]
           IN  /\ Len(all) \in Nat \ {0} /\ DOMAIN all = 1 .. Len(all)
               /\ \A i \in DOMAIN all : all[i] \notin Ended
               /\ \A i, j \in DOMAIN all : all[i] = all[j] => i = j
<1>1. CASE kind = "stats"    BY <1>1 DEF Statements, Ended
<1>2. CASE kind = "ticket"   BY <1>2 DEF Statements, Ended
<1>3. CASE kind = "list"     BY <1>3 DEF Statements, Ended
<1>4. CASE kind = "clients"  BY <1>4 DEF Statements, Ended
<1>5. CASE kind = "markets"  BY <1>5 DEF Statements, Ended
<1>6. QED  BY <1>1, <1>2, <1>3, <1>4, <1>5 DEF Kinds

\* A step that leaves h alone leaves its answer alone.
LEMMA AnswerStays ==
    ASSUME NEW h \in Handler, AnswerOK(h), Grows(db, db'),
           ask'[h] = ask[h], at'[h] = at[h], got'[h] = got[h],
           from'[h] = from[h], to'[h] = to[h]
    PROVE  AnswerOK(h)'
<1>1. ASSUME NEW k, Reached(h, k) PROVE Reached(h, k)'
  BY <1>1 DEF Reached
<1>2. ASSUME NEW k, NEW seen, Saw(h, k, seen) PROVE Saw(h, k, seen)'
  <2>1. \A i \in 1 .. k : Grows(seen[i], db')
    BY <1>2, GrowsFurther DEF Saw
  <2>2. QED
    BY <1>2, <2>1 DEF Saw
<1>3. QED
  BY <1>1, <1>2 DEF AnswerOK

\* An accepted request starts with none of its statements run.
LEMMA AnswerStarts ==
    ASSUME DInv, NEW h \in Handler, NEW q \in Requests, Receive(h, q)
    PROVE  AnswerOK(h)'
<1>1. DOMAIN at = Handler /\ DOMAIN ask = Handler
  BY DEF DInv
<1>2. CASE ~Acceptable(q)
  <2>1. at'[h] = "bad_request"
    BY <1>1, <1>2 DEF Receive, End
  <2>2. QED
    BY <2>1 DEF AnswerOK, Ended
<1>3. CASE Acceptable(q)
  <2>1. ask'[h] = Normalise(q) /\ at'[h] = Statements[q.kind][1]
    BY <1>1, <1>3 DEF Receive, End
  <2>2. q.kind \in Kinds
    BY RequestsAssumption DEF Kinds
  <2>3. /\ Normalise(q).kind = q.kind
        /\ q.kind = "list" => Normalise(q).limit \in Nat /\ Normalise(q).offset \in Nat
    <3>1. CASE q.kind # "list"
      BY <3>1 DEF Normalise
    <3>2. CASE q.kind = "list"
      <4>1. /\ DOMAIN q = {"kind", "limit", "offset", "sort", "severity", "state"}
            /\ q.limit \in Int /\ q.offset \in Int
        BY <1>3, <3>2, RequestsAssumption DEF Acceptable
      <4>2. /\ Normalise(q).kind = q.kind
            /\ Normalise(q).limit = IF q.limit <= 0 THEN DefaultListLimit
                                    ELSE Min({q.limit, MaxListLimit})
            /\ Normalise(q).offset = IF q.offset < 0 THEN 0 ELSE q.offset
        BY <3>2, <4>1 DEF Normalise
      <4>3. DefaultListLimit \in Nat /\ MaxListLimit \in Nat
        BY ListLimitAssumption
      <4>4. Min({q.limit, MaxListLimit}) = IF q.limit <= MaxListLimit THEN q.limit
                                           ELSE MaxListLimit
        BY <4>1, <4>3, MinOfTwo
      <4>5. Normalise(q).limit \in Nat
        BY <4>1, <4>2, <4>3, <4>4
      <4>6. Normalise(q).offset \in Nat
        BY <4>1, <4>2
      <4>7. QED
        BY <4>2, <4>5, <4>6
    <3>3. QED
      BY <3>1, <3>2
  <2>4. /\ 1 \in DOMAIN Statements[q.kind] /\ at'[h] # "ok"
    BY <2>1, <2>2, StatementsOnce DEF Ended
  <2>5. Reached(h, 0)'
    BY <2>1, <2>3, <2>4 DEF Reached
  <2>6. Saw(h, 0, <<>>)'
    BY DEF Saw
  <2>7. \E k \in Nat : \E seen : (Reached(h, k) /\ Saw(h, k, seen) /\ (at[h] = "ok" => to[h] = seen[k]))'
    BY <2>4, <2>5, <2>6
  <2>8. QED
    BY <2>1, <2>2, <2>3, <2>7 DEF AnswerOK
<1>4. QED
  BY <1>2, <1>3

\* A statement that returns adds the tables it has seen.
LEMMA AnswerGoesOn ==
    ASSUME DInv, TablesOK(db), NEW h \in Handler, AnswerOK(h), at[h] \notin Ended,
           NEW result, Return(h, result), Says(ask[h], at[h], db, result)
    PROVE  AnswerOK(h)'
<1> DEFINE kind == ask[h].kind
           all  == Statements[kind]
           c    == CHOOSE i \in DOMAIN all : all[i] = at[h]
<1>1. kind \in Kinds /\ (kind = "list" => ask[h].limit \in Nat /\ ask[h].offset \in Nat)
  BY DEF AnswerOK
<1>2. PICK k \in Nat : \E seen : Reached(h, k) /\ Saw(h, k, seen)
  BY DEF AnswerOK
<1>3. PICK seen : Reached(h, k) /\ Saw(h, k, seen)
  BY <1>2
<1>4. k + 1 \in DOMAIN all /\ at[h] = all[k + 1]
  BY <1>3 DEF Reached, Ended
<1>5. /\ Len(all) \in Nat /\ DOMAIN all = 1 .. Len(all)
      /\ \A i \in DOMAIN all : all[i] \notin Ended
      /\ \A i, j \in DOMAIN all : all[i] = all[j] => i = j
  BY <1>1, StatementsOnce
<1>6. /\ got'[h] = [s \in DOMAIN got[h] \cup {at[h]} |-> IF s = at[h] THEN result ELSE got[h][s]]
      /\ to'[h] = db /\ UNCHANGED <<db, ask, from>>
      /\ at'[h] = IF c = Len(all) THEN "ok" ELSE all[c + 1]
  BY DEF Return, End, DInv
<1> HIDE DEF all
<1>7. c = k + 1
  BY <1>4, <1>5
<1> HIDE DEF c
<1>13. PICK more : more = [i \in 1 .. k + 1 |-> IF i = k + 1 THEN db ELSE seen[i]]
  OBVIOUS
<1>8. Reached(h, k + 1)'
  <2>1. CASE k + 1 = Len(all)
    <3>1. at'[h] = "ok"
      BY <1>6, <1>7, <2>1
    <3>2. QED
      BY <1>6, <2>1, <3>1 DEF Reached, all
  <2>2. CASE k + 1 # Len(all)
    <3>1. k + 1 + 1 \in DOMAIN all /\ at'[h] = all[k + 1 + 1]
      BY <1>4, <1>5, <1>6, <1>7, <2>2
    <3>2. at'[h] # "ok"
      BY <1>5, <3>1 DEF Ended
    <3>3. QED
      BY <1>6, <3>1, <3>2 DEF Reached, all
  <2>3. QED
    BY <2>1, <2>2
<1>9. Saw(h, k + 1, more)'
  <2>1. Grows(from[h], db) /\ Grows(db, db)
    BY DEF DInv, RequestOK, Grows
  <2>2. ASSUME NEW i \in 1 .. k
        PROVE  /\ TablesOK(seen[i]) /\ Grows(from[h], seen[i]) /\ Grows(seen[i], db)
               /\ \A j \in i .. k : Grows(seen[i], seen[j])
               /\ all[i] \in DOMAIN got[h] /\ Says(ask[h], all[i], seen[i], got[h][all[i]])
    BY <1>3 DEF Saw, all
  <2>3. ASSUME NEW i \in 1 .. k + 1
        PROVE  /\ TablesOK(more[i]) /\ Grows(from[h], more[i]) /\ Grows(more[i], db)
               /\ \A j \in i .. k + 1 : Grows(more[i], more[j])
               /\ all[i] \in DOMAIN got'[h] /\ Says(ask[h], all[i], more[i], got'[h][all[i]])
    <3>1. CASE i = k + 1
      <4>1. more[i] = db /\ all[i] = at[h] /\ i .. k + 1 = {i}
        BY <1>4, <1>13, <3>1
      <4>2. all[i] \in DOMAIN got'[h] /\ got'[h][all[i]] = result
        BY <1>6, <4>1
      <4>3. QED
        BY <2>1, <4>1, <4>2
    <3>2. CASE i # k + 1
      <4>1. i \in 1 .. k /\ i \in DOMAIN all /\ more[i] = seen[i] /\ all[i] # at[h]
        BY <1>4, <1>5, <1>13, <3>2
      <4>2. all[i] \in DOMAIN got'[h] /\ got'[h][all[i]] = got[h][all[i]]
        BY <1>6, <2>2, <4>1
      <4>3. \A j \in i .. k + 1 : more[j] = db \/ (j \in i .. k /\ more[j] = seen[j])
        BY <1>13, <3>2
      <4>4. \A j \in i .. k + 1 : Grows(more[i], more[j])
        BY <2>2, <4>1, <4>3
      <4>5. QED
        BY <2>2, <4>1, <4>2, <4>4
    <3>3. QED
      BY <3>1, <3>2
  <2>4. QED
    BY <1>6, <2>3 DEF Saw, all
<1>10. to'[h] = more[k + 1]
  BY <1>6, <1>13
<1>11. \E n \in Nat : \E s : (Reached(h, n) /\ Saw(h, n, s) /\ (at[h] = "ok" => to[h] = s[n]))'
  <2>1. k + 1 \in Nat
    OBVIOUS
  <2>2. QED
    BY <1>8, <1>9, <1>10, <2>1
<1>12. QED
  BY <1>1, <1>6, <1>11 DEF AnswerOK

\* Nothing is shown that is not stored; what a request finds missing it looks up
\* in tables that have all that was shown before it came in.
ShownOK(h) ==
    /\ shown[h] \subseteq Stored(db)
    /\ at[h] \notin Ended \ {"not_found"} => shown[h] \subseteq Stored(from[h])

AnswersInv ==
    /\ DInv
    /\ TablesOK(db)
    /\ DOMAIN shown = Handler
    /\ \A h \in Handler : AnswerOK(h) /\ ShownOK(h)

\* Every statement that returns returns what its SQL selects.
LEMMA HandleSays ==
    ASSUME NEW h \in Handler, Handle(h)
    PROVE  \/ \E q \in Requests : Receive(h, q)
           \/ TicketMissing(h) \/ QueryFails(h)
           \/ at[h] \notin Ended /\ \E result : Return(h, result) /\ Says(ask[h], at[h], db, result)
<1> DEFINE Told == at[h] \notin Ended
                   /\ \E result : Return(h, result) /\ Says(ask[h], at[h], db, result)
<1>1. DOMAIN StatsOf(db) = {"tickets_total", "by_state", "by_severity", "clients_total",
                            "services_total", "last_import", "priority"}
  BY DEF StatsOf
<1>2. StatsQuery(h) => Told
  <2> SUFFICES ASSUME StatsQuery(h) PROVE Told
    OBVIOUS
  <2>1. at[h] \in DOMAIN StatsOf(db) /\ Return(h, StatsOf(db)[at[h]])
    BY DEF StatsQuery
  <2>2. at[h] \notin Ended \cup {"page", "count", "ticket", "events", "clients", "markets"}
    BY <1>1, <2>1 DEF Ended
  <2>3. Says(ask[h], at[h], db, StatsOf(db)[at[h]])
    BY <2>2 DEF Says
  <2>4. QED
    BY <2>1, <2>2, <2>3
<1>3. PriorityQuery(h) => Told
  <2> SUFFICES ASSUME PriorityQuery(h) PROVE Told
    OBVIOUS
  <2>1. at[h] = "priority" /\ Return(h, StatsOf(db).priority)
    BY DEF PriorityQuery
  <2>2. Says(ask[h], at[h], db, StatsOf(db).priority)
    BY <2>1 DEF Says
  <2>3. QED
    BY <2>1, <2>2 DEF Ended
<1>4. PageQuery(h) => Told
  <2> SUFFICES ASSUME PageQuery(h) PROVE Told
    OBVIOUS
  <2>1. PICK page \in PagesOf(db, ask[h]) : at[h] = "page" /\ Return(h, page)
    BY DEF PageQuery
  <2>2. Says(ask[h], at[h], db, page)
    BY <1>1, <2>1 DEF Says
  <2>3. QED
    BY <2>1, <2>2 DEF Ended
<1>5. CountQuery(h) => Told
  <2> SUFFICES ASSUME CountQuery(h) PROVE Told
    OBVIOUS
  <2>1. at[h] = "count" /\ Return(h, Cardinality(Matches(db, ask[h])))
    BY DEF CountQuery
  <2>2. Says(ask[h], at[h], db, Cardinality(Matches(db, ask[h])))
    BY <1>1, <2>1 DEF Says
  <2>3. QED
    BY <2>1, <2>2 DEF Ended
<1>6. TicketQuery(h) => Told
  <2> SUFFICES ASSUME TicketQuery(h) PROVE Told
    OBVIOUS
  <2>1. at[h] = "ticket" /\ Return(h, db.tickets[ask[h].id])
    BY DEF TicketQuery
  <2>2. Says(ask[h], at[h], db, db.tickets[ask[h].id])
    BY <1>1, <2>1 DEF Says
  <2>3. QED
    BY <2>1, <2>2 DEF Ended
<1>7. EventsQuery(h) => Told
  <2> SUFFICES ASSUME EventsQuery(h) PROVE Told
    OBVIOUS
  <2>1. at[h] = "events" /\ Return(h, EventsOf(db, ask[h].id))
    BY DEF EventsQuery
  <2>2. Says(ask[h], at[h], db, EventsOf(db, ask[h].id))
    BY <1>1, <2>1 DEF Says
  <2>3. QED
    BY <2>1, <2>2 DEF Ended
<1>8. ClientsQuery(h) => Told
  <2> SUFFICES ASSUME ClientsQuery(h) PROVE Told
    OBVIOUS
  <2>1. at[h] = "clients" /\ Return(h, ClientRollup(db))
    BY DEF ClientsQuery
  <2>2. Says(ask[h], at[h], db, ClientRollup(db))
    BY <1>1, <2>1 DEF Says
  <2>3. QED
    BY <2>1, <2>2 DEF Ended
<1>9. MarketsQuery(h) => Told
  <2> SUFFICES ASSUME MarketsQuery(h) PROVE Told
    OBVIOUS
  <2>1. at[h] = "markets" /\ Return(h, MarketRollup(db))
    BY DEF MarketsQuery
  <2>2. Says(ask[h], at[h], db, MarketRollup(db))
    BY <1>1, <2>1 DEF Says
  <2>3. QED
    BY <2>1, <2>2 DEF Ended
<1> HIDE DEF Told
<1>10. Told \/ (\E q \in Requests : Receive(h, q)) \/ TicketMissing(h) \/ QueryFails(h)
  BY <1>2, <1>3, <1>4, <1>5, <1>6, <1>7, <1>8, <1>9 DEF Handle
<1>11. QED
  BY <1>10 DEF Told

\* A list shows tickets of the tables its page was read from.
LEMMA PageStored ==
    ASSUME NEW h \in Handler, AnswerOK(h), at[h] = "count", ask[h].kind = "list"
    PROVE  "page" \in DOMAIN got[h] /\ Numbers(got[h].page) \subseteq Stored(db)
<1> DEFINE all == Statements[ask[h].kind]
<1>1. all = <<"page", "count">>
  BY DEF Statements
<1>2. PICK k \in Nat : \E seen : Reached(h, k) /\ Saw(h, k, seen)
  BY DEF AnswerOK, Ended
<1>3. PICK seen : Reached(h, k) /\ Saw(h, k, seen)
  BY <1>2
<1>4. k + 1 \in DOMAIN all /\ all[k + 1] = "count"
  BY <1>3 DEF Reached
<1> HIDE DEF all
<1>5. k = 1 /\ all[1] = "page"
  BY <1>1, <1>4
<1>6. /\ TablesOK(seen[1]) /\ Grows(seen[1], db)
      /\ "page" \in DOMAIN got[h] /\ Says(ask[h], "page", seen[1], got[h].page)
  BY <1>3, <1>5 DEF Saw, all
<1>7. Matches(seen[1], ask[h]) \in SUBSET Stored(seen[1])
  BY DEF Matches, Joined
<1>8. IsFiniteSet(Matches(seen[1], ask[h]))
  BY <1>6, <1>7, FS_Subset DEF TablesOK
<1>9. Numbers(got[h].page) \subseteq Matches(seen[1], ask[h])
  <2>1. got[h].page \in PagesOf(seen[1], ask[h]) /\ ask[h].limit \in Nat /\ ask[h].offset \in Nat
    BY <1>6 DEF Says, AnswerOK, Ended
  <2>2. QED
    BY <1>8, <2>1, PageIs
<1>10. Stored(seen[1]) \subseteq Stored(db)
  BY <1>6 DEF Grows, Stored
<1>11. QED
  BY <1>6, <1>7, <1>9, <1>10

\* The client of h is shown stored tickets only.
LEMMA ShownStep ==
    ASSUME AnswersInv, NEW h \in Handler, Handle(h)
    PROVE  ShownOK(h)'
<1>1. ShownOK(h) /\ AnswerOK(h) /\ DOMAIN shown = Handler /\ DOMAIN from = Handler
      /\ DOMAIN at = Handler /\ DOMAIN got = Handler
  BY DEF AnswersInv, DInv
<1>2. ASSUME NEW q \in Requests, Receive(h, q) PROVE ShownOK(h)'
  <2>1. from'[h] = db /\ UNCHANGED <<db, shown>>
    BY <1>1, <1>2 DEF Receive
  <2>2. QED
    BY <1>1, <2>1 DEF ShownOK, Stored
<1>3. CASE TicketMissing(h)
  <2>1. at[h] = "ticket" /\ UNCHANGED <<db, from, shown>>
    BY <1>3 DEF TicketMissing
  <2>2. QED
    BY <1>1, <2>1 DEF ShownOK, Stored, Ended
<1>4. CASE QueryFails(h)
  <2>1. at'[h] = "internal" /\ UNCHANGED <<db, from, shown>>
    BY <1>1, <1>4 DEF QueryFails, End
  <2>2. QED
    BY <1>1, <2>1 DEF ShownOK, Stored, Ended
<1>5. ASSUME at[h] \notin Ended, NEW result, Return(h, result) PROVE ShownOK(h)'
  <2> DEFINE all  == Statements[ask[h].kind]
             last == (CHOOSE i \in DOMAIN all : all[i] = at[h]) = Len(all)
  <2>1. /\ UNCHANGED <<db, ask, from>>
        /\ got'[h] = [s \in DOMAIN got[h] \cup {at[h]} |-> IF s = at[h] THEN result ELSE got[h][s]]
    BY <1>1, <1>5 DEF Return
  <2>2. /\ last => at'[h] = "ok"
        /\ ~(last /\ ask[h].kind = "list") => shown' = shown
        /\ last /\ ask[h].kind = "list" =>
               shown'[h] = shown[h] \cup Numbers(got'[h].page)
    BY <1>1, <1>5 DEF Return, End
  <2> HIDE DEF last
  <2>3. CASE last /\ ask[h].kind = "list"
    <3>1. at[h] = "count" /\ at'[h] = "ok"
      BY <1>5, <2>2, <2>3, NextStatement DEF AnswersInv
    <3>2. "page" \in DOMAIN got[h] /\ Numbers(got[h].page) \subseteq Stored(db)
      BY <1>1, <2>3, <3>1, PageStored
    <3>3. got'[h].page = got[h].page
      BY <2>1, <3>1, <3>2
    <3>4. shown'[h] \subseteq Stored(db)
      BY <1>1, <2>2, <2>3, <3>2, <3>3 DEF ShownOK
    <3>5. QED
      BY <2>1, <3>1, <3>4 DEF ShownOK, Stored, Ended
  <2>4. CASE ~(last /\ ask[h].kind = "list")
    <3>1. shown' = shown
      BY <2>2, <2>4
    <3>2. shown[h] \subseteq Stored(from[h]) /\ shown[h] \subseteq Stored(db)
      BY <1>1, <1>5 DEF ShownOK
    <3>3. QED
      BY <2>1, <3>1, <3>2 DEF ShownOK, Stored
  <2>5. QED
    BY <2>3, <2>4
<1>6. QED
  BY <1>2, <1>3, <1>4, <1>5, HandleSays

\* A step of one handler.
LEMMA AnswerStep ==
    ASSUME AnswersInv, NEW h \in Handler, Handle(h)
    PROVE  AnswerOK(h)'
<1>1. CASE \E q \in Requests : Receive(h, q)
  BY <1>1, AnswerStarts DEF AnswersInv
<1>2. CASE TicketMissing(h) \/ QueryFails(h)
  <2>1. at'[h] \in {"not_found", "internal"}
    BY <1>2 DEF TicketMissing, QueryFails, End, AnswersInv, DInv
  <2>2. QED
    BY <2>1 DEF AnswerOK, Ended
<1>3. ASSUME at[h] \notin Ended, NEW result, Return(h, result), Says(ask[h], at[h], db, result)
      PROVE  AnswerOK(h)'
  BY <1>3, AnswerGoesOn DEF AnswersInv
<1>4. QED
  BY <1>1, <1>2, <1>3, HandleSays

\* No step of a handler touches what another has shown.
LEMMA ShownFrame ==
    ASSUME AnswersInv, NEW h \in Handler, Handle(h)
    PROVE  DOMAIN shown' = Handler /\ \A g \in Handler \ {h} : shown'[g] = shown[g]
<1> DEFINE Frame == DOMAIN shown' = Handler /\ \A g \in Handler \ {h} : shown'[g] = shown[g]
<1>1. DOMAIN shown = Handler
  BY DEF AnswersInv
<1>2. ASSUME NEW result, Return(h, result) PROVE Frame
  <2>1. shown' = shown \/ \E s : shown' = [shown EXCEPT ![h] = s]
    BY <1>2 DEF Return
  <2>2. QED
    BY <1>1, <2>1
<1>3. ASSUME NEW q, Receive(h, q) PROVE Frame
  BY <1>1, <1>3 DEF Receive
<1>4. TicketMissing(h) \/ QueryFails(h) => Frame
  BY <1>1 DEF TicketMissing, QueryFails
<1> HIDE DEF Frame
<1>5. Frame
  BY <1>2, <1>3, <1>4, HandleSays
<1>6. QED
  BY <1>5 DEF Frame

\* Before anything is asked.
LEMMA AnswersInit == Init => AnswersInv
<1> SUFFICES ASSUME Init PROVE AnswersInv
  OBVIOUS
<1>1. ASSUME NEW h \in Handler PROVE AnswerOK(h) /\ ShownOK(h)
  <2>1. at[h] = "idle" /\ shown[h] = {}
    BY DEF Init
  <2>2. QED
    BY <2>1 DEF AnswerOK, ShownOK, Ended
<1>2. DOMAIN shown = Handler
  BY DEF Init
<1>3. QED
  BY <1>1, <1>2, DInvInit, TablesInit DEF AnswersInv

\* No step, of an ingest or of a request, breaks it.
LEMMA AnswersNext == AnswersInv /\ [Next]_vars => AnswersInv'
<1> SUFFICES ASSUME AnswersInv, [Next]_vars PROVE AnswersInv'
  OBVIOUS
<1>1. DInv'
  BY DInvNext DEF AnswersInv
<1>2. TablesOK(db)' /\ Grows(db, db')
  <2>1. CASE Commit
    BY <2>1, CommitGrows, TablesStep DEF Commit, AnswersInv, DInv
  <2>2. CASE \E h \in Handler : Handle(h)
    <3>1. db' = db
      BY <2>2, HandleFrame DEF AnswersInv
    <3>2. QED
      BY <3>1 DEF AnswersInv, Grows
  <2>3. CASE UNCHANGED vars
    BY <2>3 DEF AnswersInv, Grows, vars
  <2>4. QED
    BY <2>1, <2>2, <2>3 DEF Next
<1>3. ASSUME NEW g \in Handler, AnswerOK(g), ShownOK(g),
             ask'[g] = ask[g], at'[g] = at[g], got'[g] = got[g], from'[g] = from[g],
             to'[g] = to[g], shown'[g] = shown[g]
      PROVE  AnswerOK(g)' /\ ShownOK(g)'
  <2>1. AnswerOK(g)'
    BY <1>2, <1>3, AnswerStays
  <2>2. Stored(db) \subseteq Stored(db)'
    BY <1>2 DEF Grows, Stored
  <2>3. ShownOK(g)'
    BY <1>3, <2>2 DEF ShownOK, Stored
  <2>4. QED
    BY <2>1, <2>3
<1>4. CASE Commit \/ UNCHANGED vars
  <2>1. UNCHANGED <<ask, at, got, from, to, shown>>
    BY <1>4 DEF Commit, vars
  <2>2. QED
    BY <1>1, <1>2, <1>3, <2>1 DEF AnswersInv
<1>5. ASSUME NEW h \in Handler, Handle(h) PROVE AnswersInv'
  <2>1. ASSUME NEW g \in Handler PROVE AnswerOK(g)' /\ ShownOK(g)'
    <3>1. CASE g = h
      BY <1>5, <3>1, AnswerStep, ShownStep
    <3>2. CASE g # h
      <4>1. /\ ask'[g] = ask[g] /\ at'[g] = at[g] /\ got'[g] = got[g]
            /\ from'[g] = from[g] /\ to'[g] = to[g] /\ shown'[g] = shown[g]
        BY <1>5, <3>2, HandleFrame, ShownFrame DEF AnswersInv
      <4>2. AnswerOK(g) /\ ShownOK(g)
        BY DEF AnswersInv
      <4>3. QED
        BY <1>3, <4>1, <4>2
    <3>3. QED
      BY <3>1, <3>2
  <2>2. DOMAIN shown' = Handler
    BY <1>5, ShownFrame
  <2>3. QED
    BY <1>1, <1>2, <2>1, <2>2 DEF AnswersInv
<1>6. QED
  BY <1>4, <1>5 DEF Next

\* So it holds in every state.
LEMMA AnswersInvariant == Spec => []AnswersInv
BY AnswersInit, AnswersNext, PTL DEF Spec

\* What a list has shown is there when the client follows the link.
THEOREM LinksStayGood == Spec => []ShownStaysFound
<1>1. AnswersInv => ShownStaysFound
  <2> SUFFICES ASSUME AnswersInv, NEW h \in Handler, at[h] = "not_found" PROVE ask[h].id \notin shown[h]
    BY DEF ShownStaysFound
  <2>1. shown[h] \subseteq Stored(from[h])
    BY DEF AnswersInv, ShownOK
  <2>2. from[h].tickets[ask[h].id] = Absent
    BY DEF AnswersInv, DInv, RequestOK
  <2>3. QED
    BY <2>1, <2>2 DEF Stored
<1>2. QED
  BY <1>1, AnswersInvariant, PTL

-----------------------------------------------------------------------------
(* What an answer was put together from. *)

\* Later tables hold no less.
LEMMA GrowsCounts ==
    ASSUME NEW d, NEW e, TablesOK(d), TablesOK(e), Grows(d, e)
    PROVE  /\ Stored(d) \subseteq Stored(e)
           /\ Cardinality(Stored(d)) <= Cardinality(Stored(e))
           /\ Cardinality(d.business_services) <= Cardinality(e.business_services)
<1> DEFINE S == Stored(d)
           T == Stored(e)
           A == d.business_services
           B == e.business_services
<1>1. S \in SUBSET T /\ A \in SUBSET B
  BY DEF Grows, Stored
<1>2. IsFiniteSet(T) /\ IsFiniteSet(B)
  BY DEF TablesOK
<1> HIDE DEF S, T, A, B
<1>3. Cardinality(S) <= Cardinality(T) /\ Cardinality(A) <= Cardinality(B)
  BY <1>1, <1>2, FS_Subset
<1>4. QED
  BY <1>1, <1>3 DEF S, T, A, B

\* Every client counted has a service of its own.
LEMMA ClientsFewer ==
    ASSUME NEW d, TablesOK(d)
    PROVE  Cardinality(d.clients) <= Cardinality(d.business_services)
<1> DEFINE C == d.clients
           S == d.business_services
           g == [c \in C |-> CHOOSE s \in S : ClientOf[s] = c]
<1>1. ASSUME NEW c \in C PROVE g[c] \in S /\ ClientOf[g[c]] = c
  BY DEF TablesOK
<1>2. IsFiniteSet(S)
  BY DEF TablesOK
<1>3. g \in [C -> S]
  BY <1>1
<1>4. \A a, b \in C : g[a] = g[b] => a = b
  BY <1>1
<1> HIDE DEF g, C, S
<1>5. g \in Injection(C, S)
  BY <1>3, <1>4 DEF Injection, IsInjective
<1>6. Cardinality(C) <= Cardinality(S)
  BY <1>2, <1>5, FS_Injection
<1>7. QED
  BY <1>6 DEF C, S

\* The counts a Stats answer groups add up to the tickets there were.
LEMMA StatsTotals ==
    ASSUME NEW d, TablesOK(d)
    PROVE  /\ Total(StatsOf(d).by_state) = Cardinality(Stored(d))
           /\ Total(StatsOf(d).by_severity) = Cardinality(Stored(d))
           /\ Total(StatsOf(d).priority.buckets) = Cardinality(Stored(d))
           /\ StatsOf(d).priority.stale <= Cardinality(Stored(d))
<1> DEFINE S == Stored(d)
           state == [n \in S |-> Cols(d, n).state]
           sev   == [n \in S |-> Cols(d, n).severity]
           bucket == [n \in S |-> BucketFor(ScoreIn(d, n))]
           stale == {n \in S : StaleIn(d, n)}
<1>1. /\ StatsOf(d).by_state = Tally(state)
      /\ StatsOf(d).by_severity = Tally(sev)
      /\ StatsOf(d).priority.buckets = Tally(bucket)
      /\ StatsOf(d).priority.stale = Cardinality(stale)
  BY DEF StatsOf
<1>2. DOMAIN state = S /\ DOMAIN sev = S /\ DOMAIN bucket = S /\ stale \in SUBSET S
  OBVIOUS
<1>3. IsFiniteSet(S)
  BY DEF TablesOK
<1> HIDE DEF S, state, sev, bucket, stale
<1>4. /\ Total(Tally(state)) = Cardinality(S) /\ Total(Tally(sev)) = Cardinality(S)
      /\ Total(Tally(bucket)) = Cardinality(S)
  BY <1>2, <1>3, TotalOfTally
<1>5. Cardinality(stale) <= Cardinality(S)
  BY <1>2, <1>3, FS_Subset
<1>6. QED
  BY <1>1, <1>4, <1>5 DEF S

\* An answer was put together from tables d, or from these and some that came
\* between: with nothing committed in the meantime they were the same.
LEMMA SameTables ==
    ASSUME NEW d, NEW e, Grows(d, e), Grows(e, d) PROVE d = e
BY DEF Grows

\* The moments an answer of n statements was put together from.
Moments(h, seen, n) ==
    /\ \A i \in 1 .. n : /\ TablesOK(seen[i]) /\ Grows(from[h], seen[i]) /\ Grows(seen[i], db)
                         /\ \A j \in i .. n : Grows(seen[i], seen[j])
    /\ to[h] = seen[n]
    /\ Undisturbed(h) => \A i \in 1 .. n : seen[i] = to[h]

\* Every answer has such moments, and says what the tables did at them.
LEMMA AnswerMoments ==
    ASSUME AnswersInv, NEW kind \in Kinds, NEW h \in Answered(kind)
    PROVE  \E seen :
               /\ Moments(h, seen, Len(Statements[kind]))
               /\ \A i \in 1 .. Len(Statements[kind]) :
                      Says(ask[h], Statements[kind][i], seen[i], got[h][Statements[kind][i]])
<1> DEFINE n == Len(Statements[kind])
<1>1. h \in Handler /\ at[h] = "ok" /\ ask[h].kind = kind
  BY DEF Answered
<1>2. AnswerOK(h)
  BY <1>1 DEF AnswersInv
<1>3. PICK k \in Nat : \E seen : Reached(h, k) /\ Saw(h, k, seen) /\ to[h] = seen[k]
  BY <1>1, <1>2 DEF AnswerOK
<1>4. PICK seen : Reached(h, k) /\ Saw(h, k, seen) /\ to[h] = seen[k]
  BY <1>3
<1>5. k = n /\ n \in Nat \ {0}
  BY <1>1, <1>4, StatementsOnce DEF Reached
<1>6. \A i \in 1 .. n :
          /\ TablesOK(seen[i]) /\ Grows(from[h], seen[i]) /\ Grows(seen[i], db)
          /\ \A j \in i .. n : Grows(seen[i], seen[j])
          /\ Says(ask[h], Statements[kind][i], seen[i], got[h][Statements[kind][i]])
  BY <1>1, <1>4, <1>5 DEF Saw
<1> HIDE DEF n
<1>7. ASSUME Undisturbed(h), NEW i \in 1 .. n PROVE seen[i] = to[h]
  <2>1. n \in i .. n /\ to[h] = seen[n] /\ from[h] = to[h]
    BY <1>4, <1>5, <1>7 DEF Undisturbed
  <2>2. Grows(seen[i], to[h]) /\ Grows(to[h], seen[i])
    BY <1>6, <2>1
  <2>3. QED
    BY <2>2, SameTables
<1>8. Moments(h, seen, n)
  BY <1>4, <1>5, <1>6, <1>7 DEF Moments
<1>9. QED
  BY <1>6, <1>8 DEF n

\* The seven moments of a Stats answer.
LEMMA StatsAnswer ==
    ASSUME AnswersInv, NEW h \in Answered("stats")
    PROVE  \E seen :
               /\ Moments(h, seen, 7)
               /\ got[h].tickets_total  = StatsOf(seen[1]).tickets_total
               /\ got[h].by_state       = StatsOf(seen[2]).by_state
               /\ got[h].by_severity    = StatsOf(seen[3]).by_severity
               /\ got[h].clients_total  = StatsOf(seen[4]).clients_total
               /\ got[h].services_total = StatsOf(seen[5]).services_total
               /\ got[h].last_import    = StatsOf(seen[6]).last_import
               /\ got[h].priority       = StatsOf(seen[7]).priority
<1> DEFINE all == Statements["stats"]
<1>1. /\ Len(all) = 7
      /\ all[1] = "tickets_total" /\ all[2] = "by_state" /\ all[3] = "by_severity"
      /\ all[4] = "clients_total" /\ all[5] = "services_total" /\ all[6] = "last_import"
      /\ all[7] = "priority"
  BY DEF Statements
<1>2. PICK seen : /\ Moments(h, seen, Len(all))
                  /\ \A i \in 1 .. Len(all) : Says(ask[h], all[i], seen[i], got[h][all[i]])
  BY AnswerMoments DEF Kinds
<1> HIDE DEF all
<1>3. \A d : DOMAIN StatsOf(d) = {"tickets_total", "by_state", "by_severity", "clients_total",
                                  "services_total", "last_import", "priority"}
  BY DEF StatsOf
<1>4. \A i \in 1 .. 7 : got[h][all[i]] = StatsOf(seen[i])[all[i]]
  <2> SUFFICES ASSUME NEW i \in 1 .. 7 PROVE got[h][all[i]] = StatsOf(seen[i])[all[i]]
    OBVIOUS
  <2>1. Says(ask[h], all[i], seen[i], got[h][all[i]])
    BY <1>1, <1>2
  <2>2. all[i] \in {"tickets_total", "by_state", "by_severity", "clients_total",
                    "services_total", "last_import", "priority"}
    BY <1>1
  <2>3. all[i] \in DOMAIN StatsOf(seen[i])
    BY <1>3, <2>2
  <2>4. QED
    BY <2>1, <2>3 DEF Says
<1>5. Moments(h, seen, 7)
  BY <1>1, <1>2
<1>6. QED
  BY <1>1, <1>4, <1>5

\* The parts of a Stats answer line up.
THEOREM StatsPartsLineUp == Spec => []StatsLineUp
<1>1. ASSUME AnswersInv, NEW h \in Answered("stats")
      PROVE  LET s       == got[h]
                 state   == Total(s.by_state)
                 sev     == Total(s.by_severity)
                 buckets == Total(s.priority.buckets)
             IN  /\ s.tickets_total <= state /\ state <= sev /\ sev <= buckets
                 /\ s.priority.stale <= buckets
                 /\ s.clients_total <= s.services_total
                 /\ Undisturbed(h) => s.tickets_total = buckets
  <2>1. PICK seen :
               /\ Moments(h, seen, 7)
               /\ got[h].tickets_total  = StatsOf(seen[1]).tickets_total
               /\ got[h].by_state       = StatsOf(seen[2]).by_state
               /\ got[h].by_severity    = StatsOf(seen[3]).by_severity
               /\ got[h].clients_total  = StatsOf(seen[4]).clients_total
               /\ got[h].services_total = StatsOf(seen[5]).services_total
               /\ got[h].priority       = StatsOf(seen[7]).priority
    BY <1>1, StatsAnswer
  <2> DEFINE size(i) == Cardinality(Stored(seen[i]))
  <2>2. /\ \A i \in 1 .. 7 : TablesOK(seen[i])
        /\ Grows(seen[1], seen[2]) /\ Grows(seen[2], seen[3]) /\ Grows(seen[3], seen[7])
        /\ Grows(seen[4], seen[5])
        /\ Undisturbed(h) => seen[1] = seen[7]
    BY <2>1 DEF Moments
  <2>3. /\ got[h].tickets_total = size(1)
        /\ got[h].clients_total = Cardinality(seen[4].clients)
        /\ got[h].services_total = Cardinality(seen[5].business_services)
    BY <2>1 DEF StatsOf
  <2>4. /\ Total(got[h].by_state) = size(2) /\ Total(got[h].by_severity) = size(3)
        /\ Total(got[h].priority.buckets) = size(7)
        /\ got[h].priority.stale <= size(7)
    BY <2>1, <2>2, StatsTotals
  <2>5. size(1) <= size(2) /\ size(2) <= size(3) /\ size(3) <= size(7)
    BY <2>2, GrowsCounts
  <2>6. Cardinality(seen[4].clients) <= Cardinality(seen[5].business_services)
    <3>1. /\ Cardinality(seen[4].clients) <= Cardinality(seen[4].business_services)
          /\ Cardinality(seen[4].business_services) <= Cardinality(seen[5].business_services)
      BY <2>2, ClientsFewer, GrowsCounts
    <3>2. /\ Cardinality(seen[4].clients) \in Nat
          /\ Cardinality(seen[4].business_services) \in Nat
          /\ Cardinality(seen[5].business_services) \in Nat
      BY <2>2, FS_CardinalityType DEF TablesOK
    <3>3. QED
      BY <3>1, <3>2
  <2>7. QED
    BY <2>2, <2>3, <2>4, <2>5, <2>6
<1>2. AnswersInv => StatsLineUp
  BY <1>1 DEF StatsLineUp
<1>3. QED
  BY <1>2, AnswersInvariant, PTL

\* Of finitely many numbers one is the greatest.
LEMMA MaxExists ==
    ASSUME NEW s, IsFiniteSet(s), s # {}, s \subseteq Nat
    PROVE  \E m \in s : \A x \in s : m >= x
<1> DEFINE HasMax(t) == \E m \in t : \A x \in t : m >= x
           N == {n \in Nat : \A t \in SUBSET Nat :
                     IsFiniteSet(t) /\ Cardinality(t) = n /\ t # {} => HasMax(t)}
<1>1. 0 \in N
  BY FS_EmptySet
<1>2. ASSUME NEW n \in Nat, n \in N PROVE n + 1 \in N
  <2> SUFFICES ASSUME NEW t \in SUBSET Nat, IsFiniteSet(t), Cardinality(t) = n + 1, t # {}
               PROVE  HasMax(t)
    OBVIOUS
  <2>1. PICK y \in t : TRUE
    OBVIOUS
  <2> DEFINE u == t \ {y}
  <2>2. IsFiniteSet(u) /\ Cardinality(u) = n
    <3>1. IsFiniteSet(t \ {y}) /\ Cardinality(t \ {y}) = Cardinality(t) - 1
      BY <2>1, FS_RemoveElement
    <3>2. QED
      BY <3>1
  <2>3. CASE u = {}
    <3>1. t = {y}
      BY <2>1, <2>3
    <3>2. QED
      BY <2>1, <3>1
  <2>4. CASE u # {}
    <3>1. HasMax(u)
      BY <1>2, <2>2, <2>4
    <3>2. PICK m \in u : \A x \in u : m >= x
      BY <3>1
    <3>3. m \in Nat /\ y \in Nat /\ \A x \in t : x = y \/ x \in u
      BY <2>1
    <3>4. CASE m >= y
      BY <3>2, <3>3, <3>4
    <3>5. CASE ~(m >= y)
      <4>1. \A x \in t : y >= x
        BY <3>2, <3>3, <3>5
      <4>2. QED
        BY <2>1, <4>1
    <3>6. QED
      BY <3>4, <3>5
  <2>5. QED
    BY <2>3, <2>4
<1> HIDE DEF N
<1>3. \A n \in Nat : n \in N
  BY <1>1, <1>2, Induction
<1>4. Cardinality(s) \in Nat
  BY FS_CardinalityType
<1>5. QED
  BY <1>3, <1>4 DEF N

\* The greatest id of a table that has rows is one of its ids.
LEMMA LastImportIs ==
    ASSUME NEW d, TablesOK(d)
    PROVE  /\ d.imports = {} <=> LastImport(d) = Null
           /\ d.imports # {} => \E i \in d.imports : LastImport(d) = i.id
           /\ \A i \in d.imports : i.id <= LastImport(d)
<1> DEFINE ids == {i.id : i \in d.imports}
<1>1. IsFiniteSet(ids) /\ ids \subseteq Nat /\ ids \subseteq Import
  <2> DEFINE f == [i \in d.imports |-> i.id]
             D == d.imports
  <2>1. ids = {f[i] : i \in D}
    OBVIOUS
  <2>2. IsFiniteSet(D)
    BY DEF TablesOK
  <2>3. ids \subseteq Import
    BY DEF TablesOK
  <2> HIDE DEF f, D
  <2>4. QED
    BY <2>1, <2>2, <2>3, FiniteImage, ImportOrderAssumption
<1>2. ASSUME ids # {} PROVE Max(ids) \in ids /\ \A x \in ids : x <= Max(ids)
  <2> HIDE DEF ids
  <2>1. \E m \in ids : \A x \in ids : m >= x
    BY <1>1, <1>2, MaxExists
  <2>2. Max(ids) \in ids /\ \A x \in ids : Max(ids) >= x
    BY <2>1 DEF Max
  <2>3. QED
    BY <1>1, <2>2
<1>3. CASE d.imports = {}
  BY <1>3 DEF LastImport
<1>4. CASE d.imports # {}
  <2>1. LastImport(d) \in ids /\ \A i \in d.imports : i.id <= LastImport(d)
    BY <1>2, <1>4 DEF LastImport
  <2>2. LastImport(d) # Null
    BY <1>1, <2>1, NoRowAssumption
  <2>3. QED
    BY <1>4, <2>1, <2>2
<1>5. QED
  BY <1>3, <1>4

\* "No data yet" is honest.
THEOREM NoDataYetMeansNone == Spec => []NoDataYetIsHonest
<1>1. ASSUME AnswersInv, NEW h \in Answered("stats")
      PROVE  LET s == got[h]
             IN  /\ s.last_import = Null =>
                        /\ s.tickets_total = 0 /\ s.by_state = <<>> /\ s.by_severity = <<>>
                        /\ s.clients_total = 0 /\ s.services_total = 0
                 /\ \A i \in db.imports : i.id = s.last_import =>
                        Cardinality(TicketsIn(i.hash)) <= Total(s.priority.buckets)
  <2>1. PICK seen :
               /\ Moments(h, seen, 7)
               /\ got[h].tickets_total  = StatsOf(seen[1]).tickets_total
               /\ got[h].by_state       = StatsOf(seen[2]).by_state
               /\ got[h].by_severity    = StatsOf(seen[3]).by_severity
               /\ got[h].clients_total  = StatsOf(seen[4]).clients_total
               /\ got[h].services_total = StatsOf(seen[5]).services_total
               /\ got[h].last_import    = StatsOf(seen[6]).last_import
               /\ got[h].priority       = StatsOf(seen[7]).priority
    BY <1>1, StatsAnswer
  <2>2. got[h].last_import = LastImport(seen[6])
    BY <2>1 DEF StatsOf
  <2>3. /\ \A i \in 1 .. 7 : TablesOK(seen[i])
        /\ \A i \in 1 .. 6 : Grows(seen[i], seen[6])
        /\ Grows(seen[6], seen[7]) /\ Grows(seen[6], db)
    BY <2>1 DEF Moments
  <2>4. ASSUME got[h].last_import = Null
        PROVE  /\ got[h].tickets_total = 0 /\ got[h].by_state = <<>> /\ got[h].by_severity = <<>>
               /\ got[h].clients_total = 0 /\ got[h].services_total = 0
    <3>1. seen[6].imports = {}
      <4>1. TablesOK(seen[6]) /\ LastImport(seen[6]) = Null
        BY <2>2, <2>3, <2>4
      <4>2. QED
        BY <4>1, LastImportIs
    <3>2. ASSUME NEW i \in 1 .. 6
          PROVE  Stored(seen[i]) = {} /\ seen[i].clients = {} /\ seen[i].business_services = {}
      BY <2>3, <3>1 DEF Grows, TablesOK
    <3>3. Cardinality({}) = 0
      BY FS_EmptySet
    <3>4. /\ got[h].tickets_total = Cardinality(Stored(seen[1]))
          /\ got[h].clients_total = Cardinality(seen[4].clients)
          /\ got[h].services_total = Cardinality(seen[5].business_services)
          /\ got[h].by_state = Tally([n \in Stored(seen[2]) |-> Cols(seen[2], n).state])
          /\ got[h].by_severity = Tally([n \in Stored(seen[3]) |-> Cols(seen[3], n).severity])
      BY <2>1 DEF StatsOf
    <3>5. \A f : DOMAIN f = {} => Tally(f) = <<>>
      <4> SUFFICES ASSUME NEW f, DOMAIN f = {} PROVE Tally(f) = <<>>
        OBVIOUS
      <4>1. Range(f) = {}
        BY DEF Range
      <4>2. Tally(f) = [k \in {} |-> Cardinality({n \in DOMAIN f : f[n] = k})]
        BY <4>1 DEF Tally
      <4>3. QED
        BY <4>2
    <3>6. got[h].by_state = <<>> /\ got[h].by_severity = <<>>
      <4> DEFINE f == [n \in Stored(seen[2]) |-> Cols(seen[2], n).state]
                 g == [n \in Stored(seen[3]) |-> Cols(seen[3], n).severity]
      <4>1. DOMAIN f = {} /\ DOMAIN g = {} /\ got[h].by_state = Tally(f) /\ got[h].by_severity = Tally(g)
        BY <3>2, <3>4
      <4> HIDE DEF f, g
      <4>2. QED
        BY <3>5, <4>1
    <3>7. got[h].tickets_total = 0 /\ got[h].clients_total = 0 /\ got[h].services_total = 0
      <4>1. /\ got[h].tickets_total = Cardinality(Stored(seen[1]))
            /\ got[h].clients_total = Cardinality(seen[4].clients)
            /\ got[h].services_total = Cardinality(seen[5].business_services)
        BY <3>4
      <4>2. /\ Stored(seen[1]) = {} /\ seen[4].clients = {} /\ seen[5].business_services = {}
        BY <3>2
      <4>3. QED
        BY <3>3, <4>1, <4>2
    <3>8. QED
      BY <3>6, <3>7
  <2>5. ASSUME NEW i \in db.imports, i.id = got[h].last_import
        PROVE  Cardinality(TicketsIn(i.hash)) <= Total(got[h].priority.buckets)
    <3>1. TablesOK(db)
      BY <1>1 DEF AnswersInv
    <3>2. i.id \in Import
      BY <3>1 DEF TablesOK
    <3>3. PICK j \in seen[6].imports : LastImport(seen[6]) = j.id
      BY <2>2, <2>3, <2>5, <3>2, LastImportIs, NoRowAssumption
    <3>4. j = i
      BY <2>2, <2>3, <2>5, <3>1, <3>3 DEF Grows, TablesOK
    <3>5. TicketsIn(i.hash) \in SUBSET Stored(seen[7])
      <4>1. TicketsIn(i.hash) \subseteq Stored(seen[6])
        BY <2>3, <3>3, <3>4 DEF TablesOK
      <4>2. Stored(seen[6]) \subseteq Stored(seen[7])
        BY <2>3, GrowsCounts
      <4>3. QED
        BY <4>1, <4>2
    <3>6. Total(got[h].priority.buckets) = Cardinality(Stored(seen[7]))
      BY <2>1, <2>3, StatsTotals
    <3>7. IsFiniteSet(Stored(seen[7]))
      BY <2>3 DEF TablesOK
    <3>8. Cardinality(TicketsIn(i.hash)) <= Cardinality(Stored(seen[7]))
      BY <3>5, <3>7, FS_Subset
    <3>9. QED
      BY <3>6, <3>8
  <2>6. QED
    BY <2>4, <2>5
<1>2. AnswersInv => NoDataYetIsHonest
  BY <1>1 DEF NoDataYetIsHonest
<1>3. QED
  BY <1>2, AnswersInvariant, PTL

\* The last import of an answer is a committed one, and no older than any that
\* was committed when the request came in.
THEOREM LastImportStaysLatest == Spec => []LastImportIsLatest
<1>1. ASSUME AnswersInv, NEW h \in Answered("stats")
      PROVE  LET last == got[h].last_import
             IN  /\ \A i \in from[h].imports : last # Null /\ i.id <= last
                 /\ last # Null => \E i \in to[h].imports : i.id = last
  <2>1. PICK seen :
               /\ Moments(h, seen, 7)
               /\ got[h].tickets_total  = StatsOf(seen[1]).tickets_total
               /\ got[h].by_state       = StatsOf(seen[2]).by_state
               /\ got[h].by_severity    = StatsOf(seen[3]).by_severity
               /\ got[h].clients_total  = StatsOf(seen[4]).clients_total
               /\ got[h].services_total = StatsOf(seen[5]).services_total
               /\ got[h].last_import    = StatsOf(seen[6]).last_import
               /\ got[h].priority       = StatsOf(seen[7]).priority
    BY <1>1, StatsAnswer
  <2> DEFINE d == seen[6]
  <2>2. got[h].last_import = LastImport(d)
    BY <2>1 DEF StatsOf
  <2>3. TablesOK(d) /\ Grows(from[h], d) /\ Grows(d, to[h])
    BY <2>1 DEF Moments
  <2> HIDE DEF d
  <2>4. /\ d.imports = {} <=> LastImport(d) = Null
        /\ d.imports # {} => \E i \in d.imports : LastImport(d) = i.id
        /\ \A i \in d.imports : i.id <= LastImport(d)
    BY <2>3, LastImportIs
  <2>5. from[h].imports \subseteq d.imports /\ d.imports \subseteq to[h].imports
    BY <2>3 DEF Grows
  <2>6. QED
    BY <2>2, <2>4, <2>5
<1>2. AnswersInv => LastImportIsLatest
  BY <1>1 DEF LastImportIsLatest
<1>3. QED
  BY <1>2, AnswersInvariant, PTL

\* With nothing to filter by a list is of all the tickets there are.
LEMMA MatchesAll ==
    ASSUME NEW d, TablesOK(d), NEW p, Unfiltered(p)
    PROVE  Matches(d, p) = Stored(d)
BY DEF Matches, Joined, Unfiltered, TablesOK

\* A page fits the total it comes with.
THEOREM PagesFitTotals == Spec => []PageFitsTotal
<1>1. ASSUME AnswersInv, NEW h \in Answered("list")
      PROVE  LET p == ask[h]
                 n == Len(got[h].page)
             IN  /\ Unfiltered(p) /\ n > 0 => p.offset + n <= got[h].count
                 /\ Undisturbed(h) => n = Max({0, Min({p.limit, got[h].count - p.offset})})
  <2> DEFINE all == Statements["list"]
             p == ask[h]
             n == Len(got[h].page)
  <2>1. Len(all) = 2 /\ all[1] = "page" /\ all[2] = "count"
    BY DEF Statements
  <2>2. PICK seen : /\ Moments(h, seen, Len(all))
                    /\ \A i \in 1 .. Len(all) : Says(ask[h], all[i], seen[i], got[h][all[i]])
    BY <1>1, AnswerMoments DEF Kinds
  <2> HIDE DEF all
  <2>3. /\ TablesOK(seen[1]) /\ TablesOK(seen[2]) /\ Grows(seen[1], seen[2])
        /\ Undisturbed(h) => seen[1] = seen[2]
    BY <2>1, <2>2 DEF Moments
  <2>4. got[h].page \in PagesOf(seen[1], p) /\ got[h].count = Cardinality(Matches(seen[2], p))
    <3>1. Says(p, "page", seen[1], got[h].page) /\ Says(p, "count", seen[2], got[h].count)
      BY <2>1, <2>2
    <3>2. QED
      BY <3>1 DEF Says
  <2>5. p.limit \in Nat /\ p.offset \in Nat
    BY <1>1 DEF AnswersInv, AnswerOK, Answered
  <2> DEFINE M == Cardinality(Matches(seen[1], p))
             w == Max({0, Min({p.limit, M - p.offset})})
  <2>6. \A d : TablesOK(d) => IsFiniteSet(Matches(d, p))
    <3> SUFFICES ASSUME NEW d, TablesOK(d) PROVE IsFiniteSet(Matches(d, p))
      OBVIOUS
    <3>1. Matches(d, p) \in SUBSET Stored(d)
      BY DEF Matches, Joined
    <3>2. QED
      BY <3>1, FS_Subset DEF TablesOK
  <2>7. n = w /\ n \in Nat /\ M \in Nat /\ got[h].count \in Nat
    BY <2>3, <2>4, <2>5, <2>6, PageIs, FS_CardinalityType
  <2>8. Undisturbed(h) => n = Max({0, Min({p.limit, got[h].count - p.offset})})
    BY <2>3, <2>4, <2>7
  <2>9. ASSUME Unfiltered(p), n > 0 PROVE p.offset + n <= got[h].count
    <3>1. M <= got[h].count
      BY <2>3, <2>4, <2>9, MatchesAll, GrowsCounts
    <3>2. n <= M - p.offset
      <4> DEFINE r == M - p.offset
                 l == Min({p.limit, r})
      <4>1. r \in Int
        BY <2>5, <2>7
      <4> HIDE DEF r, M
      <4>2. l = IF p.limit <= r THEN p.limit ELSE r
        BY <2>5, <4>1, MinOfTwo
      <4>3. l \in Int /\ l <= r
        BY <2>5, <4>1, <4>2
      <4>4. w = Max({0, l})
        BY DEF r
      <4> HIDE DEF l, w, n
      <4>5. Max({0, l}) = IF 0 >= l THEN 0 ELSE l
        BY <4>3, MaxOfTwo
      <4>6. n <= r
        BY <2>7, <2>9, <4>1, <4>3, <4>4, <4>5
      <4>7. QED
        BY <4>6 DEF r
    <3> HIDE DEF M, n
    <3>3. QED
      BY <2>5, <2>7, <3>1, <3>2
  <2>10. QED
    BY <2>8, <2>9
<1>2. AnswersInv => PageFitsTotal
  BY <1>1 DEF PageFitsTotal
<1>3. QED
  BY <1>2, AnswersInvariant, PTL

\* The rows that the join gives a group g = k, the group's services and their
\* tickets.
GroupRows(d, g, k)     == {x \in ServiceRows(d) : g[x[1]] = k}
GroupServices(d, g, k) == {s \in d.business_services : g[s] = k}
GroupTickets(d, g, k)  == {n \in Stored(d) : g[d.tickets[n].svc] = k}

\* The aggregates of a group count its services and their tickets.
LEMMA RowsOfGroup ==
    ASSUME NEW d, TablesOK(d), NEW g, NEW k
    PROVE  /\ RollupRow(GroupRows(d, g, k)).services = Cardinality(GroupServices(d, g, k))
           /\ RollupRow(GroupRows(d, g, k)).tickets = Cardinality(GroupTickets(d, g, k))
<1> DEFINE B == d.business_services
           Own(s) == {n \in Stored(d) : d.tickets[n].svc = s}
           Of(s) == {s} \X (IF Own(s) = {} THEN {Null} ELSE Own(s))
           rows == {x \in ServiceRows(d) : g[x[1]] = k}
           S == {s \in B : g[s] = k}
           T == {n \in Stored(d) : g[d.tickets[n].svc] = k}
<1>1. ServiceRows(d) = UNION {Of(s) : s \in B}
  BY DEF ServiceRows
<1>2. ASSUME NEW x \in ServiceRows(d)
      PROVE  /\ x[1] \in B
             /\ x[2] = Null \/ (x[2] \in Stored(d) /\ d.tickets[x[2]].svc = x[1])
  <2>1. PICK s \in B : x \in Of(s)
    BY <1>1
  <2>2. QED
    BY <2>1
<1>3. ASSUME NEW s \in B PROVE \E x \in ServiceRows(d) : x[1] = s
  <2>1. \E m : <<s, m>> \in Of(s)
    OBVIOUS
  <2>2. QED
    BY <1>1, <2>1
<1>4. ASSUME NEW n \in Stored(d) PROVE <<d.tickets[n].svc, n>> \in ServiceRows(d)
  <2> DEFINE s == d.tickets[n].svc
  <2>1. s \in B
    BY DEF TablesOK
  <2>2. n \in Own(s)
    OBVIOUS
  <2>3. <<s, n>> \in Of(s)
    BY <2>2
  <2>4. QED
    BY <1>1, <2>1, <2>3
<1>5. \A n \in Stored(d) : n # Null
  BY NoRowAssumption DEF Stored
<1>6. {x[1] : x \in rows} = S
  <2>1. \A s : s \in S => s \in {x[1] : x \in rows}
    BY <1>3
  <2>2. \A s : s \in {x[1] : x \in rows} => s \in S
    BY <1>2
  <2>3. QED
    BY <2>1, <2>2
<1>7. {x[2] : x \in rows} \ {Null} = T
  <2>1. ASSUME NEW n \in T PROVE n \in {x[2] : x \in rows} \ {Null}
    <3>1. <<d.tickets[n].svc, n>> \in rows
      BY <1>4
    <3>2. QED
      BY <1>5, <3>1
  <2>2. ASSUME NEW x \in rows, x[2] # Null PROVE x[2] \in T
    BY <1>2, <2>2
  <2>3. QED
    BY <2>1, <2>2
<1>8. QED
  BY <1>6, <1>7 DEF RollupRow, GroupRows, GroupServices, GroupTickets

\* r is a rollup of d by g: a row for each of its keys, aggregated over its group.
Rollup(r, d, g) ==
    \A k \in DOMAIN r :
        LET row == RollupRow(GroupRows(d, g, k))
        IN  r[k].services = row.services /\ r[k].tickets = row.tickets

\* The services whose key has a row, and their tickets.
OwnedBy(d, g, K)   == {s \in d.business_services : g[s] \in K}
OwnTickets(d, S) == {n \in Stored(d) : d.tickets[n].svc \in S}

\* A rollup counts each service whose key has a row once, and each of its tickets.
LEMMA RollupTotals ==
    ASSUME NEW d, TablesOK(d), NEW g, NEW r, Rollup(r, d, g)
    PROVE  /\ Total(Column(r, "services")) = Cardinality(OwnedBy(d, g, DOMAIN r))
           /\ Total(Column(r, "tickets")) =
                  Cardinality(OwnTickets(d, OwnedBy(d, g, DOMAIN r)))
<1> DEFINE K == DOMAIN r
           B == d.business_services
           S == OwnedBy(d, g, K)
           T == OwnTickets(d, S)
           f == Column(r, "services")
           e == Column(r, "tickets")
           P == [k \in K |-> GroupServices(d, g, k)]
           Q == [k \in K |-> GroupTickets(d, g, k)]
<1>1. IsFiniteSet(S)
  <2>1. S \in SUBSET B /\ IsFiniteSet(B)
    BY DEF TablesOK, OwnedBy
  <2> HIDE DEF S, B
  <2>2. QED
    BY <2>1, FS_Subset
<1>2. IsFiniteSet(T)
  <2>1. T \in SUBSET Stored(d) /\ IsFiniteSet(Stored(d))
    BY DEF TablesOK, OwnTickets
  <2> HIDE DEF T
  <2>2. QED
    BY <2>1, FS_Subset
<1>3. DOMAIN f = K /\ DOMAIN e = K /\ DOMAIN P = K /\ DOMAIN Q = K
  BY DEF Column
<1>4. \A k \in K : f[k] = Cardinality(P[k]) /\ e[k] = Cardinality(Q[k])
  <2> SUFFICES ASSUME NEW k \in K PROVE f[k] = Cardinality(P[k]) /\ e[k] = Cardinality(Q[k])
    OBVIOUS
  <2> DEFINE rows == GroupRows(d, g, k)
  <2>1. f[k] = r[k].services /\ e[k] = r[k].tickets
    BY DEF Column
  <2>2. r[k].services = RollupRow(rows).services /\ r[k].tickets = RollupRow(rows).tickets
    BY DEF Rollup
  <2>3. /\ RollupRow(rows).services = Cardinality(P[k])
        /\ RollupRow(rows).tickets = Cardinality(Q[k])
    BY RowsOfGroup
  <2>4. QED
    BY <2>1, <2>2, <2>3
<1>5. /\ \A k \in K : P[k] \subseteq S /\ Q[k] \subseteq T
      /\ \A x \in S : \E k \in K : x \in P[k]
      /\ \A x \in T : \E k \in K : x \in Q[k]
  <2>1. \A n \in Stored(d) : d.tickets[n].svc \in B
    BY DEF TablesOK
  <2>2. QED
    BY <2>1 DEF GroupServices, GroupTickets, OwnedBy, OwnTickets
<1>6. \A j, k \in K : j # k => P[j] \cap P[k] = {} /\ Q[j] \cap Q[k] = {}
  BY DEF GroupServices, GroupTickets
<1> HIDE DEF K, S, T, f, e, P, Q
<1>7. Total(f) = Cardinality(S)
  BY <1>1, <1>3, <1>4, <1>5, <1>6, TotalOfParts
<1>8. Total(e) = Cardinality(T)
  BY <1>2, <1>3, <1>4, <1>5, <1>6, TotalOfParts
<1>9. QED
  BY <1>7, <1>8 DEF K, S, T, f, e

\* The one moment of an answer of one statement.
LEMMA RollupAnswer ==
    ASSUME AnswersInv, NEW kind \in {"markets", "clients"}, NEW h \in Answered(kind)
    PROVE  TablesOK(to[h]) /\ Says(ask[h], kind, to[h], got[h][kind])
<1> DEFINE all == Statements[kind]
<1>1. Len(all) = 1 /\ all[1] = kind
  <2>1. CASE kind = "markets"  BY <2>1 DEF Statements
  <2>2. CASE kind = "clients"  BY <2>2 DEF Statements
  <2>3. QED  BY <2>1, <2>2
<1>2. PICK seen : /\ Moments(h, seen, Len(all))
                  /\ \A i \in 1 .. Len(all) : Says(ask[h], all[i], seen[i], got[h][all[i]])
  BY AnswerMoments DEF Kinds
<1> HIDE DEF all
<1>3. QED
  BY <1>1, <1>2 DEF Moments

\* The rollups add up.
THEOREM RollupsCountOnce == Spec => []RollupsAddUp
<1>1. ASSUME AnswersInv, NEW h \in Answered("markets")
      PROVE  LET rows == got[h].markets
             IN  /\ Total(Column(rows, "tickets")) = Cardinality(Stored(to[h]))
                 /\ Total(Column(rows, "services")) = Cardinality(to[h].business_services)
  <2> DEFINE d == to[h]
             r == got[h].markets
             S == OwnedBy(d, CountryOf, DOMAIN r)
  <2>1. TablesOK(d) /\ r = MarketRollup(d)
    <3>1. TablesOK(d) /\ Says(ask[h], "markets", d, got[h].markets)
      BY <1>1, RollupAnswer
    <3>2. QED
      BY <3>1 DEF Says
  <2>2. DOMAIN r = {CountryOf[s] : s \in d.business_services}
    BY <2>1 DEF MarketRollup
  <2>3. Rollup(r, d, CountryOf)
    BY <2>1 DEF Rollup, MarketRollup, GroupRows
  <2>4. /\ Total(Column(r, "services")) = Cardinality(S)
        /\ Total(Column(r, "tickets")) = Cardinality(OwnTickets(d, S))
    BY <2>1, <2>3, RollupTotals
  <2>5. S = d.business_services
    BY <2>2 DEF OwnedBy
  <2>6. OwnTickets(d, S) = Stored(d)
    BY <2>1, <2>5 DEF TablesOK, OwnTickets
  <2>7. QED
    BY <2>4, <2>5, <2>6
<1>2. ASSUME AnswersInv, NEW h \in Answered("clients")
      PROVE  LET rows == got[h].clients
                 Owned == {s \in to[h].business_services : ClientOf[s] # Null}
             IN  /\ Total(Column(rows, "services")) = Cardinality(Owned)
                 /\ Total(Column(rows, "tickets")) =
                        Cardinality({n \in Stored(to[h]) : to[h].tickets[n].svc \in Owned})
                 /\ \A c \in to[h].clients : rows[c].services > 0
  <2> DEFINE d == to[h]
             r == got[h].clients
             S == OwnedBy(d, ClientOf, DOMAIN r)
  <2>1. TablesOK(d) /\ r = ClientRollup(d)
    <3>1. TablesOK(d) /\ Says(ask[h], "clients", d, got[h].clients)
      BY <1>2, RollupAnswer
    <3>2. QED
      BY <3>1 DEF Says
  <2>2. DOMAIN r = d.clients
    BY <2>1 DEF ClientRollup
  <2>3. Rollup(r, d, ClientOf)
    BY <2>1 DEF Rollup, ClientRollup, GroupRows
  <2>4. /\ Total(Column(r, "services")) = Cardinality(S)
        /\ Total(Column(r, "tickets")) = Cardinality(OwnTickets(d, S))
    BY <2>1, <2>3, RollupTotals
  <2>5. S = {s \in d.business_services : ClientOf[s] # Null}
    BY <2>1, <2>2 DEF TablesOK, OwnedBy
  <2>6. ASSUME NEW c \in d.clients PROVE r[c].services > 0
    <3> DEFINE G == GroupServices(d, ClientOf, c)
    <3>1. r[c].services = Cardinality(G)
      BY <2>1, <2>2, <2>3, RowsOfGroup DEF Rollup
    <3>2. G \in SUBSET d.business_services /\ G # {} /\ IsFiniteSet(d.business_services)
      BY <2>1 DEF TablesOK, GroupServices
    <3> HIDE DEF G
    <3>3. IsFiniteSet(G)
      BY <3>2, FS_Subset
    <3>4. Cardinality(G) \in Nat /\ Cardinality(G) # 0
      BY <3>2, <3>3, FS_CardinalityType, FS_EmptySet
    <3>5. QED
      BY <3>1, <3>4
  <2>7. QED
    BY <2>4, <2>5, <2>6 DEF OwnTickets
<1>3. AnswersInv => RollupsAddUp
  BY <1>1, <1>2 DEF RollupsAddUp
<1>4. QED
  BY <1>3, AnswersInvariant, PTL
=============================================================================
