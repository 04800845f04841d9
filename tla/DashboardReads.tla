--------------------------- MODULE DashboardReads ---------------------------
(***************************************************************************)
(* The read side: the handlers of internal/api over internal/queries,      *)
(* while ingests commit.  A request runs its SQL statements one after the  *)
(* other, each on a snapshot of its own: nothing holds them together.  The *)
(* tables change as IngestCatalog says, which IngestWriter implements.     *)
(***************************************************************************)
EXTENDS ExportData, Scoring

CONSTANTS
    ColsOf,            \* the columns of a version that reads look at
    EntryOf,           \* the columns of a journal entry: ts, author, context
    CountryOf,         \* the country ParseBusinessService finds, or Null
    Handler,           \* the requests under way at once
    Requests,          \* bound: the requests that clients make
    Now,               \* the day it is
    StaleThreshold,    \* cfg.Staleness.ThresholdDays
    DefaultListLimit,
    MaxListLimit,
    NoFilter,          \* the empty severity, state or sort
    NotInt             \* a limit or offset Atoi refuses, an id that is not positive

ASSUME ColsAssumption ==
    \A v \in Version : DOMAIN ColsOf[v] =
        {"state", "severity", "updated", "opened", "due", "caller"}
ASSUME ImportOrderAssumption == Import \subseteq Nat
ASSUME NoRowAssumption == Null \notin Import \cup Ticket
ASSUME RequestsAssumption ==
    \A q \in Requests :
        \/ q \in [kind: {"stats", "clients", "markets"}]
        \/ q \in [kind: {"ticket"}, id: Ticket \cup {NotInt}]
        \/ /\ q.kind = "list"
           /\ DOMAIN q = {"kind", "limit", "offset", "sort", "severity", "state"}
           /\ q.limit \in Int \cup {NotInt} /\ q.offset \in Int \cup {NotInt}
ASSUME ListLimitAssumption ==
    MaxListLimit \in Nat /\ DefaultListLimit \in 1 .. MaxListLimit

VARIABLES
    db,      \* the committed rows
    ask,     \* the request each handler serves, normalised
    at,      \* its next SQL statement, or how it ended
    got,     \* what its statements have returned
    from,    \* history: the tables when the request came in,
    to,      \* when its last statement ran,
    shown    \* and the tickets lists have shown to the handler's client

vars == <<db, ask, at, got, from, to, shown>>

Catalog == INSTANCE IngestCatalog WITH db <- db

Init ==
    /\ Catalog!Init
    /\ ask = [h \in Handler |-> Null]
    /\ at = [h \in Handler |-> "idle"]
    /\ got = [h \in Handler |-> <<>>]
    /\ from = [h \in Handler |-> Empty]
    /\ to = [h \in Handler |-> Empty]
    /\ shown = [h \in Handler |-> {}]

-----------------------------------------------------------------------------
(* What one statement returns from tables d. *)

Stored(d)  == {n \in Ticket : d.tickets[n] # Absent}
Cols(d, n) == ColsOf[d.tickets[n].cols]

\* Mutant: clients is joined like business_services, and hides internal tickets.
Joined_InnerClients(d) ==
    {n \in Stored(d) : d.tickets[n].svc \in d.business_services /\ ClientOf[d.tickets[n].svc] # Null}

\* JOIN business_services, LEFT JOIN clients.
Joined(d) == {n \in Stored(d) : d.tickets[n].svc \in d.business_services}

Matches(d, p) ==
    {n \in Joined(d) : /\ p.severity = NoFilter \/ Cols(d, n).severity = p.severity
                       /\ p.state = NoFilter \/ Cols(d, n).state = p.state}

EventsOf(d, n) == {v.entry : v \in {w \in d.ticket_events : w.num = n}}
Journaled(es)  == {EntryOf[e] : e \in es}

StaleIn(d, n) ==
    StaleFromLastSupport(LastSupport(Journaled(EventsOf(d, n)), Cols(d, n).caller),
                         StaleThreshold, Now)

ScoreIn(d, n) == Score(Cols(d, n), Now)

\* SELECT key, COUNT( * ) GROUP BY key, where f gives the key of each row.
Tally(f) == [k \in Range(f) |-> Cardinality({n \in DOMAIN f : f[n] = k})]

\* Mutant: DESC is forgotten.
LastImport_Oldest(d) == IF d.imports = {} THEN Null ELSE Min({i.id : i \in d.imports})

\* ORDER BY ingested_at DESC, id DESC: the order Import is numbered in.  It is
\* that in which the transactions of Write began (DEFAULT now()), which need not
\* be that in which they commit.
LastImport(d) == IF d.imports = {} THEN Null ELSE Max({i.id : i \in d.imports})

\* The answer of Stats, by statement.
StatsOf(d) ==
    [tickets_total |-> Cardinality(Stored(d)),
     by_state      |-> Tally([n \in Stored(d) |-> Cols(d, n).state]),
     by_severity   |-> Tally([n \in Stored(d) |-> Cols(d, n).severity]),
     clients_total |-> Cardinality(d.clients),
     services_total |-> Cardinality(d.business_services),
     last_import   |-> LastImport(d),
     priority      |-> [buckets |-> Tally([n \in Stored(d) |-> BucketFor(ScoreIn(d, n))]),
                        stale   |-> Cardinality({n \in Stored(d) : StaleIn(d, n)})]]

\* Row a may come before row b in the ORDER BY of the sort: ties are in any order.
MayPrecede(d, sort, a, b) ==
    CASE sort = "opened_at_desc" -> Cols(d, a).opened >= Cols(d, b).opened
      [] sort = "due_date_asc"   -> Cols(d, a).due <= Cols(d, b).due
      [] OTHER                   -> Cols(d, a).updated >= Cols(d, b).updated

Orders(d, p) ==
    {s \in SetToSeqs(Matches(d, p)) :
        \A i, j \in DOMAIN s : i < j => MayPrecede(d, p.sort, s[i], s[j])}

Item(d, n) == [num |-> n, updated |-> Cols(d, n).updated,
               score |-> ScoreIn(d, n), stale |-> StaleIn(d, n)]

\* One round of sortByScoreDesc: x sinks past the items that score less.
InsertByScore(items, x) ==
    LET NotBelow == {i \in DOMAIN items : items[i].score >= x.score}
    IN  InsertAt(items, Cardinality(NotBelow) + 1, x)

\* The pages a SELECT with LIMIT and OFFSET may return, as ListTickets sorts them.
PagesOf(d, p) ==
    LET Window(s) == SubSeq(s, p.offset + 1, Min({p.offset + p.limit, Len(s)}))
        Page(s)   == [i \in DOMAIN Window(s) |-> Item(d, Window(s)[i])]
    IN  {IF p.sort = "score_desc" THEN FoldLeft(InsertByScore, <<>>, Page(s)) ELSE Page(s) :
            s \in Orders(d, p)}

\* business_services LEFT JOIN tickets: the pairs of a service and one of its
\* tickets, or Null for none.
ServiceRows(d) ==
    UNION {LET Own == {n \in Stored(d) : d.tickets[n].svc = s}
           IN  {s} \X (IF Own = {} THEN {Null} ELSE Own) : s \in d.business_services}

\* Mutant: COUNT without DISTINCT.
RollupRow_NoDistinct(rows) ==
    [services |-> Cardinality(rows),
     tickets  |-> Cardinality({x[2] : x \in rows} \ {Null})]

\* The aggregates over the joined rows of one group: COUNT(DISTINCT ...).
RollupRow(rows) ==
    [services |-> Cardinality({x[1] : x \in rows}),
     tickets  |-> Cardinality({x[2] : x \in rows} \ {Null})]

\* FROM clients LEFT JOIN business_services LEFT JOIN tickets.
ClientRollup(d) ==
    [c \in d.clients |-> RollupRow({x \in ServiceRows(d) : ClientOf[x[1]] = c})]

\* FROM business_services LEFT JOIN tickets GROUP BY country_code.
MarketRollup(d) ==
    [k \in {CountryOf[s] : s \in d.business_services} |->
        LET rows == {x \in ServiceRows(d) : CountryOf[x[1]] = k}
            row  == RollupRow(rows)
        IN  [clients  |-> Cardinality({ClientOf[x[1]] : x \in rows} \ {Null}),
             services |-> row.services,
             tickets  |-> row.tickets]]

-----------------------------------------------------------------------------
(* Requests. *)

SortTokens == {"updated_at_desc", "opened_at_desc", "due_date_asc", "score_desc"}

\* parseListTicketsParams accepts the query string, getTicket the path: NotInt
\* stands for what Atoi refuses and, for an id, for those below 1 as well.
Acceptable(q) ==
    /\ q.kind = "list" => /\ q.limit # NotInt /\ q.offset # NotInt
                          /\ q.sort \in SortTokens \cup {NoFilter}
    /\ q.kind = "ticket" => q.id # NotInt

Normalise(q) ==
    IF q.kind # "list" THEN q
    ELSE [q EXCEPT !.limit  = IF @ <= 0 THEN DefaultListLimit ELSE Min({@, MaxListLimit}),
                   !.offset = IF @ < 0 THEN 0 ELSE @,
                   !.sort   = IF @ = NoFilter THEN "updated_at_desc" ELSE @]

\* Mutants: statements in another order.
Statements_ImportFirst ==
    [stats   |-> <<"last_import", "tickets_total", "by_state", "by_severity",
                   "clients_total", "services_total", "priority">>,
     ticket  |-> <<"ticket", "events">>,
     list    |-> <<"page", "count">>,
     clients |-> <<"clients">>,
     markets |-> <<"markets">>]

Statements_Reversed ==
    [stats   |-> <<"tickets_total", "by_state", "by_severity", "services_total",
                   "clients_total", "last_import", "priority">>,
     ticket  |-> <<"events", "ticket">>,
     list    |-> <<"count", "page">>,
     clients |-> <<"clients">>,
     markets |-> <<"markets">>]

\* The statements each kind of request runs, in order.
Statements ==
    [stats   |-> <<"tickets_total", "by_state", "by_severity", "clients_total",
                   "services_total", "last_import", "priority">>,
     ticket  |-> <<"ticket", "events">>,
     list    |-> <<"page", "count">>,
     clients |-> <<"clients">>,
     markets |-> <<"markets">>]

Ended == {"idle", "ok", "bad_request", "not_found", "internal"}

End(h, code) == at' = [at EXCEPT ![h] = code]

\* A request comes in, and is answered 400 or starts its first statement.
Receive(h, q) ==
    /\ at[h] \in Ended
    /\ got' = [got EXCEPT ![h] = <<>>]
    /\ from' = [from EXCEPT ![h] = db]
    /\ to' = [to EXCEPT ![h] = db]
    /\ IF Acceptable(q)
       THEN /\ ask' = [ask EXCEPT ![h] = Normalise(q)]
            /\ End(h, Statements[q.kind][1])
       ELSE /\ ask' = [ask EXCEPT ![h] = q]
            /\ End(h, "bad_request")
    /\ UNCHANGED <<db, shown>>

\* The tickets of a page.
Numbers(page) == {page[i].num : i \in DOMAIN page}

\* The statement of h returns result; the next one follows, or the answer.
Return(h, result) ==
    LET all  == Statements[ask[h].kind]
        k    == CHOOSE i \in DOMAIN all : all[i] = at[h]
        last == k = Len(all)
    IN  /\ got' = [got EXCEPT ![h] = [s \in DOMAIN got[h] \cup {at[h]} |->
                                         IF s = at[h] THEN result ELSE got[h][s]]]
        /\ to' = [to EXCEPT ![h] = db]
        /\ End(h, IF last THEN "ok" ELSE all[k + 1])
        /\ shown' = IF last /\ ask[h].kind = "list"
                    THEN [shown EXCEPT ![h] = @ \cup Numbers(got'[h].page)]
                    ELSE shown
        /\ UNCHANGED <<db, ask, from>>

\* A COUNT, GROUP BY or last-import statement of Stats.
StatsQuery(h) ==
    /\ at[h] \in DOMAIN StatsOf(db) \ {"priority"}
    /\ Return(h, StatsOf(db)[at[h]])

\* priorityBucketsAndStale: every ticket is scored.
PriorityQuery(h) ==
    /\ at[h] = "priority"
    /\ Return(h, StatsOf(db).priority)

\* ListTickets, the page.
PageQuery(h) ==
    /\ at[h] = "page"
    /\ \E page \in PagesOf(db, ask[h]) : Return(h, page)

\* ListTickets, the total.
CountQuery(h) ==
    /\ at[h] = "count"
    /\ Return(h, Cardinality(Matches(db, ask[h])))

\* GetTicket, the row.
TicketQuery(h) ==
    /\ at[h] = "ticket"
    /\ ask[h].id \in Joined(db)
    /\ Return(h, db.tickets[ask[h].id])

\* GetTicket finds no row: 404.
TicketMissing(h) ==
    /\ at[h] = "ticket"
    /\ ask[h].id \notin Joined(db)
    /\ End(h, "not_found")
    /\ to' = [to EXCEPT ![h] = db]
    /\ UNCHANGED <<db, ask, got, from, shown>>

\* GetTicket, the timeline.
EventsQuery(h) ==
    /\ at[h] = "events"
    /\ Return(h, EventsOf(db, ask[h].id))

ClientsQuery(h) == at[h] = "clients" /\ Return(h, ClientRollup(db))
MarketsQuery(h) == at[h] = "markets" /\ Return(h, MarketRollup(db))

\* RequestTimeout, a lost connection or an error of the server: 500.
QueryFails(h) ==
    /\ at[h] \notin Ended
    /\ End(h, "internal")
    /\ got' = [got EXCEPT ![h] = <<>>]
    /\ UNCHANGED <<db, ask, from, to, shown>>

\* An ingest commits.
Commit ==
    /\ Catalog!Next
    /\ UNCHANGED <<ask, at, got, from, to, shown>>

Handle(h) ==
    \/ \E q \in Requests : Receive(h, q)
    \/ StatsQuery(h) \/ PriorityQuery(h)
    \/ PageQuery(h) \/ CountQuery(h)
    \/ TicketQuery(h) \/ TicketMissing(h) \/ EventsQuery(h)
    \/ ClientsQuery(h) \/ MarketsQuery(h)
    \/ QueryFails(h)

Next == Commit \/ \E h \in Handler : Handle(h)

Spec == Init /\ [][Next]_vars

-----------------------------------------------------------------------------
Answered(kind)  == {h \in Handler : at[h] = "ok" /\ ask[h].kind = kind}
Undisturbed(h)  == from[h] = to[h]
Unfiltered(p)   == p.severity = NoFilter /\ p.state = NoFilter
Column(f, name) == [k \in DOMAIN f |-> f[k][name]]

\* What the counts of f add up to: as many as there are pairs of a key and one
\* of the things counted under it.
Piles(f) == UNION {{k} \X (1 .. f[k]) : k \in DOMAIN f}
Total(f) == Cardinality(Piles(f))

\* The parts of a Stats answer come from different moments, but never from an
\* impossible past: tickets only appear, so what is counted later is no less.
\* The states and the severities may exceed the total read before them, the
\* buckets may exceed both, and there is a service for each client counted.
\* With no commit in between they are equal.
StatsLineUp ==
    \A h \in Answered("stats") :
        LET s       == got[h]
            state   == Total(s.by_state)
            sev     == Total(s.by_severity)
            buckets == Total(s.priority.buckets)
        IN  /\ s.tickets_total <= state /\ state <= sev /\ sev <= buckets
            /\ s.priority.stale <= buckets
            /\ s.clients_total <= s.services_total
            /\ Undisturbed(h) => s.tickets_total = buckets

\* "No data yet" is honest: a Stats answer without a last import counted nothing
\* before it looked, and one that names an import has that import's tickets
\* in its buckets.
NoDataYetIsHonest ==
    \A h \in Answered("stats") :
        LET s == got[h]
        IN  /\ s.last_import = Null =>
                   /\ s.tickets_total = 0 /\ s.by_state = <<>> /\ s.by_severity = <<>>
                   /\ s.clients_total = 0 /\ s.services_total = 0
            /\ \A i \in db.imports : i.id = s.last_import =>
                   Cardinality(TicketsIn(i.hash)) <= Total(s.priority.buckets)

\* Imports are ordered by when they began, and may commit in another order and
\* between any two statements.  What a Stats answer calls the last import is
\* committed all the same, and no import that was committed when the request came
\* in is later: from one answer to the next it never goes back.
LastImportIsLatest ==
    \A h \in Answered("stats") :
        LET last == got[h].last_import
        IN  /\ \A i \in from[h].imports : last # Null /\ i.id <= last
            /\ last # Null => \E i \in to[h].imports : i.id = last

\* The timeline GetTicket shows below a ticket's row is never older than the
\* row: it holds every journal entry that the export behind the row has about
\* the ticket, though an ingest may commit between the two statements.
TimelineCoversVersion ==
    \A h \in Answered("ticket") : \E i \in db.imports :
        /\ i.id = got[h].ticket.source
        /\ \A e \in Entry : Mentions(i.hash, ask[h].id, e) =>
               \E v \in got[h].events : v = e

\* The joins lose nothing: a ticket that GET /api/tickets/{id} does not find was
\* not stored when the request came in, and the total of a list counts every
\* stored ticket the filter lets through, those of internal services included.
NothingHidden ==
    \A h \in Handler :
        /\ at[h] = "not_found" => from[h].tickets[ask[h].id] = Absent
        /\ h \in Answered("list") =>
               got[h].count = Cardinality(
                   {n \in Stored(to[h]) :
                       /\ ask[h].severity \in {NoFilter, Cols(to[h], n).severity}
                       /\ ask[h].state \in {NoFilter, Cols(to[h], n).state}})

\* A ticket that some list has shown a client is there when the client follows
\* the link, whatever has been ingested in the meantime.
ShownStaysFound ==
    \A h \in Handler : at[h] = "not_found" => ask[h].id \notin shown[h]

\* A list without filters never shows more tickets than its total says there
\* are up to the end of the page, and exactly limit of them, or the rest, when
\* nothing commits between its two statements.
PageFitsTotal ==
    \A h \in Answered("list") :
        LET p == ask[h]
            n == Len(got[h].page)
        IN  /\ Unfiltered(p) /\ n > 0 => p.offset + n <= got[h].count
            /\ Undisturbed(h) =>
                   n = Max({0, Min({p.limit, got[h].count - p.offset})})

\* The rollups count each ticket and each service once, in the row they belong
\* to: over all markets they are all there, over all clients those that are not
\* of internal services.
RollupsAddUp ==
    /\ \A h \in Answered("markets") :
           LET rows == got[h].markets
           IN  /\ Total(Column(rows, "tickets")) = Cardinality(Stored(to[h]))
               /\ Total(Column(rows, "services")) = Cardinality(to[h].business_services)
    /\ \A h \in Answered("clients") :
           LET rows == got[h].clients
               Owned == {s \in to[h].business_services : ClientOf[s] # Null}
           IN  /\ Total(Column(rows, "services")) = Cardinality(Owned)
               /\ Total(Column(rows, "tickets")) =
                      Cardinality({n \in Stored(to[h]) : to[h].tickets[n].svc \in Owned})
               /\ \A c \in to[h].clients : rows[c].services > 0

\* Said of ListTickets: "Total returned to the client matches the
\* filtered-but-unpaginated row count" (internal/queries/tickets.go:111-113), so
\* a page ends no later than its total.
TotalMatchesFilter ==
    \A h \in Answered("list") :
        got[h].page # <<>> => ask[h].offset + Len(got[h].page) <= got[h].count
=============================================================================
