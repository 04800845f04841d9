--------------------------- MODULE TicketJournal ---------------------------
(***************************************************************************)
(* The journal of one ticket on its way into ticket_events.  People write  *)
(* entries in ServiceNow; an export is a snapshot that shows all entries   *)
(* written so far, newest first, in one cell; exports are ingested in any  *)
(* order, an old one again or after a newer one.  IngestWriter shows that  *)
(* a run is atomic: here it is one step.                                   *)
(***************************************************************************)
EXTENDS Journal, SequencesExt

CONSTANTS
    Body,       \* what is written under a header
    MaxEntries  \* bound: entries written

VARIABLES
    journal,   \* the entries, in the order they were written
    ingested,  \* the longest snapshot ingested so far, as its length
    rows       \* ticket_events of the ticket, in the order of id

journalVars == <<journal, ingested, rows>>

ASSUME BodyAssumption == Body \subseteq Seq(Text)

Entry == [header: [ts: Timestamp, author: Author, context: Context], body: Body]

-----------------------------------------------------------------------------
(* From the journal to the parsed entries. *)

\* The cell ServiceNow writes for a journal: newest entry first, each followed
\* by an empty line.
Rendered(j) == FlattenSeq([i \in DOMAIN j |->
                   LET e == Reverse(j)[i] IN <<e.header>> \o e.body \o <<Blank>>])

\* Mutant: the whitespace at the end of the cell stays.
NormaliseLines_Untrimmed(c) == c

\* TrimRight(s, " \t\r\n"), line by line.
NormaliseLines(c) ==
    SubSeq(c, 1, CHOOSE k \in 0 .. Len(c) :
                     /\ k > 0 => c[k] \notin White
                     /\ \A i \in k + 1 .. Len(c) : c[i] \in White)

ParseJournal(c) ==
    Returns(c, FoldLeft(LAMBDA p, line : IF p.failed THEN p ELSE OnLine(p, line), Start, c))

\* Mutant: the key of 0005, from before body_hash.
SameKey_Narrow(r, e) ==
    r.event_ts = e.header.ts /\ r.author_name = e.header.author

\* ticket_events_idem_key: the context is no part of it.
SameKey(r, e) ==
    r.event_ts = e.header.ts /\ r.author_name = e.header.author /\ r.body = e.body

\* ON CONFLICT DO NOTHING.
InsertEvent(rs, e) ==
    IF \E i \in DOMAIN rs : SameKey(rs[i], e) THEN rs
    ELSE Append(rs, [event_ts |-> e.header.ts, author_name |-> e.header.author,
                     author_context |-> e.header.context, body |-> e.body])

insertEvents(rs, entries) == FoldLeft(InsertEvent, rs, entries)

-----------------------------------------------------------------------------
JournalInit == journal = <<>> /\ ingested = 0 /\ rows = <<>>

\* Someone comments, in the same second as the last entry or later.
WriteEntry ==
    /\ Len(journal) < MaxEntries
    /\ \E e \in Entry :
          /\ journal # <<>> => e.header.ts >= Last(journal).header.ts
          /\ journal' = Append(journal, e)
    /\ UNCHANGED <<ingested, rows>>

\* A run takes in an export made when the journal had n entries.
Ingest ==
    /\ \E n \in 1 .. Len(journal) :
          /\ \E parsed \in ParseJournal(NormaliseLines(Rendered(SubSeq(journal, 1, n)))) :
                /\ parsed.error = "nil"
                /\ rows' = insertEvents(rows, parsed.entries)
          /\ ingested' = IF n > ingested THEN n ELSE ingested
    /\ UNCHANGED journal

JournalNext == WriteEntry \/ Ingest

JournalSpec == JournalInit /\ [][JournalNext]_journalVars

-----------------------------------------------------------------------------
\* The body a reader of the cell sees: blank lines at its end do not count.
Shown(b, i) ==
    LET Drop == IF i = 1 THEN White ELSE {Blank} IN
    SubSeq(b, 1, CHOOSE k \in 0 .. Len(b) :
                     (k > 0 => b[k] \notin Drop) /\ \A l \in k + 1 .. Len(b) : b[l] \in Drop)

\* Row r holds entry i of the journal.  The first entry ends the cell.
Stores(r, i) ==
    /\ r.event_ts = journal[i].header.ts /\ r.author_name = journal[i].header.author
    /\ r.body = Shown(journal[i].body, i)

\* What is stored is the longest snapshot ever ingested, entry by entry: old
\* exports take nothing away, none adds an entry that a longer one had brought
\* before, and rendering, normalising and parsing the cell again at another
\* length yields the same entries.
StoredIsLongest ==
    /\ \A i \in 1 .. ingested : \E r \in DOMAIN rows : Stores(rows[r], i)
    /\ \A r \in DOMAIN rows : \E i \in 1 .. ingested : Stores(rows[r], i)
    /\ \A r, q \in DOMAIN rows : \A i \in 1 .. ingested :
          Stores(rows[r], i) /\ Stores(rows[q], i) => r = q

\* "Journal entries land in the DB ordered ascending by event_ts, regardless of
\* ServiceNow's newest-first source order": over any sequence of exports, as
\* one that comes late adds nothing.
EventsAscending ==
    \A r, q \in DOMAIN rows : r < q => rows[r].event_ts <= rows[q].event_ts

\* ParseJournal sorts "so the writer's insertion order matches chronological
\* order regardless of how ServiceNow rendered the cell".  Of two entries the
\* one written first gets the lower id, also within one second.  The code
\* keeps the cell's newest-first order among the entries of a second.
InsertionChronological ==
    \A i, k \in 1 .. ingested : \A r, q \in DOMAIN rows :
        /\ i < k /\ Stores(rows[r], i) /\ Stores(rows[q], k)
        /\ \A l \in 1 .. i : ~Stores(rows[q], l)
        => r < q
=============================================================================
