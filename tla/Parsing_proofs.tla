--------------------------- MODULE Parsing_proofs ---------------------------
(***************************************************************************)
(* Cells, journals and sheets of any length, in this order: ParseJournal   *)
(* loses, adds and moves nothing; the parts of a business service are      *)
(* those of its cell; a journal that is exported is read back as it was,   *)
(* so that ingesting it again adds what is new; the hash of an export      *)
(* stands for its records.                                                 *)
(*                                                                         *)
(* The invariant of ParseJournal says of the loop what the properties say  *)
(* of its return: the entries so far are those of the headers so far, each *)
(* with the lines below it.                                                *)
(***************************************************************************)
EXTENDS RowParsing, TicketJournal, ExportContent, SequenceTheorems, WellFoundedInduction, TLAPS

USE TimestampAssumption, TextAssumption, NoneAssumption, CellAssumption

\* TrimRight keeps a prefix and takes only empty lines off it.
LEMMA TrimmedBody ==
    ASSUME NEW b \in Seq(Text)
    PROVE  /\ Trimmed(b) \in Seq(Text)
           /\ Len(Trimmed(b)) <= Len(b)
           /\ \A i \in 1 .. Len(Trimmed(b)) : Trimmed(b)[i] = b[i]
           /\ \A i \in Len(Trimmed(b)) + 1 .. Len(b) : b[i] = Blank
           /\ Trimmed(b) # <<>> => Trimmed(b)[Len(Trimmed(b))] # Blank
<1> DEFINE K == {k \in Nat : k <= Len(b) /\ \A i \in k + 1 .. Len(b) : b[i] = Blank}
           P(t) == /\ t # <<>> => t[Len(t)] # Blank
                   /\ \A i \in Len(t) + 1 .. Len(b) : b[i] = Blank
           S == {SubSeq(b, 1, k) : k \in 0 .. Len(b)}
<1>1. \A k \in 0 .. Len(b) : /\ SubSeq(b, 1, k) \in Seq(Text)
                             /\ Len(SubSeq(b, 1, k)) = k
                             /\ \A i \in 1 .. k : SubSeq(b, 1, k)[i] = b[i]
  OBVIOUS
<1>2. PICK k \in K : \A j \in K : ~(<<j, k>> \in OpToRel(<, Nat))
  <2>1. Len(b) \in K
    OBVIOUS
  <2>2. K \subseteq Nat
    OBVIOUS
  <2> HIDE DEF K
  <2>3. QED
    BY <2>1, <2>2, NatLessThanWellFounded, WFMin
<1>3. \A j \in K : ~(j < k)
  BY <1>2 DEF OpToRel
<1>4. k > 0 => b[k] # Blank
  <2> SUFFICES ASSUME k > 0, b[k] = Blank PROVE FALSE
    OBVIOUS
  <2>1. k \in Nat /\ k <= Len(b) /\ \A i \in k + 1 .. Len(b) : b[i] = Blank
    OBVIOUS
  <2>2. k - 1 \in Nat /\ (k - 1) + 1 = k /\ k - 1 <= Len(b) /\ k - 1 < k
    BY <2>1
  <2>3. \A i \in k .. Len(b) : b[i] = Blank
    BY <2>1
  <2>4. k - 1 \in K
    BY <2>2, <2>3
  <2>5. QED
    BY <2>2, <2>4, <1>3
<1>5. SubSeq(b, 1, k) \in S /\ P(SubSeq(b, 1, k))
  BY <1>1, <1>4
<1>6. Trimmed(b) \in S /\ P(Trimmed(b))
  <2>1. Trimmed(b) = CHOOSE t \in S : P(t)
    BY DEF Trimmed
  <2> HIDE DEF S, P
  <2>2. QED
    BY <1>5, <2>1
<1>7. QED
  BY <1>1, <1>6

-----------------------------------------------------------------------------
\* e is the entry of a header of cell c, with all the lines below it up to
\* line m, and what it lacks of them up to the next header is empty.
Holds(c, e, m) ==
    /\ e.at \in HeadersIn(c) /\ e.at <= m
    /\ e.header = c[e.at]
    /\ e.at + Len(e.body) <= m
    /\ \A i \in 1 .. Len(e.body) : e.body[i] = c[e.at + i]
    /\ \A i \in DOMAIN c :
          /\ i > e.at + Len(e.body) /\ \A h \in HeadersIn(c) : ~(e.at < h /\ h <= i)
          => c[i] = Blank

EntriesSoFar(c, p) ==
    /\ \A k \in DOMAIN p.entries : Holds(c, p.entries[k], p.n)
    /\ \A k, l \in DOMAIN p.entries : p.entries[k].at = p.entries[l].at => k = l

Covered(c, p) ==
    \A h \in HeadersIn(c) : h <= p.n =>
        \/ \E k \in DOMAIN p.entries : p.entries[k].at = h
        \/ p.current # None /\ p.current.at = h

OpenEntry(c, p) ==
    IF p.current = None
    THEN p.body = <<>>
    ELSE /\ p.current.at \in HeadersIn(c)
         /\ p.current.at + Len(p.body) = p.n
         /\ p.current.header = c[p.current.at]
         /\ \A i \in 1 .. Len(p.body) : p.body[i] = c[p.current.at + i]
         /\ \A k \in DOMAIN p.entries : p.entries[k].at < p.current.at

NoneImpossible(c, p) == \A h \in HeadersIn(c) : h <= p.n => c[h].ts # Impossible

Loop(c, p) ==
    /\ p.n <= Len(c)
    /\ EntriesSoFar(c, p)
    /\ p.failed => \E h \in HeadersIn(c) : c[h].ts = Impossible
    /\ ~p.failed => OpenEntry(c, p) /\ Covered(c, p) /\ NoneImpossible(c, p)

Correct == EntriesMatchHeaders /\ OnlyPreambleDropped /\ Chronological /\ FailsOnlyWhole

IInv == TypeOK /\ Loop(lines, locals) /\ Correct

-----------------------------------------------------------------------------
\* Flushing turns the open entry into a finished one, provided that the next
\* line, if any, is a header.
LEMMA FlushKeeps ==
    ASSUME NEW c \in Seq(Line), NEW p \in Locals, p.n <= Len(c),
           EntriesSoFar(c, p), OpenEntry(c, p), Covered(c, p),
           p.n < Len(c) => p.n + 1 \in HeadersIn(c)
    PROVE  /\ flush(p) \in Locals
           /\ flush(p).n = p.n /\ flush(p).failed = p.failed
           /\ flush(p).current = None /\ flush(p).body = <<>>
           /\ EntriesSoFar(c, flush(p)) /\ Covered(c, flush(p))
<1>1. CASE p.current = None
  BY <1>1 DEF flush, OpenEntry
<1>2. CASE p.current # None
  <2> DEFINE b == Trimmed(p.body)
             e == [p.current EXCEPT !.body = b]
             s == Append(p.entries, e)
             f == flush(p)
  <2>1. p.body \in Seq(Text) /\ p.current \in JournalEntry /\ p.entries \in Seq(JournalEntry)
        /\ p.n \in Nat
    BY <1>2 DEF Locals
  <2>2. /\ b \in Seq(Text) /\ Len(b) <= Len(p.body)
        /\ \A i \in 1 .. Len(b) : b[i] = p.body[i]
        /\ \A i \in Len(b) + 1 .. Len(p.body) : p.body[i] = Blank
    BY <2>1, TrimmedBody
  <2> HIDE DEF b
  <2>3. /\ e \in JournalEntry /\ e.at = p.current.at /\ e.header = p.current.header
        /\ e.body = b
    BY <2>1, <2>2 DEF JournalEntry
  <2>4. f = [p EXCEPT !.entries = s, !.current = None, !.body = <<>>]
    BY <1>2 DEF flush, b
  <2> HIDE DEF e
  <2>6. /\ Len(s) = Len(p.entries) + 1 /\ s[Len(s)] = e
        /\ \A k \in 1 .. Len(p.entries) : s[k] = p.entries[k]
        /\ s \in Seq(JournalEntry)
    BY <2>1, <2>3
  <2> HIDE DEF s, f
  <2>5. Holds(c, e, p.n)
    <3>1. /\ p.current.at \in HeadersIn(c) /\ p.current.at + Len(p.body) = p.n
          /\ p.current.header = c[p.current.at]
          /\ \A i \in 1 .. Len(p.body) : p.body[i] = c[p.current.at + i]
      BY <1>2 DEF OpenEntry
    <3>3. e.at \in Nat /\ Len(b) \in Nat /\ Len(p.body) \in Nat
      BY <2>1, <2>2, <2>3 DEF JournalEntry
    <3>2. ASSUME NEW i \in DOMAIN c, i > e.at + Len(b),
                 \A h \in HeadersIn(c) : ~(e.at < h /\ h <= i)
          PROVE  c[i] = Blank
      <4>1. i \in 1 .. Len(c) /\ e.at \in Nat
        BY <2>3 DEF JournalEntry
      <4>2. i <= p.n
        <5> SUFFICES ASSUME p.n < i PROVE FALSE
          BY <2>1, <4>1
        <5>1. p.n + 1 \in HeadersIn(c) /\ p.n + 1 <= i
          BY <2>1, <4>1
        <5>2. e.at < p.n + 1
          BY <2>1, <2>3, <3>1, <4>1
        <5>3. QED
          BY <3>2, <5>1, <5>2
      <4>3. i - e.at \in Len(b) + 1 .. Len(p.body)
        <5>1. e.at + Len(p.body) = p.n
          BY <2>3, <3>1
        <5>2. QED
          BY <2>1, <3>2, <3>3, <4>1, <4>2, <5>1
      <4>4. p.body[i - e.at] = c[e.at + (i - e.at)]
        <5>1. \A j \in 1 .. Len(p.body) : p.body[j] = c[e.at + j]
          BY <2>3, <3>1
        <5>2. i - e.at \in 1 .. Len(p.body)
          BY <3>3, <4>1, <4>3
        <5>3. QED
          BY <5>1, <5>2
      <4>5. QED
        BY <2>2, <4>1, <4>3, <4>4
    <3>4. \A i \in 1 .. Len(b) : b[i] = c[e.at + i]
      BY <2>2, <2>3, <3>1, <3>3
    <3>5. e.at <= p.n /\ e.at + Len(b) <= p.n
      BY <2>1, <2>2, <2>3, <3>1, <3>3
    <3>6. QED
      BY <2>3, <3>1, <3>2, <3>4, <3>5 DEF Holds
  <2>7. /\ f.entries = s /\ f.current = None /\ f.body = <<>> /\ f.n = p.n
        /\ f.failed = p.failed /\ f \in Locals
    <3>1. p = [n |-> p.n, current |-> p.current, body |-> p.body, entries |-> p.entries,
               failed |-> p.failed]
      BY DEF Locals
    <3>2. f = [n |-> p.n, current |-> None, body |-> <<>>, entries |-> s,
               failed |-> p.failed]
      BY <2>4, <3>1
    <3>3. QED
      BY <2>1, <2>6, <3>2 DEF Locals
  <2>8. DOMAIN s = 1 .. Len(s) /\ DOMAIN p.entries = 1 .. Len(p.entries)
        /\ Len(p.entries) \in Nat
    BY <2>1, <2>6
  <2>9. EntriesSoFar(c, f)
    <3>1. \A k \in DOMAIN s : Holds(c, s[k], p.n)
      BY <2>5, <2>6, <2>8 DEF EntriesSoFar
    <3>2. \A k \in 1 .. Len(p.entries) : p.entries[k].at < e.at /\ p.entries[k].at \in Nat
      <4>1. \A k \in 1 .. Len(p.entries) : p.entries[k] \in JournalEntry
        BY <2>1
      <4>2. \A k \in 1 .. Len(p.entries) : p.entries[k].at \in Nat
        BY <4>1 DEF JournalEntry
      <4>3. \A k \in 1 .. Len(p.entries) : p.entries[k].at < e.at
        BY <1>2, <2>3, <2>8 DEF OpenEntry
      <4>4. QED
        BY <4>2, <4>3
    <3>3. \A k, l \in DOMAIN s : s[k].at = s[l].at => k = l
      <4>1. \A k \in 1 .. Len(p.entries) : s[k].at < s[Len(s)].at /\ s[k].at \in Nat
        BY <2>6, <3>2
      <4>2. \A k, l \in 1 .. Len(p.entries) : s[k].at = s[l].at => k = l
        BY <2>6, <2>8 DEF EntriesSoFar
      <4>3. s[Len(s)].at \in Nat
        BY <2>3, <2>6 DEF JournalEntry
      <4>4. \A k \in DOMAIN s : k \in 1 .. Len(p.entries) \/ k = Len(s)
        BY <2>6, <2>8
      <4>5. QED
        BY <4>1, <4>2, <4>3, <4>4
    <3>4. QED
      BY <2>7, <3>1, <3>3 DEF EntriesSoFar
  <2>10. Covered(c, f)
    <3> SUFFICES ASSUME NEW h \in HeadersIn(c), h <= p.n
                 PROVE  \E k \in DOMAIN s : s[k].at = h
      BY <2>7 DEF Covered
    <3>1. CASE \E k \in DOMAIN p.entries : p.entries[k].at = h
      BY <3>1, <2>6, <2>8
    <3>2. CASE p.current.at = h
      BY <3>2, <2>3, <2>6, <2>8
    <3>3. QED
      BY <3>1, <3>2 DEF Covered
  <2>11. QED
    BY <2>7, <2>9, <2>10 DEF f
<1>3. QED
  BY <1>1, <1>2

\* Reading on does not change what a finished entry holds.
LEMMA HoldsOn ==
    ASSUME NEW c, NEW e \in JournalEntry, NEW n \in Nat, NEW m \in Nat, n <= m, Holds(c, e, n)
    PROVE  Holds(c, e, m) /\ e.at <= n
<1>1. e.at \in Nat /\ e.body \in Seq(Text)
  BY DEF JournalEntry
<1>2. Len(e.body) \in Nat
  BY <1>1
<1>3. e.at <= m /\ e.at + Len(e.body) <= m
  <2>1. e.at <= n /\ e.at + Len(e.body) <= n
    BY DEF Holds
  <2>2. QED
    BY <1>1, <1>2, <2>1
<1>4. QED
  BY <1>3 DEF Holds

\* A header closes the open entry and opens its own, or fails the parse.
LEMMA HeaderStep ==
    ASSUME NEW c \in Seq(Line), NEW p \in Locals, p.n < Len(c), ~p.failed, Loop(c, p),
           c[p.n + 1] \in Header
    PROVE  OnHeader(p, c[p.n + 1]) \in Locals /\ Loop(c, OnHeader(p, c[p.n + 1]))
<1> DEFINE m == p.n + 1
           h == c[m]
           f == flush(p)
           e == [at |-> m, header |-> h, body |-> <<>>]
           q == OnHeader(p, h)
<1>1. p.n \in Nat /\ m \in Nat /\ m \in 1 .. Len(c) /\ m \in HeadersIn(c)
  BY DEF Locals, HeadersIn
<1>2. /\ f \in Locals /\ f.n = p.n /\ ~f.failed /\ f.current = None /\ f.body = <<>>
      /\ EntriesSoFar(c, f) /\ Covered(c, f)
  BY <1>1, FlushKeeps DEF Loop
<1> HIDE DEF f
<1>3. f.entries \in Seq(JournalEntry)
  BY <1>2 DEF Locals
<1>4. \A k \in DOMAIN f.entries : Holds(c, f.entries[k], m) /\ f.entries[k].at < m
  <2> TAKE k \in DOMAIN f.entries
  <2>1. Holds(c, f.entries[k], p.n)
    BY <1>2 DEF EntriesSoFar
  <2>2. f.entries[k] \in JournalEntry
    BY <1>3
  <2>3. Holds(c, f.entries[k], m) /\ f.entries[k].at <= p.n
    BY <1>1, <2>1, <2>2, HoldsOn
  <2>4. f.entries[k].at \in Nat
    BY <2>2 DEF JournalEntry
  <2>5. QED
    BY <1>1, <2>3, <2>4
<1>5. CASE h.ts = Impossible
  <2>1. q = [f EXCEPT !.n = m, !.failed = TRUE]
    BY <1>5 DEF OnHeader, f
  <2>2. /\ q.n = m /\ q.current = None /\ q.body = <<>> /\ q.entries = f.entries /\ q.failed
        /\ q \in Locals
    <3> HIDE DEF m, q
    <3>1. QED
      BY <1>1, <1>2, <2>1 DEF Locals
  <2>3. EntriesSoFar(c, q)
    BY <1>2, <1>4, <2>2 DEF EntriesSoFar
  <2>4. QED
    BY <1>1, <1>5, <2>2, <2>3 DEF Loop
<1>6. CASE h.ts # Impossible
  <2>1. q = [f EXCEPT !.n = m, !.current = e]
    BY <1>6 DEF OnHeader, f
  <2>2. e \in JournalEntry /\ e # None
    <3>1. h \in [ts: Timestamp, author: Author, context: Context]
      BY <1>6 DEF Header
    <3>2. <<>> \in Seq(Text)
      OBVIOUS
    <3>3. e \in JournalEntry
      BY <1>1, <3>1, <3>2 DEF JournalEntry
    <3>4. QED
      BY <3>3
  <2> HIDE DEF e
  <2>3. /\ q.n = m /\ q.current = e /\ q.body = <<>> /\ q.entries = f.entries /\ ~q.failed
        /\ q \in Locals
    <3> HIDE DEF m, q
    <3>1. QED
      BY <1>1, <1>2, <2>1, <2>2 DEF Locals
  <2>4. EntriesSoFar(c, q)
    BY <1>2, <1>4, <2>3 DEF EntriesSoFar
  <2>5. OpenEntry(c, q)
    BY <1>1, <1>4, <2>2, <2>3 DEF OpenEntry, e
  <2>6. Covered(c, q)
    <3> SUFFICES ASSUME NEW i \in HeadersIn(c), i <= m
                 PROVE  (\E k \in DOMAIN f.entries : f.entries[k].at = i) \/ i = m
      BY <2>2, <2>3 DEF Covered, e
    <3>1. i <= p.n \/ i = m
      BY <1>1 DEF HeadersIn
    <3>2. QED
      BY <1>2, <3>1 DEF Covered
  <2>7. NoneImpossible(c, q)
    <3> SUFFICES ASSUME NEW i \in HeadersIn(c), i <= m PROVE c[i].ts # Impossible
      BY <2>3 DEF NoneImpossible
    <3>1. i <= p.n \/ i = m
      BY <1>1 DEF HeadersIn
    <3>2. QED
      BY <1>6, <3>1 DEF Loop, NoneImpossible
  <2>8. QED
    BY <1>1, <2>3, <2>4, <2>5, <2>6, <2>7 DEF Loop
<1>7. QED
  BY <1>5, <1>6

\* Any other line goes to the open entry, or is dropped when there is none.
LEMMA TextStep ==
    ASSUME NEW c \in Seq(Line), NEW p \in Locals, p.n < Len(c), ~p.failed, Loop(c, p),
           c[p.n + 1] \notin Header
    PROVE  OnText(p, c[p.n + 1]) \in Locals /\ Loop(c, OnText(p, c[p.n + 1]))
<1> DEFINE m == p.n + 1
           t == c[m]
           q == OnText(p, t)
           b == IF p.current = None THEN p.body ELSE Append(p.body, t)
<1>1. p.n \in Nat /\ m \in Nat /\ m \in 1 .. Len(c) /\ m \notin HeadersIn(c) /\ t \in Text
  BY DEF Locals, HeadersIn, Line
<1>2. /\ p.body \in Seq(Text) /\ p.entries \in Seq(JournalEntry)
      /\ p.current \in JournalEntry \cup {None}
  BY DEF Locals
<1>3. b \in Seq(Text)
  BY <1>1, <1>2
<1>4. q = IF p.current = None THEN [p EXCEPT !.n = m] ELSE [p EXCEPT !.n = m, !.body = b]
  BY DEF OnText
<1>5. /\ q.n = m /\ q.current = p.current /\ q.body = b /\ q.entries = p.entries /\ ~q.failed
      /\ q \in Locals
  <2>1. CASE p.current = None
    <3> HIDE DEF m, q
    <3>1. QED
      BY <1>1, <1>4, <2>1 DEF Locals
  <2>2. CASE p.current # None
    <3> HIDE DEF m, b, q
    <3>1. QED
      BY <1>1, <1>3, <1>4, <2>2 DEF Locals
  <2>3. QED
    BY <2>1, <2>2
<1>6. EntriesSoFar(c, q)
  <2>1. ASSUME NEW k \in DOMAIN p.entries PROVE Holds(c, p.entries[k], m)
    <3>1. Holds(c, p.entries[k], p.n)
      BY DEF Loop, EntriesSoFar
    <3>2. p.entries[k] \in JournalEntry
      BY <1>2
    <3>3. QED
      BY <1>1, <3>1, <3>2, HoldsOn
  <2>2. QED
    BY <1>5, <2>1 DEF Loop, EntriesSoFar
<1>7. OpenEntry(c, q)
  <2>1. CASE p.current = None
    BY <1>5, <2>1 DEF Loop, OpenEntry
  <2>2. CASE p.current # None
    <3> DEFINE a == p.current.at
    <3>1. /\ a \in HeadersIn(c) /\ a + Len(p.body) = p.n /\ p.current.header = c[a]
          /\ \A i \in 1 .. Len(p.body) : p.body[i] = c[a + i]
          /\ \A k \in DOMAIN p.entries : p.entries[k].at < a
      BY <2>2 DEF Loop, OpenEntry
    <3>2. a \in Nat
      BY <1>2, <2>2 DEF JournalEntry
    <3> HIDE DEF a
    <3>3. /\ b = Append(p.body, t) /\ Len(b) = Len(p.body) + 1 /\ b[Len(b)] = t
          /\ \A i \in 1 .. Len(p.body) : b[i] = p.body[i]
      BY <1>1, <1>2, <2>2
    <3> HIDE DEF b
    <3>4. Len(p.body) \in Nat
      BY <1>2
    <3>5. a + Len(b) = m
      BY <1>1, <3>1, <3>2, <3>3, <3>4
    <3>6. \A i \in 1 .. Len(b) : b[i] = c[a + i]
      <4> TAKE i \in 1 .. Len(b)
      <4>1. i \in 1 .. Len(p.body) \/ i = Len(b)
        BY <3>3, <3>4
      <4>2. QED
        BY <3>1, <3>3, <3>5, <4>1
    <3>7. QED
      BY <1>5, <2>2, <3>1, <3>5, <3>6 DEF OpenEntry, a
  <2>3. QED
    BY <2>1, <2>2
<1>8. \A i \in HeadersIn(c) : i <= m => i <= p.n
  BY <1>1 DEF HeadersIn
<1>9. Covered(c, q) /\ NoneImpossible(c, q)
  BY <1>5, <1>8 DEF Loop, Covered, NoneImpossible
<1>10. QED
  BY <1>1, <1>5, <1>6, <1>7, <1>9 DEF Loop

-----------------------------------------------------------------------------
Permutes(s, t) ==
    \E q \in [DOMAIN s -> DOMAIN s] :
        /\ \A i, j \in DOMAIN s : q[i] = q[j] => i = j
        /\ \A j \in DOMAIN s : \E i \in DOMAIN s : q[i] = j
        /\ t = [i \in DOMAIN s |-> s[q[i]]]

\* Sorting only permutes, and leaves no later time before an earlier one.
LEMMA SortedPermutes ==
    ASSUME NEW s \in Seq(JournalEntry), NEW t \in sorted(s)
    PROVE  /\ t \in Seq(JournalEntry)
           /\ Permutes(s, t)
           /\ \A i, j \in DOMAIN t : i < j => t[i].header.ts <= t[j].header.ts
<1> DEFINE D == DOMAIN s
<1>1. D = 1 .. Len(s) /\ Len(s) \in Nat
  OBVIOUS
<1>2. PICK q \in Bijection(D, D) :
         /\ t = [i \in D |-> s[q[i]]]
         /\ \A i, j \in D : i < j => s[q[i]].header.ts < s[q[j]].header.ts
                                     \/ s[q[i]].header.ts = s[q[j]].header.ts
  BY DEF sorted
<1>3. q \in [D -> D] /\ (\A i, j \in D : q[i] = q[j] => i = j)
      /\ \A j \in D : \E i \in D : q[i] = j
  BY <1>2 DEF Bijection, Injection, Surjection, IsInjective
<1>4. \A i \in D : s[q[i]] \in JournalEntry
  BY <1>3
<1>5. \A i \in D : s[q[i]].header.ts \in Int
  BY <1>4 DEF JournalEntry
<1>6. t \in Seq(JournalEntry) /\ DOMAIN t = D
  BY <1>1, <1>2, <1>4
<1>7. \A i, j \in D : i < j => t[i].header.ts <= t[j].header.ts
  <2> SUFFICES ASSUME NEW i \in D, NEW j \in D, i < j
               PROVE  t[i].header.ts <= t[j].header.ts
    OBVIOUS
  <2>1. t[i] = s[q[i]] /\ t[j] = s[q[j]]
    BY <1>2
  <2>2. s[q[i]].header.ts < s[q[j]].header.ts \/ s[q[i]].header.ts = s[q[j]].header.ts
    BY <1>2
  <2> DEFINE a == s[q[i]].header.ts
             b == s[q[j]].header.ts
  <2>3. a \in Int /\ b \in Int
    BY <1>5
  <2> HIDE DEF a, b
  <2>4. a < b \/ a = b => a <= b
    BY <2>3
  <2>5. QED
    BY <2>1, <2>2, <2>4 DEF a, b
<1>8. Permutes(s, t)
  BY <1>2, <1>3 DEF Permutes
<1>9. QED
  BY <1>6, <1>7, <1>8

\* A call of ParseJournal, of any cell.
LEMMA InitInv == lines \in Seq(Line) /\ Called => IInv
<1> SUFFICES ASSUME lines \in Seq(Line), Called PROVE IInv
  OBVIOUS
<1>1. lines \in Seq(Line) /\ locals = Start /\ result = None
  BY DEF Called
<1>2. Start \in Locals
  BY DEF Start, Locals
<1>3. Loop(lines, Start)
  <2>1. \A h \in HeadersIn(lines) : ~(h <= 0)
    BY <1>1 DEF HeadersIn
  <2>2. QED
    BY <1>1, <2>1 DEF Loop, Start, EntriesSoFar, OpenEntry, Covered, NoneImpossible
<1>4. QED
  BY <1>1, <1>2, <1>3 DEF IInv, TypeOK, Correct, EntriesMatchHeaders, OnlyPreambleDropped,
     Chronological, FailsOnlyWhole, Parsed

LEMMA ReadLineInv == IInv /\ ReadLine => IInv'
<1> SUFFICES ASSUME IInv, ReadLine PROVE IInv'
  OBVIOUS
<1>1. /\ lines \in Seq(Line) /\ locals \in Locals /\ Loop(lines, locals)
      /\ ~locals.failed /\ locals.n < Len(lines)
      /\ lines' = lines /\ result' = result
  BY DEF IInv, TypeOK, ReadLine
<1>2. locals' \in Locals /\ Loop(lines, locals')
  <2>1. locals' = OnLine(locals, lines[locals.n + 1])
    BY DEF ReadLine
  <2>2. CASE lines[locals.n + 1] \in Header
    BY <1>1, <2>1, <2>2, HeaderStep DEF OnLine
  <2>3. CASE lines[locals.n + 1] \notin Header
    BY <1>1, <2>1, <2>3, TextStep DEF OnLine
  <2>4. QED
    BY <2>2, <2>3
<1>3. Correct'
  BY <1>1 DEF IInv, Correct, EntriesMatchHeaders, OnlyPreambleDropped, Chronological,
     FailsOnlyWhole, Parsed
<1>4. QED
  BY <1>1, <1>2, <1>3 DEF IInv, TypeOK

LEMMA ReturnInv == IInv /\ Return => IInv'
<1> SUFFICES ASSUME IInv, Return PROVE IInv'
  OBVIOUS
<1> DEFINE f == flush(locals)
           Ret == [error: {"nil", "timestamp", "ErrMalformedJournal"}, entries: Seq(JournalEntry)]
<1>1. /\ lines \in Seq(Line) /\ locals \in Locals /\ Loop(lines, locals)
      /\ lines' = lines /\ locals' = locals
      /\ result' \in Returns(lines, locals)
      /\ IsBlank(lines) \/ locals.failed \/ locals.n = Len(lines)
  BY DEF IInv, TypeOK, Return
<1>2. CASE IsBlank(lines)
  <2>1. result' = Error("nil")
    BY <1>1, <1>2 DEF Returns
  <2>2. HeadersIn(lines) = {}
    BY <1>2 DEF IsBlank, HeadersIn
  <2>3. QED
    BY <1>1, <1>2, <2>1, <2>2 DEF IInv, TypeOK, Correct, EntriesMatchHeaders,
       OnlyPreambleDropped, Chronological, FailsOnlyWhole, Parsed, Error
<1>3. CASE ~IsBlank(lines) /\ locals.failed
  <2>1. result' = Error("timestamp")
    BY <1>1, <1>3 DEF Returns
  <2>2. \E h \in HeadersIn(lines) : lines[h].ts = Impossible
    BY <1>1, <1>3 DEF Loop
  <2>3. QED
    BY <1>1, <2>1, <2>2 DEF IInv, TypeOK, Correct, EntriesMatchHeaders,
       OnlyPreambleDropped, Chronological, FailsOnlyWhole, Parsed, Error
<1>4. CASE ~IsBlank(lines) /\ ~locals.failed
  <2>1. locals.n = Len(lines) /\ OpenEntry(lines, locals) /\ Covered(lines, locals)
        /\ EntriesSoFar(lines, locals) /\ NoneImpossible(lines, locals)
    BY <1>1, <1>4 DEF Loop
  <2>2. ~(locals.n < Len(lines)) /\ locals.n <= Len(lines)
    BY <1>1, <2>1
  <2>3. /\ f \in Locals /\ f.n = Len(lines) /\ f.current = None
        /\ EntriesSoFar(lines, f) /\ Covered(lines, f)
    BY <1>1, <2>1, <2>2, FlushKeeps
  <2> HIDE DEF f
  <2>4. \A h \in HeadersIn(lines) : h <= Len(lines) /\ lines[h].ts # Impossible
    BY <1>1, <2>1 DEF HeadersIn, NoneImpossible
  <2>5. \A h \in HeadersIn(lines) : \E k \in DOMAIN f.entries : f.entries[k].at = h
    BY <2>3, <2>4 DEF Covered
  <2>6. f.entries \in Seq(JournalEntry)
    BY <2>3 DEF Locals
  <2>7. CASE f.entries = <<>>
    <3>1. result' = Error("ErrMalformedJournal")
      BY <1>1, <1>4, <2>7 DEF Returns, f
    <3>2. HeadersIn(lines) = {}
      BY <2>5, <2>7
    <3>3. QED
      BY <1>1, <1>4, <3>1, <3>2 DEF IInv, TypeOK, Correct, EntriesMatchHeaders,
         OnlyPreambleDropped, Chronological, FailsOnlyWhole, Parsed, Error, IsBlank
  <2>8. CASE f.entries # <<>>
    <3>1. PICK t \in sorted(f.entries) : result' = [error |-> "nil", entries |-> t]
      BY <1>1, <1>4, <2>8 DEF Returns, f
    <3>2. PICK q \in [DOMAIN f.entries -> DOMAIN f.entries] :
             /\ \A i, j \in DOMAIN f.entries : q[i] = q[j] => i = j
             /\ \A j \in DOMAIN f.entries : \E i \in DOMAIN f.entries : q[i] = j
             /\ t = [i \in DOMAIN f.entries |-> f.entries[q[i]]]
      <4>1. Permutes(f.entries, t)
        BY <2>6, SortedPermutes
      <4>2. QED
        BY <4>1 DEF Permutes
    <3>3. t \in Seq(JournalEntry)
          /\ \A i, j \in DOMAIN t : i < j => t[i].header.ts <= t[j].header.ts
      BY <2>6, SortedPermutes
    <3>4. DOMAIN t = DOMAIN f.entries /\ \A k \in DOMAIN t : t[k] = f.entries[q[k]]
      BY <3>2
    <3>5. TypeOK'
      BY <1>1, <3>1, <3>3 DEF TypeOK
    <3>6. EntriesMatchHeaders'
      <4>1. \A k \in DOMAIN t : Holds(lines, t[k], Len(lines))
        BY <2>3, <3>2, <3>4 DEF EntriesSoFar
      <4>2. \A h \in HeadersIn(lines) : \E k \in DOMAIN t : t[k].at = h
        BY <2>5, <3>2, <3>4
      <4>3. \A k, l \in DOMAIN t : t[k].at = t[l].at => k = l
        BY <2>3, <3>2, <3>4 DEF EntriesSoFar
      <4>4. QED
        BY <1>1, <3>1, <4>1, <4>2, <4>3 DEF EntriesMatchHeaders, Holds
    <3>7. OnlyPreambleDropped'
      <4>1. ASSUME NEW k \in DOMAIN t
            PROVE  /\ \A i \in DOMAIN t[k].body :
                         t[k].at + i \in DOMAIN lines /\ t[k].body[i] = lines[t[k].at + i]
                   /\ \A i \in DOMAIN lines :
                         /\ i > t[k].at + Len(t[k].body)
                         /\ \A h \in HeadersIn(lines) : ~(t[k].at < h /\ h <= i)
                         => lines[i] = Blank
        <5>1. Holds(lines, t[k], Len(lines))
          BY <2>3, <3>2, <3>4 DEF EntriesSoFar
        <5>2. t[k] \in JournalEntry
          BY <3>3
        <5>3. t[k].at \in Nat /\ t[k].body \in Seq(Text)
          BY <5>2 DEF JournalEntry
        <5>4. Len(t[k].body) \in Nat /\ DOMAIN t[k].body = 1 .. Len(t[k].body)
              /\ DOMAIN lines = 1 .. Len(lines) /\ Len(lines) \in Nat
          BY <1>1, <5>3
        <5>5. t[k].at + Len(t[k].body) <= Len(lines)
          BY <5>1 DEF Holds
        <5>6. \A i \in 1 .. Len(t[k].body) : t[k].at + i \in 1 .. Len(lines)
          BY <5>3, <5>4, <5>5
        <5>7. QED
          BY <5>1, <5>4, <5>6 DEF Holds
      <4>2. QED
        BY <1>1, <3>1, <4>1 DEF OnlyPreambleDropped
    <3>8. Chronological' /\ FailsOnlyWhole'
      BY <1>1, <2>4, <3>1, <3>3 DEF Chronological, FailsOnlyWhole
    <3>9. QED
      BY <1>1, <3>5, <3>6, <3>7, <3>8 DEF IInv, Correct
  <2>9. QED
    BY <2>7, <2>8
<1>5. QED
  BY <1>2, <1>3, <1>4

\* No line and no return breaks it.
LEMMA NextInv == IInv /\ [Next]_vars => IInv'
<1>1. IInv /\ UNCHANGED vars => IInv'
  BY DEF vars, IInv, TypeOK, Correct, EntriesMatchHeaders, OnlyPreambleDropped,
     Chronological, FailsOnlyWhole, Parsed
<1>2. QED
  BY <1>1, ReadLineInv, ReturnInv DEF Next

\* Whatever the cell, every header becomes one entry with the lines below it,
\* only a preamble is dropped, the entries are in order of time, and an error
\* is returned for the whole cell or not at all.
THEOREM ParseCorrect ==
    Spec => [](TypeOK /\ EntriesMatchHeaders /\ OnlyPreambleDropped /\ Chronological
               /\ FailsOnlyWhole)
<1>1. Init => IInv
  BY InitInv DEF Init
<1>2. IInv => TypeOK /\ EntriesMatchHeaders /\ OnlyPreambleDropped /\ Chronological
              /\ FailsOnlyWhole
  BY DEF IInv, Correct
<1>3. QED
  BY NextInv, <1>1, <1>2, PTL DEF Spec

\* Every variable keeps its type.
THEOREM TypeCorrect == Spec => []TypeOK
BY ParseCorrect, PTL

\* One entry per header, whatever the cell.
THEOREM EntriesCorrect == Spec => []EntriesMatchHeaders
BY ParseCorrect, PTL

\* No line below a header is lost, whatever the cell.
THEOREM NothingElseDropped == Spec => []OnlyPreambleDropped
BY ParseCorrect, PTL

\* The entries come back in order of time, whatever the cell's order.
THEOREM OrderCorrect == Spec => []Chronological
BY ParseCorrect, PTL

\* A header that cannot be read fails the whole cell, and nothing else does.
THEOREM FailureCorrect == Spec => []FailsOnlyWhole
BY ParseCorrect, PTL

-----------------------------------------------------------------------------
(* The business service, and MapRow. *)

\* The last hyphen of a token, or 0: LastHyphen is a maximum over what is never
\* empty, and of the places the token has.
LEMMA LastHyphenIs ==
    ASSUME NEW t \in Seq(STRING)
    PROVE  /\ LastHyphen(t) \in 0 .. Len(t)
           /\ LastHyphen(t) # 0 => t[LastHyphen(t)] = "-"
           /\ \A i \in LastHyphen(t) + 1 .. Len(t) : t[i] # "-"
<1> DEFINE H == {0} \cup {k \in DOMAIN t : t[k] = "-"}
           K == {k \in Nat : k <= Len(t) /\ \A i \in k + 1 .. Len(t) : t[i] # "-"}
<1>1. Len(t) \in Nat /\ DOMAIN t = 1 .. Len(t) /\ Len(t) \in K /\ K \subseteq Nat
  OBVIOUS
<1>2. PICK k \in K : \A j \in K : ~(<<j, k>> \in OpToRel(<, Nat))
  <2> HIDE DEF K
  <2>1. QED
    BY <1>1, NatLessThanWellFounded, WFMin
<1>3. \A j \in K : ~(j < k)
  BY <1>2 DEF OpToRel
<1>4. k \in Nat /\ k <= Len(t) /\ \A i \in k + 1 .. Len(t) : t[i] # "-"
  OBVIOUS
<1>5. k > 0 => t[k] = "-"
  <2> SUFFICES ASSUME k > 0, t[k] # "-" PROVE FALSE
    OBVIOUS
  <2>1. k - 1 \in Nat /\ (k - 1) + 1 = k /\ k - 1 <= Len(t) /\ k - 1 < k
    BY <1>1, <1>4
  <2>2. \A i \in k .. Len(t) : t[i] # "-"
    BY <1>4
  <2>3. k - 1 \in K
    BY <2>1, <2>2
  <2>4. QED
    BY <1>3, <2>1, <2>3
<1>6. k \in H /\ \A h \in H : h \in Int /\ k >= h
  BY <1>1, <1>4, <1>5
<1>7. \A x \in H : (\A h \in H : x >= h) => x = k
  BY <1>6
<1>8. LastHyphen(t) = k
  <2>1. LastHyphen(t) = Max(H)
    BY DEF LastHyphen
  <2> HIDE DEF H
  <2>2. QED
    BY <1>6, <1>7, <2>1 DEF Max
<1>9. QED
  BY <1>1, <1>4, <1>5, <1>8

\* The locals of ParseBusinessService: the loop starts at the second field.
ServiceOK ==
    /\ tokens \in Seq(Seq(STRING))
    /\ token \in Nat /\ token >= 2
    /\ PartsOfTheCell

\* What is left of the fields.
LEMMA RestIs ==
    ASSUME NEW s \in Seq(Seq(STRING)), NEW from \in Nat \ {0}
    PROVE  (IF Rest(s, from) = Nil THEN <<>> ELSE Rest(s, from)) = SubSeq(s, from, Len(s))
<1> DEFINE T == Seq(STRING)
           n == Len(s)
           r == SubSeq(s, from, n)
<1>1. s \in Seq(T) /\ n \in Int /\ from \in Int /\ Nil \notin Seq(T)
  BY NilAssumption
<1>2. \A i \in from .. n : s[i] \in T
  <2> HIDE DEF T
  <2>1. QED
    BY <1>1
<1> HIDE DEF T, n
<1>3. CASE from > n
  <2>1. r = <<>>
    BY <1>1, <1>3, SubSeqEmpty
  <2>2. Rest(s, from) = Nil
    BY <1>3 DEF Rest, n
  <2>3. QED
    BY <2>1, <2>2 DEF n
<1>4. CASE ~(from > n)
  <2>1. r \in Seq(T)
    BY <1>1, <1>2, SubSeqProperties
  <2>2. Rest(s, from) = r
    BY <1>4 DEF Rest, n
  <2> HIDE DEF r
  <2>3. Rest(s, from) = r /\ Rest(s, from) # Nil
    BY <1>1, <2>1, <2>2
  <2>4. QED
    BY <2>3 DEF n, r
<1>5. QED
  BY <1>3, <1>4

\* A sequence is what comes before a place, what is there, and what comes after.
LEMMA CutAt ==
    ASSUME NEW T, NEW t \in Seq(T), NEW k \in Nat, k > 1, k < Len(t)
    PROVE  /\ SubSeq(t, 1, k - 1) \in Seq(T) /\ Len(SubSeq(t, 1, k - 1)) = k - 1
           /\ SubSeq(t, k + 1, Len(t)) \in Seq(T) /\ Len(SubSeq(t, k + 1, Len(t))) = Len(t) - k
           /\ \A i \in 1 .. Len(t) - k : SubSeq(t, k + 1, Len(t))[i] = t[k + i]
           /\ SubSeq(t, 1, k - 1) \o <<t[k]>> \o SubSeq(t, k + 1, Len(t)) = t
<1> DEFINE n == Len(t)
           a == SubSeq(t, 1, k - 1)
           b == SubSeq(t, k + 1, n)
<1>1. n \in Nat /\ \A i \in 1 .. n : t[i] \in T
  OBVIOUS
<1>2. a \in Seq(T) /\ Len(a) = k - 1
  <2>1. k - 1 \in Int /\ 1 <= k - 1 /\ \A i \in 1 .. k - 1 : t[i] \in T
    BY <1>1
  <2>2. a \in Seq(T) /\ Len(a) = IF 1 <= k - 1 THEN k - 1 - 1 + 1 ELSE 0
    BY <2>1, SubSeqProperties
  <2>3. QED
    BY <2>1, <2>2
<1>3. b \in Seq(T) /\ Len(b) = n - k /\ \A i \in 1 .. n - k : b[i] = t[k + i]
  <2> DEFINE m == k + 1
  <2>1. m \in Int /\ n \in Int /\ m <= n /\ \A i \in m .. n : t[i] \in T
    BY <1>1
  <2> HIDE DEF n, m
  <2>2. SubSeq(t, m, n) \in Seq(T) /\ Len(SubSeq(t, m, n)) = (IF m <= n THEN n - m + 1 ELSE 0)
        /\ \A i \in 1 .. n - m + 1 : SubSeq(t, m, n)[i] = t[m + i - 1]
    BY <2>1, SubSeqProperties
  <2> HIDE DEF b
  <2>3. b = SubSeq(t, m, n)
    BY DEF b, m
  <2>4. n - m + 1 = n - k /\ \A i \in 1 .. n - k : m + i - 1 = k + i
    BY <1>1 DEF m
  <2>5. QED
    BY <2>1, <2>2, <2>3, <2>4
<1>4. a \o <<t[k]>> = SubSeq(t, 1, k)
  BY <1>1, SubSeqRecursiveSecond
<1>5. SubSeq(t, 1, k) \o b = SubSeq(t, 1, n)
  <2>1. 1 \in 1 .. Len(t) + 1 /\ k \in 1 - 1 .. Len(t) /\ n \in k .. Len(t)
    BY <1>1
  <2> HIDE DEF n
  <2>2. QED
    BY <2>1, ConcatAdjacentSubSeq DEF n
<1>6. SubSeq(t, 1, n) = t
  BY SubSeqFull
<1>7. a \o <<t[k]>> \o b = t
  <2> HIDE DEF a, b, n
  <2>1. QED
    BY <1>4, <1>5, <1>6
<1>8. QED
  BY <1>2, <1>3, <1>7

\* The token that splits becomes the client and the country, what follows the product.
LEMMA ClientKeeps ==
    ASSUME ServiceOK, Client PROVE ServiceOK'
<1> DEFINE t == tokens[token]
           k == SplitAt(t)
           N == Len(tokens)
           name == SubSeq(t, 1, k - 1)
           code == SubSeq(t, k + 1, Len(t))
           product == IF bs'.Product = Nil THEN <<>> ELSE bs'.Product
           tail == <<name \o <<"-">> \o code>> \o product
<1>1. /\ tokens \in Seq(Seq(STRING)) /\ token \in Nat /\ token >= 2 /\ token <= N
      /\ t \in Seq(STRING) /\ UNCHANGED <<tokens, token>>
  BY DEF ServiceOK, Client
<1>2. /\ bs'.Platform = tokens[1] /\ bs'.ClientName = name /\ bs'.CountryCode = code
      /\ bs'.Product = Rest(tokens, token + 1)
  BY DEF Client
<1>3. /\ k \in Nat /\ k > 1 /\ k < Len(t) /\ t[k] = "-"
      /\ \A i \in k + 1 .. Len(t) : t[i] # "-"
  <2>1. k > 1 /\ k < Len(t)
    BY DEF Client, Splits
  <2>2. QED
    BY <1>1, <2>1, LastHyphenIs DEF SplitAt
<1> HIDE DEF k, t
<1>4. /\ name \in Seq(STRING) /\ Len(name) = k - 1
      /\ code \in Seq(STRING) /\ Len(code) = Len(t) - k
      /\ \A i \in 1 .. Len(t) - k : code[i] = t[k + i]
      /\ name \o <<t[k]>> \o code = t
  BY <1>1, <1>3, CutAt
<1> HIDE DEF name, code
<1>5. name \o <<"-">> \o code = t
  BY <1>3, <1>4
<1>6. product = SubSeq(tokens, token + 1, N)
  <2>1. token + 1 \in Nat \ {0}
    BY <1>1
  <2>2. (IF Rest(tokens, token + 1) = Nil THEN <<>> ELSE Rest(tokens, token + 1))
            = SubSeq(tokens, token + 1, N)
    BY <1>1, <2>1, RestIs
  <2>3. QED
    BY <1>2, <2>2
<1>7. tail = SubSeq(tokens, token, N)
  <2> DEFINE T == Seq(STRING)
  <2>1. tokens \in Seq(T) /\ token \in 1 .. Len(tokens) /\ N \in token .. Len(tokens)
    BY <1>1
  <2> HIDE DEF T
  <2>2. SubSeq(tokens, token, N) = <<tokens[token]>> \o SubSeq(tokens, token + 1, N)
    BY <2>1, SubSeqRecursiveFirst
  <2>3. QED
    BY <1>5, <1>6, <2>2 DEF t
<1>8. Len(tail) = N - token + 1
  BY <1>1, <1>7
<1>9. name # Nil /\ code # Nil /\ name # <<>> /\ code # <<>>
  BY <1>3, <1>4, NilAssumption
<1>10. \A i \in DOMAIN code : code[i] # "-"
  <2> SUFFICES ASSUME NEW i \in DOMAIN code PROVE code[i] # "-"
    OBVIOUS
  <2>1. i \in 1 .. Len(t) - k /\ Len(t) \in Nat
    BY <1>1, <1>4
  <2>2. code[i] = t[k + i] /\ k + i \in k + 1 .. Len(t)
    BY <1>3, <1>4, <2>1
  <2>3. QED
    BY <1>3, <2>2
<1> HIDE DEF tail, N
<1>11. Len(tail) < N /\ tail = SubSeq(tokens, N - Len(tail) + 1, N)
  <2>1. N \in Nat
    BY <1>1 DEF N
  <2>2. Len(tail) < N /\ N - Len(tail) + 1 = token
    BY <1>1, <1>8, <2>1
  <2>3. QED
    BY <1>7, <2>2
<1>12. PartsOfTheCell'
  BY <1>1, <1>2, <1>9, <1>10, <1>11 DEF PartsOfTheCell, tail, N
<1>13. QED
  BY <1>1, <1>12 DEF ServiceOK

\* With no such token all that follows the platform is the product.
LEMMA InternalKeeps ==
    ASSUME ServiceOK, Internal PROVE ServiceOK'
<1> DEFINE N == Len(tokens)
           product == IF bs'.Product = Nil THEN <<>> ELSE bs'.Product
<1>1. /\ tokens \in Seq(Seq(STRING)) /\ tokens # <<>> /\ token \in Nat /\ token >= 2
      /\ UNCHANGED <<tokens, token>>
  BY DEF ServiceOK, Internal
<1>2. /\ bs'.Platform = tokens[1] /\ bs'.ClientName = Nil /\ bs'.CountryCode = Nil
      /\ bs'.Product = Rest(tokens, 2)
  BY DEF Internal
<1>3. product = SubSeq(tokens, 2, N)
  <2>1. PICK from : from = 2 /\ from \in Nat \ {0}
    OBVIOUS
  <2>2. (IF Rest(tokens, from) = Nil THEN <<>> ELSE Rest(tokens, from)) = SubSeq(tokens, from, N)
    BY <1>1, <2>1, RestIs
  <2>3. QED
    BY <1>2, <2>1, <2>2
<1>4. N \in Nat /\ N >= 1 /\ Len(product) = N - 1
  <2> DEFINE T == Seq(STRING)
  <2>1. tokens \in Seq(T) /\ N \in Nat /\ N >= 1 /\ 2 \in Int
    BY <1>1
  <2> HIDE DEF T
  <2>2. \A i \in 2 .. N : tokens[i] \in T
    BY <2>1
  <2> HIDE DEF N
  <2>3. Len(SubSeq(tokens, 2, N)) = IF 2 <= N THEN N - 2 + 1 ELSE 0
    BY <2>1, <2>2, SubSeqProperties
  <2> HIDE DEF product
  <2>4. QED
    BY <1>3, <2>1, <2>3
<1>5. Len(product) < N /\ product = SubSeq(tokens, N - Len(product) + 1, N)
  <2> HIDE DEF product, N
  <2>1. N - Len(product) + 1 = 2 /\ Len(product) < N
    BY <1>4
  <2>2. QED
    BY <1>3, <2>1 DEF N
<1> HIDE DEF product
<1>6. PartsOfTheCell'
  BY <1>1, <1>2, <1>4, <1>5 DEF PartsOfTheCell, product
<1>7. QED
  BY <1>1, <1>6 DEF ServiceOK

\* No step of ParseBusinessService loses a part of the cell.
LEMMA ServiceStep ==
    ASSUME ServiceOK, [ServiceNext]_serviceVars PROVE ServiceOK'
<1>1. CASE Empty
  <2>1. ~Returned' /\ UNCHANGED <<tokens, token>>
    BY <1>1 DEF Empty, Returned
  <2>2. QED
    BY <2>1 DEF ServiceOK, PartsOfTheCell
<1>2. CASE Skip
  <2>1. ~Returned' /\ tokens' = tokens /\ token' = token + 1
    BY <1>2 DEF Skip, Returned
  <2>2. PartsOfTheCell'
    BY <2>1 DEF PartsOfTheCell
  <2>3. QED
    BY <2>1, <2>2 DEF ServiceOK
<1>3. CASE UNCHANGED serviceVars
  BY <1>3 DEF ServiceOK, PartsOfTheCell, Returned, serviceVars
<1>4. QED
  BY <1>1, <1>2, <1>3, ClientKeeps, InternalKeeps DEF ServiceNext

\* Whatever a row holds, MapRow gets the parts of its service cell as they are
\* written in it, and of its journal cell all that ParseCorrect says.
THEOREM MapRowCorrect == MapSpec => [](IInv /\ ServiceOK)
<1>1. MapInit => IInv /\ ServiceOK
  <2> SUFFICES ASSUME MapInit PROVE IInv /\ ServiceOK
    OBVIOUS
  <2>1. lines \in Seq(Line) /\ Called /\ tokens \in Seq(Seq(STRING)) /\ token = 2 /\ bs = Nil
    BY RowAssumption DEF MapInit, ServiceCalled
  <2>2. ServiceOK
    BY <2>1 DEF ServiceOK, PartsOfTheCell, Returned
  <2>3. QED
    BY <2>1, <2>2, InitInv
<1>2. IInv /\ ServiceOK /\ [MapNext]_<<vars, serviceVars>> => (IInv /\ ServiceOK)'
  <2> SUFFICES ASSUME IInv, ServiceOK, [MapNext]_<<vars, serviceVars>>
               PROVE  (IInv /\ ServiceOK)'
    OBVIOUS
  <2>1. [Next]_vars /\ [ServiceNext]_serviceVars
    BY DEF MapNext, MapService, MapJournal
  <2>2. QED
    BY <2>1, NextInv, ServiceStep
<1>3. QED
  BY <1>1, <1>2, PTL DEF MapSpec

\* The parts of a service cell are where they were in it, and nothing between
\* the client and the end is lost.
THEOREM PartsCorrect == MapSpec => []PartsOfTheCell
<1>1. IInv /\ ServiceOK => PartsOfTheCell
  BY DEF ServiceOK
<1>2. QED
  BY <1>1, MapRowCorrect, PTL

\* MapRow's journals keep what ParseJournal promises.
THEOREM RowJournalCorrect ==
    MapSpec => [](TypeOK /\ EntriesMatchHeaders /\ OnlyPreambleDropped /\ FailsOnlyWhole)
<1>1. IInv /\ ServiceOK => TypeOK /\ EntriesMatchHeaders /\ OnlyPreambleDropped /\ FailsOnlyWhole
  BY DEF IInv, Correct
<1>2. QED
  BY <1>1, MapRowCorrect, PTL

USE BodyAssumption

-----------------------------------------------------------------------------
(* Where the folds and concatenations of the model end. *)

\* Induction over the natural numbers, for the set of those a fact holds for.
LEMMA Induction ==
    ASSUME NEW S, 0 \in S, \A n \in Nat : n \in S => n + 1 \in S
    PROVE  \A n \in Nat : n \in S
<1> DEFINE T == Nat \ S
<1>1. SUFFICES ASSUME T # {} PROVE FALSE
  OBVIOUS
<1>2. IsWellFoundedOn(OpToRel(<, Nat), Nat)
  BY NatLessThanWellFounded
<1>3. PICK i \in T : \A j \in T : <<j, i>> \notin OpToRel(<, Nat)
  BY <1>1, <1>2, WFMin
<1>4. \A j \in T : ~(j < i)
  BY <1>3 DEF OpToRel
<1>5. i # 0 /\ i - 1 \in Nat /\ i - 1 \notin T
  BY <1>4
<1>6. QED
  BY <1>5

LEMMA MaxOfInterval ==
    ASSUME NEW k \in Nat, NEW s \in SUBSET (1 .. k), k \in s
    PROVE  Max(s) = k
<1>1. \A x \in s : x \in Int /\ k >= x
  OBVIOUS
<1>2. \A x \in s : (\A y \in s : x >= y) => x = k
  BY <1>1
<1>3. QED
  BY <1>1, <1>2 DEF Max

\* A turn of ParseJournal's loop and of the writer's over the entries.
Turn(of, p, x) ==
    IF of = "parse" THEN (IF p.failed THEN p ELSE OnLine(p, x)) ELSE InsertEvent(p, x)

\* The function on sets of places that the fold of s is.
IsFold(g, k, of, base, s) ==
    g = [d \in SUBSET (1 .. k) |->
            IF d = {} THEN base ELSE Turn(of, g[d \ {Max(d)}], s[Max(d)])]

LEMMA FoldExists ==
    ASSUME NEW n \in Nat, NEW of, NEW base, NEW s
    PROVE  \E g : IsFold(g, n, of, base, s)
<1> DEFINE S == {k \in Nat : \E g : IsFold(g, k, of, base, s)}
<1>1. 0 \in S
  <2> DEFINE g == [d \in SUBSET (1 .. 0) |-> base]
  <2>1. SUBSET (1 .. 0) = {{}}
    OBVIOUS
  <2>2. IsFold(g, 0, of, base, s)
    BY <2>1 DEF IsFold
  <2>3. QED
    BY <2>2
<1>2. ASSUME NEW k \in Nat, k \in S PROVE k + 1 \in S
  <2>1. PICK g : IsFold(g, k, of, base, s)
    BY <1>2
  <2> DEFINE h == [d \in SUBSET (1 .. k + 1) |->
                      IF k + 1 \in d THEN Turn(of, g[d \ {k + 1}], s[k + 1]) ELSE g[d]]
  <2>2. ASSUME NEW d \in SUBSET (1 .. k + 1)
        PROVE  h[d] = IF d = {} THEN base ELSE Turn(of, h[d \ {Max(d)}], s[Max(d)])
    <3>1. CASE k + 1 \in d
      <4>1. Max(d) = k + 1
        BY <3>1, MaxOfInterval
      <4>2. d \ {k + 1} \in SUBSET (1 .. k + 1) /\ k + 1 \notin d \ {k + 1}
        OBVIOUS
      <4>3. h[d \ {k + 1}] = g[d \ {k + 1}]
        BY <4>2
      <4>4. QED
        BY <3>1, <4>1, <4>3
    <3>2. CASE k + 1 \notin d
      <4>1. d \in SUBSET (1 .. k)
        BY <3>2
      <4>2. h[d] = g[d]
        BY <3>2
      <4>3. h[d \ {Max(d)}] = g[d \ {Max(d)}]
        BY <3>2
      <4>4. g[d] = IF d = {} THEN base ELSE Turn(of, g[d \ {Max(d)}], s[Max(d)])
        BY <2>1, <4>1 DEF IsFold
      <4>5. QED
        BY <4>2, <4>3, <4>4
    <3>3. QED
      BY <3>1, <3>2
  <2>3. h = [d \in SUBSET (1 .. k + 1) |->
                IF d = {} THEN base ELSE Turn(of, h[d \ {Max(d)}], s[Max(d)])]
    <3>1. h = [d \in SUBSET (1 .. k + 1) |-> h[d]]
      OBVIOUS
    <3> HIDE DEF h
    <3>2. QED
      BY <2>2, <3>1
  <2>4. IsFold(h, k + 1, of, base, s)
    BY <2>3 DEF IsFold
  <2> HIDE DEF h
  <2>5. QED
    BY <2>4
<1> HIDE DEF S
<1>3. n \in S
  BY <1>1, <1>2, Induction
<1>4. QED
  BY <1>3 DEF S

\* It takes the places in their order.
LEMMA FoldSteps ==
    ASSUME NEW n \in Nat, NEW of, NEW base, NEW s, NEW g, IsFold(g, n, of, base, s)
    PROVE  /\ g[1 .. 0] = base
           /\ \A k \in Nat : k < n => g[1 .. k + 1] = Turn(of, g[1 .. k], s[k + 1])
<1>1. g[1 .. 0] = base
  BY DEF IsFold
<1>2. ASSUME NEW k \in Nat, k < n PROVE g[1 .. k + 1] = Turn(of, g[1 .. k], s[k + 1])
  <2>1. 1 .. k + 1 \in SUBSET (1 .. n) /\ k + 1 \in 1 .. k + 1 /\ (1 .. k + 1) \ {k + 1} = 1 .. k
    BY <1>2
  <2>2. Max(1 .. k + 1) = k + 1
    BY <2>1, MaxOfInterval
  <2>3. QED
    BY <2>1, <2>2 DEF IsFold
<1>3. QED
  BY <1>1, <1>2

\* ParseJournal and insertEvents as the last value of their folds.
LEMMA ParseJournalIs ==
    ASSUME NEW n \in Nat, NEW c, DOMAIN c = 1 .. n
    PROVE  LET g == CHOOSE g : IsFold(g, n, "parse", Start, c)
           IN  ParseJournal(c) = Returns(c, g[1 .. n])
BY DEF ParseJournal, FoldLeft, MapThenFoldSet, IsFold, Turn

LEMMA InsertEventsIs ==
    ASSUME NEW n \in Nat, NEW rs, NEW entries, DOMAIN entries = 1 .. n
    PROVE  LET g == CHOOSE g : IsFold(g, n, "insert", rs, entries)
           IN  insertEvents(rs, entries) = g[1 .. n]
BY DEF insertEvents, FoldLeft, MapThenFoldSet, IsFold, Turn

-----------------------------------------------------------------------------
(* A cell in which every time can be read, parsed to its end. *)

\* No entry ends in an empty line.
NoBlankEnd(p) ==
    \A k \in DOMAIN p.entries :
        LET b == p.entries[k].body IN b # <<>> => b[Len(b)] # Blank

LEMMA FlushTrims ==
    ASSUME NEW p \in Locals, NoBlankEnd(p)
    PROVE  NoBlankEnd(flush(p))
<1>1. CASE p.current = None
  BY <1>1 DEF flush
<1>2. CASE p.current # None
  <2> DEFINE b == Trimmed(p.body)
             e == [p.current EXCEPT !.body = b]
             s == Append(p.entries, e)
  <2>1. p.body \in Seq(Text) /\ p.current \in JournalEntry /\ p.entries \in Seq(JournalEntry)
    BY <1>2 DEF Locals
  <2>2. b # <<>> => b[Len(b)] # Blank
    BY <2>1, TrimmedBody
  <2>3. b \in Seq(Text)
    BY <2>1, TrimmedBody
  <2> HIDE DEF b
  <2>4. e.body = b /\ e \in JournalEntry
    BY <2>1, <2>3 DEF JournalEntry
  <2>5. flush(p).entries = s
    BY <1>2 DEF flush, Locals, b
  <2> HIDE DEF e
  <2>6. \A k \in DOMAIN s : s[k] = e \/ (k \in DOMAIN p.entries /\ s[k] = p.entries[k])
    BY <2>1, <2>4
  <2> HIDE DEF s
  <2>7. QED
    BY <2>2, <2>4, <2>5, <2>6 DEF NoBlankEnd
<1>3. QED
  BY <1>1, <1>2

LEMMA LineTrims ==
    ASSUME NEW p \in Locals, NoBlankEnd(p), NEW line
    PROVE  NoBlankEnd(OnLine(p, line))
<1>1. CASE line \in Header
  <2> DEFINE f == flush(p)
  <2>1. NoBlankEnd(f)
    BY FlushTrims
  <2>2. OnLine(p, line).entries = f.entries
    <3>1. CASE p.current = None
      BY <1>1, <3>1 DEF OnLine, OnHeader, flush, Locals
    <3>2. CASE p.current # None
      BY <1>1, <3>2 DEF OnLine, OnHeader, flush, Locals
    <3>3. QED
      BY <3>1, <3>2
  <2>3. QED
    BY <2>1, <2>2 DEF NoBlankEnd
<1>2. CASE line \notin Header
  <2>1. OnLine(p, line).entries = p.entries
    BY <1>2 DEF OnLine, OnText, Locals
  <2>2. QED
    BY <2>1 DEF NoBlankEnd
<1>3. QED
  BY <1>1, <1>2

Readable(c) == \A h \in HeadersIn(c) : c[h].ts # Impossible

\* What the loop has when it has read k lines of c.
ReadTo(c, p, k) ==
    p \in Locals /\ Loop(c, p) /\ NoBlankEnd(p) /\ ~p.failed /\ p.n = k

LEMMA LoopEnds ==
    ASSUME NEW c \in Seq(Line), Readable(c), NEW g, IsFold(g, Len(c), "parse", Start, c)
    PROVE  ReadTo(c, g[1 .. Len(c)], Len(c))
<1> DEFINE n == Len(c)
           S == {k \in Nat : k <= n => ReadTo(c, g[1 .. k], k)}
<1>1. n \in Nat /\ DOMAIN c = 1 .. n /\ \A i \in 1 .. n : c[i] \in Line
  OBVIOUS
<1> HIDE DEF n
<1>2. 0 \in S
  <2>1. g[1 .. 0] = Start
    BY <1>1, FoldSteps DEF n
  <2>2. Start \in Locals
    BY DEF Start, Locals
  <2>3. Loop(c, Start)
    <3>1. \A h \in HeadersIn(c) : ~(h <= 0)
      BY DEF HeadersIn
    <3>2. QED
      BY <3>1 DEF Loop, Start, EntriesSoFar, OpenEntry, Covered, NoneImpossible
  <2>4. QED
    BY <2>1, <2>2, <2>3 DEF ReadTo, Start, NoBlankEnd
<1>3. ASSUME NEW k \in Nat, k \in S PROVE k + 1 \in S
  <2> SUFFICES ASSUME k + 1 <= n PROVE ReadTo(c, g[1 .. k + 1], k + 1)
    OBVIOUS
  <2> DEFINE p == g[1 .. k]
             line == c[k + 1]
             q == OnLine(p, line)
  <2>1. k < n /\ k <= n /\ k + 1 \in 1 .. n
    BY <1>1
  <2>2. p \in Locals /\ Loop(c, p) /\ NoBlankEnd(p) /\ ~p.failed /\ p.n = k
    BY <1>3, <2>1 DEF ReadTo
  <2>3. g[1 .. k + 1] = Turn("parse", p, line)
    BY <1>1, <2>1, FoldSteps DEF n
  <2>4. g[1 .. k + 1] = q
    BY <2>2, <2>3 DEF Turn
  <2> HIDE DEF p
  <2>5. q \in Locals /\ Loop(c, q) /\ q.n = k + 1
    <3>1. CASE line \in Header
      <4>1. q = OnHeader(p, line)
        BY <3>1 DEF OnLine
      <4>2. q \in Locals /\ Loop(c, q)
        BY <2>1, <2>2, <3>1, <4>1, HeaderStep DEF n
      <4>3. q.n = k + 1
        BY <2>2, <4>1 DEF OnHeader, flush, Locals
      <4>4. QED
        BY <4>2, <4>3
    <3>2. CASE line \notin Header
      <4>1. q = OnText(p, line)
        BY <3>2 DEF OnLine
      <4>2. q \in Locals /\ Loop(c, q)
        BY <2>1, <2>2, <3>2, <4>1, TextStep DEF n
      <4>3. q.n = k + 1
        BY <2>2, <4>1 DEF OnText, Locals
      <4>4. QED
        BY <4>2, <4>3
    <3>3. QED
      BY <3>1, <3>2
  <2>6. NoBlankEnd(q)
    BY <2>2, LineTrims
  <2>7. ~q.failed
    BY <2>5 DEF Loop, Readable
  <2>8. QED
    BY <2>4, <2>5, <2>6, <2>7 DEF ReadTo
<1> HIDE DEF S
<1>4. n \in S
  BY <1>1, <1>2, <1>3, Induction
<1>5. QED
  BY <1>1, <1>4 DEF S, n

\* es are the entries of c, in order of time.
EntriesOf(c, es) ==
    /\ es \in Seq(JournalEntry)
    /\ \A k \in DOMAIN es :
          /\ Holds(c, es[k], Len(c))
          /\ es[k].body # <<>> => es[k].body[Len(es[k].body)] # Blank
    /\ \A h \in HeadersIn(c) : \E k \in DOMAIN es : es[k].at = h
    /\ \A i, j \in DOMAIN es : i < j => es[i].header.ts <= es[j].header.ts

LEMMA CellParses ==
    ASSUME NEW c \in Seq(Line), Readable(c), HeadersIn(c) # {}, NEW ret \in ParseJournal(c)
    PROVE  ret.error = "nil" /\ EntriesOf(c, ret.entries)
<1> DEFINE n == Len(c)
           g == CHOOSE g : IsFold(g, n, "parse", Start, c)
           p == g[1 .. n]
           f == flush(p)
<1>1. n \in Nat /\ DOMAIN c = 1 .. n
  OBVIOUS
<1>2. ParseJournal(c) = Returns(c, p)
  BY <1>1, ParseJournalIs
<1>3. IsFold(g, n, "parse", Start, c)
  BY <1>1, FoldExists
<1> HIDE DEF g
<1>4. p \in Locals /\ Loop(c, p) /\ NoBlankEnd(p) /\ ~p.failed /\ p.n = n
  BY <1>3, LoopEnds DEF ReadTo
<1> HIDE DEF p
<1>5. /\ f \in Locals /\ f.n = n /\ f.current = None
      /\ EntriesSoFar(c, f) /\ Covered(c, f)
  <2>1. p.n <= Len(c) /\ ~(p.n < Len(c))
    BY <1>1, <1>4
  <2>2. QED
    BY <1>4, <2>1, FlushKeeps DEF Loop
<1>6. NoBlankEnd(f)
  BY <1>4, FlushTrims
<1>7. ~IsBlank(c)
  BY DEF IsBlank, HeadersIn
<1> HIDE DEF f
<1>8. \A h \in HeadersIn(c) : h <= n
  BY <1>1 DEF HeadersIn
<1>9. \A h \in HeadersIn(c) : \E k \in DOMAIN f.entries : f.entries[k].at = h
  BY <1>5, <1>8 DEF Covered
<1>10. f.entries # <<>> /\ f.entries \in Seq(JournalEntry)
  BY <1>5, <1>9 DEF Locals
<1>11. PICK t \in sorted(f.entries) : ret = [error |-> "nil", entries |-> t]
  BY <1>2, <1>4, <1>7, <1>10 DEF Returns, f
<1>12. /\ t \in Seq(JournalEntry) /\ Permutes(f.entries, t)
       /\ \A i, j \in DOMAIN t : i < j => t[i].header.ts <= t[j].header.ts
  BY <1>10, SortedPermutes
<1>13. PICK q \in [DOMAIN f.entries -> DOMAIN f.entries] :
          /\ \A j \in DOMAIN f.entries : \E i \in DOMAIN f.entries : q[i] = j
          /\ t = [i \in DOMAIN f.entries |-> f.entries[q[i]]]
  BY <1>12 DEF Permutes
<1>14. DOMAIN t = DOMAIN f.entries
  BY <1>13
<1>15. \A k \in DOMAIN t : /\ Holds(c, t[k], n)
                           /\ t[k].body # <<>> => t[k].body[Len(t[k].body)] # Blank
  BY <1>5, <1>6, <1>13 DEF EntriesSoFar, NoBlankEnd
<1>16. \A h \in HeadersIn(c) : \E k \in DOMAIN t : t[k].at = h
  <2> SUFFICES ASSUME NEW h \in HeadersIn(c) PROVE \E k \in DOMAIN t : t[k].at = h
    OBVIOUS
  <2>1. PICK j \in DOMAIN f.entries : f.entries[j].at = h
    BY <1>9
  <2>2. PICK i \in DOMAIN f.entries : q[i] = j
    BY <1>13
  <2>3. t[i] = f.entries[j]
    BY <1>13, <2>2
  <2>4. QED
    BY <1>14, <2>1, <2>3
<1>17. QED
  BY <1>11, <1>12, <1>15, <1>16 DEF EntriesOf

-----------------------------------------------------------------------------
(* The cell that is written for a journal. *)

\* c is parts[1] to parts[k] one after the other; part i begins after place at[i].
Laid(at, k, parts, c) ==
    /\ at \in [1 .. k + 1 -> Nat]
    /\ at[1] = 0 /\ at[k + 1] = Len(c)
    /\ \A i \in 1 .. k : at[i + 1] = at[i] + Len(parts[i])
    /\ \A i \in 1 .. k : \A l \in 1 .. Len(parts[i]) : c[at[i] + l] = parts[i][l]

\* No part begins behind the end.
LEMMA LaidWithin ==
    ASSUME NEW k \in Nat, NEW parts, NEW c, NEW at, Laid(at, k, parts, c), Len(c) \in Nat,
           \A i \in 1 .. k : Len(parts[i]) \in Nat
    PROVE  \A i \in 1 .. k + 1 : at[i] <= Len(c)
<1>1. /\ at \in [1 .. k + 1 -> Nat] /\ at[k + 1] = Len(c)
      /\ \A i \in 1 .. k : at[i + 1] = at[i] + Len(parts[i])
  BY DEF Laid
<1> DEFINE S == {j \in Nat : j <= k => at[k + 1 - j] <= Len(c)}
<1>2. 0 \in S
  BY <1>1
<1>3. ASSUME NEW j \in Nat, j \in S PROVE j + 1 \in S
  <2> SUFFICES ASSUME j + 1 <= k PROVE at[k + 1 - (j + 1)] <= Len(c)
    OBVIOUS
  <2>1. at[k + 1 - j] <= Len(c)
    BY <1>3
  <2> DEFINE m == k - j
  <2>2. m \in 1 .. k /\ k + 1 - j = m + 1 /\ k + 1 - (j + 1) = m
    OBVIOUS
  <2> HIDE DEF m
  <2>3. at[m + 1] = at[m] + Len(parts[m]) /\ at[m] \in Nat /\ Len(parts[m]) \in Nat
    BY <1>1, <2>2
  <2>4. at[m + 1] <= Len(c)
    BY <2>1, <2>2
  <2>5. at[m] <= Len(c)
    BY <2>3, <2>4
  <2>6. QED
    BY <2>2, <2>5
<1> HIDE DEF S
<1>4. \A j \in Nat : j \in S
  BY <1>2, <1>3, Induction
<1> SUFFICES ASSUME NEW i \in 1 .. k + 1 PROVE at[i] <= Len(c)
  OBVIOUS
<1>5. k + 1 - i \in Nat /\ k + 1 - i <= k /\ k + 1 - (k + 1 - i) = i
  OBVIOUS
<1>6. QED
  BY <1>4, <1>5 DEF S

\* One more part.
LEMMA LaidOn ==
    ASSUME NEW T, NEW k \in Nat, NEW parts, NEW c \in Seq(T), NEW at, Laid(at, k, parts, c),
           NEW part \in Seq(T), parts[k + 1] = part,
           \A i \in 1 .. k : parts[i] \in Seq(T)
    PROVE  \E b : Laid(b, k + 1, parts, c \o part)
<1> DEFINE b == [i \in 1 .. k + 2 |-> IF i = k + 2 THEN Len(c) + Len(part) ELSE at[i]]
           d == c \o part
<1>1. Len(c) \in Nat /\ Len(part) \in Nat
  OBVIOUS
<1>2. /\ d \in Seq(T) /\ Len(d) = Len(c) + Len(part)
      /\ \A i \in 1 .. Len(c) + Len(part) : d[i] = IF i <= Len(c) THEN c[i] ELSE part[i - Len(c)]
  BY ConcatProperties
<1> HIDE DEF d
<1>3. /\ at \in [1 .. k + 1 -> Nat] /\ at[1] = 0 /\ at[k + 1] = Len(c)
      /\ \A i \in 1 .. k : at[i + 1] = at[i] + Len(parts[i])
      /\ \A i \in 1 .. k : \A l \in 1 .. Len(parts[i]) : c[at[i] + l] = parts[i][l]
  BY DEF Laid
<1>4. b \in [1 .. k + 2 -> Nat]
  BY <1>1, <1>3
<1>5. b[k + 2] = Len(c) + Len(part) /\ \A i \in 1 .. k + 1 : b[i] = at[i]
  OBVIOUS
<1> HIDE DEF b
<1>6. b[1] = 0 /\ b[k + 2] = Len(d) /\ b[k + 1] = Len(c)
  BY <1>2, <1>3, <1>5
<1>7. \A i \in 1 .. k : Len(parts[i]) \in Nat
  OBVIOUS
<1>8. ASSUME NEW i \in 1 .. k + 1 PROVE b[i + 1] = b[i] + Len(parts[i])
  <2>1. CASE i = k + 1
    <3>1. i + 1 = k + 2 /\ parts[i] = part
      BY <2>1
    <3>2. QED
      BY <2>1, <3>1, <1>5, <1>6
  <2>2. CASE i # k + 1
    <3>1. i \in 1 .. k /\ i + 1 \in 1 .. k + 1
      BY <2>2
    <3>2. QED
      BY <3>1, <1>3, <1>5
  <2>3. QED
    BY <2>1, <2>2
<1>9. \A i \in 1 .. k + 1 : at[i] <= Len(c)
  BY <1>1, <1>7, LaidWithin
<1>10. ASSUME NEW i \in 1 .. k + 1, NEW l \in 1 .. Len(parts[i])
       PROVE  d[b[i] + l] = parts[i][l]
  <2>1. CASE i = k + 1
    <3>1. b[i] = Len(c) /\ parts[i] = part /\ l \in 1 .. Len(part)
      BY <1>6, <2>1
    <3>2. Len(c) + l \in 1 .. Len(c) + Len(part) /\ ~(Len(c) + l <= Len(c)) /\ Len(c) + l - Len(c) = l
      BY <1>1, <3>1
    <3>3. d[Len(c) + l] = part[l]
      BY <1>2, <3>2
    <3>4. QED
      BY <3>1, <3>3
  <2>2. CASE i # k + 1
    <3>1. i \in 1 .. k /\ i + 1 \in 1 .. k + 1
      BY <2>2
    <3>2. at[i + 1] = at[i] + Len(parts[i]) /\ at[i + 1] <= Len(c) /\ at[i] \in Nat
          /\ Len(parts[i]) \in Nat
      BY <1>3, <1>7, <1>9, <3>1
    <3>3. at[i] + l \in 1 .. Len(c) + Len(part) /\ at[i] + l <= Len(c)
      BY <1>1, <3>2
    <3>4. d[at[i] + l] = c[at[i] + l]
      BY <1>2, <3>3
    <3>5. b[i] = at[i]
      BY <1>5
    <3>6. c[at[i] + l] = parts[i][l]
      BY <1>3, <3>1
    <3>7. QED
      BY <3>4, <3>5, <3>6
  <2>3. QED
    BY <2>1, <2>2
<1>11. k + 1 + 1 = k + 2
  OBVIOUS
<1>12. Laid(b, k + 1, parts, d)
  BY <1>4, <1>6, <1>8, <1>10, <1>11 DEF Laid
<1>13. QED
  BY <1>12 DEF d

IsFlat(g, k, parts) == g = [i \in 1 .. k |-> IF i = 1 THEN parts[i] ELSE g[i - 1] \o parts[i]]

LEMMA FlatExists ==
    ASSUME NEW n \in Nat, NEW parts
    PROVE  \E g : IsFlat(g, n, parts)
<1> DEFINE S == {k \in Nat : \E g : IsFlat(g, k, parts)}
<1>1. 0 \in S
  <2> DEFINE g == [i \in 1 .. 0 |-> IF i = 1 THEN parts[i] ELSE <<>>]
  <2>1. IsFlat(g, 0, parts)
    BY DEF IsFlat
  <2>2. QED
    BY <2>1
<1>2. ASSUME NEW k \in Nat, k \in S PROVE k + 1 \in S
  <2>1. PICK g : IsFlat(g, k, parts)
    BY <1>2
  <2> DEFINE h == [i \in 1 .. k + 1 |->
                      IF i = k + 1 THEN (IF i = 1 THEN parts[i] ELSE g[k] \o parts[i]) ELSE g[i]]
  <2>2. ASSUME NEW i \in 1 .. k + 1
        PROVE  h[i] = IF i = 1 THEN parts[i] ELSE h[i - 1] \o parts[i]
    <3>1. CASE i = k + 1
      <4>1. i # 1 => i - 1 \in 1 .. k + 1 /\ i - 1 # k + 1 /\ i - 1 = k
        BY <3>1
      <4>2. QED
        BY <3>1, <4>1
    <3>2. CASE i # k + 1
      <4>1. i \in 1 .. k /\ (i # 1 => i - 1 \in 1 .. k + 1 /\ i - 1 # k + 1)
        BY <3>2
      <4>2. g[i] = IF i = 1 THEN parts[i] ELSE g[i - 1] \o parts[i]
        BY <2>1, <4>1 DEF IsFlat
      <4>3. QED
        BY <3>2, <4>1, <4>2
    <3>3. QED
      BY <3>1, <3>2
  <2>3. h = [i \in 1 .. k + 1 |-> IF i = 1 THEN parts[i] ELSE h[i - 1] \o parts[i]]
    <3>1. h = [i \in 1 .. k + 1 |-> h[i]]
      OBVIOUS
    <3> HIDE DEF h
    <3>2. QED
      BY <2>2, <3>1
  <2>4. IsFlat(h, k + 1, parts)
    BY <2>3 DEF IsFlat
  <2> HIDE DEF h
  <2>5. QED
    BY <2>4
<1> HIDE DEF S
<1>3. n \in S
  BY <1>1, <1>2, Induction
<1>4. QED
  BY <1>3 DEF S

LEMMA FlattenSeqIs ==
    ASSUME NEW parts, Len(parts) # 0
    PROVE  LET g == CHOOSE g : IsFlat(g, Len(parts), parts) IN FlattenSeq(parts) = g[Len(parts)]
BY DEF FlattenSeq, IsFlat

LEMMA FlattenLays ==
    ASSUME NEW T, NEW parts \in Seq(Seq(T)), Len(parts) # 0
    PROVE  /\ FlattenSeq(parts) \in Seq(T)
           /\ \E at : Laid(at, Len(parts), parts, FlattenSeq(parts))
<1> DEFINE n == Len(parts)
           g == CHOOSE g : IsFlat(g, n, parts)
           S == {k \in Nat : k + 1 <= n =>
                    g[k + 1] \in Seq(T) /\ \E at : Laid(at, k + 1, parts, g[k + 1])}
<1>1. n \in Nat \ {0} /\ \A i \in 1 .. n : parts[i] \in Seq(T)
  OBVIOUS
<1>2. IsFlat(g, n, parts) /\ FlattenSeq(parts) = g[n]
  BY <1>1, FlatExists, FlattenSeqIs
<1> HIDE DEF g, n
<1>3. \A i \in 1 .. n : g[i] = IF i = 1 THEN parts[i] ELSE g[i - 1] \o parts[i]
  BY <1>2 DEF IsFlat
<1>4. 0 \in S
  <2> DEFINE p == parts[1]
             at == [i \in 1 .. 2 |-> IF i = 1 THEN 0 ELSE Len(p)]
  <2>1. g[1] = p /\ p \in Seq(T)
    BY <1>1, <1>3
  <2>2. \A i \in 1 .. 1 : i = 1
    OBVIOUS
  <2>3. at \in [1 .. 2 -> Nat] /\ at[1] = 0 /\ at[2] = Len(p)
    BY <2>1
  <2>4. Len(p) \in Nat
    BY <2>1
  <2> HIDE DEF at
  <2>5. at[1] + Len(p) = Len(p) /\ \A l \in 1 .. Len(p) : at[1] + l = l
    BY <2>3, <2>4
  <2>6. Laid(at, 1, parts, p)
    BY <2>2, <2>3, <2>5 DEF Laid
  <2>7. 0 + 1 = 1
    OBVIOUS
  <2>8. QED
    BY <2>1, <2>6, <2>7
<1>5. ASSUME NEW k \in Nat, k \in S PROVE k + 1 \in S
  <2> SUFFICES ASSUME k + 1 + 1 <= n
               PROVE  g[k + 1 + 1] \in Seq(T) /\ \E at : Laid(at, k + 1 + 1, parts, g[k + 1 + 1])
    OBVIOUS
  <2> DEFINE m == k + 1
             c == g[m]
  <2>1. m \in Nat /\ m <= n /\ m \in 1 .. n /\ m + 1 \in 1 .. n /\ m + 1 # 1 /\ m + 1 - 1 = m
    BY <1>1
  <2>2. c \in Seq(T) /\ \E at : Laid(at, m, parts, c)
    BY <1>5, <2>1
  <2>3. PICK at : Laid(at, m, parts, c)
    BY <2>2
  <2>4. parts[m + 1] \in Seq(T) /\ \A i \in 1 .. m : parts[i] \in Seq(T)
    BY <1>1, <2>1
  <2>5. g[m + 1] = c \o parts[m + 1]
    <3>1. PICK i \in 1 .. n : i = m + 1
      BY <2>1
    <3>2. i # 1 /\ i - 1 = m
      BY <2>1, <3>1
    <3>3. g[i] = g[i - 1] \o parts[i]
      BY <1>3, <3>2
    <3> HIDE DEF m, c
    <3>4. g[i - 1] = g[m] /\ g[i] = g[m + 1] /\ parts[i] = parts[m + 1]
      BY <3>1, <3>2
    <3>5. g[m + 1] = g[m] \o parts[m + 1]
      BY <3>3, <3>4
    <3>6. QED
      BY <3>5 DEF c
  <2> HIDE DEF c, m
  <2>6. \E b : Laid(b, m + 1, parts, c \o parts[m + 1])
    BY <2>1, <2>2, <2>3, <2>4, LaidOn
  <2>7. c \o parts[m + 1] \in Seq(T)
    BY <2>2, <2>4, ConcatProperties
  <2>8. QED
    BY <2>5, <2>6, <2>7 DEF m
<1> HIDE DEF S
<1>6. \A k \in Nat : k \in S
  BY <1>4, <1>5, Induction
<1>7. n - 1 \in Nat /\ n - 1 + 1 = n /\ n <= n
  BY <1>1
<1>8. g[n] \in Seq(T) /\ \E at : Laid(at, n, parts, g[n])
  BY <1>6, <1>7 DEF S
<1>9. QED
  BY <1>2, <1>8 DEF n

\* Every place is in a part.
Placed(at, k, parts, c) ==
    \A p \in 1 .. Len(c) : \E i \in 1 .. k : \E l \in 1 .. Len(parts[i]) : p = at[i] + l

LEMMA LaidPlaces ==
    ASSUME NEW T, NEW k \in Nat, NEW parts, \A i \in 1 .. k : parts[i] \in Seq(T),
           NEW c \in Seq(T), NEW at, Laid(at, k, parts, c)
    PROVE  Placed(at, k, parts, c)
<1> DEFINE S == {j \in Nat : j <= k => \A p \in 1 .. at[j + 1] :
                    \E i \in 1 .. k : \E l \in 1 .. Len(parts[i]) : p = at[i] + l}
<1>1. /\ at \in [1 .. k + 1 -> Nat] /\ at[1] = 0 /\ at[k + 1] = Len(c)
      /\ \A i \in 1 .. k : at[i + 1] = at[i] + Len(parts[i])
  BY DEF Laid
<1>2. 0 \in S
  BY <1>1
<1>3. ASSUME NEW j \in Nat, j \in S PROVE j + 1 \in S
  <2> SUFFICES ASSUME j + 1 <= k, NEW p \in 1 .. at[j + 1 + 1]
               PROVE  \E i \in 1 .. k : \E l \in 1 .. Len(parts[i]) : p = at[i] + l
    OBVIOUS
  <2> DEFINE m == j + 1
  <2>1. m \in 1 .. k /\ m \in 1 .. k + 1 /\ j <= k
    OBVIOUS
  <2>2. at[m + 1] = at[m] + Len(parts[m]) /\ at[m] \in Nat /\ Len(parts[m]) \in Nat
    BY <1>1, <2>1
  <2>3. CASE p <= at[m]
    BY <1>3, <2>1, <2>2, <2>3
  <2>4. CASE ~(p <= at[m])
    <3>1. p - at[m] \in 1 .. Len(parts[m]) /\ p = at[m] + (p - at[m])
      BY <2>2, <2>4
    <3>2. QED
      BY <2>1, <3>1
  <2>5. QED
    BY <2>3, <2>4
<1> HIDE DEF S
<1>4. k \in S
  BY <1>2, <1>3, Induction
<1>5. QED
  BY <1>1, <1>4 DEF S, Placed

\* Without what is in D at its end, b is k long.
EndsAt(b, k, D) ==
    k \in 0 .. Len(b) /\ (k > 0 => b[k] \notin D) /\ \A i \in k + 1 .. Len(b) : b[i] \in D

LEMMA EndExists ==
    ASSUME NEW b, Len(b) \in Nat, NEW D
    PROVE  /\ \E k \in 0 .. Len(b) : EndsAt(b, k, D)
           /\ \A k, l : EndsAt(b, k, D) /\ EndsAt(b, l, D) => k = l
<1> DEFINE K == {k \in Nat : k <= Len(b) /\ \A i \in k + 1 .. Len(b) : b[i] \in D}
<1>1. PICK k \in K : \A j \in K : ~(<<j, k>> \in OpToRel(<, Nat))
  <2>1. Len(b) \in K
    OBVIOUS
  <2>2. K \subseteq Nat
    OBVIOUS
  <2> HIDE DEF K
  <2>3. QED
    BY <2>1, <2>2, NatLessThanWellFounded, WFMin
<1>2. \A j \in K : ~(j < k)
  BY <1>1 DEF OpToRel
<1>3. k > 0 => b[k] \notin D
  <2> SUFFICES ASSUME k > 0, b[k] \in D PROVE FALSE
    OBVIOUS
  <2>1. k \in Nat /\ k <= Len(b) /\ \A i \in k + 1 .. Len(b) : b[i] \in D
    OBVIOUS
  <2>2. k - 1 \in Nat /\ (k - 1) + 1 = k /\ k - 1 <= Len(b) /\ k - 1 < k
    BY <2>1
  <2>3. \A i \in k .. Len(b) : b[i] \in D
    BY <2>1
  <2>4. k - 1 \in K
    BY <2>2, <2>3
  <2>5. QED
    BY <2>2, <2>4, <1>2
<1>4. k \in 0 .. Len(b) /\ EndsAt(b, k, D)
  BY <1>3 DEF EndsAt
<1>5. ASSUME NEW m, NEW l, EndsAt(b, m, D), EndsAt(b, l, D), m # l PROVE FALSE
  <2>1. m \in 0 .. Len(b) /\ l \in 0 .. Len(b)
    BY <1>5 DEF EndsAt
  <2>2. CASE m < l
    <3>1. l \in m + 1 .. Len(b) /\ l > 0
      BY <2>1, <2>2
    <3>2. QED
      BY <1>5, <3>1 DEF EndsAt
  <2>3. CASE l < m
    <3>1. m \in l + 1 .. Len(b) /\ m > 0
      BY <2>1, <2>3
    <3>2. QED
      BY <1>5, <3>1 DEF EndsAt
  <2>4. QED
    BY <1>5, <2>1, <2>2, <2>3
<1>6. QED
  BY <1>4, <1>5

\* NormaliseLines and Shown cut there.
LEMMA NormaliseLinesIs ==
    ASSUME NEW c \in Seq(Line)
    PROVE  \E k : EndsAt(c, k, White) /\ NormaliseLines(c) = SubSeq(c, 1, k)
<1>1. Len(c) \in Nat
  OBVIOUS
<1> DEFINE k == CHOOSE k \in 0 .. Len(c) : EndsAt(c, k, White)
<1>2. EndsAt(c, k, White)
  BY <1>1, EndExists
<1>3. k = CHOOSE l \in 0 .. Len(c) : /\ l > 0 => c[l] \notin White
                                     /\ \A i \in l + 1 .. Len(c) : c[i] \in White
  BY DEF EndsAt
<1>4. QED
  BY <1>2, <1>3 DEF NormaliseLines

LEMMA ShownIs ==
    ASSUME NEW b \in Seq(Text), NEW i, NEW k, EndsAt(b, k, IF i = 1 THEN White ELSE {Blank})
    PROVE  Shown(b, i) = SubSeq(b, 1, k)
<1>1. Len(b) \in Nat
  OBVIOUS
<1> DEFINE D == IF i = 1 THEN White ELSE {Blank}
           m == CHOOSE m \in 0 .. Len(b) : EndsAt(b, m, D)
<1>2. m = k
  <2> HIDE DEF D
  <2>1. EndsAt(b, m, D)
    BY <1>1, EndExists
  <2>2. EndsAt(b, k, D)
    BY DEF D
  <2> HIDE DEF m
  <2>3. QED
    BY <1>1, <2>1, <2>2, EndExists
<1>3. m = CHOOSE l \in 0 .. Len(b) : (l > 0 => b[l] \notin D) /\ \A h \in l + 1 .. Len(b) : b[h] \in D
  BY DEF EndsAt
<1>4. QED
  BY <1>2, <1>3 DEF Shown

\* What is written for one entry.
LEMMA PartIs ==
    ASSUME NEW e \in Entry
    PROVE  LET part == <<e.header>> \o e.body \o <<Blank>> IN
           /\ part \in Seq(Line) /\ Len(part) = Len(e.body) + 2
           /\ part[1] = e.header
           /\ \A i \in 1 .. Len(e.body) : part[i + 1] = e.body[i]
           /\ part[Len(e.body) + 2] = Blank
<1> DEFINE a == <<e.header>>
           b == e.body
           z == <<Blank>>
           ab == a \o b
<1>1. e.header \in Line /\ b \in Seq(Text) /\ Blank \in Line
  BY DEF Entry, Header, Line
<1>2. b \in Seq(Line)
  <2>1. Text \subseteq Line
    BY DEF Line
  <2>2. QED
    BY <1>1, <2>1, SeqMonotonic
<1>3. Len(b) \in Nat
  BY <1>1
<1>4. a \in Seq(Line) /\ Len(a) = 1 /\ a[1] = e.header /\ z \in Seq(Line) /\ Len(z) = 1 /\ z[1] = Blank
  BY <1>1
<1> HIDE DEF a, b, z
<1>5. /\ ab \in Seq(Line) /\ Len(ab) = 1 + Len(b)
      /\ \A i \in 1 .. 1 + Len(b) : ab[i] = IF i <= 1 THEN a[i] ELSE b[i - 1]
  <2>1. /\ a \o b \in Seq(Line) /\ Len(a \o b) = Len(a) + Len(b)
        /\ \A i \in 1 .. Len(a) + Len(b) : (a \o b)[i] = IF i <= Len(a) THEN a[i] ELSE b[i - Len(a)]
    BY <1>2, <1>4, ConcatProperties
  <2>2. QED
    BY <1>4, <2>1
<1> HIDE DEF ab
<1>6. /\ ab \o z \in Seq(Line) /\ Len(ab \o z) = Len(ab) + 1
      /\ \A i \in 1 .. Len(ab) + 1 : (ab \o z)[i] = IF i <= Len(ab) THEN ab[i] ELSE z[i - Len(ab)]
  <2>1. /\ ab \o z \in Seq(Line) /\ Len(ab \o z) = Len(ab) + Len(z)
        /\ \A i \in 1 .. Len(ab) + Len(z) :
              (ab \o z)[i] = IF i <= Len(ab) THEN ab[i] ELSE z[i - Len(ab)]
    <3>1. ab \in Seq(Line) /\ z \in Seq(Line)
      BY <1>4, <1>5
    <3>2. QED
      BY <3>1, ConcatProperties
  <2>2. QED
    BY <1>4, <2>1
<1> DEFINE part == ab \o z
<1> HIDE DEF part
<1>7. /\ part \in Seq(Line) /\ Len(part) = Len(b) + 2
      /\ \A i \in 1 .. Len(b) + 2 : part[i] = IF i <= 1 + Len(b) THEN ab[i] ELSE z[i - (1 + Len(b))]
  BY <1>3, <1>5, <1>6 DEF part
<1>8. part[1] = a[1]
  <2>1. 1 \in 1 .. Len(b) + 2 /\ 1 <= 1 + Len(b) /\ 1 \in 1 .. 1 + Len(b)
    BY <1>3
  <2>2. QED
    BY <1>5, <1>7, <2>1
<1>9. ASSUME NEW i \in 1 .. Len(b) PROVE part[i + 1] = b[i]
  <2>1. i + 1 \in 1 .. Len(b) + 2 /\ i + 1 <= 1 + Len(b) /\ i + 1 \in 1 .. 1 + Len(b)
        /\ ~(i + 1 <= 1) /\ i + 1 - 1 = i
    BY <1>3
  <2>2. QED
    BY <1>5, <1>7, <2>1
<1>10. part[Len(b) + 2] = Blank
  <2>1. Len(b) + 2 \in 1 .. Len(b) + 2 /\ ~(Len(b) + 2 <= 1 + Len(b)) /\ Len(b) + 2 - (1 + Len(b)) = 1
    BY <1>3
  <2>2. QED
    BY <1>4, <1>7, <2>1
<1>11. part = <<e.header>> \o e.body \o <<Blank>>
  BY DEF part, ab, a, b, z
<1>12. QED
  BY <1>4, <1>7, <1>8, <1>9, <1>10, <1>11 DEF b

\* c is the normalised cell of journal j: the header of entry i is in line
\* at[i], and below it are its body and an empty line.  The entry that was
\* written first is the last, and cut.
CellOf(c, j, at) ==
    /\ at \in [1 .. Len(j) -> 1 .. Len(c)]
    /\ HeadersIn(c) = {at[i] : i \in 1 .. Len(j)}
    /\ \A i \in 1 .. Len(j) : c[at[i]] = j[i].header
    /\ \A i \in 2 .. Len(j) :
          /\ at[i - 1] = at[i] + Len(j[i].body) + 2
          /\ \A l \in 1 .. Len(j[i].body) : c[at[i] + l] = j[i].body[l]
          /\ c[at[i] + Len(j[i].body) + 1] = Blank
    /\ EndsAt(j[1].body, Len(c) - at[1], White)
    /\ \A l \in 1 .. Len(c) - at[1] : c[at[1] + l] = j[1].body[l]

LEMMA RenderedCell ==
    ASSUME NEW j \in Seq(Entry), Len(j) > 0
    PROVE  /\ NormaliseLines(Rendered(j)) \in Seq(Line)
           /\ \E at : CellOf(NormaliseLines(Rendered(j)), j, at)
<1> DEFINE n == Len(j)
           parts == [i \in DOMAIN j |->
                        LET e == Reverse(j)[i] IN <<e.header>> \o e.body \o <<Blank>>]
           full == Rendered(j)
           cut == NormaliseLines(full)
<1>1. n \in Nat \ {0} /\ DOMAIN j = 1 .. n /\ \A i \in 1 .. n : j[i] \in Entry
  OBVIOUS
<1>2. ASSUME NEW i \in 1 .. n
      PROVE  /\ parts[n + 1 - i] \in Seq(Line) /\ Len(parts[n + 1 - i]) = Len(j[i].body) + 2
             /\ parts[n + 1 - i][1] = j[i].header
             /\ \A l \in 1 .. Len(j[i].body) : parts[n + 1 - i][l + 1] = j[i].body[l]
             /\ parts[n + 1 - i][Len(j[i].body) + 2] = Blank
  <2>1. n + 1 - i \in 1 .. n /\ n - (n + 1 - i) + 1 = i
    BY <1>1
  <2>2. Reverse(j)[n + 1 - i] = j[i]
    BY <2>1 DEF Reverse
  <2>3. parts[n + 1 - i] = <<j[i].header>> \o j[i].body \o <<Blank>>
    BY <1>1, <2>1, <2>2
  <2> HIDE DEF parts
  <2>4. j[i] \in Entry
    BY <1>1
  <2>5. QED
    BY <2>3, <2>4, PartIs
<1>3. DOMAIN parts = 1 .. n /\ \A i \in 1 .. n : parts[i] \in Seq(Line)
  <2>1. DOMAIN parts = 1 .. n
    BY <1>1
  <2> SUFFICES ASSUME NEW i \in 1 .. n PROVE parts[i] \in Seq(Line)
    BY <2>1
  <2> HIDE DEF parts
  <2>2. n + 1 - i \in 1 .. n /\ n + 1 - (n + 1 - i) = i
    BY <1>1
  <2>3. QED
    BY <1>2, <2>2
<1>4. full = FlattenSeq(parts)
  BY DEF Rendered
<1>5. parts \in Seq(Seq(Line)) /\ Len(parts) = n
  <2>1. parts = [i \in 1 .. n |-> parts[i]]
    BY <1>1
  <2> HIDE DEF parts, n
  <2>2. parts \in [1 .. n -> Seq(Line)]
    BY <1>3, <2>1
  <2>3. QED
    BY <1>1, <2>2
<1> HIDE DEF parts, full
<1>6. full \in Seq(Line) /\ \E b : Laid(b, n, parts, full)
  BY <1>1, <1>4, <1>5, FlattenLays
<1>7. PICK b : Laid(b, n, parts, full)
  BY <1>6
<1>8. PICK k : EndsAt(full, k, White) /\ cut = SubSeq(full, 1, k)
  BY <1>6, NormaliseLinesIs
<1> HIDE DEF cut
<1>9. /\ b \in [1 .. n + 1 -> Nat] /\ b[1] = 0 /\ b[n + 1] = Len(full)
      /\ \A i \in 1 .. n : b[i + 1] = b[i] + Len(parts[i])
      /\ \A i \in 1 .. n : \A l \in 1 .. Len(parts[i]) : full[b[i] + l] = parts[i][l]
  BY <1>7 DEF Laid
<1> DEFINE at == [i \in 1 .. n |-> b[n + 1 - i] + 1]
<1>10. \A i \in 1 .. n : Len(j[i].body) \in Nat /\ j[i].body \in Seq(Text)
  BY <1>1 DEF Entry
<1>11. ASSUME NEW i \in 1 .. n
       PROVE  /\ at[i] \in Nat /\ at[i] > 0 /\ full[at[i]] = j[i].header
              /\ \A l \in 1 .. Len(j[i].body) : full[at[i] + l] = j[i].body[l]
              /\ full[at[i] + Len(j[i].body) + 1] = Blank
              /\ b[n + 2 - i] = at[i] + Len(j[i].body) + 1
  <2> DEFINE m == n + 1 - i
             p == parts[m]
             h == Len(j[i].body)
  <2>1. m \in 1 .. n /\ m \in 1 .. n + 1 /\ m + 1 = n + 2 - i
    BY <1>1
  <2>2. at[i] = b[m] + 1
    OBVIOUS
  <2>3. /\ Len(p) = h + 2 /\ p[1] = j[i].header /\ p[h + 2] = Blank
        /\ \A l \in 1 .. h : p[l + 1] = j[i].body[l]
    BY <1>2
  <2>4. b[m] \in Nat /\ b[m + 1] = b[m] + Len(p) /\ \A l \in 1 .. Len(p) : full[b[m] + l] = p[l]
    BY <1>9, <2>1
  <2>5. h \in Nat
    BY <1>10
  <2>12. at[i] = b[m] + 1 /\ b[m] \in Nat /\ Len(p) = h + 2 /\ h \in Nat /\ b[m + 1] = b[m] + Len(p)
    BY <2>2, <2>3, <2>4, <2>5
  <2> HIDE DEF m, p, h, at
  <2>6. at[i] \in Nat /\ at[i] > 0
    BY <2>2, <2>4
  <2>7. full[at[i]] = j[i].header
    <3>1. 1 \in 1 .. Len(p)
      BY <2>3, <2>5
    <3>2. full[b[m] + 1] = p[1]
      BY <2>4, <3>1
    <3>3. QED
      BY <2>2, <2>3, <3>2
  <2>8. \A l \in 1 .. h : full[at[i] + l] = j[i].body[l]
    <3> SUFFICES ASSUME NEW l \in 1 .. h PROVE full[at[i] + l] = j[i].body[l]
      OBVIOUS
    <3>1. l + 1 \in 1 .. Len(p) /\ at[i] + l = b[m] + (l + 1)
      <4> DEFINE lp == Len(p)
                 o == b[m]
      <4>1. at[i] = o + 1 /\ o \in Nat /\ lp = h + 2 /\ h \in Nat
        BY <2>12
      <4> HIDE DEF lp, o
      <4>2. l + 1 \in 1 .. lp
        BY <4>1
      <4>3. at[i] + l = o + (l + 1)
        BY <4>1
      <4>4. QED
        BY <4>2, <4>3 DEF lp, o
    <3>2. full[b[m] + (l + 1)] = p[l + 1]
      BY <2>4, <3>1
    <3>3. QED
      BY <2>3, <3>1, <3>2
  <2>9. full[at[i] + h + 1] = Blank
    <3>1. h + 2 \in 1 .. Len(p) /\ at[i] + h + 1 = b[m] + (h + 2)
      BY <2>12
    <3>2. full[b[m] + (h + 2)] = p[h + 2]
      BY <2>4, <3>1
    <3>3. QED
      BY <2>3, <3>1, <3>2
  <2>10. b[n + 2 - i] = at[i] + h + 1
    <3>1. b[m + 1] = at[i] + h + 1
      BY <2>12
    <3>2. QED
      BY <2>1, <3>1
  <2>11. QED
    BY <2>6, <2>7, <2>8, <2>9, <2>10 DEF h
<1>12. ASSUME NEW i \in 2 .. n PROVE at[i - 1] = at[i] + Len(j[i].body) + 2
  <2>1. i \in 1 .. n /\ i - 1 \in 1 .. n /\ n + 1 - (i - 1) = n + 2 - i
    BY <1>1
  <2>2. at[i - 1] = b[n + 2 - i] + 1
    BY <2>1
  <2> HIDE DEF at
  <2>3. QED
    BY <1>10, <1>11, <2>1, <2>2
<1>13. n + 2 - 1 = n + 1 /\ 1 \in 1 .. n
  BY <1>1
<1>14. Len(full) = at[1] + Len(j[1].body) + 1
  <2> HIDE DEF at
  <2>1. QED
    BY <1>9, <1>11, <1>13
<1>15. ASSUME NEW i \in 1 .. n PROVE at[i] <= at[1]
  <2> DEFINE S == {m \in Nat : m + 1 <= n => at[m + 1] <= at[1]}
  <2> HIDE DEF at
  <2>1. 0 \in S
    BY <1>11, <1>13
  <2>2. ASSUME NEW m \in Nat, m \in S PROVE m + 1 \in S
    <3> SUFFICES ASSUME m + 1 + 1 <= n PROVE at[m + 1 + 1] <= at[1]
      OBVIOUS
    <3> DEFINE o == m + 2
    <3>1. o \in 2 .. n /\ o \in 1 .. n /\ o - 1 \in 1 .. n /\ o - 1 = m + 1 /\ m + 1 + 1 = o
      BY <1>1
    <3>2. at[o - 1] <= at[1]
      BY <1>1, <2>2, <3>1
    <3> HIDE DEF o
    <3>3. at[o - 1] = at[o] + Len(j[o].body) + 2
      BY <1>12, <3>1
    <3>4. at[o] \in Nat /\ at[1] \in Nat /\ Len(j[o].body) \in Nat
      BY <1>10, <1>11, <1>13, <3>1
    <3>5. at[o] <= at[1]
      BY <3>2, <3>3, <3>4
    <3>6. QED
      BY <3>1, <3>5
  <2> HIDE DEF S
  <2>3. \A m \in Nat : m \in S
    BY <2>1, <2>2, Induction
  <2>4. i - 1 \in Nat /\ i - 1 + 1 = i /\ i <= n
    BY <1>1
  <2>5. QED
    BY <2>3, <2>4 DEF S
\* The cut.
<1>16. k \in 0 .. Len(full) /\ (k > 0 => full[k] \notin White) /\ \A i \in k + 1 .. Len(full) : full[i] \in White
  BY <1>8 DEF EndsAt
<1>17. \A i \in 1 .. n : j[i].header \in Header /\ j[i].header.ts # Impossible
  BY <1>1 DEF Entry, Header
<1>18. at[1] <= k
  <2> HIDE DEF at
  <2> SUFFICES ASSUME k < at[1] PROVE FALSE
    BY <1>11, <1>13, <1>16
  <2>1. at[1] \in k + 1 .. Len(full)
    BY <1>10, <1>11, <1>13, <1>14, <1>16
  <2>2. full[at[1]] \in White /\ full[at[1]] \in Header
    BY <1>11, <1>13, <1>16, <1>17, <2>1
  <2>3. QED
    BY <2>2
<1>19. cut \in Seq(Line) /\ Len(cut) = k /\ \A i \in 1 .. k : cut[i] = full[i]
  BY <1>6, <1>8, <1>16
<1>20. at \in [1 .. n -> 1 .. Len(cut)]
  <2>1. \A i \in 1 .. n : at[i] \in 1 .. k
    <3> HIDE DEF at
    <3>1. QED
      BY <1>11, <1>13, <1>15, <1>16, <1>18
  <2>2. QED
    BY <1>19, <2>1
<1> HIDE DEF at
<1>21. ASSUME NEW p \in 1 .. k, full[p] \in Header
       PROVE  \E i \in 1 .. n : p = at[i]
  <2>1. p \in 1 .. Len(full)
    BY <1>16
  <2>2. PICK m \in 1 .. n : \E l \in 1 .. Len(parts[m]) : p = b[m] + l
    <3>1. n \in Nat
      BY <1>1
    <3>2. \A i \in 1 .. n : parts[i] \in Seq(Line)
      BY <1>3
    <3>3. Placed(b, n, parts, full)
      BY <3>1, <3>2, <1>6, <1>7, LaidPlaces
    <3>4. QED
      BY <2>1, <3>3 DEF Placed
  <2>3. PICK l \in 1 .. Len(parts[m]) : p = b[m] + l
    BY <2>2
  <2> DEFINE i == n + 1 - m
  <2>4. i \in 1 .. n /\ n + 1 - i = m
    BY <1>1
  <2>5. at[i] = b[m] + 1
    BY <2>4 DEF at
  <2> DEFINE h == Len(j[i].body)
  <2>6. parts[m][l] \in Header
    BY <1>9, <1>21, <2>3
  <2>7. /\ Len(parts[m]) = h + 2 /\ parts[m][h + 2] = Blank
        /\ \A o \in 1 .. h : parts[m][o + 1] = j[i].body[o]
    BY <1>2, <2>4
  <2>8. h \in Nat /\ j[i].body \in Seq(Text)
    BY <1>10, <2>4
  <2> HIDE DEF i
  <2>9. \A o \in 1 .. h : j[i].body[o] \in Text
    BY <2>8
  <2> HIDE DEF h
  <2>10. l # h + 2
    BY <2>6, <2>7
  <2>11. l = 1
    <3> SUFFICES ASSUME l # 1 PROVE FALSE
      OBVIOUS
    <3>1. l - 1 \in 1 .. h /\ l - 1 + 1 = l
      BY <2>7, <2>8, <2>10
    <3>2. parts[m][l] \in Text
      BY <2>7, <2>9, <3>1
    <3>3. QED
      BY <2>6, <3>2
  <2>12. QED
    BY <2>3, <2>4, <2>5, <2>11
<1>22. HeadersIn(cut) = {at[i] : i \in 1 .. n}
  <2>1. DOMAIN cut = 1 .. k
    BY <1>19
  <2>2. \A p \in HeadersIn(cut) : p \in {at[i] : i \in 1 .. n}
    BY <1>19, <1>21, <2>1 DEF HeadersIn
  <2>3. \A i \in 1 .. n : at[i] \in HeadersIn(cut)
    <3> SUFFICES ASSUME NEW i \in 1 .. n PROVE at[i] \in HeadersIn(cut)
      OBVIOUS
    <3>1. at[i] \in 1 .. k
      BY <1>19, <1>20
    <3>2. cut[at[i]] \in Header
      BY <1>11, <1>17, <1>19, <3>1
    <3>3. QED
      BY <2>1, <3>1, <3>2 DEF HeadersIn
  <2>4. QED
    BY <2>2, <2>3
<1>23. \A i \in 1 .. n : cut[at[i]] = j[i].header
  BY <1>11, <1>19, <1>20
<1>24. ASSUME NEW i \in 2 .. n, NEW l \in 1 .. Len(j[i].body)
       PROVE  cut[at[i] + l] = j[i].body[l]
  <2>1. i \in 1 .. n /\ i - 1 \in 1 .. n
    BY <1>1
  <2>2. at[i - 1] = at[i] + Len(j[i].body) + 2 /\ at[i - 1] <= k /\ at[i] \in Nat
        /\ Len(j[i].body) \in Nat
    <3>1. at[i - 1] = at[i] + Len(j[i].body) + 2
      BY <1>12
    <3>2. at[i - 1] \in 1 .. k
      BY <1>19, <1>20, <2>1
    <3>3. at[i] \in Nat /\ Len(j[i].body) \in Nat
      BY <1>10, <1>11, <2>1
    <3>4. QED
      BY <3>1, <3>2, <3>3, <1>16
  <2>3. at[i] + l \in 1 .. k
    BY <1>16, <2>2
  <2>4. QED
    BY <1>11, <1>19, <2>1, <2>3
<1>36. ASSUME NEW i \in 2 .. n PROVE cut[at[i] + Len(j[i].body) + 1] = Blank
  <2>1. i \in 1 .. n /\ i - 1 \in 1 .. n
    BY <1>1
  <2>2. at[i - 1] = at[i] + Len(j[i].body) + 2
    BY <1>12
  <2>3. at[i - 1] \in 1 .. k
    BY <1>19, <1>20, <2>1
  <2>4. at[i] \in Nat /\ Len(j[i].body) \in Nat
    BY <1>10, <1>11, <2>1
  <2>5. at[i] + Len(j[i].body) + 1 \in 1 .. k
    BY <1>16, <2>2, <2>3, <2>4
  <2>6. QED
    BY <1>11, <1>19, <2>1, <2>5
<1> DEFINE q == k - at[1]
           body == j[1].body
<1>25. at[1] \in Nat /\ at[1] > 0 /\ q \in Nat /\ k = at[1] + q /\ Len(body) \in Nat /\ k \in Nat
  BY <1>10, <1>11, <1>13, <1>16, <1>18
<1>35. k <= Len(full) /\ Len(full) = at[1] + Len(body) + 1 /\ Len(full) \in Nat
  BY <1>6, <1>14, <1>16
<1>26. /\ \A l \in 1 .. Len(body) : full[at[1] + l] = body[l]
       /\ full[at[1] + Len(body) + 1] = Blank
  BY <1>11, <1>13
<1> HIDE DEF q, body
<1>27. q # Len(body) + 1
  <2> SUFFICES ASSUME q = Len(body) + 1 PROVE FALSE
    OBVIOUS
  <2>1. k = at[1] + Len(body) + 1 /\ k > 0
    BY <1>25
  <2>2. full[k] = Blank
    BY <1>26, <2>1
  <2>3. QED
    BY <1>16, <2>1, <2>2
<1>28. q \in 0 .. Len(body)
  BY <1>25, <1>27, <1>35
<1>29. q > 0 => body[q] \notin White
  <2> SUFFICES ASSUME q > 0 PROVE body[q] \notin White
    OBVIOUS
  <2>1. q \in 1 .. Len(body) /\ k > 0
    BY <1>25, <1>28
  <2>2. QED
    BY <1>16, <1>25, <1>26, <2>1
<1>30. \A l \in q + 1 .. Len(body) : body[l] \in White
  <2> SUFFICES ASSUME NEW l \in q + 1 .. Len(body) PROVE body[l] \in White
    OBVIOUS
  <2>1. l \in 1 .. Len(body)
    BY <1>25
  <2>2. at[1] + l \in k + 1 .. Len(full)
    <3>1. l \in Nat /\ l >= q + 1 /\ l <= Len(body)
      BY <1>25
    <3>2. QED
      BY <3>1, <1>25, <1>35
  <2>3. QED
    BY <1>16, <1>26, <2>1, <2>2
<1>31. EndsAt(body, q, White)
  BY <1>28, <1>29, <1>30 DEF EndsAt
<1>32. \A l \in 1 .. q : cut[at[1] + l] = body[l]
  <2> SUFFICES ASSUME NEW l \in 1 .. q PROVE cut[at[1] + l] = body[l]
    OBVIOUS
  <2>1. at[1] + l \in 1 .. k /\ l \in 1 .. Len(body)
    BY <1>25, <1>28
  <2>2. QED
    BY <1>19, <1>26, <2>1
<1>33. CellOf(cut, j, at)
  BY <1>12, <1>19, <1>20, <1>22, <1>23, <1>24, <1>31, <1>32, <1>36 DEF CellOf, q, body
<1>34. QED
  BY <1>19, <1>33 DEF cut, full

\* e is entry i of journal j, as it reads in the cell.
Reads(e, j, i) == e.header = j[i].header /\ e.body = Shown(j[i].body, i)

LEMMA EntryReads ==
    ASSUME NEW j \in Seq(Entry), NEW c \in Seq(Line), NEW at, CellOf(c, j, at),
           NEW e \in JournalEntry, Holds(c, e, Len(c)),
           e.body # <<>> => e.body[Len(e.body)] # Blank,
           NEW i \in 1 .. Len(j), e.at = at[i]
    PROVE  Reads(e, j, i)
<1> DEFINE b == j[i].body
           h == Len(e.body)
           a == at[i]
           D == IF i = 1 THEN White ELSE {Blank}
<1>1. /\ j[i] \in Entry /\ b \in Seq(Text) /\ Len(b) \in Nat
      /\ e.body \in Seq(Text) /\ h \in Nat /\ a \in Nat /\ e.at = a
      /\ \A l \in 1 .. h : e.body[l] \in Text
      /\ \A l \in 1 .. Len(b) : b[l] \in Text
  <2>1. j[i] \in Entry
    OBVIOUS
  <2>2. b \in Seq(Text)
    BY <2>1 DEF Entry
  <2>3. e.body \in Seq(Text) /\ e.at \in Nat
    BY DEF JournalEntry
  <2>4. QED
    BY <2>1, <2>2, <2>3
<1>2. /\ e.header = c[a] /\ a + h <= Len(c)
      /\ \A l \in 1 .. h : e.body[l] = c[a + l]
      /\ \A p \in DOMAIN c :
            /\ p > a + h /\ \A o \in HeadersIn(c) : ~(a < o /\ o <= p)
            => c[p] = Blank
  BY <1>1 DEF Holds
<1>3. c[a] = j[i].header
  BY DEF CellOf
<1>4. Len(c) \in Nat /\ DOMAIN c = 1 .. Len(c)
  OBVIOUS
<1>5. e.body # <<>> <=> h > 0
  BY <1>1
<1> HIDE DEF h, a
<1>6. h > 0 => e.body[h] # Blank
  BY <1>5 DEF h
\* No header is where text is.
<1>7. \A l \in 1 .. h : a + l \notin HeadersIn(c)
  BY <1>1, <1>2 DEF HeadersIn
<1>8. h <= Len(b) /\ EndsAt(b, h, D) /\ \A l \in 1 .. h : e.body[l] = b[l]
  <2>1. CASE i # 1
    <3>1. i \in 2 .. Len(j) /\ i - 1 \in 1 .. Len(j)
      BY <2>1
    <3>2. /\ at[i - 1] = a + Len(b) + 2 /\ c[a + Len(b) + 1] = Blank
          /\ \A l \in 1 .. Len(b) : c[a + l] = b[l]
      BY <3>1 DEF CellOf, a
    <3>3. at[i - 1] \in HeadersIn(c)
      BY <3>1 DEF CellOf
    <3>4. a + Len(b) + 2 \in HeadersIn(c) /\ a + Len(b) + 2 \in 1 .. Len(c)
      BY <1>4, <3>2, <3>3 DEF HeadersIn
    <3> HIDE DEF b
    <3>5. h <= Len(b) + 1
      <4> SUFFICES ASSUME Len(b) + 2 <= h PROVE FALSE
        BY <1>1
      <4>1. Len(b) + 2 \in 1 .. h /\ a + (Len(b) + 2) = a + Len(b) + 2
        BY <1>1
      <4>2. QED
        BY <1>7, <3>4, <4>1
    <3>6. h # Len(b) + 1
      <4> SUFFICES ASSUME h = Len(b) + 1 PROVE FALSE
        OBVIOUS
      <4>1. h > 0 /\ h \in 1 .. h /\ a + h = a + Len(b) + 1
        BY <1>1
      <4>2. e.body[h] = Blank
        BY <1>2, <3>2, <4>1
      <4>3. QED
        BY <1>6, <4>1, <4>2
    <3>7. h \in 0 .. Len(b)
      BY <1>1, <3>5, <3>6
    <3>8. \A l \in 1 .. h : e.body[l] = b[l]
      BY <1>1, <1>2, <3>2, <3>7
    <3>9. ASSUME NEW l \in h + 1 .. Len(b) PROVE b[l] = Blank
      <4>1. l \in 1 .. Len(b) /\ l \in Nat
        BY <1>1
      <4>2. a + l \in DOMAIN c /\ a + l > a + h
        BY <1>1, <1>4, <3>4, <4>1
      <4>3. ASSUME NEW o \in HeadersIn(c), a < o, o <= a + l PROVE FALSE
        <5>1. o \in Nat /\ c[o] \in Header
          BY <1>4 DEF HeadersIn
        <5>2. o - a \in 1 .. Len(b) /\ a + (o - a) = o
          BY <1>1, <4>1, <4>3, <5>1
        <5>3. c[o] = b[o - a] /\ b[o - a] \in Text
          BY <1>1, <3>2, <5>2
        <5>4. QED
          BY <5>1, <5>3
      <4>4. c[a + l] = Blank
        BY <1>2, <4>2, <4>3
      <4>5. QED
        BY <3>2, <4>1, <4>4
    <3>10. h > 0 => b[h] # Blank
      BY <1>1, <1>6, <3>8
    <3>11. EndsAt(b, h, {Blank})
      BY <3>7, <3>9, <3>10 DEF EndsAt
    <3>12. QED
      BY <2>1, <3>7, <3>8, <3>11
  <2>2. CASE i = 1
    <3> DEFINE q == Len(c) - a
    <3>1. EndsAt(b, q, White) /\ \A l \in 1 .. q : c[a + l] = b[l]
      BY <2>2 DEF CellOf, a
    <3>2. q \in 0 .. Len(b) /\ (q > 0 => b[q] \notin White)
      BY <3>1 DEF EndsAt
    <3>3. q = Len(c) - a
      OBVIOUS
    <3> HIDE DEF b, q
    <3>4. h <= q
      BY <1>1, <1>2, <1>4, <3>3
    <3>5. h = q
      <4> SUFFICES ASSUME h < q PROVE FALSE
        BY <1>1, <3>2, <3>4
      <4>1. q \in 1 .. q /\ q > 0
        BY <1>1, <3>2
      <4>2. a + q \in DOMAIN c /\ a + q > a + h
        BY <1>1, <1>4, <3>3, <4>1
      <4>3. ASSUME NEW o \in HeadersIn(c), a < o, o <= a + q PROVE FALSE
        <5>1. o \in Nat /\ c[o] \in Header
          BY <1>4 DEF HeadersIn
        <5>2. o - a \in 1 .. q /\ o - a \in 1 .. Len(b) /\ a + (o - a) = o
          BY <1>1, <3>2, <4>3, <5>1
        <5>3. c[o] = b[o - a] /\ b[o - a] \in Text
          BY <1>1, <3>1, <5>2
        <5>4. QED
          BY <5>1, <5>3
      <4>4. c[a + q] = Blank
        BY <1>2, <4>2, <4>3
      <4>5. b[q] = Blank
        BY <3>1, <4>1, <4>4
      <4>6. QED
        BY <3>2, <4>1, <4>5
    <3>6. QED
      BY <1>2, <2>2, <3>1, <3>2, <3>5
  <2>3. QED
    BY <2>1, <2>2
<1>9. Shown(b, i) = SubSeq(b, 1, h)
  BY <1>1, <1>8, ShownIs
<1>10. e.body = SubSeq(b, 1, h)
  <2>1. SubSeq(b, 1, h) \in Seq(Text) /\ Len(SubSeq(b, 1, h)) = h
        /\ \A l \in 1 .. h : SubSeq(b, 1, h)[l] = b[l]
    <3> HIDE DEF b
    <3>1. QED
      BY <1>1, <1>8
  <2> DEFINE t == SubSeq(b, 1, h)
  <2>2. t \in Seq(Text) /\ Len(t) = Len(e.body) /\ \A l \in 1 .. Len(e.body) : e.body[l] = t[l]
    BY <1>8, <2>1 DEF h
  <2> HIDE DEF t
  <2>3. e.body = t
    BY <1>1, <2>2, SeqEqual
  <2>4. QED
    BY <2>3 DEF t
<1>11. QED
  BY <1>2, <1>3, <1>9, <1>10 DEF Reads

\* es are all entries of j, in order of time.
AllRead(j, es) ==
    /\ es \in Seq(JournalEntry)
    /\ \A k \in DOMAIN es : \E i \in 1 .. Len(j) : Reads(es[k], j, i)
    /\ \A i \in 1 .. Len(j) : \E k \in DOMAIN es : Reads(es[k], j, i)
    /\ \A k, l \in DOMAIN es : k < l => es[k].header.ts <= es[l].header.ts

\* Rendering a journal, normalising the cell and parsing it yields its entries.
LEMMA ExportReads ==
    ASSUME NEW j \in Seq(Entry), Len(j) > 0,
           NEW ret \in ParseJournal(NormaliseLines(Rendered(j)))
    PROVE  ret.error = "nil" /\ AllRead(j, ret.entries)
<1> DEFINE c == NormaliseLines(Rendered(j))
           es == ret.entries
<1>1. c \in Seq(Line) /\ \E at : CellOf(c, j, at)
  BY RenderedCell
<1> HIDE DEF c
<1>2. PICK at : CellOf(c, j, at)
  BY <1>1
<1>3. HeadersIn(c) = {at[i] : i \in 1 .. Len(j)}
  BY <1>2 DEF CellOf
<1>4. \A i \in 1 .. Len(j) : c[at[i]].ts # Impossible
  <2> SUFFICES ASSUME NEW i \in 1 .. Len(j) PROVE c[at[i]].ts # Impossible
    OBVIOUS
  <2>1. c[at[i]] = j[i].header
    BY <1>2 DEF CellOf
  <2>2. j[i] \in Entry
    OBVIOUS
  <2>3. j[i].header.ts \in Timestamp
    BY <2>2 DEF Entry
  <2>4. QED
    BY <2>1, <2>3
<1>5. Readable(c)
  BY <1>3, <1>4 DEF Readable
<1>6. HeadersIn(c) # {}
  <2>1. 1 \in 1 .. Len(j)
    OBVIOUS
  <2>2. QED
    BY <1>3, <2>1
<1>7. ret.error = "nil" /\ EntriesOf(c, es)
  BY <1>1, <1>5, <1>6, CellParses DEF c
<1> HIDE DEF es
<1>8. ASSUME NEW k \in DOMAIN es, NEW i \in 1 .. Len(j), es[k].at = at[i]
      PROVE  Reads(es[k], j, i)
  <2>1. es[k] \in JournalEntry
    BY <1>7 DEF EntriesOf
  <2>2. Holds(c, es[k], Len(c)) /\ (es[k].body # <<>> => es[k].body[Len(es[k].body)] # Blank)
    BY <1>7 DEF EntriesOf
  <2>3. QED
    BY <1>1, <1>2, <1>8, <2>1, <2>2, EntryReads
<1>9. ASSUME NEW k \in DOMAIN es PROVE \E i \in 1 .. Len(j) : Reads(es[k], j, i)
  <2>1. es[k].at \in HeadersIn(c)
    BY <1>7 DEF EntriesOf, Holds
  <2>2. QED
    BY <1>3, <1>8, <2>1
<1>10. ASSUME NEW i \in 1 .. Len(j) PROVE \E k \in DOMAIN es : Reads(es[k], j, i)
  <2>1. at[i] \in HeadersIn(c)
    BY <1>3
  <2>2. PICK k \in DOMAIN es : es[k].at = at[i]
    BY <1>7, <2>1 DEF EntriesOf
  <2>3. QED
    BY <1>8, <2>2
<1>11. AllRead(j, es)
  BY <1>7, <1>9, <1>10 DEF AllRead, EntriesOf
<1>12. QED
  BY <1>7, <1>11 DEF es

-----------------------------------------------------------------------------
(* The table. *)

EventRow == [event_ts: Timestamp, author_name: Author, author_context: Context, body: Seq(Text)]

DistinctKeys(rs) ==
    \A r, q \in DOMAIN rs :
        /\ rs[r].event_ts = rs[q].event_ts /\ rs[r].author_name = rs[q].author_name
        /\ rs[r].body = rs[q].body
        => r = q

\* rs grew into t when the first k of es were inserted.
Grown(rs, es, k, t) ==
    /\ t \in Seq(EventRow) /\ Len(rs) <= Len(t)
    /\ \A i \in 1 .. Len(rs) : t[i] = rs[i]
    /\ DistinctKeys(t)
    /\ \A m \in 1 .. k : \E i \in DOMAIN t : SameKey(t[i], es[m])
    /\ \A i \in DOMAIN t : i > Len(rs) =>
          \E m \in 1 .. k : SameKey(t[i], es[m]) /\ \A r \in DOMAIN rs : ~SameKey(rs[r], es[m])
    /\ \A i, q \in DOMAIN t : Len(rs) < i /\ i < q => t[i].event_ts <= t[q].event_ts

Ascending(es) == \A k, l \in DOMAIN es : k < l => es[k].header.ts <= es[l].header.ts

LEMMA InsertGrows ==
    ASSUME NEW rs \in Seq(EventRow), NEW es \in Seq(JournalEntry), Ascending(es),
           NEW k \in Nat, k < Len(es), NEW t, Grown(rs, es, k, t)
    PROVE  Grown(rs, es, k + 1, InsertEvent(t, es[k + 1]))
<1> DEFINE e == es[k + 1]
           N == Len(rs)
<1>1. /\ t \in Seq(EventRow) /\ N <= Len(t)
      /\ \A i \in 1 .. N : t[i] = rs[i]
      /\ DistinctKeys(t)
      /\ \A m \in 1 .. k : \E i \in DOMAIN t : SameKey(t[i], es[m])
      /\ \A i \in DOMAIN t : i > N =>
            \E m \in 1 .. k : SameKey(t[i], es[m]) /\ \A r \in DOMAIN rs : ~SameKey(rs[r], es[m])
      /\ \A i, q \in DOMAIN t : N < i /\ i < q => t[i].event_ts <= t[q].event_ts
  BY DEF Grown
<1>2. /\ N \in Nat /\ Len(t) \in Nat /\ DOMAIN t = 1 .. Len(t) /\ DOMAIN rs = 1 .. N
      /\ k + 1 \in 1 .. Len(es) /\ e \in JournalEntry /\ DOMAIN es = 1 .. Len(es)
  BY <1>1
<1>3. \A m \in 1 .. k + 1 : m \in 1 .. k \/ m = k + 1
  OBVIOUS
<1> HIDE DEF N
<1>4. CASE \E i \in DOMAIN t : SameKey(t[i], e)
  <2>1. InsertEvent(t, e) = t
    BY <1>4 DEF InsertEvent
  <2>2. \A m \in 1 .. k + 1 : \E i \in DOMAIN t : SameKey(t[i], es[m])
    BY <1>1, <1>3, <1>4
  <2>3. \A i \in DOMAIN t : i > N =>
            \E m \in 1 .. k + 1 : SameKey(t[i], es[m]) /\ \A r \in DOMAIN rs : ~SameKey(rs[r], es[m])
    <3>1. \A m \in 1 .. k : m \in 1 .. k + 1
      OBVIOUS
    <3>2. QED
      BY <1>1, <3>1
  <2>4. QED
    BY <1>1, <2>1, <2>2, <2>3 DEF Grown, N
<1>5. CASE ~\E i \in DOMAIN t : SameKey(t[i], e)
  <2> DEFINE row == [event_ts |-> e.header.ts, author_name |-> e.header.author,
                     author_context |-> e.header.context, body |-> e.body]
             u == Append(t, row)
             z == Len(t) + 1
  <2>1. InsertEvent(t, e) = u
    BY <1>5 DEF InsertEvent
  <2>2. row \in EventRow /\ SameKey(row, e) /\ row.event_ts = e.header.ts
    <3>1. e.header \in [ts: Timestamp, author: Author, context: Context] /\ e.body \in Seq(Text)
      BY <1>2 DEF JournalEntry
    <3>2. QED
      BY <3>1 DEF EventRow, SameKey
  <2> HIDE DEF row, e
  <2>3. /\ u \in Seq(EventRow) /\ Len(u) = z /\ DOMAIN u = 1 .. z /\ u[z] = row
        /\ \A i \in 1 .. Len(t) : u[i] = t[i]
    BY <1>1, <2>2
  <2> HIDE DEF u
  <2>4. z \in Nat /\ z = Len(t) + 1 /\ N <= z /\ N < z
    BY <1>1, <1>2
  <2> HIDE DEF z
  <2>5. \A i \in DOMAIN u : (i \in DOMAIN t /\ u[i] = t[i]) \/ (i = z /\ u[i] = row)
    BY <1>2, <2>3, <2>4
  <2>6. \A i \in 1 .. N : u[i] = rs[i]
    <3>1. \A i \in 1 .. N : i \in 1 .. Len(t)
      BY <1>1, <1>2
    <3>2. QED
      BY <1>1, <2>3, <3>1
  <2>7. DistinctKeys(u)
    <3> SUFFICES ASSUME NEW r \in DOMAIN u, NEW q \in DOMAIN u,
                        u[r].event_ts = u[q].event_ts, u[r].author_name = u[q].author_name,
                        u[r].body = u[q].body
                 PROVE  r = q
      BY DEF DistinctKeys
    <3>1. ASSUME NEW i \in DOMAIN t, t[i].event_ts = row.event_ts,
                 t[i].author_name = row.author_name, t[i].body = row.body
          PROVE  FALSE
      <4>1. SameKey(t[i], e)
        BY <2>2, <3>1 DEF SameKey
      <4>2. QED
        BY <1>5, <4>1 DEF e
    <3>2. CASE r = z /\ q = z
      BY <3>2
    <3>3. CASE r # z /\ q # z
      <4>1. r \in DOMAIN t /\ q \in DOMAIN t /\ u[r] = t[r] /\ u[q] = t[q]
        BY <2>5, <3>3
      <4>2. QED
        BY <1>1, <4>1 DEF DistinctKeys
    <3>4. CASE r = z /\ q # z
      <4>1. q \in DOMAIN t /\ u[q] = t[q] /\ u[r] = row
        BY <2>3, <2>5, <3>4
      <4>2. QED
        BY <3>1, <4>1
    <3>5. CASE r # z /\ q = z
      <4>1. r \in DOMAIN t /\ u[r] = t[r] /\ u[q] = row
        BY <2>3, <2>5, <3>5
      <4>2. QED
        BY <3>1, <4>1
    <3>6. QED
      BY <3>2, <3>3, <3>4, <3>5
  <2>8. ASSUME NEW m \in 1 .. k + 1 PROVE \E i \in DOMAIN u : SameKey(u[i], es[m])
    <3>1. CASE m = k + 1
      BY <2>2, <2>3, <2>4, <3>1 DEF e
    <3>2. CASE m \in 1 .. k
      <4>1. PICK i \in DOMAIN t : SameKey(t[i], es[m])
        BY <1>1, <3>2
      <4>2. i \in DOMAIN u /\ u[i] = t[i]
        BY <1>2, <2>3, <2>4
      <4>3. QED
        BY <4>1, <4>2
    <3>3. QED
      BY <1>3, <3>1, <3>2
  <2>9. ASSUME NEW i \in DOMAIN u, i > N
        PROVE  \E m \in 1 .. k + 1 :
                  SameKey(u[i], es[m]) /\ \A r \in DOMAIN rs : ~SameKey(rs[r], es[m])
    <3>1. CASE i = z
      <4>1. k + 1 \in 1 .. k + 1
        OBVIOUS
      <4>2. SameKey(u[i], es[k + 1])
        BY <2>2, <2>3, <3>1 DEF e
      <4>3. \A r \in DOMAIN rs : ~SameKey(rs[r], es[k + 1])
        <5> SUFFICES ASSUME NEW r \in DOMAIN rs PROVE ~SameKey(rs[r], es[k + 1])
          OBVIOUS
        <5>1. t[r] = rs[r] /\ r \in DOMAIN t
          BY <1>1, <1>2
        <5>2. QED
          BY <1>5, <5>1 DEF e
      <4>4. QED
        BY <4>1, <4>2, <4>3
    <3>2. CASE i # z
      <4>1. i \in DOMAIN t /\ u[i] = t[i]
        BY <2>5, <3>2
      <4>2. PICK m \in 1 .. k : SameKey(t[i], es[m]) /\ \A r \in DOMAIN rs : ~SameKey(rs[r], es[m])
        BY <1>1, <2>9, <4>1
      <4>3. m \in 1 .. k + 1
        OBVIOUS
      <4>4. QED
        BY <4>1, <4>2, <4>3
    <3>3. QED
      BY <3>1, <3>2
  <2>10. ASSUME NEW i \in DOMAIN u, NEW q \in DOMAIN u, N < i, i < q
         PROVE  u[i].event_ts <= u[q].event_ts
    <3>1. i # z /\ i \in DOMAIN t /\ u[i] = t[i]
      BY <2>3, <2>4, <2>5, <2>10
    <3>2. CASE q = z
      <4>1. PICK m \in 1 .. k : SameKey(t[i], es[m])
        BY <1>1, <2>10, <3>1
      <4>2. m \in DOMAIN es /\ k + 1 \in DOMAIN es /\ m < k + 1
        BY <1>2
      <4>3. es[m].header.ts <= es[k + 1].header.ts
        BY <4>2 DEF Ascending
      <4>4. u[i].event_ts = es[m].header.ts
        BY <3>1, <4>1 DEF SameKey
      <4>5. u[q].event_ts = es[k + 1].header.ts
        BY <2>2, <2>3, <3>2 DEF e
      <4>6. QED
        BY <4>3, <4>4, <4>5
    <3>3. CASE q # z
      BY <1>1, <2>5, <2>10, <3>1, <3>3
    <3>4. QED
      BY <3>2, <3>3
  <2>11. Len(rs) <= Len(u)
    BY <1>2, <2>3, <2>4 DEF N
  <2>12. Grown(rs, es, k + 1, u)
    BY <2>3, <2>6, <2>7, <2>8, <2>9, <2>10, <2>11 DEF Grown, N
  <2>13. QED
    BY <2>1, <2>12 DEF e
<1>6. QED
  BY <1>4, <1>5 DEF e

LEMMA InsertEnds ==
    ASSUME NEW rs \in Seq(EventRow), DistinctKeys(rs), NEW es \in Seq(JournalEntry), Ascending(es)
    PROVE  Grown(rs, es, Len(es), insertEvents(rs, es))
<1> DEFINE n == Len(es)
           g == CHOOSE g : IsFold(g, n, "insert", rs, es)
           S == {k \in Nat : k <= n => Grown(rs, es, k, g[1 .. k])}
<1>1. n \in Nat /\ DOMAIN es = 1 .. n
  OBVIOUS
<1>2. insertEvents(rs, es) = g[1 .. n]
  BY <1>1, InsertEventsIs
<1>3. IsFold(g, n, "insert", rs, es)
  BY <1>1, FoldExists
<1> HIDE DEF g
<1>4. /\ g[1 .. 0] = rs
      /\ \A k \in Nat : k < n => g[1 .. k + 1] = Turn("insert", g[1 .. k], es[k + 1])
  BY <1>1, <1>3, FoldSteps
<1>5. 0 \in S
  <2>1. Grown(rs, es, 0, rs)
    <3>1. DOMAIN rs = 1 .. Len(rs) /\ Len(rs) \in Nat
      OBVIOUS
    <3>2. QED
      BY <3>1 DEF Grown
  <2>2. QED
    BY <1>4, <2>1
<1>6. ASSUME NEW k \in Nat, k \in S PROVE k + 1 \in S
  <2> SUFFICES ASSUME k + 1 <= n PROVE Grown(rs, es, k + 1, g[1 .. k + 1])
    OBVIOUS
  <2>1. k < n /\ k <= n
    BY <1>1
  <2>2. Grown(rs, es, k, g[1 .. k])
    BY <1>6, <2>1
  <2>3. g[1 .. k + 1] = InsertEvent(g[1 .. k], es[k + 1])
    BY <1>4, <2>1 DEF Turn
  <2>4. QED
    BY <2>1, <2>2, <2>3, InsertGrows
<1> HIDE DEF S
<1>7. n \in S
  BY <1>1, <1>5, <1>6, Induction
<1>8. QED
  BY <1>1, <1>2, <1>7 DEF S

\* Row r is entry i of journal j.
HasEntry(r, j, i) ==
    /\ r.event_ts = j[i].header.ts /\ r.author_name = j[i].header.author
    /\ r.body = Shown(j[i].body, i)

InOrder(j) == \A i, k \in DOMAIN j : i < k => j[i].header.ts <= j[k].header.ts

\* rs holds the first n entries of journal j and nothing else, ascending in time.
Keeps(rs, j, n) ==
    /\ \A i \in 1 .. n : \E r \in DOMAIN rs : HasEntry(rs[r], j, i)
    /\ \A r \in DOMAIN rs : \E i \in 1 .. n : HasEntry(rs[r], j, i)
    /\ \A r, q \in DOMAIN rs : r < q => rs[r].event_ts <= rs[q].event_ts

JournalInv ==
    /\ journal \in Seq(Entry) /\ ingested \in 0 .. Len(journal) /\ rows \in Seq(EventRow)
    /\ InOrder(journal) /\ DistinctKeys(rows) /\ Keeps(rows, journal, ingested)

\* Taking in the first n entries.
LEMMA IngestKeeps ==
    ASSUME NEW j \in Seq(Entry), InOrder(j), NEW m \in 0 .. Len(j), NEW n \in 1 .. Len(j),
           NEW rs \in Seq(EventRow), DistinctKeys(rs), Keeps(rs, j, m),
           NEW es, AllRead(SubSeq(j, 1, n), es), NEW t, Grown(rs, es, Len(es), t)
    PROVE  Keeps(t, j, IF n > m THEN n ELSE m)
<1> DEFINE p == SubSeq(j, 1, n)
           N == Len(rs)
           M == IF n > m THEN n ELSE m
<1>1. Len(p) = n /\ \A i \in 1 .. n : p[i] = j[i]
  OBVIOUS
<1>2. \A i \in 1 .. Len(j) : j[i].header.ts \in Int
  <2>1. \A i \in 1 .. Len(j) : j[i] \in Entry
    OBVIOUS
  <2>2. QED
    BY <2>1 DEF Entry
<1>3. /\ es \in Seq(JournalEntry) /\ DOMAIN es = 1 .. Len(es)
      /\ \A k \in DOMAIN es : \E i \in 1 .. n : Reads(es[k], p, i)
      /\ \A i \in 1 .. n : \E k \in DOMAIN es : Reads(es[k], p, i)
  BY <1>1 DEF AllRead
<1> HIDE DEF p
<1>4. ASSUME NEW k \in DOMAIN es, NEW i \in 1 .. n, Reads(es[k], p, i)
      PROVE  \A r : SameKey(r, es[k]) <=> HasEntry(r, j, i)
  BY <1>1, <1>4 DEF Reads, SameKey, HasEntry
<1>5. /\ t \in Seq(EventRow) /\ N <= Len(t)
      /\ \A i \in 1 .. N : t[i] = rs[i]
      /\ \A k \in DOMAIN es : \E i \in DOMAIN t : SameKey(t[i], es[k])
      /\ \A i \in DOMAIN t : i > N =>
            \E k \in DOMAIN es : SameKey(t[i], es[k]) /\ \A r \in DOMAIN rs : ~SameKey(rs[r], es[k])
      /\ \A i, q \in DOMAIN t : N < i /\ i < q => t[i].event_ts <= t[q].event_ts
  BY <1>3 DEF Grown
<1>6. /\ N \in Nat /\ DOMAIN rs = 1 .. N /\ DOMAIN t = 1 .. Len(t) /\ Len(t) \in Nat
      /\ m \in Nat /\ n \in Nat /\ Len(j) \in Nat /\ m <= Len(j) /\ n <= Len(j)
      /\ DOMAIN j = 1 .. Len(j)
  BY <1>5
<1> HIDE DEF N
<1>7. /\ \A i \in 1 .. m : \E r \in DOMAIN rs : HasEntry(rs[r], j, i)
      /\ \A r \in DOMAIN rs : \E i \in 1 .. m : HasEntry(rs[r], j, i)
      /\ \A r, q \in DOMAIN rs : r < q => rs[r].event_ts <= rs[q].event_ts
  BY DEF Keeps
<1>8. /\ M \in Nat /\ (\A i \in 1 .. m : i \in 1 .. M) /\ (\A i \in 1 .. n : i \in 1 .. M)
      /\ \A i \in 1 .. M : i \in 1 .. m \/ i \in 1 .. n
  BY <1>6
<1> HIDE DEF M
<1>9. \A r \in DOMAIN rs : r \in DOMAIN t /\ t[r] = rs[r]
  BY <1>5, <1>6
<1>10. ASSUME NEW i \in 1 .. M PROVE \E r \in DOMAIN t : HasEntry(t[r], j, i)
  <2>1. CASE i \in 1 .. m
    <3>1. PICK r \in DOMAIN rs : HasEntry(rs[r], j, i)
      BY <1>7, <2>1
    <3>2. QED
      BY <1>9, <3>1
  <2>2. CASE i \in 1 .. n
    <3>1. PICK k \in DOMAIN es : Reads(es[k], p, i)
      BY <1>3, <2>2
    <3>2. PICK r \in DOMAIN t : SameKey(t[r], es[k])
      BY <1>5
    <3>3. QED
      BY <1>4, <2>2, <3>1, <3>2
  <2>3. QED
    BY <1>8, <2>1, <2>2
\* What a new row holds was written after all that rs holds.
<1>11. ASSUME NEW r \in DOMAIN t, r > N
       PROVE  \E i \in 1 .. n : HasEntry(t[r], j, i) /\ i > m
  <2>1. PICK k \in DOMAIN es : SameKey(t[r], es[k]) /\ \A q \in DOMAIN rs : ~SameKey(rs[q], es[k])
    BY <1>5, <1>11
  <2>2. PICK i \in 1 .. n : Reads(es[k], p, i)
    BY <1>3
  <2>3. HasEntry(t[r], j, i) /\ \A q \in DOMAIN rs : ~HasEntry(rs[q], j, i)
    BY <1>4, <2>1, <2>2
  <2>4. i \notin 1 .. m
    BY <1>7, <2>3
  <2>5. i > m
    BY <1>6, <2>4
  <2>6. QED
    BY <2>3, <2>5
<1>12. \A r \in DOMAIN t : (r \in DOMAIN rs /\ t[r] = rs[r]) \/ r > N
  BY <1>5, <1>6
<1>13. ASSUME NEW r \in DOMAIN t PROVE \E i \in 1 .. M : HasEntry(t[r], j, i)
  BY <1>7, <1>8, <1>11, <1>12
<1>14. ASSUME NEW r \in DOMAIN t, NEW q \in DOMAIN t, r < q
       PROVE  t[r].event_ts <= t[q].event_ts
  <2>1. CASE r > N
    BY <1>5, <1>14, <2>1
  <2>2. CASE r \in DOMAIN rs /\ t[r] = rs[r] /\ q > N
    <3>1. PICK i \in 1 .. m : HasEntry(rs[r], j, i)
      BY <1>7, <2>2
    <3>2. PICK l \in 1 .. n : HasEntry(t[q], j, l) /\ l > m
      BY <1>11, <2>2
    <3>3. i \in DOMAIN j /\ l \in DOMAIN j /\ i < l
      BY <1>6, <3>2
    <3>4. j[i].header.ts <= j[l].header.ts
      BY <3>3 DEF InOrder
    <3>5. QED
      BY <2>2, <3>1, <3>2, <3>4 DEF HasEntry
  <2>3. CASE r \in DOMAIN rs /\ t[r] = rs[r] /\ q \in DOMAIN rs /\ t[q] = rs[q]
    BY <1>7, <1>14, <2>3
  <2>4. QED
    BY <1>12, <2>1, <2>2, <2>3
<1>15. QED
  BY <1>10, <1>13, <1>14 DEF Keeps, M

\* A longer journal begins like the one before.
LEMMA WriteKeeps ==
    ASSUME NEW j \in Seq(Entry), InOrder(j), NEW m \in 0 .. Len(j), NEW rs, Keeps(rs, j, m),
           NEW e \in Entry, j # <<>> => e.header.ts >= Last(j).header.ts
    PROVE  LET t == Append(j, e) IN
           t \in Seq(Entry) /\ m \in 0 .. Len(t) /\ InOrder(t) /\ Keeps(rs, t, m)
<1> DEFINE t == Append(j, e)
           n == Len(j)
<1>1. /\ t \in Seq(Entry) /\ Len(t) = n + 1 /\ t[n + 1] = e /\ n \in Nat
      /\ (\A i \in 1 .. n : t[i] = j[i]) /\ DOMAIN t = 1 .. n + 1 /\ DOMAIN j = 1 .. n
  OBVIOUS
<1>2. \A i \in 1 .. n : j[i].header.ts \in Int
  <2>1. \A i \in 1 .. n : j[i] \in Entry
    OBVIOUS
  <2>2. QED
    BY <2>1 DEF Entry
<1>3. e.header.ts \in Int
  BY DEF Entry
<1>4. n > 0 => e.header.ts >= j[n].header.ts
  BY DEF Last
<1> HIDE DEF t, n
<1>5. InOrder(t)
  <2> SUFFICES ASSUME NEW i \in 1 .. n + 1, NEW k \in 1 .. n + 1, i < k
               PROVE  t[i].header.ts <= t[k].header.ts
    BY <1>1 DEF InOrder
  <2>1. i \in 1 .. n /\ t[i] = j[i] /\ n \in 1 .. n /\ n > 0
    BY <1>1
  <2>2. CASE k = n + 1
    <3>1. j[i].header.ts <= j[n].header.ts
      <4>1. CASE i = n
        BY <1>2, <2>1, <4>1
      <4>2. CASE i # n
        BY <1>1, <2>1, <4>2 DEF InOrder
      <4>3. QED
        BY <4>1, <4>2
    <3>2. QED
      BY <1>1, <1>2, <1>3, <1>4, <2>1, <2>2, <3>1
  <2>3. CASE k # n + 1
    BY <1>1, <2>1, <2>3 DEF InOrder
  <2>4. QED
    BY <2>2, <2>3
<1>6. m \in 0 .. Len(t) /\ \A i \in 1 .. m : t[i] = j[i]
  BY <1>1 DEF n
<1>7. \A i \in 1 .. m : \A r : HasEntry(r, t, i) <=> HasEntry(r, j, i)
  BY <1>6 DEF HasEntry
<1>8. Keeps(rs, t, m)
  BY <1>7 DEF Keeps
<1>9. QED
  BY <1>1, <1>5, <1>6, <1>8 DEF t

LEMMA JournalInvInit == JournalInit => JournalInv
BY DEF JournalInit, JournalInv, InOrder, DistinctKeys, Keeps

LEMMA JournalInvNext == JournalInv /\ [JournalNext]_journalVars => JournalInv'
<1> SUFFICES ASSUME JournalInv, [JournalNext]_journalVars PROVE JournalInv'
  OBVIOUS
<1>1. /\ journal \in Seq(Entry) /\ ingested \in 0 .. Len(journal) /\ rows \in Seq(EventRow)
      /\ InOrder(journal) /\ DistinctKeys(rows) /\ Keeps(rows, journal, ingested)
  BY DEF JournalInv
<1>2. CASE WriteEntry
  <2>1. PICK e \in Entry : /\ journal # <<>> => e.header.ts >= Last(journal).header.ts
                           /\ journal' = Append(journal, e)
    BY <1>2 DEF WriteEntry
  <2>2. ingested' = ingested /\ rows' = rows
    BY <1>2 DEF WriteEntry
  <2>3. journal' \in Seq(Entry) /\ ingested \in 0 .. Len(journal') /\ InOrder(journal')
        /\ Keeps(rows, journal', ingested)
    BY <1>1, <2>1, WriteKeeps
  <2>4. QED
    BY <1>1, <2>2, <2>3 DEF JournalInv
<1>3. CASE Ingest
  <2>1. PICK n \in 1 .. Len(journal) :
           /\ \E parsed \in ParseJournal(NormaliseLines(Rendered(SubSeq(journal, 1, n)))) :
                 /\ parsed.error = "nil"
                 /\ rows' = insertEvents(rows, parsed.entries)
           /\ ingested' = IF n > ingested THEN n ELSE ingested
    BY <1>3 DEF Ingest
  <2> DEFINE p == SubSeq(journal, 1, n)
  <2>2. PICK parsed \in ParseJournal(NormaliseLines(Rendered(p))) :
           rows' = insertEvents(rows, parsed.entries)
    BY <2>1
  <2>3. p \in Seq(Entry) /\ Len(p) > 0
    BY <1>1
  <2> HIDE DEF p
  <2>4. AllRead(p, parsed.entries)
    BY <2>3, ExportReads
  <2>5. parsed.entries \in Seq(JournalEntry) /\ Ascending(parsed.entries)
    BY <2>4 DEF AllRead, Ascending
  <2>6. Grown(rows, parsed.entries, Len(parsed.entries), rows')
    BY <1>1, <2>2, <2>5, InsertEnds
  <2>7. Keeps(rows', journal, ingested')
    BY <1>1, <2>1, <2>4, <2>6, IngestKeeps DEF p
  <2>8. rows' \in Seq(EventRow) /\ DistinctKeys(rows')
    BY <2>6 DEF Grown
  <2>9. journal' = journal
    BY <1>3 DEF Ingest
  <2>10. ingested' \in 0 .. Len(journal)
    BY <1>1, <2>1
  <2>11. QED
    BY <1>1, <2>7, <2>8, <2>9, <2>10 DEF JournalInv
<1>4. CASE UNCHANGED journalVars
  BY <1>1, <1>4 DEF journalVars, JournalInv
<1>5. QED
  BY <1>2, <1>3, <1>4 DEF JournalNext

THEOREM JournalKept == JournalSpec => []JournalInv
BY JournalInvInit, JournalInvNext, PTL DEF JournalSpec

\* The table of a ticket holds the longest snapshot of its journal that was
\* ever ingested, entry by entry, and nothing else, for journals of any length
\* and exports ingested in any order.
THEOREM StoredCorrect == JournalSpec => []StoredIsLongest
<1>1. JournalInv => StoredIsLongest
  <2> SUFFICES ASSUME JournalInv PROVE StoredIsLongest
    OBVIOUS
  <2>1. Keeps(rows, journal, ingested) /\ DistinctKeys(rows)
    BY DEF JournalInv
  <2>2. \A r, i : Stores(r, i) <=> HasEntry(r, journal, i)
    BY DEF Stores, HasEntry
  <2>3. \A i \in 1 .. ingested : \E r \in DOMAIN rows : Stores(rows[r], i)
    BY <2>1, <2>2 DEF Keeps
  <2>4. \A r \in DOMAIN rows : \E i \in 1 .. ingested : Stores(rows[r], i)
    BY <2>1, <2>2 DEF Keeps
  <2>5. \A r, q \in DOMAIN rows : \A i \in 1 .. ingested :
            Stores(rows[r], i) /\ Stores(rows[q], i) => r = q
    BY <2>1 DEF Stores, DistinctKeys
  <2>6. QED
    BY <2>3, <2>4, <2>5 DEF StoredIsLongest
<1>2. QED
  BY <1>1, JournalKept, PTL

\* Its ids ascend with the time of the events.
THEOREM AscentCorrect == JournalSpec => []EventsAscending
<1>1. JournalInv => EventsAscending
  BY DEF JournalInv, Keeps, EventsAscending
<1>2. QED
  BY <1>1, JournalKept, PTL

-----------------------------------------------------------------------------
(* The text that is hashed for an export. *)

\* The characters.  (Provers do not know of a literal that it is in STRING.)
Char == STRING \cup {"-", "TAB", "LF"}

Dashed(c) == [i \in DOMAIN c |-> IF c[i] = "EN_DASH" THEN "-" ELSE c[i]]

LEMMA DashedIs ==
    ASSUME NEW c \in Seq(Char)
    PROVE  /\ Dashed(c) \in Seq(Char) /\ Len(Dashed(c)) = Len(c)
           /\ \A i \in 1 .. Len(c) : Dashed(c)[i] = IF c[i] = "EN_DASH" THEN "-" ELSE c[i]
<1> DEFINE d == Dashed(c)
<1>1. Len(c) \in Nat /\ DOMAIN c = 1 .. Len(c)
  OBVIOUS
<1>2. \A i \in 1 .. Len(c) : c[i] \in Char
  BY <1>1
<1>3. d = [i \in 1 .. Len(c) |-> IF c[i] = "EN_DASH" THEN "-" ELSE c[i]]
  BY <1>1 DEF Dashed
<1>4. "-" \in Char
  BY DEF Char
<1>5. \A i \in 1 .. Len(c) : d[i] \in Char /\ d[i] = IF c[i] = "EN_DASH" THEN "-" ELSE c[i]
  BY <1>2, <1>3, <1>4
<1>6. DOMAIN d = 1 .. Len(c)
  BY <1>3
<1> HIDE DEF d
<1>7. d = [i \in 1 .. Len(c) |-> d[i]]
  BY <1>3, <1>6
<1>8. d \in [1 .. Len(c) -> Char]
  BY <1>5, <1>7
<1>9. d \in Seq(Char) /\ Len(d) = Len(c)
  BY <1>1, <1>6, <1>8
<1>10. QED
  BY <1>5, <1>9 DEF d

LEMMA NormaliseCellIs ==
    ASSUME NEW c \in Seq(Char)
    PROVE  \E k : EndsAt(Dashed(c), k, Whitespace) /\ NormaliseCell(c) = SubSeq(Dashed(c), 1, k)
<1> DEFINE d == Dashed(c)
           k == CHOOSE k \in 0 .. Len(d) : EndsAt(d, k, Whitespace)
<1>1. Len(d) \in Nat
  <2>1. Len(d) = Len(c) /\ Len(c) \in Nat
    BY DashedIs
  <2>2. QED
    BY <2>1
<1> HIDE DEF d
<1>2. EndsAt(d, k, Whitespace)
  BY <1>1, EndExists
<1>3. k = CHOOSE l \in 0 .. Len(d) : /\ l > 0 => d[l] \notin Whitespace
                                     /\ \A i \in l + 1 .. Len(d) : d[i] \in Whitespace
  BY DEF EndsAt
<1>4. NormaliseCell(c) = TrimRight(d, Whitespace)
  BY DEF NormaliseCell, d, Dashed
<1> HIDE DEF k
<1>5. TrimRight(d, Whitespace) = SubSeq(d, 1, k)
  BY <1>3 DEF TrimRight
<1>6. QED
  BY <1>2, <1>4, <1>5 DEF d

\* The text of a cell as NormaliseCell leaves it.
Normal(c) ==
    /\ c \in Seq(Char)
    /\ \A i \in 1 .. Len(c) : c[i] # "EN_DASH"
    /\ Len(c) > 0 => c[Len(c)] \notin Whitespace

LEMMA Normalised ==
    ASSUME NEW c \in Seq(Char)
    PROVE  Normal(NormaliseCell(c))
<1> DEFINE d == Dashed(c)
           t == NormaliseCell(c)
<1>1. PICK k : EndsAt(d, k, Whitespace) /\ t = SubSeq(d, 1, k)
  BY NormaliseCellIs
<1>2. /\ d \in Seq(Char) /\ Len(d) = Len(c) /\ Len(c) \in Nat
      /\ \A i \in 1 .. Len(c) : d[i] # "EN_DASH"
  <2>1. /\ d \in Seq(Char) /\ Len(d) = Len(c)
        /\ \A i \in 1 .. Len(c) : d[i] = IF c[i] = "EN_DASH" THEN "-" ELSE c[i]
    BY DashedIs
  <2>2. Len(c) \in Nat
    OBVIOUS
  <2>3. QED
    BY <2>1, <2>2
<1> HIDE DEF d, t
<1>3. k \in 0 .. Len(d) /\ (k > 0 => d[k] \notin Whitespace)
  BY <1>1 DEF EndsAt
<1>4. t \in Seq(Char) /\ Len(t) = k /\ \A i \in 1 .. k : t[i] = d[i]
  BY <1>1, <1>2, <1>3
<1>5. \A i \in 1 .. Len(t) : t[i] # "EN_DASH"
  BY <1>2, <1>3, <1>4
<1>6. Len(t) > 0 => t[Len(t)] \notin Whitespace
  BY <1>3, <1>4
<1>7. QED
  BY <1>4, <1>5, <1>6 DEF Normal, t

\* Normalising twice is normalising once.
LEMMA NormalStays ==
    ASSUME NEW c, Normal(c)
    PROVE  NormaliseCell(c) = c
<1>1. /\ c \in Seq(Char) /\ Len(c) \in Nat
      /\ \A i \in 1 .. Len(c) : c[i] # "EN_DASH"
      /\ Len(c) > 0 => c[Len(c)] \notin Whitespace
  BY DEF Normal
<1>2. Dashed(c) = c
  <2>1. \A i \in 1 .. Len(c) : Dashed(c)[i] = c[i]
    BY <1>1, DashedIs
  <2>2. Dashed(c) \in Seq(Char) /\ Len(Dashed(c)) = Len(c)
    BY <1>1, DashedIs
  <2> DEFINE T == Char
             d == Dashed(c)
  <2>3. d \in Seq(T) /\ c \in Seq(T) /\ Len(d) = Len(c) /\ \A i \in 1 .. Len(d) : d[i] = c[i]
    BY <1>1, <2>1, <2>2
  <2> HIDE DEF T, d
  <2>4. d = c
    BY <2>3, SeqEqual
  <2>5. QED
    BY <2>4 DEF d
<1>3. PICK k : EndsAt(c, k, Whitespace) /\ NormaliseCell(c) = SubSeq(c, 1, k)
  BY <1>1, <1>2, NormaliseCellIs
<1>4. EndsAt(c, Len(c), Whitespace)
  BY <1>1 DEF EndsAt
<1>5. k = Len(c)
  BY <1>1, <1>3, <1>4, EndExists
<1>6. QED
  BY <1>1, <1>3, <1>5

\* c is parts with sep between them: part i begins after place at[i].
IsJoined(at, n, parts, sep, c) ==
    /\ at \in [1 .. n + 1 -> Nat] /\ at[1] = 0 /\ at[n + 1] = Len(c) + 1
    /\ \A i \in 1 .. n : at[i + 1] = at[i] + Len(parts[i]) + 1
    /\ \A i \in 1 .. n : \A l \in 1 .. Len(parts[i]) : c[at[i] + l] = parts[i][l]
    /\ \A i \in 1 .. n : i < n => at[i + 1] <= Len(c) /\ c[at[i + 1]] = sep

\* sep is in none of the parts.
Free(parts, sep) ==
    \A i \in DOMAIN parts : \A l \in 1 .. Len(parts[i]) : parts[i][l] # sep

\* Two ways to cut c at sep do not differ in where the next part begins.
LEMMA CutOn ==
    ASSUME NEW n \in Nat, NEW m \in Nat, NEW a, NEW b, NEW sep, NEW c, NEW at, NEW bt,
           IsJoined(at, n, a, sep, c), IsJoined(bt, m, b, sep, c), Len(c) \in Nat,
           \A i \in 1 .. n : Len(a[i]) \in Nat, \A i \in 1 .. m : Len(b[i]) \in Nat,
           \A i \in 1 .. m : \A l \in 1 .. Len(b[i]) : b[i][l] # sep,
           NEW i \in 1 .. n, i \in 1 .. m, at[i] = bt[i], i < n
    PROVE  i < m /\ bt[i + 1] <= at[i + 1]
<1>0. at \in [1 .. n + 1 -> Nat] /\ bt \in [1 .. m + 1 -> Nat] /\ i + 1 \in 1 .. n + 1 /\ i \in 1 .. m + 1
  BY DEF IsJoined
<1> DEFINE p == at[i + 1]
           h == Len(b[i])
           o == bt[i]
<1>1. p = at[i] + Len(a[i]) + 1 /\ p <= Len(c) /\ c[p] = sep
  BY DEF IsJoined
<1>2. bt[i + 1] = o + h + 1 /\ \A l \in 1 .. h : c[o + l] = b[i][l]
  BY DEF IsJoined
<1>3. o \in Nat /\ h \in Nat /\ Len(a[i]) \in Nat /\ \A l \in 1 .. h : b[i][l] # sep
  BY <1>0
<1>4. p = o + Len(a[i]) + 1 /\ p \in Nat
  BY <1>1, <1>3
<1> HIDE DEF p, h, o
<1>5. p >= o + h + 1
  <2> SUFFICES ASSUME p <= o + h PROVE FALSE
    BY <1>3, <1>4
  <2>1. p - o \in 1 .. h /\ o + (p - o) = p
    BY <1>3, <1>4
  <2>2. c[p] = b[i][p - o]
    BY <1>2, <2>1
  <2>3. QED
    BY <1>1, <1>3, <2>1, <2>2
<1>6. i # m
  <2> SUFFICES ASSUME i = m PROVE FALSE
    OBVIOUS
  <2>1. bt[i + 1] = Len(c) + 1
    BY DEF IsJoined
  <2>2. QED
    BY <1>1, <1>2, <1>3, <1>4, <1>5, <2>1
<1>7. QED
  BY <1>2, <1>5, <1>6 DEF p

\* Parts without sep in them can be read off what they are joined to.
LEMMA CutOnce ==
    ASSUME NEW T, NEW n \in Nat \ {0}, NEW m \in Nat \ {0}, NEW a \in [1 .. n -> Seq(T)], NEW b \in [1 .. m -> Seq(T)],
           NEW sep, NEW c, Len(c) \in Nat, NEW at, NEW bt,
           IsJoined(at, n, a, sep, c), IsJoined(bt, m, b, sep, c), Free(a, sep), Free(b, sep)
    PROVE  a = b
<1>1. (\A i \in 1 .. n : Len(a[i]) \in Nat) /\ \A i \in 1 .. m : Len(b[i]) \in Nat
  OBVIOUS
<1>2. /\ \A i \in 1 .. n : \A l \in 1 .. Len(a[i]) : a[i][l] # sep
      /\ \A i \in 1 .. m : \A l \in 1 .. Len(b[i]) : b[i][l] # sep
  BY DEF Free
<1>3. /\ at \in [1 .. n + 1 -> Nat] /\ at[1] = 0 /\ bt \in [1 .. m + 1 -> Nat] /\ bt[1] = 0
      /\ at[n + 1] = Len(c) + 1 /\ bt[m + 1] = Len(c) + 1
  BY DEF IsJoined
<1>4. ASSUME NEW i \in 1 .. n, i \in 1 .. m, at[i] = bt[i]
      PROVE  (i < n <=> i < m) /\ (i < n => at[i + 1] = bt[i + 1])
  <2>1. i < n => i < m /\ bt[i + 1] <= at[i + 1]
    BY <1>1, <1>2, <1>4, CutOn
  <2>2. i < m => i < n /\ at[i + 1] <= bt[i + 1]
    BY <1>1, <1>2, <1>4, CutOn
  <2>3. at[i + 1] \in Nat /\ bt[i + 1] \in Nat
    BY <1>3, <1>4
  <2>4. QED
    BY <2>1, <2>2, <2>3
<1> DEFINE S == {k \in Nat : (k + 1 <= n <=> k + 1 <= m) /\ (k + 1 <= n => at[k + 1] = bt[k + 1])}
<1>5. 0 \in S
  BY <1>3
<1>6. ASSUME NEW k \in Nat, k \in S PROVE k + 1 \in S
  <2>1. CASE k + 1 <= n
    <3> DEFINE i == k + 1
    <3>1. i \in 1 .. n /\ i \in 1 .. m /\ at[i] = bt[i]
      BY <1>6, <2>1
    <3>2. (i < n <=> i < m) /\ (i < n => at[i + 1] = bt[i + 1])
      BY <1>4, <3>1
    <3>3. (i + 1 <= n <=> i < n) /\ (i + 1 <= m <=> i < m)
      OBVIOUS
    <3>4. QED
      BY <3>2, <3>3
  <2>2. CASE ~(k + 1 <= n)
    <3>1. ~(k + 1 <= m) /\ ~(k + 1 + 1 <= n) /\ ~(k + 1 + 1 <= m)
      BY <1>6, <2>2
    <3>2. QED
      BY <3>1
  <2>3. QED
    BY <2>1, <2>2
<1> HIDE DEF S
<1>7. \A k \in Nat : k \in S
  BY <1>5, <1>6, Induction
<1>8. ASSUME NEW i \in Nat \ {0} PROVE (i <= n <=> i <= m) /\ (i <= n => at[i] = bt[i])
  <2>1. i - 1 \in Nat /\ i - 1 + 1 = i
    OBVIOUS
  <2>2. QED
    BY <1>7, <2>1 DEF S
<1>9. n = m
  BY <1>8
<1>10. \A i \in 1 .. n + 1 : at[i] = bt[i]
  <2> SUFFICES ASSUME NEW i \in 1 .. n + 1 PROVE at[i] = bt[i]
    OBVIOUS
  <2>1. i = n + 1 \/ i <= n
    OBVIOUS
  <2>2. QED
    BY <1>3, <1>8, <1>9, <2>1
<1>11. ASSUME NEW i \in 1 .. n PROVE a[i] = b[i]
  <2>1. a[i] \in Seq(T) /\ b[i] \in Seq(T) /\ Len(a[i]) \in Nat /\ Len(b[i]) \in Nat
    BY <1>9
  <2>2. at[i] = bt[i] /\ at[i + 1] = bt[i + 1] /\ at[i] \in Nat
    BY <1>3, <1>10
  <2> DEFINE k == Len(a[i])
             g == Len(b[i])
             p == at[i]
  <2>3. at[i + 1] = p + k + 1 /\ bt[i + 1] = bt[i] + g + 1
    BY <1>9 DEF IsJoined
  <2> HIDE DEF k, g, p
  <2>4. p + k + 1 = p + g + 1 /\ p \in Nat /\ k \in Nat /\ g \in Nat
    BY <2>1, <2>2, <2>3 DEF k, g, p
  <2>5. k = g
    BY <2>4
  <2>6. Len(a[i]) = Len(b[i])
    BY <2>5 DEF k, g
  <2>7. \A l \in 1 .. Len(a[i]) : a[i][l] = c[at[i] + l]
    BY DEF IsJoined
  <2>8. \A l \in 1 .. Len(b[i]) : b[i][l] = c[bt[i] + l]
    BY <1>9 DEF IsJoined
  <2>9. \A l \in 1 .. Len(a[i]) : a[i][l] = b[i][l]
    BY <2>2, <2>6, <2>7, <2>8
  <2>10. QED
    BY <2>1, <2>6, <2>9, SeqEqual
<1>12. QED
  BY <1>9, <1>11

\* Joined lays the parts down with the separator before each but the first.
JoinedParts(seqs, sep) == [i \in DOMAIN seqs |-> IF i = 1 THEN seqs[i] ELSE <<sep>> \o seqs[i]]

Separated(p, T, seqs, sep) ==
    /\ p \in Seq(Seq(T)) /\ Len(p) = Len(seqs)
    /\ 1 \in 1 .. Len(seqs) => p[1] = seqs[1]
    /\ \A i \in 2 .. Len(seqs) :
          /\ Len(p[i]) = Len(seqs[i]) + 1 /\ p[i][1] = sep
          /\ \A l \in 1 .. Len(seqs[i]) : p[i][l + 1] = seqs[i][l]

LEMMA JoinedPartsAre ==
    ASSUME NEW T, NEW sep \in T, NEW seqs \in Seq(Seq(T))
    PROVE  Separated(JoinedParts(seqs, sep), T, seqs, sep)
<1> DEFINE n == Len(seqs)
           p == JoinedParts(seqs, sep)
<1>1. n \in Nat /\ DOMAIN seqs = 1 .. n /\ \A i \in 1 .. n : seqs[i] \in Seq(T)
  OBVIOUS
<1>2. p = [i \in 1 .. n |-> IF i = 1 THEN seqs[i] ELSE <<sep>> \o seqs[i]]
  BY <1>1 DEF JoinedParts
<1> HIDE DEF p, n
<1>3. ASSUME NEW i \in 2 .. n
      PROVE  /\ p[i] \in Seq(T) /\ Len(p[i]) = Len(seqs[i]) + 1 /\ p[i][1] = sep
             /\ \A l \in 1 .. Len(seqs[i]) : p[i][l + 1] = seqs[i][l]
  <2>1. i \in 1 .. n /\ i # 1
    BY <1>1
  <2>2. p[i] = <<sep>> \o seqs[i]
    BY <1>2, <2>1
  <2>3. seqs[i] \in Seq(T) /\ <<sep>> \in Seq(T) /\ Len(<<sep>>) = 1 /\ <<sep>>[1] = sep
    BY <1>1, <2>1
  <2> DEFINE a == <<sep>>
             b == seqs[i]
             q == p[i]
  <2>4. q = a \o b /\ a \in Seq(T) /\ b \in Seq(T) /\ Len(a) = 1 /\ a[1] = sep
    BY <2>2, <2>3
  <2> HIDE DEF a, b, q
  <2>5. q \in Seq(T) /\ Len(q) = Len(b) + 1 /\ q[1] = sep /\ \A l \in 1 .. Len(b) : q[l + 1] = b[l]
    <3>1. /\ q \in Seq(T) /\ Len(q) = 1 + Len(b) /\ Len(b) \in Nat
          /\ \A k \in 1 .. 1 + Len(b) : q[k] = IF k <= 1 THEN a[k] ELSE b[k - 1]
      <4>1. /\ a \o b \in Seq(T) /\ Len(a \o b) = Len(a) + Len(b) /\ Len(b) \in Nat
            /\ \A k \in 1 .. Len(a) + Len(b) : (a \o b)[k] = IF k <= Len(a) THEN a[k] ELSE b[k - Len(a)]
        <5>1. a \in Seq(T) /\ b \in Seq(T)
          BY <2>4
        <5>2. Len(b) \in Nat
          BY <2>4
        <5>3. QED
          BY <5>1, <5>2, ConcatProperties
      <4>2. QED
        BY <2>4, <4>1
    <3>2. 1 \in 1 .. 1 + Len(b) /\ q[1] = a[1]
      BY <3>1
    <3>3. \A l \in 1 .. Len(b) : l + 1 \in 1 .. 1 + Len(b) /\ ~(l + 1 <= 1) /\ l + 1 - 1 = l
      BY <3>1
    <3>4. QED
      BY <2>4, <3>1, <3>2, <3>3
  <2>6. QED
    BY <2>5 DEF b, q
<1>4. 1 \in 1 .. n => p[1] = seqs[1] /\ p[1] \in Seq(T)
  BY <1>1, <1>2
<1>5. ASSUME NEW i \in 1 .. n PROVE p[i] \in Seq(T)
  <2>1. i = 1 \/ i \in 2 .. n
    OBVIOUS
  <2>2. QED
    BY <1>3, <1>4, <2>1
<1>6. p \in Seq(Seq(T)) /\ Len(p) = n
  <2>1. DOMAIN p = 1 .. n
    BY <1>2
  <2>2. p = [i \in 1 .. n |-> p[i]]
    BY <1>2, <2>1
  <2>3. p \in [1 .. n -> Seq(T)]
    BY <1>5, <2>2
  <2>4. QED
    BY <1>1, <2>1, <2>3
<1>7. QED
  BY <1>3, <1>4, <1>6 DEF p, n, Separated

\* The characters of what is joined are those of the parts, and the separator.
HasNone(c, x) == \A k \in 1 .. Len(c) : c[k] # x

LEMMA JoinedIs ==
    ASSUME NEW T, NEW sep \in T, NEW seqs \in Seq(Seq(T)), seqs # <<>>
    PROVE  /\ Joined(seqs, sep) \in Seq(T)
           /\ \E at : IsJoined(at, Len(seqs), seqs, sep, Joined(seqs, sep))
           /\ \A x : x # sep /\ Free(seqs, x) => HasNone(Joined(seqs, sep), x)
<1> DEFINE n == Len(seqs)
           p == JoinedParts(seqs, sep)
           c == Joined(seqs, sep)
<1>1. n \in Nat \ {0} /\ DOMAIN seqs = 1 .. n /\ \A i \in 1 .. n : seqs[i] \in Seq(T) /\ Len(seqs[i]) \in Nat
  OBVIOUS
<1>2. c = FlattenSeq(p)
  BY DEF Joined, JoinedParts
<1>3. /\ p \in Seq(Seq(T)) /\ Len(p) = n
      /\ 1 \in 1 .. n => p[1] = seqs[1]
      /\ \A i \in 2 .. n :
            /\ Len(p[i]) = Len(seqs[i]) + 1 /\ p[i][1] = sep
            /\ \A l \in 1 .. Len(seqs[i]) : p[i][l + 1] = seqs[i][l]
  <2>1. Separated(p, T, seqs, sep)
    BY JoinedPartsAre
  <2> HIDE DEF p
  <2>2. QED
    BY <2>1 DEF Separated
<1> HIDE DEF n, p, c
<1>4. c \in Seq(T) /\ \E at : Laid(at, n, p, c)
  BY <1>1, <1>2, <1>3, FlattenLays
<1>5. PICK at : Laid(at, n, p, c)
  BY <1>4
<1>6. /\ at \in [1 .. n + 1 -> Nat] /\ at[1] = 0 /\ at[n + 1] = Len(c)
      /\ \A i \in 1 .. n : at[i + 1] = at[i] + Len(p[i])
      /\ \A i \in 1 .. n : \A l \in 1 .. Len(p[i]) : c[at[i] + l] = p[i][l]
  BY <1>5 DEF Laid
<1>7. Len(c) \in Nat /\ \A i \in 1 .. n : p[i] \in Seq(T) /\ Len(p[i]) \in Nat
  BY <1>3, <1>4
<1>8. \A i \in 1 .. n + 1 : at[i] <= Len(c)
  BY <1>1, <1>5, <1>7, LaidWithin
<1> DEFINE st == [i \in 1 .. n + 1 |-> IF i = 1 THEN 0 ELSE at[i] + 1]
<1>9. st \in [1 .. n + 1 -> Nat] /\ st[1] = 0 /\ st[n + 1] = Len(c) + 1
  <2>1. 1 \in 1 .. n + 1 /\ n + 1 \in 1 .. n + 1 /\ n + 1 # 1
    BY <1>1
  <2>2. \A i \in 1 .. n + 1 : at[i] \in Nat
    BY <1>6
  <2>3. QED
    BY <1>6, <2>1, <2>2
<1>10. \A i \in 2 .. n + 1 : st[i] = at[i] + 1
  BY <1>1
<1> HIDE DEF st
<1>11. ASSUME NEW i \in 1 .. n
       PROVE  /\ st[i + 1] = st[i] + Len(seqs[i]) + 1
              /\ \A l \in 1 .. Len(seqs[i]) : c[st[i] + l] = seqs[i][l]
  <2>1. i + 1 \in 2 .. n + 1 /\ at[i] \in Nat /\ Len(seqs[i]) \in Nat /\ i \in 1 .. n + 1
    BY <1>1, <1>6
  <2>2. st[i + 1] = at[i] + Len(p[i]) + 1
    BY <1>6, <1>10, <2>1
  <2>3. CASE i = 1
    <3>1. p[i] = seqs[i] /\ at[i] = 0 /\ st[i] = 0
      BY <1>3, <1>6, <1>9, <2>3
    <3>2. QED
      BY <1>6, <2>1, <2>2, <3>1
  <2>4. CASE i # 1
    <3>1. i \in 2 .. n /\ i \in 2 .. n + 1
      BY <1>1, <2>4
    <3>2. /\ Len(p[i]) = Len(seqs[i]) + 1 /\ st[i] = at[i] + 1
          /\ \A l \in 1 .. Len(seqs[i]) : p[i][l + 1] = seqs[i][l]
      BY <1>3, <1>10, <3>1
    <3> DEFINE k == Len(seqs[i])
               o == at[i]
    <3>3. k \in Nat /\ o \in Nat /\ st[i] = o + 1 /\ Len(p[i]) = k + 1
      BY <2>1, <3>2
    <3>4. \A h \in 1 .. Len(p[i]) : c[o + h] = p[i][h]
      BY <1>6
    <3>5. st[i + 1] = o + Len(p[i]) + 1
      BY <2>2
    <3>6. \A l \in 1 .. k : p[i][l + 1] = seqs[i][l]
      BY <3>2
    <3> HIDE DEF k, o
    <3>7. ASSUME NEW l \in 1 .. k PROVE c[st[i] + l] = seqs[i][l]
      <4>1. l + 1 \in 1 .. Len(p[i]) /\ st[i] + l = o + (l + 1)
        BY <3>3
      <4>2. QED
        BY <3>4, <3>6, <4>1
    <3>8. st[i + 1] = st[i] + k + 1
      BY <3>3, <3>5
    <3>9. QED
      BY <3>7, <3>8 DEF k
  <2>5. QED
    BY <2>3, <2>4
<1>12. ASSUME NEW i \in 1 .. n, i < n PROVE st[i + 1] <= Len(c) /\ c[st[i + 1]] = sep
  <2> DEFINE m == i + 1
  <2>1. m \in 1 .. n /\ m \in 2 .. n /\ m \in 2 .. n + 1 /\ m + 1 \in 1 .. n + 1 /\ m \in 1 .. n + 1
    BY <1>1, <1>12
  <2> HIDE DEF m
  <2>2. st[m] = at[m] + 1 /\ at[m] \in Nat
    BY <1>6, <1>10, <2>1
  <2>3. Len(p[m]) = Len(seqs[m]) + 1 /\ p[m][1] = sep /\ Len(seqs[m]) \in Nat
    BY <1>1, <1>3, <2>1
  <2>4. at[m + 1] = at[m] + Len(p[m]) /\ at[m + 1] <= Len(c)
    BY <1>6, <1>8, <2>1
  <2>5. st[m] <= Len(c)
    BY <1>7, <2>2, <2>3, <2>4
  <2>6. 1 \in 1 .. Len(p[m])
    BY <2>3
  <2>7. c[at[m] + 1] = p[m][1]
    BY <1>6, <2>1, <2>6
  <2>8. QED
    BY <2>2, <2>3, <2>5, <2>7 DEF m
<1>13. IsJoined(st, n, seqs, sep, c)
  BY <1>9, <1>11, <1>12 DEF IsJoined
<1>14. ASSUME NEW x, x # sep, Free(seqs, x) PROVE HasNone(c, x)
  <2>1. Placed(at, n, p, c)
    BY <1>1, <1>4, <1>5, <1>7, LaidPlaces
  <2> SUFFICES ASSUME NEW k \in 1 .. Len(c) PROVE c[k] # x
    BY DEF HasNone
  <2>2. PICK i \in 1 .. n : \E l \in 1 .. Len(p[i]) : k = at[i] + l
    BY <2>1 DEF Placed
  <2>3. PICK l \in 1 .. Len(p[i]) : k = at[i] + l
    BY <2>2
  <2>4. c[k] = p[i][l]
    BY <1>6, <2>3
  <2>5. \A h \in 1 .. Len(seqs[i]) : seqs[i][h] # x
    BY <1>1, <1>14 DEF Free
  <2>6. CASE i = 1
    <3>1. p[i] = seqs[i]
      BY <1>3, <2>6
    <3>2. QED
      BY <2>4, <2>5, <3>1
  <2>7. CASE i # 1
    <3>1. i \in 2 .. n
      BY <2>7
    <3>2. /\ Len(p[i]) = Len(seqs[i]) + 1 /\ p[i][1] = sep /\ Len(seqs[i]) \in Nat
          /\ \A h \in 1 .. Len(seqs[i]) : p[i][h + 1] = seqs[i][h]
      BY <1>1, <1>3, <3>1
    <3>3. CASE l = 1
      BY <1>14, <2>4, <3>2, <3>3
    <3>4. CASE l # 1
      <4>1. l - 1 \in 1 .. Len(seqs[i]) /\ (l - 1) + 1 = l
        BY <3>2, <3>4
      <4>2. p[i][l] = seqs[i][l - 1]
        BY <3>2, <4>1
      <4>3. QED
        BY <2>4, <2>5, <4>1, <4>2
    <3>5. QED
      BY <3>3, <3>4
  <2>8. QED
    BY <2>6, <2>7
<1>15. QED
  BY <1>4, <1>13, <1>14 DEF n, c

LEMMA JoinedOnce ==
    ASSUME NEW T, NEW sep \in T, NEW a \in Seq(Seq(T)), NEW b \in Seq(Seq(T)), a # <<>>, b # <<>>,
           Free(a, sep), Free(b, sep), Joined(a, sep) = Joined(b, sep)
    PROVE  a = b
<1> DEFINE c == Joined(a, sep)
           n == Len(a)
           m == Len(b)
<1>1. c \in Seq(T) /\ \E at : IsJoined(at, n, a, sep, c)
  BY JoinedIs
<1>2. \E bt : IsJoined(bt, m, b, sep, c)
  BY JoinedIs
<1>3. /\ n \in Nat \ {0} /\ m \in Nat \ {0}
      /\ a \in [1 .. n -> Seq(T)] /\ b \in [1 .. m -> Seq(T)]
  OBVIOUS
<1> HIDE DEF c, n, m
<1>4. Len(c) \in Nat
  BY <1>1
<1>5. PICK at : IsJoined(at, n, a, sep, c)
  BY <1>1
<1>6. PICK bt : IsJoined(bt, m, b, sep, c)
  BY <1>2
<1>7. QED
  BY <1>3, <1>4, <1>5, <1>6, CutOnce

-----------------------------------------------------------------------------
(* The text of a file can be cut into its cells in one way, though a line   *)
(* in a cell ends with the character a row ends with.                       *)

\* A file as Read returns it: rows of normalised cells.
IsFile(f) ==
    /\ f \in Seq(Seq(Seq(Char))) /\ f # <<>>
    /\ \A i \in 1 .. Len(f) : f[i] # <<>>
    /\ \A i \in 1 .. Len(f) : \A j \in 1 .. Len(f[i]) : Normal(f[i][j])

\* Rows of one width, without tabs, and with one line in each header and in
\* each cell of the first column.
Marked(f) ==
    /\ \A i \in 1 .. Len(f) :
          /\ Len(f[i]) = Len(f[1])
          /\ Free(f[i], "TAB")
          /\ HasNone(f[i][1], "LF")
    /\ Free(f[1], "LF")

RowTexts(f) == [i \in DOMAIN f |-> Joined(f[i], "TAB")]

LEMMA HashIs ==
    ASSUME NEW f, IsFile(f)
    PROVE  ContentHash(f) = Joined(RowTexts(f), "LF")
<1>1. /\ f \in Seq(Seq(Seq(Char))) /\ DOMAIN f = 1 .. Len(f)
      /\ \A i \in 1 .. Len(f) : f[i] \in Seq(Seq(Char))
      /\ \A i \in 1 .. Len(f) : \A j \in 1 .. Len(f[i]) : Normal(f[i][j])
  BY DEF IsFile
<1>2. ASSUME NEW i \in DOMAIN f
      PROVE  [j \in DOMAIN f[i] |-> NormaliseCell(f[i][j])] = f[i]
  <2> DEFINE row == f[i]
  <2>1. row \in Seq(Seq(Char)) /\ \A j \in 1 .. Len(row) : Normal(row[j])
    BY <1>1, <1>2
  <2> HIDE DEF row
  <2>2. DOMAIN row = 1 .. Len(row) /\ row = [j \in DOMAIN row |-> row[j]]
    BY <2>1
  <2>3. \A j \in DOMAIN row : NormaliseCell(row[j]) = row[j]
    BY <2>1, <2>2, NormalStays
  <2>4. [j \in DOMAIN row |-> NormaliseCell(row[j])] = [j \in DOMAIN row |-> row[j]]
    BY <2>3
  <2>5. QED
    BY <2>2, <2>4 DEF row
<1>3. [i \in DOMAIN f |-> Joined([j \in DOMAIN f[i] |-> NormaliseCell(f[i][j])], "TAB")] = RowTexts(f)
  BY <1>2 DEF RowTexts
<1>4. QED
  BY <1>3 DEF ContentHash

LEMMA RowTextsAre ==
    ASSUME NEW f, IsFile(f)
    PROVE  /\ RowTexts(f) \in Seq(Seq(Char)) /\ Len(RowTexts(f)) = Len(f)
           /\ \A i \in 1 .. Len(f) :
                 /\ RowTexts(f)[i] = Joined(f[i], "TAB")
                 /\ \E bt : IsJoined(bt, Len(f[i]), f[i], "TAB", RowTexts(f)[i])
                 /\ Free(f[i], "LF") => HasNone(RowTexts(f)[i], "LF")
<1> DEFINE n == Len(f)
           t == RowTexts(f)
<1>1. /\ n \in Nat /\ DOMAIN f = 1 .. n
      /\ \A i \in 1 .. n : f[i] \in Seq(Seq(Char)) /\ f[i] # <<>>
  BY DEF IsFile
<1>2. t = [i \in 1 .. n |-> Joined(f[i], "TAB")]
  BY <1>1 DEF RowTexts
<1> HIDE DEF n, t
<1>3. "TAB" \in Char /\ "LF" # "TAB"
  BY DEF Char
<1>4. ASSUME NEW i \in 1 .. n
      PROVE  /\ t[i] \in Seq(Char)
             /\ \E bt : IsJoined(bt, Len(f[i]), f[i], "TAB", t[i])
             /\ Free(f[i], "LF") => HasNone(t[i], "LF")
  <2> DEFINE row == f[i]
  <2>1. row \in Seq(Seq(Char)) /\ row # <<>>
    BY <1>1
  <2> HIDE DEF row
  <2>2. /\ Joined(row, "TAB") \in Seq(Char)
        /\ \E bt : IsJoined(bt, Len(row), row, "TAB", Joined(row, "TAB"))
        /\ Free(row, "LF") => HasNone(Joined(row, "TAB"), "LF")
    BY <1>3, <2>1, JoinedIs
  <2>3. t[i] = Joined(row, "TAB")
    BY <1>2 DEF row
  <2>4. QED
    BY <2>2, <2>3 DEF row
<1>5. DOMAIN t = 1 .. n /\ t \in [1 .. n -> Seq(Char)]
  <2>1. DOMAIN t = 1 .. n /\ t = [i \in 1 .. n |-> t[i]]
    BY <1>2
  <2>2. QED
    BY <1>4, <2>1
<1>6. t \in Seq(Seq(Char)) /\ Len(t) = n
  BY <1>1, <1>5
<1>7. \A i \in 1 .. n : t[i] = Joined(f[i], "TAB")
  BY <1>2
<1>8. QED
  BY <1>4, <1>6, <1>7 DEF n, t

\* A row of n cells lies in c after place o: cell j begins after rt[j].
RowLies(rt, n, row, o, c) ==
    /\ rt \in [1 .. n + 1 -> Nat] /\ rt[1] = o
    /\ \A j \in 1 .. n : rt[j + 1] = rt[j] + Len(row[j]) + 1
    /\ \A j \in 1 .. n : \A l \in 1 .. Len(row[j]) : c[rt[j] + l] = row[j][l]
    /\ \A j \in 1 .. n : j < n => rt[j + 1] <= Len(c) /\ c[rt[j + 1]] = "TAB"

RowFills(n, row, o, e, c) == \E rt : RowLies(rt, n, row, o, c) /\ rt[n + 1] = e

\* The m rows of n cells make up c: row i begins after at[i].
FileLies(at, m, n, f, c) ==
    /\ at \in [1 .. m + 1 -> Nat] /\ at[1] = 0 /\ at[m + 1] = Len(c) + 1
    /\ \A i \in 1 .. m : i < m => at[i + 1] <= Len(c) /\ c[at[i + 1]] = "LF"
    /\ \A i \in 1 .. m : RowFills(n, f[i], at[i], at[i + 1], c)

Counted(n, row) == \A j \in 1 .. n : Len(row[j]) \in Nat

\* t stands in c after place o.
Spells(c, o, t) == \A l \in 1 .. Len(t) : c[o + l] = t[l]

\* A row joined to a part of c lies in c.
LEMMA JoinedLies ==
    ASSUME NEW n \in Nat \ {0}, NEW row, NEW t, Len(t) \in Nat, NEW bt, IsJoined(bt, n, row, "TAB", t),
           Counted(n, row), NEW o \in Nat, NEW c, Len(c) \in Nat, o + Len(t) <= Len(c), Spells(c, o, t),
           NEW e, e = o + Len(t) + 1
    PROVE  RowFills(n, row, o, e, c)
<1>1. /\ bt \in [1 .. n + 1 -> Nat] /\ bt[1] = 0 /\ bt[n + 1] = Len(t) + 1
      /\ \A j \in 1 .. n : bt[j + 1] = bt[j] + Len(row[j]) + 1
      /\ \A j \in 1 .. n : \A l \in 1 .. Len(row[j]) : t[bt[j] + l] = row[j][l]
      /\ \A j \in 1 .. n : j < n => bt[j + 1] <= Len(t) /\ t[bt[j + 1]] = "TAB"
  BY DEF IsJoined
<1>0. \A j \in 1 .. n : Len(row[j]) \in Nat
  BY DEF Counted
<1>2. \A j \in 1 .. n : bt[j + 1] <= Len(t) + 1
  <2> SUFFICES ASSUME NEW j \in 1 .. n PROVE bt[j + 1] <= Len(t) + 1
    OBVIOUS
  <2>1. j < n \/ j = n
    OBVIOUS
  <2>2. bt[j + 1] \in Nat
    BY <1>1
  <2>3. QED
    BY <1>1, <2>1, <2>2
<1> DEFINE rt == [j \in 1 .. n + 1 |-> o + bt[j]]
<1>3. /\ rt \in [1 .. n + 1 -> Nat] /\ rt[1] = o /\ rt[n + 1] = o + Len(t) + 1
      /\ \A j \in 1 .. n + 1 : rt[j] = o + bt[j] /\ bt[j] \in Nat
  <2>1. \A j \in 1 .. n + 1 : bt[j] \in Nat /\ o + bt[j] \in Nat
    BY <1>1
  <2>2. \A j \in 1 .. n + 1 : rt[j] = o + bt[j]
    OBVIOUS
  <2>3. rt \in [1 .. n + 1 -> Nat]
    BY <2>1
  <2>4. 1 \in 1 .. n + 1 /\ n + 1 \in 1 .. n + 1 /\ bt[1] = 0 /\ bt[n + 1] = Len(t) + 1
    BY <1>1
  <2> HIDE DEF rt
  <2>5. rt[1] = o /\ rt[n + 1] = o + Len(t) + 1
    BY <2>2, <2>4
  <2>6. QED
    BY <2>1, <2>2, <2>3, <2>5
<1> HIDE DEF rt
<1>4. ASSUME NEW j \in 1 .. n
      PROVE  /\ rt[j + 1] = rt[j] + Len(row[j]) + 1
             /\ \A l \in 1 .. Len(row[j]) : c[rt[j] + l] = row[j][l]
             /\ j < n => rt[j + 1] <= Len(c) /\ c[rt[j + 1]] = "TAB"
  <2> DEFINE p == bt[j]
             q == bt[j + 1]
             k == Len(row[j])
             m == Len(t)
  <2>1. j \in 1 .. n + 1 /\ j + 1 \in 1 .. n + 1
    OBVIOUS
  <2>2. p \in Nat /\ q \in Nat /\ k \in Nat /\ m \in Nat /\ q = p + k + 1 /\ q <= m + 1
    BY <1>0, <1>1, <1>2, <2>1
  <2>3. rt[j] = o + p /\ rt[j + 1] = o + q
    BY <1>3, <2>1
  <2>4. \A l \in 1 .. k : t[p + l] = row[j][l]
    BY <1>1
  <2>5. j < n => q <= m /\ t[q] = "TAB"
    BY <1>1
  <2>6. o + m <= Len(c) /\ \A l \in 1 .. m : c[o + l] = t[l]
    BY DEF Spells
  <2> HIDE DEF p, q, k, m
  <2>7. ASSUME NEW l \in 1 .. k PROVE c[rt[j] + l] = row[j][l]
    <3>1. p + l \in 1 .. m /\ rt[j] + l = o + (p + l)
      BY <2>2, <2>3
    <3>2. QED
      BY <2>4, <2>6, <3>1
  <2>8. ASSUME j < n PROVE rt[j + 1] <= Len(c) /\ c[rt[j + 1]] = "TAB"
    <3>1. q \in 1 .. m
      BY <2>2, <2>5, <2>8
    <3>2. QED
      BY <2>2, <2>3, <2>5, <2>6, <2>8, <3>1
  <2>9. rt[j + 1] = rt[j] + k + 1
    BY <2>2, <2>3
  <2>10. QED
    BY <2>7, <2>8, <2>9 DEF k
<1>5. RowLies(rt, n, row, o, c)
  BY <1>3, <1>4 DEF RowLies
<1>6. QED
  BY <1>3, <1>5 DEF RowFills

\* The hashed text of a file is its rows, one after the other.
LEMMA FileLiesThere ==
    ASSUME NEW f, IsFile(f), Marked(f), NEW n, n = Len(f[1]), NEW m, m = Len(f),
           NEW c, c = ContentHash(f)
    PROVE  /\ c \in Seq(Char) /\ m \in Nat \ {0} /\ n \in Nat \ {0}
           /\ \E at : IsJoined(at, m, RowTexts(f), "LF", c) /\ FileLies(at, m, n, f, c)
<1> DEFINE t == RowTexts(f)
<1>1. m \in Nat \ {0} /\ DOMAIN f = 1 .. m /\ \A i \in 1 .. m : f[i] \in Seq(Seq(Char)) /\ Len(f[i]) = n
  BY DEF IsFile, Marked
<1>2. n \in Nat \ {0}
  BY <1>1 DEF IsFile
<1>3. /\ t \in Seq(Seq(Char)) /\ Len(t) = m
      /\ \A i \in 1 .. m : \E bt : IsJoined(bt, n, f[i], "TAB", t[i])
  BY <1>1, RowTextsAre
<1>4. c = Joined(t, "LF")
  BY HashIs
<1>5. "LF" \in Char
  BY DEF Char
<1> HIDE DEF t
<1>6. t # <<>>
  BY <1>1, <1>3
<1>7. c \in Seq(Char) /\ \E at : IsJoined(at, m, t, "LF", c)
  BY <1>3, <1>4, <1>5, <1>6, JoinedIs
<1>8. PICK at : IsJoined(at, m, t, "LF", c)
  BY <1>7
<1>9. /\ at \in [1 .. m + 1 -> Nat] /\ at[1] = 0 /\ at[m + 1] = Len(c) + 1
      /\ \A i \in 1 .. m : at[i + 1] = at[i] + Len(t[i]) + 1
      /\ \A i \in 1 .. m : \A l \in 1 .. Len(t[i]) : c[at[i] + l] = t[i][l]
      /\ \A i \in 1 .. m : i < m => at[i + 1] <= Len(c) /\ c[at[i + 1]] = "LF"
  BY <1>8 DEF IsJoined
<1>10. Len(c) \in Nat
  BY <1>7
<1>11. ASSUME NEW i \in 1 .. m
       PROVE  RowFills(n, f[i], at[i], at[i + 1], c)
  <2> DEFINE row == f[i]
             s == t[i]
             o == at[i]
             e == at[i + 1]
  <2>1. s \in Seq(Char) /\ \E bt : IsJoined(bt, n, row, "TAB", s)
    BY <1>1, <1>3
  <2>2. o \in Nat /\ e \in Nat /\ e = o + Len(s) + 1
    <3>1. i \in 1 .. m + 1 /\ i + 1 \in 1 .. m + 1
      BY <1>1
    <3>2. at \in [1 .. m + 1 -> Nat]
      BY <1>8 DEF IsJoined
    <3>3. at[i] \in Nat /\ at[i + 1] \in Nat
      BY <3>1, <3>2
    <3>4. at[i + 1] = at[i] + Len(t[i]) + 1
      BY <1>9
    <3>5. QED
      BY <3>3, <3>4
  <2>3. Spells(c, o, s)
    BY <1>9 DEF Spells
  <2>4. Counted(n, row)
    <3>1. row \in Seq(Seq(Char)) /\ Len(row) = n
      BY <1>1
    <3>2. QED
      BY <3>1 DEF Counted
  <2>5. e <= Len(c) + 1
    <3>1. i < m \/ i = m
      BY <1>1
    <3>2. QED
      BY <1>9, <1>10, <2>2, <3>1
  <2> HIDE DEF row, s, o, e
  <2>6. Len(s) \in Nat
    BY <2>1
  <2>7. o + Len(s) <= Len(c)
    BY <1>10, <2>2, <2>5, <2>6
  <2>8. PICK bt : IsJoined(bt, n, row, "TAB", s)
    BY <2>1
  <2>9. RowFills(n, row, o, e, c)
    BY <1>2, <1>10, <2>2, <2>3, <2>4, <2>6, <2>7, <2>8, JoinedLies
  <2>10. QED
    BY <2>9 DEF row, o, e
<1>12. FileLies(at, m, n, f, c)
  BY <1>9, <1>11 DEF FileLies
<1>13. QED
  BY <1>1, <1>2, <1>7, <1>8, <1>12 DEF t

LEMMA RowLiesSays ==
    ASSUME NEW n \in Nat \ {0}, NEW row, NEW o, NEW c, NEW rt, RowLies(rt, n, row, o, c),
           Counted(n, row), NEW j \in 1 .. n
    PROVE  /\ rt[j] \in Nat /\ rt[j + 1] \in Nat /\ Len(row[j]) \in Nat
           /\ rt[j + 1] = rt[j] + Len(row[j]) + 1
           /\ j < n => rt[j + 1] <= Len(c) /\ c[rt[j + 1]] = "TAB"
           /\ Spells(c, rt[j], row[j])
<1>1. j \in 1 .. n + 1 /\ j + 1 \in 1 .. n + 1
  OBVIOUS
<1>2. rt \in [1 .. n + 1 -> Nat]
  BY DEF RowLies
<1>3. rt[j] \in Nat /\ rt[j + 1] \in Nat
  BY <1>1, <1>2
<1>4. Len(row[j]) \in Nat
  BY DEF Counted
<1>5. Spells(c, rt[j], row[j])
  BY DEF RowLies, Spells
<1>6. QED
  BY <1>3, <1>4, <1>5 DEF RowLies

\* A tab that ends one cell is not inside another that begins with it.
LEMMA CellEnds ==
    ASSUME NEW a, NEW b, NEW p \in Nat, NEW c, Len(a) \in Nat, Len(b) \in Nat,
           Spells(c, p, b), NEW x, HasNone(b, x), c[p + Len(a) + 1] = x
    PROVE  Len(b) <= Len(a)
<1> DEFINE k == Len(a)
           h == Len(b)
<1>1. (\A l \in 1 .. h : c[p + l] = b[l]) /\ (\A l \in 1 .. h : b[l] # x) /\ k \in Nat /\ h \in Nat
  BY DEF Spells, HasNone
<1>2. c[p + k + 1] = x
  OBVIOUS
<1> HIDE DEF k, h
<1>3. ~(k < h)
  <2> SUFFICES ASSUME k < h PROVE FALSE
    OBVIOUS
  <2>1. k + 1 \in 1 .. h /\ p + (k + 1) = p + k + 1
    BY <1>1
  <2>2. QED
    BY <1>1, <1>2, <2>1
<1>4. QED
  BY <1>1, <1>3 DEF k, h

\* Two rows of n cells that begin at one place begin each of their cells at one.
LEMMA CellsMeet ==
    ASSUME NEW n \in Nat \ {0}, NEW a, NEW b, NEW o, NEW c, NEW rt, NEW st,
           RowLies(rt, n, a, o, c), RowLies(st, n, b, o, c), Counted(n, a), Counted(n, b),
           \A j \in 1 .. n : HasNone(a[j], "TAB"), \A j \in 1 .. n : HasNone(b[j], "TAB")
    PROVE  \A j \in 1 .. n : rt[j] = st[j]
<1> DEFINE S == {k \in Nat : k + 1 <= n => rt[k + 1] = st[k + 1]}
<1>1. 0 \in S
  BY DEF RowLies
<1>2. ASSUME NEW k \in Nat, k \in S PROVE k + 1 \in S
  <2> SUFFICES ASSUME k + 1 + 1 <= n PROVE rt[k + 1 + 1] = st[k + 1 + 1]
    OBVIOUS
  <2> DEFINE j == k + 1
  <2>1. j \in 1 .. n /\ j < n
    OBVIOUS
  <2>2. rt[j] = st[j]
    BY <1>2, <2>1
  <2> HIDE DEF j
  <2>3. /\ rt[j] \in Nat /\ Len(a[j]) \in Nat /\ rt[j + 1] = rt[j] + Len(a[j]) + 1
        /\ c[rt[j + 1]] = "TAB" /\ Spells(c, rt[j], a[j])
    BY <2>1, RowLiesSays
  <2>4. /\ Len(b[j]) \in Nat /\ st[j + 1] = st[j] + Len(b[j]) + 1
        /\ c[st[j + 1]] = "TAB" /\ Spells(c, st[j], b[j])
    BY <2>1, RowLiesSays
  <2>5. Len(b[j]) <= Len(a[j])
    BY <2>1, <2>2, <2>3, <2>4, CellEnds
  <2>6. Len(a[j]) <= Len(b[j])
    BY <2>1, <2>2, <2>3, <2>4, CellEnds
  <2>7. rt[j + 1] = st[j + 1]
    BY <2>2, <2>3, <2>4, <2>5, <2>6
  <2>8. QED
    BY <2>7 DEF j
<1> HIDE DEF S
<1>3. \A k \in Nat : k \in S
  BY <1>1, <1>2, Induction
<1>4. ASSUME NEW j \in 1 .. n PROVE rt[j] = st[j]
  <2>1. j - 1 \in Nat /\ j - 1 + 1 = j
    OBVIOUS
  <2>2. QED
    BY <1>3, <2>1 DEF S
<1>5. QED
  BY <1>4

\* What is known of row i of a file that lies in c.
LEMMA FileLiesSays ==
    ASSUME NEW m \in Nat \ {0}, NEW n \in Nat \ {0}, NEW f, NEW c, NEW at,
           FileLies(at, m, n, f, c), Len(c) \in Nat, NEW i \in 1 .. m
    PROVE  /\ at[i] \in Nat /\ at[i + 1] \in Nat
           /\ i < m => at[i + 1] <= Len(c) /\ c[at[i + 1]] = "LF"
           /\ i = m => at[i + 1] = Len(c) + 1
           /\ RowFills(n, f[i], at[i], at[i + 1], c)
<1>1. i \in 1 .. m + 1 /\ i + 1 \in 1 .. m + 1
  OBVIOUS
<1>2. at \in [1 .. m + 1 -> Nat]
  BY DEF FileLies
<1>3. at[i] \in Nat /\ at[i + 1] \in Nat
  BY <1>1, <1>2
<1>4. RowFills(n, f[i], at[i], at[i + 1], c)
  BY DEF FileLies
<1>5. QED
  BY <1>3, <1>4 DEF FileLies

\* The cells of a file that Marked is said of, one by one.
Cells(m, n, f) ==
    /\ \A i \in 1 .. m :
          /\ Counted(n, f[i])
          /\ \A j \in 1 .. n : HasNone(f[i][j], "TAB")
          /\ HasNone(f[i][1], "LF")
    /\ \A j \in 1 .. n : HasNone(f[1][j], "LF")

\* Where a row of one file ends, no row of another that begins with it goes on:
\* the line feed there would be in its last cell, and after a line feed in a
\* cell no number and tab follow before the cell is over.
LEMMA RowEnds ==
    ASSUME NEW n \in Nat \ {0}, NEW m \in Nat \ {0}, NEW k \in Nat \ {0}, NEW f, NEW g, NEW c, NEW at, NEW bt,
           FileLies(at, m, n, f, c), FileLies(bt, k, n, g, c), Len(c) \in Nat,
           Cells(m, n, f), Cells(k, n, g),
           NEW i \in 1 .. m, i \in 1 .. k, at[i] = bt[i]
    PROVE  bt[i + 1] <= at[i + 1]
<1> DEFINE e == at[i + 1]
           d == bt[i + 1]
<1>1. /\ e \in Nat /\ at[i] \in Nat
      /\ i < m => e <= Len(c) /\ c[e] = "LF"
      /\ i = m => e = Len(c) + 1
      /\ RowFills(n, f[i], at[i], e, c)
  BY FileLiesSays
<1>2. /\ d \in Nat
      /\ i < k => d <= Len(c) /\ c[d] = "LF"
      /\ i = k => d = Len(c) + 1
      /\ RowFills(n, g[i], bt[i], d, c)
  BY FileLiesSays
<1>3. PICK rt : RowLies(rt, n, f[i], at[i], c) /\ rt[n + 1] = e
  BY <1>1 DEF RowFills
<1>4. PICK st : RowLies(st, n, g[i], bt[i], c) /\ st[n + 1] = d
  BY <1>2 DEF RowFills
<1>5. /\ Counted(n, f[i]) /\ Counted(n, g[i])
      /\ \A j \in 1 .. n : HasNone(f[i][j], "TAB")
      /\ \A j \in 1 .. n : HasNone(g[i][j], "TAB")
  BY DEF Cells
<1> HIDE DEF e, d
<1>6. rt[n] = st[n]
  <2>1. \A j \in 1 .. n : rt[j] = st[j]
    BY <1>3, <1>4, <1>5, CellsMeet
  <2>2. n \in 1 .. n
    OBVIOUS
  <2>3. QED
    BY <2>1, <2>2
<1> DEFINE p == rt[n]
           a == f[i][n]
           b == g[i][n]
<1>7. p \in Nat /\ Len(a) \in Nat /\ e = p + Len(a) + 1
  <2>1. n \in 1 .. n
    OBVIOUS
  <2>2. QED
    BY <1>3, <1>5, <2>1, RowLiesSays
<1>8. Len(b) \in Nat /\ d = p + Len(b) + 1 /\ Spells(c, p, b)
  <2>1. n \in 1 .. n
    OBVIOUS
  <2>2. st[n] \in Nat /\ Len(b) \in Nat /\ st[n + 1] = st[n] + Len(b) + 1 /\ Spells(c, st[n], b)
    BY <1>4, <1>5, <2>1, RowLiesSays
  <2>3. QED
    BY <1>4, <1>6, <2>2
<1>9. HasNone(b, "TAB")
  <2>1. n \in 1 .. n
    OBVIOUS
  <2>2. QED
    BY <1>5, <2>1
<1>10. (i = 1 \/ n = 1) => HasNone(b, "LF")
  <2>1. n \in 1 .. n
    OBVIOUS
  <2>2. i = 1 => HasNone(b, "LF")
    BY <2>1 DEF Cells
  <2>3. n = 1 => HasNone(b, "LF")
    BY DEF Cells
  <2>4. QED
    BY <2>2, <2>3
<1> HIDE DEF p, a, b
<1> SUFFICES ASSUME e < d PROVE FALSE
  <2>1. d <= e
    BY <1>1, <1>2
  <2>2. QED
    BY <2>1 DEF e, d
<1>11. d <= Len(c) + 1
  <2>1. i < k \/ i = k
    OBVIOUS
  <2>2. QED
    BY <1>2, <2>1
<1>12. i < m
  <2>1. i < m \/ i = m
    OBVIOUS
  <2>2. QED
    BY <1>1, <1>2, <1>11, <2>1
<1>13. c[p + Len(a) + 1] = "LF" /\ ~(Len(b) <= Len(a))
  BY <1>1, <1>7, <1>8, <1>12
<1>14. ~HasNone(b, "LF")
  BY <1>7, <1>8, <1>13, CellEnds
<1>15. n > 1
  BY <1>10, <1>14
\* The next row of f: its first cell, and the tab after it.
<1> DEFINE next == i + 1
           first == f[next][1]
<1>16. next \in 1 .. m /\ at[next] = e
  BY <1>12 DEF e
<1> HIDE DEF next
<1>17. PICK nt : RowLies(nt, n, f[next], at[next], c)
  <2>1. RowFills(n, f[next], at[next], at[next + 1], c)
    BY <1>16, FileLiesSays
  <2>2. QED
    BY <2>1 DEF RowFills
<1>18. Counted(n, f[next]) /\ HasNone(first, "LF")
  BY <1>16 DEF Cells
<1> DEFINE h == Len(first)
           q == e + h + 1
<1>19. /\ h \in Nat /\ q <= Len(c) /\ c[q] = "TAB" /\ Spells(c, e, first)
  <2>1. 1 \in 1 .. n /\ 1 < n
    BY <1>15
  <2>2. /\ Len(f[next][1]) \in Nat /\ nt[1 + 1] = nt[1] + Len(f[next][1]) + 1
        /\ nt[1 + 1] <= Len(c) /\ c[nt[1 + 1]] = "TAB"
        /\ Spells(c, nt[1], f[next][1])
    BY <1>17, <1>18, <2>1, RowLiesSays
  <2>3. nt[1] = e
    BY <1>16, <1>17 DEF RowLies
  <2>4. QED
    BY <2>2, <2>3
<1> HIDE DEF first, h
<1>20. ~(q < d)
  <2> SUFFICES ASSUME q < d PROVE FALSE
    OBVIOUS
  <2> DEFINE l == q - p
  <2>1. l \in 1 .. Len(b) /\ p + l = q
    BY <1>1, <1>7, <1>8, <1>19
  <2>2. c[p + l] = b[l] /\ b[l] # "TAB"
    BY <1>8, <1>9, <2>1 DEF Spells, HasNone
  <2>3. QED
    BY <1>19, <2>1, <2>2
<1>21. i < k /\ c[d] = "LF"
  <2>1. d <= Len(c)
    BY <1>1, <1>2, <1>19, <1>20
  <2>2. i < k \/ i = k
    OBVIOUS
  <2>3. QED
    BY <1>2, <2>1, <2>2
<1>22. d # q
  BY <1>19, <1>21
<1>23. d - e \in 1 .. h /\ e + (d - e) = d
  BY <1>1, <1>2, <1>19, <1>20, <1>22
<1>24. c[e + (d - e)] = first[d - e] /\ first[d - e] # "LF"
  BY <1>18, <1>19, <1>23 DEF Spells, HasNone, h
<1>25. QED
  BY <1>21, <1>23, <1>24

LEMMA MarkedCells ==
    ASSUME NEW f, IsFile(f), Marked(f), NEW n, n = Len(f[1]), NEW m, m = Len(f)
    PROVE  Cells(m, n, f) /\ \A i \in 1 .. m : f[i] \in Seq(Seq(Char)) /\ Len(f[i]) = n
<1>1. /\ m \in Nat \ {0} /\ 1 \in 1 .. m
      /\ \A i \in 1 .. m : f[i] \in Seq(Seq(Char)) /\ Len(f[i]) = n
  BY DEF IsFile, Marked
<1>2. ASSUME NEW i \in 1 .. m
      PROVE  /\ Counted(n, f[i])
             /\ \A j \in 1 .. n : HasNone(f[i][j], "TAB")
             /\ HasNone(f[i][1], "LF")
             /\ i = 1 => \A j \in 1 .. n : HasNone(f[i][j], "LF")
  <2> DEFINE row == f[i]
  <2>1. row \in Seq(Seq(Char)) /\ Len(row) = n /\ DOMAIN row = 1 .. n
    BY <1>1
  <2>2. Free(row, "TAB") /\ HasNone(row[1], "LF") /\ (i = 1 => Free(row, "LF"))
    BY DEF Marked
  <2> HIDE DEF row
  <2>3. Counted(n, row)
    BY <2>1 DEF Counted
  <2>4. \A j \in 1 .. n : HasNone(row[j], "TAB")
    BY <2>1, <2>2 DEF Free, HasNone
  <2>5. i = 1 => \A j \in 1 .. n : HasNone(row[j], "LF")
    BY <2>1, <2>2 DEF Free, HasNone
  <2>6. QED
    BY <2>2, <2>3, <2>4, <2>5 DEF row
<1>3. Cells(m, n, f)
  BY <1>1, <1>2 DEF Cells
<1>4. QED
  BY <1>1, <1>3

\* The first of two texts joined by line feeds ends where the other's ends.
LEMMA FirstEnds ==
    ASSUME NEW m \in Nat \ {0}, NEW k \in Nat \ {0}, NEW a, NEW b, NEW c, NEW at, NEW bt,
           IsJoined(at, m, a, "LF", c), IsJoined(bt, k, b, "LF", c), Len(c) \in Nat,
           Len(a[1]) \in Nat, Len(b[1]) \in Nat, HasNone(b[1], "LF")
    PROVE  Len(b[1]) <= Len(a[1]) /\ Spells(c, 0, b[1])
<1>1. 1 \in 1 .. m /\ 1 \in 1 .. k
  OBVIOUS
<1>2. at[1] = 0 /\ bt[1] = 0 /\ at[m + 1] = Len(c) + 1 /\ bt[k + 1] = Len(c) + 1
  BY DEF IsJoined
<1>3. at[1 + 1] = at[1] + Len(a[1]) + 1 /\ (1 < m => at[1 + 1] <= Len(c) /\ c[at[1 + 1]] = "LF")
  BY <1>1 DEF IsJoined
<1>4. bt[1 + 1] = bt[1] + Len(b[1]) + 1 /\ (1 < k => bt[1 + 1] <= Len(c))
  BY <1>1 DEF IsJoined
<1>5. Spells(c, 0, b[1])
  <2>1. \A l \in 1 .. Len(b[1]) : c[bt[1] + l] = b[1][l]
    BY <1>1 DEF IsJoined
  <2>2. QED
    BY <1>2, <2>1 DEF Spells
<1> DEFINE x == a[1]
           y == b[1]
<1>6. /\ at[1 + 1] = Len(x) + 1 /\ bt[1 + 1] = Len(y) + 1 /\ Len(x) \in Nat /\ Len(y) \in Nat
      /\ Spells(c, 0, y) /\ HasNone(y, "LF")
  BY <1>2, <1>3, <1>4, <1>5
<1> HIDE DEF x, y
<1>7. Len(y) <= Len(c)
  <2>1. k = 1 \/ 1 < k
    OBVIOUS
  <2>2. k = 1 => bt[1 + 1] = Len(c) + 1
    BY <1>2
  <2>3. bt[1 + 1] <= Len(c) + 1
    BY <1>4, <2>1, <2>2, <1>6
  <2>4. QED
    BY <1>6, <2>3
<1>8. CASE m = 1
  <2>1. at[1 + 1] = Len(c) + 1
    BY <1>2, <1>8
  <2>2. Len(x) = Len(c)
    BY <1>6, <2>1
  <2>3. QED
    BY <1>5, <1>7, <2>2 DEF x, y
<1>9. CASE m # 1
  <2>1. c[Len(x) + 1] = "LF"
    BY <1>3, <1>6, <1>9
  <2>2. 0 \in Nat /\ 0 + Len(x) + 1 = Len(x) + 1
    BY <1>6
  <2>3. Len(y) <= Len(x)
    BY <1>6, <2>1, <2>2, CellEnds
  <2>4. QED
    BY <1>5, <2>3 DEF x, y
<1>10. QED
  BY <1>8, <1>9

\* Files with one hash have one header row.
LEMMA HeaderOnce ==
    ASSUME NEW f, NEW g, IsFile(f), IsFile(g), Marked(f), Marked(g), ContentHash(f) = ContentHash(g)
    PROVE  f[1] = g[1]
<1> DEFINE a == RowTexts(f)
           b == RowTexts(g)
           c == ContentHash(f)
           m == Len(f)
           k == Len(g)
<1>1. /\ c \in Seq(Char) /\ m \in Nat \ {0} /\ \E at : IsJoined(at, m, a, "LF", c)
  BY FileLiesThere
<1>2. /\ k \in Nat \ {0} /\ \E bt : IsJoined(bt, k, b, "LF", c)
  BY FileLiesThere
<1>3. /\ f[1] \in Seq(Seq(Char)) /\ f[1] # <<>> /\ Free(f[1], "TAB") /\ Free(f[1], "LF")
      /\ 1 \in 1 .. m
  BY <1>1 DEF IsFile, Marked
<1>4. /\ g[1] \in Seq(Seq(Char)) /\ g[1] # <<>> /\ Free(g[1], "TAB") /\ Free(g[1], "LF")
      /\ 1 \in 1 .. k
  BY <1>2 DEF IsFile, Marked
<1>5. /\ a \in Seq(Seq(Char)) /\ Len(a) = m /\ a[1] = Joined(f[1], "TAB") /\ HasNone(a[1], "LF")
  BY <1>3, RowTextsAre
<1>6. /\ b \in Seq(Seq(Char)) /\ Len(b) = k /\ b[1] = Joined(g[1], "TAB") /\ HasNone(b[1], "LF")
  BY <1>4, RowTextsAre
<1> HIDE DEF a, b, c, m, k
<1>7. PICK at : IsJoined(at, m, a, "LF", c)
  BY <1>1
<1>8. PICK bt : IsJoined(bt, k, b, "LF", c)
  BY <1>2
<1>9. a[1] \in Seq(Char) /\ b[1] \in Seq(Char) /\ Len(c) \in Nat
  BY <1>1, <1>3, <1>4, <1>5, <1>6
<1>10. Len(a[1]) \in Nat /\ Len(b[1]) \in Nat
  BY <1>9
<1>11. Len(b[1]) <= Len(a[1]) /\ Spells(c, 0, b[1])
  BY <1>1, <1>2, <1>6, <1>7, <1>8, <1>9, <1>10, FirstEnds
<1>12. Len(a[1]) <= Len(b[1]) /\ Spells(c, 0, a[1])
  BY <1>1, <1>2, <1>5, <1>7, <1>8, <1>9, <1>10, FirstEnds
<1>13. a[1] = b[1]
  <2> DEFINE x == a[1]
             y == b[1]
  <2>1. /\ x \in Seq(Char) /\ y \in Seq(Char) /\ Len(x) <= Len(y) /\ Len(y) <= Len(x)
        /\ Spells(c, 0, x) /\ Spells(c, 0, y)
    BY <1>9, <1>11, <1>12
  <2> HIDE DEF x, y
  <2>2. Len(x) = Len(y) /\ \A l \in 1 .. Len(x) : x[l] = y[l]
    BY <2>1 DEF Spells
  <2>3. x = y
    BY <2>1, <2>2, SeqEqual
  <2>4. QED
    BY <2>3 DEF x, y
<1>14. Joined(f[1], "TAB") = Joined(g[1], "TAB") /\ "TAB" \in Char
  BY <1>5, <1>6, <1>13 DEF Char
<1> DEFINE v == f[1]
           w == g[1]
<1>15. /\ v \in Seq(Seq(Char)) /\ v # <<>> /\ Free(v, "TAB")
       /\ w \in Seq(Seq(Char)) /\ w # <<>> /\ Free(w, "TAB")
       /\ Joined(v, "TAB") = Joined(w, "TAB")
  BY <1>3, <1>4, <1>14
<1> HIDE DEF v, w
<1>16. v = w
  BY <1>14, <1>15, JoinedOnce
<1>17. QED
  BY <1>16 DEF v, w

\* Two files of one width that lie in c have their rows at the same places.
LEMMA RowsMeet ==
    ASSUME NEW n \in Nat \ {0}, NEW m \in Nat \ {0}, NEW k \in Nat \ {0}, NEW f, NEW g, NEW c, NEW at, NEW bt,
           FileLies(at, m, n, f, c), FileLies(bt, k, n, g, c), Len(c) \in Nat,
           Cells(m, n, f), Cells(k, n, g)
    PROVE  m = k /\ \A i \in 1 .. m + 1 : at[i] = bt[i] /\ at[i] \in Nat
<1>1. /\ at \in [1 .. m + 1 -> Nat] /\ at[1] = 0 /\ bt \in [1 .. k + 1 -> Nat] /\ bt[1] = 0
      /\ at[m + 1] = Len(c) + 1 /\ bt[k + 1] = Len(c) + 1
  BY DEF FileLies
<1>2. ASSUME NEW i \in 1 .. m, i \in 1 .. k, at[i] = bt[i]
      PROVE  (i < m <=> i < k) /\ at[i + 1] = bt[i + 1]
  <2>1. bt[i + 1] <= at[i + 1]
    BY <1>2, RowEnds
  <2>2. at[i + 1] <= bt[i + 1]
    BY <1>2, RowEnds
  <2>3. /\ at[i + 1] \in Nat
        /\ i < m => at[i + 1] <= Len(c)
        /\ i = m => at[i + 1] = Len(c) + 1
    <3>1. /\ at[i] \in Nat /\ at[i + 1] \in Nat
          /\ i < m => at[i + 1] <= Len(c) /\ c[at[i + 1]] = "LF"
          /\ i = m => at[i + 1] = Len(c) + 1
          /\ RowFills(n, f[i], at[i], at[i + 1], c)
      BY FileLiesSays
    <3>2. QED
      BY <3>1
  <2>4. /\ bt[i + 1] \in Nat
        /\ i < k => bt[i + 1] <= Len(c)
        /\ i = k => bt[i + 1] = Len(c) + 1
    BY <1>2, FileLiesSays
  <2>5. at[i + 1] = bt[i + 1]
    BY <2>1, <2>2, <2>3, <2>4
  <2>6. (i < m \/ i = m) /\ (i < k \/ i = k)
    BY <1>2
  <2>7. QED
    BY <2>3, <2>4, <2>5, <2>6
<1> DEFINE S == {j \in Nat : (j + 1 <= m <=> j + 1 <= k) /\ (j + 1 <= m => at[j + 1] = bt[j + 1])}
<1>3. 0 \in S
  BY <1>1
<1>4. ASSUME NEW j \in Nat, j \in S PROVE j + 1 \in S
  <2>1. CASE j + 1 <= m
    <3> DEFINE i == j + 1
    <3>1. i \in 1 .. m /\ i \in 1 .. k /\ at[i] = bt[i]
      BY <1>4, <2>1
    <3>2. (i < m <=> i < k) /\ at[i + 1] = bt[i + 1]
      BY <1>2, <3>1
    <3>3. (i + 1 <= m <=> i < m) /\ (i + 1 <= k <=> i < k)
      OBVIOUS
    <3>4. QED
      BY <3>2, <3>3
  <2>2. CASE ~(j + 1 <= m)
    <3>1. ~(j + 1 <= k) /\ ~(j + 1 + 1 <= m) /\ ~(j + 1 + 1 <= k)
      BY <1>4, <2>2
    <3>2. QED
      BY <3>1
  <2>3. QED
    BY <2>1, <2>2
<1> HIDE DEF S
<1>5. \A j \in Nat : j \in S
  BY <1>3, <1>4, Induction
<1>6. ASSUME NEW i \in Nat \ {0} PROVE (i <= m <=> i <= k) /\ (i <= m => at[i] = bt[i])
  <2>1. i - 1 \in Nat /\ i - 1 + 1 = i
    OBVIOUS
  <2>2. QED
    BY <1>5, <2>1 DEF S
<1>7. m = k
  BY <1>6
<1>8. ASSUME NEW i \in 1 .. m + 1 PROVE at[i] = bt[i] /\ at[i] \in Nat
  <2>1. i = m + 1 \/ i <= m
    OBVIOUS
  <2>2. at[i] \in Nat
    BY <1>1
  <2>3. QED
    BY <1>1, <1>6, <1>7, <2>1, <2>2
<1>9. QED
  BY <1>7, <1>8

\* Two rows between the same places have the same cells.
LEMMA RowsAlike ==
    ASSUME NEW n \in Nat \ {0}, NEW a, NEW b, \A j \in 1 .. n : a[j] \in Seq(Char) /\ b[j] \in Seq(Char),
           NEW o, NEW e, NEW c, RowFills(n, a, o, e, c), RowFills(n, b, o, e, c),
           Counted(n, a), Counted(n, b),
           \A j \in 1 .. n : HasNone(a[j], "TAB"), \A j \in 1 .. n : HasNone(b[j], "TAB")
    PROVE  \A j \in 1 .. n : a[j] = b[j]
<1>1. PICK rt : RowLies(rt, n, a, o, c) /\ rt[n + 1] = e
  BY DEF RowFills
<1>2. PICK st : RowLies(st, n, b, o, c) /\ st[n + 1] = e
  BY DEF RowFills
<1>3. \A j \in 1 .. n : rt[j] = st[j]
  BY <1>1, <1>2, CellsMeet
<1>4. ASSUME NEW j \in 1 .. n PROVE a[j] = b[j]
  <2> DEFINE u == a[j]
             v == b[j]
             p == rt[j]
  <2>1. rt[j + 1] = st[j + 1]
    <3>1. j + 1 \in 1 .. n \/ j + 1 = n + 1
      OBVIOUS
    <3>2. QED
      BY <1>1, <1>2, <1>3, <3>1
  <2>2. p \in Nat /\ Len(u) \in Nat /\ rt[j + 1] = p + Len(u) + 1 /\ Spells(c, p, u)
    BY <1>1, RowLiesSays
  <2>3. Len(v) \in Nat /\ st[j + 1] = st[j] + Len(v) + 1 /\ Spells(c, st[j], v)
    BY <1>2, RowLiesSays
  <2>4. st[j] = p
    BY <1>3
  <2>5. u \in Seq(Char) /\ v \in Seq(Char)
    OBVIOUS
  <2> HIDE DEF u, v, p
  <2>6. Len(u) = Len(v) /\ Spells(c, p, v)
    <3>1. p + Len(u) + 1 = p + Len(v) + 1
      BY <2>1, <2>2, <2>3, <2>4
    <3>2. Len(u) = Len(v)
      BY <2>2, <2>3, <3>1
    <3>3. Spells(c, p, v)
      BY <2>3, <2>4
    <3>4. QED
      BY <3>2, <3>3
  <2>7. \A l \in 1 .. Len(u) : u[l] = v[l]
    BY <2>2, <2>6 DEF Spells
  <2>8. u = v
    BY <2>5, <2>6, <2>7, SeqEqual
  <2>9. QED
    BY <2>8 DEF u, v
<1>5. QED
  BY <1>4

LEMMA HashOnce ==
    ASSUME NEW f, NEW g, IsFile(f), IsFile(g), Marked(f), Marked(g), ContentHash(f) = ContentHash(g)
    PROVE  f = g
<1> DEFINE n == Len(f[1])
           m == Len(f)
           k == Len(g)
           c == ContentHash(f)
<1>1. /\ c \in Seq(Char) /\ m \in Nat \ {0} /\ n \in Nat \ {0}
      /\ \E at : FileLies(at, m, n, f, c)
  BY FileLiesThere
<1>2. Len(g[1]) = n
  BY HeaderOnce
<1>3. k \in Nat \ {0} /\ \E bt : FileLies(bt, k, n, g, c)
  BY <1>2, FileLiesThere
<1>4. Cells(m, n, f) /\ \A i \in 1 .. m : f[i] \in Seq(Seq(Char)) /\ Len(f[i]) = n
  BY MarkedCells
<1>5. Cells(k, n, g) /\ \A i \in 1 .. k : g[i] \in Seq(Seq(Char)) /\ Len(g[i]) = n
  BY <1>2, MarkedCells
<1>6. f \in Seq(Seq(Seq(Char))) /\ g \in Seq(Seq(Seq(Char)))
  BY DEF IsFile
<1>7. m = Len(f) /\ k = Len(g)
  OBVIOUS
<1> HIDE DEF n, m, k, c
<1>8. PICK at : FileLies(at, m, n, f, c)
  BY <1>1
<1>9. PICK bt : FileLies(bt, k, n, g, c)
  BY <1>3
<1>10. Len(c) \in Nat
  BY <1>1
<1>11. m = k /\ \A i \in 1 .. m + 1 : at[i] = bt[i] /\ at[i] \in Nat
  BY <1>1, <1>3, <1>4, <1>5, <1>8, <1>9, <1>10, RowsMeet
<1>12. ASSUME NEW i \in 1 .. m PROVE f[i] = g[i]
  <2> DEFINE v == f[i]
             w == g[i]
             o == at[i]
             e == at[i + 1]
  <2>1. v \in Seq(Seq(Char)) /\ w \in Seq(Seq(Char)) /\ Len(v) = n /\ Len(w) = n
    BY <1>4, <1>5, <1>11
  <2>2. RowFills(n, v, o, e, c)
    BY <1>8 DEF FileLies
  <2>3. RowFills(n, w, o, e, c)
    <3>1. bt[i] = o /\ bt[i + 1] = e
      BY <1>1, <1>11
    <3>2. RowFills(n, w, bt[i], bt[i + 1], c)
      BY <1>9, <1>11 DEF FileLies
    <3>3. QED
      BY <3>1, <3>2
  <2>4. /\ Counted(n, v) /\ Counted(n, w)
        /\ \A j \in 1 .. n : HasNone(v[j], "TAB")
        /\ \A j \in 1 .. n : HasNone(w[j], "TAB")
    BY <1>4, <1>5, <1>11 DEF Cells
  <2>5. \A j \in 1 .. n : v[j] \in Seq(Char) /\ w[j] \in Seq(Char)
    BY <2>1
  <2> HIDE DEF v, w, o, e
  <2>6. \A j \in 1 .. n : v[j] = w[j]
    <3>1. n \in Nat \ {0}
      BY <1>1
    <3>2. QED
      BY <2>2, <2>3, <2>4, <2>5, <3>1, RowsAlike
  <2>7. v = w
    <3> DEFINE T == Seq(Char)
    <3>1. v \in Seq(T) /\ w \in Seq(T) /\ Len(v) = Len(w) /\ \A j \in 1 .. Len(v) : v[j] = w[j]
      BY <2>1, <2>6
    <3> HIDE DEF T
    <3>2. QED
      BY <3>1, SeqEqual
  <2>8. QED
    BY <2>7 DEF v, w
<1> DEFINE T == Seq(Seq(Char))
<1>13. f \in Seq(T) /\ g \in Seq(T)
  BY <1>6
<1> HIDE DEF T
<1>14. QED
  BY <1>7, <1>11, <1>12, <1>13, SeqEqual

-----------------------------------------------------------------------------
(* What Read returns for a sheet. *)

IsSheet(s) == s \in Seq(Seq(Seq(Char))) /\ s # <<>> /\ s[1] # <<>>

LEMMA CellAtIs ==
    ASSUME NEW s \in Seq(Seq(Seq(Char))), NEW i \in 1 .. Len(s), NEW j
    PROVE  CellAt(s, i, j) \in Seq(Char)
<1>1. s[i] \in Seq(Seq(Char))
  OBVIOUS
<1> DEFINE row == s[i]
           T == Seq(Char)
<1>2. row \in Seq(T) /\ <<>> \in T
  BY <1>1
<1>3. CellAt(s, i, j) = IF j \in DOMAIN row THEN row[j] ELSE <<>>
  BY DEF CellAt
<1> HIDE DEF row, T
<1>4. j \in DOMAIN row => row[j] \in T
  BY <1>2
<1>5. CellAt(s, i, j) \in T
  BY <1>2, <1>3, <1>4
<1>6. QED
  BY <1>5 DEF T

LEMMA EmptyStays == NormaliseCell(<<>>) = <<>>
<1>1. Normal(<<>>)
  BY DEF Normal
<1>2. QED
  BY <1>1, NormalStays

LEMMA ReadIs ==
    ASSUME NEW s, IsSheet(s)
    PROVE  /\ IsFile(Read(s)) /\ Len(Read(s)) = Len(s)
           /\ \A i \in 1 .. Len(s) :
                 /\ Len(Read(s)[i]) = Len(s[1])
                 /\ \A j \in 1 .. Len(s[1]) : Read(s)[i][j] = NormaliseCell(CellAt(s, i, j))
<1> DEFINE n == Len(s)
           m == Len(s[1])
           f == Read(s)
<1>1. s \in Seq(Seq(Seq(Char))) /\ n \in Nat \ {0} /\ DOMAIN s = 1 .. n
  BY DEF IsSheet
<1>2. s[1] \in Seq(Seq(Char)) /\ s[1] # <<>>
  BY <1>1 DEF IsSheet
<1>3. m \in Nat \ {0} /\ DOMAIN s[1] = 1 .. m
  BY <1>2
<1>4. f = [i \in 1 .. n |-> [j \in 1 .. m |-> NormaliseCell(CellAt(s, i, j))]]
  <2>1. ASSUME NEW i, NEW j
        PROVE  (IF j \in DOMAIN s[i] THEN NormaliseCell(s[i][j]) ELSE <<>>) = NormaliseCell(CellAt(s, i, j))
    BY EmptyStays DEF CellAt
  <2>2. f = [i \in 1 .. n |-> [j \in 1 .. m |-> IF j \in DOMAIN s[i] THEN NormaliseCell(s[i][j]) ELSE <<>>]]
    BY <1>1, <1>3 DEF Read
  <2>3. QED
    BY <2>1, <2>2
<1>5. \A i \in 1 .. n : \A j \in 1 .. m : Normal(NormaliseCell(CellAt(s, i, j)))
  BY <1>1, CellAtIs, Normalised
<1> HIDE DEF n, m, f
<1>6. ASSUME NEW i \in 1 .. n
      PROVE  /\ f[i] \in Seq(Seq(Char)) /\ Len(f[i]) = m
             /\ \A j \in 1 .. m : f[i][j] = NormaliseCell(CellAt(s, i, j)) /\ Normal(f[i][j])
  <2> DEFINE row == f[i]
  <2>1. row = [j \in 1 .. m |-> NormaliseCell(CellAt(s, i, j))]
    BY <1>4
  <2> HIDE DEF row
  <2>2. DOMAIN row = 1 .. m /\ \A j \in 1 .. m : row[j] = NormaliseCell(CellAt(s, i, j)) /\ Normal(row[j])
    BY <1>5, <2>1
  <2>3. \A j \in 1 .. m : row[j] \in Seq(Char)
    BY <2>2 DEF Normal
  <2>4. row = [j \in 1 .. m |-> row[j]]
    BY <2>1, <2>2
  <2>5. row \in [1 .. m -> Seq(Char)]
    BY <2>3, <2>4
  <2>6. row \in Seq(Seq(Char)) /\ Len(row) = m
    BY <1>3, <2>2, <2>5
  <2>7. QED
    BY <2>2, <2>6 DEF row
<1>7. f \in Seq(Seq(Seq(Char))) /\ Len(f) = n
  <2>1. DOMAIN f = 1 .. n /\ f = [i \in 1 .. n |-> f[i]]
    BY <1>4
  <2>2. f \in [1 .. n -> Seq(Seq(Char))]
    BY <1>6, <2>1
  <2>3. QED
    BY <1>1, <2>1, <2>2
<1>8. f # <<>> /\ \A i \in 1 .. n : f[i] # <<>>
  BY <1>1, <1>3, <1>6, <1>7
<1>9. IsFile(f)
  BY <1>6, <1>7, <1>8 DEF IsFile
<1>10. QED
  BY <1>6, <1>7, <1>9 DEF n, m, f

LEMMA SeparableRead ==
    ASSUME NEW s, IsSheet(s), Separable(Read(s))
    PROVE  Marked(Read(s))
<1> DEFINE f == Read(s)
           n == Len(f[1])
<1>1. /\ f \in Seq(Seq(Seq(Char))) /\ f # <<>> /\ f[1] # <<>> /\ IsFile(f)
      /\ \A i \in 1 .. Len(f) : Len(f[i]) = n
  <2>1. IsFile(f) /\ Len(f) = Len(s) /\ \A i \in 1 .. Len(s) : Len(f[i]) = Len(s[1])
    BY ReadIs
  <2> HIDE DEF f
  <2>2. f \in Seq(Seq(Seq(Char))) /\ f # <<>> /\ \A i \in 1 .. Len(f) : f[i] # <<>>
    BY <2>1 DEF IsFile
  <2>3. 1 \in 1 .. Len(f)
    BY <2>2
  <2>4. QED
    BY <2>1, <2>2, <2>3
<1>2. Separable(f)
  OBVIOUS
<1> HIDE DEF f
<1>3. /\ 1 \in 1 .. Len(f) /\ n \in Nat \ {0} /\ 1 \in 1 .. n
      /\ DOMAIN f = 1 .. Len(f) /\ DOMAIN f[1] = 1 .. n
  <2>1. f[1] \in Seq(Seq(Char)) /\ 1 \in 1 .. Len(f) /\ DOMAIN f = 1 .. Len(f)
    BY <1>1
  <2>2. QED
    BY <1>1, <2>1
<1> HIDE DEF n
<1>4. ASSUME NEW i \in 1 .. Len(f), NEW j \in 1 .. n
      PROVE  HasNone(f[i][j], "TAB") /\ (i = 1 \/ j = 1 => HasNone(f[i][j], "LF"))
  <2> DEFINE c == f[i][j]
  <2>1. c \in Seq(Char)
    <3>1. f[i] \in Seq(Seq(Char)) /\ Len(f[i]) = n
      BY <1>1
    <3>2. QED
      BY <3>1
  <2>2. "TAB" \notin ToSet(c) /\ (i = 1 \/ j = 1 => "LF" \notin ToSet(c))
    BY <1>2, <1>3 DEF Separable
  <2> HIDE DEF c
  <2>3. \A l \in 1 .. Len(c) : c[l] \in ToSet(c)
    BY <2>1 DEF ToSet
  <2>4. QED
    BY <2>2, <2>3 DEF HasNone, c
<1>5. ASSUME NEW i \in 1 .. Len(f)
      PROVE  /\ Free(f[i], "TAB") /\ HasNone(f[i][1], "LF")
             /\ i = 1 => Free(f[i], "LF")
  <2> DEFINE row == f[i]
  <2>1. DOMAIN row = 1 .. n
    <3>1. f[i] \in Seq(Seq(Char)) /\ Len(f[i]) = n
      BY <1>1
    <3>2. QED
      BY <3>1
  <2>2. \A j \in 1 .. n : HasNone(row[j], "TAB") /\ (i = 1 \/ j = 1 => HasNone(row[j], "LF"))
    BY <1>4
  <2> HIDE DEF row
  <2>3. Free(row, "TAB") /\ (i = 1 => Free(row, "LF"))
    BY <2>1, <2>2 DEF Free, HasNone
  <2>4. HasNone(row[1], "LF")
    BY <1>3, <2>2
  <2>5. QED
    BY <2>3, <2>4 DEF row
<1>6. Marked(f)
  BY <1>1, <1>3, <1>5 DEF Marked, n
<1>7. QED
  BY <1>6 DEF f

-----------------------------------------------------------------------------
(* Sheets with the same words are read the same. *)

LEMMA AlikeEnds ==
    ASSUME NEW c \in Seq(Char), NEW d \in Seq(Char), Alike(c, d),
           NEW k, EndsAt(Dashed(c), k, Whitespace)
    PROVE  /\ EndsAt(Dashed(d), k, Whitespace)
           /\ \A i \in 1 .. k : Dashed(c)[i] = Dashed(d)[i]
<1> DEFINE a == Dashed(c)
           b == Dashed(d)
<1>1. /\ Len(c) \in Nat /\ Len(d) \in Nat /\ Len(a) = Len(c) /\ Len(b) = Len(d)
      /\ \A i \in 1 .. Len(c) : a[i] = IF c[i] = "EN_DASH" THEN "-" ELSE c[i]
      /\ \A i \in 1 .. Len(d) : b[i] = IF d[i] = "EN_DASH" THEN "-" ELSE d[i]
  BY DashedIs
<1>2. PICK n \in 0 .. Len(c) :
          /\ n <= Len(d)
          /\ \A i \in 1 .. n : (IF c[i] = "EN_DASH" THEN "-" ELSE c[i]) = IF d[i] = "EN_DASH" THEN "-" ELSE d[i]
          /\ \A i \in n + 1 .. Len(c) : c[i] \in Whitespace
          /\ \A i \in n + 1 .. Len(d) : d[i] \in Whitespace
  BY DEF Alike
<1> HIDE DEF a, b
<1>3. "EN_DASH" \notin Whitespace
  BY DEF Whitespace
<1>4. \A i \in 1 .. n : a[i] = b[i]
  BY <1>1, <1>2
<1>5. \A i \in n + 1 .. Len(c) : a[i] \in Whitespace
  BY <1>1, <1>2, <1>3
<1>6. \A i \in n + 1 .. Len(d) : b[i] \in Whitespace
  BY <1>1, <1>2, <1>3
<1>7. k \in 0 .. Len(c) /\ (k > 0 => a[k] \notin Whitespace) /\ \A i \in k + 1 .. Len(c) : a[i] \in Whitespace
  BY <1>1 DEF EndsAt, a
<1>8. k <= n
  <2> SUFFICES ASSUME k > n PROVE FALSE
    BY <1>2, <1>7
  <2>1. k \in n + 1 .. Len(c) /\ k > 0
    BY <1>2, <1>7
  <2>2. QED
    BY <1>5, <1>7, <2>1
<1>9. k \in 0 .. Len(b) /\ (k > 0 => b[k] \notin Whitespace)
  <2>1. k \in 0 .. Len(b)
    BY <1>1, <1>2, <1>7, <1>8
  <2>2. k > 0 => k \in 1 .. n
    BY <1>7, <1>8
  <2>3. QED
    BY <1>4, <1>7, <2>1, <2>2
<1>10. ASSUME NEW i \in k + 1 .. Len(b) PROVE b[i] \in Whitespace
  <2>1. i \in 1 .. n \/ i \in n + 1 .. Len(d)
    BY <1>1, <1>2, <1>7
  <2>2. i \in 1 .. n => i \in k + 1 .. Len(c)
    BY <1>2, <1>7
  <2>3. QED
    BY <1>4, <1>6, <1>7, <2>1, <2>2
<1>11. EndsAt(b, k, Whitespace)
  BY <1>9, <1>10 DEF EndsAt
<1>12. \A i \in 1 .. k : a[i] = b[i]
  BY <1>2, <1>4, <1>7, <1>8
<1>13. QED
  BY <1>11, <1>12 DEF a, b

LEMMA AlikeNormalised ==
    ASSUME NEW c \in Seq(Char), NEW d \in Seq(Char), Alike(c, d)
    PROVE  NormaliseCell(c) = NormaliseCell(d)
<1> DEFINE a == Dashed(c)
           b == Dashed(d)
<1>1. PICK k : EndsAt(a, k, Whitespace) /\ NormaliseCell(c) = SubSeq(a, 1, k)
  BY NormaliseCellIs
<1>2. PICK l : EndsAt(b, l, Whitespace) /\ NormaliseCell(d) = SubSeq(b, 1, l)
  BY NormaliseCellIs
<1>3. EndsAt(b, k, Whitespace) /\ \A i \in 1 .. k : a[i] = b[i]
  BY <1>1, AlikeEnds
<1>4. a \in Seq(Char) /\ b \in Seq(Char)
  BY DashedIs
<1> HIDE DEF a, b
<1>5. k = l
  <2>1. Len(b) \in Nat
    BY <1>4
  <2>2. QED
    BY <1>2, <1>3, <2>1, EndExists
<1>6. k \in 0 .. Len(a) /\ k \in 0 .. Len(b)
  BY <1>1, <1>3 DEF EndsAt
<1> DEFINE u == SubSeq(a, 1, k)
           v == SubSeq(b, 1, k)
<1>7. /\ u \in Seq(Char) /\ Len(u) = k /\ \A i \in 1 .. k : u[i] = a[i]
      /\ v \in Seq(Char) /\ Len(v) = k /\ \A i \in 1 .. k : v[i] = b[i]
  BY <1>4, <1>6
<1> HIDE DEF u, v
<1>8. u = v
  <2>1. \A i \in 1 .. Len(u) : u[i] = v[i]
    BY <1>3, <1>7
  <2>2. QED
    BY <1>7, <2>1, SeqEqual
<1>9. QED
  BY <1>1, <1>2, <1>5, <1>8 DEF u, v

LEMMA SameWordsRead ==
    ASSUME NEW v, NEW w, IsSheet(v), IsSheet(w), SameWords(v, w)
    PROVE  Read(v) = Read(w)
<1> DEFINE f == Read(v)
           g == Read(w)
           m == Len(v[1])
<1>1. /\ v \in Seq(Seq(Seq(Char))) /\ DOMAIN v = 1 .. Len(v)
      /\ w \in Seq(Seq(Seq(Char))) /\ DOMAIN v[1] = 1 .. m
      /\ Len(v) = Len(w) /\ Len(w[1]) = m /\ Len(v) \in Nat
  <2>1. /\ v \in Seq(Seq(Seq(Char))) /\ v # <<>> /\ w \in Seq(Seq(Seq(Char)))
        /\ Len(v) = Len(w) /\ Len(w[1]) = m
    BY DEF IsSheet, SameWords
  <2>2. DOMAIN v = 1 .. Len(v) /\ Len(v) \in Nat \ {0}
    BY <2>1
  <2>3. v[1] \in Seq(Seq(Char))
    BY <2>1, <2>2
  <2>4. DOMAIN v[1] = 1 .. m
    BY <2>3
  <2>5. QED
    BY <2>1, <2>2, <2>4
<1>2. \A i \in 1 .. Len(v) : \A j \in 1 .. m : Alike(CellAt(v, i, j), CellAt(w, i, j))
  BY <1>1 DEF SameWords
<1>3. /\ f \in Seq(Seq(Seq(Char))) /\ Len(f) = Len(v)
      /\ \A i \in 1 .. Len(v) :
            Len(f[i]) = m /\ \A j \in 1 .. m : f[i][j] = NormaliseCell(CellAt(v, i, j))
  BY ReadIs DEF IsFile
<1>4. /\ g \in Seq(Seq(Seq(Char))) /\ Len(g) = Len(v)
      /\ \A i \in 1 .. Len(v) :
            Len(g[i]) = m /\ \A j \in 1 .. m : g[i][j] = NormaliseCell(CellAt(w, i, j))
  BY <1>1, ReadIs DEF IsFile
<1> HIDE DEF f, g, m
<1>5. ASSUME NEW i \in 1 .. Len(v), NEW j \in 1 .. m PROVE f[i][j] = g[i][j]
  <2>1. CellAt(v, i, j) \in Seq(Char) /\ CellAt(w, i, j) \in Seq(Char)
    BY <1>1, CellAtIs
  <2>2. Alike(CellAt(v, i, j), CellAt(w, i, j))
    BY <1>2
  <2>3. NormaliseCell(CellAt(v, i, j)) = NormaliseCell(CellAt(w, i, j))
    BY <2>1, <2>2, AlikeNormalised
  <2>4. QED
    BY <1>3, <1>4, <2>3
<1>6. ASSUME NEW i \in 1 .. Len(v) PROVE f[i] = g[i]
  <2> DEFINE p == f[i]
             q == g[i]
             T == Seq(Char)
  <2>1. p \in Seq(T) /\ q \in Seq(T) /\ Len(p) = Len(q) /\ \A j \in 1 .. Len(p) : p[j] = q[j]
    BY <1>3, <1>4, <1>5
  <2> HIDE DEF p, q, T
  <2>2. p = q
    BY <2>1, SeqEqual
  <2>3. QED
    BY <2>2 DEF p, q
<1> DEFINE T == Seq(Seq(Char))
<1>7. f \in Seq(T) /\ g \in Seq(T) /\ Len(f) = Len(g) /\ \A i \in 1 .. Len(f) : f[i] = g[i]
  BY <1>3, <1>4, <1>6
<1> HIDE DEF T
<1>8. f = g
  BY <1>7, SeqEqual
<1>9. QED
  BY <1>8 DEF f, g

-----------------------------------------------------------------------------
(* The import hashes are those of the written sheets, one for each. *)

HashOf(s) == ContentHash(Read(s))

ContentInv ==
    /\ \A s \in written : s \in Sheet /\ Accepted(s)
    /\ \A h : h \in imports <=> \E s \in written : h = HashOf(s)
    /\ \A v, w \in written : HashOf(v) = HashOf(w) => v = w
    /\ last.end = "short" =>
           last.sheet \in Sheet /\ Accepted(last.sheet) /\ HashOf(last.sheet) \in imports

LEMMA ContentInvInit == ContentInit => ContentInv
BY DEF ContentInit, ContentInv

LEMMA ContentInvNext == ContentInv /\ [ContentNext]_contentVars => ContentInv'
<1> SUFFICES ASSUME ContentInv, [ContentNext]_contentVars PROVE ContentInv'
  OBVIOUS
<1>1. CASE Reject
  BY <1>1 DEF Reject, ContentInv
<1>2. CASE ShortCircuit
  BY <1>2 DEF ShortCircuit, ContentInv, HashOf
<1>3. CASE Import
  <2>1. PICK s \in Sheet :
            /\ Accepted(s) /\ HashOf(s) \notin imports
            /\ imports' = imports \cup {HashOf(s)}
            /\ written' = written \cup {s}
            /\ last' = [sheet |-> s, end |-> "new"]
    BY <1>3 DEF Import, HashOf
  <2>2. \A v \in written : HashOf(v) \in imports
    BY DEF ContentInv
  <2>3. \A v \in written : HashOf(v) # HashOf(s)
    BY <2>1, <2>2
  <2>4. \A v, w \in written' : HashOf(v) = HashOf(w) => v = w
    BY <2>1, <2>3 DEF ContentInv
  <2>5. \A v \in written' : v \in Sheet /\ Accepted(v)
    BY <2>1 DEF ContentInv
  <2>6. \A h : h \in imports' <=> \E v \in written' : h = HashOf(v)
    BY <2>1 DEF ContentInv
  <2>7. last'.end # "short"
    BY <2>1
  <2>8. QED
    BY <2>4, <2>5, <2>6, <2>7 DEF ContentInv
<1>4. CASE UNCHANGED contentVars
  BY <1>4 DEF contentVars, ContentInv
<1>5. QED
  BY <1>1, <1>2, <1>3, <1>4 DEF ContentNext

\* The hashes that decide about a short circuit are exactly those of the sheets
\* that were written, and no two written sheets have one hash.
THEOREM ContentKept == ContentSpec => []ContentInv
<1>1. ContentInit => ContentInv
  BY ContentInvInit
<1>2. ContentInv /\ [ContentNext]_contentVars => ContentInv'
  BY ContentInvNext
<1>3. QED
  BY <1>1, <1>2, PTL DEF ContentSpec

LEMMA AcceptedSheet ==
    ASSUME NEW s \in Sheet, Accepted(s)
    PROVE  IsSheet(s)
<1>1. s # <<>> /\ s[1] # <<>>
  BY DEF Accepted
<1> DEFINE A == STRING
           B == Seq(A)
           C == Seq(B)
           D == Seq(Char)
           E == Seq(D)
<1>2. s \in Seq(C) /\ A \subseteq Char
  BY SheetAssumption DEF Char
<1> HIDE DEF A
<1>3. B \subseteq D
  BY <1>2, SeqMonotonic
<1> HIDE DEF B, D
<1>4. C \subseteq E
  BY <1>3, SeqMonotonic
<1> HIDE DEF C, E
<1>5. Seq(C) \subseteq Seq(E)
  BY <1>4, SeqMonotonic
<1>6. s \in Seq(E)
  BY <1>2, <1>5
<1>7. QED
  BY <1>1, <1>6 DEF IsSheet, E, D

LEMMA OneHashOneFile ==
    ASSUME NEW v, NEW w, IsSheet(v), IsSheet(w), Separable(Read(v)), Separable(Read(w)), HashOf(v) = HashOf(w)
    PROVE  Read(v) = Read(w)
<1> DEFINE f == Read(v)
           g == Read(w)
<1>1. IsFile(f) /\ Marked(f)
  BY ReadIs, SeparableRead
<1>2. IsFile(g) /\ Marked(g)
  BY ReadIs, SeparableRead
<1>3. ContentHash(f) = ContentHash(g)
  BY DEF HashOf
<1> HIDE DEF f, g
<1>4. f = g
  BY <1>1, <1>2, <1>3, HashOnce
<1>5. QED
  BY <1>4 DEF f, g

\* A file that Write skips for its hash has its records in the database already,
\* whatever the sheets, as long as no cell holds a tab and no header and no cell
\* of the first column goes over lines.  Other cells may: in the text ContentHash
\* hashes, a line feed of a cell is told from the end of a row by the tab that
\* follows the first cell of a row.
THEOREM ShortCircuitCorrect == ContentSpec => []MultilineLosesNothing
<1>1. ContentInv => MultilineLosesNothing
  <2> SUFFICES ASSUME ContentInv, last.end = "short", \A s \in written \cup {last.sheet} : Separable(Read(s))
               PROVE  Stored(last.sheet)
    BY DEF MultilineLosesNothing
  <2> DEFINE v == last.sheet
  <2>1. v \in Sheet /\ Accepted(v) /\ HashOf(v) \in imports /\ Separable(Read(v))
    BY DEF ContentInv
  <2>2. PICK w \in written : HashOf(v) = HashOf(w)
    BY <2>1 DEF ContentInv
  <2>3. w \in Sheet /\ Accepted(w) /\ Separable(Read(w))
    BY <2>2 DEF ContentInv
  <2> HIDE DEF v
  <2>4. IsSheet(v) /\ IsSheet(w)
    BY <2>1, <2>3, AcceptedSheet
  <2>5. Read(v) = Read(w)
    BY <2>1, <2>2, <2>3, <2>4, OneHashOneFile
  <2>6. Stored(v)
    BY <2>5 DEF Stored
  <2>7. QED
    BY <2>6 DEF v
<1>2. QED
  BY <1>1, ContentKept, PTL

\* A file that differs from an imported one in dashes, in blanks at the end of
\* cells and in empty cells at the end of rows only is never imported again.
THEOREM CosmeticsCorrect == ContentSpec => []CosmeticsDoNotCount
<1>1. ContentInv => CosmeticsDoNotCount
  <2> SUFFICES ASSUME ContentInv, NEW v \in written, NEW w \in written, SameWords(v, w)
               PROVE  v = w
    BY DEF CosmeticsDoNotCount
  <2>1. IsSheet(v) /\ IsSheet(w)
    BY AcceptedSheet DEF ContentInv
  <2>2. Read(v) = Read(w)
    BY <2>1, SameWordsRead
  <2>3. HashOf(v) = HashOf(w)
    BY <2>2 DEF HashOf
  <2>4. QED
    BY <2>3 DEF ContentInv
<1>2. QED
  BY <1>1, ContentKept, PTL
=============================================================================
