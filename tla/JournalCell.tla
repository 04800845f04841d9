---------------------------- MODULE JournalCell ----------------------------
(***************************************************************************)
(* domain.ParseJournal as its loop runs over one cell, a line a step.      *)
(***************************************************************************)
EXTENDS Journal

CONSTANT Cell  \* the cells to parse, as their lines

ASSUME CellAssumption == Cell \subseteq Seq(Line)

VARIABLES lines, locals, result

vars == <<lines, locals, result>>

Called == locals = Start /\ result = None

Init == lines \in Cell /\ Called

ReadLine ==
    /\ ~IsBlank(lines) /\ ~locals.failed /\ locals.n < Len(lines)
    /\ locals' = OnLine(locals, lines[locals.n + 1])
    /\ UNCHANGED <<lines, result>>

Return ==
    /\ result = None
    /\ IsBlank(lines) \/ locals.failed \/ locals.n = Len(lines)
    /\ result' \in Returns(lines, locals)
    /\ UNCHANGED <<lines, locals>>

Next == ReadLine \/ Return

Spec == Init /\ [][Next]_vars

-----------------------------------------------------------------------------
TypeOK ==
    /\ lines \in Seq(Line)
    /\ locals \in Locals
    /\ result \in {None} \cup
           [error: {"nil", "timestamp", "ErrMalformedJournal"}, entries: Seq(JournalEntry)]

HeadersIn(c) == {i \in DOMAIN c : c[i] \in Header}

\* ParseJournal answered for a cell it found entries in.
Parsed == result # None /\ result.error = "nil" /\ ~IsBlank(lines)

\* Every header line becomes one entry and no entry comes from anywhere else,
\* whatever the order of headers, bodies and blank lines: the entry that is
\* open when the next header or the end of the cell comes is not lost.
EntriesMatchHeaders ==
    Parsed =>
      /\ \A i \in HeadersIn(lines) : \E k \in DOMAIN result.entries : result.entries[k].at = i
      /\ \A k \in DOMAIN result.entries :
            /\ result.entries[k].at \in HeadersIn(lines)
            /\ result.entries[k].header = lines[result.entries[k].at]
      /\ \A k, l \in DOMAIN result.entries :
            result.entries[k].at = result.entries[l].at => k = l

\* Text is dropped in silence only above the first header.  Below it every
\* line is part of the body of the entry it was written in, in its place; all
\* that goes is the empty lines at the end of a body.
OnlyPreambleDropped ==
    Parsed => \A k \in DOMAIN result.entries :
        LET e == result.entries[k] IN
        /\ \A i \in DOMAIN e.body : e.at + i \in DOMAIN lines /\ e.body[i] = lines[e.at + i]
        /\ \A i \in DOMAIN lines :
              /\ i > e.at + Len(e.body)
              /\ \A h \in HeadersIn(lines) : ~(e.at < h /\ h <= i)
              => lines[i] = Blank

\* The entries are in order of time however the cell listed them.
Chronological ==
    result # None => \A k, l \in DOMAIN result.entries :
        k < l => result.entries[k].header.ts <= result.entries[l].header.ts

\* One header whose time cannot be read fails the cell, and with it the
\* export; otherwise a cell fails only when it has text and no header at all.
FailsOnlyWhole ==
    result # None =>
      /\ result.error # "nil" => result.entries = <<>>
      /\ (\E i \in HeadersIn(lines) : lines[i].ts = Impossible) <=> result.error = "timestamp"
      /\ result.error = "ErrMalformedJournal" =>
            HeadersIn(lines) = {} /\ \E i \in DOMAIN lines : lines[i] \notin White
=============================================================================
