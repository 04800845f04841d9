------------------------------ MODULE Journal ------------------------------
(***************************************************************************)
(* What domain.ParseJournal does with one line of a "Comments and Work     *)
(* notes" cell and what it returns after the last.  ServiceNow renders a   *)
(* cell as entries of a header line and the lines of a body.  A line that  *)
(* matches the header pattern is a record; any other line is a member of   *)
(* Text, after its trailing CRs.                                           *)
(***************************************************************************)
EXTENDS Integers, FiniteSets, Sequences, Functions

CONSTANTS
    Timestamp,    \* the times a header may carry, in seconds
    Impossible,   \* what fits the pattern and is no time, such as a month 13
    Author,
    Context,
    Text,         \* lines that are no headers
    White,        \* those of them that are only whitespace
    Blank,        \* the empty one
    None,         \* nil
    InsertionMax  \* sort.Slice is an insertion sort up to this length

Header == [ts: Timestamp \cup {Impossible}, author: Author, context: Context]
Line   == Header \cup Text

\* A JournalEntry.  at, the place of its header line, is not kept by the code:
\* it ties what is returned to the cell.
JournalEntry == [at: Nat,
                 header: [ts: Timestamp, author: Author, context: Context],
                 body: Seq(Text)]

ASSUME TimestampAssumption == Timestamp \subseteq Int /\ Impossible \notin Timestamp
ASSUME TextAssumption      == Text \cap Header = {} /\ White \subseteq Text /\ Blank \in White
ASSUME NoneAssumption      == None \notin JournalEntry
ASSUME InsertionAssumption == InsertionMax \in Nat

-----------------------------------------------------------------------------
(* The locals of the loop, and one turn of it. *)

Locals == [n: Nat,                             \* lines read
           current: JournalEntry \cup {None},
           body: Seq(Text),
           entries: Seq(JournalEntry),
           failed: BOOLEAN]                    \* a timestamp did not parse

Start == [n |-> 0, current |-> None, body |-> <<>>, entries |-> <<>>, failed |-> FALSE]

\* TrimRight(body, "\n"): the empty lines at the end go, other blank ones stay.
Trimmed(b) ==
    CHOOSE t \in {SubSeq(b, 1, k) : k \in 0 .. Len(b)} :
        /\ t # <<>> => t[Len(t)] # Blank
        /\ \A i \in Len(t) + 1 .. Len(b) : b[i] = Blank

\* Mutant: body.Reset is forgotten.
flush_KeepsBody(p) ==
    IF p.current = None THEN p
    ELSE [p EXCEPT !.entries = Append(@, [p.current EXCEPT !.body = Trimmed(p.body)]),
                   !.current = None]

flush(p) ==
    IF p.current = None THEN p
    ELSE [p EXCEPT !.entries = Append(@, [p.current EXCEPT !.body = Trimmed(p.body)]),
                   !.current = None,
                   !.body = <<>>]

\* Mutant: the error of ParseInLocation is not looked at.
OnHeader_IgnoresError(p, h) ==
    [flush(p) EXCEPT !.n = p.n + 1, !.current = [at |-> p.n + 1, header |-> h, body |-> <<>>]]

OnHeader(p, h) ==
    LET f == flush(p) IN
    IF h.ts = Impossible
    THEN [f EXCEPT !.n = p.n + 1, !.failed = TRUE]
    ELSE [f EXCEPT !.n = p.n + 1, !.current = [at |-> p.n + 1, header |-> h, body |-> <<>>]]

OnText(p, t) ==
    IF p.current = None
    THEN [p EXCEPT !.n = p.n + 1]
    ELSE [p EXCEPT !.n = p.n + 1, !.body = Append(@, t)]

OnLine(p, line) == IF line \in Header THEN OnHeader(p, line) ELSE OnText(p, line)

-----------------------------------------------------------------------------
(* What is returned. *)

IsBlank(c) == \A i \in DOMAIN c : c[i] \in White

\* Mutant: entries are returned in the order of the cell.
sorted_Unsorted(s) == {s}

\* sort.Slice by EventTS: stable as long as it is an insertion sort, any order
\* among the entries of one second beyond.
sorted(s) ==
    {[i \in DOMAIN s |-> s[q[i]]] : q \in
        {q \in Bijection(DOMAIN s, DOMAIN s) : \A i, j \in DOMAIN s : i < j =>
            \/ s[q[i]].header.ts < s[q[j]].header.ts
            \/ /\ s[q[i]].header.ts = s[q[j]].header.ts
               /\ Len(s) <= InsertionMax => q[i] < q[j]}}

Error(e) == [error |-> e, entries |-> <<>>]

\* Mutant: the flush after the loop is missing.
Returns_LastOpen(c, p) ==
    IF IsBlank(c) THEN {Error("nil")}
    ELSE IF p.failed THEN {Error("timestamp")}
    ELSE IF p.entries = <<>> THEN {Error("ErrMalformedJournal")}
    ELSE {[error |-> "nil", entries |-> s] : s \in sorted(p.entries)}

\* The possible returns once the loop over cell c is left with locals p.
Returns(c, p) ==
    IF IsBlank(c) THEN {Error("nil")}
    ELSE IF p.failed THEN {Error("timestamp")}
    ELSE IF flush(p).entries = <<>> THEN {Error("ErrMalformedJournal")}
    ELSE {[error |-> "nil", entries |-> s] : s \in sorted(flush(p).entries)}
=============================================================================
