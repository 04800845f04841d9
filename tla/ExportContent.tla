--------------------------- MODULE ExportContent ---------------------------
(***************************************************************************)
(* From the sheet of an xlsx file to the records Write is given and the    *)
(* hash it tells exports apart by: internal/ingest Read, Headers, MapRow   *)
(* and ContentHash.  The other modules take an export for its hash; here   *)
(* the hash is the text that is hashed, so that what one hash stands for   *)
(* can be asked.                                                           *)
(*                                                                         *)
(* A cell is a sequence of characters.  Of those only the ones the code    *)
(* looks at matter: tab, line feed, carriage return, space, hyphen and en  *)
(* dash; a word counts as one character.                                   *)
(***************************************************************************)
EXTENDS Integers, FiniteSets, SequencesExt

CONSTANTS
    Sheet,      \* the sheets of the files to ingest: sequences of rows of cells
    Required,   \* columns that must be there and filled, as their header cells
    Converted,  \* columns that must be there and are converted: dates, the service
    Comments,   \* the journal column, which must be there and may be empty
    Optional,   \* columns that may be missing
    Parses,     \* Parses[col]: the cells column col can be made of
    Null,       \* nil
    MaxRuns     \* bound: executions of the CLI

VARIABLES
    imports,  \* import_hash of the imports rows
    written,  \* the sheets their records were written from
    runs,     \* executions so far
    last      \* the last one: its sheet, and how it ended

contentVars == <<imports, written, runs, last>>

ASSUME RunsAssumption  == MaxRuns \in Nat
ASSUME SheetAssumption == Sheet \subseteq Seq(Seq(Seq(STRING)))

Whitespace == {"SPACE", "TAB", "CR", "LF"}

-----------------------------------------------------------------------------
(* normalise.go *)

\* s without what is in cut at its end.
TrimRight(s, cut) ==
    SubSeq(s, 1, CHOOSE k \in 0 .. Len(s) :
                     /\ k > 0 => s[k] \notin cut
                     /\ \A i \in k + 1 .. Len(s) : s[i] \in cut)

\* Mutant: en dashes stay.
NormaliseCell_KeepsDash(s) == TrimRight(s, Whitespace)

NormaliseCell(s) ==
    TrimRight([i \in DOMAIN s |-> IF s[i] = "EN_DASH" THEN "-" ELSE s[i]], Whitespace)

\* seqs with sep between them, as one sequence.
Joined(seqs, sep) ==
    FlattenSeq([i \in DOMAIN seqs |-> IF i = 1 THEN seqs[i] ELSE <<sep>> \o seqs[i]])

\* Mutant: cells end like rows.
ContentHash_OneSeparator(rows) ==
    Joined([i \in DOMAIN rows |->
               Joined([j \in DOMAIN rows[i] |-> NormaliseCell(rows[i][j])], "LF")], "LF")

\* Up to SHA-256, which gives different texts different hashes.
ContentHash(rows) ==
    Joined([i \in DOMAIN rows |->
               Joined([j \in DOMAIN rows[i] |-> NormaliseCell(rows[i][j])], "TAB")], "LF")

-----------------------------------------------------------------------------
(* reader.go: every row gets the width of the header. *)

\* Mutant: a short row stays short.
Read_Ragged(sheet) ==
    [i \in DOMAIN sheet |-> [j \in DOMAIN sheet[i] |-> NormaliseCell(sheet[i][j])]]

Read(sheet) ==
    [i \in DOMAIN sheet |-> [j \in DOMAIN sheet[1] |->
        IF j \in DOMAIN sheet[i] THEN NormaliseCell(sheet[i][j]) ELSE <<>>]]

-----------------------------------------------------------------------------
(* mapper.go *)

Columns == Required \cup Converted \cup {Comments} \cup Optional

\* The place of each column; of several with one name the last counts.
Headers(names) ==
    [col \in Columns \cap ToSet(names) |-> SelectLastInSeq(names, LAMBDA n : n = col)]

cell(cols, row, col) ==
    IF col \in DOMAIN cols /\ cols[col] \in DOMAIN row THEN row[cols[col]] ELSE <<>>

MissingColumns(cols) == (Required \cup Converted \cup {Comments}) \ DOMAIN cols

\* MapRow returns no error: nothing required is empty, dates are serials, the
\* service is not empty, a journal that has text has a header.
RowMaps(cols, row) ==
    /\ \A col \in Required : cell(cols, row, col) # <<>>
    /\ \A col \in Converted : cell(cols, row, col) \in Parses[col]
    /\ cell(cols, row, Comments) \in Parses[Comments] \cup {<<>>}

MapRow(cols, row) ==
    [col \in Columns |->
        IF col \in Optional /\ cell(cols, row, col) = <<>> THEN Null ELSE cell(cols, row, col)]

\* Read, Headers and MapRow on every row return no error.
Accepted(sheet) ==
    /\ sheet # <<>> /\ sheet[1] # <<>>
    /\ LET file == Read(sheet)
           cols == Headers(file[1])
       IN /\ MissingColumns(cols) = {}
          /\ \A i \in 2 .. Len(file) : RowMaps(cols, file[i])

Records(file) == [i \in 1 .. Len(file) - 1 |-> MapRow(Headers(file[1]), file[i + 1])]

-----------------------------------------------------------------------------
(* Run, with Write cut down to its first decision. *)

ContentInit == imports = {} /\ written = {} /\ runs = 0 /\ last = [sheet |-> <<>>, end |-> "none"]

Reject ==
    \E sheet \in Sheet :
        /\ ~Accepted(sheet)
        /\ last' = [sheet |-> sheet, end |-> "error"]
        /\ UNCHANGED <<imports, written>>

ShortCircuit ==
    \E sheet \in Sheet :
        /\ Accepted(sheet)
        /\ ContentHash(Read(sheet)) \in imports
        /\ last' = [sheet |-> sheet, end |-> "short"]
        /\ UNCHANGED <<imports, written>>

Import ==
    \E sheet \in Sheet :
        /\ Accepted(sheet)
        /\ ContentHash(Read(sheet)) \notin imports
        /\ imports' = imports \cup {ContentHash(Read(sheet))}
        /\ written' = written \cup {sheet}
        /\ last' = [sheet |-> sheet, end |-> "new"]

ContentNext == runs < MaxRuns /\ runs' = runs + 1 /\ (Reject \/ ShortCircuit \/ Import)

ContentSpec == ContentInit /\ [][ContentNext]_contentVars

-----------------------------------------------------------------------------
\* The records of a sheet were written, maybe from another one.
Stored(sheet) == \E w \in written : Records(Read(w)) = Records(Read(sheet))

\* The cells of a real export: the texts of a ticket and its journal go over
\* many lines; headers and ticket numbers do not, and no cell holds a tab.
Separable(file) ==
    \A i \in DOMAIN file : \A j \in DOMAIN file[1] :
        /\ "TAB" \notin ToSet(file[i][j])
        /\ i = 1 \/ j = 1 => "LF" \notin ToSet(file[i][j])

\* ContentHash ends a row with the character that ends a line in a cell, and
\* still a short circuit loses nothing: where the rows begin can be told from
\* the first column and the tabs, so what the skipped file says was written
\* before.
MultilineLosesNothing ==
    last.end = "short" /\ (\A s \in written \cup {last.sheet} : Separable(Read(s)))
    => Stored(last.sheet)

\* Two cells with the same words, that is, which differ in dashes and in blanks
\* at the end only.
Alike(c, d) ==
    LET Word(x) == IF x = "EN_DASH" THEN "-" ELSE x
    IN \E n \in 0 .. Len(c) :
           /\ n <= Len(d)
           /\ \A k \in 1 .. n : Word(c[k]) = Word(d[k])
           /\ \A k \in n + 1 .. Len(c) : c[k] \in Whitespace
           /\ \A k \in n + 1 .. Len(d) : d[k] \in Whitespace

CellAt(s, i, j) == IF j \in DOMAIN s[i] THEN s[i][j] ELSE <<>>

\* Two sheets of the same columns and the same words: empty cells at the end of
\* a row do not count either.
SameWords(a, b) ==
    /\ Len(a) = Len(b) /\ Len(a[1]) = Len(b[1])
    /\ \A i \in DOMAIN a : \A j \in DOMAIN a[1] : Alike(CellAt(a, i, j), CellAt(b, i, j))

\* Cosmetic differences do not defeat the idempotency of ingest: a file that
\* reads like the one before is not imported again.
CosmeticsDoNotCount == \A v, w \in written : SameWords(v, w) => v = w
=============================================================================
