-------------------------- MODULE MCTicketJournal --------------------------
(***************************************************************************)
(* A ticket with up to MaxEntries entries over two seconds.                *)
(***************************************************************************)
EXTENDS TicketJournal

CONSTANTS Words, Spaces

\* Nothing, one line, lines around an empty one, a line of spaces at the end.
MCBody == {<<>>, <<Words>>, <<Words, Blank, Words>>, <<Words, Spaces>>}
=============================================================================
