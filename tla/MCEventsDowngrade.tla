------------------------- MODULE MCEventsDowngrade -------------------------
EXTENDS EventsDowngrade

CONSTANTS r1, r2

\* Ticket "A" has a burst of two bodies by one author and one by another in the
\* same second; ticket "B" has one entry.
E(n, a, b) == [num |-> n, moment |-> 1, author |-> a, body |-> b]

MCEntry == {E("A", "u", 1), E("A", "u", 2), E("A", "v", 1), E("B", "u", 1)}

\* Two exports that take the tickets in opposite orders and share an entry.
MCRows ==
    [x |-> << [num |-> "A", journal |-> <<E("A", "u", 1)>>],
              [num |-> "B", journal |-> <<E("B", "u", 1)>>] >>,
     y |-> << [num |-> "B", journal |-> <<E("B", "u", 1)>>],
              [num |-> "A", journal |-> <<E("A", "u", 2), E("A", "u", 1), E("A", "v", 1)>>] >>]
=============================================================================
