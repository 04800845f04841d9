--------------------------- MODULE MCTicketAging ---------------------------
(***************************************************************************)
(* One ticket of each kind of severity over three weeks.                   *)
(***************************************************************************)
EXTENDS TicketAging

MCWeights  == [Severity |-> 5, Age |-> 2, Due |-> 3]
MCSeverity == [s \in {"1", "High", "Medium", "Low", "Planning"} |->
                  CASE s = "1" -> 4 [] s = "High" -> 3 [] s = "Medium" -> 2
                    [] s = "Low" -> 1 [] s = "Planning" -> 0]

\* "Urgent" is a severity the map does not know; one ticket is opened in the
\* future, one is due far ahead.
MCTickets ==
    [severity: {"1", "High", "Medium", "Low", "Planning", "Urgent"}, opened: {0},
     due: {3, 18}, caller: {"ann"}]
    \cup {[severity |-> "High", opened |-> 2, due |-> 40, caller |-> "bob"]}

MCEvents == {[ts |-> 1, author |-> "ann", context |-> "Additional comments"],
             [ts |-> 2, author |-> "ann", context |-> "Work Notes"],
             [ts |-> 5, author |-> "bob", context |-> "Additional comments"]}
=============================================================================
