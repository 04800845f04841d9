----------------------------- MODULE RowParsing -----------------------------
(***************************************************************************)
(* What MapRow does with the two cells of a row that are parsed: the       *)
(* business service first, a token a step, then the journal, a line a      *)
(* step.  An error of the first leaves the second unread.                  *)
(***************************************************************************)
EXTENDS JournalCell, BusinessService

CONSTANT Row  \* the rows to map: records of a service, as its fields, and a journal cell

ASSUME RowAssumption ==
    \A r \in Row : r.service \in Seq(Seq(STRING)) /\ r.journal \in Seq(Line)

MapInit ==
    /\ \E r \in Row : tokens = r.service /\ lines = r.journal
    /\ ServiceCalled /\ Called

\* ParseBusinessService, until it returns.
MapService == ServiceNext /\ UNCHANGED vars

\* ParseJournal, once the service is there.
MapJournal == Returned /\ Next /\ UNCHANGED serviceVars

MapNext == MapService \/ MapJournal

MapSpec == MapInit /\ [][MapNext]_<<vars, serviceVars>>
=============================================================================
