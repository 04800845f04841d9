------------------------ MODULE IngestWriter_proofs ------------------------
(***************************************************************************)
(* Theorems about IngestWriter, for every set of runs and exports.         *)
(***************************************************************************)
EXTENDS IngestWriter, FiniteSetTheorems, TLAPS

-----------------------------------------------------------------------------
(* Facts about the data. *)

\* Records of an export, and their fields, have the type they are declared with.
LEMMA RecordType ==
    ASSUME NEW x \in Export, NEW k \in DOMAIN Rows[x]
    PROVE  /\ Rows[x] \in Seq(Record)
           /\ Rows[x][k] \in Record
           /\ Rows[x][k].num \in Ticket
           /\ Rows[x][k].svc \in Service
           /\ Rows[x][k].journal \in Seq(Entry)
           /\ ClientOf[Rows[x][k].svc] \in Client \cup {Null}
           /\ k \in Nat
<1>1. Rows[x] \in Seq(Record)
  BY RowsAssumption
<1>2. Rows[x][k] \in Record /\ k \in Nat
  BY <1>1
<1>3. QED
  BY <1>1, <1>2, ClientOfAssumption DEF Record

LEMMA EmptyType == Empty \in Database
BY DEF Empty, Database

LEMMA OverlayType ==
    ASSUME NEW d \in Database, NEW w \in Database
    PROVE  Overlay(d, w) \in Database
<1> DEFINE T == [n \in Ticket |-> IF w.tickets[n] # Absent THEN w.tickets[n] ELSE d.tickets[n]]
<1>1. T \in [Ticket -> TicketRow \cup {Absent}]
  BY DEF Database
<1>2. QED
  BY <1>1 DEF Overlay, Database

\* The journal slots of a file are finitely many.
LEMMA SlotsFinite ==
    ASSUME NEW x \in Export
    PROVE  IsFiniteSet(Slots(x))
<1> DEFINE f == [i \in DOMAIN Rows[x] |-> {i} \X DOMAIN Rows[x][i].journal]
           S == {f[i] : i \in DOMAIN Rows[x]}
<1>1. \A i \in DOMAIN Rows[x] : IsFiniteSet(f[i])
  <2> TAKE i \in DOMAIN Rows[x]
  <2>1. DOMAIN Rows[x][i].journal = 1 .. Len(Rows[x][i].journal)
        /\ Len(Rows[x][i].journal) \in Nat
    BY RecordType
  <2>2. IsFiniteSet(DOMAIN Rows[x][i].journal)
    BY <2>1, FS_Interval
  <2>3. QED
    BY <2>2, FS_Singleton, FS_Product
<1>2. IsFiniteSet(DOMAIN Rows[x])
  <2>1. DOMAIN Rows[x] = 1 .. Len(Rows[x]) /\ Len(Rows[x]) \in Nat
    BY RowsAssumption
  <2>2. IsFiniteSet(1 .. Len(Rows[x]))
    BY <2>1, FS_Interval
  <2>3. QED
    BY <2>1, <2>2
<1>3. IsFiniteSet(S)
  <2>1. f \in Surjection(DOMAIN Rows[x], S)
    BY DEF Surjection
  <2>2. QED
    BY <2>1, <1>2, FS_Surjection
<1>4. IsFiniteSet(UNION S)
  BY <1>1, <1>3, FS_UNION
<1>5. Slots(x) = UNION S
  BY DEF Slots
<1>6. QED
  BY <1>4, <1>5

\* A file has a finite number of journal entries: what countJournalEntries adds
\* up is a number.
LEMMA TotalEventsType ==
    ASSUME NEW x \in Export
    PROVE  TotalEvents(x) \in Nat
BY SlotsFinite, FS_CardinalityType DEF TotalEvents

-----------------------------------------------------------------------------
(* Type correctness. *)

\* A loop that goes on, goes on to a place inside the export or to Commit.
LEMMA PlaceType ==
    ASSUME TypeOK, PlaceOK, NEW r \in Run, phase[r] \in Looping
    PROVE  /\ export[r] \in Export
           /\ row[r] \in DOMAIN Rows[export[r]]
           /\ Rec(r) \in Record
           /\ Rec(r).num \in Ticket
           /\ Rec(r).svc \in Service
           /\ Rec(r).journal \in Seq(Entry)
           /\ ClientOf[Rec(r).svc] \in Client \cup {Null}
           /\ RowOf(Rec(r), r) \in TicketRow
<1>1. export[r] \in Export /\ row[r] \in DOMAIN Rows[export[r]]
  BY DEF PlaceOK, Place, Looping
<1>2. Rec(r) \in Record
  BY <1>1, RecordType DEF Rec
<1>3. QED
  BY <1>1, <1>2, RecordType DEF Rec, RowOf, TicketRow, Record, Run

LEMMA TypeInit == Init => TypeOK /\ PlaceOK
BY EmptyType DEF Init, TypeOK, PlaceOK, Place, NoSummary, Summary, Phases, InTransaction,
                 Ended, Looping, Committing

LEMMA ToRecordType ==
    ASSUME TypeOK, NEW r \in Run, NEW i \in Nat, export[r] \in Export, ToRecord(r, i)
    PROVE  /\ phase' \in [Run -> Phases] /\ row' \in [Run -> Nat] /\ entry' \in [Run -> Nat]
BY DEF TypeOK, ToRecord, GoTo, Phases, InTransaction

LEMMA ToEntryType ==
    ASSUME TypeOK, PlaceOK, NEW r \in Run, NEW j \in Nat, phase[r] \in Looping, ToEntry(r, j)
    PROVE  /\ phase' \in [Run -> Phases] /\ row' \in [Run -> Nat] /\ entry' \in [Run -> Nat]
<1>1. CASE j \in DOMAIN Journal(r)
  BY <1>1 DEF TypeOK, ToEntry, GoTo, Phases, InTransaction
<1>2. CASE j \notin DOMAIN Journal(r)
  <2>1. row[r] + 1 \in Nat
    BY DEF TypeOK
  <2>2. ToRecord(r, row[r] + 1)
    BY <1>2 DEF ToEntry
  <2>3. QED
    BY <2>1, <2>2, PlaceType, ToRecordType
<1>3. QED
  BY <1>1, <1>2

LEMMA EndInErrorType ==
    ASSUME TypeOK, NEW r \in Run, EndInError(r)
    PROVE  /\ phase' \in [Run -> Phases] /\ export' \in [Run -> Export \cup {Absent}]
           /\ row' \in [Run -> Nat] /\ entry' \in [Run -> Nat] /\ sum' \in [Run -> Summary]
BY DEF TypeOK, EndInError, GoTo, Phases, Ended, NoSummary, Summary

LEMMA PublishType ==
    ASSUME TypeOK, NEW r \in Run, Publish(r) \/ Discard(r)
    PROVE  db' \in Database /\ tx' \in [Run -> Database]
BY EmptyType, OverlayType DEF TypeOK, Publish, Discard, View

LEMMA TypeStep == TypeOK /\ PlaceOK /\ [Next]_vars => TypeOK'
<1> SUFFICES ASSUME TypeOK, PlaceOK, [Next]_vars PROVE TypeOK'
  OBVIOUS
<1> USE DEF TypeOK
<1>1. ASSUME NEW r \in Run, NEW x \in Export, Start(r, x) PROVE TypeOK'
  BY <1>1 DEF Start, GoTo, Phases, InTransaction
<1>2. ASSUME NEW r \in Run, Reject(r) PROVE TypeOK'
  BY <1>2 DEF Reject, GoTo, Phases, Ended
<1>3. ASSUME NEW r \in Run, InsertImport(r) PROVE TypeOK'
  <2>1. export[r] \in Export
    BY <1>3 DEF InsertImport, Executes, PlaceOK, Place
  <2>2. /\ phase' \in [Run -> Phases] /\ row' \in [Run -> Nat] /\ entry' \in [Run -> Nat]
    BY <1>3, <2>1, ToRecordType DEF InsertImport
  <2>3. [tx[r] EXCEPT !.imports = @ \cup {[hash |-> export[r], id |-> r]}] \in Database
    <3>1. [hash |-> export[r], id |-> r] \in ImportRow
      BY <2>1 DEF ImportRow, Run
    <3>2. QED
      BY <3>1 DEF Database
  <2>4. tx' = [tx EXCEPT ![r] = [tx[r] EXCEPT !.imports = @ \cup {[hash |-> export[r], id |-> r]}]]
    BY <1>3 DEF InsertImport
  <2>5. tx' \in [Run -> Database]
    BY <2>3, <2>4
  <2>6. QED
    BY <1>3, <2>2, <2>5 DEF InsertImport
<1>4. ASSUME NEW r \in Run, FindImport(r) PROVE TypeOK'
  BY <1>4 DEF FindImport, GoTo, Phases, InTransaction
<1>5. ASSUME NEW r \in Run, LookupImport(r) PROVE TypeOK'
  <2>1. TotalEvents(export[r]) \in Nat
    BY <1>5, TotalEventsType DEF LookupImport, Executes, PlaceOK, Place
  <2>2. sum' \in [Run -> Summary]
    BY <1>5, <2>1 DEF LookupImport, Summary
  <2>3. QED
    BY <1>5, <2>2 DEF LookupImport, GoTo, Phases, InTransaction
<1>6. ASSUME NEW r \in Run, UpsertClient(r) PROVE TypeOK'
  <2>1. ClientOf[Rec(r).svc] \in Client \cup {Null}
    BY <1>6, PlaceType DEF UpsertClient, Executes, Looping
  <2>2. [tx[r] EXCEPT !.clients = @ \cup ({ClientOf[Rec(r).svc]} \ {Null})] \in Database
    BY <2>1 DEF Database
  <2>3. tx' = [tx EXCEPT ![r] = [tx[r] EXCEPT !.clients = @ \cup ({ClientOf[Rec(r).svc]} \ {Null})]]
    BY <1>6 DEF UpsertClient
  <2>4. QED
    BY <1>6, <2>2, <2>3 DEF UpsertClient, GoTo, Phases, InTransaction
<1>7. ASSUME NEW r \in Run, UpsertBusinessService(r) PROVE TypeOK'
  <2>1. Rec(r).svc \in Service
    BY <1>7, PlaceType DEF UpsertBusinessService, Executes, Looping
  <2>2. [tx[r] EXCEPT !.business_services = @ \cup {Rec(r).svc}] \in Database
    BY <2>1 DEF Database
  <2>3. tx' = [tx EXCEPT ![r] = [tx[r] EXCEPT !.business_services = @ \cup {Rec(r).svc}]]
    BY <1>7 DEF UpsertBusinessService
  <2>4. QED
    BY <1>7, <2>2, <2>3 DEF UpsertBusinessService, GoTo, Phases, InTransaction
<1>8. ASSUME NEW r \in Run, UpsertTicket(r) PROVE TypeOK'
  <2>1. phase[r] \in Looping /\ Rec(r).num \in Ticket /\ RowOf(Rec(r), r) \in TicketRow
    BY <1>8, PlaceType DEF UpsertTicket, Executes, Looping
  <2>2. [tx[r] EXCEPT !.tickets = [@ EXCEPT ![Rec(r).num] = RowOf(Rec(r), r)]] \in Database
    BY <2>1 DEF Database
  <2>3. tx' = [tx EXCEPT ![r] = [tx[r] EXCEPT !.tickets = [@ EXCEPT ![Rec(r).num] = RowOf(Rec(r), r)]]]
    BY <1>8 DEF UpsertTicket
  <2>4. tx' \in [Run -> Database]
    BY <2>2, <2>3
  <2>5. sum' \in [Run -> Summary]
    BY <1>8 DEF UpsertTicket, Summary
  <2>6. /\ phase' \in [Run -> Phases] /\ row' \in [Run -> Nat] /\ entry' \in [Run -> Nat]
    BY <1>8, <2>1, ToEntryType DEF UpsertTicket
  <2>7. QED
    BY <1>8, <2>4, <2>5, <2>6 DEF UpsertTicket
<1>9. ASSUME NEW r \in Run, InsertEvent(r) PROVE TypeOK'
  <2> DEFINE v == [num |-> Rec(r).num, entry |-> Journal(r)[entry[r]], source |-> r]
  <2>1. phase[r] \in Looping /\ Rec(r).num \in Ticket /\ Journal(r)[entry[r]] \in Entry
    BY <1>9, PlaceType DEF InsertEvent, Executes, Looping, PlaceOK, Place, Journal
  <2>2. [tx[r] EXCEPT !.ticket_events = @ \cup {v}] \in Database
    <3>1. v \in EventRow
      BY <2>1 DEF EventRow, Run
    <3>2. QED
      BY <3>1 DEF Database
  <2>3. tx' = tx \/ tx' = [tx EXCEPT ![r] = [tx[r] EXCEPT !.ticket_events = @ \cup {v}]]
    BY <1>9 DEF InsertEvent
  <2>4. tx' \in [Run -> Database]
    BY <2>2, <2>3
  <2>5. sum' \in [Run -> Summary]
    <3>1. /\ [sum[r] EXCEPT !.events_skipped = @ + 1] \in Summary
          /\ [sum[r] EXCEPT !.events_new = @ + 1] \in Summary
      BY DEF Summary
    <3>2. \/ sum' = [sum EXCEPT ![r] = [sum[r] EXCEPT !.events_skipped = @ + 1]]
          \/ sum' = [sum EXCEPT ![r] = [sum[r] EXCEPT !.events_new = @ + 1]]
      BY <1>9 DEF InsertEvent
    <3>3. QED
      BY <3>1, <3>2
  <2>6. entry[r] + 1 \in Nat
    OBVIOUS
  <2>7. /\ phase' \in [Run -> Phases] /\ row' \in [Run -> Nat] /\ entry' \in [Run -> Nat]
    BY <1>9, <2>1, <2>6, ToEntryType DEF InsertEvent
  <2>8. QED
    BY <1>9, <2>4, <2>5, <2>7 DEF InsertEvent
<1>10. ASSUME NEW r \in Run, ServerCommit(r) PROVE TypeOK'
  BY <1>10, PublishType DEF ServerCommit, GoTo, Phases
<1>11. ASSUME NEW r \in Run, Ack(r) PROVE TypeOK'
  BY <1>11 DEF Ack, GoTo, Phases, Ended
<1>12. ASSUME NEW r \in Run, AckLost(r) PROVE TypeOK'
  BY <1>12, EndInErrorType DEF AckLost
<1>13. ASSUME NEW r \in Run, StatementFails(r) \/ DeadlockAbort(r) \/ BackendRollback(r)
       PROVE  TypeOK'
  BY <1>13, EndInErrorType, PublishType DEF StatementFails, DeadlockAbort, BackendRollback
<1>14. ASSUME NEW r \in Run, LoseClient(r) PROVE TypeOK'
  BY <1>14 DEF LoseClient, GoTo, Phases, Ended
<1>15. ASSUME NEW r \in Run, BackendCommit(r) PROVE TypeOK'
  BY <1>15, EndInErrorType, PublishType DEF BackendCommit
<1>16. CASE UNCHANGED vars
  BY <1>16 DEF vars
<1>17. QED
  BY <1>1, <1>2, <1>3, <1>4, <1>5, <1>6, <1>7, <1>8, <1>9, <1>10, <1>11, <1>12, <1>13,
     <1>14, <1>15, <1>16 DEF Next, Step, Proceed

\* A step of one run leaves the variables of the others alone.
LEMMA OthersStay ==
    ASSUME TypeOK, NEW r \in Run, Step(r), NEW q \in Run, q # r
    PROVE  /\ phase'[q] = phase[q]
           /\ export'[q] = export[q]
           /\ row'[q] = row[q]
           /\ entry'[q] = entry[q]
           /\ tx'[q] = tx[q]
           /\ sum'[q] = sum[q]
<1> USE DEF TypeOK, GoTo
<1>1. CASE \E x \in Export : Start(r, x)
  BY <1>1 DEF Start
<1>2. CASE Reject(r)
  BY <1>2 DEF Reject
<1>3. CASE InsertImport(r)
  BY <1>3 DEF InsertImport, ToRecord
<1>4. CASE FindImport(r) \/ LookupImport(r)
  BY <1>4 DEF FindImport, LookupImport
<1>5. CASE UpsertClient(r) \/ UpsertBusinessService(r)
  BY <1>5 DEF UpsertClient, UpsertBusinessService
<1>6. CASE UpsertTicket(r)
  BY <1>6 DEF UpsertTicket, ToEntry, ToRecord
<1>7. CASE InsertEvent(r)
  BY <1>7 DEF InsertEvent, ToEntry, ToRecord
<1>8. CASE ServerCommit(r) \/ Ack(r)
  BY <1>8 DEF ServerCommit, Ack, Publish
<1>9. CASE AckLost(r) \/ StatementFails(r) \/ DeadlockAbort(r)
  BY <1>9 DEF AckLost, StatementFails, DeadlockAbort, Discard, EndInError
<1>10. CASE LoseClient(r) \/ BackendRollback(r) \/ BackendCommit(r)
  BY <1>10 DEF LoseClient, BackendRollback, BackendCommit, Publish, Discard, EndInError
<1>11. QED
  BY <1>1, <1>2, <1>3, <1>4, <1>5, <1>6, <1>7, <1>8, <1>9, <1>10 DEF Step, Proceed

\* Write's loop is inside the export while it runs and past its end after it.
LEMMA ToRecordPlace ==
    ASSUME TypeOK, NEW r \in Run, NEW i \in Nat, export[r] \in Export, ToRecord(r, i),
           export' = export, ~sum'[r].short, i <= Len(Rows[export[r]]) + 1, i > 0
    PROVE  Place(r)'
<1>1. /\ phase'[r] = IF i \in DOMAIN Rows[export[r]] THEN "client" ELSE "commit"
      /\ row'[r] = i
  BY DEF TypeOK, ToRecord, GoTo
<1>2. /\ DOMAIN Rows[export[r]] = 1 .. Len(Rows[export[r]])
      /\ Len(Rows[export[r]]) \in Nat
  BY RowsAssumption
<1>3. i \notin DOMAIN Rows[export[r]] => i = Len(Rows[export[r]]) + 1
  BY <1>2
<1>4. QED
  BY <1>1, <1>3 DEF Place, Looping, Committing

LEMMA ToEntryPlace ==
    ASSUME TypeOK, PlaceOK, NEW r \in Run, NEW j \in Nat, phase[r] \in Looping,
           ToEntry(r, j), export' = export, ~sum'[r].short
    PROVE  Place(r)'
<1>1. export[r] \in Export /\ row[r] \in DOMAIN Rows[export[r]]
  BY PlaceType
<1>2. CASE j \in DOMAIN Journal(r)
  <2>1. /\ phase'[r] = "event" /\ row'[r] = row[r] /\ entry'[r] = j
    BY <1>2 DEF ToEntry, GoTo, TypeOK
  <2>2. QED
    BY <1>1, <1>2, <2>1 DEF Place, Looping, Committing, Journal, Rec
<1>3. CASE j \notin DOMAIN Journal(r)
  <2>1. DOMAIN Rows[export[r]] = 1 .. Len(Rows[export[r]]) /\ Len(Rows[export[r]]) \in Nat
    BY <1>1, RowsAssumption
  <2>2. row[r] + 1 \in Nat /\ row[r] + 1 <= Len(Rows[export[r]]) + 1 /\ row[r] + 1 > 0
    BY <1>1, <2>1
  <2>3. ToRecord(r, row[r] + 1)
    BY <1>3 DEF ToEntry
  <2>4. QED
    BY <1>1, <2>2, <2>3, ToRecordPlace
<1>4. QED
  BY <1>2, <1>3

LEMMA PlaceStep == TypeOK /\ PlaceOK /\ [Next]_vars => PlaceOK'
<1> SUFFICES ASSUME TypeOK, PlaceOK, [Next]_vars PROVE PlaceOK'
  OBVIOUS
<1>1. CASE UNCHANGED vars
  BY <1>1 DEF vars, PlaceOK, Place, Journal, Rec
<1>2. ASSUME NEW r \in Run, Step(r) PROVE PlaceOK'
  <2>1. ASSUME NEW q \in Run, q # r PROVE Place(q)'
    BY <1>2, <2>1, OthersStay DEF PlaceOK, Place, Journal, Rec
  <2>2. Place(r)'
    <3> USE DEF TypeOK, GoTo, Looping, Committing
    <3>p. Place(r)
      BY DEF PlaceOK
    <3>1. ASSUME NEW x \in Export, Start(r, x) PROVE Place(r)'
      BY <3>p, <3>1 DEF Start, Place
    <3>2. CASE Reject(r)
      BY <3>p, <3>2 DEF Reject, Place
    <3>3. CASE InsertImport(r)
      <4>1. export[r] \in Export /\ ~sum[r].short
        BY <3>p, <3>3 DEF InsertImport, Executes, Place
      <4>2. Len(Rows[export[r]]) \in Nat
        BY <4>1, RowsAssumption
      <4>3. 1 \in Nat /\ 1 <= Len(Rows[export[r]]) + 1 /\ 1 > 0
        BY <4>2
      <4>4. ToRecord(r, 1) /\ export' = export /\ ~sum'[r].short
        BY <3>3, <4>1 DEF InsertImport
      <4>5. QED
        BY <4>1, <4>3, <4>4, ToRecordPlace
    <3>4. CASE FindImport(r)
      BY <3>p, <3>4 DEF FindImport, Executes, Place
    <3>5. CASE LookupImport(r)
      <4>1. sum'[r].short
        BY <3>5 DEF LookupImport, Summary
      <4>2. QED
        BY <3>p, <3>5, <4>1 DEF LookupImport, Executes, Place
    <3>6. CASE UpsertClient(r) \/ UpsertBusinessService(r)
      BY <3>p, <3>6 DEF UpsertClient, UpsertBusinessService, Executes, Place
    <3>7. CASE UpsertTicket(r)
      <4>1. phase[r] \in Looping
        BY <3>7 DEF UpsertTicket, Executes
      <4>2. ~sum'[r].short
        <5>1. \/ sum' = [sum EXCEPT ![r] = [sum[r] EXCEPT !.tickets_new = @ + 1]]
              \/ sum' = [sum EXCEPT ![r] = [sum[r] EXCEPT !.tickets_updated = @ + 1]]
          BY <3>7 DEF UpsertTicket
        <5>2. sum[r] \in Summary /\ ~sum[r].short
          BY <3>p, <4>1 DEF Place
        <5>3. /\ ~[sum[r] EXCEPT !.tickets_new = @ + 1].short
              /\ ~[sum[r] EXCEPT !.tickets_updated = @ + 1].short
          BY <5>2 DEF Summary
        <5>4. QED
          BY <5>1, <5>3
      <4>3. QED
        BY <3>7, <4>1, <4>2, ToEntryPlace DEF UpsertTicket
    <3>8. CASE InsertEvent(r)
      <4>1. phase[r] \in Looping
        BY <3>8 DEF InsertEvent, Executes
      <4>2. ~sum'[r].short
        <5>1. \/ sum' = [sum EXCEPT ![r] = [sum[r] EXCEPT !.events_skipped = @ + 1]]
              \/ sum' = [sum EXCEPT ![r] = [sum[r] EXCEPT !.events_new = @ + 1]]
          BY <3>8 DEF InsertEvent
        <5>2. sum[r] \in Summary /\ ~sum[r].short
          BY <3>p, <4>1 DEF Place
        <5>3. /\ ~[sum[r] EXCEPT !.events_skipped = @ + 1].short
              /\ ~[sum[r] EXCEPT !.events_new = @ + 1].short
          BY <5>2 DEF Summary
        <5>4. QED
          BY <5>1, <5>3
      <4>3. entry[r] + 1 \in Nat
        OBVIOUS
      <4>4. QED
        BY <3>8, <4>1, <4>2, <4>3, ToEntryPlace DEF InsertEvent
    <3>9. CASE ServerCommit(r) \/ Ack(r)
      BY <3>p, <3>9 DEF ServerCommit, Ack, Place
    <3>10. CASE AckLost(r) \/ StatementFails(r) \/ DeadlockAbort(r) \/ BackendRollback(r)
                \/ BackendCommit(r)
      <4>1. EndInError(r)
        BY <3>10 DEF AckLost, StatementFails, DeadlockAbort, BackendRollback, BackendCommit
      <4>2. QED
        <5>1. phase'[r] = "failed" /\ ~sum'[r].short
          BY <4>1 DEF EndInError, NoSummary
        <5>2. QED
          BY <5>1 DEF Place
    <3>11. CASE LoseClient(r)
      BY <3>p, <3>11 DEF LoseClient, Place, InTransaction
    <3>12. QED
      BY <1>2, <3>1, <3>2, <3>3, <3>4, <3>5, <3>6, <3>7, <3>8, <3>9, <3>10, <3>11
         DEF Step, Proceed
  <2>3. QED
    BY <2>1, <2>2 DEF PlaceOK
<1>3. QED
  BY <1>1, <1>2 DEF Next

\* Every variable keeps its type and the loop indices stay inside the export
\* being written, in every behaviour of every number of runs.
THEOREM TypeCorrect == Spec => [](TypeOK /\ PlaceOK)
<1>1. Init => TypeOK /\ PlaceOK
  BY TypeInit
<1>2. TypeOK /\ PlaceOK /\ [Next]_vars => (TypeOK /\ PlaceOK)'
  BY TypeStep, PlaceStep
<1>3. QED
  BY <1>1, <1>2, PTL DEF Spec

-----------------------------------------------------------------------------
(* What an open transaction holds. *)

\* What a step does to the tables: nothing; or r's loop writes one row; or r's
\* transaction ends, and takes all it wrote with it or makes all of it visible.
LEMMA StepShape ==
    ASSUME TypeOK, NEW r \in Run, Step(r)
    PROVE  \/ db' = db /\ tx' = tx
           \/ /\ db' = db
              /\ \/ InsertImport(r) \/ UpsertClient(r) \/ UpsertBusinessService(r)
                 \/ UpsertTicket(r) \/ InsertEvent(r)
           \/ Publish(r) /\ phase[r] \in Committing /\ phase'[r] \in {"committed", "failed"}
           \/ Discard(r) /\ phase'[r] = "failed"
<1> USE DEF TypeOK, GoTo, EndInError
<1>1. CASE (\E x \in Export : Start(r, x)) \/ Reject(r) \/ FindImport(r) \/ LookupImport(r)
            \/ Ack(r) \/ AckLost(r) \/ LoseClient(r)
  BY <1>1 DEF Start, Reject, FindImport, LookupImport, Ack, AckLost, LoseClient
<1>2. CASE \/ InsertImport(r) \/ UpsertClient(r) \/ UpsertBusinessService(r)
           \/ UpsertTicket(r) \/ InsertEvent(r)
  BY <1>2 DEF InsertImport, UpsertClient, UpsertBusinessService, UpsertTicket, InsertEvent
<1>3. CASE ServerCommit(r) \/ BackendCommit(r)
  BY <1>3 DEF ServerCommit, BackendCommit, Committing
<1>4. CASE StatementFails(r) \/ DeadlockAbort(r) \/ BackendRollback(r)
  BY <1>4 DEF StatementFails, DeadlockAbort, BackendRollback
<1>5. QED
  BY <1>1, <1>2, <1>3, <1>4 DEF Step, Proceed

\* The writes of the loop, as changes to what r's transaction has written.
LEMMA LoopWrites ==
    ASSUME TypeOK, PlaceOK, NEW r \in Run
    PROVE  /\ InsertImport(r) =>
                 tx'[r] = [tx[r] EXCEPT !.imports = @ \cup {[hash |-> export[r], id |-> r]}]
           /\ UpsertClient(r) =>
                 tx'[r] = [tx[r] EXCEPT !.clients = @ \cup ({ClientOf[Rec(r).svc]} \ {Null})]
           /\ UpsertBusinessService(r) =>
                 tx'[r] = [tx[r] EXCEPT !.business_services = @ \cup {Rec(r).svc}]
           /\ UpsertTicket(r) =>
                 tx'[r] = [tx[r] EXCEPT !.tickets = [@ EXCEPT ![Rec(r).num] = RowOf(Rec(r), r)]]
           /\ InsertEvent(r) =>
                 \/ /\ HasEvent(View(r), Rec(r).num, Journal(r)[entry[r]])
                    /\ tx' = tx
                 \/ /\ ~HasEvent(View(r), Rec(r).num, Journal(r)[entry[r]])
                    /\ tx'[r] = [tx[r] EXCEPT !.ticket_events = @ \cup
                          {[num |-> Rec(r).num, entry |-> Journal(r)[entry[r]], source |-> r]}]
<1> USE DEF TypeOK
<1>1. ASSUME InsertImport(r)
      PROVE  tx'[r] = [tx[r] EXCEPT !.imports = @ \cup {[hash |-> export[r], id |-> r]}]
  BY <1>1 DEF InsertImport
<1>2. ASSUME UpsertClient(r)
      PROVE  tx'[r] = [tx[r] EXCEPT !.clients = @ \cup ({ClientOf[Rec(r).svc]} \ {Null})]
  BY <1>2 DEF UpsertClient
<1>3. ASSUME UpsertBusinessService(r)
      PROVE  tx'[r] = [tx[r] EXCEPT !.business_services = @ \cup {Rec(r).svc}]
  BY <1>3 DEF UpsertBusinessService
<1>4. ASSUME UpsertTicket(r)
      PROVE  tx'[r] = [tx[r] EXCEPT !.tickets = [@ EXCEPT ![Rec(r).num] = RowOf(Rec(r), r)]]
  BY <1>4 DEF UpsertTicket
<1>5. ASSUME InsertEvent(r)
      PROVE  \/ /\ HasEvent(View(r), Rec(r).num, Journal(r)[entry[r]])
                /\ tx' = tx
             \/ /\ ~HasEvent(View(r), Rec(r).num, Journal(r)[entry[r]])
                /\ tx'[r] = [tx[r] EXCEPT !.ticket_events = @ \cup
                      {[num |-> Rec(r).num, entry |-> Journal(r)[entry[r]], source |-> r]}]
  BY <1>5 DEF InsertEvent
<1>6. QED
  BY <1>1, <1>2, <1>3, <1>4, <1>5

\* From its INSERT into imports to its COMMIT a run is writing.
LEMMA LoopStaysWriting ==
    ASSUME TypeOK, PlaceOK, NEW r \in Run,
           \/ InsertImport(r) \/ UpsertClient(r) \/ UpsertBusinessService(r)
           \/ UpsertTicket(r) \/ InsertEvent(r)
    PROVE  Writing(r)' /\ ~sum'[r].short
<1> USE DEF TypeOK, GoTo
<1>p. Place(r)
  BY DEF PlaceOK
<1>1. CASE InsertImport(r)
  <2>1. ~sum'[r].short
    BY <1>1, <1>p DEF InsertImport, Executes, Place
  <2>2. phase'[r] \in {"client", "commit"}
    BY <1>1 DEF InsertImport, ToRecord
  <2>3. QED
    BY <2>1, <2>2 DEF Writing, Looping, Committing
<1>2. CASE UpsertClient(r) \/ UpsertBusinessService(r)
  BY <1>2, <1>p DEF UpsertClient, UpsertBusinessService, Executes, Place, Writing, Looping
<1>3. CASE UpsertTicket(r) \/ InsertEvent(r)
  <2>1. /\ phase'[r] \in Looping \cup {"commit"} /\ phase[r] \in Looping
    BY <1>3 DEF UpsertTicket, InsertEvent, Executes, ToEntry, ToRecord, Looping
  <2>2. ~sum'[r].short
    <3>1. \/ sum' = [sum EXCEPT ![r] = [sum[r] EXCEPT !.tickets_new = @ + 1]]
          \/ sum' = [sum EXCEPT ![r] = [sum[r] EXCEPT !.tickets_updated = @ + 1]]
          \/ sum' = [sum EXCEPT ![r] = [sum[r] EXCEPT !.events_skipped = @ + 1]]
          \/ sum' = [sum EXCEPT ![r] = [sum[r] EXCEPT !.events_new = @ + 1]]
      BY <1>3 DEF UpsertTicket, InsertEvent
    <3>2. sum[r] \in Summary /\ ~sum[r].short
      BY <1>p, <2>1 DEF Place
    <3>3. /\ ~[sum[r] EXCEPT !.tickets_new = @ + 1].short
          /\ ~[sum[r] EXCEPT !.tickets_updated = @ + 1].short
          /\ ~[sum[r] EXCEPT !.events_skipped = @ + 1].short
          /\ ~[sum[r] EXCEPT !.events_new = @ + 1].short
      BY <3>2 DEF Summary
    <3>4. QED
      BY <3>1, <3>3
  <2>3. QED
    BY <2>1, <2>2 DEF Writing, Committing
<1>4. QED
  BY <1>1, <1>2, <1>3

LEMMA ElseEmptyStep ==
    ASSUME TypeOK, PlaceOK, ElseEmpty, NEW r \in Run, Step(r)
    PROVE  ElseEmpty'
<1> USE DEF TypeOK, GoTo
<1>1. ASSUME NEW q \in Run, q # r
      PROVE  (Writing(q) \/ phase[q] = "orphan" \/ tx[q] = Empty)'
  BY <1>1, OthersStay DEF ElseEmpty, Writing
<1>2. (Writing(r) \/ phase[r] = "orphan" \/ tx[r] = Empty)'
  <2>p. Place(r) /\ (Writing(r) \/ phase[r] = "orphan" \/ tx[r] = Empty)
    BY DEF PlaceOK, ElseEmpty
  <2>1. CASE (\E x \in Export : Start(r, x)) \/ Reject(r)
    BY <2>1, <2>p DEF Start, Reject, Writing, Looping, Committing
  <2>2. CASE FindImport(r) \/ LookupImport(r)
    BY <2>2, <2>p DEF FindImport, LookupImport, Executes, Writing, Looping, Committing
  <2>3. CASE InsertImport(r) \/ UpsertClient(r) \/ UpsertBusinessService(r)
             \/ UpsertTicket(r) \/ InsertEvent(r)
    BY <2>3, LoopStaysWriting
  <2>6. CASE Publish(r) \/ Discard(r)
    BY <2>6 DEF Publish, Discard
  <2>7. CASE Ack(r) \/ AckLost(r)
    BY <2>7, <2>p DEF Ack, AckLost, Writing, Looping, Committing
  <2>8. CASE LoseClient(r)
    BY <2>8, <2>p DEF LoseClient, InTransaction, Writing, Looping, Committing
  <2>9. QED
    BY <2>1, <2>2, <2>3, <2>6, <2>7, <2>8
       DEF Step, Proceed, ServerCommit, BackendCommit, StatementFails, DeadlockAbort,
           BackendRollback
<1>3. QED
  BY <1>1, <1>2 DEF ElseEmpty

\* How one run's writes change which imports and tickets it holds.
LEMMA HoldsStep ==
    ASSUME TypeOK, PlaceOK, NEW r \in Run, Step(r)
    PROVE  \/ tx'[r] = Empty
           \/ tx'[r].imports = tx[r].imports /\ tx'[r].tickets = tx[r].tickets
           \/ /\ InsertImport(r)
              /\ tx'[r].imports = tx[r].imports \cup {[hash |-> export[r], id |-> r]}
              /\ tx'[r].tickets = tx[r].tickets
           \/ /\ UpsertTicket(r)
              /\ tx'[r].imports = tx[r].imports
              /\ tx'[r].tickets = [tx[r].tickets EXCEPT ![Rec(r).num] = RowOf(Rec(r), r)]
<1> USE DEF TypeOK
<1>t. tx[r] \in Database
  OBVIOUS
<1>1. CASE InsertImport(r)
  <2>1. tx'[r] = [tx[r] EXCEPT !.imports = @ \cup {[hash |-> export[r], id |-> r]}]
    BY <1>1, LoopWrites
  <2>2. QED
    BY <1>1, <1>t, <2>1 DEF Database
<1>2. CASE UpsertTicket(r)
  <2>1. tx'[r] = [tx[r] EXCEPT !.tickets = [@ EXCEPT ![Rec(r).num] = RowOf(Rec(r), r)]]
    BY <1>2, LoopWrites
  <2>2. QED
    BY <1>2, <1>t, <2>1 DEF Database
<1>3. CASE UpsertClient(r) \/ UpsertBusinessService(r)
  <2>1. \/ tx'[r] = [tx[r] EXCEPT !.clients = @ \cup ({ClientOf[Rec(r).svc]} \ {Null})]
        \/ tx'[r] = [tx[r] EXCEPT !.business_services = @ \cup {Rec(r).svc}]
    BY <1>3, LoopWrites
  <2>2. QED
    BY <1>t, <2>1 DEF Database
<1>4. CASE InsertEvent(r)
  <2> DEFINE v == [num |-> Rec(r).num, entry |-> Journal(r)[entry[r]], source |-> r]
  <2>1. tx' = tx \/ tx'[r] = [tx[r] EXCEPT !.ticket_events = @ \cup {v}]
    BY <1>4, LoopWrites
  <2> HIDE DEF v
  <2>2. QED
    BY <1>t, <2>1 DEF Database
<1>5. CASE Publish(r) \/ Discard(r)
  BY <1>5 DEF Publish, Discard
<1>6. CASE tx' = tx
  BY <1>6
<1>7. QED
  BY <1>1, <1>2, <1>3, <1>4, <1>5, <1>6, StepShape

LEMMA LocksExcludeStep ==
    ASSUME TypeOK, PlaceOK, LocksExclude, NEW r \in Run, Step(r)
    PROVE  LocksExclude'
<1> USE DEF TypeOK
<1> DEFINE Apart(a, b) == /\ \A i \in a.imports : ~Imported(b, i.hash)
                          /\ \A n \in Ticket : a.tickets[n] # Absent => b.tickets[n] = Absent
<1>0. \A p, q \in Run : p # q => Apart(tx[p], tx[q])
  BY DEF LocksExclude
<1>1. ASSUME NEW q \in Run, q # r
      PROVE  Apart(tx'[r], tx[q]) /\ Apart(tx[q], tx'[r])
  <2>0. Apart(tx[r], tx[q]) /\ Apart(tx[q], tx[r]) /\ tx[r] \in Database /\ tx[q] \in Database
    BY <1>0, <1>1
  <2>1. CASE tx'[r] = Empty
    BY <2>0, <2>1 DEF Empty, Imported
  <2>2. CASE tx'[r].imports = tx[r].imports /\ tx'[r].tickets = tx[r].tickets
    BY <2>0, <2>2 DEF Imported
  <2>3. CASE /\ InsertImport(r)
             /\ tx'[r].imports = tx[r].imports \cup {[hash |-> export[r], id |-> r]}
             /\ tx'[r].tickets = tx[r].tickets
    <3>1. ~Imported(tx[q], export[r])
      BY <1>1, <2>3 DEF InsertImport, Executes, WaitsFor
    <3>2. QED
      BY <2>0, <2>3, <3>1 DEF Imported
  <2>4. CASE /\ UpsertTicket(r)
             /\ tx'[r].imports = tx[r].imports
             /\ tx'[r].tickets = [tx[r].tickets EXCEPT ![Rec(r).num] = RowOf(Rec(r), r)]
    <3>1. tx[q].tickets[Rec(r).num] = Absent
      BY <1>1, <2>4 DEF UpsertTicket, Executes, WaitsFor
    <3>2. tx[r].tickets \in [Ticket -> TicketRow \cup {Absent}]
      BY <2>0 DEF Database
    <3>3. QED
      BY <2>0, <2>4, <3>1, <3>2 DEF Imported
  <2>5. QED
    BY <2>1, <2>2, <2>3, <2>4, HoldsStep
<1>2. \A q \in Run : q # r => tx'[q] = tx[q]
  BY OthersStay
<1>3. \A p, q \in Run : p # q => Apart(tx'[p], tx'[q])
  BY <1>0, <1>1, <1>2
<1>4. QED
  BY <1>3 DEF LocksExclude, Imported

\* A ticket whose record a run has passed is locked by it ...
LEMMA BehindIsLocked ==
    ASSUME TypeOK, PlaceOK, NEW r \in Run, Writing(r), Wrote(r),
           NEW k \in Behind(r, {"event"}), NEW n \in Ticket, Rows[export[r]][k].num = n
    PROVE  tx[r].tickets[n] # Absent
<1>1. export[r] \in Export
  BY DEF PlaceOK, Place, Writing, Looping, Committing
<1>2. PICK l \in Behind(r, {"event"}) : tx[r].tickets[n] = RowOf(Rows[export[r]][l], r)
  BY DEF Wrote
<1>3. Rows[export[r]][l] \in Record
  BY <1>1, <1>2, RecordType DEF Behind
<1>4. RowOf(Rows[export[r]][l], r) \in TicketRow
  BY <1>3 DEF RowOf, TicketRow, Record, Run
<1>5. QED
  BY <1>2, <1>4, AbsentAssumption

\* ... so is every ticket with an entry it has passed ...
LEMMA PassedIsLocked ==
    ASSUME TypeOK, PlaceOK, NEW r \in Run, Writing(r), Wrote(r),
           NEW n \in Ticket, NEW e, Passed(r, n, e)
    PROVE  tx[r].tickets[n] # Absent
<1>1. PICK k \in Behind(r, {"event"}) : Rows[export[r]][k].num = n
  BY DEF Passed, Behind
<1>2. QED
  BY <1>1, BehindIsLocked

\* ... and the one it is inserting events of.
LEMMA CurrentIsLocked ==
    ASSUME TypeOK, PlaceOK, NEW r \in Run, Writing(r), Wrote(r), phase[r] = "event"
    PROVE  tx[r].tickets[Rec(r).num] # Absent
<1>1. row[r] \in Behind(r, {"event"}) /\ Rec(r).num \in Ticket
  BY PlaceType DEF Behind, Looping
<1>2. QED
  BY <1>1, BehindIsLocked DEF Rec

LEMMA EventsLockedStep ==
    ASSUME IInv, NEW r \in Run, Step(r)
    PROVE  EventsLocked'
<1> USE DEF IInv, TypeOK
<1>1. \A v \in tx[r].ticket_events : tx[r].tickets[v.num] # Absent
  BY DEF EventsLocked
<1>2. ASSUME NEW v \in tx'[r].ticket_events
      PROVE  tx'[r].tickets[v.num] # Absent
  <2>t. tx[r] \in Database
    OBVIOUS
  <2>1. CASE tx' = tx \/ Publish(r) \/ Discard(r)
    BY <1>1, <1>2, <2>1 DEF Publish, Discard, Empty
  <2>2. CASE InsertImport(r) \/ UpsertClient(r) \/ UpsertBusinessService(r)
    <3>1. \/ tx'[r] = [tx[r] EXCEPT !.imports = @ \cup {[hash |-> export[r], id |-> r]}]
          \/ tx'[r] = [tx[r] EXCEPT !.clients = @ \cup ({ClientOf[Rec(r).svc]} \ {Null})]
          \/ tx'[r] = [tx[r] EXCEPT !.business_services = @ \cup {Rec(r).svc}]
      BY <2>2, LoopWrites
    <3>2. tx'[r].ticket_events = tx[r].ticket_events /\ tx'[r].tickets = tx[r].tickets
      BY <2>t, <3>1 DEF Database
    <3>3. QED
      BY <1>1, <1>2, <3>2
  <2>3. CASE UpsertTicket(r)
    <3>1. tx'[r] = [tx[r] EXCEPT !.tickets = [@ EXCEPT ![Rec(r).num] = RowOf(Rec(r), r)]]
      BY <2>3, LoopWrites
    <3>2. /\ tx'[r].ticket_events = tx[r].ticket_events
          /\ tx'[r].tickets = [tx[r].tickets EXCEPT ![Rec(r).num] = RowOf(Rec(r), r)]
          /\ tx[r].tickets \in [Ticket -> TicketRow \cup {Absent}]
          /\ v.num \in Ticket
      BY <1>2, <2>t, <3>1 DEF Database, EventRow
    <3>3. RowOf(Rec(r), r) # Absent
      BY <2>3, PlaceType, AbsentAssumption DEF UpsertTicket, Executes, Looping
    <3>4. QED
      BY <1>1, <1>2, <3>2, <3>3
  <2>4. CASE InsertEvent(r)
    <3> DEFINE n0 == Rec(r).num
               v0 == [num |-> n0, entry |-> Journal(r)[entry[r]], source |-> r]
    <3>1. \/ tx' = tx
          \/ tx'[r] = [tx[r] EXCEPT !.ticket_events = @ \cup {v0}]
      BY <2>4, LoopWrites
    <3>2. v0.num = n0
      OBVIOUS
    <3>3. tx[r].tickets[n0] # Absent
      BY <2>4, CurrentIsLocked DEF InsertEvent, Executes, Writing, Looping, WrittenSoFar
    <3> HIDE DEF v0, n0
    <3>4. CASE tx'[r] = [tx[r] EXCEPT !.ticket_events = @ \cup {v0}]
      <4>1. /\ tx'[r].ticket_events = tx[r].ticket_events \cup {v0}
            /\ tx'[r].tickets = tx[r].tickets
        BY <2>t, <3>4 DEF Database
      <4>2. QED
        BY <1>1, <1>2, <3>2, <3>3, <4>1
    <3>5. QED
      BY <1>1, <1>2, <3>1, <3>4
  <2>5. QED
    BY <2>1, <2>2, <2>3, <2>4, StepShape
<1>3. \A q \in Run : q # r => tx'[q] = tx[q]
  BY OthersStay
<1>4. QED
  BY <1>2, <1>3 DEF EventsLocked

LEMMA NotYetImportedStep ==
    ASSUME IInv, NEW r \in Run, Step(r)
    PROVE  NotYetImported'
<1> USE DEF IInv, TypeOK
<1>1. ASSUME NEW q \in Run, q # r, Writing(q)' PROVE ~Imported(db', export'[q])
  <2>1. Writing(q) /\ export'[q] = export[q] /\ tx'[q] = tx[q]
    BY <1>1, OthersStay DEF Writing
  <2>2. ~Imported(db, export[q])
    BY <2>1 DEF NotYetImported
  <2>3. CASE db' = db
    BY <2>1, <2>2, <2>3
  <2>4. CASE Publish(r)
    <3>1. db'.imports = db.imports \cup tx[r].imports
      BY <2>4 DEF Publish, View, Overlay
    <3>2. tx[q].imports = {[hash |-> export[q], id |-> q]}
      BY <2>1 DEF WrittenSoFar, Wrote
    <3>3. ~Imported(tx[r], export[q])
      <4>1. \A i \in tx[q].imports : ~Imported(tx[r], i.hash)
        BY <1>1 DEF LocksExclude
      <4>2. QED
        BY <3>2, <4>1
    <3>4. QED
      BY <2>1, <2>2, <3>1, <3>3 DEF Imported
  <2>5. QED
    BY <2>3, <2>4, StepShape DEF Discard
<1>2. ASSUME Writing(r)' PROVE ~Imported(db', export'[r])
  <2>1. CASE InsertImport(r)
    <3>1. db' = db /\ export' = export /\ ~Imported(View(r), export[r])
      BY <2>1 DEF InsertImport
    <3>2. QED
      BY <3>1 DEF Imported, View, Overlay
  <2>2. CASE Writing(r) /\ db' = db /\ export' = export
    BY <2>2 DEF NotYetImported
  <2>3. CASE (\E x \in Export : Start(r, x)) \/ Reject(r) \/ FindImport(r) \/ Ack(r)
    BY <1>2, <2>3 DEF Start, Reject, FindImport, Ack, GoTo, Writing, Looping, Committing
  <2>4. CASE LookupImport(r)
    <3>1. sum'[r].short /\ phase'[r] = "commit"
      BY <2>4 DEF LookupImport, GoTo, Summary
    <3>2. QED
      BY <1>2, <3>1 DEF Writing, Looping
  <2>5. CASE UpsertClient(r) \/ UpsertBusinessService(r) \/ UpsertTicket(r) \/ InsertEvent(r)
    <3>1. Writing(r) /\ db' = db /\ export' = export
      BY <2>5 DEF UpsertClient, UpsertBusinessService, UpsertTicket, InsertEvent, Executes,
                  Writing, Looping
    <3>2. QED
      BY <2>2, <3>1
  <2>6. CASE LoseClient(r)
    <3>1. Writing(r) /\ db' = db /\ export' = export
      BY <1>2, <2>6 DEF LoseClient, GoTo, Writing, Looping, Committing, InTransaction
    <3>2. QED
      BY <2>2, <3>1
  <2>7. CASE ServerCommit(r) \/ EndInError(r)
    <3>1. phase'[r] \in {"committed", "failed"}
      BY <2>7 DEF ServerCommit, EndInError, GoTo
    <3>2. QED
      BY <1>2, <3>1 DEF Writing, Looping, Committing
  <2>8. QED
    BY <2>1, <2>3, <2>4, <2>5, <2>6, <2>7
       DEF Step, Proceed, AckLost, StatementFails, DeadlockAbort, BackendRollback, BackendCommit
<1>3. QED
  BY <1>1, <1>2 DEF NotYetImported

LEMMA ImportIdsStep ==
    ASSUME IInv, NEW r \in Run, Step(r)
    PROVE  ImportIds'
<1> USE DEF IInv, TypeOK
<1>1. ASSUME NEW i \in db.imports
      PROVE  phase'[i.id] \in {"committed", "ok", "failed"}
  <2>1. i.id \in Run /\ phase[i.id] \in {"committed", "ok", "failed"}
    BY DEF ImportIds, Database, ImportRow, Run
  <2>2. CASE i.id # r
    BY <2>1, <2>2, OthersStay
  <2>3. CASE i.id = r
    <3>1. phase[r] \in {"committed", "ok", "failed"}
      BY <2>1, <2>3
    <3>2. Ack(r) \/ EndInError(r)
      BY <3>1
         DEF Step, Proceed, Start, Reject, InsertImport, FindImport, LookupImport, UpsertClient,
             UpsertBusinessService, UpsertTicket, InsertEvent, Executes, ServerCommit, AckLost,
             StatementFails, DeadlockAbort, LoseClient, BackendRollback, BackendCommit,
             InTransaction
    <3>3. QED
      BY <2>3, <3>2 DEF Ack, EndInError, GoTo
  <2>4. QED
    BY <2>2, <2>3
<1>2. CASE db' = db
  BY <1>1, <1>2 DEF ImportIds
<1>3. CASE Publish(r) /\ phase[r] \in Committing /\ phase'[r] \in {"committed", "failed"}
  <2>1. db'.imports = db.imports \cup tx[r].imports
    BY <1>3 DEF Publish, View, Overlay
  <2>2. ASSUME NEW i \in tx[r].imports PROVE i.id = r
    <3>1. Writing(r)
      BY <1>3, <2>2 DEF ElseEmpty, Empty, Committing
    <3>2. QED
      BY <2>2, <3>1 DEF WrittenSoFar, Wrote
  <2>3. QED
    BY <1>1, <1>3, <2>1, <2>2 DEF ImportIds
<1>4. QED
  BY <1>2, <1>3, StepShape DEF Discard

\* What lies behind a run is a matter of its own variables.
LEMMA BehindSame ==
    ASSUME NEW r \in Run, export'[r] = export[r], row'[r] = row[r], entry'[r] = entry[r],
           phase'[r] = phase[r]
    PROVE  /\ \A P : Behind(r, P)' = Behind(r, P)
           /\ \A n, e : Passed(r, n, e)' <=> Passed(r, n, e)
BY DEF Behind, Passed

\* The writes of one run leave what another has written exact: an entry that
\* becomes visible belongs to a ticket the other has not reached.
LEMMA OthersWrote ==
    ASSUME IInv, NEW r \in Run, Step(r), NEW q \in Run, q # r, Writing(q)'
    PROVE  Wrote(q)'
<1> USE DEF IInv, TypeOK
<1>1. /\ Writing(q) /\ Wrote(q)
      /\ export'[q] = export[q] /\ tx'[q] = tx[q]
      /\ \A P : Behind(q, P)' = Behind(q, P)
      /\ \A n, e : Passed(q, n, e)' <=> Passed(q, n, e)
  BY OthersStay, BehindSame DEF Writing, WrittenSoFar
<1>2. ASSUME NEW v \in EventRow, Passed(q, v.num, v.entry)
      PROVE  HasEvent(db', v.num, v.entry) <=> HasEvent(db, v.num, v.entry)
  <2>1. CASE db' = db
    BY <2>1
  <2>2. CASE Publish(r) /\ phase[r] \in Committing
    <3>1. db'.ticket_events = db.ticket_events \cup tx[r].ticket_events
      BY <2>2 DEF Publish, View, Overlay
    <3>2. ASSUME NEW w \in tx[r].ticket_events, w.num = v.num, w.entry = v.entry
          PROVE  FALSE
      <4>1. Writing(r) /\ Wrote(r)
        BY <2>2, <3>2 DEF ElseEmpty, Empty, Committing, WrittenSoFar
      <4>2. w \in EventRow /\ v.num \in Ticket
        BY DEF Database, EventRow
      <4>3. Passed(r, w.num, w.entry)
        BY <4>1, <4>2 DEF Wrote
      <4>4. tx[r].tickets[v.num] # Absent
        BY <3>2, <4>1, <4>2, <4>3, PassedIsLocked
      <4>5. tx[q].tickets[v.num] # Absent
        BY <1>1, <1>2, <4>2, PassedIsLocked
      <4>6. QED
        BY <4>2, <4>4, <4>5 DEF LocksExclude
    <3>3. QED
      BY <3>1, <3>2 DEF HasEvent
  <2>3. QED
    BY <2>1, <2>2, StepShape DEF Discard
<1>3. QED
  BY <1>1, <1>2 DEF Wrote

\* After ToEntry(r, j), the current record's row is behind, and so are its
\* first j - 1 entries.
LEMMA BehindNext ==
    ASSUME TypeOK, PlaceOK, NEW r \in Run, phase[r] \in Looping, NEW j \in Nat,
           j = 1 \/ j - 1 \in DOMAIN Journal(r), ToEntry(r, j), export' = export
    PROVE  /\ \A P : "event" \in P /\ "client" \notin P /\ "commit" \notin P =>
                 Behind(r, P)' = {k \in DOMAIN Rows[export[r]] : k <= row[r]}
           /\ \A n, e : Passed(r, n, e)' <=>
                 \E k \in DOMAIN Rows[export[r]] :
                 \E i \in DOMAIN Rows[export[r]][k].journal :
                    /\ Rows[export[r]][k].num = n
                    /\ Rows[export[r]][k].journal[i] = e
                    /\ k < row[r] \/ (k = row[r] /\ i < j)
<1> USE DEF TypeOK, GoTo
<1>0. /\ export[r] \in Export
      /\ row[r] \in Nat
      /\ \A k \in DOMAIN Rows[export[r]] : k \in Nat
      /\ Journal(r) = Rows[export[r]][row[r]].journal
      /\ DOMAIN Journal(r) = 1 .. Len(Journal(r))
      /\ Len(Journal(r)) \in Nat
  BY PlaceType, RecordType DEF Journal, Rec
<1>1. CASE j \in DOMAIN Journal(r)
  <2>1. phase'[r] = "event" /\ row'[r] = row[r] /\ entry'[r] = j
    BY <1>1 DEF ToEntry
  <2>2. ASSUME NEW P, "event" \in P
        PROVE  Behind(r, P)' = {k \in DOMAIN Rows[export[r]] : k <= row[r]}
    BY <1>0, <2>1, <2>2 DEF Behind
  <2>3. QED
    BY <2>1, <2>2 DEF Passed
<1>2. CASE j \notin DOMAIN Journal(r)
  <2>1. phase'[r] \in {"client", "commit"} /\ row'[r] = row[r] + 1
    BY <1>2 DEF ToEntry, ToRecord
  <2>2. ASSUME NEW P, "client" \notin P, "commit" \notin P
        PROVE  Behind(r, P)' = {k \in DOMAIN Rows[export[r]] : k <= row[r]}
    <3>1. \A k \in DOMAIN Rows[export[r]] :
              (k < row[r] + 1 \/ (k = row[r] + 1 /\ phase'[r] \in P)) <=> k <= row[r]
      BY <1>0, <2>1, <2>2
    <3>2. QED
      BY <2>1, <3>1 DEF Behind
  <2>3. \A i \in DOMAIN Journal(r) : i < j
    BY <1>0, <1>2
  <2>4. \A k \in DOMAIN Rows[export[r]] : \A i \in DOMAIN Rows[export[r]][k].journal :
           (k < row[r] + 1 \/ (k = row[r] + 1 /\ phase'[r] = "event" /\ i < entry'[r])) <=>
           (k < row[r] \/ (k = row[r] /\ i < j))
    <3> TAKE k \in DOMAIN Rows[export[r]]
    <3> TAKE i \in DOMAIN Rows[export[r]][k].journal
    <3>1. k = row[r] => i < j
      BY <1>0, <2>3
    <3>2. k \in Nat /\ row[r] \in Nat /\ phase'[r] # "event"
      BY <1>0, <2>1
    <3>3. QED
      BY <3>1, <3>2
  <2>5. ASSUME NEW n, NEW e
        PROVE  Passed(r, n, e)' <=>
                 \E k \in DOMAIN Rows[export[r]] :
                 \E i \in DOMAIN Rows[export[r]][k].journal :
                    /\ Rows[export[r]][k].num = n
                    /\ Rows[export[r]][k].journal[i] = e
                    /\ k < row[r] + 1 \/ (k = row[r] + 1 /\ phase'[r] = "event" /\ i < entry'[r])
    BY <2>1 DEF Passed
  <2>6. QED
    BY <2>2, <2>4, <2>5
<1>3. QED
  BY <1>1, <1>2

\* One clause of Wrote at a time, named for the table it is about.
WroteImports(r)  == tx[r].imports = {[hash |-> export[r], id |-> r]}
WroteClients(r)  == tx[r].clients = {ClientOf[Rows[export[r]][k].svc] :
                        k \in Behind(r, {"service", "ticket", "event"})} \ {Null}
WroteServices(r) == tx[r].business_services =
                        {Rows[export[r]][k].svc : k \in Behind(r, {"ticket", "event"})}
WroteTickets(r)  ==
    \A n \in Ticket :
        IF \E k \in Behind(r, {"event"}) : Rows[export[r]][k].num = n
        THEN \E k \in Behind(r, {"event"}) :
                /\ Rows[export[r]][k].num = n
                /\ \A l \in Behind(r, {"event"}) : l > k => Rows[export[r]][l].num # n
                /\ tx[r].tickets[n] = RowOf(Rows[export[r]][k], r)
        ELSE tx[r].tickets[n] = Absent
WroteEvents(r)   ==
    \A v \in EventRow :
        v \in tx[r].ticket_events <=>
           /\ v.source = r
           /\ Passed(r, v.num, v.entry)
           /\ ~HasEvent(db, v.num, v.entry)

LEMMA WroteParts ==
    ASSUME NEW r \in Run
    PROVE  Wrote(r) <=> /\ WroteImports(r) /\ WroteClients(r) /\ WroteServices(r)
                        /\ WroteTickets(r) /\ WroteEvents(r)
BY DEF Wrote, WroteImports, WroteClients, WroteServices, WroteTickets, WroteEvents

LEMMA InsertImportWrote ==
    ASSUME IInv, NEW r \in Run, InsertImport(r)
    PROVE  Wrote(r)'
<1> USE DEF IInv, TypeOK, GoTo
<1>1. tx[r] = Empty
  BY DEF InsertImport, Executes, ElseEmpty, Writing, Looping, Committing
<1>2. /\ tx'[r] = [Empty EXCEPT !.imports = @ \cup {[hash |-> export[r], id |-> r]}]
      /\ db' = db /\ export' = export
  BY <1>1, LoopWrites DEF InsertImport
<1>3. tx'[r] = [imports           |-> {[hash |-> export[r], id |-> r]},
                clients           |-> {},
                business_services |-> {},
                tickets           |-> [n \in Ticket |-> Absent],
                ticket_events     |-> {}]
  BY <1>2 DEF Empty
<1>4. /\ row'[r] = 1 /\ entry'[r] = 0
      /\ phase'[r] = IF 1 \in DOMAIN Rows[export[r]] THEN "client" ELSE "commit"
  BY DEF InsertImport, ToRecord
<1>5. export[r] \in Export /\ \A k \in DOMAIN Rows[export[r]] : k \in Nat \ {0}
  BY RowsAssumption DEF InsertImport, Executes, PlaceOK, Place
<1>6. ASSUME NEW P, "client" \notin P
      PROVE  Behind(r, P)' = {}
  BY <1>2, <1>4, <1>5, <1>6 DEF Behind
<1>7. ASSUME NEW n, NEW e
      PROVE  ~Passed(r, n, e)'
  BY <1>2, <1>4, <1>5 DEF Passed
<1>8. WroteImports(r)'
  BY <1>2, <1>3 DEF WroteImports
<1>9. WroteClients(r)'
  BY <1>2, <1>3, <1>6 DEF WroteClients
<1>10. WroteServices(r)'
  BY <1>2, <1>3, <1>6 DEF WroteServices
<1>11. WroteTickets(r)'
  BY <1>2, <1>3, <1>6 DEF WroteTickets
<1>12. WroteEvents(r)'
  BY <1>2, <1>3, <1>7 DEF WroteEvents
<1>13. QED
  BY <1>8, <1>9, <1>10, <1>11, <1>12, WroteParts DEF Wrote, WroteImports, WroteClients,
     WroteServices, WroteTickets, WroteEvents

\* UpsertClient and UpsertBusinessService put one more record behind the run for
\* their own table, and leave the other tables and places alone.
LEMMA UpsertOneWrote ==
    ASSUME IInv, NEW r \in Run, UpsertClient(r) \/ UpsertBusinessService(r)
    PROVE  Wrote(r)'
<1> USE DEF IInv, TypeOK, GoTo
<1>1. /\ phase[r] \in {"client", "service"} /\ Writing(r) /\ Wrote(r)
      /\ db' = db /\ export' = export /\ row' = row /\ entry' = entry
      /\ phase'[r] = IF UpsertClient(r) THEN "service" ELSE "ticket"
      /\ phase[r] = IF UpsertClient(r) THEN "client" ELSE "service"
  BY DEF UpsertClient, UpsertBusinessService, Executes, Writing, Looping, WrittenSoFar
<1>2. /\ export[r] \in Export /\ row[r] \in DOMAIN Rows[export[r]] /\ row[r] \in Nat
      /\ tx[r] \in Database
      /\ \A k \in DOMAIN Rows[export[r]] : k \in Nat
  BY <1>1, PlaceType, RecordType DEF Looping
<1>3. /\ Behind(r, {"event"})' = Behind(r, {"event"})
      /\ \A n, e : Passed(r, n, e)' <=> Passed(r, n, e)
  BY <1>1 DEF Behind, Passed
<1>4. CASE UpsertClient(r)
  <2>1. tx'[r] = [tx[r] EXCEPT !.clients = @ \cup ({ClientOf[Rec(r).svc]} \ {Null})]
    BY <1>4, LoopWrites
  <2>2. /\ tx'[r].imports = tx[r].imports
        /\ tx'[r].clients = tx[r].clients \cup ({ClientOf[Rec(r).svc]} \ {Null})
        /\ tx'[r].business_services = tx[r].business_services
        /\ tx'[r].tickets = tx[r].tickets
        /\ tx'[r].ticket_events = tx[r].ticket_events
    BY <1>2, <2>1 DEF Database
  <2>3. Behind(r, {"ticket", "event"})' = Behind(r, {"ticket", "event"})
    BY <1>1, <1>4 DEF Behind
  <2>4. Behind(r, {"service", "ticket", "event"})' =
            Behind(r, {"service", "ticket", "event"}) \cup {row[r]}
    BY <1>1, <1>2, <1>4 DEF Behind
  <2>5. WroteClients(r)'
    BY <1>1, <2>2, <2>4 DEF WroteClients, Wrote, Rec
  <2>6. /\ WroteImports(r)' /\ WroteServices(r)' /\ WroteTickets(r)' /\ WroteEvents(r)'
    BY <1>1, <1>3, <2>2, <2>3, WroteParts
       DEF WroteImports, WroteServices, WroteTickets, WroteEvents
  <2>7. QED
    BY <2>5, <2>6, WroteParts DEF Wrote, WroteImports, WroteClients,
       WroteServices, WroteTickets, WroteEvents
<1>5. CASE UpsertBusinessService(r)
  <2>1. tx'[r] = [tx[r] EXCEPT !.business_services = @ \cup {Rec(r).svc}]
    BY <1>5, LoopWrites
  <2>2. /\ tx'[r].imports = tx[r].imports
        /\ tx'[r].clients = tx[r].clients
        /\ tx'[r].business_services = tx[r].business_services \cup {Rec(r).svc}
        /\ tx'[r].tickets = tx[r].tickets
        /\ tx'[r].ticket_events = tx[r].ticket_events
    BY <1>2, <2>1 DEF Database
  <2>3. phase[r] = "service" /\ phase'[r] = "ticket"
    BY <1>5 DEF UpsertBusinessService, Executes
  <2>4. Behind(r, {"ticket", "event"})' = Behind(r, {"ticket", "event"}) \cup {row[r]}
    BY <1>1, <1>2, <2>3 DEF Behind
  <2>5. Behind(r, {"service", "ticket", "event"})' = Behind(r, {"service", "ticket", "event"})
    BY <1>1, <2>3 DEF Behind
  <2>6. WroteServices(r)'
    BY <1>1, <2>2, <2>4 DEF WroteServices, Wrote, Rec
  <2>7. /\ WroteImports(r)' /\ WroteClients(r)' /\ WroteTickets(r)' /\ WroteEvents(r)'
    BY <1>1, <1>3, <2>2, <2>5, WroteParts
       DEF WroteImports, WroteClients, WroteTickets, WroteEvents
  <2>8. QED
    BY <2>6, <2>7, WroteParts DEF Wrote, WroteImports, WroteClients,
       WroteServices, WroteTickets, WroteEvents
<1>6. QED
  BY <1>4, <1>5

\* The records up to the current one are behind once its ticket is written.
LEMMA UpsertTicketWrote ==
    ASSUME IInv, NEW r \in Run, UpsertTicket(r)
    PROVE  Wrote(r)'
<1> USE DEF IInv, TypeOK
<1> DEFINE X == Rows[export[r]]
           UpTo == {k \in DOMAIN X : k <= row[r]}
           Before == {k \in DOMAIN X : k < row[r]}
<1>1. /\ phase[r] = "ticket" /\ phase[r] \in Looping /\ Wrote(r)
      /\ db' = db /\ export' = export /\ ToEntry(r, 1)
  BY DEF UpsertTicket, Executes, Writing, Looping, WrittenSoFar
<1>2. /\ export[r] \in Export /\ row[r] \in DOMAIN X /\ row[r] \in Nat
      /\ tx[r] \in Database /\ Rec(r) = X[row[r]] /\ Rec(r).num \in Ticket
      /\ \A k \in DOMAIN X : k \in Nat
  BY <1>1, PlaceType, RecordType DEF Rec
<1>3. /\ \A P : "event" \in P /\ "client" \notin P /\ "commit" \notin P => Behind(r, P)' = UpTo
      /\ \A n, e : Passed(r, n, e)' <=>
            \E k \in DOMAIN X : \E i \in DOMAIN X[k].journal :
               X[k].num = n /\ X[k].journal[i] = e /\ (k < row[r] \/ (k = row[r] /\ i < 1))
  BY <1>1, BehindNext
<1>4. /\ tx'[r].imports = tx[r].imports
      /\ tx'[r].clients = tx[r].clients
      /\ tx'[r].business_services = tx[r].business_services
      /\ tx'[r].tickets = [tx[r].tickets EXCEPT ![Rec(r).num] = RowOf(Rec(r), r)]
      /\ tx'[r].ticket_events = tx[r].ticket_events
  <2>1. tx'[r] = [tx[r] EXCEPT !.tickets = [@ EXCEPT ![Rec(r).num] = RowOf(Rec(r), r)]]
    BY LoopWrites
  <2>2. QED
    BY <1>2, <2>1 DEF Database
<1>5. /\ Behind(r, {"service", "ticket", "event"}) = UpTo
      /\ Behind(r, {"ticket", "event"}) = UpTo
      /\ Behind(r, {"event"}) = Before
  BY <1>1, <1>2 DEF Behind
<1>6. /\ Behind(r, {"service", "ticket", "event"})' = UpTo
      /\ Behind(r, {"ticket", "event"})' = UpTo
      /\ Behind(r, {"event"})' = UpTo
  BY <1>3
<1>7. ASSUME NEW n, NEW e
      PROVE  Passed(r, n, e)' <=> Passed(r, n, e)
  <2>1. \A k \in DOMAIN X : \A i \in DOMAIN X[k].journal : i \in Nat \ {0}
    <3> TAKE k \in DOMAIN X
    <3>1. X[k].journal \in Seq(Entry)
      BY <1>2, RecordType
    <3>2. QED
      BY <3>1
  <2>2. Passed(r, n, e) <=>
            \E k \in DOMAIN X : \E i \in DOMAIN X[k].journal :
               X[k].num = n /\ X[k].journal[i] = e /\ k < row[r]
    BY <1>1 DEF Passed
  <2>3. QED
    BY <1>3, <2>1, <2>2
<1>8. WroteTickets(r)'
  <2> SUFFICES ASSUME NEW n \in Ticket
               PROVE  IF \E k \in UpTo : X[k].num = n
                      THEN \E k \in UpTo :
                              /\ X[k].num = n
                              /\ \A l \in UpTo : l > k => X[l].num # n
                              /\ tx'[r].tickets[n] = RowOf(X[k], r)
                      ELSE tx'[r].tickets[n] = Absent
    BY <1>1, <1>6 DEF WroteTickets
  <2>1. tx[r].tickets \in [Ticket -> TicketRow \cup {Absent}]
    BY <1>2 DEF Database
  <2>2. CASE n = Rec(r).num
    <3>1. row[r] \in UpTo /\ X[row[r]].num = n /\ \A l \in UpTo : ~(l > row[r])
      BY <1>2, <2>2
    <3>2. tx'[r].tickets[n] = RowOf(X[row[r]], r)
      BY <1>2, <1>4, <2>1, <2>2
    <3>3. QED
      BY <3>1, <3>2
  <2>3. CASE n # Rec(r).num
    <3>1. tx'[r].tickets[n] = tx[r].tickets[n]
      BY <1>2, <1>4, <2>1, <2>3
    <3>2. \A k \in UpTo : X[k].num = n => k \in Before
      BY <1>2, <2>3
    <3>3. Before \subseteq UpTo
      BY <1>2
    <3>4. IF \E k \in Before : X[k].num = n
          THEN \E k \in Before :
                  /\ X[k].num = n
                  /\ \A l \in Before : l > k => X[l].num # n
                  /\ tx[r].tickets[n] = RowOf(X[k], r)
          ELSE tx[r].tickets[n] = Absent
      BY <1>1, <1>5 DEF Wrote
    <3>5. QED
      BY <3>1, <3>2, <3>3, <3>4
  <2>4. QED
    BY <2>2, <2>3
<1>9. WroteImports(r)'
  BY <1>1, <1>4, WroteParts DEF WroteImports
<1>10. WroteClients(r)'
  BY <1>1, <1>4, <1>5, <1>6, WroteParts DEF WroteClients
<1>11. WroteServices(r)'
  BY <1>1, <1>4, <1>5, <1>6, WroteParts DEF WroteServices
<1>12. WroteEvents(r)'
  BY <1>1, <1>4, <1>7, WroteParts DEF WroteEvents
<1>13. QED
  BY <1>8, <1>9, <1>10, <1>11, <1>12 DEF Wrote, WroteImports, WroteClients,
     WroteServices, WroteTickets, WroteEvents

\* The entry just inserted, or skipped, is behind; it is the transaction's own
\* unless the database already had it.
LEMMA InsertEventWrote ==
    ASSUME IInv, NEW r \in Run, InsertEvent(r)
    PROVE  Wrote(r)'
<1> USE DEF IInv, TypeOK
<1> DEFINE X == Rows[export[r]]
           UpTo == {k \in DOMAIN X : k <= row[r]}
           n0 == Rec(r).num
           e0 == Journal(r)[entry[r]]
           v0 == [num |-> n0, entry |-> e0, source |-> r]
<1>1. /\ phase[r] = "event" /\ phase[r] \in Looping /\ Wrote(r)
      /\ db' = db /\ export' = export /\ ToEntry(r, entry[r] + 1)
      /\ entry[r] \in DOMAIN Journal(r)
  BY DEF InsertEvent, Executes, Writing, Looping, WrittenSoFar, PlaceOK, Place
<1>2. /\ export[r] \in Export /\ row[r] \in DOMAIN X /\ row[r] \in Nat /\ entry[r] \in Nat
      /\ tx[r] \in Database /\ Rec(r) = X[row[r]] /\ n0 \in Ticket
      /\ Journal(r) = X[row[r]].journal /\ e0 \in Entry
      /\ \A k \in DOMAIN X : k \in Nat
  BY <1>1, PlaceType, RecordType DEF Rec, Journal
<1>3. /\ \A P : "event" \in P /\ "client" \notin P /\ "commit" \notin P => Behind(r, P)' = UpTo
      /\ \A n, e : Passed(r, n, e)' <=>
            \E k \in DOMAIN X : \E i \in DOMAIN X[k].journal :
               X[k].num = n /\ X[k].journal[i] = e
               /\ (k < row[r] \/ (k = row[r] /\ i < entry[r] + 1))
  <2>1. entry[r] + 1 \in Nat /\ (entry[r] + 1) - 1 \in DOMAIN Journal(r)
    BY <1>1, <1>2
  <2>2. QED
    BY <1>1, <2>1, BehindNext
<1>4. /\ tx'[r].imports = tx[r].imports
      /\ tx'[r].clients = tx[r].clients
      /\ tx'[r].business_services = tx[r].business_services
      /\ tx'[r].tickets = tx[r].tickets
      /\ IF HasEvent(View(r), n0, e0)
         THEN tx'[r].ticket_events = tx[r].ticket_events
         ELSE tx'[r].ticket_events = tx[r].ticket_events \cup {v0}
  <2>1. \/ HasEvent(View(r), n0, e0) /\ tx' = tx
        \/ /\ ~HasEvent(View(r), n0, e0)
           /\ tx'[r] = [tx[r] EXCEPT !.ticket_events = @ \cup {v0}]
    BY LoopWrites
  <2> HIDE DEF n0, e0, v0
  <2>2. QED
    BY <1>2, <2>1 DEF Database
<1>5. /\ Behind(r, {"service", "ticket", "event"}) = UpTo
      /\ Behind(r, {"ticket", "event"}) = UpTo
      /\ Behind(r, {"event"}) = UpTo
  BY <1>1, <1>2 DEF Behind
<1>6. /\ Behind(r, {"service", "ticket", "event"})' = UpTo
      /\ Behind(r, {"ticket", "event"})' = UpTo
      /\ Behind(r, {"event"})' = UpTo
  BY <1>3
<1>7. ASSUME NEW n, NEW e
      PROVE  Passed(r, n, e)' <=> Passed(r, n, e) \/ (n = n0 /\ e = e0)
  <2>1. \A i \in DOMAIN X[row[r]].journal : i < entry[r] + 1 <=> i < entry[r] \/ i = entry[r]
    <3>1. X[row[r]].journal \in Seq(Entry)
      BY <1>2, RecordType
    <3>2. QED
      BY <1>2, <3>1
  <2>2. Passed(r, n, e) <=>
            \E k \in DOMAIN X : \E i \in DOMAIN X[k].journal :
               X[k].num = n /\ X[k].journal[i] = e
               /\ (k < row[r] \/ (k = row[r] /\ i < entry[r]))
    BY <1>1 DEF Passed
  <2>3. ASSUME Passed(r, n, e)' PROVE Passed(r, n, e) \/ (n = n0 /\ e = e0)
    <3>1. PICK k \in DOMAIN X : \E i \in DOMAIN X[k].journal :
               X[k].num = n /\ X[k].journal[i] = e
               /\ (k < row[r] \/ (k = row[r] /\ i < entry[r] + 1))
      BY <1>3, <2>3
    <3>2. QED
      BY <1>2, <2>1, <2>2, <3>1
  <2>4. ASSUME Passed(r, n, e) PROVE Passed(r, n, e)'
    BY <1>3, <2>1, <2>2, <2>4
  <2>5. ASSUME n = n0, e = e0 PROVE Passed(r, n, e)'
    <3>1. /\ row[r] \in DOMAIN X /\ entry[r] \in DOMAIN X[row[r]].journal
          /\ X[row[r]].num = n /\ X[row[r]].journal[entry[r]] = e
          /\ entry[r] < entry[r] + 1
      BY <1>1, <1>2, <2>5
    <3>2. QED
      BY <1>3, <3>1
  <2>6. QED
    BY <2>3, <2>4, <2>5
<1>8. WroteEvents(r)'
  <2> SUFFICES ASSUME NEW v \in EventRow
               PROVE  v \in tx'[r].ticket_events <=>
                         /\ v.source = r
                         /\ Passed(r, v.num, v.entry) \/ (v.num = n0 /\ v.entry = e0)
                         /\ ~HasEvent(db, v.num, v.entry)
    BY <1>1, <1>7 DEF WroteEvents
  <2>1. v \in tx[r].ticket_events <=>
           v.source = r /\ Passed(r, v.num, v.entry) /\ ~HasEvent(db, v.num, v.entry)
    BY <1>1 DEF Wrote
  <2>2. HasEvent(View(r), n0, e0) <=> HasEvent(db, n0, e0) \/ HasEvent(tx[r], n0, e0)
    BY DEF HasEvent, View, Overlay
  <2>3. v = v0 <=> v.source = r /\ v.num = n0 /\ v.entry = e0
    BY DEF EventRow
  <2>4. HasEvent(tx[r], n0, e0) => v0 \in tx[r].ticket_events
    <3>1. SUFFICES ASSUME NEW w \in tx[r].ticket_events, w.num = n0, w.entry = e0
                   PROVE  w = v0
      BY DEF HasEvent
    <3>2. w \in EventRow /\ w.source = r
      BY <1>1, <1>2 DEF Database, Wrote
    <3>3. QED
      BY <3>1, <3>2 DEF EventRow
  <2>5. CASE HasEvent(db, n0, e0)
    BY <1>4, <2>1, <2>2, <2>5
  <2>6. CASE ~HasEvent(db, n0, e0) /\ HasEvent(tx[r], n0, e0)
    BY <1>4, <2>1, <2>2, <2>3, <2>4, <2>6
  <2>7. CASE ~HasEvent(View(r), n0, e0)
    <3>1. tx'[r].ticket_events = tx[r].ticket_events \cup {v0}
      BY <1>4, <2>7
    <3>2. ~HasEvent(db, n0, e0)
      BY <2>2, <2>7
    <3>3. QED
      BY <2>1, <2>3, <3>1, <3>2
  <2>8. QED
    BY <2>2, <2>5, <2>6, <2>7
<1>9. WroteImports(r)'
  BY <1>1, <1>4, WroteParts DEF WroteImports
<1>10. WroteClients(r)'
  BY <1>1, <1>4, <1>5, <1>6, WroteParts DEF WroteClients
<1>11. WroteServices(r)'
  BY <1>1, <1>4, <1>5, <1>6, WroteParts DEF WroteServices
<1>12. WroteTickets(r)'
  BY <1>1, <1>4, <1>5, <1>6, WroteParts DEF WroteTickets
<1>13. QED
  BY <1>8, <1>9, <1>10, <1>11, <1>12 DEF Wrote, WroteImports, WroteClients,
     WroteServices, WroteTickets, WroteEvents

LEMMA OwnWrote ==
    ASSUME IInv, NEW r \in Run, Step(r), Writing(r)'
    PROVE  Wrote(r)'
<1> USE DEF IInv, TypeOK
<1>1. CASE InsertImport(r)
  BY <1>1, InsertImportWrote
<1>2. CASE UpsertClient(r) \/ UpsertBusinessService(r)
  BY <1>2, UpsertOneWrote
<1>3. CASE UpsertTicket(r)
  BY <1>3, UpsertTicketWrote
<1>4. CASE InsertEvent(r)
  BY <1>4, InsertEventWrote
<1>5. CASE LoseClient(r)
  <2>1. /\ Writing(r) /\ phase[r] = "commit" /\ phase'[r] = "orphan_commit"
        /\ UNCHANGED <<db, export, row, entry, tx, sum>>
    BY <1>5 DEF LoseClient, GoTo, InTransaction, Writing, Looping, Committing
  <2>2. \A P : "commit" \notin P /\ "orphan_commit" \notin P => Behind(r, P)' = Behind(r, P)
    BY <2>1 DEF Behind
  <2>3. \A n, e : Passed(r, n, e)' <=> Passed(r, n, e)
    BY <2>1 DEF Passed
  <2>4. /\ Behind(r, {"service", "ticket", "event"})' = Behind(r, {"service", "ticket", "event"})
        /\ Behind(r, {"ticket", "event"})' = Behind(r, {"ticket", "event"})
        /\ Behind(r, {"event"})' = Behind(r, {"event"})
    BY <2>2
  <2>5. Wrote(r)
    BY <2>1 DEF WrittenSoFar
  <2>6. QED
    BY <2>1, <2>3, <2>4, <2>5 DEF Wrote
<1>6. CASE (\E x \in Export : Start(r, x)) \/ Reject(r) \/ FindImport(r) \/ Ack(r)
  BY <1>6 DEF Start, Reject, FindImport, Ack, GoTo, Writing, Looping, Committing
<1>7. CASE LookupImport(r)
  <2>1. sum'[r].short /\ phase'[r] = "commit"
    BY <1>7 DEF LookupImport, GoTo, Summary
  <2>2. QED
    BY <2>1 DEF Writing, Looping
<1>8. CASE ServerCommit(r) \/ EndInError(r)
  <2>1. phase'[r] \in {"committed", "failed"}
    BY <1>8 DEF ServerCommit, EndInError, GoTo
  <2>2. QED
    BY <2>1 DEF Writing, Looping, Committing
<1>9. QED
  BY <1>1, <1>2, <1>3, <1>4, <1>5, <1>6, <1>7, <1>8
     DEF Step, Proceed, AckLost, StatementFails, DeadlockAbort, BackendRollback, BackendCommit

LEMMA InvInit == Init => IInv
<1> SUFFICES ASSUME Init PROVE IInv
  OBVIOUS
<1>1. TypeOK /\ PlaceOK
  BY TypeInit
<1>2. ElseEmpty
  BY DEF Init, ElseEmpty
<1>3. LocksExclude /\ ImportIds /\ EventsLocked
  BY DEF Init, LocksExclude, ImportIds, EventsLocked, Empty
<1>4. \A r \in Run : ~Writing(r)
  BY DEF Init, Writing, Looping, Committing
<1>5. QED
  BY <1>1, <1>2, <1>3, <1>4 DEF IInv, NotYetImported, WrittenSoFar

LEMMA InvStep == IInv /\ [Next]_vars => IInv'
<1> SUFFICES ASSUME IInv, [Next]_vars PROVE IInv'
  OBVIOUS
<1>1. (TypeOK /\ PlaceOK)'
  BY TypeStep, PlaceStep DEF IInv
<1>2. ASSUME NEW r \in Run, Step(r) PROVE IInv'
  <2>1. ElseEmpty' /\ LocksExclude'
    BY <1>2, ElseEmptyStep, LocksExcludeStep DEF IInv
  <2>2. NotYetImported' /\ ImportIds' /\ EventsLocked'
    BY <1>2, NotYetImportedStep, ImportIdsStep, EventsLockedStep
  <2>3. WrittenSoFar'
    BY <1>2, OwnWrote, OthersWrote DEF WrittenSoFar
  <2>4. QED
    BY <1>1, <2>1, <2>2, <2>3 DEF IInv
<1>3. CASE UNCHANGED vars
  <2>1. /\ \A r \in Run : Writing(r)' <=> Writing(r)
        /\ \A r \in Run : Wrote(r)' <=> Wrote(r)
    BY <1>3 DEF vars, Writing, Wrote, Behind, Passed
  <2>2. /\ ElseEmpty' /\ LocksExclude' /\ EventsLocked'
        /\ NotYetImported' /\ ImportIds' /\ WrittenSoFar'
    BY <1>3, <2>1 DEF vars, IInv, ElseEmpty, LocksExclude, EventsLocked, NotYetImported,
       ImportIds, WrittenSoFar
  <2>3. QED
    BY <1>1, <2>2 DEF IInv
<1>4. QED
  BY <1>2, <1>3 DEF Next

\* However many runs overlap, an open transaction has written exactly what its
\* loops have passed, and no two have written the same import or ticket.
THEOREM Invariant == Spec => []IInv
<1>1. QED
  BY InvInit, InvStep, PTL DEF Spec

\* insertEvents never waits for another run: the ticket's row lock, taken just
\* before, keeps every other transaction, a dying one too, from its events.
THEOREM NoWaitForEvents == Spec => []EventInsertNeverWaits
<1>1. IInv => EventInsertNeverWaits
  <2> SUFFICES ASSUME IInv, NEW r \in Run, NEW q \in Run, q # r, phase[r] = "event",
                      HasEvent(tx[q], Rec(r).num, Journal(r)[entry[r]])
               PROVE  FALSE
    BY DEF EventInsertNeverWaits, WaitsFor
  <2> USE DEF IInv, TypeOK
  <2>1. tx[q].tickets[Rec(r).num] # Absent
    BY DEF EventsLocked, HasEvent
  <2>2. tx[r].tickets[Rec(r).num] # Absent /\ Rec(r).num \in Ticket
    BY CurrentIsLocked, PlaceType DEF WrittenSoFar, Writing, Looping
  <2>3. QED
    BY <2>1, <2>2 DEF LocksExclude
<1>2. QED
  BY <1>1, Invariant, PTL

-----------------------------------------------------------------------------
(* A success is a success. *)

\* What a run has found or committed of its import stays in the database.
Recorded ==
    \A r \in Run :
        phase[r] \in {"lookup", "committed", "ok"} \/ (phase[r] \in Committing /\ sum[r].short)
        => Imported(db, export[r])

LEMMA ImportsStay ==
    ASSUME IInv, NEW r \in Run, Step(r), NEW x, Imported(db, x)
    PROVE  Imported(db', x)
<1>1. db' = db \/ db' = View(r)
  BY StepShape DEF Publish, Discard, IInv
<1>2. QED
  BY <1>1 DEF Imported, View, Overlay

LEMMA RecordedStep ==
    ASSUME IInv, Recorded, NEW r \in Run, Step(r)
    PROVE  Recorded'
<1> USE DEF IInv, TypeOK, GoTo
<1> DEFINE Due(q) == \/ phase[q] \in {"lookup", "committed", "ok"}
                     \/ phase[q] \in Committing /\ sum[q].short
<1>1. ASSUME NEW q \in Run, q # r, Due(q)' PROVE Imported(db', export'[q])
  BY <1>1, OthersStay, ImportsStay DEF Recorded
<1>2. ASSUME Due(r)' PROVE Imported(db', export'[r])
  <2>1. CASE (\E x \in Export : Start(r, x)) \/ Reject(r) \/ EndInError(r)
    BY <1>2, <2>1 DEF Start, Reject, EndInError, Committing
  <2>2. CASE FindImport(r)
    <3>1. Writing(r) \/ tx[r] = Empty
      BY <2>2 DEF FindImport, Executes, ElseEmpty
    <3>2. tx[r] = Empty
      BY <2>2, <3>1 DEF FindImport, Executes, Writing, Looping, Committing
    <3>3. QED
      BY <2>2, <3>2 DEF FindImport, Imported, View, Overlay, Empty
  <2>3. CASE LookupImport(r) \/ Ack(r)
    BY <2>3 DEF LookupImport, Ack, Executes, Recorded
  <2>4. CASE LoseClient(r)
    <3>1. phase[r] \in Committing /\ sum[r].short /\ db' = db /\ export' = export
      BY <1>2, <2>4 DEF LoseClient, InTransaction, Committing
    <3>2. QED
      BY <3>1 DEF Recorded
  <2>5. CASE ServerCommit(r)
    <3>1. db' = View(r) /\ export' = export /\ phase[r] = "commit"
      BY <2>5 DEF ServerCommit, Publish
    <3>2. CASE sum[r].short
      BY <3>1, <3>2, ImportsStay DEF Recorded, Committing
    <3>3. CASE ~sum[r].short
      <4>1. Wrote(r)
        BY <3>1, <3>3 DEF WrittenSoFar, Writing, Committing
      <4> DEFINE i == [hash |-> export[r], id |-> r]
      <4>2. tx[r].imports = {i}
        BY <4>1 DEF Wrote
      <4>3. db'.imports = db.imports \cup tx[r].imports
        BY <3>1 DEF View, Overlay
      <4>4. i \in db'.imports /\ i.hash = export'[r]
        BY <3>1, <4>2, <4>3
      <4>5. QED
        BY <4>4 DEF Imported
    <3>4. QED
      BY <3>2, <3>3
  <2>6. CASE InsertImport(r) \/ UpsertClient(r) \/ UpsertBusinessService(r)
             \/ UpsertTicket(r) \/ InsertEvent(r)
    <3>1. Writing(r)' /\ ~sum'[r].short
      BY <2>6, LoopStaysWriting
    <3>2. QED
      BY <1>2, <3>1 DEF Writing, Looping, Committing
  <2>7. QED
    BY <2>1, <2>2, <2>3, <2>4, <2>5, <2>6
       DEF Step, Proceed, AckLost, StatementFails, DeadlockAbort, BackendRollback, BackendCommit
<1>3. QED
  BY <1>1, <1>2 DEF Recorded

\* A run that reports success, short-circuited or not, leaves its export
\* imported.
THEOREM SuccessIsImport == Spec => []OkMeansImported
<1>1. Init => Recorded
  BY DEF Init, Recorded, Committing
<1>2. IInv /\ Recorded /\ [Next]_vars => Recorded'
  <2> SUFFICES ASSUME IInv, Recorded, [Next]_vars PROVE Recorded'
    OBVIOUS
  <2>1. CASE UNCHANGED vars
    BY <2>1 DEF vars, Recorded
  <2>2. QED
    BY <2>1, RecordedStep DEF Next
<1>3. Recorded => OkMeansImported
  BY DEF Recorded, OkMeansImported
<1>4. QED
  BY <1>1, <1>2, <1>3, Invariant, PTL DEF Spec

-----------------------------------------------------------------------------
(* Ingestion is atomic. *)

\* IngestCatalog speaks of the same exports and tables.
LEMMA CatalogData ==
    /\ Catalog!Empty = Empty
    /\ \A d, x : Catalog!Imported(d, x) <=> Imported(d, x)
    /\ \A d, n, e : Catalog!HasEvent(d, n, e) <=> HasEvent(d, n, e)
    /\ \A x : Catalog!ServicesIn(x) = ServicesIn(x)
    /\ \A x : Catalog!ClientsIn(x) = ClientsIn(x)
    /\ \A x : Catalog!TicketsIn(x) = TicketsIn(x)
    /\ \A x, n, e : Catalog!Mentions(x, n, e) <=> Mentions(x, n, e)
    /\ \A x, i : Catalog!IsLast(x, i) <=> IsLast(x, i)
    /\ \A c, i : Catalog!RowOf(c, i) = RowOf(c, i)
BY DEF Catalog!Empty, Empty, Catalog!Imported, Imported, Catalog!HasEvent, HasEvent,
       Catalog!ServicesIn, ServicesIn, Catalog!ClientsIn, ClientsIn, Catalog!TicketsIn, TicketsIn,
       Catalog!Mentions, Mentions, Catalog!IsLast, IsLast, Catalog!RowOf, RowOf

LEMMA OverlayEmpty ==
    ASSUME NEW d \in Database
    PROVE  Overlay(d, Empty) = d
<1>1. [n \in Ticket |-> IF Empty.tickets[n] # Absent THEN Empty.tickets[n] ELSE d.tickets[n]]
        = d.tickets
  BY DEF Empty, Database
<1>2. QED
  BY <1>1 DEF Overlay, Empty, Database

\* The COMMIT of a run that did not short-circuit takes in its export: whole,
\* new, and under an id of its own.
LEMMA CommitTakes ==
    ASSUME IInv, NEW r \in Run, phase[r] \in Committing, Writing(r)
    PROVE  /\ export[r] \in Export
           /\ ~Imported(db, export[r])
           /\ \A i \in db.imports : i.id # r
           /\ View(r) = Catalog!Take(db, export[r], r)
<1> USE DEF IInv, TypeOK
<1> DEFINE x == export[r]
           X == Rows[x]
           w == tx[r]
<1>1. /\ x \in Export /\ Wrote(r) /\ w \in Database /\ db \in Database
      /\ row[r] = Len(X) + 1
      /\ ~Imported(db, x)
      /\ \A i \in db.imports : i.id # r
  BY DEF PlaceOK, Place, WrittenSoFar, NotYetImported, ImportIds, Writing, Looping, Committing
<1>2. \A k \in DOMAIN X : k \in Nat /\ k < row[r]
  <2>1. X \in Seq(Record)
    BY <1>1, RowsAssumption
  <2>2. QED
    BY <1>1, <2>1
<1>3. /\ Behind(r, {"service", "ticket", "event"}) = DOMAIN X
      /\ Behind(r, {"ticket", "event"}) = DOMAIN X
      /\ Behind(r, {"event"}) = DOMAIN X
  BY <1>2 DEF Behind
<1>4. \A n, e : Passed(r, n, e) <=> Mentions(x, n, e)
  BY <1>2 DEF Passed, Mentions
<1>5. w.imports = {[hash |-> x, id |-> r]} /\ w.clients = ClientsIn(x)
      /\ w.business_services = ServicesIn(x)
  <2>1. {ClientOf[X[k].svc] : k \in DOMAIN X} = {ClientOf[s] : s \in ServicesIn(x)}
    BY DEF ServicesIn
  <2>2. QED
    BY <1>1, <1>3, <2>1 DEF Wrote, ClientsIn, ServicesIn
<1>6. ASSUME NEW n \in Ticket
      PROVE  (IF w.tickets[n] # Absent THEN w.tickets[n] ELSE db.tickets[n]) =
             (IF n \in TicketsIn(x) THEN Catalog!Latest(x, r, n) ELSE db.tickets[n])
  <2>1. CASE n \in TicketsIn(x)
    <3>1. PICK k \in DOMAIN X : /\ X[k].num = n
                                /\ \A l \in DOMAIN X : l > k => X[l].num # n
                                /\ w.tickets[n] = RowOf(X[k], r)
      <4>1. \E k \in DOMAIN X : X[k].num = n
        BY <2>1 DEF TicketsIn
      <4>2. QED
        BY <1>1, <1>3, <4>1 DEF Wrote
    <3>2. IsLast(x, k)
      BY <3>1 DEF IsLast
    <3>3. \A l \in DOMAIN X : X[l].num = n /\ IsLast(x, l) => l = k
      BY <1>2, <3>1 DEF IsLast
    <3>4. k = CHOOSE i \in DOMAIN X : X[i].num = n /\ IsLast(x, i)
      BY <3>1, <3>2, <3>3
    <3>5. RowOf(X[k], r) \in TicketRow
      BY <1>1, RecordType DEF RowOf, TicketRow, Record, Run
    <3>6. QED
      BY <2>1, <3>1, <3>4, <3>5, AbsentAssumption, CatalogData DEF Catalog!Latest
  <2>2. CASE n \notin TicketsIn(x)
    <3>1. ~ \E k \in DOMAIN X : X[k].num = n
      BY <2>2 DEF TicketsIn
    <3>2. QED
      BY <1>1, <1>3, <2>2, <3>1 DEF Wrote
  <2>3. QED
    BY <2>1, <2>2
<1>7. w.ticket_events = {v \in [num: Ticket, entry: Entry, source: {r}] :
                            Mentions(x, v.num, v.entry) /\ ~HasEvent(db, v.num, v.entry)}
  <2>1. ASSUME NEW v
        PROVE  v \in [num: Ticket, entry: Entry, source: {r}] <=> v \in EventRow /\ v.source = r
    BY DEF EventRow, Run
  <2>2. w.ticket_events \subseteq EventRow
    BY <1>1 DEF Database
  <2>3. \A v \in EventRow : v \in w.ticket_events <=>
           v.source = r /\ Mentions(x, v.num, v.entry) /\ ~HasEvent(db, v.num, v.entry)
    BY <1>1, <1>4 DEF Wrote
  <2>4. QED
    BY <2>1, <2>2, <2>3
<1>8. View(r) = Catalog!Take(db, x, r)
  BY <1>5, <1>6, <1>7, CatalogData DEF View, Overlay, Catalog!Take
<1>9. QED
  BY <1>1, <1>8

LEMMA CatalogStep == IInv /\ [Next]_vars => [Catalog!Next]_db
<1> SUFFICES ASSUME IInv, [Next]_vars, db' # db PROVE Catalog!Next
  OBVIOUS
<1> USE DEF IInv, TypeOK
<1>1. PICK r \in Run : Step(r)
  BY DEF Next, vars
<1>2. Publish(r) /\ phase[r] \in Committing
  BY <1>1, StepShape DEF Discard
<1>3. db' = View(r)
  BY <1>2 DEF Publish
<1>4. Writing(r)
  <2>1. tx[r] # Empty
    BY <1>3, OverlayEmpty DEF View
  <2>2. QED
    BY <1>2, <2>1 DEF ElseEmpty, Committing
<1>5. Catalog!Ingest(export[r], r)
  BY <1>2, <1>3, <1>4, CommitTakes, CatalogData DEF Catalog!Ingest
<1>6. QED
  BY <1>2, <1>4, <1>5, CommitTakes DEF Catalog!Next, Run

\* Whatever fails and whoever else is running, an ingest takes in one whole
\* export, at once and at most once, or changes nothing.
THEOREM Atomicity == Spec => IngestIsAtomic
<1>1. Init => Catalog!Init
  BY CatalogData DEF Init, Catalog!Init
<1>2. QED
  BY <1>1, Invariant, CatalogStep, PTL DEF Spec, IngestIsAtomic, Catalog!Spec

\* So the tables are complete, free of duplicates, traceable and unmixed at
\* every moment of every interleaving of runs, statements and failures.
THEOREM TablesCorrect ==
    Spec => [](ImportComplete /\ StoredOnce /\ Provenance /\ ExportsNeverMix)
<1> USE RowsAssumption, ClientOfAssumption, NullAssumption, AbsentAssumption
        DEF Record, TicketRow, Catalog!Record, Catalog!TicketRow
<1>1. Catalog!Init => Catalog!CatalogOK
  BY Catalog!CatalogInit
<1>2. Catalog!CatalogOK /\ [Catalog!Next]_db => Catalog!CatalogOK'
  BY Catalog!CatalogStep
<1>3. Catalog!CatalogOK => ImportComplete /\ StoredOnce /\ Provenance /\ ExportsNeverMix
  BY DEF Catalog!CatalogOK, ImportComplete, StoredOnce, Provenance, ExportsNeverMix
<1>4. QED
  BY <1>1, <1>2, <1>3, Atomicity, PTL DEF IngestIsAtomic, Catalog!Spec

\* No crash, error or lost client leaves an imports row without all its export
\* holds, so short-circuiting on the row is safe.
THEOREM ImportsAreComplete == Spec => []ImportComplete
BY TablesCorrect, PTL

\* However runs overlap and repeat each other, an entry is stored once and a
\* content is imported once.
THEOREM NothingStoredTwice == Spec => []StoredOnce
BY TablesCorrect, PTL

\* Every ticket and event is what the import it names says of it.
THEOREM EverythingTraceable == Spec => []Provenance
BY TablesCorrect, PTL

\* The tickets two exports share never stand half as one and half as the other.
THEOREM NeverMixed == Spec => []ExportsNeverMix
BY TablesCorrect, PTL

-----------------------------------------------------------------------------
(* Summaries. *)

\* The slots of an export, as pairs of indices.
LEMMA SlotIn ==
    ASSUME NEW x \in Export
    PROVE  Slots(x) = {s \in Nat \X Nat : /\ s[1] \in DOMAIN Rows[x]
                                          /\ s[2] \in DOMAIN Rows[x][s[1]].journal}
<1>1. ASSUME NEW i \in DOMAIN Rows[x], NEW j \in DOMAIN Rows[x][i].journal
      PROVE  i \in Nat /\ j \in Nat
  BY RecordType
<1>2. ASSUME NEW s \in Slots(x)
      PROVE  /\ s \in Nat \X Nat /\ s[1] \in DOMAIN Rows[x]
             /\ s[2] \in DOMAIN Rows[x][s[1]].journal
  <2>1. PICK i \in DOMAIN Rows[x] : s \in {i} \X DOMAIN Rows[x][i].journal
    BY DEF Slots
  <2>2. QED
    BY <1>1, <2>1
<1>3. ASSUME NEW s \in Nat \X Nat, s[1] \in DOMAIN Rows[x], s[2] \in DOMAIN Rows[x][s[1]].journal
      PROVE  s \in Slots(x)
  <2>1. s \in {s[1]} \X DOMAIN Rows[x][s[1]].journal
    BY <1>3
  <2>2. QED
    BY <1>3, <2>1 DEF Slots
<1>4. QED
  BY <1>2, <1>3

\* What becomes visible when a transaction commits: nothing, if its run
\* short-circuited, else its own import, its own events and its tickets.
LEMMA PublishShape ==
    ASSUME IInv, NEW r \in Run, phase[r] \in Committing, Publish(r)
    PROVE  \/ sum[r].short /\ db' = db
           \/ /\ ~sum[r].short /\ Writing(r)
              /\ db'.imports = db.imports \cup {[hash |-> export[r], id |-> r]}
              /\ db'.ticket_events = db.ticket_events \cup tx[r].ticket_events
              /\ \A v \in tx[r].ticket_events : v.source = r
              /\ \A n \in Ticket : db'.tickets[n] = IF tx[r].tickets[n] # Absent
                                                    THEN tx[r].tickets[n] ELSE db.tickets[n]
<1> USE DEF IInv, TypeOK
<1>1. CASE sum[r].short
  <2>1. tx[r] = Empty
    BY <1>1 DEF ElseEmpty, Writing, Committing, Looping
  <2>2. QED
    BY <1>1, <2>1, OverlayEmpty DEF Publish, View
<1>2. CASE ~sum[r].short
  <2>1. Writing(r) /\ Wrote(r)
    BY <1>2 DEF Writing, WrittenSoFar
  <2>2. tx[r].imports = {[hash |-> export[r], id |-> r]}
    BY <2>1 DEF Wrote
  <2>3. \A v \in tx[r].ticket_events : v.source = r
    <3>1. tx[r].ticket_events \subseteq EventRow
      BY DEF Database
    <3>2. QED
      BY <2>1, <3>1 DEF Wrote
  <2>4. db' = Overlay(db, tx[r])
    BY DEF Publish, View
  <2>5. QED
    BY <1>2, <2>1, <2>2, <2>3, <2>4 DEF Overlay
<1>3. QED
  BY <1>1, <1>2

\* The two ways a step of one run shows in the tables.
LEMMA TablesStep ==
    ASSUME IInv, NEW r \in Run, Step(r)
    PROVE  db' = db \/ (Publish(r) /\ phase[r] \in Committing /\ ~sum[r].short)
BY StepShape, PublishShape DEF IInv, Discard

\* Nobody else's commit is among what r has not committed, or says it is from r.
LEMMA OthersCount ==
    ASSUME IInv, CountsOK, NEW r \in Run, Step(r), NEW q \in Run, q # r
    PROVE  Counts(q)'
<1> USE DEF IInv, TypeOK
<1>1. /\ phase'[q] = phase[q] /\ export'[q] = export[q] /\ row'[q] = row[q]
      /\ entry'[q] = entry[q] /\ tx'[q] = tx[q] /\ sum'[q] = sum[q]
  BY OthersStay
<1>2. Counts(q)
  BY DEF CountsOK
<1>3. Writing(q)' <=> Writing(q)
  BY <1>1 DEF Writing
<1>4. SlotsBehind(q)' = SlotsBehind(q)
  BY <1>1 DEF SlotsBehind
<1>5. /\ Writing(q) => Fresh(q)' = Fresh(q)
      /\ SourcedBy(q)' = SourcedBy(q)
      /\ (q \in Importers)' <=> q \in Importers
  <2>1. CASE db' = db
    BY <1>1, <2>1 DEF Fresh, SourcedBy, Importers
  <2>2. CASE Publish(r) /\ phase[r] \in Committing /\ ~sum[r].short
    <3>1. /\ db'.imports = db.imports \cup {[hash |-> export[r], id |-> r]}
          /\ db'.ticket_events = db.ticket_events \cup tx[r].ticket_events
          /\ \A v \in tx[r].ticket_events : v.source = r
          /\ \A n \in Ticket : db'.tickets[n] = IF tx[r].tickets[n] # Absent
                                                THEN tx[r].tickets[n] ELSE db.tickets[n]
      BY <2>2, PublishShape
    <3>2. \A n \in Ticket : tx[q].tickets[n] # Absent => tx[r].tickets[n] = Absent
      BY DEF LocksExclude
    <3>3. Fresh(q)' = Fresh(q)
      BY <1>1, <3>1, <3>2 DEF Fresh
    <3>4. SourcedBy(q)' = SourcedBy(q)
      BY <3>1 DEF SourcedBy
    <3>5. (q \in Importers)' <=> q \in Importers
      <4>1. \A i : i \in db'.imports <=> i \in db.imports \/ i = [hash |-> export[r], id |-> r]
        BY <3>1
      <4>2. QED
        BY <4>1 DEF Importers
    <3>6. QED
      BY <3>3, <3>4, <3>5
  <2>3. QED
    BY <2>1, <2>2, TablesStep
<1>6. CountsLoop(q) /\ Writing(q) => CountsLoop(q)'
  BY <1>1, <1>4, <1>5 DEF CountsLoop
<1>7. CountsShort(q) => CountsShort(q)'
  BY <1>1 DEF CountsShort
<1>8. CountsDone(q) => CountsDone(q)'
  BY <1>1, <1>5 DEF CountsDone
<1>9. (q \in Done)' <=> q \in Done
  BY <1>1 DEF Done
<1>10. QED
  BY <1>1, <1>2, <1>3, <1>5, <1>6, <1>7, <1>8, <1>9 DEF Counts

\* The loops begin with nothing counted and nothing behind.
LEMMA InsertImportCount ==
    ASSUME IInv, CountsOK, NEW r \in Run, InsertImport(r)
    PROVE  CountsLoop(r)'
<1> USE DEF IInv, TypeOK
<1> DEFINE i == [hash |-> export[r], id |-> r]
<1>1. /\ phase[r] = "import" /\ export[r] \in Export /\ tx[r] = Empty
      /\ db' = db /\ export' = export /\ sum' = sum
  BY DEF InsertImport, Executes, PlaceOK, Place, ElseEmpty, Writing, Looping, Committing
<1>2. sum'[r] = NoSummary
  BY <1>1 DEF CountsOK, Counts
<1>3. row'[r] = 1 /\ phase'[r] \in {"client", "commit"}
  BY DEF InsertImport, ToRecord, GoTo
<1>4. tx'[r].tickets = tx[r].tickets /\ tx'[r].ticket_events = {}
  <2>1. tx'[r] = [tx[r] EXCEPT !.imports = @ \cup {i}]
    BY LoopWrites
  <2>2. QED
    BY <1>1, <2>1 DEF Empty
<1>5. Fresh(r)' = {}
  BY <1>1, <1>4 DEF Fresh, Empty
<1>6. SlotsBehind(r)' = {}
  <2>1. \A s \in Slots(export[r]) : ~(s[1] < 1)
    <3>1. DOMAIN Rows[export[r]] = 1 .. Len(Rows[export[r]]) /\ Len(Rows[export[r]]) \in Nat
      BY <1>1, RowsAssumption
    <3>2. QED
      BY <1>1, <3>1, SlotIn
  <2>2. QED
    BY <1>1, <1>3, <2>1 DEF SlotsBehind
<1>7. QED
  BY <1>2, <1>3, <1>4, <1>5, <1>6, FS_EmptySet DEF CountsLoop, NoSummary

\* Clients and services count for nothing.
LEMMA UpsertOneCount ==
    ASSUME IInv, CountsOK, NEW r \in Run, UpsertClient(r) \/ UpsertBusinessService(r)
    PROVE  CountsLoop(r)'
<1> USE DEF IInv, TypeOK
<1>1. /\ phase[r] \in {"client", "service"} /\ phase[r] \in Looping
      /\ phase'[r] \in {"service", "ticket"}
      /\ db' = db /\ export' = export /\ row' = row /\ entry' = entry /\ sum' = sum
  BY DEF UpsertClient, UpsertBusinessService, Executes, GoTo, Looping
<1>2. CountsLoop(r)
  BY <1>1 DEF CountsOK, Counts, Writing
<1>3. tx'[r].tickets = tx[r].tickets /\ tx'[r].ticket_events = tx[r].ticket_events
  <2>1. \/ tx'[r] = [tx[r] EXCEPT !.clients = @ \cup ({ClientOf[Rec(r).svc]} \ {Null})]
        \/ tx'[r] = [tx[r] EXCEPT !.business_services = @ \cup {Rec(r).svc}]
    BY LoopWrites
  <2>2. tx[r] \in Database
    OBVIOUS
  <2>3. QED
    BY <2>1, <2>2 DEF Database
<1>4. Fresh(r)' = Fresh(r)
  BY <1>1, <1>3 DEF Fresh
<1>5. SlotsBehind(r)' = SlotsBehind(r)
  BY <1>1 DEF SlotsBehind
<1>6. QED
  BY <1>1, <1>2, <1>3, <1>4, <1>5 DEF CountsLoop

\* After ToEntry(r, j) the slots behind are those of the records before the
\* current one and its first j - 1.
LEMMA SlotsNext ==
    ASSUME TypeOK, PlaceOK, NEW r \in Run, phase[r] \in Looping, NEW j \in Nat,
           j = 1 \/ j - 1 \in DOMAIN Journal(r), ToEntry(r, j), export' = export
    PROVE  /\ SlotsBehind(r)' = {s \in Slots(export[r]) :
                                    s[1] < row[r] \/ (s[1] = row[r] /\ s[2] < j)}
           /\ row[r] = IF phase'[r] = "event" THEN row'[r] ELSE row'[r] - 1
<1> USE DEF TypeOK, GoTo
<1>0. /\ export[r] \in Export
      /\ row[r] \in Nat
      /\ Journal(r) = Rows[export[r]][row[r]].journal
      /\ DOMAIN Journal(r) = 1 .. Len(Journal(r))
      /\ Len(Journal(r)) \in Nat
  BY PlaceType, RecordType DEF Journal, Rec
<1>1. CASE j \in DOMAIN Journal(r)
  <2>1. phase'[r] = "event" /\ row'[r] = row[r] /\ entry'[r] = j
    BY <1>1 DEF ToEntry
  <2>2. QED
    BY <2>1 DEF SlotsBehind
<1>2. CASE j \notin DOMAIN Journal(r)
  <2>1. phase'[r] \in {"client", "commit"} /\ row'[r] = row[r] + 1
    BY <1>2 DEF ToEntry, ToRecord
  <2>2. \A i \in DOMAIN Journal(r) : i < j
    BY <1>0, <1>2
  <2>3. ASSUME NEW s \in Slots(export[r])
        PROVE  s[1] < row[r] + 1 <=> s[1] < row[r] \/ (s[1] = row[r] /\ s[2] < j)
    <3>1. s[1] \in Nat /\ s[2] \in DOMAIN Rows[export[r]][s[1]].journal
      BY <1>0, SlotIn
    <3>2. s[1] = row[r] => s[2] < j
      BY <1>0, <2>2, <3>1
    <3>3. QED
      BY <1>0, <3>1, <3>2
  <2>4. SlotsBehind(r)' = {s \in Slots(export[r]) : s[1] < row[r] + 1}
    BY <2>1 DEF SlotsBehind
  <2>5. SlotsBehind(r)' = {s \in Slots(export[r]) :
                              s[1] < row[r] \/ (s[1] = row[r] /\ s[2] < j)}
    BY <2>3, <2>4
  <2>6. row[r] = row'[r] - 1
    BY <1>0, <2>1
  <2>7. phase'[r] # "event"
    BY <2>1
  <2>8. QED
    BY <2>5, <2>6, <2>7
<1>3. QED
  BY <1>1, <1>2

\* (xmax = 0) tells the tickets nobody has committed from the others.
LEMMA UpsertTicketCount ==
    ASSUME IInv, CountsOK, NEW r \in Run, UpsertTicket(r)
    PROVE  CountsLoop(r)'
<1> USE DEF IInv, TypeOK
<1> DEFINE n == Rec(r).num
           isNew == tx[r].tickets[n] = Absent /\ db.tickets[n] = Absent
<1>1. /\ phase[r] = "ticket" /\ phase[r] \in Looping
      /\ db' = db /\ export' = export /\ ToEntry(r, 1)
  BY DEF UpsertTicket, Executes, Looping
<1>2. CountsLoop(r)
  BY <1>1 DEF CountsOK, Counts, Writing
<1>3. n \in Ticket /\ RowOf(Rec(r), r) # Absent /\ row[r] \in Nat /\ export[r] \in Export
  BY <1>1, PlaceType, AbsentAssumption
<1>4. /\ tx'[r].tickets = [tx[r].tickets EXCEPT ![n] = RowOf(Rec(r), r)]
      /\ tx'[r].ticket_events = tx[r].ticket_events
      /\ tx[r].tickets \in [Ticket -> TicketRow \cup {Absent}]
  <2>1. tx'[r] = [tx[r] EXCEPT !.tickets = [@ EXCEPT ![n] = RowOf(Rec(r), r)]]
    BY LoopWrites
  <2>2. tx[r] \in Database
    OBVIOUS
  <2>3. QED
    BY <2>1, <2>2 DEF Database
<1>5. View(r).tickets[n] = Absent <=> isNew
  BY <1>3 DEF View, Overlay
<1>6. Fresh(r)' = IF isNew THEN Fresh(r) \cup {n} ELSE Fresh(r)
  <2>1. ASSUME NEW m \in Ticket
        PROVE  tx'[r].tickets[m] # Absent <=> tx[r].tickets[m] # Absent \/ m = n
    BY <1>3, <1>4
  <2>2. QED
    BY <1>1, <1>3, <2>1 DEF Fresh
<1>7. isNew => n \notin Fresh(r)
  BY DEF Fresh
<1>8. IsFiniteSet(Fresh(r)') /\ Cardinality(Fresh(r)') = Cardinality(Fresh(r)) + (IF isNew THEN 1 ELSE 0)
  <2>1. IsFiniteSet(Fresh(r)) /\ Cardinality(Fresh(r)) \in Nat
    BY <1>2, FS_CardinalityType DEF CountsLoop
  <2>2. CASE isNew
    BY <1>6, <1>7, <2>1, <2>2, FS_AddElement
  <2>3. CASE ~isNew
    BY <1>6, <2>1, <2>3
  <2>4. QED
    BY <2>2, <2>3
<1>9. SlotsBehind(r)' = SlotsBehind(r) /\ row[r] = IF phase'[r] = "event" THEN row'[r] ELSE row'[r] - 1
  <2>1. /\ SlotsBehind(r)' = {s \in Slots(export[r]) :
                                 s[1] < row[r] \/ (s[1] = row[r] /\ s[2] < 1)}
        /\ row[r] = IF phase'[r] = "event" THEN row'[r] ELSE row'[r] - 1
    BY <1>1, SlotsNext
  <2>2. ASSUME NEW s \in Slots(export[r]) PROVE ~(s[2] < 1)
    <3>1. /\ s[2] \in Nat /\ s[1] \in DOMAIN Rows[export[r]]
          /\ s[2] \in DOMAIN Rows[export[r]][s[1]].journal
      BY <1>3, SlotIn
    <3>2. Rows[export[r]][s[1]].journal \in Seq(Entry)
      BY <1>3, <3>1, RecordType
    <3>3. QED
      BY <3>1, <3>2
  <2>3. QED
    BY <1>1, <2>1, <2>2 DEF SlotsBehind
<1>10. /\ sum'[r].events_new = sum[r].events_new
       /\ sum'[r].events_skipped = sum[r].events_skipped
       /\ IF isNew
          THEN sum'[r].tickets_new = sum[r].tickets_new + 1
               /\ sum'[r].tickets_updated = sum[r].tickets_updated
          ELSE sum'[r].tickets_new = sum[r].tickets_new
               /\ sum'[r].tickets_updated = sum[r].tickets_updated + 1
  <2>1. sum' = IF isNew THEN [sum EXCEPT ![r] = [sum[r] EXCEPT !.tickets_new = @ + 1]]
                        ELSE [sum EXCEPT ![r] = [sum[r] EXCEPT !.tickets_updated = @ + 1]]
    BY <1>5 DEF UpsertTicket
  <2>2. sum[r] \in Summary
    OBVIOUS
  <2>3. QED
    BY <2>1, <2>2 DEF Summary
<1>11. /\ sum[r].tickets_new \in Nat /\ sum[r].tickets_updated \in Nat
       /\ sum[r].tickets_new = Cardinality(Fresh(r))
       /\ sum[r].tickets_new + sum[r].tickets_updated = row[r] - 1
  BY <1>1, <1>2 DEF CountsLoop, Summary
<1> HIDE DEF isNew, n
<1>12. /\ sum'[r].tickets_new = Cardinality(Fresh(r)')
       /\ sum'[r].tickets_new + sum'[r].tickets_updated = row[r]
  BY <1>3, <1>8, <1>10, <1>11
<1>13. QED
  BY <1>2, <1>4, <1>8, <1>9, <1>10, <1>12 DEF CountsLoop

\* RowsAffected tells the entries nobody has committed from the others.
LEMMA InsertEventCount ==
    ASSUME IInv, CountsOK, NEW r \in Run, InsertEvent(r)
    PROVE  CountsLoop(r)'
<1> USE DEF IInv, TypeOK
<1> DEFINE n0 == Rec(r).num
           e0 == Journal(r)[entry[r]]
           v0 == [num |-> n0, entry |-> e0, source |-> r]
           slot == <<row[r], entry[r]>>
           isNew == ~HasEvent(View(r), n0, e0)
           S == SlotsBehind(r)
           E == tx[r].ticket_events
<1>1. /\ phase[r] = "event" /\ phase[r] \in Looping
      /\ db' = db /\ export' = export /\ ToEntry(r, entry[r] + 1)
      /\ entry[r] \in DOMAIN Journal(r)
  BY DEF InsertEvent, Executes, Looping, PlaceOK, Place
<1>2. CountsLoop(r)
  BY <1>1 DEF CountsOK, Counts, Writing
<1>3. /\ export[r] \in Export /\ row[r] \in DOMAIN Rows[export[r]] /\ row[r] \in Nat
      /\ entry[r] \in Nat /\ Journal(r) = Rows[export[r]][row[r]].journal
  BY <1>1, PlaceType, RecordType DEF Rec, Journal
<1>4. /\ tx'[r].tickets = tx[r].tickets
      /\ tx'[r].ticket_events = IF isNew THEN E \cup {v0} ELSE E
  <2>1. \/ HasEvent(View(r), n0, e0) /\ tx' = tx
        \/ /\ ~HasEvent(View(r), n0, e0)
           /\ tx'[r] = [tx[r] EXCEPT !.ticket_events = @ \cup {v0}]
    BY LoopWrites
  <2>2. tx[r] \in Database
    OBVIOUS
  <2>3. QED
    BY <2>1, <2>2 DEF Database
<1>5. isNew => v0 \notin E
  BY DEF HasEvent, View, Overlay
<1>6. /\ IsFiniteSet(tx'[r].ticket_events)
      /\ Cardinality(tx'[r].ticket_events) = Cardinality(E) + (IF isNew THEN 1 ELSE 0)
      /\ Cardinality(E) \in Nat
  <2>1. IsFiniteSet(E) /\ Cardinality(E) \in Nat
    BY <1>2, FS_CardinalityType DEF CountsLoop
  <2> HIDE DEF E, v0
  <2>2. CASE isNew
    BY <1>4, <1>5, <2>1, <2>2, FS_AddElement
  <2>3. CASE ~isNew
    BY <1>4, <2>1, <2>3
  <2>4. QED
    BY <2>1, <2>2, <2>3
<1>7. /\ SlotsBehind(r)' = S \cup {slot} /\ slot \notin S
      /\ row[r] = IF phase'[r] = "event" THEN row'[r] ELSE row'[r] - 1
  <2>1. entry[r] + 1 \in Nat /\ (entry[r] + 1) - 1 \in DOMAIN Journal(r)
    BY <1>1, <1>3
  <2>2. /\ SlotsBehind(r)' = {s \in Slots(export[r]) :
                                 s[1] < row[r] \/ (s[1] = row[r] /\ s[2] < entry[r] + 1)}
        /\ row[r] = IF phase'[r] = "event" THEN row'[r] ELSE row'[r] - 1
    BY <1>1, <2>1, SlotsNext
  <2>3. S = {s \in Slots(export[r]) :
                s[1] < row[r] \/ (s[1] = row[r] /\ s[2] < entry[r])}
    BY <1>1 DEF SlotsBehind
  <2>4. slot \in Slots(export[r]) /\ slot[1] = row[r] /\ slot[2] = entry[r]
    BY <1>1, <1>3, SlotIn
  <2>5. ASSUME NEW s \in Slots(export[r])
        PROVE  /\ s[1] \in Nat /\ s[2] \in Nat
               /\ s[1] = row[r] /\ s[2] = entry[r] => s = slot
    BY <1>3, SlotIn
  <2> HIDE DEF slot, S
  <2>6. ASSUME NEW s \in Slots(export[r])
        PROVE  s[1] < row[r] \/ (s[1] = row[r] /\ s[2] < entry[r] + 1)
               <=> (s[1] < row[r] \/ (s[1] = row[r] /\ s[2] < entry[r])) \/ s = slot
    BY <1>3, <2>4, <2>5
  <2>7. QED
    BY <1>3, <2>2, <2>3, <2>4, <2>6
<1>8. IsFiniteSet(S) /\ Cardinality(S) \in Nat /\ Cardinality(SlotsBehind(r)') = Cardinality(S) + 1
  <2>1. IsFiniteSet(S)
    <3>1. S \subseteq Slots(export[r])
      BY DEF SlotsBehind
    <3>2. QED
      BY <1>3, <3>1, SlotsFinite, FS_Subset
  <2> HIDE DEF S, slot
  <2>2. QED
    BY <1>7, <2>1, FS_AddElement, FS_CardinalityType
<1>9. Fresh(r)' = Fresh(r)
  BY <1>1, <1>4 DEF Fresh
<1>10. /\ sum'[r].tickets_new = sum[r].tickets_new
       /\ sum'[r].tickets_updated = sum[r].tickets_updated
       /\ IF isNew
          THEN sum'[r].events_new = sum[r].events_new + 1
               /\ sum'[r].events_skipped = sum[r].events_skipped
          ELSE sum'[r].events_new = sum[r].events_new
               /\ sum'[r].events_skipped = sum[r].events_skipped + 1
  <2>1. sum' = IF isNew THEN [sum EXCEPT ![r] = [sum[r] EXCEPT !.events_new = @ + 1]]
                        ELSE [sum EXCEPT ![r] = [sum[r] EXCEPT !.events_skipped = @ + 1]]
    BY DEF InsertEvent
  <2>2. sum[r] \in Summary
    OBVIOUS
  <2>3. QED
    BY <2>1, <2>2 DEF Summary
<1>11. /\ sum[r].events_new \in Nat /\ sum[r].events_skipped \in Nat
       /\ sum[r].events_new = Cardinality(E)
       /\ sum[r].events_new + sum[r].events_skipped = Cardinality(S)
       /\ sum[r].tickets_new + sum[r].tickets_updated = row[r]
  BY <1>1, <1>2 DEF CountsLoop, Summary
<1> HIDE DEF isNew, n0, e0, v0, E, S, slot
<1>12. /\ sum'[r].events_new = Cardinality(tx'[r].ticket_events)
       /\ sum'[r].events_new + sum'[r].events_skipped = Cardinality(SlotsBehind(r)')
       /\ sum'[r].tickets_new + sum'[r].tickets_updated
            = IF phase'[r] = "event" THEN row'[r] ELSE row'[r] - 1
  BY <1>6, <1>7, <1>8, <1>10, <1>11
<1>13. QED
  BY <1>2, <1>6, <1>9, <1>10, <1>12 DEF CountsLoop

\* A run whose COMMIT is on its way is the source of nothing yet.
LEMMA NothingSourced ==
    ASSUME IInv, Provenance, NEW r \in Run, phase[r] \in Committing
    PROVE  SourcedBy(r) = {} /\ r \notin Importers
<1>1. r \notin Importers
  BY DEF IInv, ImportIds, Importers, Committing
<1>2. \A v \in db.ticket_events : v.source \in Importers
  BY DEF Provenance, Catalog!Provenance, Importers
<1>3. QED
  BY <1>1, <1>2 DEF SourcedBy

\* The COMMIT makes of what the loops counted what is counted in the tables.
LEMMA CommitCount ==
    ASSUME IInv, CountsOK, Provenance, NEW r \in Run, ServerCommit(r)
    PROVE  IF sum'[r].short THEN CountsShort(r)' /\ (r \notin Importers)'
                            ELSE CountsDone(r)' /\ (r \in Importers)'
<1> USE DEF IInv, TypeOK
<1>1. /\ phase[r] = "commit" /\ phase[r] \in Committing /\ Publish(r)
      /\ export' = export /\ sum' = sum
  BY DEF ServerCommit, Committing
<1>2. SourcedBy(r) = {} /\ r \notin Importers
  BY <1>1, NothingSourced
<1>3. CASE sum[r].short
  <2>1. CountsShort(r) /\ db' = db
    BY <1>1, <1>3, PublishShape DEF CountsOK, Counts
  <2>2. CountsShort(r)'
    BY <1>1, <2>1 DEF CountsShort
  <2>3. QED
    BY <1>1, <1>2, <1>3, <2>1, <2>2 DEF Importers
<1>4. CASE ~sum[r].short
  <2>1. /\ Writing(r)
        /\ db'.imports = db.imports \cup {[hash |-> export[r], id |-> r]}
        /\ db'.ticket_events = db.ticket_events \cup tx[r].ticket_events
        /\ \A v \in tx[r].ticket_events : v.source = r
    BY <1>1, <1>4, PublishShape
  <2>2. CountsLoop(r)
    BY <2>1 DEF CountsOK, Counts
  <2>3. SourcedBy(r)' = tx[r].ticket_events
    BY <1>2, <2>1 DEF SourcedBy
  <2>4. r \in Importers'
    <3>1. [hash |-> export[r], id |-> r] \in db'.imports
      BY <2>1
    <3>2. QED
      BY <3>1 DEF Importers
  <2>5. export[r] \in Export /\ row[r] = Len(Rows[export[r]]) + 1
    BY <1>1, <1>4 DEF PlaceOK, Place
  <2>6. /\ sum[r].tickets_new + sum[r].tickets_updated = row[r] - 1
        /\ Len(Rows[export[r]]) \in Nat /\ DOMAIN Rows[export[r]] = 1 .. Len(Rows[export[r]])
    BY <1>1, <2>2, <2>5, RowsAssumption DEF CountsLoop
  <2>7. SlotsBehind(r) = Slots(export[r])
    <3>1. \A s \in Slots(export[r]) : s[1] < row[r]
      BY <2>5, <2>6, SlotIn
    <3>2. QED
      BY <3>1 DEF SlotsBehind
  <2>8. /\ sum'[r].tickets_new + sum'[r].tickets_updated = Len(Rows[export'[r]])
        /\ sum'[r].events_new + sum'[r].events_skipped = TotalEvents(export'[r])
    BY <1>1, <2>2, <2>5, <2>6, <2>7 DEF CountsLoop, TotalEvents
  <2>9. CountsDone(r)'
    BY <1>1, <2>2, <2>3, <2>8 DEF CountsDone, CountsLoop
  <2>10. QED
    BY <1>1, <1>4, <2>4, <2>9
<1>5. QED
  BY <1>3, <1>4

LEMMA OwnCount ==
    ASSUME IInv, CountsOK, Provenance, NEW r \in Run, Step(r)
    PROVE  Counts(r)'
<1> USE DEF IInv, TypeOK, GoTo
<1>0. Counts(r)
  BY DEF CountsOK
<1>1. CASE \/ InsertImport(r) \/ UpsertClient(r) \/ UpsertBusinessService(r)
           \/ UpsertTicket(r) \/ InsertEvent(r)
  <2>1. Writing(r)' /\ ~sum'[r].short
    BY <1>1, LoopStaysWriting
  <2>2. phase'[r] \notin {"idle", "import", "lookup", "committed", "ok"}
    BY <2>1 DEF Writing, Looping, Committing
  <2>3. CountsLoop(r)'
    BY <1>1, InsertImportCount, UpsertOneCount, UpsertTicketCount, InsertEventCount
  <2>4. QED
    BY <2>1, <2>2, <2>3 DEF Counts, Done
<1>2. CASE \E x \in Export : Start(r, x)
  <2>1. phase'[r] = "import" /\ sum' = sum /\ phase[r] = "idle"
    BY <1>2 DEF Start
  <2>2. QED
    BY <1>0, <2>1 DEF Counts, Writing, Looping, Committing, Done
<1>3. CASE FindImport(r)
  <2>1. phase'[r] = "lookup" /\ sum' = sum /\ phase[r] = "import"
    BY <1>3 DEF FindImport, Executes
  <2>2. QED
    BY <1>0, <2>1 DEF Counts, Writing, Looping, Committing, Done
<1>4. CASE Reject(r) \/ EndInError(r)
  <2>1. phase'[r] = "failed"
    BY <1>4 DEF Reject, EndInError
  <2>2. QED
    BY <2>1 DEF Counts, Writing, Looping, Committing, Done
<1>5. CASE LookupImport(r)
  <2>1. sum[r] = NoSummary
    BY <1>0, <1>5 DEF LookupImport, Executes, Counts
  <2>2. sum'[r] = [NoSummary EXCEPT !.events_skipped = TotalEvents(export[r]), !.short = TRUE]
    BY <1>5, <2>1 DEF LookupImport
  <2>3. phase'[r] = "commit" /\ export' = export
    BY <1>5 DEF LookupImport
  <2>4. CountsShort(r)' /\ sum'[r].short
    BY <2>2, <2>3 DEF CountsShort, NoSummary
  <2>5. QED
    BY <2>3, <2>4 DEF Counts, Writing, Looping, Committing, Done
<1>6. CASE ServerCommit(r)
  <2>1. phase'[r] = "committed"
    BY <1>6 DEF ServerCommit
  <2>2. QED
    BY <1>6, <2>1, CommitCount DEF Counts, Writing, Looping, Committing
<1>7. CASE Ack(r)
  <2>1. /\ phase[r] = "committed" /\ phase'[r] = "ok"
        /\ db' = db /\ sum' = sum /\ export' = export
    BY <1>7 DEF Ack
  <2>2. r \in Done
    BY <2>1 DEF Done
  <2>3. /\ CountsShort(r)' <=> CountsShort(r)
        /\ CountsDone(r)' <=> CountsDone(r)
        /\ (r \in Importers)' <=> r \in Importers
    BY <2>1 DEF CountsShort, CountsDone, SourcedBy, Importers
  <2>4. IF sum'[r].short THEN CountsShort(r)' /\ (r \notin Importers)'
                         ELSE CountsDone(r)' /\ (r \in Importers)'
    BY <1>0, <2>1, <2>2, <2>3 DEF Counts
  <2>5. QED
    BY <2>1, <2>4 DEF Counts, Writing, Looping, Committing
<1>8. CASE LoseClient(r)
  <2>1. /\ UNCHANGED <<db, export, row, entry, tx, sum>>
        /\ \/ phase'[r] = "orphan"
           \/ phase[r] = "commit" /\ phase'[r] = "orphan_commit"
    BY <1>8 DEF LoseClient
  <2>2. CASE phase'[r] = "orphan"
    BY <2>2 DEF Counts, Writing, Looping, Committing, Done
  <2>3. CASE phase[r] = "commit" /\ phase'[r] = "orphan_commit"
    <3>1. Fresh(r)' = Fresh(r) /\ SlotsBehind(r)' = SlotsBehind(r)
      BY <2>1, <2>3 DEF Fresh, SlotsBehind
    <3>2. /\ CountsLoop(r) => CountsLoop(r)'
          /\ CountsShort(r) => CountsShort(r)'
      BY <2>1, <2>3, <3>1 DEF CountsLoop, CountsShort
    <3>3. Writing(r)' => Writing(r)
      BY <2>1, <2>3 DEF Writing, Looping, Committing
    <3>4. phase[r] \in Committing /\ sum'[r].short = sum[r].short
      BY <2>1, <2>3 DEF Committing
    <3>5. phase'[r] \notin {"idle", "import", "lookup", "committed", "ok"}
      BY <2>3
    <3>6. QED
      BY <1>0, <3>2, <3>3, <3>4, <3>5 DEF Counts, Done
  <2>4. QED
    BY <2>1, <2>2, <2>3
<1>9. QED
  BY <1>1, <1>2, <1>3, <1>4, <1>5, <1>6, <1>7, <1>8
     DEF Step, Proceed, AckLost, StatementFails, DeadlockAbort, BackendRollback, BackendCommit

LEMMA CountsStep ==
    ASSUME IInv, CountsOK, Provenance, NEW r \in Run, Step(r)
    PROVE  CountsOK'
<1>1. ASSUME NEW q \in Run PROVE Counts(q)'
  BY OwnCount, OthersCount
<1>2. QED
  BY <1>1 DEF CountsOK

-----------------------------------------------------------------------------
(* Tickets over all runs. *)

LEMMA PileOf ==
    ASSUME NEW r, NEW n \in Nat
    PROVE  IsFiniteSet({r} \X (1 .. n)) /\ Cardinality({r} \X (1 .. n)) = n
<1> DEFINE S == {r}
           T == 1 .. n
<1>1. IsFiniteSet(T) /\ Cardinality(T) = n
  <2>1. Cardinality(T) = IF 1 > n THEN 0 ELSE n - 1 + 1
    BY FS_Interval
  <2>2. (IF 1 > n THEN 0 ELSE n - 1 + 1) = n
    OBVIOUS
  <2>3. QED
    BY <2>1, <2>2, FS_Interval
<1>2. IsFiniteSet(S) /\ Cardinality(S) = 1
  BY FS_Singleton
<1> HIDE DEF S, T
<1>3. IsFiniteSet(S \X T) /\ Cardinality(S \X T) = Cardinality(S) * Cardinality(T)
  BY <1>1, <1>2, FS_Product
<1>4. Cardinality(S \X T) = n
  BY <1>1, <1>2, <1>3
<1>5. QED
  BY <1>3, <1>4 DEF S, T

\* One run more adds what it has reported.
LEMMA CountOneMore ==
    ASSUME NEW R, NEW r, r \notin R, sum[r].tickets_new \in Nat, IsFiniteSet(Counted(R))
    PROVE  /\ IsFiniteSet(Counted(R \cup {r}))
           /\ Cardinality(Counted(R \cup {r})) = Cardinality(Counted(R)) + sum[r].tickets_new
<1> DEFINE n == sum[r].tickets_new
           A == Counted(R)
           B == {r} \X (1 .. n)
<1>1. Counted(R \cup {r}) = A \cup B
  BY DEF Counted
<1>2. A \cap B = {}
  BY DEF Counted
<1>3. n \in Nat /\ IsFiniteSet(A)
  OBVIOUS
<1> HIDE DEF n, A
<1>4. IsFiniteSet(B) /\ Cardinality(B) = n
  BY <1>3, PileOf
<1> HIDE DEF B
<1>5. /\ IsFiniteSet(A \cup B)
      /\ Cardinality(A \cup B) = Cardinality(A) + Cardinality(B) - Cardinality(A \cap B)
  BY <1>3, <1>4, FS_Union
<1>6. Cardinality(A) \in Nat /\ Cardinality(A \cap B) = 0
  BY <1>2, <1>3, FS_CardinalityType, FS_EmptySet
<1>7. Cardinality(A \cup B) = Cardinality(A) + n
  BY <1>3, <1>4, <1>5, <1>6
<1>8. QED
  BY <1>1, <1>5, <1>7 DEF A, n

\* A smaller set of runs counts no more, and as much if the others count nothing.
LEMMA CountFewer ==
    ASSUME NEW R, NEW Q \in SUBSET R, IsFiniteSet(Counted(R))
    PROVE  /\ IsFiniteSet(Counted(Q))
           /\ Cardinality(Counted(Q)) <= Cardinality(Counted(R))
           /\ (\A r \in R \ Q : sum[r].tickets_new = 0) => Counted(Q) = Counted(R)
<1>1. Counted(Q) \subseteq Counted(R)
  BY DEF Counted
<1>2. ASSUME \A r \in R \ Q : sum[r].tickets_new = 0 PROVE Counted(Q) = Counted(R)
  <2>1. \A r \in R \ Q : 1 .. sum[r].tickets_new = {}
    BY <1>2
  <2>2. Counted(R) \subseteq Counted(Q)
    BY <2>1 DEF Counted
  <2>3. QED
    BY <1>1, <2>2
<1>3. QED
  BY <1>1, <1>2, FS_Subset

\* A COMMIT adds the tickets that were fresh to those there are.
LEMMA CommitStores ==
    ASSUME IInv, CountsOK, IsFiniteSet(Stored), NEW r \in Run,
           Publish(r), phase[r] \in Committing, ~sum[r].short
    PROVE  /\ IsFiniteSet(Stored')
           /\ Cardinality(Stored') = Cardinality(Stored) + sum[r].tickets_new
           /\ Cardinality(Stored) \in Nat /\ sum[r].tickets_new \in Nat
           /\ Importers' = Importers \cup {r}
<1> USE DEF IInv, TypeOK
<1>1. /\ Writing(r)
      /\ db'.imports = db.imports \cup {[hash |-> export[r], id |-> r]}
      /\ \A n \in Ticket : db'.tickets[n] = IF tx[r].tickets[n] # Absent
                                            THEN tx[r].tickets[n] ELSE db.tickets[n]
  BY PublishShape
<1>2. IsFiniteSet(Fresh(r)) /\ sum[r].tickets_new = Cardinality(Fresh(r))
  BY <1>1 DEF CountsOK, Counts, CountsLoop
<1>3. Stored' = Stored \cup Fresh(r) /\ Stored \cap Fresh(r) = {}
  BY <1>1 DEF Stored, Fresh
<1>4. /\ IsFiniteSet(Stored')
      /\ Cardinality(Stored') = Cardinality(Stored) + Cardinality(Fresh(r)) - Cardinality(Stored \cap Fresh(r))
  BY <1>2, <1>3, FS_Union
<1>5. /\ Cardinality(Stored) \in Nat /\ Cardinality(Fresh(r)) \in Nat
      /\ Cardinality(Stored \cap Fresh(r)) = 0
  BY <1>2, <1>3, FS_CardinalityType, FS_EmptySet
<1>6. Importers' = Importers \cup {r}
  <2> DEFINE i == [hash |-> export[r], id |-> r]
  <2>1. i.id = r
    OBVIOUS
  <2> HIDE DEF i
  <2>2. {v.id : v \in db.imports \cup {i}} = {v.id : v \in db.imports} \cup {r}
    BY <2>1
  <2>3. db'.imports = db.imports \cup {i}
    BY <1>1 DEF i
  <2>4. QED
    BY <2>2, <2>3 DEF Importers
<1>7. QED
  BY <1>2, <1>4, <1>5, <1>6

LEMMA TicketsCountedStep ==
    ASSUME IInv, CountsOK, TicketsCounted, CountsOK', NEW r \in Run, Step(r)
    PROVE  TicketsCounted'
<1> USE DEF IInv, TypeOK, GoTo
<1> DEFINE D == Done  C == Counted(D)
<1>1. /\ IsFiniteSet(Stored) /\ IsFiniteSet(C)
      /\ Cardinality(Stored) \in Nat /\ Cardinality(C) \in Nat
      /\ Cardinality(C) <= Cardinality(Stored)
      /\ Importers \subseteq D => Cardinality(C) = Cardinality(Stored)
  BY FS_CardinalityType DEF TicketsCounted
<1>2. \A q \in Run : q # r => /\ sum'[q] = sum[q] /\ (q \in Done' <=> q \in D)
  BY OthersStay DEF Done
<1>3. D \in SUBSET Run /\ Done' \in SUBSET Run
  BY DEF Done
\* r neither commits nor leaves: as before.
<1>4. CASE db' = db /\ (r \in Done' <=> r \in D) /\ (r \in D => sum'[r] = sum[r])
  <2>1. Done' = D
    <3>1. \A q \in Run : q \in Done' <=> q \in D
      BY <1>2, <1>4
    <3> HIDE DEF D
    <3>2. QED
      BY <1>3, <3>1
  <2>2. \A q \in D : sum'[q] = sum[q]
    BY <1>2, <1>3, <1>4
  <2>3. Counted(Done)' = C
    BY <2>1, <2>2 DEF Counted
  <2>4. Stored' = Stored /\ Importers' = Importers
    BY <1>4 DEF Stored, Importers
  <2>5. QED
    BY <1>1, <2>1, <2>3, <2>4 DEF TicketsCounted
\* r enters Done: its fresh tickets are stored and counted, or it has none.
<1>5. CASE ServerCommit(r)
  <2>1. /\ phase[r] = "commit" /\ phase[r] \in Committing /\ Publish(r) /\ sum' = sum
        /\ phase'[r] = "committed" /\ r \notin D
    BY <1>5 DEF ServerCommit, Committing, Done
  <2>2. Done' = D \cup {r}
    <3>1. r \in Done'
      BY <2>1 DEF Done
    <3>2. QED
      BY <1>2, <1>3, <3>1
  <2>3. Counted(Done)' = Counted(D \cup {r})
    BY <2>1, <2>2 DEF Counted
  <2>4. /\ sum[r].tickets_new \in Nat
        /\ IsFiniteSet(Counted(D \cup {r}))
        /\ Cardinality(Counted(D \cup {r})) = Cardinality(C) + sum[r].tickets_new
    <3>1. sum[r].tickets_new \in Nat
      BY DEF Summary
    <3> HIDE DEF D
    <3>2. QED
      BY <1>1, <2>1, <3>1, CountOneMore
  <2>5. CASE sum[r].short
    <3>1. db' = db /\ sum[r].tickets_new = 0
      BY <2>1, <2>5, PublishShape DEF CountsOK, Counts, CountsShort
    <3>2. Stored' = Stored /\ Importers' = Importers
      BY <3>1 DEF Stored, Importers
    <3>3. r \notin Importers
      BY <2>1 DEF ImportIds, Importers
    <3>4. Cardinality(Counted(Done)') = Cardinality(C)
      BY <1>1, <2>3, <2>4, <3>1
    <3>5. Importers' \subseteq Done' => Importers \subseteq D
      BY <2>2, <3>2, <3>3
    <3> HIDE DEF D, C
    <3>6. QED
      BY <1>1, <2>3, <2>4, <3>2, <3>4, <3>5 DEF TicketsCounted
  <2>6. CASE ~sum[r].short
    <3>1. /\ IsFiniteSet(Stored')
          /\ Cardinality(Stored') = Cardinality(Stored) + sum[r].tickets_new
          /\ Importers' = Importers \cup {r}
      BY <1>1, <2>1, <2>6, CommitStores
    <3>2. r \notin Importers
      BY <2>1 DEF ImportIds, Importers
    <3>3. Importers' \subseteq Done' => Importers \subseteq D
      BY <2>2, <3>1, <3>2
    <3> HIDE DEF D, C
    <3>4. Cardinality(Counted(Done)') = Cardinality(C) + sum[r].tickets_new
      BY <2>3, <2>4
    <3>5. /\ Cardinality(Counted(Done)') <= Cardinality(Stored')
          /\ Importers' \subseteq Done' => Cardinality(Counted(Done)') = Cardinality(Stored')
      BY <1>1, <2>4, <3>1, <3>3, <3>4
    <3>6. QED
      BY <2>3, <2>4, <3>1, <3>5 DEF TicketsCounted
  <2>7. QED
    BY <2>5, <2>6
\* r leaves Done, though it has committed: what it stored is counted no more.
<1>6. CASE AckLost(r)
  <2>1. /\ phase[r] = "committed" /\ phase'[r] = "failed" /\ db' = db /\ r \in D
    BY <1>6 DEF AckLost, EndInError, Done
  <2>2. Done' = D \ {r}
    <3>1. r \notin Done'
      BY <2>1 DEF Done
    <3>2. QED
      BY <1>2, <1>3, <3>1
  <2>3. Counted(Done)' = Counted(D \ {r})
    <3>1. \A q \in D \ {r} : sum'[q] = sum[q]
      BY <1>2, <1>3
    <3>2. QED
      BY <2>2, <3>1 DEF Counted
  <2>4. Stored' = Stored /\ Importers' = Importers
    BY <2>1 DEF Stored, Importers
  <2>5. /\ IsFiniteSet(Counted(D \ {r})) /\ Cardinality(Counted(D \ {r})) <= Cardinality(C)
        /\ sum[r].tickets_new = 0 => Counted(D \ {r}) = C
    <3>1. D \ {r} \in SUBSET D /\ D \ (D \ {r}) = {r}
      BY <2>1
    <3> HIDE DEF D
    <3>2. QED
      BY <1>1, <3>1, CountFewer
  <2>6. Importers' \subseteq Done' => Importers \subseteq D /\ sum[r].tickets_new = 0
    <3>1. r \notin Importers => sum[r].tickets_new = 0
      BY <2>1 DEF CountsOK, Counts, CountsShort
    <3>2. QED
      BY <2>2, <2>4, <3>1
  <2>7. Cardinality(Counted(D \ {r})) \in Nat
    BY <2>5, FS_CardinalityType
  <2> HIDE DEF D, C
  <2>8. QED
    BY <1>1, <2>3, <2>4, <2>5, <2>6, <2>7 DEF TicketsCounted
\* r commits after all, and nobody is told: its tickets are stored, not counted.
<1>7. CASE BackendCommit(r)
  <2>1. /\ phase[r] = "orphan_commit" /\ phase[r] \in Committing /\ Publish(r)
        /\ phase'[r] = "failed" /\ r \notin D /\ r \notin Done'
    BY <1>7 DEF BackendCommit, EndInError, Committing, Done
  <2>2. Done' = D
    <3>1. \A q \in Run : q \in Done' <=> q \in D
      BY <1>2, <2>1
    <3> HIDE DEF D
    <3>2. QED
      BY <1>3, <3>1
  <2>3. Counted(Done)' = C
    <3>1. \A q \in D : sum'[q] = sum[q]
      BY <1>2, <1>3, <2>1
    <3>2. QED
      BY <2>2, <3>1 DEF Counted
  <2>4. CASE sum[r].short
    <3>1. db' = db
      BY <2>1, <2>4, PublishShape
    <3>2. Stored' = Stored /\ Importers' = Importers
      BY <3>1 DEF Stored, Importers
    <3>3. QED
      BY <1>1, <2>2, <2>3, <3>2 DEF TicketsCounted
  <2>5. CASE ~sum[r].short
    <3>1. /\ IsFiniteSet(Stored')
          /\ Cardinality(Stored') = Cardinality(Stored) + sum[r].tickets_new
          /\ sum[r].tickets_new \in Nat
          /\ Importers' = Importers \cup {r}
      BY <1>1, <2>1, <2>5, CommitStores
    <3>2. ~(Importers' \subseteq Done')
      BY <2>1, <2>2, <3>1
    <3> HIDE DEF D, C
    <3>3. Cardinality(C) <= Cardinality(Stored')
      BY <1>1, <3>1
    <3>4. QED
      BY <1>1, <2>3, <3>1, <3>2, <3>3 DEF TicketsCounted
  <2>6. QED
    BY <2>4, <2>5
<1>8. QED
  <2>1. CASE \/ InsertImport(r) \/ UpsertClient(r) \/ UpsertBusinessService(r)
             \/ UpsertTicket(r) \/ InsertEvent(r)
    <3>1. Writing(r)' /\ phase[r] \in InTransaction /\ db' = db
      BY <2>1, LoopStaysWriting DEF InsertImport, UpsertClient, UpsertBusinessService, UpsertTicket,
         InsertEvent, Executes, InTransaction
    <3>2. r \notin D /\ r \notin Done'
      BY <3>1 DEF Done, Writing, Looping, Committing, InTransaction
    <3>3. QED
      BY <1>4, <3>1, <3>2
  <2>2. CASE (\E x \in Export : Start(r, x)) \/ Reject(r) \/ FindImport(r) \/ LookupImport(r)
             \/ LoseClient(r)
    <3>1. /\ db' = db /\ phase[r] \in InTransaction \cup {"idle"}
          /\ phase'[r] \in {"import", "failed", "lookup", "commit", "orphan", "orphan_commit"}
      BY <2>2 DEF Start, Reject, FindImport, LookupImport, LoseClient, Executes, InTransaction
    <3>2. r \notin D /\ r \notin Done'
      BY <3>1 DEF Done, InTransaction
    <3>3. QED
      BY <1>4, <3>1, <3>2
  <2>3. CASE Ack(r)
    <3>1. /\ db' = db /\ phase[r] = "committed" /\ phase'[r] = "ok" /\ sum' = sum
      BY <2>3 DEF Ack
    <3>2. r \in D /\ r \in Done'
      BY <3>1 DEF Done
    <3>3. QED
      BY <1>4, <3>1, <3>2
  <2>4. CASE Discard(r) /\ EndInError(r) /\ phase[r] \in InTransaction \cup {"orphan", "orphan_commit"}
    <3>1. db' = db /\ phase'[r] = "failed"
      BY <2>4 DEF Discard, EndInError
    <3>2. r \notin D /\ r \notin Done'
      BY <2>4, <3>1 DEF Done, InTransaction
    <3>3. QED
      BY <1>4, <3>1, <3>2
  <2>5. CASE DeadlockAbort(r)
    <3>1. PICK q \in Run : WaitsFor(r, q)
      BY <2>5 DEF DeadlockAbort
    <3>2. phase[r] \in InTransaction
      BY <3>1 DEF WaitsFor, InTransaction
    <3>3. QED
      BY <2>4, <2>5, <3>2 DEF DeadlockAbort
  <2>6. QED
    BY <1>5, <1>6, <1>7, <2>1, <2>2, <2>3, <2>4, <2>5
       DEF Step, Proceed, StatementFails, BackendRollback

LEMMA AccountsInit == Init => Accounts
<1> SUFFICES ASSUME Init PROVE CountsOK /\ TicketsCounted
  BY DEF Accounts
<1>1. CountsOK
  BY DEF Init, CountsOK, Counts, Writing, Looping, Committing, Done
<1>2. Done = {} /\ Stored = {} /\ Counted(Done) = {}
  BY DEF Init, Done, Stored, Counted, Empty
<1>3. QED
  BY <1>1, <1>2, FS_EmptySet DEF TicketsCounted

LEMMA AccountsStep == IInv /\ Provenance /\ Accounts /\ [Next]_vars => Accounts'
<1> SUFFICES ASSUME IInv, Provenance, CountsOK, TicketsCounted, [Next]_vars
             PROVE  CountsOK' /\ TicketsCounted'
  BY DEF Accounts
<1>1. ASSUME NEW r \in Run, Step(r) PROVE CountsOK' /\ TicketsCounted'
  BY <1>1, CountsStep, TicketsCountedStep
<1>2. CASE UNCHANGED vars
  <2>1. Done' = Done /\ Stored' = Stored /\ Importers' = Importers /\ Counted(Done)' = Counted(Done)
    BY <1>2 DEF vars, Done, Stored, Importers, Counted
  <2>2. ASSUME NEW r \in Run PROVE Counts(r)'
    <3>1. /\ Writing(r)' <=> Writing(r)
          /\ CountsLoop(r)' <=> CountsLoop(r)
          /\ CountsShort(r)' <=> CountsShort(r)
          /\ CountsDone(r)' <=> CountsDone(r)
      BY <1>2 DEF vars, Writing, CountsLoop, CountsShort, CountsDone, Fresh, SlotsBehind, SourcedBy
    <3>2. Counts(r) /\ phase' = phase /\ sum' = sum
      BY <1>2 DEF CountsOK, vars
    <3>3. QED
      BY <2>1, <3>1, <3>2 DEF Counts
  <2>3. QED
    BY <2>1, <2>2 DEF CountsOK, TicketsCounted
<1>3. QED
  BY <1>1, <1>2 DEF Next

\* At every moment every run's counters agree with what it has written, or has
\* left in the tables.
THEOREM AccountsKept == Spec => []Accounts
<1>1. QED
  BY AccountsInit, AccountsStep, Invariant, EverythingTraceable, PTL DEF Spec

\* The Summary a successful run prints accounts for its file, whatever the runs
\* beside it stored, updated or locked meanwhile.
THEOREM SummariesAccount == Spec => []SummaryAccounts
<1>1. IInv /\ Provenance /\ Accounts => SummaryAccounts
  <2> SUFFICES ASSUME IInv, Provenance, Accounts, NEW r \in Run, phase[r] = "ok"
               PROVE  LET x == export[r]
                          s == sum[r]
                      IN  /\ s.events_new + s.events_skipped = TotalEvents(x)
                          /\ s.events_new = Cardinality({v \in db.ticket_events : v.source = r})
                          /\ s.tickets_new + s.tickets_updated = IF s.short THEN 0 ELSE Len(Rows[x])
                          /\ s.short <=> r \notin Importers
    BY DEF SummaryAccounts
  <2>1. IF sum[r].short THEN CountsShort(r) /\ r \notin Importers
                        ELSE CountsDone(r) /\ r \in Importers
    BY DEF Accounts, CountsOK, Counts, Done
  <2>2. export[r] \in Export
    BY DEF IInv, PlaceOK, Place
  <2>3. TotalEvents(export[r]) \in Nat
    BY <2>2, TotalEventsType
  <2>4. CASE sum[r].short
    <3>1. SourcedBy(r) = {}
      <4>1. \A v \in db.ticket_events : v.source \in Importers
        BY DEF Provenance, Catalog!Provenance, Importers
      <4>2. QED
        BY <2>1, <2>4, <4>1 DEF SourcedBy
    <3>2. Cardinality({v \in db.ticket_events : v.source = r}) = 0
      BY <3>1, FS_EmptySet DEF SourcedBy
    <3>3. QED
      BY <2>1, <2>3, <2>4, <3>2 DEF CountsShort
  <2>5. CASE ~sum[r].short
    BY <2>1, <2>5 DEF CountsDone, SourcedBy
  <2>6. QED
    BY <2>4, <2>5
<1>2. QED
  BY <1>1, Invariant, EverythingTraceable, AccountsKept, PTL

\* No ticket is reported new twice, however runs race for it, and none goes
\* unreported unless a run committed without learning of it.
THEOREM NoTicketCountedTwice == Spec => []TicketsCountedOnce
<1>1. Accounts => TicketsCountedOnce
  <2> SUFFICES ASSUME Accounts PROVE TicketsCountedOnce
    OBVIOUS
  <2> DEFINE Good == {r \in Run : phase[r] = "ok"}
  <2>1. /\ IsFiniteSet(Stored) /\ IsFiniteSet(Counted(Done))
        /\ Cardinality(Stored) \in Nat /\ Cardinality(Counted(Done)) \in Nat
        /\ Cardinality(Counted(Done)) <= Cardinality(Stored)
        /\ Importers \subseteq Done => Cardinality(Counted(Done)) = Cardinality(Stored)
    BY FS_CardinalityType DEF Accounts, TicketsCounted
  <2>2. Good \in SUBSET Done
    BY DEF Done
  <2>3. Importers \subseteq Good => \A r \in Done \ Good : sum[r].tickets_new = 0
    <3> SUFFICES ASSUME Importers \subseteq Good, NEW r \in Done \ Good
                 PROVE  sum[r].tickets_new = 0
      OBVIOUS
    <3>1. r \notin Importers /\ r \in Run /\ r \in Done
      BY DEF Done
    <3>2. CountsShort(r)
      BY <3>1 DEF Accounts, CountsOK, Counts
    <3>3. QED
      BY <3>2 DEF CountsShort
  <2> HIDE DEF Good
  <2>4. /\ IsFiniteSet(Counted(Good))
        /\ Cardinality(Counted(Good)) <= Cardinality(Counted(Done))
        /\ (\A r \in Done \ Good : sum[r].tickets_new = 0) => Counted(Good) = Counted(Done)
    BY <2>1, <2>2, CountFewer
  <2>5. Cardinality(Counted(Good)) \in Nat
    BY <2>4, FS_CardinalityType
  <2>6. Cardinality(Counted(Good)) <= Cardinality(Stored)
    BY <2>1, <2>4, <2>5
  <2>7. Importers \subseteq Good => Cardinality(Counted(Good)) = Cardinality(Stored)
    BY <2>1, <2>2, <2>3, <2>4
  <2>8. QED
    BY <2>6, <2>7 DEF TicketsCountedOnce, Good
<1>2. QED
  BY <1>1, AccountsKept, PTL
=============================================================================
