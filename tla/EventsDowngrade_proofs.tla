----------------------- MODULE EventsDowngrade_proofs -----------------------
(***************************************************************************)
(* For any exports, runs and downgrades: the unique key holds, the first   *)
(* body of a triple stays, and nothing but a downgrade loses an entry.     *)
(***************************************************************************)
EXTENDS EventsDowngrade, WellFoundedInduction, TLAPS

\* A run that holds locks on tickets: it is past its imports row.
Past(r) == phase[r] \in {"ticket", "event", "commit"}

\* Its loops have passed entry j of record k.
Passed(r, k, j) == k < row[r] \/ (k = row[r] /\ phase[r] = "event" /\ j < entry[r])

\* An entry is stored, or a downgrade has removed it.
Kept(e) == e \in removed \/ \E v \in rows : v.entry = e

\* Entry j of record k is stored, or in the run's own transaction, or removed.
Has(r, k, j) ==
    LET e == Rows[export[r]][k].journal[j]
    IN  Kept(e) \/ \E v \in tx[r] : v.entry = e

\* The loops of every run are where there is something to do, and no two runs
\* have locked one ticket.
LoopsOK ==
    /\ phase \in [Run -> Phases]
    /\ export \in [Run -> Export \cup {None}]
    /\ row \in [Run -> Nat]
    /\ entry \in [Run -> Nat]
    /\ \A r \in Run : phase[r] # "idle" => export[r] \in Export
    /\ \A r \in Run : phase[r] \in {"ticket", "event"} => row[r] \in DOMAIN Rows[export[r]]
    /\ \A r \in Run : phase[r] = "event" => entry[r] \in DOMAIN Record(r).journal
    /\ \A r \in Run : phase[r] = "commit" => \A k \in DOMAIN Rows[export[r]] : k < row[r]
    /\ \A r, q \in Run : r # q /\ Past(r) /\ Past(q) => Locked(r) \cap Locked(q) = {}

\* What open transactions have inserted is new, belongs to tickets they have
\* locked, and comes after the committed rows of these tickets.
DataOK ==
    /\ serial \in Nat
    /\ rows \subseteq [id : 1 .. serial, entry : Entry]
    /\ tx \in [Run -> SUBSET [id : 1 .. serial, entry : Entry]]
    /\ \A v, w \in rows : v.entry = w.entry => v = w
    /\ \A r \in Run : \A v \in tx[r] :
          /\ Past(r) /\ v.entry.num \in Locked(r)
          /\ \A w \in tx[r] : v.entry = w.entry => v = w
          /\ \A w \in rows : v.entry # w.entry /\ (v.entry.num = w.entry.num => w.id < v.id)

\* Every entry that loops have passed is there.
PassedOf(r) ==
    Past(r) =>
        \A k \in DOMAIN Rows[export[r]] : \A j \in DOMAIN Rows[export[r]][k].journal :
            Passed(r, k, j) => Has(r, k, j)

PassedOK == \A r \in Run : PassedOf(r)

\* The downgrade deletes only rows that a lower id of their triple outlives, and
\* commits only what has no conflict, with no transaction beside it.
MigrationOK ==
    /\ key \in {"idem", "triple"}
    /\ mig \in {"idle", "deleted", "altering", "altered"}
    /\ touched \subseteq Run
    /\ downs \in 0 .. MaxDowns
    /\ removed \subseteq Entry
    /\ imports \subseteq Export
    /\ deleting \subseteq rows
    /\ \A r \in Run : tx[r] # {} => r \in touched
    /\ key = "triple" =>
          /\ \A r \in Run : tx[r] = {}
          /\ \A v, w \in rows : v # w => Triple(v.entry) # Triple(w.entry)
    /\ mig = "altered" => touched = {} /\ ~Conflict
    /\ \A v \in deleting : \E w \in rows : Triple(w.entry) = Triple(v.entry) /\ w.id < v.id

\* first is what its name says, and stands at the lowest id of its triple.
FirstOK ==
    /\ first \in [Triples -> Entry \cup {None}]
    /\ \A t \in Triples : first[t] # None => Triple(first[t]) = t
    /\ \A t \in Triples : first[t] = None => \A w \in rows : Triple(w.entry) # t
    /\ FirstBodyKept

IInv == LoopsOK /\ DataOK /\ PassedOK /\ MigrationOK /\ FirstOK /\ OnlyDowngradesLose

-----------------------------------------------------------------------------
(* What the properties get from it. *)

LEMMA Types == IInv => TypeOK
  BY SMT DEF IInv, LoopsOK, DataOK, MigrationOK, FirstOK, TypeOK

LEMMA Keys == IInv => KeyHolds
  BY SMT DEF IInv, DataOK, MigrationOK, KeyHolds

LEMMA Initially == Init => IInv
<1> SUFFICES ASSUME Init PROVE IInv
  OBVIOUS
<1> USE DEF Init
<1>1. \A r \in Run : ~Past(r)
  BY SMT DEF Past
<1>2. LoopsOK
  BY <1>1, SMT DEF LoopsOK, Phases
<1>3. DataOK
  BY <1>1, SMT DEF DataOK
<1>4. PassedOK
  BY <1>1 DEF PassedOK, PassedOf
<1>5. MigrationOK
  BY MigrationAssumption, SMT DEF MigrationOK
<1>6. FirstOK
  BY SMT DEF FirstOK, FirstBodyKept
<1>7. OnlyDowngradesLose
  BY SMT DEF OnlyDowngradesLose
<1> QED BY <1>2, <1>3, <1>4, <1>5, <1>6, <1>7 DEF IInv

-----------------------------------------------------------------------------
(* The loops. *)

\* No loop but that of run r moves.
OnlyLoop(r) ==
    /\ phase' \in [Run -> Phases]
    /\ export' \in [Run -> Export \cup {None}]
    /\ row' \in [Run -> Nat]
    /\ entry' \in [Run -> Nat]
    /\ \A q \in Run \ {r} : /\ phase'[q] = phase[q] /\ export'[q] = export[q]
                            /\ row'[q] = row[q] /\ entry'[q] = entry[q]

LEMMA OthersStand ==
  ASSUME NEW r \in Run, OnlyLoop(r), NEW q \in Run, q # r
  PROVE  /\ phase'[q] = phase[q] /\ export'[q] = export[q] /\ row'[q] = row[q]
         /\ entry'[q] = entry[q] /\ Locked(q)' = Locked(q) /\ (Past(q)' <=> Past(q))
         /\ \A k, j : Passed(q, k, j)' <=> Passed(q, k, j)
<1>1. /\ phase'[q] = phase[q] /\ export'[q] = export[q] /\ row'[q] = row[q]
      /\ entry'[q] = entry[q]
  BY DEF OnlyLoop
<1> QED BY <1>1 DEF Locked, Past, Passed

\* The loops stay in order when that of r does, and r locks no ticket of others.
LEMMA LoopMoves ==
  ASSUME LoopsOK, NEW r \in Run, OnlyLoop(r),
         phase'[r] # "idle" => export'[r] \in Export,
         phase'[r] \in {"ticket", "event"} => row'[r] \in DOMAIN Rows[export'[r]],
         phase'[r] = "event" => entry'[r] \in DOMAIN Rows[export'[r]][row'[r]].journal,
         phase'[r] = "commit" => \A k \in DOMAIN Rows[export'[r]] : k < row'[r],
         Past(r)' => \A q \in Run \ {r} : Past(q) => Locked(r)' \cap Locked(q) = {}
  PROVE  LoopsOK'
<1>1. \A q \in Run \ {r} :
         /\ phase'[q] = phase[q] /\ export'[q] = export[q] /\ row'[q] = row[q]
         /\ entry'[q] = entry[q] /\ Locked(q)' = Locked(q) /\ (Past(q)' <=> Past(q))
  BY OthersStand
<1>2. \A p, q \in Run : p # q /\ Past(p)' /\ Past(q)' => Locked(p)' \cap Locked(q)' = {}
  <2> SUFFICES ASSUME NEW p \in Run, NEW q \in Run, p # q, Past(p)', Past(q)'
               PROVE  Locked(p)' \cap Locked(q)' = {}
    OBVIOUS
  <2>1. CASE p = r
    BY <1>1, <2>1
  <2>2. CASE q = r
    BY <1>1, <2>2
  <2>3. CASE p # r /\ q # r
    BY <1>1, <2>3 DEF LoopsOK
  <2> QED BY <2>1, <2>2, <2>3
<1>3. \A q \in Run : phase'[q] # "idle" => export'[q] \in Export
  BY <1>1 DEF LoopsOK
<1>4. \A q \in Run : phase'[q] \in {"ticket", "event"} => row'[q] \in DOMAIN Rows[export'[q]]
  BY <1>1 DEF LoopsOK
<1>5. \A q \in Run : phase'[q] = "event" => entry'[q] \in DOMAIN Record(q)'.journal
  BY <1>1 DEF LoopsOK, Record
<1>6. \A q \in Run : phase'[q] = "commit" => \A k \in DOMAIN Rows[export'[q]] : k < row'[q]
  BY <1>1 DEF LoopsOK
<1> QED BY <1>2, <1>3, <1>4, <1>5, <1>6 DEF LoopsOK, OnlyLoop

\* From a record, or an entry of it, to the next entry or the next record.
LEMMA Entering ==
  ASSUME LoopsOK, NEW r \in Run, NEW j \in Nat \ {0}, phase[r] \in {"ticket", "event"},
         ToEntry(r, j), UNCHANGED export,
         phase[r] = "ticket" => j = 1,
         phase[r] = "event" => j = entry[r] + 1
  PROVE  /\ LoopsOK' \/ \E q \in Run \ {r} : Past(q) /\ Record(r).num \in Locked(q)
         /\ OnlyLoop(r) /\ Past(r)'
         /\ Locked(r)' = Locked(r) \cup {Record(r).num}
         /\ \A k \in DOMAIN Rows[export[r]] : \A i \in DOMAIN Rows[export[r]][k].journal :
               Passed(r, k, i)' => \/ Passed(r, k, i)
                                   \/ phase[r] = "event" /\ k = row[r] /\ i = entry[r]
<1> DEFINE x == export[r]
           L == Len(Rows[x])
           k0 == row[r]
           journal == Rows[x][k0].journal
<1>0. /\ x \in Export /\ L \in Nat /\ DOMAIN Rows[x] = 1 .. L /\ k0 \in 1 .. L
      /\ Len(journal) \in Nat /\ DOMAIN journal = 1 .. Len(journal) /\ Record(r).journal = journal
      /\ phase \in [Run -> Phases] /\ row \in [Run -> Nat] /\ entry \in [Run -> Nat]
      /\ export \in [Run -> Export \cup {None}]
  BY RowsAssumption DEF LoopsOK, Record
<1> HIDE DEF L
<1>1. OnlyLoop(r)
  <2>1. CASE j \in DOMAIN journal
    <3>1. /\ entry' = [entry EXCEPT ![r] = j] /\ phase' = [phase EXCEPT ![r] = "event"]
          /\ row' = row /\ export' = export
      BY <1>0, <2>1 DEF ToEntry, GoTo
    <3> QED BY <1>0, <3>1, SMT DEF OnlyLoop, Phases, Open
  <2>2. CASE j \notin DOMAIN journal
    <3>1. /\ entry' = [entry EXCEPT ![r] = 0] /\ row' = [row EXCEPT ![r] = k0 + 1]
          /\ phase' = [phase EXCEPT ![r] = IF k0 + 1 \in DOMAIN Rows[x] THEN "ticket" ELSE "commit"]
          /\ export' = export
      BY <1>0, <2>2 DEF ToEntry, ToRecord, GoTo
    <3> QED BY <1>0, <3>1, SMT DEF OnlyLoop, Phases, Open
  <2> QED BY <2>1, <2>2
<1>2. \/ /\ j \in DOMAIN journal /\ phase'[r] = "event" /\ row'[r] = k0 /\ entry'[r] = j
      \/ /\ j \notin DOMAIN journal /\ row'[r] = k0 + 1 /\ phase'[r] = "ticket" /\ k0 + 1 \in 1 .. L
      \/ /\ j \notin DOMAIN journal /\ row'[r] = k0 + 1 /\ phase'[r] = "commit" /\ k0 + 1 \notin 1 .. L
  BY <1>0, SMT DEF ToEntry, ToRecord, GoTo
<1>3. Past(r)' /\ export'[r] = x
  BY <1>2 DEF Past
<1>4. Locked(r) = {Rows[x][k].num : k \in {i \in 1 .. L : i < k0 \/ (i = k0 /\ phase[r] = "event")}}
  BY <1>0 DEF Locked
<1>5. Locked(r)' = {Rows[x][k].num : k \in {i \in 1 .. L : i <= k0}}
  <2>1. {i \in 1 .. L : i < row'[r] \/ (i = row'[r] /\ phase'[r] = "event")} = {i \in 1 .. L : i <= k0}
    BY <1>0, <1>2, SMT
  <2>2. Locked(r)' = {Rows[x][k].num : k \in
            {i \in 1 .. L : i < row'[r] \/ (i = row'[r] /\ phase'[r] = "event")}}
    BY <1>0, <1>3 DEF Locked
  <2> QED BY <2>1, <2>2
<1>6. Locked(r)' = Locked(r) \cup {Record(r).num}
  <2>1. Record(r).num = Rows[x][k0].num
    BY DEF Record
  <2> QED BY <1>0, <1>4, <1>5, <2>1, SMT
<1>7. ASSUME NEW k \in DOMAIN Rows[x], NEW i \in DOMAIN Rows[x][k].journal, Passed(r, k, i)'
      PROVE  Passed(r, k, i) \/ (phase[r] = "event" /\ k = k0 /\ i = entry[r])
  <2>1. k < row'[r] \/ (k = row'[r] /\ phase'[r] = "event" /\ i < entry'[r])
    BY <1>7 DEF Passed
  <2>2. k \in 1 .. L
    BY <1>0
  <2>3. Len(Rows[x][k].journal) \in Nat /\ i \in 1 .. Len(Rows[x][k].journal)
    BY <1>0, RowsAssumption
  <2>4. phase[r] = "event" => entry[r] \in DOMAIN journal /\ j = entry[r] + 1
    BY <1>0 DEF LoopsOK
  <2>5. phase[r] = "ticket" => j = 1
    OBVIOUS
  <2> QED BY <1>0, <1>2, <2>1, <2>2, <2>3, <2>4, <2>5, SMT DEF Passed
<1>8. ASSUME \A q \in Run \ {r} : Past(q) => Record(r).num \notin Locked(q)
      PROVE  LoopsOK'
  <2>1. Past(r)' => \A q \in Run \ {r} : Past(q) => Locked(r)' \cap Locked(q) = {}
    <3> SUFFICES ASSUME NEW q \in Run \ {r}, Past(q) PROVE Locked(r)' \cap Locked(q) = {}
      OBVIOUS
    <3>1. CASE phase[r] = "event"
      <4>1. Past(r) /\ Locked(r) \cap Locked(q) = {}
        BY <3>1 DEF LoopsOK, Past
      <4> QED BY <1>6, <1>8, <4>1
    <3>2. CASE phase[r] = "ticket"
      <4>1. Past(r) /\ Locked(r) \cap Locked(q) = {}
        BY <3>2 DEF LoopsOK, Past
      <4> QED BY <1>6, <1>8, <4>1
    <3> QED BY <3>1, <3>2
  <2>2. phase'[r] # "idle" => export'[r] \in Export
    BY <1>0, <1>3
  <2>3. phase'[r] \in {"ticket", "event"} => row'[r] \in DOMAIN Rows[export'[r]]
    BY <1>0, <1>2, <1>3, SMT
  <2>4. phase'[r] = "event" => entry'[r] \in DOMAIN Rows[export'[r]][row'[r]].journal
    BY <1>0, <1>2, <1>3
  <2>5. phase'[r] = "commit" => \A k \in DOMAIN Rows[export'[r]] : k < row'[r]
    BY <1>0, <1>2, <1>3, SMT
  <2> QED BY <1>1, <2>1, <2>2, <2>3, <2>4, <2>5, LoopMoves
<1> QED BY <1>1, <1>3, <1>6, <1>7, <1>8

-----------------------------------------------------------------------------
(* Steps of a run. *)

LEMMA DataStays ==
  ASSUME DataOK, NEW r \in Run, OnlyLoop(r), UNCHANGED <<rows, tx, serial>>,
         tx[r] # {} => Past(r)' /\ Locked(r) \subseteq Locked(r)'
  PROVE  DataOK'
<1>1. \A q \in Run : \A v \in tx[q] : Past(q)' /\ v.entry.num \in Locked(q)'
  <2> SUFFICES ASSUME NEW q \in Run, NEW v \in tx[q]
               PROVE  Past(q)' /\ v.entry.num \in Locked(q)'
    OBVIOUS
  <2>1. Past(q) /\ v.entry.num \in Locked(q)
    BY DEF DataOK
  <2>2. CASE q = r
    BY <2>1, <2>2
  <2>3. CASE q # r
    BY <2>1, <2>3, OthersStand
  <2> QED BY <2>2, <2>3
<1> QED BY <1>1 DEF DataOK

\* What loops have passed is there, when it is for r and nothing is lost.
LEMMA PassedStays ==
  ASSUME PassedOK, NEW r \in Run, OnlyLoop(r), \A q \in Run \ {r} : tx'[q] = tx[q],
         \A e : Kept(e) => Kept(e)', PassedOf(r)'
  PROVE  PassedOK'
<1> SUFFICES ASSUME NEW q \in Run, q # r PROVE PassedOf(q)'
  BY DEF PassedOK
<1>1. export'[q] = export[q] /\ tx'[q] = tx[q] /\ (Past(q)' <=> Past(q))
  BY OthersStand
<1>2. \A k, j : Passed(q, k, j)' <=> Passed(q, k, j)
  BY OthersStand
<1>3. ASSUME NEW k, NEW j, Has(q, k, j) PROVE Has(q, k, j)'
  BY <1>1, <1>3 DEF Has
<1>4. PassedOf(q)
  BY DEF PassedOK
<1> QED BY <1>1, <1>2, <1>3, <1>4 DEF PassedOf

\* A step of r that writes nothing.
LEMMA QuietStep ==
  ASSUME IInv, NEW r \in Run, OnlyLoop(r), LoopsOK',
         UNCHANGED <<rows, serial, first, imports, tx>>, UNCHANGED migration,
         touched' = touched \/ (touched' = touched \cup {r} /\ mig # "altered"),
         tx[r] # {} => Past(r)' /\ Locked(r) \subseteq Locked(r)',
         Past(r)' =>
            \A k \in DOMAIN Rows[export'[r]] : \A j \in DOMAIN Rows[export'[r]][k].journal :
               Passed(r, k, j)' => export'[r] = export[r] /\ Has(r, k, j)
  PROVE  IInv'
<1>1. /\ rows' = rows /\ serial' = serial /\ first' = first /\ imports' = imports /\ tx' = tx
      /\ key' = key /\ mig' = mig /\ deleting' = deleting /\ downs' = downs /\ removed' = removed
  BY DEF migration
<1>2. \A e : Kept(e)' <=> Kept(e)
  BY <1>1 DEF Kept
<1>3. DataOK'
  BY <1>1, DataStays DEF IInv
<1>4. PassedOK'
  <2>1. PassedOK /\ \A q \in Run \ {r} : tx'[q] = tx[q]
    BY <1>1 DEF IInv
  <2>2. ASSUME export'[r] = export[r], NEW k, NEW j, Has(r, k, j) PROVE Has(r, k, j)'
    BY <1>1, <1>2, <2>2 DEF Has
  <2>3. PassedOf(r)'
    BY <2>2 DEF PassedOf
  <2>4. \A e : Kept(e) => Kept(e)'
    BY <1>2
  <2> QED BY <2>1, <2>3, <2>4, PassedStays
<1>5. MigrationOK'
  BY <1>1 DEF IInv, MigrationOK, Conflict
<1>6. FirstOK'
  BY <1>1 DEF IInv, FirstOK, FirstBodyKept
<1>7. OnlyDowngradesLose'
  BY <1>1 DEF IInv, OnlyDowngradesLose
<1> QED BY <1>3, <1>4, <1>5, <1>6, <1>7 DEF IInv

LEMMA Starts ==
  ASSUME IInv, NEW r \in Run, NEW x \in Export, Start(r, x)
  PROVE  IInv'
<1>1. /\ phase[r] = "idle" /\ phase' = [phase EXCEPT ![r] = "import"]
      /\ export' = [export EXCEPT ![r] = x] /\ row' = row /\ entry' = entry
      /\ UNCHANGED <<rows, serial, first, imports, tx>> /\ UNCHANGED migration /\ touched' = touched
  BY DEF Start, GoTo
<1>2. OnlyLoop(r) /\ phase'[r] = "import" /\ export'[r] = x
  BY <1>1, SMT DEF IInv, LoopsOK, OnlyLoop, Phases, Open
<1>3. ~Past(r) /\ ~Past(r)' /\ tx[r] = {}
  BY <1>1, <1>2 DEF Past, IInv, DataOK
<1>4. LoopsOK'
  BY <1>2, <1>3, LoopMoves DEF IInv
<1> QED BY <1>1, <1>2, <1>3, <1>4, QuietStep

LEMMA Upserts ==
  ASSUME IInv, NEW r \in Run, UpsertImport(r)
  PROVE  IInv'
<1> DEFINE x == export[r]
<1>1. /\ phase[r] = "import" /\ export' = export
      /\ UNCHANGED <<rows, serial, first, imports, tx>> /\ UNCHANGED migration /\ touched' = touched
  BY DEF UpsertImport
<1>2. x \in Export /\ Len(Rows[x]) \in Nat /\ DOMAIN Rows[x] = 1 .. Len(Rows[x])
  BY <1>1, RowsAssumption DEF IInv, LoopsOK
<1>3. ~Past(r) /\ tx[r] = {}
  BY <1>1 DEF Past, IInv, DataOK
<1>4. CASE x \in imports
  <2>1. phase' = [phase EXCEPT ![r] = "ok"] /\ row' = row /\ entry' = entry
    BY <1>4 DEF UpsertImport, GoTo
  <2>2. OnlyLoop(r) /\ phase'[r] = "ok"
    BY <1>1, <2>1, SMT DEF IInv, LoopsOK, OnlyLoop, Phases
  <2>3. ~Past(r)'
    BY <2>2 DEF Past
  <2>4. LoopsOK'
    BY <1>1, <1>2, <2>2, <2>3, LoopMoves DEF IInv
  <2> QED BY <1>1, <1>3, <2>2, <2>3, <2>4, QuietStep
<1>5. CASE x \notin imports
  <2>1. /\ row' = [row EXCEPT ![r] = 1] /\ entry' = [entry EXCEPT ![r] = 0]
        /\ phase' = [phase EXCEPT ![r] = IF 1 \in DOMAIN Rows[x] THEN "ticket" ELSE "commit"]
    BY <1>5 DEF UpsertImport, ToRecord, GoTo
  <2>2. OnlyLoop(r) /\ row'[r] = 1
    BY <1>1, <2>1, SMT DEF IInv, LoopsOK, OnlyLoop, Phases, Open
  <2>3. phase'[r] = IF 1 \in DOMAIN Rows[x] THEN "ticket" ELSE "commit"
    BY <2>1 DEF IInv, LoopsOK
  <2>4. phase'[r] # "event" /\ phase'[r] # "idle"
    BY <2>3
  <2>5. ~ \E k \in DOMAIN Rows[x] : k < 1
    BY <1>2, SMT
  <2>6. \A k \in DOMAIN Rows[x] : \A j : ~Passed(r, k, j)'
    BY <2>2, <2>4, <2>5 DEF Passed
  <2>7. Locked(r)' = {}
    BY <1>1, <2>2, <2>4, <2>5 DEF Locked
  <2>8. phase'[r] = "commit" => \A k \in DOMAIN Rows[x] : k < 1
    BY <1>2, <2>3, SMT
  <2>9. phase'[r] \in {"ticket", "event"} => 1 \in DOMAIN Rows[x]
    BY <2>3
  <2>10. LoopsOK'
    BY <1>1, <1>2, <2>2, <2>4, <2>7, <2>8, <2>9, LoopMoves DEF IInv
  <2> QED BY <1>1, <1>3, <2>2, <2>6, <2>10, QuietStep
<1> QED BY <1>4, <1>5

\* A ticket is upserted only when no other run has locked it.
LEMMA LocksTicket ==
  ASSUME IInv, NEW r \in Run, UpsertTicket(r)
  PROVE  IInv'
<1>1. /\ phase[r] = "ticket" /\ export' = export /\ ToEntry(r, 1) /\ ~Waits(r)
      /\ UNCHANGED <<rows, serial, first, imports, tx>> /\ UNCHANGED migration /\ touched' = touched
  BY DEF UpsertTicket
<1>2. \A q \in Run \ {r} : Past(q) => Record(r).num \notin Locked(q)
  BY <1>1 DEF Waits, WaitsFor, Past, Open
<1>3. /\ OnlyLoop(r) /\ Past(r)' /\ LoopsOK' /\ Locked(r) \subseteq Locked(r)'
      /\ \A k \in DOMAIN Rows[export[r]] : \A i \in DOMAIN Rows[export[r]][k].journal :
            Passed(r, k, i)' => Passed(r, k, i)
  BY <1>1, <1>2, Entering DEF IInv
<1>4. Past(r)
  BY <1>1 DEF Past
<1>5. \A k \in DOMAIN Rows[export[r]] : \A j \in DOMAIN Rows[export[r]][k].journal :
         Passed(r, k, j)' => export'[r] = export[r] /\ Has(r, k, j)
  BY <1>1, <1>3, <1>4 DEF IInv, PassedOK, PassedOf
<1> QED BY <1>1, <1>3, <1>5, QuietStep

\* No transaction gets at ticket_events once ALTER TABLE has it: it waits for
\* the migration, which waits for nobody.
LEMMA Touches ==
  ASSUME IInv, NEW r \in Run, Touch(r)
  PROVE  IInv'
<1>1. /\ phase[r] = "event" /\ r \notin touched /\ touched' = touched \cup {r}
      /\ phase' = phase /\ export' = export /\ row' = row /\ entry' = entry
      /\ UNCHANGED <<rows, serial, first, imports, tx>> /\ UNCHANGED migration
      /\ ~Waits(r) \/ Circles(r) # {}
  BY DEF Touch
<1>2. mig # "altered"
  <2> SUFFICES ASSUME mig = "altered" PROVE FALSE
    OBVIOUS
  <2>1. Queues(r) /\ WaitsFor(r, Migration) /\ Waits(r)
    BY <1>1 DEF Queues, WaitsFor, Waits
  <2>2. \A b : ~WaitsFor(Migration, b)
    BY MigrationAssumption DEF WaitsFor
  <2>3. \A b : WaitsFor(r, b) => b = Migration
    BY <1>1 DEF WaitsFor
  <2>4. PICK C : DeadlockOf(r, C)
    BY <1>1, <2>1 DEF Circles
  <2>5. Migration \in C
    BY <2>3, <2>4 DEF DeadlockOf
  <2> QED BY <2>2, <2>4, <2>5 DEF DeadlockOf
<1>3. OnlyLoop(r)
  BY <1>1 DEF IInv, LoopsOK, OnlyLoop
<1>4. /\ (Past(r)' <=> Past(r)) /\ Locked(r)' = Locked(r)
      /\ \A k, j : Passed(r, k, j)' <=> Passed(r, k, j)
  BY <1>1 DEF Past, Locked, Passed
<1>5. LoopsOK'
  <2>1. \A q \in Run : (Past(q)' <=> Past(q)) /\ Locked(q)' = Locked(q)
    BY <1>1 DEF Past, Locked
  <2>3. \A p, q \in Run : p # q /\ Past(p)' /\ Past(q)' => Locked(p)' \cap Locked(q)' = {}
    BY <2>1 DEF IInv, LoopsOK
  <2>2. \A q \in Run : phase'[q] = "event" => entry'[q] \in DOMAIN Record(q)'.journal
    BY <1>1 DEF IInv, LoopsOK, Record
  <2> QED BY <1>1, <2>2, <2>3 DEF IInv, LoopsOK
<1>6. tx[r] # {} => Past(r)'
  BY <1>4 DEF IInv, DataOK
<1>7. Past(r)' =>
         \A k \in DOMAIN Rows[export'[r]] : \A j \in DOMAIN Rows[export'[r]][k].journal :
            Passed(r, k, j)' => export'[r] = export[r] /\ Has(r, k, j)
  BY <1>1, <1>4 DEF IInv, PassedOK, PassedOf
<1> QED BY <1>1, <1>2, <1>3, <1>4, <1>5, <1>6, <1>7, QuietStep

\* A transaction that is rolled back takes nothing with it.
LEMMA RollsBack ==
  ASSUME IInv, NEW r \in Run, phase[r] \in Open, Rollback(r),
         UNCHANGED <<rows, serial, first>>, UNCHANGED migration
  PROVE  IInv'
<1>1. /\ phase' = [phase EXCEPT ![r] = "failed"] /\ export' = export
      /\ row' = [row EXCEPT ![r] = 0] /\ entry' = [entry EXCEPT ![r] = 0]
      /\ tx' = [tx EXCEPT ![r] = {}] /\ touched' = touched \ {r}
      /\ rows' = rows /\ serial' = serial /\ first' = first /\ imports' = imports
      /\ key' = key /\ mig' = mig /\ deleting' = deleting /\ downs' = downs /\ removed' = removed
  BY DEF Rollback, GoTo, migration
<1>2. OnlyLoop(r) /\ phase'[r] = "failed" /\ export[r] \in Export
  BY <1>1, SMT DEF IInv, LoopsOK, OnlyLoop, Phases, Open
<1>3. ~Past(r)'
  BY <1>2 DEF Past
<1>4. LoopsOK'
  BY <1>1, <1>2, <1>3, LoopMoves DEF IInv
<1>5. tx'[r] = {} /\ \A q \in Run \ {r} : tx'[q] = tx[q]
  BY <1>1 DEF IInv, DataOK
<1>6. DataOK'
  <2>1. \A q \in Run \ {r} : (Past(q)' <=> Past(q)) /\ Locked(q)' = Locked(q)
    BY <1>2, OthersStand
  <2>2. tx' \in [Run -> SUBSET [id : 1 .. serial, entry : Entry]]
    BY <1>1 DEF IInv, DataOK
  <2> QED BY <1>1, <1>5, <2>1, <2>2 DEF IInv, DataOK
<1>7. PassedOK'
  <2>1. \A e : Kept(e) => Kept(e)'
    BY <1>1 DEF Kept
  <2>2. PassedOf(r)'
    BY <1>3 DEF PassedOf
  <2> QED BY <1>2, <1>5, <2>1, <2>2, PassedStays DEF IInv
<1>8. MigrationOK'
  BY <1>1, <1>5 DEF IInv, MigrationOK, Conflict
<1>9. FirstOK'
  BY <1>1 DEF IInv, FirstOK, FirstBodyKept
<1>10. OnlyDowngradesLose'
  BY <1>1 DEF IInv, OnlyDowngradesLose
<1> QED BY <1>4, <1>6, <1>7, <1>8, <1>9, <1>10 DEF IInv

\* An event goes in under its ticket's lock, with an id above all others.
LEMMA Inserts ==
  ASSUME IInv, NEW r \in Run, InsertEvent(r)
  PROVE  IInv'
<1> DEFINE e == Current(r)
           new == [id |-> serial + 1, entry |-> e]
           Known == \E v \in rows \cup tx[r] : v.entry = e
<1>1. /\ phase[r] = "event" /\ r \in touched
      /\ rows' = rows /\ first' = first /\ UNCHANGED migration
      /\ key' = key /\ mig' = mig /\ deleting' = deleting /\ downs' = downs /\ removed' = removed
  BY DEF InsertEvent, migration
<1>2. CASE key = "triple"
  <2>1. Rollback(r) /\ serial' = serial
    BY <1>2 DEF InsertEvent
  <2> QED BY <1>1, <2>1, RollsBack DEF Open
<1>3. CASE key # "triple"
  <2>1. /\ ToEntry(r, entry[r] + 1) /\ imports' = imports /\ export' = export /\ touched' = touched
        /\ Known => tx' = tx /\ serial' = serial
        /\ ~Known => serial' = serial + 1 /\ tx' = [tx EXCEPT ![r] = @ \cup {new}]
    BY <1>3 DEF InsertEvent
  <2>2. /\ export[r] \in Export /\ row[r] \in DOMAIN Rows[export[r]]
        /\ entry[r] \in DOMAIN Rows[export[r]][row[r]].journal
        /\ Record(r) = Rows[export[r]][row[r]]
        /\ e = Rows[export[r]][row[r]].journal[entry[r]]
    BY <1>1 DEF IInv, LoopsOK, Record, Current
  <2>3. e \in Entry /\ e.num = Record(r).num
    BY <2>2, RowsAssumption
  <2>4. Past(r) /\ Record(r).num \in Locked(r)
    BY <1>1, <2>2 DEF Past, Locked
  <2>5. \A q \in Run \ {r} : Past(q) => Record(r).num \notin Locked(q)
    BY <2>4 DEF IInv, LoopsOK
  <2>6. entry[r] + 1 \in Nat \ {0}
    BY SMT DEF IInv, LoopsOK
  <2> HIDE DEF e, new, Known
  <2>7. /\ OnlyLoop(r) /\ Past(r)' /\ LoopsOK' /\ Locked(r) \subseteq Locked(r)'
        /\ \A k \in DOMAIN Rows[export[r]] : \A i \in DOMAIN Rows[export[r]][k].journal :
              Passed(r, k, i)' => Passed(r, k, i) \/ (k = row[r] /\ i = entry[r])
    <3>1. LoopsOK /\ UNCHANGED export
      BY <2>1 DEF IInv
    <3>2. phase[r] # "ticket"
      BY <1>1
    <3> QED BY <1>1, <2>1, <2>5, <2>6, <3>1, <3>2, Entering
  <2>8. \A k \in DOMAIN Rows[export[r]] : \A i \in DOMAIN Rows[export[r]][k].journal :
           Passed(r, k, i)' => Has(r, k, i) \/ Rows[export[r]][k].journal[i] = e
    BY <2>2, <2>4, <2>7 DEF IInv, PassedOK, PassedOf
  <2>9. CASE Known
    <3>1. Kept(e) \/ \E v \in tx[r] : v.entry = e
      BY <2>9 DEF Known, Kept
    <3>2. \A k \in DOMAIN Rows[export'[r]] : \A i \in DOMAIN Rows[export'[r]][k].journal :
             Passed(r, k, i)' => export'[r] = export[r] /\ Has(r, k, i)
      BY <2>1, <2>8, <3>1 DEF Has
    <3> QED BY <1>1, <2>1, <2>7, <2>9, <3>2, QuietStep
  <2>10. CASE ~Known
    <3>1. serial' = serial + 1 /\ serial \in Nat /\ new.id = serial + 1 /\ new.entry = e
      BY <2>1, <2>10 DEF IInv, DataOK, new
    <3>2. tx'[r] = tx[r] \cup {new} /\ \A q \in Run \ {r} : tx'[q] = tx[q]
      BY <2>1, <2>10 DEF IInv, DataOK
    <3>3. DataOK'
      <4>1. \A q \in Run \ {r} : (Past(q)' <=> Past(q)) /\ Locked(q)' = Locked(q)
        BY <2>7, OthersStand
      <4>2. 1 .. serial \subseteq 1 .. serial' /\ serial + 1 \in 1 .. serial'
        BY <3>1, SMT
      <4>3. [id : 1 .. serial, entry : Entry] \subseteq [id : 1 .. serial', entry : Entry]
        BY <4>2
      <4>4. new \in [id : 1 .. serial', entry : Entry]
        BY <2>3, <4>2 DEF new
      <4>5. tx' = [tx EXCEPT ![r] = tx[r] \cup {new}] /\ tx \in [Run -> SUBSET [id : 1 .. serial, entry : Entry]]
        BY <2>1, <2>10 DEF IInv, DataOK
      <4>6. tx' \in [Run -> SUBSET [id : 1 .. serial', entry : Entry]]
        BY <4>3, <4>4, <4>5
      <4>7. rows' \subseteq [id : 1 .. serial', entry : Entry] /\ serial' \in Nat
        BY <1>1, <3>1, <4>3 DEF IInv, DataOK
      <4>8. \A w \in rows \cup tx[r] : w.entry # e
        BY <2>10 DEF Known
      <4>9. \A w \in rows : w.id < new.id
        <5>1. \A w \in rows : w.id \in 1 .. serial
          BY DEF IInv, DataOK
        <5> QED BY <3>1, <5>1, SMT
      <4>10. \A v \in tx'[r] : /\ Past(r)' /\ v.entry.num \in Locked(r)'
                               /\ \A w \in tx'[r] : v.entry = w.entry => v = w
                               /\ \A w \in rows : /\ v.entry # w.entry
                                                  /\ v.entry.num = w.entry.num => w.id < v.id
        <5> SUFFICES ASSUME NEW v \in tx'[r]
                     PROVE  /\ v.entry.num \in Locked(r)'
                            /\ \A w \in tx'[r] : v.entry = w.entry => v = w
                            /\ \A w \in rows : /\ v.entry # w.entry
                                               /\ v.entry.num = w.entry.num => w.id < v.id
          BY <2>7
        <5>1. CASE v = new
          BY <2>3, <2>4, <2>7, <3>1, <3>2, <4>8, <4>9, <5>1
        <5>2. CASE v \in tx[r]
          <6>1. /\ v.entry.num \in Locked(r) /\ \A w \in tx[r] : v.entry = w.entry => v = w
                /\ \A w \in rows : v.entry # w.entry /\ (v.entry.num = w.entry.num => w.id < v.id)
            BY <5>2 DEF IInv, DataOK
          <6> QED BY <2>7, <3>1, <3>2, <4>8, <5>2, <6>1
        <5> QED BY <3>2, <5>1, <5>2
      <4>11. \A q \in Run \ {r} : \A v \in tx'[q] :
                /\ Past(q)' /\ v.entry.num \in Locked(q)'
                /\ \A w \in tx'[q] : v.entry = w.entry => v = w
                /\ \A w \in rows : v.entry # w.entry /\ (v.entry.num = w.entry.num => w.id < v.id)
        BY <3>2, <4>1 DEF IInv, DataOK
      <4>12. \A v, w \in rows : v.entry = w.entry => v = w
        BY DEF IInv, DataOK
      <4> QED BY <1>1, <4>6, <4>7, <4>10, <4>11, <4>12 DEF DataOK
    <3>4. PassedOK'
      <4>1. \A d : Kept(d) => Kept(d)'
        BY <1>1 DEF Kept
      <4>2. ASSUME NEW k, NEW i, Has(r, k, i) \/ Rows[export[r]][k].journal[i] = e
            PROVE  Has(r, k, i)'
        BY <2>1, <3>1, <3>2, <4>1, <4>2 DEF Has
      <4>3. PassedOf(r)'
        BY <2>1, <2>8, <4>2 DEF PassedOf
      <4> QED BY <2>7, <3>2, <4>1, <4>3, PassedStays DEF IInv
    <3>5. MigrationOK'
      BY <1>1, <1>3, <2>1, <3>2 DEF IInv, MigrationOK, Conflict
    <3>6. FirstOK'
      BY <1>1 DEF IInv, FirstOK, FirstBodyKept
    <3>7. OnlyDowngradesLose'
      BY <1>1, <2>1 DEF IInv, OnlyDowngradesLose
    <3> QED BY <2>7, <3>3, <3>4, <3>5, <3>6, <3>7 DEF IInv
  <2> QED BY <2>9, <2>10
<1> QED BY <1>2, <1>3

\* What a transaction inserted has a lowest id.
LEMMA LowestExists ==
  ASSUME NEW S, S # {}, NEW n \in Nat, S \subseteq [id : 1 .. n, entry : Entry]
  PROVE  \E v \in S : \A w \in S : v.id <= w.id
<1> DEFINE Ids == {v.id : v \in S}
<1>1. Ids \subseteq Nat /\ Ids # {}
  BY SMT
<1>2. IsWellFoundedOn(OpToRel(<, Nat), Nat)
  BY NatLessThanWellFounded
<1>3. PICK i \in Ids : \A j \in Ids : <<j, i>> \notin OpToRel(<, Nat)
  BY <1>1, <1>2, WFMin
<1>4. \A j \in Ids : ~(j < i)
  BY <1>1, <1>3 DEF OpToRel
<1>5. PICK v \in S : v.id = i
  OBVIOUS
<1>6. \A w \in S : v.id <= w.id
  BY <1>1, <1>4, <1>5, SMT
<1> QED BY <1>6

\* A commit adds rows of tickets that no other open run has locked, and the
\* export it ends is all there.
LEMMA Commits ==
  ASSUME IInv, NEW r \in Run, Commit(r)
  PROVE  IInv'
<1> DEFINE x == export[r]
           New(t) == {v \in tx[r] : Triple(v.entry) = t}
           Lowest(t) == CHOOSE v \in New(t) : \A w \in New(t) : v.id <= w.id
<1>1. /\ phase[r] = "commit" /\ rows' = rows \cup tx[r] /\ imports' = imports \cup {x}
      /\ first' = [t \in Triples |-> IF first[t] # None \/ New(t) = {} THEN first[t]
                                     ELSE Lowest(t).entry]
      /\ tx' = [tx EXCEPT ![r] = {}] /\ touched' = touched \ {r} /\ row' = [row EXCEPT ![r] = 0]
      /\ phase' = [phase EXCEPT ![r] = "ok"] /\ serial' = serial /\ export' = export
      /\ entry' = entry /\ key' = key /\ mig' = mig /\ deleting' = deleting /\ downs' = downs
      /\ removed' = removed
  BY DEF Commit, GoTo, migration
<1>2. OnlyLoop(r) /\ phase'[r] = "ok" /\ x \in Export
  BY <1>1, SMT DEF IInv, LoopsOK, OnlyLoop, Phases
<1>3. ~Past(r)' /\ Past(r)
  BY <1>1, <1>2 DEF Past
<1>4. LoopsOK'
  BY <1>1, <1>2, <1>3, LoopMoves DEF IInv
<1>5. tx'[r] = {} /\ \A q \in Run \ {r} : tx'[q] = tx[q]
  BY <1>1 DEF IInv, DataOK
<1>6. /\ serial \in Nat /\ tx[r] \subseteq [id : 1 .. serial, entry : Entry]
      /\ rows \subseteq [id : 1 .. serial, entry : Entry]
      /\ \A v \in tx[r] : /\ v.entry.num \in Locked(r)
                          /\ \A w \in tx[r] : v.entry = w.entry => v = w
                          /\ \A w \in rows : /\ v.entry # w.entry
                                             /\ v.entry.num = w.entry.num => w.id < v.id
  BY DEF IInv, DataOK
<1> HIDE DEF x, New, Lowest
<1>7. DataOK'
  <2>1. \A q \in Run \ {r} : (Past(q)' <=> Past(q)) /\ Locked(q)' = Locked(q)
    BY <1>2, OthersStand
  <2>2. tx' \in [Run -> SUBSET [id : 1 .. serial, entry : Entry]]
    BY <1>1 DEF IInv, DataOK
  <2>3. \A v, w \in rows' : v.entry = w.entry => v = w
    <3>1. \A v, w \in rows : v.entry = w.entry => v = w
      BY DEF IInv, DataOK
    <3> QED BY <1>1, <1>6, <3>1
  <2>4. ASSUME NEW q \in Run \ {r}, NEW v \in tx[q]
        PROVE  /\ Past(q)' /\ v.entry.num \in Locked(q)'
               /\ \A w \in tx[q] : v.entry = w.entry => v = w
               /\ \A w \in rows' : v.entry # w.entry /\ (v.entry.num = w.entry.num => w.id < v.id)
    <3>1. /\ Past(q) /\ v.entry.num \in Locked(q)
          /\ \A w \in tx[q] : v.entry = w.entry => v = w
          /\ \A w \in rows : v.entry # w.entry /\ (v.entry.num = w.entry.num => w.id < v.id)
      BY DEF IInv, DataOK
    <3>2. Locked(q) \cap Locked(r) = {}
      BY <1>3, <3>1 DEF IInv, LoopsOK
    <3>3. \A w \in tx[r] : v.entry.num # w.entry.num
      BY <1>6, <3>1, <3>2
    <3> QED BY <1>1, <2>1, <3>1, <3>3
  <2> QED BY <1>1, <1>5, <1>6, <2>2, <2>3, <2>4 DEF DataOK
<1>8. \A e : Kept(e) => Kept(e)'
  BY <1>1 DEF Kept
<1>9. PassedOK'
  <2>1. PassedOf(r)'
    BY <1>3 DEF PassedOf
  <2> QED BY <1>2, <1>5, <1>8, <2>1, PassedStays DEF IInv
<1>10. MigrationOK'
  <2>1. tx[r] = {} => rows' = rows
    BY <1>1
  <2>2. key = "triple" => tx[r] = {}
    BY DEF IInv, MigrationOK
  <2>3. mig = "altered" => touched = {} /\ tx[r] = {} /\ ~Conflict
    BY DEF IInv, MigrationOK
  <2>4. mig' = "altered" => touched' = {} /\ ~Conflict'
    BY <1>1, <2>1, <2>3 DEF Conflict
  <2>5. key' = "triple" => /\ \A q \in Run : tx'[q] = {}
                           /\ \A v, w \in rows' : v # w => Triple(v.entry) # Triple(w.entry)
    BY <1>1, <1>5, <2>1, <2>2 DEF IInv, MigrationOK
  <2>6. deleting' \subseteq rows'
        /\ \A v \in deleting' : \E w \in rows' : Triple(w.entry) = Triple(v.entry) /\ w.id < v.id
    BY <1>1 DEF IInv, MigrationOK
  <2>7. imports' \subseteq Export /\ touched' \subseteq Run
        /\ \A q \in Run : tx'[q] # {} => q \in touched'
    BY <1>1, <1>2, <1>5 DEF IInv, MigrationOK
  <2> QED BY <1>1, <2>4, <2>5, <2>6, <2>7 DEF IInv, MigrationOK
<1>11. FirstOK'
  <2>1. ASSUME NEW t \in Triples
        PROVE  /\ first'[t] \in Entry \cup {None}
               /\ first'[t] # None => Triple(first'[t]) = t
               /\ first'[t] = None => \A w \in rows' : Triple(w.entry) # t
               /\ first'[t] # None => \E v \in rows' :
                     /\ v.entry = first'[t]
                     /\ \A w \in rows' : Triple(w.entry) = t => v.id <= w.id
    <3>0. first'[t] = IF first[t] # None \/ New(t) = {} THEN first[t] ELSE Lowest(t).entry
      BY <1>1
    <3>00. /\ first[t] \in Entry \cup {None}
           /\ first[t] # None => Triple(first[t]) = t
           /\ first[t] = None => \A w \in rows : Triple(w.entry) # t
           /\ first[t] # None => \E v \in rows :
                 v.entry = first[t] /\ \A w \in rows : Triple(w.entry) = t => v.id <= w.id
      BY DEF IInv, FirstOK, FirstBodyKept
    <3>1. CASE first[t] # None
      <4>1. PICK v \in rows :
               v.entry = first[t] /\ \A w \in rows : Triple(w.entry) = t => v.id <= w.id
        BY <3>00, <3>1
      <4>2. ASSUME NEW w \in tx[r], Triple(w.entry) = t PROVE v.id <= w.id
        <5>1. w.entry.num = v.entry.num
          BY <3>00, <3>1, <4>1, <4>2 DEF Triple
        <5>2. v.id < w.id
          BY <1>6, <5>1
        <5>3. v.id \in Nat /\ w.id \in Nat
          BY <1>6, SMT
        <5> QED BY <5>2, <5>3, SMT
      <4>3. \A w \in rows' : Triple(w.entry) = t => v.id <= w.id
        BY <1>1, <4>1, <4>2
      <4>4. v \in rows' /\ first'[t] = first[t]
        BY <1>1, <3>0, <3>1
      <4> QED BY <3>00, <3>1, <4>1, <4>3, <4>4
    <3>2. CASE first[t] = None /\ New(t) = {}
      <4>1. first'[t] = None
        BY <3>0, <3>2
      <4>2. \A w \in tx[r] : Triple(w.entry) # t
        BY <3>2 DEF New
      <4> QED BY <1>1, <3>00, <3>2, <4>1, <4>2
    <3>3. CASE first[t] = None /\ New(t) # {}
      <4>1. New(t) \subseteq tx[r]
        BY DEF New
      <4>2. \E v \in New(t) : \A w \in New(t) : v.id <= w.id
        BY <1>6, <3>3, <4>1, LowestExists
      <4>3. Lowest(t) \in New(t) /\ \A w \in New(t) : Lowest(t).id <= w.id
        BY <4>2 DEF Lowest
      <4>4. Lowest(t) \in rows' /\ Lowest(t).entry \in Entry /\ Triple(Lowest(t).entry) = t
        BY <1>1, <1>6, <4>3 DEF New
      <4>5. \A w \in rows' : Triple(w.entry) = t => w \in New(t)
        BY <1>1, <3>00, <3>3 DEF New
      <4>6. first'[t] = Lowest(t).entry /\ first'[t] # None
        BY <3>0, <3>3, <4>4, NoneAssumption
      <4> QED BY <4>3, <4>4, <4>5, <4>6
    <3> QED BY <3>1, <3>2, <3>3
  <2>2. first' \in [Triples -> Entry \cup {None}]
    <3>1. first' = [t \in Triples |-> first'[t]]
      BY <1>1
    <3> QED BY <2>1, <3>1
  <2>3. FirstBodyKept'
    BY <2>1 DEF FirstBodyKept
  <2> QED BY <2>1, <2>2, <2>3 DEF FirstOK
<1>12. OnlyDowngradesLose'
  <2>2. \A k \in DOMAIN Rows[x] : \A j : Passed(r, k, j)
    BY <1>1 DEF IInv, LoopsOK, x, Passed
  <2>3. \A k \in DOMAIN Rows[x] : \A j \in DOMAIN Rows[x][k].journal :
           Kept(Rows[x][k].journal[j]) \/ \E v \in tx[r] : v.entry = Rows[x][k].journal[j]
    BY <1>3, <2>2 DEF IInv, PassedOK, PassedOf, Has, x
  <2>4. ASSUME NEW e, Kept(e) \/ \E v \in tx[r] : v.entry = e PROVE Kept(e)'
    BY <1>1, <2>4 DEF Kept
  <2>5. ASSUME NEW z \in imports', NEW k \in DOMAIN Rows[z], NEW j \in DOMAIN Rows[z][k].journal
        PROVE  Kept(Rows[z][k].journal[j])'
    <3>1. CASE z = x
      BY <2>3, <2>4, <3>1
    <3>2. CASE z \in imports
      <4>1. Kept(Rows[z][k].journal[j])
        BY <3>2 DEF IInv, OnlyDowngradesLose, Kept
      <4> QED BY <2>4, <4>1
    <3> QED BY <1>1, <3>1, <3>2
  <2> QED BY <2>5 DEF OnlyDowngradesLose, Kept
<1> QED BY <1>4, <1>7, <1>9, <1>10, <1>11, <1>12 DEF IInv

-----------------------------------------------------------------------------
(* Steps of the migration. *)

\* A step of the migration that loses no entry but those it says it removed.
LEMMA RunsStand ==
  ASSUME IInv, UNCHANGED ingest, UNCHANGED serial, rows' \subseteq rows,
         \A e : Kept(e) => Kept(e)'
  PROVE  LoopsOK' /\ DataOK' /\ PassedOK' /\ OnlyDowngradesLose'
<1>1. /\ imports' = imports /\ phase' = phase /\ export' = export /\ row' = row
      /\ entry' = entry /\ touched' = touched /\ tx' = tx /\ serial' = serial
  BY DEF ingest
<1>2. \A r \in Run : /\ Past(r)' <=> Past(r)
                     /\ Locked(r)' = Locked(r)
                     /\ Record(r)' = Record(r)
                     /\ \A k, j : Passed(r, k, j)' <=> Passed(r, k, j)
  BY <1>1 DEF Past, Locked, Record, Passed
<1>3. LoopsOK'
  BY <1>1, <1>2 DEF IInv, LoopsOK
<1>4. DataOK'
  BY <1>1, <1>2 DEF IInv, DataOK
<1>5. PassedOK'
  <2>1. ASSUME NEW r, NEW k, NEW j, Has(r, k, j) PROVE Has(r, k, j)'
    BY <1>1, <2>1 DEF Has
  <2>2. ASSUME NEW r \in Run PROVE PassedOf(r)'
    <3>1. PassedOf(r)
      BY DEF IInv, PassedOK
    <3> QED BY <1>1, <1>2, <2>1, <3>1 DEF PassedOf
  <2> QED BY <2>2 DEF PassedOK
<1>6. OnlyDowngradesLose'
  <2>1. ASSUME NEW z \in imports, NEW k \in DOMAIN Rows[z], NEW j \in DOMAIN Rows[z][k].journal
        PROVE  Kept(Rows[z][k].journal[j])'
    <3>1. Kept(Rows[z][k].journal[j])
      BY DEF IInv, OnlyDowngradesLose, Kept
    <3> QED BY <3>1
  <2> QED BY <1>1, <2>1 DEF OnlyDowngradesLose, Kept
<1> QED BY <1>3, <1>4, <1>5, <1>6

\* The migration moves and nothing is written, or it is taken back.
LEMMA MigrationMoves ==
  ASSUME IInv, DownDelete \/ DownAlter \/ Up \/ AddConstraint \/ MigrationFails
  PROVE  IInv'
<1>1. UNCHANGED ingest /\ rows' = rows /\ serial' = serial /\ first' = first /\ removed' = removed
  BY DEF DownDelete, DownAlter, Up, AddConstraint, MigrationFails, MigrationRollback
<1>2. LoopsOK' /\ DataOK' /\ PassedOK' /\ OnlyDowngradesLose'
  <2>1. \A e : Kept(e) => Kept(e)'
    BY <1>1 DEF Kept
  <2> QED BY <1>1, <2>1, RunsStand
<1>3. FirstOK'
  BY <1>1 DEF IInv, FirstOK, FirstBodyKept
<1>4. imports' = imports /\ touched' = touched /\ tx' = tx
  BY <1>1 DEF ingest
<1>5. CASE DownDelete
  <2>1. /\ mig' = "deleted" /\ key' = key /\ key = "idem" /\ deleting' = Extra
        /\ downs' = downs + 1 /\ downs < MaxDowns
    BY <1>5 DEF DownDelete
  <2>2. downs' \in 0 .. MaxDowns
    <3>1. downs \in 0 .. MaxDowns
      BY DEF IInv, MigrationOK
    <3> QED BY <2>1, <3>1, MigrationAssumption, SMT
  <2>3. /\ deleting' \subseteq rows
        /\ \A v \in deleting' : \E w \in rows : Triple(w.entry) = Triple(v.entry) /\ w.id < v.id
    BY <2>1 DEF Extra
  <2>4. MigrationOK'
    BY <1>1, <1>4, <2>1, <2>2, <2>3 DEF IInv, MigrationOK
  <2> QED BY <1>2, <1>3, <2>4 DEF IInv
<1>6. CASE DownAlter
  <2>1. mig' = "altering" /\ key' = key /\ deleting' = deleting /\ downs' = downs
    BY <1>6 DEF DownAlter
  <2>2. MigrationOK'
    BY <1>1, <1>4, <2>1 DEF IInv, MigrationOK
  <2> QED BY <1>2, <1>3, <2>2 DEF IInv
<1>7. CASE Up
  <2>1. mig' = mig /\ mig = "idle" /\ key' = "idem" /\ deleting' = deleting /\ downs' = downs
    BY <1>7 DEF Up
  <2>2. MigrationOK'
    BY <1>1, <1>4, <2>1 DEF IInv, MigrationOK
  <2> QED BY <1>2, <1>3, <2>2 DEF IInv
<1>8. CASE MigrationRollback
  <2>1. mig' = "idle" /\ key' = key /\ deleting' = {} /\ downs' = downs
    BY <1>8 DEF MigrationRollback
  <2>2. MigrationOK'
    BY <1>1, <1>4, <2>1 DEF IInv, MigrationOK
  <2> QED BY <1>2, <1>3, <2>2 DEF IInv
<1>9. CASE AddConstraint /\ ~Conflict
  <2>1. /\ mig = "altering" /\ mig' = "altered" /\ key' = key /\ deleting' = deleting
        /\ downs' = downs /\ ~Waits(Migration)
    BY <1>9 DEF AddConstraint
  <2>2. touched = {}
    <3>1. \A q \in touched : q \in Run /\ WaitsFor(Migration, q)
      BY <2>1 DEF IInv, MigrationOK, WaitsFor
    <3> QED BY <2>1, <3>1 DEF Waits
  <2>3. ~Conflict'
    BY <1>1, <1>9, <2>1 DEF Conflict
  <2>4. MigrationOK'
    BY <1>1, <1>4, <2>1, <2>2, <2>3 DEF IInv, MigrationOK
  <2> QED BY <1>2, <1>3, <2>4 DEF IInv
<1> QED BY <1>5, <1>6, <1>7, <1>8, <1>9 DEF AddConstraint, MigrationFails

\* The rows a downgrade takes away are not the lowest of their triple, and
\* those it leaves satisfy the narrow key.
LEMMA Downgrades ==
  ASSUME IInv, DownCommit
  PROVE  IInv'
<1>1. /\ mig = "altered" /\ rows' = rows \ deleting
      /\ removed' = removed \cup {v.entry : v \in deleting}
      /\ key' = "triple" /\ mig' = "idle" /\ deleting' = {} /\ serial' = serial
      /\ first' = first /\ downs' = downs /\ UNCHANGED ingest
  BY DEF DownCommit
<1>2. imports' = imports /\ touched' = touched /\ tx' = tx
  BY <1>1 DEF ingest
<1>3. touched = {} /\ ~Conflict /\ (\A r \in Run : tx[r] = {})
  BY <1>1 DEF IInv, MigrationOK
<1>4. LoopsOK' /\ DataOK' /\ PassedOK' /\ OnlyDowngradesLose'
  <2>1. ASSUME NEW e, Kept(e) PROVE Kept(e)'
    <3>1. CASE e \in removed
      BY <1>1, <3>1 DEF Kept
    <3>2. ASSUME NEW v \in rows, v.entry = e PROVE Kept(e)'
      BY <1>1, <3>2 DEF Kept
    <3> QED BY <2>1, <3>1, <3>2 DEF Kept
  <2> QED BY <1>1, <2>1, RunsStand
<1>5. MigrationOK'
  <2>1. removed' \subseteq Entry
    <3>1. \A v \in deleting : v.entry \in Entry
      BY DEF IInv, MigrationOK, DataOK
    <3> QED BY <1>1, <3>1 DEF IInv, MigrationOK
  <2>2. \A v, w \in rows' : v # w => Triple(v.entry) # Triple(w.entry)
    BY <1>1, <1>3 DEF Conflict
  <2> QED BY <1>1, <1>2, <1>3, <2>1, <2>2 DEF IInv, MigrationOK
<1>6. FirstOK'
  <2>1. ASSUME NEW t \in Triples, first[t] # None
        PROVE  \E v \in rows' : /\ v.entry = first[t]
                                /\ \A w \in rows' : Triple(w.entry) = t => v.id <= w.id
    <3>1. Triple(first[t]) = t
      BY <2>1 DEF IInv, FirstOK
    <3>2. PICK v \in rows :
             v.entry = first[t] /\ \A w \in rows : Triple(w.entry) = t => v.id <= w.id
      BY <2>1 DEF IInv, FirstOK, FirstBodyKept
    <3>3. v \notin deleting
      <4> SUFFICES ASSUME v \in deleting PROVE FALSE
        OBVIOUS
      <4>1. PICK w \in rows : Triple(w.entry) = Triple(v.entry) /\ w.id < v.id
        BY DEF IInv, MigrationOK
      <4>2. v.id <= w.id
        BY <3>1, <3>2, <4>1
      <4>3. v.id \in Nat /\ w.id \in Nat
        <5>1. \A u \in rows : u.id \in 1 .. serial
          BY DEF IInv, DataOK
        <5>2. serial \in Nat
          BY DEF IInv, DataOK
        <5> QED BY <5>1, <5>2, SMT
      <4> QED BY <4>1, <4>2, <4>3, SMT
    <3> QED BY <1>1, <3>2, <3>3
  <2>2. FirstBodyKept'
    BY <1>1, <2>1 DEF FirstBodyKept
  <2> QED BY <1>1, <2>2 DEF IInv, FirstOK
<1> QED BY <1>4, <1>5, <1>6 DEF IInv

-----------------------------------------------------------------------------
(* The theorems. *)

LEMMA Keeps == IInv /\ [Next]_vars => IInv'
<1> SUFFICES ASSUME IInv, [Next]_vars PROVE IInv'
  OBVIOUS
<1>1. ASSUME NEW r \in Run, NEW x \in Export, Start(r, x) PROVE IInv'
  BY <1>1, Starts
<1>2. ASSUME NEW r \in Run, UpsertImport(r) PROVE IInv'
  BY <1>2, Upserts
<1>3. ASSUME NEW r \in Run, UpsertTicket(r) PROVE IInv'
  BY <1>3, LocksTicket
<1>4. ASSUME NEW r \in Run, Touch(r) PROVE IInv'
  BY <1>4, Touches
<1>5. ASSUME NEW r \in Run, InsertEvent(r) PROVE IInv'
  BY <1>5, Inserts
<1>6. ASSUME NEW r \in Run, Commit(r) PROVE IInv'
  BY <1>6, Commits
<1>7. ASSUME NEW r \in Run, RunFails(r) PROVE IInv'
  BY <1>7, RollsBack DEF RunFails
<1>8. CASE DownDelete \/ DownAlter \/ Up \/ AddConstraint \/ MigrationFails
  BY <1>8, MigrationMoves
<1>9. CASE DownCommit
  BY <1>9, Downgrades
<1>10. CASE UNCHANGED vars
  <2>1. UNCHANGED ingest /\ UNCHANGED migration /\ UNCHANGED <<rows, serial, first>>
    BY <1>10 DEF vars, ingest, migration
  <2>2. /\ imports' = imports /\ touched' = touched /\ tx' = tx /\ rows' = rows /\ serial' = serial
        /\ first' = first /\ key' = key /\ mig' = mig /\ deleting' = deleting /\ downs' = downs
        /\ removed' = removed
    BY <2>1 DEF ingest, migration
  <2>3. \A e : Kept(e) => Kept(e)'
    BY <2>2 DEF Kept
  <2>4. LoopsOK' /\ DataOK' /\ PassedOK' /\ OnlyDowngradesLose'
    BY <2>1, <2>2, <2>3, RunsStand
  <2>5. MigrationOK'
    BY <2>2 DEF IInv, MigrationOK, Conflict
  <2>6. FirstOK'
    BY <2>2 DEF IInv, FirstOK, FirstBodyKept
  <2> QED BY <2>4, <2>5, <2>6 DEF IInv
<1> QED BY <1>1, <1>2, <1>3, <1>4, <1>5, <1>6, <1>7, <1>8, <1>9, <1>10
        DEF Next, Proceed, MigrationStep, DeadlockFailsRun, DeadlockFailsMigration

LEMMA Invariance == Spec => []IInv
  BY Initially, Keeps, PTL DEF Spec

\* The types of the state, the ids that nextval gave out included: a run that
\* has inserted anything holds its lock on ticket_events.
THEOREM TypeCorrect == Spec => []TypeOK
  BY Invariance, Types, PTL

\* The UNIQUE of ticket_events that is in force holds of the committed rows:
\* what an ingest commits between the DELETE and the ALTER TABLE of a downgrade
\* is looked at before the narrow key is added.
THEOREM KeyCorrect == Spec => []KeyHolds
  BY Invariance, Keys, PTL

\* The body that was committed first at a second and author keeps the lowest
\* id there and outlives every downgrade, as 0006's comment says.
THEOREM FirstBodyCorrect == Spec => []FirstBodyKept
<1>1. IInv => FirstBodyKept
  BY DEF IInv, FirstOK
<1> QED BY <1>1, Invariance, PTL

\* An export is in imports only with every journal entry stored, except those
\* that a downgrade deleted as second bodies.
THEOREM LossCorrect == Spec => []OnlyDowngradesLose
<1>1. IInv => OnlyDowngradesLose
  BY DEF IInv
<1> QED BY <1>1, Invariance, PTL
=============================================================================
