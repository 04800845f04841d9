--------------------------- MODULE ServerBoot_proofs ---------------------------
(***************************************************************************)
(* Proofs about ServerBoot, for every set of servers and tools and every   *)
(* bound on downs and faults.  What a process has read stays true until it *)
(* commits, unless a down meets it: that is the inductive invariant, and   *)
(* with it what stays true even then (Sound, Checked).                     *)
(***************************************************************************)
EXTENDS ServerBoot, WellFoundedInduction, TLAPS

\* What the transactions under way were decided on: an up on a prefix no
\* longer than the one there is, a down on exactly this one.
PlansFit(n) ==
    \A p \in Process : At(p, "migrate") =>
        IF op[p] = "down" THEN plan[p] = n ELSE plan[p] =< n + 1

Fits(n) == IsPrefix(n) /\ PlansFit(n)

\* What no down disturbs, however it races: each change stands on those it
\* needs; the rows say what there is, but for a row of version 6 that is left
\* behind when 5 is dropped with 6's column in it, and then a row of version 5
\* that is there is newer.
RowsSound ==
    /\ \A r \in rows : r.id =< serial
    /\ 5 \in schema /\ 6 \notin schema =>
           \A r, s \in rows : r.version = 5 /\ s.version = 6 => s.id < r.id

Sound ==
    /\ \A v \in schema : References[v] \subseteq schema
    /\ 6 \in schema => 5 \in schema
    /\ schema \subseteq Recorded /\ Recorded \subseteq schema \cup {6}
    /\ RowsSound

\* What a server that is past the look for missing migrations relies on.
Sighted == 6 \in Recorded => 5 \in schema

Checked(p) ==
    /\ At(p, "current") \/ At(p, "migrate") => Sighted
    /\ At(p, "after") \/ (At(p, "serving") /\ p \in Configured) => 6 \in schema

IInv ==
    /\ TypeOK
    /\ \A p \in Process : At(p, "migrate") => plan[p] \in Migrations
    /\ ~raced => \E n \in 0 .. LastMigration : Fits(n)
    /\ \A p \in Server : op[p] = "serve"
    /\ Sound
    /\ \A p \in Server \ overtaken : Checked(p)

-----------------------------------------------------------------------------
(* What goose reads in a prefix. *)

\* The row with the highest id is the last migration's.
LEMMA CurrentOfPrefix ==
    ASSUME TypeOK, NEW n \in 0 .. LastMigration, IsPrefix(n)
    PROVE  Current = n
<1>1. \A r \in rows : r.id \in Nat /\ r.version \in 1 .. n
  BY DEF TypeOK, IsPrefix, Recorded
<1>2. CASE n = 0
  <2>1. rows = {}  BY <1>1, <1>2
  <2>2. QED  BY <2>1, <1>2 DEF Current
<1>3. CASE n # 0
  <2>1. n \in Recorded  BY <1>3 DEF IsPrefix, LastMigration
  <2>2. PICK last \in rows : last.version = n  BY <2>1 DEF Recorded
  <2>3. \A s \in rows : s.id =< last.id
    <3>1. SUFFICES ASSUME NEW s \in rows, last.id < s.id PROVE FALSE
      <4>1. last.id \in Nat /\ \A s \in rows : s.id \in Nat  BY <1>1
      <4>2. QED  BY <4>1
    <3>2. last.version < s.version  BY <3>1 DEF IsPrefix
    <3>3. QED  BY <3>2, <2>2, <1>1
  <2>4. PICK r \in rows : (\A s \in rows : s.id =< r.id) /\ Current = r.version
    BY <2>3 DEF Current
  <2>5. ~(r.version < last.version)
    <3>1. ~(r.id < last.id)  BY <2>4, <1>1
    <3>2. QED  BY <3>1 DEF IsPrefix
  <2>6. r.version = n
    <3>1. r.version \in 1 .. n  BY <1>1
    <3>2. QED  BY <3>1, <2>5, <2>2
  <2>7. QED  BY <2>6, <2>4
<1>4. QED  BY <1>2, <1>3

\* An up of the next migration extends the prefix.
LEMMA PrefixGrows ==
    ASSUME TypeOK, NEW n \in 0 .. LastMigration, IsPrefix(n), n < LastMigration,
           schema' = schema \cup {n + 1},
           rows' = rows \cup {[id |-> serial + 1, version |-> n + 1]},
           serial' = serial + 1
    PROVE  IsPrefix(n + 1)'
<1> DEFINE new == [id |-> serial + 1, version |-> n + 1]
<1>1. \A r \in rows : r.id \in Nat /\ r.id =< serial /\ r.version \in 1 .. n
  BY DEF TypeOK, IsPrefix, Recorded
<1>2. serial \in Nat /\ n \in Nat  BY DEF TypeOK, LastMigration
<1>3. new.id = serial + 1 /\ new.version = n + 1  OBVIOUS
<1> HIDE DEF new
<1>4. rows' = rows \cup {new}  BY DEF new
<1>5. schema' = 1 .. n + 1  BY <1>2 DEF IsPrefix
<1>6. Recorded' = 1 .. n + 1
  <2>1. Recorded' = Recorded \cup {new.version}  BY <1>4 DEF Recorded
  <2>2. QED  BY <2>1, <1>2, <1>3 DEF IsPrefix
<1>7. \A r, s \in rows' : r.version < s.version <=> r.id < s.id
  <2>1. TAKE r, s \in rows'
  <2>2. CASE r \in rows /\ s \in rows  BY <2>2 DEF IsPrefix
  <2>3. CASE r \in rows /\ s = new  BY <2>3, <1>1, <1>2, <1>3
  <2>4. CASE r = new /\ s \in rows  BY <2>4, <1>1, <1>2, <1>3
  <2>5. CASE r = new /\ s = new  BY <2>5, <1>2, <1>3
  <2>6. QED  BY <2>1, <2>2, <2>3, <2>4, <2>5, <1>4
<1>8. \A r \in rows' : r.id =< serial'  BY <1>1, <1>2, <1>3, <1>4
<1>9. QED  BY <1>5, <1>6, <1>7, <1>8 DEF IsPrefix

\* A down of the last migration shortens it.
LEMMA PrefixShrinks ==
    ASSUME TypeOK, NEW n \in 1 .. LastMigration, IsPrefix(n),
           schema' = Without(n), rows' = {r \in rows : r.version # n},
           serial' = serial
    PROVE  IsPrefix(n - 1)' /\ schema' = schema \ {n}
<1>1. n \in 1 .. 6  BY DEF LastMigration
<1>2. schema' = schema \ {n}
  <2>1. CASE n = 5
    <3>1. 6 \notin schema  BY <2>1 DEF IsPrefix
    <3>2. QED  BY <3>1, <2>1 DEF Without
  <2>2. CASE n # 5  BY <2>2 DEF Without
  <2>3. QED  BY <2>1, <2>2
<1>3. schema' = 1 .. n - 1  BY <1>1, <1>2 DEF IsPrefix
<1>4. Recorded' = 1 .. n - 1
  <2>1. Recorded' = Recorded \ {n}  BY DEF Recorded
  <2>2. QED  BY <2>1, <1>1 DEF IsPrefix
<1>5. rows' \subseteq rows  OBVIOUS
<1>6. QED  BY <1>2, <1>3, <1>4, <1>5 DEF IsPrefix

\* There is a row that was inserted last.
LEMMA NewestRow ==
    ASSUME TypeOK, Sound, rows # {}
    PROVE  \E r \in rows : \A s \in rows : s.id =< r.id
<1> DEFINE K == {serial - r.id : r \in rows}
<1>1. serial \in Nat /\ \A r \in rows : r.id \in Nat /\ r.id =< serial
  BY DEF TypeOK, Sound, RowsSound
<1>2. K \subseteq Nat /\ K # {}  BY <1>1
<1>3. PICK k \in K : \A j \in K : ~(<<j, k>> \in OpToRel(<, Nat))
  <2> HIDE DEF K
  <2>1. QED  BY <1>2, NatLessThanWellFounded, WFMin
<1>4. \A j \in K : ~(j < k)  BY <1>2, <1>3 DEF OpToRel
<1>5. PICK r \in rows : k = serial - r.id  OBVIOUS
<1>6. ASSUME NEW s \in rows PROVE s.id =< r.id
  <2>1. ~(serial - s.id < serial - r.id)  BY <1>4, <1>5
  <2>2. QED  BY <1>1, <2>1
<1>7. QED  BY <1>6

\* A server whose look found no hole, and that then reads no version below 6,
\* has 6 in its schema: a row of 6 that is left over is older than the row of 5.
LEMMA LastIsThere ==
    ASSUME TypeOK, Sound, Sighted, Current + 1 \notin Migrations
    PROVE  6 \in schema
<1>1. \A r \in rows : r.id \in Nat /\ r.version \in 1 .. 6 /\ r.id =< serial
  BY DEF TypeOK, Migrations, Sound, RowsSound
<1>2. CASE rows = {}
  <2>1. Current = 0  BY <1>2 DEF Current
  <2>2. QED  BY <2>1 DEF Migrations
<1>3. CASE rows # {}
  <2>1. PICK r \in rows : \A s \in rows : s.id =< r.id  BY <1>3, NewestRow
  <2>2. PICK c \in rows : (\A s \in rows : s.id =< c.id) /\ Current = c.version
    BY <1>3, <2>1 DEF Current
  <2>3. c.version = 6  BY <1>1, <2>2 DEF Migrations
  <2>4. 6 \in Recorded  BY <2>2, <2>3 DEF Recorded
  <2>5. 5 \in schema  BY <2>4 DEF Sighted
  <2>6. 5 \in Recorded  BY <2>5 DEF Sound
  <2>7. PICK f \in rows : f.version = 5  BY <2>6 DEF Recorded
  <2>8. ~(c.id < f.id)  BY <1>1, <2>2
  <2>9. QED  BY <2>3, <2>5, <2>7, <2>8 DEF Sound, RowsSound
<1>4. QED  BY <1>2, <1>3

\* The whole schema stands under 0006.
LEMMA SixNeedsAll ==
    ASSUME Sound, schema \subseteq Migrations, 6 \in schema
    PROVE  schema = Migrations
<1>1. 5 \in schema /\ \A v \in schema : References[v] \subseteq schema  BY DEF Sound
<1>2. References[5] = {1, 4} /\ References[4] = {1, 3} /\ References[3] = {2}
  BY DEF References, Migrations
<1>3. {1, 4} \subseteq schema  BY <1>1, <1>2
<1>4. {1, 3} \subseteq schema  BY <1>1, <1>2, <1>3
<1>5. {2} \subseteq schema  BY <1>1, <1>2, <1>4
<1>6. \A v \in 1 .. 6 : v = 1 \/ v = 2 \/ v = 3 \/ v = 4 \/ v = 5 \/ v = 6
  OBVIOUS
<1>7. 1 \in schema /\ 2 \in schema /\ 3 \in schema /\ 4 \in schema
  BY <1>3, <1>4, <1>5
<1>8. \A v \in 1 .. 6 : v \in schema
  BY <1>1, <1>6, <1>7
<1>9. QED  BY <1>8 DEF Migrations

-----------------------------------------------------------------------------
(* The steps. *)

\* The initial state is the empty prefix.
LEMMA InitHolds ==
    ASSUME Init PROVE IInv
<1>1. TypeOK
  <2>1. pc \in [Process -> {"off", "serving"} \cup OnDatabase]  BY DEF Init
  <2>2. op \in [Process -> {"serve", "up", "down"}]  BY DEF Init
  <2>3. plan \in [Process -> 0 .. LastMigration]  BY DEF Init, LastMigration
  <2>4. rows \subseteq [id : Nat, version : Migrations] /\ schema \subseteq Migrations
    BY DEF Init
  <2>5. downs \in 0 .. MaxDowns /\ faults \in 0 .. MaxFaults /\ overtaken \subseteq Server
    BY BoundsAssumption DEF Init
  <2>6. QED  BY <2>1, <2>2, <2>3, <2>4, <2>5 DEF Init, TypeOK
<1>2. Fits(0)
  <2>1. rows = {} /\ schema = {} /\ Recorded = {}  BY DEF Init, Recorded
  <2>2. IsPrefix(0)  BY <2>1 DEF IsPrefix
  <2>3. PlansFit(0)  BY DEF Init, PlansFit, At
  <2>4. QED  BY <2>2, <2>3 DEF Fits
<1>3. Sound /\ (\A p \in Server : op[p] = "serve") /\ \A p \in Server : Checked(p)
  <2>1. rows = {} /\ schema = {} /\ Recorded = {}  BY DEF Init, Recorded
  <2>2. Sound  BY <2>1 DEF Sound, RowsSound
  <2>3. \A p \in Server : op[p] = "serve" /\ pc[p] = "off"  BY DEF Init, Process
  <2>4. QED  BY <2>2, <2>3 DEF Checked, At
<1>4. 0 \in 0 .. LastMigration  BY DEF LastMigration
<1>5. QED  BY <1>1, <1>2, <1>3, <1>4 DEF Init, IInv, At

\* m is what was read to be the next migration for o.
Decided(o, m) ==
    \A n \in 0 .. LastMigration : Fits(n) => IF o = "down" THEN m = n ELSE m =< n + 1

\* The steps of a process that write no row and no table.
LEMMA QuietStep ==
    ASSUME IInv, NEW p \in Process,
           NEW l \in {"off", "serving"} \cup OnDatabase,
           NEW m \in 0 .. LastMigration, NEW o \in {"serve", "up", "down"},
           pc' = [pc EXCEPT ![p] = l], plan' = [plan EXCEPT ![p] = m],
           op' = [op EXCEPT ![p] = o], l = "migrate" => m \in Migrations /\ Decided(o, m),
           p \in Server => o = "serve",
           p \in Server \ overtaken' =>
               /\ l = "current" \/ l = "migrate" => Sighted
               /\ l = "after" \/ (l = "serving" /\ p \in Configured) => 6 \in schema,
           overtaken' \subseteq Server, overtaken \ {p} \subseteq overtaken',
           tracked' \in BOOLEAN, reachable' \in BOOLEAN,
           downs' \in 0 .. MaxDowns, faults' \in 0 .. MaxFaults,
           UNCHANGED <<rows, serial, schema, raced>>
    PROVE  IInv'
<1>1. TypeOK'  BY DEF IInv, TypeOK
<1>2. /\ pc'[p] = l /\ plan'[p] = m /\ op'[p] = o
      /\ \A q \in Process \ {p} : pc'[q] = pc[q] /\ plan'[q] = plan[q] /\ op'[q] = op[q]
  <2>1. pc'[p] = l /\ \A q \in Process \ {p} : pc'[q] = pc[q]  BY DEF IInv, TypeOK
  <2>2. plan'[p] = m /\ \A q \in Process \ {p} : plan'[q] = plan[q]  BY DEF IInv, TypeOK
  <2>3. op'[p] = o /\ \A q \in Process \ {p} : op'[q] = op[q]  BY DEF IInv, TypeOK
  <2>4. QED  BY <2>1, <2>2, <2>3
<1>3. \A q \in Process : At(q, "migrate")' => plan'[q] \in Migrations
  <2>1. TAKE q \in Process
  <2>2. CASE q = p  BY <1>2, <2>2 DEF At
  <2>3. CASE q # p  BY <1>2, <2>3 DEF At, IInv
  <2>4. QED  BY <2>2, <2>3
<1>4. ASSUME ~raced' PROVE \E n \in 0 .. LastMigration : Fits(n)'
  <2>1. PICK n \in 0 .. LastMigration : Fits(n)  BY <1>4 DEF IInv
  <2>2. IsPrefix(n)'  BY <2>1 DEF Fits, IsPrefix, Recorded
  <2>3. PlansFit(n)'
    <3>1. SUFFICES ASSUME NEW q \in Process, At(q, "migrate")'
                   PROVE  IF op'[q] = "down" THEN plan'[q] = n ELSE plan'[q] =< n + 1
      BY DEF PlansFit
    <3>2. CASE q = p
      <4>1. l = "migrate"  BY <3>1, <3>2, <1>2 DEF At
      <4>2. IF o = "down" THEN m = n ELSE m =< n + 1  BY <4>1, <2>1 DEF Decided
      <4>3. QED  BY <4>2, <3>2, <1>2
    <3>3. CASE q # p  BY <3>1, <3>3, <2>1, <1>2 DEF At, Fits, PlansFit
    <3>4. QED  BY <3>2, <3>3
  <2>4. QED  BY <2>2, <2>3 DEF Fits
<1>5. \A q \in Server : op'[q] = "serve"
  <2>1. TAKE q \in Server
  <2>2. q \in Process  BY DEF Process
  <2>3. CASE q = p  BY <1>2, <2>1, <2>3
  <2>4. CASE q # p  BY <1>2, <2>1, <2>2, <2>4 DEF IInv
  <2>5. QED  BY <2>3, <2>4
<1>6. Sound' /\ (Sighted' <=> Sighted)
  <2>1. Recorded' = Recorded  BY DEF Recorded
  <2>2. QED  BY <2>1 DEF IInv, Sound, RowsSound, Sighted
<1>7. ASSUME NEW q \in Server \ overtaken' PROVE Checked(q)'
  <2>1. q \in Process  BY DEF Process
  <2>2. CASE q = p
    <3>1. pc'[q] = l  BY <1>2, <2>2
    <3>2. QED  BY <1>6, <1>7, <2>2, <3>1 DEF Checked, At
  <2>3. CASE q # p
    <3>1. q \in Server \ overtaken /\ pc'[q] = pc[q]  BY <1>2, <1>7, <2>1, <2>3
    <3>2. Checked(q)  BY <3>1 DEF IInv
    <3>3. QED  BY <1>6, <3>1, <3>2 DEF Checked, At
  <2>4. QED  BY <2>2, <2>3
<1>8. QED  BY <1>1, <1>3, <1>4, <1>5, <1>6, <1>7 DEF IInv

\* An unwritten plan or flag is one that is written back.
LEMMA WrittenBack ==
    ASSUME TypeOK, NEW p \in Process
    PROVE  /\ pc = [pc EXCEPT ![p] = pc[p]]
           /\ plan = [plan EXCEPT ![p] = plan[p]]
           /\ op = [op EXCEPT ![p] = op[p]]
           /\ pc[p] \in {"off", "serving"} \cup OnDatabase
           /\ plan[p] \in 0 .. LastMigration
           /\ op[p] \in {"serve", "up", "down"}
  BY DEF TypeOK

\* A process that ends holds no plan and is past no migration.
LEMMA ExitStep ==
    ASSUME IInv, NEW p \in Process, Exit(p), UNCHANGED op,
           tracked' \in BOOLEAN, reachable' \in BOOLEAN, downs' = downs,
           faults' \in 0 .. MaxFaults, UNCHANGED <<rows, serial, schema, raced>>
    PROVE  IInv'
<1>1. op' = [op EXCEPT ![p] = op[p]] /\ op[p] \in {"serve", "up", "down"}
  BY WrittenBack DEF IInv
<1>2. pc' = [pc EXCEPT ![p] = "off"] /\ plan' = [plan EXCEPT ![p] = 0]
  BY DEF Exit, GoTo
<1>3. 0 \in 0 .. LastMigration  BY DEF LastMigration
<1>4. downs' \in 0 .. MaxDowns  BY DEF IInv, TypeOK
<1>5. /\ p \in Server => op[p] = "serve"
      /\ overtaken' \subseteq Server /\ overtaken \ {p} \subseteq overtaken'
  BY DEF Exit, IInv, TypeOK
<1> DEFINE l == "off"
<1>6. l \notin {"current", "migrate", "after", "serving"} /\ l \in {"off", "serving"} \cup OnDatabase
  OBVIOUS
<1>7. pc' = [pc EXCEPT ![p] = l]  BY <1>2
<1> HIDE DEF l
<1>8. QED
  BY <1>1, <1>2, <1>3, <1>4, <1>5, <1>6, <1>7, QuietStep

\* The first migration's step onward: p goes to a label that is neither
\* "migrate" nor past its migration, to "current" past the missing ones only.
LEMMA MoveStep ==
    ASSUME IInv, NEW p \in Process, NEW l \in {"before", "create", "missing", "current"},
           GoTo(p, l), UNCHANGED <<op, plan, overtaken, rows, serial, schema, raced>>,
           l = "current" /\ op[p] = "serve" => Sighted,
           tracked' \in BOOLEAN, UnchangedEnv
    PROVE  IInv'
<1>1. op' = [op EXCEPT ![p] = op[p]] /\ op[p] \in {"serve", "up", "down"}
  BY WrittenBack DEF IInv
<1>2. plan' = [plan EXCEPT ![p] = plan[p]] /\ plan[p] \in 0 .. LastMigration
  BY WrittenBack DEF IInv
<1>3. pc' = [pc EXCEPT ![p] = l] /\ l # "migrate" /\ l # "after" /\ l # "serving"
  BY DEF GoTo
<1>4. l \in {"off", "serving"} \cup OnDatabase  BY DEF OnDatabase
<1>5. /\ reachable' \in BOOLEAN
      /\ downs' \in 0 .. MaxDowns /\ faults' \in 0 .. MaxFaults
  BY DEF UnchangedEnv, IInv, TypeOK
<1>6. /\ p \in Server => op[p] = "serve"
      /\ l = "current" /\ p \in Server => Sighted
      /\ overtaken' \subseteq Server /\ overtaken \ {p} \subseteq overtaken'
  BY DEF IInv, TypeOK
<1>7. UNCHANGED <<rows, serial, schema, raced>>  OBVIOUS
<1>8. QED
  BY <1>7, <1>1, <1>2, <1>3, <1>4, <1>5, <1>6, QuietStep

\* Starting a process: a tool that is told to go down counts as a down.
LEMMA StartStep ==
    ASSUME IInv, NEW p \in Process, NEW o \in {"serve", "up", "down"}, Start(p, o)
    PROVE  IInv'
<1> DEFINE l == IF p \in Configured THEN "ping"
                ELSE IF o = "serve" THEN "serving" ELSE "off"
<1>1. pc' = [pc EXCEPT ![p] = l] /\ op' = [op EXCEPT ![p] = o]
  BY DEF Start, GoTo
<1>2. plan' = [plan EXCEPT ![p] = plan[p]] /\ plan[p] \in 0 .. LastMigration
  BY WrittenBack DEF IInv, Start
<1>3. /\ l \in {"off", "serving"} \cup OnDatabase
      /\ l # "migrate" /\ l # "after" /\ l # "current"
      /\ ~(l = "serving" /\ p \in Configured)
  BY DEF OnDatabase
<1>4. downs' \in 0 .. MaxDowns  BY BoundsAssumption DEF Start, IInv, TypeOK
<1>5. /\ p \in Server => o = "serve"
      /\ overtaken' \subseteq Server /\ overtaken \ {p} \subseteq overtaken'
  BY DEF Start, IInv, TypeOK
<1>6. /\ reachable' \in BOOLEAN /\ tracked' \in BOOLEAN /\ faults' \in 0 .. MaxFaults
      /\ UNCHANGED <<rows, serial, schema, raced>>
  BY DEF Start, UnchangedDb, IInv, TypeOK
<1> HIDE DEF l
<1>7. QED
  BY <1>1, <1>2, <1>3, <1>4, <1>5, <1>6, QuietStep

\* Reading the version decides on the next migration, or ends the operation
\* with the whole schema in place.
LEMMA ReadStep ==
    ASSUME IInv, NEW p \in Process, ReadCurrent(p)
    PROVE  IInv'
<1>1. UNCHANGED op /\ UnchangedDb /\ UnchangedEnv  BY DEF ReadCurrent
<1>2. /\ tracked' \in BOOLEAN /\ reachable' \in BOOLEAN /\ faults' \in 0 .. MaxFaults
      /\ downs' \in 0 .. MaxDowns /\ downs' = downs
      /\ UNCHANGED <<rows, serial, schema, raced>>
  BY <1>1 DEF UnchangedDb, UnchangedEnv, IInv, TypeOK
<1>3. op' = [op EXCEPT ![p] = op[p]] /\ op[p] \in {"serve", "up", "down"}
  BY <1>1, WrittenBack DEF IInv
<1>4. \A n \in 0 .. LastMigration : Fits(n) => Current = n
  BY CurrentOfPrefix DEF Fits, IInv
<1>5. /\ p \in Server => op[p] = "serve"
      /\ p \in Server \ overtaken => Sighted
  BY DEF IInv, Checked, ReadCurrent, Query
<1>6. CASE Plan(p) \notin Migrations /\ Exit(p)
  BY <1>6, <1>1, <1>2, ExitStep
<1>7. CASE /\ Plan(p) \in Migrations /\ GoTo(p, "migrate") /\ plan' = [plan EXCEPT ![p] = Plan(p)]
           /\ UNCHANGED overtaken
  <2> DEFINE m == Plan(p)
  <2>1. m \in 0 .. LastMigration /\ m \in Migrations  BY <1>7 DEF Migrations, LastMigration
  <2>2. pc' = [pc EXCEPT ![p] = "migrate"] /\ plan' = [plan EXCEPT ![p] = m]
    BY <1>7 DEF GoTo
  <2>3. Decided(op[p], m)
    BY <1>4 DEF Decided, Plan, LastMigration
  <2>4. "migrate" \in {"off", "serving"} \cup OnDatabase  BY DEF OnDatabase
  <2> DEFINE l == "migrate"
             o == op[p]
  <2>5. /\ l \in {"off", "serving"} \cup OnDatabase /\ pc' = [pc EXCEPT ![p] = l]
        /\ l # "after" /\ l # "serving"
        /\ overtaken' \subseteq Server /\ overtaken \ {p} \subseteq overtaken'
        /\ p \in Server \ overtaken' => Sighted
    BY <1>5, <1>7, <2>2, <2>4 DEF IInv, TypeOK
  <2>6. /\ op' = [op EXCEPT ![p] = o] /\ o \in {"serve", "up", "down"}
        /\ p \in Server => o = "serve"
        /\ Decided(o, m)
        /\ plan' = [plan EXCEPT ![p] = m]
    BY <1>3, <1>5, <2>2, <2>3
  <2> HIDE DEF m, l, o
  <2>7. p \in Server \ overtaken' =>
            /\ l = "current" \/ l = "migrate" => Sighted
            /\ l = "after" \/ (l = "serving" /\ p \in Configured) => 6 \in schema
    BY <2>5
  <2>8. QED  BY <1>2, <2>1, <2>5, <2>6, <2>7, QuietStep
<1>8. CASE /\ Plan(p) \notin Migrations /\ op[p] # "down" /\ GoTo(p, "after")
           /\ UNCHANGED <<plan, overtaken>>
  <2>1. plan' = [plan EXCEPT ![p] = plan[p]] /\ plan[p] \in 0 .. LastMigration
    BY <1>8, WrittenBack DEF IInv
  <2>2. pc' = [pc EXCEPT ![p] = "after"]  BY <1>8 DEF GoTo
  <2>3. p \in Server \ overtaken => 6 \in schema
    <3>1. SUFFICES ASSUME Sighted PROVE 6 \in schema  BY <1>5
    <3>2. Current + 1 \notin Migrations  BY <1>8 DEF Plan
    <3>3. QED  BY <3>1, <3>2, LastIsThere DEF IInv
  <2> DEFINE l == "after"
  <2>4. /\ l \in {"off", "serving"} \cup OnDatabase /\ pc' = [pc EXCEPT ![p] = l]
        /\ l # "migrate" /\ l # "current"
        /\ overtaken' \subseteq Server /\ overtaken \ {p} \subseteq overtaken' /\ overtaken' = overtaken
    BY <1>8, <2>2 DEF IInv, TypeOK, OnDatabase
  <2> HIDE DEF l
  <2>5. QED  BY <1>2, <1>3, <1>5, <2>1, <2>3, <2>4, QuietStep
<1>9. \/ Plan(p) \notin Migrations /\ Exit(p)
      \/ /\ Plan(p) \in Migrations /\ GoTo(p, "migrate") /\ plan' = [plan EXCEPT ![p] = Plan(p)]
         /\ UNCHANGED overtaken
      \/ /\ Plan(p) \notin Migrations /\ op[p] # "down" /\ GoTo(p, "after")
         /\ UNCHANGED <<plan, overtaken>>
  BY DEF ReadCurrent
<1>10. QED  BY <1>6, <1>7, <1>8, <1>9

\* After a transaction commits: the prefix is the new one, and what the other
\* processes had decided still fits it, or a down has raced.
LEMMA CommitStep ==
    ASSUME IInv, NEW p \in Process, At(p, "migrate"), NEW l \in {"current", "after"},
           GoTo(p, l), plan' = [plan EXCEPT ![p] = 0], UNCHANGED <<op, tracked>>,
           UnchangedEnv, raced' = (raced \/ Races(p)),
           schema' \subseteq Migrations, rows' \subseteq [id : Nat, version : Migrations],
           serial' \in Nat,
           \A n \in 0 .. LastMigration : Fits(n) =>
               \E k \in 0 .. LastMigration :
                   /\ IsPrefix(k)'
                   /\ k = n \/ (k > n /\ op[p] # "down") \/ (k < n /\ op[p] = "down"),
           l = "after" => op[p] = "down",
           op[p] # "down" => /\ overtaken' = overtaken /\ schema \subseteq schema'
                             /\ Sighted => Sighted',
           op[p] = "down" => overtaken' = overtaken \cup Past,
           Sound'
    PROVE  IInv'
<1>1. TypeOK'
  <2>1. pc' \in [Process -> {"off", "serving"} \cup OnDatabase]
    BY DEF IInv, TypeOK, GoTo, OnDatabase
  <2>2. plan' \in [Process -> 0 .. LastMigration]  BY DEF IInv, TypeOK, LastMigration
  <2>3. raced' \in BOOLEAN  BY DEF IInv, TypeOK, Races
  <2>4. overtaken' \subseteq Server  BY DEF IInv, TypeOK, Past
  <2>5. QED  BY <2>1, <2>2, <2>3, <2>4 DEF IInv, TypeOK, UnchangedEnv
<1>2. /\ pc'[p] = l
      /\ \A q \in Process \ {p} : pc'[q] = pc[q] /\ plan'[q] = plan[q]
  <2>1. pc'[p] = l /\ \A q \in Process \ {p} : pc'[q] = pc[q]  BY DEF IInv, TypeOK, GoTo
  <2>2. \A q \in Process \ {p} : plan'[q] = plan[q]  BY DEF IInv, TypeOK
  <2>3. QED  BY <2>1, <2>2
<1>3. \A q \in Process : At(q, "migrate")' => q # p /\ At(q, "migrate")
  BY <1>2 DEF At
<1>4. \A q \in Process : At(q, "migrate")' => plan'[q] \in Migrations
  BY <1>2, <1>3 DEF IInv
<1>5. ASSUME ~raced' PROVE \E n \in 0 .. LastMigration : Fits(n)'
  <2>1. ~raced /\ ~Races(p)  BY <1>5
  <2>2. PICK n \in 0 .. LastMigration : Fits(n)  BY <2>1 DEF IInv
  <2>3. PICK k \in 0 .. LastMigration :
            /\ IsPrefix(k)'
            /\ k = n \/ (k > n /\ op[p] # "down") \/ (k < n /\ op[p] = "down")
    BY <2>2
  <2>4. PlansFit(k)'
    <3>1. SUFFICES ASSUME NEW q \in Process, At(q, "migrate")'
                   PROVE  IF op'[q] = "down" THEN plan'[q] = k ELSE plan'[q] =< k + 1
      BY DEF PlansFit
    <3>2. q # p /\ At(q, "migrate")  BY <1>3, <3>1
    <3>3. op[p] # "down" /\ op[q] # "down"  BY <2>1, <3>2 DEF Races
    <3>4. plan[q] =< n + 1  BY <2>2, <3>2, <3>3 DEF Fits, PlansFit
    <3>5. plan'[q] = plan[q] /\ op'[q] = op[q]  BY <1>2, <3>2
    <3>6. k >= n  BY <2>3, <3>3 DEF LastMigration
    <3>7. plan[q] \in 0 .. LastMigration  BY DEF IInv, TypeOK
    <3>8. plan[q] =< k + 1  BY <3>4, <3>6, <3>7 DEF LastMigration
    <3>9. QED  BY <3>3, <3>5, <3>8
  <2>5. QED  BY <2>3, <2>4 DEF Fits
<1>6. \A q \in Server : op'[q] = "serve"  BY DEF IInv
<1>7. ASSUME NEW q \in Server \ overtaken' PROVE Checked(q)'
  <2>1. q \in Process  BY DEF Process
  <2>2. CASE op[p] = "down"
    <3>1. q # p  BY <2>2 DEF IInv
    <3>2. pc'[q] = pc[q]  BY <1>2, <2>1, <3>1
    <3>3. q \notin Past  BY <1>7, <2>2
    <3>4. pc'[q] \notin {"current", "migrate", "after", "serving"}  BY <3>2, <3>3 DEF Past
    <3>5. QED  BY <3>4 DEF Checked, At
  <2>3. CASE op[p] # "down"
    <3>1. q \in Server \ overtaken /\ schema \subseteq schema' /\ (Sighted => Sighted') /\ l = "current"
      BY <1>7, <2>3
    <3>2. Checked(q)  BY <3>1 DEF IInv
    <3>3. CASE q = p
      <4>1. Sighted /\ pc'[q] = "current"  BY <1>2, <3>1, <3>2, <3>3 DEF Checked
      <4>2. QED  BY <3>1, <4>1 DEF Checked, At
    <3>4. CASE q # p
      <4>1. pc'[q] = pc[q]  BY <1>2, <2>1, <3>4
      <4>2. QED  BY <3>1, <3>2, <4>1 DEF Checked, At
    <3>5. QED  BY <3>3, <3>4
  <2>4. QED  BY <2>2, <2>3
<1>8. QED  BY <1>1, <1>4, <1>5, <1>6, <1>7 DEF IInv

\* A new row is the newest, and an up adds nothing without what it needs.
LEMMA UpSound ==
    ASSUME TypeOK, Sound, NEW v \in Migrations, Applies(v),
           schema' = schema \cup {v}, serial' = serial + 1,
           rows' = rows \cup {[id |-> serial + 1, version |-> v]}
    PROVE  Sound' /\ (Sighted => Sighted')
<1> DEFINE new == [id |-> serial + 1, version |-> v]
<1>1. rows' = rows \cup {new} /\ new.id = serial + 1 /\ new.version = v  OBVIOUS
<1> HIDE DEF new
<1>2. serial \in Nat /\ \A r \in rows : r.id \in Nat /\ r.id =< serial
  BY DEF TypeOK, Sound, RowsSound
<1>3. Recorded' = Recorded \cup {v}  BY <1>1 DEF Recorded
<1>4. /\ v \notin schema /\ References[v] \subseteq schema /\ (v = 6 => 5 \in schema)
  <2>1. References[6] = {}  BY DEF References, Migrations
  <2>2. QED  BY <2>1 DEF Applies
<1>5. \A w \in schema' : References[w] \subseteq schema'  BY <1>4 DEF Sound
<1>6. 6 \in schema' => 5 \in schema'  BY <1>4 DEF Sound
<1>7. schema' \subseteq Recorded' /\ Recorded' \subseteq schema' \cup {6}  BY <1>3 DEF Sound
<1>8. \A r \in rows' : r.id =< serial'  BY <1>1, <1>2
<1>9. ASSUME 5 \in schema', 6 \notin schema', NEW r \in rows', NEW s \in rows', r.version = 5, s.version = 6
      PROVE  s.id < r.id
  <2>1. v # 6 /\ s \in rows  BY <1>1, <1>9
  <2>2. CASE v = 5
    <3>1. 5 \notin Recorded  BY <1>4, <2>2 DEF Sound
    <3>2. r = new  BY <1>1, <1>9, <3>1 DEF Recorded
    <3>3. QED  BY <1>1, <1>2, <2>1, <3>2
  <2>3. CASE v # 5
    <3>1. r \in rows /\ 5 \in schema /\ 6 \notin schema  BY <1>1, <1>9, <2>3
    <3>2. QED  BY <1>9, <2>1, <3>1 DEF Sound, RowsSound
  <2>4. QED  BY <2>2, <2>3
<1>10. Sighted => Sighted'  BY <1>3, <1>4 DEF Sighted
<1>11. QED  BY <1>5, <1>6, <1>7, <1>8, <1>9, <1>10 DEF Sound, RowsSound

\* A down takes away nothing that a change which stays stands on.
LEMMA DownSound ==
    ASSUME TypeOK, Sound, NEW v \in Migrations, RollsBack(v),
           schema' = Without(v), serial' = serial, rows' = {r \in rows : r.version # v}
    PROVE  Sound'
<1>1. References[6] = {}  BY DEF References, Migrations
<1>2. \A w \in schema : v \notin References[w]  BY <1>1 DEF RollsBack
<1>3. schema' \subseteq schema \ {v} /\ (v # 5 => schema' = schema \ {v}) /\ (v = 5 => schema' = schema \ {5, 6})
  BY DEF Without
<1>4. Recorded' = Recorded \ {v}  BY DEF Recorded
<1>5. \A w \in schema' : References[w] \subseteq schema'
  <2>1. TAKE w \in schema'
  <2>2. w \in schema /\ References[w] \subseteq schema /\ v \notin References[w]  BY <1>2, <1>3 DEF Sound
  <2>3. 6 \notin References[w]
    <3>1. w \in Migrations  BY <1>3, <2>2 DEF TypeOK
    <3>2. QED  BY <3>1 DEF References, Migrations
  <2>4. QED  BY <1>3, <2>2, <2>3
<1>6. 6 \in schema' => 5 \in schema'
  <2>1. CASE v = 5  BY <1>3, <2>1
  <2>2. CASE v # 5  BY <1>3, <2>2 DEF Sound
  <2>3. QED  BY <2>1, <2>2
<1>7. schema' \subseteq Recorded' /\ Recorded' \subseteq schema' \cup {6}  BY <1>3, <1>4 DEF Sound
<1>8. RowsSound'
  <2>1. \A r \in rows' : r.id =< serial'  BY DEF Sound, RowsSound
  <2>2. ASSUME 5 \in schema', 6 \notin schema', NEW r \in rows', NEW s \in rows', r.version = 5, s.version = 6
        PROVE  s.id < r.id
    <3>1. v # 5 /\ v # 6 /\ r \in rows /\ s \in rows  BY <1>3, <2>2
    <3>2. 5 \in schema /\ 6 \notin schema  BY <1>3, <2>2, <3>1
    <3>3. QED  BY <2>2, <3>1, <3>2 DEF Sound, RowsSound
  <2>3. QED  BY <2>1, <2>2 DEF RowsSound
<1>9. QED  BY <1>5, <1>6, <1>7, <1>8 DEF Sound

\* The transaction of an up appends the next migration or fails.
LEMMA UpStep ==
    ASSUME IInv, NEW p \in Process, Up(p)
    PROVE  IInv'
<1>1. /\ At(p, "migrate") /\ op[p] # "down" /\ plan[p] \in Migrations
      /\ UNCHANGED <<op, tracked>> /\ UnchangedEnv
  BY DEF Up, Query, IInv
<1>2. CASE ~Applies(plan[p])
  <2>1. Exit(p) /\ UNCHANGED <<rows, serial, schema, raced>>  BY <1>2 DEF Up
  <2>2. /\ tracked' \in BOOLEAN /\ reachable' \in BOOLEAN /\ faults' \in 0 .. MaxFaults
        /\ downs' = downs
    BY <1>1 DEF UnchangedEnv, IInv, TypeOK
  <2>3. QED  BY <1>1, <2>1, <2>2, ExitStep
<1>3. CASE Applies(plan[p])
  <2> DEFINE v == plan[p]
  <2>1. /\ schema' = schema \cup {v}
        /\ rows' = rows \cup {[id |-> serial + 1, version |-> v]}
        /\ serial' = serial + 1
        /\ raced' = (raced \/ Races(p))
        /\ GoTo(p, "current")
        /\ plan' = [plan EXCEPT ![p] = 0]
        /\ UNCHANGED overtaken
    BY <1>3 DEF Up
  <2>2. v \in Migrations /\ v \notin schema  BY <1>1, <1>3 DEF Applies
  <2>3. /\ schema' \subseteq Migrations /\ rows' \subseteq [id : Nat, version : Migrations]
        /\ serial' \in Nat
    BY <2>1, <2>2 DEF IInv, TypeOK
  <2>4. ASSUME NEW n \in 0 .. LastMigration, Fits(n)
        PROVE  \E k \in 0 .. LastMigration : IsPrefix(k)' /\ k > n
    <3>1. v =< n + 1  BY <1>1, <2>4 DEF Fits, PlansFit
    <3>2. v \notin 1 .. n  BY <2>2, <2>4 DEF Fits, IsPrefix
    <3>3. v = n + 1 /\ n < LastMigration
      BY <3>1, <3>2, <2>2 DEF Migrations, LastMigration
    <3> HIDE DEF v
    <3>4. IsPrefix(n + 1)'
      <4>1. TypeOK /\ IsPrefix(n)  BY <2>4 DEF Fits, IInv
      <4>2. /\ schema' = schema \cup {n + 1} /\ serial' = serial + 1
            /\ rows' = rows \cup {[id |-> serial + 1, version |-> n + 1]}
        BY <2>1, <3>3
      <4>3. QED  BY <3>3, <4>1, <4>2, PrefixGrows
    <3>5. n + 1 \in 0 .. LastMigration /\ n + 1 > n  BY <3>3 DEF LastMigration
    <3>6. QED  BY <3>4, <3>5
  <2>5. /\ schema \subseteq schema' /\ overtaken' = overtaken
        /\ Sound' /\ (Sighted => Sighted')
    <3>1. v \in Migrations /\ Applies(v) /\ TypeOK /\ Sound  BY <1>1, <1>3 DEF IInv
    <3> HIDE DEF v
    <3>2. Sound' /\ (Sighted => Sighted')  BY <2>1, <3>1, UpSound
    <3>3. QED  BY <2>1, <3>2
  <2> DEFINE l == "current"
  <2>6. l \in {"current", "after"} /\ l # "after" /\ GoTo(p, l)  BY <2>1
  <2> HIDE DEF v, l
  <2>7. QED  BY <1>1, <2>1, <2>3, <2>4, <2>5, <2>6, CommitStep
<1>4. QED  BY <1>2, <1>3

\* The transaction of a down takes back the last migration or fails.
LEMMA DownStep ==
    ASSUME IInv, NEW p \in Process, Down(p)
    PROVE  IInv'
<1>1. /\ At(p, "migrate") /\ op[p] = "down" /\ plan[p] \in Migrations
      /\ UNCHANGED <<op, tracked, serial>> /\ UnchangedEnv
  BY DEF Down, Query, IInv
<1>2. CASE ~RollsBack(plan[p])
  <2>1. Exit(p) /\ UNCHANGED <<rows, serial, schema, raced>>  BY <1>1, <1>2 DEF Down
  <2>2. /\ tracked' \in BOOLEAN /\ reachable' \in BOOLEAN /\ faults' \in 0 .. MaxFaults
        /\ downs' = downs
    BY <1>1 DEF UnchangedEnv, IInv, TypeOK
  <2>3. QED  BY <1>1, <2>1, <2>2, ExitStep
<1>3. CASE RollsBack(plan[p])
  <2> DEFINE v == plan[p]
  <2>1. /\ schema' = Without(v)
        /\ rows' = {r \in rows : r.version # v}
        /\ raced' = (raced \/ Races(p))
        /\ GoTo(p, "after")
        /\ plan' = [plan EXCEPT ![p] = 0]
        /\ overtaken' = overtaken \cup Past
    BY <1>3 DEF Down
  <2>2. /\ schema' \subseteq Migrations /\ rows' \subseteq [id : Nat, version : Migrations]
        /\ serial' \in Nat
    BY <1>1, <2>1 DEF IInv, TypeOK, Without
  <2>3. ASSUME NEW n \in 0 .. LastMigration, Fits(n)
        PROVE  \E k \in 0 .. LastMigration : IsPrefix(k)' /\ k < n
    <3>1. v = n /\ n \in 1 .. LastMigration
      BY <1>1, <2>3 DEF Fits, PlansFit, Migrations, LastMigration
    <3> HIDE DEF v
    <3>2. IsPrefix(n - 1)'
      BY <1>1, <2>1, <2>3, <3>1, PrefixShrinks DEF Fits, IInv
    <3>3. n - 1 \in 0 .. LastMigration /\ n - 1 < n  BY <3>1 DEF LastMigration
    <3>4. QED  BY <3>2, <3>3
  <2>4. Sound'
    <3>1. v \in Migrations /\ RollsBack(v) /\ TypeOK /\ Sound /\ serial' = serial
      BY <1>1, <1>3 DEF IInv
    <3> HIDE DEF v
    <3>2. QED  BY <2>1, <3>1, DownSound
  <2> DEFINE l == "after"
  <2>5. l \in {"current", "after"} /\ GoTo(p, l)  BY <2>1
  <2> HIDE DEF v, l
  <2>6. QED  BY <1>1, <2>1, <2>2, <2>3, <2>4, <2>5, CommitStep
<1>4. QED  BY <1>2, <1>3

\* Every step preserves the invariant.
LEMMA NextPreserves ==
    ASSUME IInv, [Next]_vars PROVE IInv'
<1>1. ASSUME NEW p \in Process, Step(p) PROVE IInv'
  <2>1. CASE Ping(p)
    <3>1. GoTo(p, "before") /\ UNCHANGED <<op, plan, overtaken, rows, serial, schema, raced, tracked>>
          /\ UnchangedEnv
      BY <2>1 DEF Ping, UnchangedDb
    <3>2. tracked' \in BOOLEAN  BY <3>1 DEF IInv, TypeOK
    <3>3. QED  BY <3>1, <3>2, MoveStep
  <2>2. CASE ReadBefore(p)
    <3>1. PICK l \in {"create", "current", "missing"} : GoTo(p, l) /\ (l = "current" => op[p] = "down")
      BY <2>2 DEF ReadBefore, AfterEnsure
    <3>2. UNCHANGED <<op, plan, overtaken, rows, serial, schema, raced, tracked>> /\ UnchangedEnv
      BY <2>2 DEF ReadBefore, UnchangedDb
    <3>3. tracked' \in BOOLEAN  BY <3>2 DEF IInv, TypeOK
    <3>4. QED  BY <3>1, <3>2, <3>3, MoveStep
  <2>3. CASE Create(p)
    <3>1. UNCHANGED <<op, rows, serial, schema, raced>> /\ UnchangedEnv /\ tracked' \in BOOLEAN
      BY <2>3 DEF Create
    <3>2. CASE tracked
      <4>1. Exit(p)  BY <2>3, <3>2 DEF Create
      <4>2. reachable' \in BOOLEAN /\ downs' = downs /\ faults' \in 0 .. MaxFaults
        BY <3>1 DEF UnchangedEnv, IInv, TypeOK
      <4>3. QED  BY <3>1, <4>1, <4>2, ExitStep
    <3>3. CASE ~tracked
      <4>1. PICK l \in {"current", "missing"} : GoTo(p, l) /\ (l = "current" => op[p] = "down")
        BY <2>3, <3>3 DEF Create, AfterEnsure
      <4>2. UNCHANGED <<plan, overtaken>>  BY <2>3, <3>3 DEF Create
      <4>3. QED  BY <3>1, <4>1, <4>2, MoveStep
    <3>4. QED  BY <3>2, <3>3
  <2>4. CASE FindMissing(p)
    <3>1. UNCHANGED <<op, rows, serial, schema, raced, tracked>> /\ UnchangedEnv
      BY <2>4 DEF FindMissing, UnchangedDb
    <3>2. tracked' \in BOOLEAN  BY <3>1 DEF IInv, TypeOK
    <3>3. CASE Exit(p)
      <4>1. reachable' \in BOOLEAN /\ downs' = downs /\ faults' \in 0 .. MaxFaults
        BY <3>1 DEF UnchangedEnv, IInv, TypeOK
      <4>2. QED  BY <3>1, <3>2, <3>3, <4>1, ExitStep
    <3>4. CASE Missing = {} /\ GoTo(p, "current") /\ UNCHANGED <<plan, overtaken>>
      <4>1. Sighted
        <5>1. 6 \in Recorded => 5 \in Recorded  BY <3>4 DEF Missing, Migrations
        <5>2. QED  BY <5>1 DEF Sighted, IInv, Sound
      <4> DEFINE l == "current"
      <4>2. l \in {"before", "create", "missing", "current"} /\ GoTo(p, l)  BY <3>4
      <4> HIDE DEF l
      <4>3. QED  BY <3>1, <3>2, <3>4, <4>1, <4>2, MoveStep
    <3>5. QED  BY <2>4, <3>3, <3>4 DEF FindMissing
  <2>5. CASE ReadCurrent(p)  BY <2>5, ReadStep
  <2>6. CASE Up(p)  BY <2>6, UpStep
  <2>7. CASE Down(p)  BY <2>7, DownStep
  <2>8. CASE ReadAfter(p)
    <3> DEFINE l == IF op[p] = "serve" THEN "serving" ELSE "off"
    <3>1. pc' = [pc EXCEPT ![p] = l] /\ UNCHANGED <<op, plan, overtaken, rows, serial, schema, raced, tracked>>
          /\ UnchangedEnv /\ At(p, "after")
      BY <2>8 DEF ReadAfter, UnchangedDb, GoTo, Query
    <3>2. /\ tracked' \in BOOLEAN /\ reachable' \in BOOLEAN
          /\ downs' \in 0 .. MaxDowns /\ faults' \in 0 .. MaxFaults
      BY <3>1 DEF IInv, TypeOK, UnchangedEnv
    <3>3. /\ op' = [op EXCEPT ![p] = op[p]] /\ op[p] \in {"serve", "up", "down"}
          /\ plan' = [plan EXCEPT ![p] = plan[p]] /\ plan[p] \in 0 .. LastMigration
      BY <3>1, WrittenBack DEF IInv
    <3>4. /\ l \in {"off", "serving"} \cup OnDatabase /\ pc' = [pc EXCEPT ![p] = l]
          /\ l \notin {"current", "migrate", "after"}
      BY <3>1
    <3>5. /\ p \in Server => op[p] = "serve"
          /\ p \in Server \ overtaken' => 6 \in schema
          /\ overtaken' \subseteq Server /\ overtaken \ {p} \subseteq overtaken'
      BY <3>1 DEF IInv, TypeOK, Checked
    <3>6. UNCHANGED <<rows, serial, schema, raced>>  BY <3>1
    <3> DEFINE m == plan[p]
               o == op[p]
    <3>7. /\ op' = [op EXCEPT ![p] = o] /\ o \in {"serve", "up", "down"}
          /\ plan' = [plan EXCEPT ![p] = m] /\ m \in 0 .. LastMigration
          /\ p \in Server => o = "serve"
      BY <3>3, <3>5
    <3> HIDE DEF l, m, o
    <3>8. QED  BY <3>2, <3>4, <3>5, <3>6, <3>7, QuietStep
  <2>9. CASE Fail(p)
    <3>1. Exit(p) /\ UNCHANGED <<op, rows, serial, schema, raced, tracked>> /\ UnchangedEnv
      BY <2>9 DEF Fail, UnchangedDb
    <3>2. /\ tracked' \in BOOLEAN /\ reachable' \in BOOLEAN
          /\ downs' = downs /\ faults' \in 0 .. MaxFaults
      BY <3>1 DEF IInv, TypeOK, UnchangedEnv
    <3>3. QED  BY <3>1, <3>2, ExitStep
  <2>10. QED
    BY <1>1, <2>1, <2>2, <2>3, <2>4, <2>5, <2>6, <2>7, <2>8, <2>9 DEF Step
<1>2. ASSUME NEW p \in Process, Kill(p) PROVE IInv'
  <2>1. Exit(p) /\ UNCHANGED <<op, rows, serial, schema, raced, tracked, reachable>>
        /\ downs' = downs
    BY <1>2 DEF Kill, UnchangedDb
  <2>2. tracked' \in BOOLEAN /\ reachable' \in BOOLEAN  BY <2>1 DEF IInv, TypeOK
  <2>3. faults' \in 0 .. MaxFaults
    BY <1>2, BoundsAssumption DEF Kill, IInv, TypeOK
  <2>4. QED  BY <2>1, <2>2, <2>3, ExitStep
<1>3. ASSUME Lose \/ Recover \/ UNCHANGED vars PROVE IInv'
  <2>1. UNCHANGED <<pc, op, plan, tracked, rows, serial, schema, raced, overtaken, downs>>
    BY <1>3 DEF Lose, Recover, UnchangedDb, vars
  <2>2. reachable' \in BOOLEAN /\ faults' \in 0 .. MaxFaults
    <3>1. CASE Lose
      <4>1. reachable' = FALSE  BY <3>1 DEF Lose
      <4>2. faults' = faults + 1 /\ faults < MaxFaults /\ faults \in 0 .. MaxFaults
        BY <3>1 DEF Lose, IInv, TypeOK
      <4>3. faults' \in 0 .. MaxFaults  BY <4>2, BoundsAssumption
      <4>4. QED  BY <4>1, <4>3
    <3>2. CASE Recover
      <4>1. reachable' = TRUE  BY <3>2 DEF Recover
      <4>2. faults' \in 0 .. MaxFaults  BY <3>2 DEF Recover, IInv, TypeOK
      <4>3. QED  BY <4>1, <4>2
    <3>3. CASE UNCHANGED vars  BY <3>3 DEF vars, IInv, TypeOK
    <3>4. QED  BY <1>3, <3>1, <3>2, <3>3
  <2>3. TypeOK'  BY <2>1, <2>2 DEF IInv, TypeOK
  <2>4. \A p \in Process : At(p, "migrate")' => plan'[p] \in Migrations
    BY <2>1 DEF IInv, At
  <2>5. ~raced' => \E n \in 0 .. LastMigration : Fits(n)'
    BY <2>1 DEF IInv, Fits, IsPrefix, Recorded, PlansFit, At
  <2>6. Sound' /\ (Sighted' <=> Sighted)
    <3>1. Recorded' = Recorded  BY <2>1 DEF Recorded
    <3>2. QED  BY <2>1, <3>1 DEF IInv, Sound, RowsSound, Sighted
  <2>7. \A p \in Server \ overtaken' : Checked(p)'
    BY <2>1, <2>6 DEF IInv, Checked, At
  <2>8. \A p \in Server : op'[p] = "serve"
    BY <2>1 DEF IInv
  <2>9. QED  BY <2>3, <2>4, <2>5, <2>6, <2>7, <2>8 DEF IInv
<1>4. ASSUME NEW p \in Process, NEW o \in {"serve", "up", "down"}, Start(p, o) PROVE IInv'
  BY <1>4, StartStep
<1>5. QED  BY <1>1, <1>2, <1>3, <1>4 DEF Next

LEMMA InductiveInvariant == Spec => []IInv
<1>1. Init => IInv  BY InitHolds
<1>2. IInv /\ [Next]_vars => IInv'  BY NextPreserves
<1>3. QED  BY <1>1, <1>2, PTL DEF Spec

-----------------------------------------------------------------------------
(* The theorems. *)

\* Every variable keeps its type.
THEOREM TypeCorrect == Spec => []TypeOK
<1>1. IInv => TypeOK  BY DEF IInv
<1>2. QED  BY <1>1, InductiveInvariant, PTL

\* However many processes migrate at once without a lock, and wherever they
\* are killed, the database holds a prefix of the migrations, each recorded
\* once, unless a down has come between a read and its commit.
THEOREM SchemaCorrect == Spec => []SchemaIsPrefix
<1>1. IInv => SchemaIsPrefix  BY DEF IInv, SchemaIsPrefix, Fits
<1>2. QED  BY <1>1, InductiveInvariant, PTL

\* A server that answers 200 serves the whole schema, as migrate.go says, unless
\* a down has committed since it looked for missing migrations: whatever races
\* there were before, and whatever they have left in the version table.
THEOREM ReadinessCorrect == Spec => []ReadyUnlessOvertaken
<1>1. IInv => ReadyUnlessOvertaken
  <2>1. SUFFICES ASSUME IInv, NEW p \in Server \ overtaken, At(p, "serving"),
                        Readiness(p) = "ok"
                 PROVE  schema = Migrations
    BY DEF ReadyUnlessOvertaken
  <2>2. p \in Configured  BY <2>1 DEF Readiness
  <2>3. 6 \in schema  BY <2>1, <2>2 DEF IInv, Checked
  <2>4. QED  BY <2>1, <2>3, SixNeedsAll DEF IInv, TypeOK
<1>2. QED  BY <1>1, InductiveInvariant, PTL

\* A down that has not raced takes back the latest migration and no other.
THEOREM DownCorrect == Spec => TakesBackTheLatest
<1> DEFINE Shrinks == schema' \subseteq schema /\ schema' # schema /\ ~raced'
           Latest == \E v \in schema : schema' = schema \ {v} /\ \A w \in schema : w =< v
<1>1. ASSUME IInv, Next, Shrinks PROVE Latest
  <2>1. PICK p \in Process : Down(p)
    <3>1. ~(Lose \/ Recover)  BY <1>1 DEF Lose, Recover, UnchangedDb
    <3>2. \A p \in Process : ~Kill(p) /\ \A o \in {"serve", "up", "down"} : ~Start(p, o)
      BY <1>1 DEF Kill, Start, UnchangedDb
    <3>3. \A p \in Process :
            /\ ~Ping(p) /\ ~ReadBefore(p) /\ ~Create(p) /\ ~FindMissing(p)
            /\ ~ReadCurrent(p) /\ ~Up(p) /\ ~ReadAfter(p) /\ ~Fail(p)
      BY <1>1 DEF Ping, ReadBefore, Create, FindMissing, ReadCurrent, Up, ReadAfter, Fail,
                  UnchangedDb
    <3>4. QED  BY <1>1, <3>1, <3>2, <3>3 DEF Next, Step
  <2>2. RollsBack(plan[p]) /\ ~raced
    BY <1>1, <2>1 DEF Down
  <2>3. PICK n \in 0 .. LastMigration : Fits(n)  BY <1>1, <2>2 DEF IInv
  <2>4. plan[p] = n /\ n \in 1 .. LastMigration
    BY <1>1, <2>1, <2>3 DEF Down, Query, Fits, PlansFit, IInv, Migrations, LastMigration
  <2>5. /\ schema' = Without(n) /\ serial' = serial
        /\ rows' = {r \in rows : r.version # n}
    BY <2>1, <2>2, <2>4 DEF Down
  <2>6. schema' = schema \ {n}
    BY <1>1, <2>3, <2>4, <2>5, PrefixShrinks DEF Fits, IInv
  <2>7. schema = 1 .. n  BY <2>3 DEF Fits, IsPrefix
  <2>8. n \in schema /\ \A w \in schema : w =< n
    BY <2>4, <2>7 DEF LastMigration
  <2>9. QED  BY <2>6, <2>8
<1>2. IInv /\ [Next]_vars => [Shrinks => Latest]_vars
  <2>1. SUFFICES ASSUME IInv, Next, Shrinks PROVE Latest  OBVIOUS
  <2>2. QED  BY <1>1, <2>1
<1>3. QED  BY <1>2, InductiveInvariant, PTL DEF Spec, TakesBackTheLatest
=============================================================================
