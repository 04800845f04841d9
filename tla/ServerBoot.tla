------------------------------ MODULE ServerBoot ------------------------------
(***************************************************************************)
(* cmd/server run and internal/db runMigrations: servers that boot, and    *)
(* `make migrate` / `make migrate-down` beside them, against one database. *)
(* goose (external, v3) takes no lock.  It reads the version table, runs   *)
(* one migration and its version row in one transaction, and reads again;  *)
(* another process may commit between the read and the transaction.        *)
(***************************************************************************)
EXTENDS Integers, FiniteSets, FiniteSetsExt

CONSTANTS
    Server,     \* processes started without -migrate; the container restarts
    Tool,       \* host-side processes started with -migrate=up or =down
    Configured, \* the processes whose configuration gives a db_url
    MaxDowns,   \* how many times -migrate=down is run
    MaxFaults   \* how many times a process is killed, or the database is lost

Process == Server \cup Tool

ASSUME ProcessAssumption == Server \cap Tool = {} /\ Configured \subseteq Process
ASSUME BoundsAssumption == MaxDowns \in Nat /\ MaxFaults \in Nat

\* The bundled files 0001 to 0006.
Migrations == 1 .. 6
LastMigration == 6

\* Files 0001 to 0005 create one table each; its foreign keys name these.
References ==
    [v \in Migrations |-> CASE v = 3 -> {2}    [] v = 4 -> {1, 3}
                            [] v = 5 -> {1, 4} [] OTHER -> {}]

VARIABLES
    pc,        \* where each process stands
    op,        \* its -migrate flag; "serve" when it is empty
    plan,      \* the migration it has decided to run; 0 when none
    tracked,   \* goose_db_version exists
    rows,      \* its rows: which version was recorded, and in which order
    serial,    \* the id of the last row inserted
    schema,    \* the migrations whose change is in the database
    reachable, \* the database answers
    raced,     \* history: a down met another process's read and its commit
    overtaken, \* history: servers past the look for missing migrations when a
               \* down committed
    downs,     \* history: how many times -migrate=down was run
    faults     \* history: how many faults have happened

vars == <<pc, op, plan, tracked, rows, serial, schema, reachable, raced, overtaken, downs, faults>>

OnDatabase == {"ping", "before", "create", "missing", "current", "migrate", "after"}

TypeOK ==
    /\ pc \in [Process -> {"off", "serving"} \cup OnDatabase]
    /\ op \in [Process -> {"serve", "up", "down"}]
    /\ plan \in [Process -> 0 .. LastMigration]
    /\ tracked \in BOOLEAN
    /\ rows \subseteq [id : Nat, version : Migrations]
    /\ serial \in Nat
    /\ schema \subseteq Migrations
    /\ reachable \in BOOLEAN
    /\ raced \in BOOLEAN
    /\ overtaken \subseteq Server
    /\ downs \in 0 .. MaxDowns
    /\ faults \in 0 .. MaxFaults

Init ==
    /\ pc = [p \in Process |-> "off"]
    /\ op = [p \in Process |-> "serve"]
    /\ plan = [p \in Process |-> 0]
    /\ tracked = FALSE
    /\ rows = {}
    /\ serial = 0
    /\ schema = {}
    /\ reachable = TRUE
    /\ raced = FALSE
    /\ overtaken = {}
    /\ downs = 0
    /\ faults = 0

-----------------------------------------------------------------------------
(* What goose reads, and what a migration does to the database. *)

Recorded == {r.version : r \in rows}

\* Mutant: the rows are read oldest first.
Current_Oldest == IF rows = {} THEN 0
                  ELSE (CHOOSE r \in rows : \A s \in rows : r.id =< s.id).version

\* The version of the row inserted last; 0 in a virgin database.
Current == IF rows = {} THEN 0
           ELSE (CHOOSE r \in rows : \A s \in rows : s.id =< r.id).version

\* Bundled versions below the highest recorded one that are not recorded.
Missing == {v \in Migrations \ Recorded : \E w \in Recorded : v < w}

\* Mutant: CREATE TABLE IF NOT EXISTS.
Applies_IfNotExists(v) ==
    IF v = 6 THEN 5 \in schema /\ 6 \notin schema ELSE References[v] \subseteq schema

\* The Up block of v runs through: no table or column of it exists yet, and
\* the tables it names do.
Applies(v) ==
    /\ v \notin schema
    /\ IF v = 6 THEN 5 \in schema ELSE References[v] \subseteq schema

\* The Down block of v runs through: no foreign key holds its table.
RollsBack(v) ==
    /\ v \in schema
    /\ \A w \in schema \ {6} : v \notin References[w]

\* 0006 is a column of 0005's table, and is dropped with it.
Without(v) == schema \ (IF v = 5 THEN {5, 6} ELSE {v})

-----------------------------------------------------------------------------
(* One process: cmd/server/main.go run, with runMigrations inside it. *)

At(p, l) == pc[p] = l
GoTo(p, l) == pc' = [pc EXCEPT ![p] = l]
UnchangedDb == UNCHANGED <<tracked, rows, serial, schema, raced>>
UnchangedEnv == UNCHANGED <<reachable, downs, faults>>

\* Every error run returns ends the process: main exits with status 1.
Exit(p) ==
    /\ GoTo(p, "off")
    /\ plan' = [plan EXCEPT ![p] = 0]
    /\ overtaken' = overtaken \ {p}

Query(p, l) == At(p, l) /\ reachable

\* The flag and the configuration are read.  Without a db_url a server goes
\* straight to serveOnly with no pool, and -migrate is an error.
Start(p, o) ==
    /\ At(p, "off")
    /\ p \in Server <=> o = "serve"
    /\ o = "down" => downs < MaxDowns
    /\ op' = [op EXCEPT ![p] = o]
    /\ downs' = IF o = "down" THEN downs + 1 ELSE downs
    /\ GoTo(p, IF p \in Configured THEN "ping"
               ELSE IF o = "serve" THEN "serving" ELSE "off")
    /\ UNCHANGED <<plan, reachable, overtaken, faults>>
    /\ UnchangedDb

\* NewPool's ping.
Ping(p) ==
    /\ Query(p, "ping")
    /\ GoTo(p, "before")
    /\ UNCHANGED <<op, plan, overtaken>> /\ UnchangedDb /\ UnchangedEnv

\* A down reads the version; an up first lists all of them.
AfterEnsure(p) == IF op[p] = "down" THEN "current" ELSE "missing"

\* currentVersion before the operation: goose looks for its version table.
ReadBefore(p) ==
    /\ Query(p, "before")
    /\ GoTo(p, IF tracked THEN AfterEnsure(p) ELSE "create")
    /\ UNCHANGED <<op, plan, overtaken>> /\ UnchangedDb /\ UnchangedEnv

\* It found none and creates it, unless another process just has.
Create(p) ==
    /\ Query(p, "create")
    /\ IF tracked THEN Exit(p) ELSE GoTo(p, AfterEnsure(p)) /\ UNCHANGED <<plan, overtaken>>
    /\ tracked' = TRUE
    /\ UNCHANGED <<op, rows, serial, schema, raced>> /\ UnchangedEnv

\* Mutant: only the version of the last row counts.
FindMissing_LastOnly(p) ==
    /\ Query(p, "missing")
    /\ GoTo(p, "current")
    /\ UNCHANGED <<op, plan, overtaken>> /\ UnchangedDb /\ UnchangedEnv

\* goose up refuses a database that has skipped a bundled migration.
FindMissing(p) ==
    /\ Query(p, "missing")
    /\ IF Missing # {} THEN Exit(p) ELSE GoTo(p, "current") /\ UNCHANGED <<plan, overtaken>>
    /\ UNCHANGED op /\ UnchangedDb /\ UnchangedEnv

\* Mutant: a down is run for the version before the current one.
Plan_Previous(p) == IF op[p] = "down" /\ Current > 1 THEN Current - 1
                    ELSE IF op[p] = "down" THEN Current ELSE Current + 1

\* The migration the version calls for.
Plan(p) == IF op[p] = "down" THEN Current ELSE Current + 1

\* goose up ends when no migration is left; goose down has none to roll back
\* in a virgin database, which is an error.
ReadCurrent(p) ==
    /\ Query(p, "current")
    /\ \/ /\ Plan(p) \in Migrations
          /\ GoTo(p, "migrate")
          /\ plan' = [plan EXCEPT ![p] = Plan(p)]
          /\ UNCHANGED overtaken
       \/ Plan(p) \notin Migrations /\ op[p] = "down" /\ Exit(p)
       \/ /\ Plan(p) \notin Migrations /\ op[p] # "down"
          /\ GoTo(p, "after")
          /\ UNCHANGED <<plan, overtaken>>
    /\ UNCHANGED op /\ UnchangedDb /\ UnchangedEnv

\* A transaction of p commits while q has read the version and not committed.
Races(p) == \E q \in Process \ {p} : At(q, "migrate") /\ "down" \in {op[p], op[q]}

\* The transaction of an up: the migration and its row, or neither.
Up(p) ==
    /\ Query(p, "migrate") /\ op[p] # "down"
    /\ IF Applies(plan[p])
       THEN /\ schema' = schema \cup {plan[p]}
            /\ rows' = rows \cup {[id |-> serial + 1, version |-> plan[p]]}
            /\ serial' = serial + 1
            /\ raced' = (raced \/ Races(p))
            /\ GoTo(p, "current")
            /\ plan' = [plan EXCEPT ![p] = 0]
            /\ UNCHANGED overtaken
       ELSE Exit(p) /\ UNCHANGED <<rows, serial, schema, raced>>
    /\ UNCHANGED <<op, tracked>> /\ UnchangedEnv

\* The servers that will not look for missing migrations again.
Past == {q \in Server : pc[q] \in {"current", "migrate", "after", "serving"}}

\* The transaction of a down.
Down(p) ==
    /\ Query(p, "migrate") /\ op[p] = "down"
    /\ IF RollsBack(plan[p])
       THEN /\ schema' = Without(plan[p])
            /\ rows' = {r \in rows : r.version # plan[p]}
            /\ raced' = (raced \/ Races(p))
            /\ overtaken' = overtaken \cup Past
            /\ GoTo(p, "after")
            /\ plan' = [plan EXCEPT ![p] = 0]
       ELSE Exit(p) /\ UNCHANGED <<rows, schema, raced>>
    /\ UNCHANGED <<op, tracked, serial>> /\ UnchangedEnv

\* currentVersion after the operation is read for the log only; a server goes
\* on to serveOnly, a tool exits.
ReadAfter(p) ==
    /\ Query(p, "after")
    /\ GoTo(p, IF op[p] = "serve" THEN "serving" ELSE "off")
    /\ UNCHANGED <<op, plan, overtaken>> /\ UnchangedDb /\ UnchangedEnv

\* A query fails because the database does not answer.
Fail(p) ==
    /\ pc[p] \in OnDatabase /\ ~reachable
    /\ Exit(p)
    /\ UNCHANGED op /\ UnchangedDb /\ UnchangedEnv

-----------------------------------------------------------------------------
(* The surroundings: kills, timeouts, signals, and the database container. *)

\* bootCtx or migrateCtx runs out, the process is killed or asked to stop.
Kill(p) ==
    /\ pc[p] # "off" /\ faults < MaxFaults
    /\ faults' = faults + 1
    /\ Exit(p)
    /\ UNCHANGED <<op, reachable, downs>> /\ UnchangedDb

Lose ==
    /\ reachable /\ faults < MaxFaults
    /\ reachable' = FALSE
    /\ faults' = faults + 1
    /\ UNCHANGED <<pc, op, plan, overtaken, downs>> /\ UnchangedDb

Recover ==
    /\ ~reachable
    /\ reachable' = TRUE
    /\ UNCHANGED <<pc, op, plan, overtaken, downs, faults>> /\ UnchangedDb

\* What a started process does next.
Step(p) ==
    \/ Ping(p) \/ ReadBefore(p) \/ Create(p) \/ FindMissing(p) \/ ReadCurrent(p)
    \/ Up(p) \/ Down(p) \/ ReadAfter(p) \/ Fail(p)

Next ==
    \/ \E p \in Process : Step(p) \/ Kill(p) \/ \E o \in {"serve", "up", "down"} : Start(p, o)
    \/ Lose
    \/ Recover

Spec == Init /\ [][Next]_vars

\* Processes run, the server's container restarts (compose.yaml, `restart:
\* unless-stopped`), and so does the database's.
FairSpec ==
    /\ Spec
    /\ \A p \in Process : WF_vars(Step(p))
    /\ \A p \in Server : WF_vars(Start(p, "serve"))
    /\ WF_vars(Recover)

-----------------------------------------------------------------------------
(* Properties. *)

\* The first n migrations, each recorded once and in order, and no other, are
\* what the database holds.
IsPrefix(n) ==
    /\ schema = 1 .. n
    /\ Recorded = 1 .. n
    /\ \A r, s \in rows : r.version < s.version <=> r.id < s.id
    /\ \A r \in rows : r.id =< serial

\* However many processes migrate at once, and wherever they are killed, the
\* database holds the first n migrations and their rows, unless a down has
\* committed between another process's read and its commit, or the reverse.
SchemaIsPrefix == ~raced => \E n \in 0 .. LastMigration : IsPrefix(n)

\* readinessHandler.
Readiness(p) == IF p \notin Configured THEN "no_db"
                ELSE IF ~reachable THEN "db_unreachable" ELSE "ok"

\* internal/db/migrate.go:22-24 says MigrateUp runs before the router is
\* mounted "so the server never exposes /readiness=200 over a schema that
\* doesn't match the code".  Readiness is a ping, so a server that has checked
\* the version table when a down commits goes on to answer 200 all the same.
\* Nothing else may make it: not a boot beside others, and not a boot into what
\* a down has left behind, even one that raced with a migration and left a hole
\* among the recorded versions.  Such a boot puts the schema right or refuses.
ReadyUnlessOvertaken ==
    \A p \in Server \ overtaken :
        At(p, "serving") /\ Readiness(p) = "ok" => schema = Migrations

\* A down that meets no other process takes back the latest migration and
\* nothing else (MigrateDown "rolls back the most recent migration").
TakesBackTheLatest ==
    [][schema' \subseteq schema /\ schema' # schema /\ ~raced' =>
         \E v \in schema : schema' = schema \ {v} /\ \A w \in schema : w =< v]_vars

\* The same without the condition: a down that read version 5 just before
\* an up committed 6 drops the table that 6 widened, and so takes back both.
AlwaysTakesBackTheLatest ==
    [][schema' \subseteq schema /\ schema' # schema =>
         \E v \in schema : schema' = schema \ {v} /\ \A w \in schema : w =< v]_vars

\* Boots that collide fail and are restarted: once kills, outages and downs
\* are over, every server serves, unless a down has raced with a migration.
EventuallyServes == \A p \in Server : <>[](raced \/ At(p, "serving"))
=============================================================================
