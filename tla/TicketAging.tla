---------------------------- MODULE TicketAging ----------------------------
(***************************************************************************)
(* What the score and the stale flag of one ticket do while the clock runs *)
(* and ingests touch the ticket.  Every request computes both anew, from   *)
(* the stored columns and events and the time it is made at.               *)
(***************************************************************************)
EXTENDS Scoring, FiniteSets

CONSTANTS
    Tickets,        \* the columns a version may have: severity, opened, due, caller
    Events,         \* the journal entries it may get: ts, author, context
    StaleThreshold, \* cfg.Staleness.ThresholdDays
    LastDay         \* bound: the clock stops here

VARIABLES ticket, events, now

vars == <<ticket, events, now>>

ASSUME TicketsAssumption == \A t \in Tickets : t.opened \in Int /\ t.due \in Int
ASSUME EventsAssumption  == IsFiniteSet(Events) /\ \A e \in Events : e.ts \in Int
ASSUME DaysAssumption    == StaleThreshold \in Nat /\ LastDay \in Nat

TypeOK == ticket \in Tickets /\ events \subseteq Events /\ now \in 0 .. LastDay

Init == ticket \in Tickets /\ events = {} /\ now = 0

\* A day passes between two requests.
Tick == now < LastDay /\ now' = now + 1 /\ UNCHANGED <<ticket, events>>

\* An ingest brings journal entries, none from the future, and maybe a new
\* version of the columns.
Update ==
    /\ ticket' \in Tickets
    /\ \E new \in SUBSET {e \in Events : e.ts <= now} : events' = events \cup new
    /\ UNCHANGED now

Next == Tick \/ Update

Spec == Init /\ [][Next]_vars

CurrentScore == Score(ticket, now)

\* The flag in lists and statistics, from the LATERAL join.
Stale == StaleFromLastSupport(LastSupport(events, ticket.caller), StaleThreshold, now)

-----------------------------------------------------------------------------
\* What the defaults promise, and any configuration may break.
NoneNegative == Weights \in [Severity: Nat, Age: Nat, Due: Nat]
AddUp        == Weights.Severity + Weights.Age + Weights.Due = 10

\* Under weights none of which is negative and that add up to 1.0 a score is in
\* [0, 1], however old or overdue the ticket is: the API documents that range.
ScoreInRange == NoneNegative /\ AddUp => CurrentScore \in 0 .. One

\* A ticket nobody touches never sinks in the queue by waiting: neither its
\* score nor its bucket goes down as the clock runs, unless a weight is negative.
WaitingNeverSinks ==
    [][NoneNegative /\ ticket' = ticket =>
          /\ Score(ticket', now') >= Score(ticket, now)
          /\ BucketRank(Score(ticket', now')) >= BucketRank(Score(ticket, now))]_vars

\* The thresholds keep the urgent buckets small: under weights that add up to
\* 1.0 and put more than 0.4 on the severity, as the default ones do, age and
\* due date alone lift no ticket into a bucket its severity cannot carry.  Of
\* the most stale Low ticket this says what scoring_test.go:171-179 says: under
\* the default weights it reaches 0.625 and stays moderate.  The comment on the
\* thresholds, scoring.go:92-94, has it top out at 0.75, which would be high.
SeverityCapsBucket ==
    (NoneNegative /\ AddUp /\ Weights.Severity > 4) =>
        /\ BucketFor(CurrentScore) = "critical" => SevScore(ticket) = 4
        /\ BucketFor(CurrentScore) = "high" => SevScore(ticket) >= 2

\* A list and the detail view flag a ticket alike, though one takes the newest
\* support-side event from SQL and the other scans the events in any order.
FlagsAgree ==
    \A s \in SetToSeqs(events) :
        StaleAsOf(s, ticket.caller, StaleThreshold, now) <=> Stale
=============================================================================
