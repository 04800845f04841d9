------------------------------ MODULE Scoring ------------------------------
(***************************************************************************)
(* internal/scoring: the priority score, its buckets and the staleness     *)
(* flag, as operators.  Time is counted in days, weights in tenths and     *)
(* severities in quarters, so that a score is a whole number of parts of   *)
(* One, the score 1.0 of the default weights.                              *)
(***************************************************************************)
EXTENDS Integers, Sequences, SequencesExt

CONSTANTS
    Weights,        \* [Severity, Age, Due], in tenths; config.Load refuses none
    SeverityScore   \* the severities in the map of that name, in quarters

ASSUME WeightsAssumption  == Weights \in [Severity: Int, Age: Int, Due: Int]
ASSUME SeverityAssumption == \A s \in DOMAIN SeverityScore : SeverityScore[s] \in 0 .. 4

AgeHorizon == 14
DueHorizon == 7
One        == 10 * 4 * AgeHorizon * DueHorizon

Clamp(x, high) == IF x < 0 THEN 0 ELSE IF x > high THEN high ELSE x

IsKnownSeverity(s) == s \in DOMAIN SeverityScore

\* The three components, each in parts of its own horizon.
SevScore(t)      == IF IsKnownSeverity(t.severity) THEN SeverityScore[t.severity] ELSE 0
AgeScore(t, now) == Clamp(now - t.opened, AgeHorizon)
DueScore(t, now) == Clamp(DueHorizon - (t.due - now), DueHorizon)

\* Mutant: the age is counted backwards.
Score_AgeBackwards(t, now) ==
    Weights.Severity * SevScore(t) * AgeHorizon * DueHorizon
    + Weights.Age * AgeScore([t EXCEPT !.opened = now], t.opened) * 4 * DueHorizon
    + Weights.Due * DueScore(t, now) * 4 * AgeHorizon

Score(t, now) ==
    Weights.Severity * SevScore(t) * AgeHorizon * DueHorizon
    + Weights.Age * AgeScore(t, now) * 4 * DueHorizon
    + Weights.Due * DueScore(t, now) * 4 * AgeHorizon

\* The buckets by rank, and the least score of each in hundredths.
BucketNames == <<"planning", "low", "moderate", "high", "critical">>

\* Mutant: thresholds that leave age and due date room to lift a ticket.
BucketFloor_Low == <<0, 15, 40, 60, 85>>

BucketFloor == <<0, 15, 40, 70, 90>>

BucketRank(score) ==
    CHOOSE b \in 1 .. 5 :
        /\ b = 1 \/ 100 * score >= BucketFloor[b] * One
        /\ \A c \in 1 .. 5 : c > b => 100 * score < BucketFloor[c] * One

BucketFor(score) == BucketNames[BucketRank(score)]

-----------------------------------------------------------------------------
(* Staleness, which the code decides twice: over the events of one ticket, *)
(* and from the one timestamp a LATERAL join has picked.                   *)

IsSupportSide(e, caller) == e.context = "Work Notes" \/ e.author # caller

None == <<>>

\* Mutant: the scan keeps the last support-side event it meets.
StaleAsOf_LastSeen(events, caller, threshold, now) ==
    LET Seen   == FoldLeft(LAMBDA last, e : IF IsSupportSide(e, caller) THEN <<e.ts>> ELSE last,
                           None, events)
    IN  Seen = None \/ now - Seen[1] > threshold

\* The scan over unsorted events.
StaleAsOf(events, caller, threshold, now) ==
    LET Later(last, e) == IF IsSupportSide(e, caller) /\ (last = None \/ e.ts > last[1])
                          THEN <<e.ts>> ELSE last
        latest == FoldLeft(Later, None, events)
    IN  latest = None \/ now - latest[1] > threshold

\* ORDER BY event_ts DESC LIMIT 1 over the support-side events.
LastSupport(events, caller) ==
    LET Times == {e.ts : e \in {f \in events : IsSupportSide(f, caller)}}
    IN  IF Times = {} THEN None ELSE <<Max(Times)>>

StaleFromLastSupport(last, threshold, now) ==
    last = None \/ now - last[1] > threshold
=============================================================================
