------------------------------- MODULE Scorer -------------------------------
(***************************************************************************)
(* scoring.Scorer: one per server, shared by every request that scores     *)
(* tickets.  It keeps the set of unknown severities it has warned about, a *)
(* sync.Map; what a severity scores is module Scoring's.  Module Serving   *)
(* runs the requests.                                                      *)
(***************************************************************************)
EXTENDS Integers, Sequences

CONSTANTS
    Request,  \* requests that clients may send
    Known,    \* the severities IsKnownSeverity accepts
    Unknown   \* others that exports bring

ASSUME SeverityAssumption == Known \cap Unknown = {}

VARIABLES
    rows,    \* the severities a request has fetched and not scored, in order
    at,      \* where it stands: between two rows, or about to log
    seen,    \* the keys of the sync.Map
    warned   \* lines logged so far, by severity

scorerVars == <<rows, at, seen, warned>>

ScorerTypeOK ==
    /\ rows \in [Request -> Seq(Known \cup Unknown)]
    /\ at \in [Request -> {"row", "warn"}]
    /\ \A r \in Request : at[r] = "warn" => rows[r] # <<>> /\ Head(rows[r]) \in Unknown
    /\ seen \subseteq Unknown
    /\ warned \in [Unknown -> Nat]

NewScorer ==
    /\ rows = [r \in Request |-> <<>>]
    /\ at = [r \in Request |-> "row"]
    /\ seen = {}
    /\ warned = [s \in Unknown |-> 0]

NextRow(r) == rows' = [rows EXCEPT ![r] = Tail(@)]

ScoreKnown(r) ==
    /\ rows[r] # <<>> /\ at[r] = "row" /\ Head(rows[r]) \in Known
    /\ NextRow(r)
    /\ UNCHANGED <<at, seen, warned>>

\* Mutant: Load, and Store when the line is written.
LoadOrStore_Split(r) ==
    /\ rows[r] # <<>> /\ at[r] = "row" /\ Head(rows[r]) \in Unknown
    /\ seen' = {s \in Unknown : warned[s] > 0}
    /\ IF Head(rows[r]) \in seen'
       THEN NextRow(r) /\ UNCHANGED at
       ELSE at' = [at EXCEPT ![r] = "warn"] /\ UNCHANGED rows
    /\ UNCHANGED warned

\* LoadOrStore is one step; the request that stores is the one that logs.
LoadOrStore(r) ==
    /\ rows[r] # <<>> /\ at[r] = "row" /\ Head(rows[r]) \in Unknown
    /\ IF Head(rows[r]) \in seen
       THEN NextRow(r) /\ UNCHANGED at
       ELSE at' = [at EXCEPT ![r] = "warn"] /\ UNCHANGED rows
    /\ seen' = seen \cup {Head(rows[r])}
    /\ UNCHANGED warned

Warn(r) ==
    /\ at[r] = "warn"
    /\ warned' = [warned EXCEPT ![Head(rows[r])] = @ + 1]
    /\ at' = [at EXCEPT ![r] = "row"]
    /\ NextRow(r)
    /\ UNCHANGED seen

Score(r) == ScoreKnown(r) \/ LoadOrStore(r) \/ Warn(r)

-----------------------------------------------------------------------------
\* "A given unknown Severity string produces exactly one Warn line for that
\* process lifetime", however many requests meet it at once: none brings a
\* second line.
AtMostOneWarning == \A s \in Unknown : warned[s] <= 1
=============================================================================
