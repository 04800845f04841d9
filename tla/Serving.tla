------------------------------ MODULE Serving ------------------------------
(***************************************************************************)
(* cmd/server serveOnly and the deferred pool.Close of run: one server,    *)
(* the requests it is answering, and how it ends.  A handler runs its      *)
(* queries one after the other, takes a pool connection for each, and      *)
(* scores the tickets they bring, while it holds the connection            *)
(* (statistics) or after giving it back (lists, one ticket).               *)
(***************************************************************************)
EXTENDS Scorer, FiniteSets

CONSTANTS
    PoolSize,  \* connections of the pool
    Queries,   \* how many queries a handler runs at most
    MaxRows    \* bound: tickets it has yet to score

ASSUME SizesAssumption == PoolSize \in Nat \ {0} /\ Queries \in Nat \ {0}

VARIABLES
    phase,      \* where serveOnly and run stand
    status,     \* what run returns
    signalled,  \* SIGINT or SIGTERM has arrived
    pool,       \* whether pool.Close has begun
    request,    \* where each request stands
    queried     \* how many queries its handler has run

serverVars == <<phase, status, signalled, pool>>
vars == <<serverVars, request, queried, scorerVars>>

\* A request is in its handler, holds a connection there, or is over: with its
\* answer, with a 500 from a closed pool, refused, or cut off by the exit.
Live == {"handling", "querying"}
Over == {"answered", "failed", "refused", "cut"}

TypeOK ==
    /\ phase \in {"listening", "draining", "closing", "exited"}
    /\ status \in {"none", "nil", "error"}
    /\ signalled \in BOOLEAN
    /\ pool \in {"open", "closed"}
    /\ request \in [Request -> {"unsent"} \cup Live \cup Over]
    /\ queried \in [Request -> 0 .. Queries]
    /\ ScorerTypeOK

Init ==
    /\ phase = "listening"
    /\ status = "none"
    /\ signalled = FALSE
    /\ pool = "open"
    /\ request = [r \in Request |-> "unsent"]
    /\ queried = [r \in Request |-> 0]
    /\ NewScorer

Held == {r \in Request : request[r] = "querying"}
Busy == {r \in Request : request[r] \in Live}

Becomes(r, s) == request' = [request EXCEPT ![r] = s]

-----------------------------------------------------------------------------
(* Requests. *)

\* The listener is open only until Shutdown closes it.
Send(r) ==
    /\ request[r] = "unsent"
    /\ Becomes(r, IF phase = "listening" THEN "handling" ELSE "refused")
    /\ UNCHANGED <<serverVars, queried, scorerVars>>

\* Tickets that a query brings.
Fetched(r) ==
    UNION {[1 .. n -> Known \cup Unknown] : n \in 0 .. MaxRows - Len(rows[r])}

\* A query waits for a free connection; a closed pool gives none and the
\* handler answers 500.
Acquire(r) ==
    /\ request[r] = "handling" /\ phase # "exited"
    /\ at[r] = "row" /\ queried[r] < Queries
    /\ \/ /\ pool = "closed" /\ Becomes(r, "failed")
          /\ rows' = [rows EXCEPT ![r] = <<>>]
       \/ /\ pool = "open" /\ Cardinality(Held) < PoolSize /\ Becomes(r, "querying")
          /\ \E s \in Fetched(r) : rows' = [rows EXCEPT ![r] = @ \o s]
    /\ UNCHANGED <<serverVars, queried, at, seen, warned>>

\* The query is done and its connection goes back.
Release(r) ==
    /\ request[r] = "querying" /\ phase # "exited"
    /\ at[r] = "row"
    /\ Becomes(r, "handling")
    /\ queried' = [queried EXCEPT ![r] = @ + 1]
    /\ UNCHANGED <<serverVars, scorerVars>>

\* rows.Next or Scan fails, or the client or its two seconds are gone: nothing
\* more is scored or queried, and the connection goes back.
Abandon(r) ==
    /\ request[r] = "querying" /\ phase # "exited"
    /\ at[r] = "row"
    /\ Becomes(r, "handling")
    /\ queried' = [queried EXCEPT ![r] = Queries]
    /\ rows' = [rows EXCEPT ![r] = <<>>]
    /\ UNCHANGED <<serverVars, at, seen, warned>>

ScoreRow(r) ==
    /\ request[r] \in Live /\ phase # "exited"
    /\ Score(r)
    /\ UNCHANGED <<serverVars, request, queried>>

\* All is scored, or there was nothing to query: a result, or an error.
Answer(r) ==
    /\ request[r] = "handling" /\ phase # "exited"
    /\ rows[r] = <<>>
    /\ Becomes(r, "answered")
    /\ UNCHANGED <<serverVars, queried, scorerVars>>

-----------------------------------------------------------------------------
(* The server. *)

Signal ==
    /\ phase = "listening" /\ ~signalled
    /\ signalled' = TRUE
    /\ UNCHANGED <<phase, status, pool, request, queried, scorerVars>>

\* ListenAndServe returns an error before any signal is taken.
ListenFails ==
    /\ phase = "listening"
    /\ phase' = "closing"
    /\ status' = "error"
    /\ pool' = "closed"
    /\ UNCHANGED <<signalled, request, queried, scorerVars>>

\* The signal is taken and Shutdown closes the listener.
Shutdown ==
    /\ phase = "listening" /\ signalled
    /\ phase' = "draining"
    /\ UNCHANGED <<status, signalled, pool, request, queried, scorerVars>>

\* Mutant: Shutdown's wait for the open requests is dropped.
Drained_Close ==
    /\ phase = "draining"
    /\ phase' = "closing"
    /\ status' = "nil"
    /\ pool' = "closed"
    /\ UNCHANGED <<signalled, request, queried, scorerVars>>

\* Shutdown returns nil once no request is open; run goes on to pool.Close.
Drained ==
    /\ phase = "draining" /\ Busy = {}
    /\ phase' = "closing"
    /\ status' = "nil"
    /\ pool' = "closed"
    /\ UNCHANGED <<signalled, request, queried, scorerVars>>

\* Mutant: Shutdown is given a context without a timeout.
DrainTimeout_Unbounded == FALSE /\ UNCHANGED vars

\* Shutdown's five seconds run out first, and run returns its error.
DrainTimeout ==
    /\ phase = "draining" /\ Busy # {}
    /\ phase' = "closing"
    /\ status' = "error"
    /\ pool' = "closed"
    /\ UNCHANGED <<signalled, request, queried, scorerVars>>

\* pool.Close returns when every connection has come back; the process ends
\* and takes the handlers that are left with it.
Exit ==
    /\ phase = "closing" /\ Held = {}
    /\ phase' = "exited"
    /\ request' = [r \in Request |-> IF r \in Busy THEN "cut" ELSE request[r]]
    /\ UNCHANGED <<status, signalled, pool, queried, scorerVars>>

-----------------------------------------------------------------------------
Handler(r) == Acquire(r) \/ Release(r) \/ Abandon(r) \/ ScoreRow(r) \/ Answer(r)
Stopping == Shutdown \/ Drained \/ DrainTimeout \/ Exit

Next ==
    \/ \E r \in Request : Send(r) \/ Handler(r)
    \/ Signal
    \/ ListenFails
    \/ Stopping

Spec == Init /\ [][Next]_vars

\* The server's own goroutine runs, queries come back, and scoring waits for
\* nobody.  A client may be as slow as it likes to take its answer: the server
\* sets no WriteTimeout.
FairSpec ==
    /\ Spec
    /\ WF_vars(Stopping)
    /\ \A r \in Request :
           WF_vars(Release(r) \/ Abandon(r)) /\ WF_vars(ScoreRow(r))

-----------------------------------------------------------------------------
(* Properties. *)

\* When run returns nil after "server stopped cleanly", every request that was
\* accepted has had its answer: none was cut off, and none met a closed pool.
CleanStopAnswersAll ==
    status = "nil" => \A r \in Request : request[r] \notin Live \cup {"failed", "cut"}

\* A server that is asked to stop exits, whatever its clients do, although it
\* waits for open requests and then for the pool's connections.
StopEnds == signalled ~> phase = "exited"
=============================================================================
