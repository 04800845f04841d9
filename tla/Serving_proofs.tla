--------------------------- MODULE Serving_proofs ---------------------------
(***************************************************************************)
(* For any requests, pool and severities: a severity has at most one line, *)
(* as the request that stored it is the one that logs it; and a stop that  *)
(* returns nil has left no request behind.                                 *)
(***************************************************************************)
EXTENDS Serving, TLAPS

\* The requests about to log severity s.
Warners(s) == {r \in Request : at[r] = "warn" /\ Head(rows[r]) = s}

\* A severity that is not seen has no line and nobody to log it; one that is
\* seen has one of the two, once.
One(s) ==
    /\ s \notin seen => warned[s] = 0 /\ Warners(s) = {}
    /\ \A g, h \in Warners(s) : g = h
    /\ warned[s] # 0 => warned[s] = 1 /\ Warners(s) = {}

OneEach == \A s \in Unknown : One(s)

ScorerInv == ScorerTypeOK /\ OneEach

-----------------------------------------------------------------------------
(* The scorer. *)

LEMMA ScorerInitially == NewScorer => ScorerInv
  BY SMT DEF NewScorer, ScorerInv, ScorerTypeOK, OneEach, One, Warners

LEMMA ScorerStays == ScorerInv /\ UNCHANGED scorerVars => ScorerInv'
  BY SMT DEF scorerVars, ScorerInv, ScorerTypeOK, OneEach, One, Warners

\* Between two rows anything may become of the rows that are left.
LEMMA OtherRows ==
  ASSUME ScorerInv, NEW r \in Request, at[r] = "row",
         NEW s \in Seq(Known \cup Unknown), rows' = [rows EXCEPT ![r] = s],
         UNCHANGED <<at, seen, warned>>
  PROVE  ScorerInv'
<1>1. ScorerTypeOK'
  <2>1. rows' \in [Request -> Seq(Known \cup Unknown)]
    BY SMT DEF ScorerInv, ScorerTypeOK
  <2>2. \A g \in Request : at'[g] = "warn" => g # r /\ rows'[g] = rows[g]
    BY SMT DEF ScorerInv, ScorerTypeOK
  <2> QED BY <2>1, <2>2, SMT DEF ScorerInv, ScorerTypeOK
<1>2. \A t \in Unknown : Warners(t)' = Warners(t)
  BY SMT DEF ScorerInv, ScorerTypeOK, Warners
<1> QED BY <1>1, <1>2, SMT DEF ScorerInv, OneEach, One

LEMMA TailIsSeq ==
  ASSUME NEW S, NEW s \in Seq(S), s # <<>>
  PROVE  Tail(s) \in Seq(S) /\ Head(s) \in S
  BY SMT

\* The request that stores a new severity is the only one to warn about it.
LEMMA Stores ==
  ASSUME ScorerInv, NEW r \in Request, LoadOrStore(r)
  PROVE  ScorerInv'
<1> DEFINE s == Head(rows[r])
<1>0. rows[r] \in Seq(Known \cup Unknown) /\ rows[r] # <<>> /\ at[r] = "row" /\ s \in Unknown
  BY SMT DEF ScorerInv, ScorerTypeOK, LoadOrStore
<1>1. CASE s \in seen
  <2>1. seen' = seen
    BY <1>1, SMT DEF LoadOrStore
  <2>2. rows' = [rows EXCEPT ![r] = Tail(rows[r])] /\ UNCHANGED <<at, warned>>
    BY <1>1, SMT DEF LoadOrStore, NextRow
  <2>3. Tail(rows[r]) \in Seq(Known \cup Unknown)
    BY <1>0, TailIsSeq
  <2> QED BY <1>0, <2>1, <2>2, <2>3, OtherRows
<1>2. CASE s \notin seen
  <2>1. at' = [at EXCEPT ![r] = "warn"] /\ seen' = seen \cup {s} /\ UNCHANGED <<rows, warned>>
    BY <1>2, SMT DEF LoadOrStore
  <2>2. ScorerTypeOK'
    BY <1>0, <2>1, SMT DEF ScorerInv, ScorerTypeOK
  <2>3. \A t \in Unknown : Warners(t)' = IF t = s THEN Warners(t) \cup {r} ELSE Warners(t)
    BY <1>0, <2>1, SMT DEF ScorerInv, ScorerTypeOK, Warners
  <2>4. warned[s] = 0 /\ Warners(s) = {}
    BY <1>0, <1>2, SMT DEF ScorerInv, OneEach, One
  <2>5. OneEach'
    <3> SUFFICES ASSUME NEW t \in Unknown PROVE One(t)'
      BY DEF OneEach
    <3>1. CASE t = s
      BY <2>1, <2>3, <2>4, <3>1, SMT DEF One
    <3>2. CASE t # s
      <4>1. Warners(t)' = Warners(t) /\ warned'[t] = warned[t] /\ (t \in seen' <=> t \in seen)
        BY <2>1, <2>3, <3>2, SMT
      <4> QED BY <4>1, SMT DEF ScorerInv, OneEach, One
    <3> QED BY <3>1, <3>2
  <2> QED BY <2>2, <2>5 DEF ScorerInv
<1> QED BY <1>1, <1>2

LEMMA Logs ==
  ASSUME ScorerInv, NEW r \in Request, Warn(r)
  PROVE  ScorerInv'
<1> DEFINE s == Head(rows[r])
<1>0. /\ rows[r] \in Seq(Known \cup Unknown) /\ rows[r] # <<>> /\ s \in Unknown
      /\ r \in Warners(s)
  BY SMT DEF ScorerInv, ScorerTypeOK, Warn, Warners
<1>1. Warners(s) = {r} /\ warned[s] = 0 /\ s \in seen
  BY <1>0, SMT DEF ScorerInv, OneEach, One
<1>2. /\ warned' = [warned EXCEPT ![s] = warned[s] + 1]
      /\ at' = [at EXCEPT ![r] = "row"]
      /\ rows' = [rows EXCEPT ![r] = Tail(rows[r])]
      /\ seen' = seen
  BY SMT DEF Warn, NextRow
<1>3. Tail(rows[r]) \in Seq(Known \cup Unknown)
  BY <1>0, TailIsSeq
<1>4. ScorerTypeOK'
  <2>1. rows' \in [Request -> Seq(Known \cup Unknown)] /\ at' \in [Request -> {"row", "warn"}]
    BY <1>2, <1>3, SMT DEF ScorerInv, ScorerTypeOK
  <2>2. warned' \in [Unknown -> Nat]
    BY <1>0, <1>2, SMT DEF ScorerInv, ScorerTypeOK
  <2>3. \A g \in Request : at'[g] = "warn" => rows'[g] # <<>> /\ Head(rows'[g]) \in Unknown
    BY <1>2, SMT DEF ScorerInv, ScorerTypeOK
  <2> QED BY <1>2, <2>1, <2>2, <2>3, SMT DEF ScorerInv, ScorerTypeOK
<1>5. \A t \in Unknown : Warners(t)' = Warners(t) \ {r}
  BY <1>0, <1>2, SMT DEF ScorerInv, ScorerTypeOK, Warners
<1>6. SUFFICES ASSUME NEW t \in Unknown PROVE One(t)'
  BY <1>4 DEF ScorerInv, OneEach
<1>7. CASE t = s
  <2>1. Warners(t)' = {}
    BY <1>1, <1>5, <1>7, SMT
  <2>2. warned'[t] = 1
    BY <1>0, <1>1, <1>2, <1>7, SMT DEF ScorerInv, ScorerTypeOK
  <2> QED BY <2>1, <2>2, <1>1, <1>2, <1>7, SMT DEF One
<1>8. CASE t # s
  <2>1. r \notin Warners(t)
    BY <1>8, SMT DEF Warners
  <2>2. Warners(t)' = Warners(t)
    BY <1>5, <2>1, SMT
  <2>3. warned'[t] = warned[t] /\ seen' = seen
    BY <1>0, <1>2, <1>8, SMT DEF ScorerInv, ScorerTypeOK
  <2> QED BY <2>2, <2>3, SMT DEF ScorerInv, OneEach, One
<1> QED BY <1>7, <1>8

\* Scoring one row of one request.
LEMMA Scores ==
  ASSUME ScorerInv, NEW r \in Request, Score(r)
  PROVE  ScorerInv'
<1>1. ASSUME ScoreKnown(r) PROVE ScorerInv'
  <2>1. /\ at[r] = "row" /\ rows[r] # <<>>
        /\ rows' = [rows EXCEPT ![r] = Tail(rows[r])] /\ UNCHANGED <<at, seen, warned>>
    BY <1>1 DEF ScoreKnown, NextRow
  <2>2. Tail(rows[r]) \in Seq(Known \cup Unknown)
    BY <2>1, TailIsSeq DEF ScorerInv, ScorerTypeOK
  <2> QED BY <2>1, <2>2, OtherRows
<1> QED BY <1>1, Stores, Logs DEF Score

-----------------------------------------------------------------------------
(* The server. *)

\* No request meets a closed pool before the server has given up listening and
\* draining, and none is cut off before it exits.
NoneLost ==
    /\ pool = "open" <=> phase \in {"listening", "draining"}
    /\ pool = "open" => status = "none" /\ \A r \in Request : request[r] # "failed"
    /\ phase # "exited" => \A r \in Request : request[r] # "cut"

\* Whoever holds a connection has queries left.
Counted ==
    /\ queried \in [Request -> 0 .. Queries]
    /\ \A r \in Request : request[r] = "querying" => queried[r] < Queries

IInv == TypeOK /\ OneEach /\ Counted /\ NoneLost /\ CleanStopAnswersAll

\* The invariant without the scorer and the counts.
ServerOK ==
    /\ phase \in {"listening", "draining", "closing", "exited"}
    /\ status \in {"none", "nil", "error"}
    /\ signalled \in BOOLEAN
    /\ pool \in {"open", "closed"}
    /\ request \in [Request -> {"unsent"} \cup Live \cup Over]
    /\ NoneLost
    /\ CleanStopAnswersAll

LEMMA Parts == IInv <=> ServerOK /\ Counted /\ ScorerInv
  BY DEF IInv, ServerOK, TypeOK, Counted, ScorerInv

LEMMA PartsNext == ServerOK' /\ Counted' /\ ScorerInv' => IInv'
  BY DEF IInv, ServerOK, TypeOK, Counted, ScorerInv

LEMMA Initially == Init => IInv
<1> SUFFICES ASSUME Init PROVE IInv
  OBVIOUS
<1>1. ScorerInv
  BY ScorerInitially DEF Init
<1>2. Counted
  BY SizesAssumption, SMT DEF Init, Counted
<1>3. /\ phase = "listening" /\ status = "none" /\ signalled \in BOOLEAN /\ pool = "open"
      /\ request = [r \in Request |-> "unsent"]
  BY DEF Init
<1>4. status # "nil" /\ phase # "exited" /\ "unsent" # "failed" /\ "unsent" # "cut"
  BY <1>3
<1>5. ServerOK
  BY <1>3, <1>4, Zenon DEF ServerOK, NoneLost, CleanStopAnswersAll
<1> QED BY <1>1, <1>2, <1>5, Parts

\* What becomes of a request is one of these, and the server stands still.
LEMMA RequestMoves ==
  ASSUME ServerOK, NEW r \in Request, NEW t \in {"unsent"} \cup Live \cup Over,
         Becomes(r, t), UNCHANGED serverVars,
         t = "failed" => pool = "closed" /\ request[r] \in Live,
         t \in Live => phase = "listening" \/ request[r] \in Live,
         t # "cut"
  PROVE  ServerOK'
<1>1. request' \in [Request -> {"unsent"} \cup Live \cup Over]
  BY SMT DEF ServerOK, Becomes
<1>2. /\ request' = [request EXCEPT ![r] = t]
      /\ UNCHANGED <<phase, status, signalled, pool>>
  BY DEF Becomes, serverVars
<1>3. \A q \in Request : request'[q] = IF q = r THEN t ELSE request[q]
  BY <1>2, SMT DEF ServerOK
<1>4. NoneLost'
  BY <1>2, <1>3, SMT DEF ServerOK, NoneLost
<1>5. CleanStopAnswersAll'
  <2> SUFFICES ASSUME status = "nil", NEW q \in Request
               PROVE  request'[q] \notin Live \cup {"failed", "cut"}
    BY <1>2, SMT DEF CleanStopAnswersAll
  <2>1. phase # "listening" /\ \A p \in Request : request[p] \notin Live \cup {"failed", "cut"}
    BY SMT DEF ServerOK, NoneLost, CleanStopAnswersAll
  <2> QED BY <1>3, <2>1, SMT
<1> QED BY <1>1, <1>2, <1>4, <1>5, SMT DEF ServerOK

\* Its count goes with it.
LEMMA CountMoves ==
  ASSUME ServerOK, Counted, NEW r \in Request, NEW t, Becomes(r, t),
         NEW n \in 0 .. Queries, queried' = [queried EXCEPT ![r] = n],
         t = "querying" => n < Queries
  PROVE  Counted'
<1>1. \A q \in Request : request'[q] = IF q = r THEN t ELSE request[q]
  BY SMT DEF ServerOK, Becomes
<1>2. \A q \in Request : queried'[q] = IF q = r THEN n ELSE queried[q]
  BY SMT DEF Counted
<1>3. queried' \in [Request -> 0 .. Queries]
  BY SMT DEF Counted
<1> QED BY <1>1, <1>2, <1>3, SMT DEF Counted

-----------------------------------------------------------------------------
(* The steps. *)

LEMMA Sends ==
  ASSUME IInv, NEW r \in Request, Send(r)
  PROVE  IInv'
<1> DEFINE t == IF phase = "listening" THEN "handling" ELSE "refused"
<1>1. /\ Becomes(r, t) /\ UNCHANGED serverVars
      /\ UNCHANGED <<queried, scorerVars>>
  BY DEF Send
<1>2. t \in {"unsent"} \cup Live \cup Over /\ t # "failed" /\ t # "cut" /\ t # "querying"
  BY SMT DEF Live, Over
<1>3. t \in Live => phase = "listening"
  BY SMT DEF Live
<1>4. ServerOK /\ Counted /\ ScorerInv
  BY Parts
<1>5. queried[r] \in 0 .. Queries /\ queried' = [queried EXCEPT ![r] = queried[r]]
  BY <1>1, <1>4, SMT DEF Counted
<1> HIDE DEF t
<1>6. ServerOK'
  BY <1>1, <1>2, <1>3, <1>4, RequestMoves
<1>7. Counted'
  BY <1>1, <1>2, <1>4, <1>5, CountMoves
<1>8. ScorerInv'
  BY <1>1, <1>4, ScorerStays
<1> QED BY <1>6, <1>7, <1>8, PartsNext

LEMMA Acquires ==
  ASSUME IInv, NEW r \in Request, Acquire(r)
  PROVE  IInv'
<1>0. ServerOK /\ Counted /\ ScorerInv
  BY Parts
<1>1. /\ request[r] \in Live /\ at[r] = "row" /\ queried[r] < Queries
      /\ UNCHANGED serverVars /\ UNCHANGED queried /\ UNCHANGED <<at, seen, warned>>
  BY SMT DEF Acquire, Live
<1>2. queried[r] \in 0 .. Queries /\ queried' = [queried EXCEPT ![r] = queried[r]]
  BY <1>0, <1>1, SMT DEF Counted
<1>3. ASSUME pool = "closed", Becomes(r, "failed"), rows' = [rows EXCEPT ![r] = <<>>]
      PROVE  IInv'
  <2>1. /\ "failed" \in {"unsent"} \cup Live \cup Over /\ "failed" \notin Live
        /\ "failed" # "querying"
    BY SMT DEF Live, Over
  <2>2. ServerOK'
    BY <1>0, <1>1, <1>3, <2>1, RequestMoves
  <2>3. Counted'
    BY <1>0, <1>2, <1>3, <2>1, CountMoves
  <2>4. <<>> \in Seq(Known \cup Unknown)
    BY SMT
  <2>5. ScorerInv'
    BY <1>0, <1>1, <1>3, <2>4, OtherRows
  <2> QED BY <2>2, <2>3, <2>5, PartsNext
<1>4. ASSUME Becomes(r, "querying"), NEW s \in Fetched(r),
             rows' = [rows EXCEPT ![r] = rows[r] \o s]
      PROVE  IInv'
  <2>1. "querying" \in {"unsent"} \cup Live \cup Over
    BY SMT DEF Live, Over
  <2>2. ServerOK'
    BY <1>0, <1>1, <1>4, <2>1, RequestMoves
  <2>3. Counted'
    BY <1>0, <1>1, <1>2, <1>4, CountMoves
  <2>4. s \in Seq(Known \cup Unknown)
    BY <1>4, SMT DEF Fetched
  <2>5. rows[r] \in Seq(Known \cup Unknown)
    BY <1>0, SMT DEF ScorerInv, ScorerTypeOK
  <2>6. rows[r] \o s \in Seq(Known \cup Unknown)
    BY <2>4, <2>5, SMT
  <2>7. ScorerInv'
    BY <1>0, <1>1, <1>4, <2>6, OtherRows
  <2> QED BY <2>2, <2>3, <2>7, PartsNext
<1> QED BY <1>3, <1>4 DEF Acquire

LEMMA Releases ==
  ASSUME IInv, NEW r \in Request, Release(r) \/ Abandon(r)
  PROVE  IInv'
<1>0. ServerOK /\ Counted /\ ScorerInv
  BY Parts
<1>1. /\ request[r] = "querying" /\ at[r] = "row" /\ Becomes(r, "handling")
      /\ UNCHANGED serverVars /\ UNCHANGED <<at, seen, warned>>
  BY DEF Release, Abandon, scorerVars
<1>2. /\ request[r] \in Live /\ "handling" \in {"unsent"} \cup Live \cup Over
      /\ "handling" # "querying"
  BY <1>1, SMT DEF Live, Over
<1>3. ServerOK'
  BY <1>0, <1>1, <1>2, RequestMoves
<1>4. /\ queried[r] \in 0 .. Queries /\ queried[r] < Queries
      /\ queried[r] + 1 \in 0 .. Queries /\ Queries \in 0 .. Queries
  BY <1>0, <1>1, SizesAssumption, SMT DEF Counted
<1>5. CASE Release(r)
  <2>1. queried' = [queried EXCEPT ![r] = queried[r] + 1] /\ UNCHANGED scorerVars
    BY <1>5 DEF Release
  <2>2. Counted'
    BY <1>0, <1>1, <1>2, <1>4, <2>1, CountMoves
  <2>3. ScorerInv'
    BY <1>0, <2>1, ScorerStays
  <2> QED BY <1>3, <2>2, <2>3, PartsNext
<1>6. CASE Abandon(r)
  <2>1. queried' = [queried EXCEPT ![r] = Queries] /\ rows' = [rows EXCEPT ![r] = <<>>]
    BY <1>6 DEF Abandon
  <2>2. Counted'
    <3>1. Queries \in 0 .. Queries /\ ("handling" = "querying" => Queries < Queries)
      BY <1>2, <1>4
    <3> QED BY <1>0, <1>1, <2>1, <3>1, CountMoves
  <2>3. <<>> \in Seq(Known \cup Unknown)
    BY SMT
  <2>4. ScorerInv'
    BY <1>0, <1>1, <2>1, <2>3, OtherRows
  <2> QED BY <1>3, <2>2, <2>4, PartsNext
<1> QED BY <1>5, <1>6

LEMMA Answers ==
  ASSUME IInv, NEW r \in Request, Answer(r)
  PROVE  IInv'
<1>0. ServerOK /\ Counted /\ ScorerInv
  BY Parts
<1>1. Becomes(r, "answered") /\ UNCHANGED serverVars /\ UNCHANGED queried /\ UNCHANGED scorerVars
  BY DEF Answer
<1>2. /\ "answered" \in {"unsent"} \cup Live \cup Over /\ "answered" \notin Live
      /\ "answered" # "querying"
  BY SMT DEF Live, Over
<1>3. ServerOK'
  BY <1>0, <1>1, <1>2, RequestMoves
<1>4. queried[r] \in 0 .. Queries /\ queried' = [queried EXCEPT ![r] = queried[r]]
  BY <1>0, <1>1, SMT DEF Counted
<1>5. Counted'
  BY <1>0, <1>1, <1>2, <1>4, CountMoves
<1> QED BY <1>0, <1>1, <1>3, <1>5, ScorerStays, PartsNext

\* What the server itself does leaves counts and scores alone.
LEMMA ServerSteps ==
  ASSUME IInv, Signal \/ ListenFails \/ Stopping
  PROVE  IInv'
<1>0. ServerOK /\ Counted /\ ScorerInv
  BY Parts
<1>1. UNCHANGED queried /\ UNCHANGED scorerVars
  BY DEF Signal, ListenFails, Stopping, Shutdown, Drained, DrainTimeout, Exit
<1>2. ScorerInv'
  BY <1>0, <1>1, ScorerStays
<1>3. CASE Signal \/ ListenFails \/ Shutdown \/ DrainTimeout
  <2>1. UNCHANGED request
    BY <1>3 DEF Signal, ListenFails, Shutdown, DrainTimeout
  <2>2. /\ phase' \in {"listening", "draining", "closing", "exited"} /\ phase' # "exited"
        /\ status' \in {"none", "nil", "error"}
        /\ pool' \in {"open", "closed"} /\ phase # "exited"
    <3> USE DEF ServerOK
    <3>1. CASE Signal
      BY <1>0, <3>1 DEF Signal
    <3>2. CASE ListenFails
      BY <1>0, <3>2 DEF ListenFails
    <3>3. CASE Shutdown
      BY <1>0, <3>3 DEF Shutdown
    <3>4. CASE DrainTimeout
      BY <1>0, <3>4 DEF DrainTimeout
    <3> QED BY <1>3, <3>1, <3>2, <3>3, <3>4
  <2>3. NoneLost'
    BY <1>0, <1>3, <2>1, <2>2, SMT DEF Signal, ListenFails, Shutdown, DrainTimeout,
       ServerOK, NoneLost
  <2>4. CleanStopAnswersAll'
    BY <1>0, <1>3, <2>1, SMT DEF Signal, ListenFails, Shutdown, DrainTimeout,
       ServerOK, CleanStopAnswersAll
  <2>5. signalled' \in BOOLEAN
    BY <1>0, <1>3, Zenon DEF ServerOK, Signal, ListenFails, Shutdown, DrainTimeout
  <2>6. ServerOK'
    BY <1>0, <2>1, <2>2, <2>3, <2>4, <2>5, Zenon DEF ServerOK
  <2>7. Counted'
    BY <1>0, <1>1, <2>1 DEF Counted
  <2> QED BY <1>2, <2>6, <2>7, PartsNext
<1>4. CASE Drained
  <2>1. UNCHANGED request /\ \A q \in Request : request[q] \notin Live
    BY <1>4, SMT DEF Drained, Busy
  <2>2. ServerOK'
    BY <1>0, <1>4, <2>1, SMT DEF Drained, ServerOK, NoneLost, CleanStopAnswersAll
  <2>3. Counted'
    BY <1>0, <1>1, <2>1 DEF Counted
  <2> QED BY <1>2, <2>2, <2>3, PartsNext
<1>5. CASE Exit
  <2>1. /\ phase = "closing" /\ phase' = "exited" /\ UNCHANGED <<status, signalled, pool>>
        /\ request' = [q \in Request |-> IF q \in Busy THEN "cut" ELSE request[q]]
    BY <1>5 DEF Exit
  <2>2. \A q \in Request : request'[q] = IF request[q] \in Live THEN "cut" ELSE request[q]
    BY <2>1, SMT DEF Busy
  <2>3. request' \in [Request -> {"unsent"} \cup Live \cup Over]
    BY <1>0, <2>1, SMT DEF ServerOK, Over
  <2>4. NoneLost'
    BY <1>0, <2>1, SMT DEF ServerOK, NoneLost
  <2>5. CleanStopAnswersAll'
    BY <1>0, <2>1, <2>2, SMT DEF ServerOK, CleanStopAnswersAll
  <2>6. ServerOK'
    BY <1>0, <2>1, <2>3, <2>4, <2>5, SMT DEF ServerOK
  <2>7. Counted'
    BY <1>0, <1>1, <2>2, SMT DEF Counted
  <2> QED BY <1>2, <2>6, <2>7, PartsNext
<1> QED BY <1>3, <1>4, <1>5 DEF Stopping

LEMMA Keeps == IInv /\ [Next]_vars => IInv'
<1> SUFFICES ASSUME IInv, [Next]_vars PROVE IInv'
  OBVIOUS
<1>0. ServerOK /\ Counted /\ ScorerInv
  BY Parts
<1>1. ASSUME NEW r \in Request, ScoreRow(r) PROVE IInv'
  <2>1. Score(r) /\ UNCHANGED serverVars /\ UNCHANGED <<request, queried>>
    BY <1>1 DEF ScoreRow
  <2>2. ServerOK' /\ Counted'
    BY <1>0, <2>1 DEF ServerOK, Counted, NoneLost, CleanStopAnswersAll, serverVars
  <2>3. ScorerInv'
    BY <1>0, <2>1, Scores
  <2> QED BY <2>2, <2>3, PartsNext
<1>2. CASE UNCHANGED vars
  <2>1. ServerOK' /\ Counted'
    BY <1>0, <1>2 DEF vars, ServerOK, Counted, NoneLost, CleanStopAnswersAll, serverVars
  <2>2. ScorerInv'
    BY <1>0, <1>2, ScorerStays DEF vars
  <2> QED BY <2>1, <2>2, PartsNext
<1> QED BY <1>1, <1>2, Sends, Acquires, Releases, Answers, ServerSteps DEF Next, Handler

-----------------------------------------------------------------------------
\* The types, with: whoever is about to log is about to log an unknown severity.
THEOREM TypeCorrect == Spec => []TypeOK
<1>1. IInv => TypeOK
  BY DEF IInv
<1> QED BY Initially, Keeps, <1>1, PTL DEF Spec

\* However many requests meet a severity at once, it has at most one line.
THEOREM WarnsOnce == Spec => []AtMostOneWarning
<1>1. IInv => AtMostOneWarning
  BY SMT DEF IInv, TypeOK, ScorerTypeOK, OneEach, One, AtMostOneWarning
<1> QED BY Initially, Keeps, <1>1, PTL DEF Spec

\* A server that "stopped cleanly" has answered every request it accepted.
THEOREM CleanStopCorrect == Spec => []CleanStopAnswersAll
<1>1. IInv => CleanStopAnswersAll
  BY DEF IInv
<1> QED BY Initially, Keeps, <1>1, PTL DEF Spec
=============================================================================
