------------------------- MODULE TicketAging_proofs -------------------------
(***************************************************************************)
(* The score is in range and never falls by waiting, for any weights,      *)
(* severities and tickets.                                                 *)
(***************************************************************************)
EXTENDS TicketAging, FiniteSetTheorems, WellFoundedInduction, TLAPS

\* The variables keep to their ranges.
THEOREM TypeCorrect == Spec => []TypeOK
<1>1. Init => TypeOK
  BY DaysAssumption DEF Init, TypeOK
<1>2. TypeOK /\ [Next]_vars => TypeOK'
  BY DaysAssumption DEF TypeOK, Next, Tick, Update, vars
<1>3. QED
  BY <1>1, <1>2, PTL DEF Spec

-----------------------------------------------------------------------------
(* The components of a score. *)

LEMMA ComponentsInRange ==
    ASSUME NEW t \in Tickets, NEW day \in Int
    PROVE  /\ SevScore(t) \in 0 .. 4
           /\ AgeScore(t, day) \in 0 .. 14
           /\ DueScore(t, day) \in 0 .. 7
<1>1. SevScore(t) \in 0 .. 4
  BY SeverityAssumption DEF SevScore, IsKnownSeverity
<1>2. AgeScore(t, day) \in 0 .. 14
  BY TicketsAssumption DEF AgeScore, Clamp, AgeHorizon
<1>3. DueScore(t, day) \in 0 .. 7
  BY TicketsAssumption DEF DueScore, Clamp, DueHorizon
<1>4. QED
  BY <1>1, <1>2, <1>3

LEMMA ComponentsRise ==
    ASSUME NEW t \in Tickets, NEW day \in Int, NEW later \in Int, day <= later
    PROVE  /\ AgeScore(t, day) <= AgeScore(t, later)
           /\ DueScore(t, day) <= DueScore(t, later)
BY TicketsAssumption DEF AgeScore, DueScore, Clamp, AgeHorizon, DueHorizon

LEMMA Scaled ==
    ASSUME NEW w \in Nat, NEW x \in Nat, NEW y \in Nat, x <= y
    PROVE  w * x \in Nat /\ w * x <= w * y
OBVIOUS

\* A score as a weighted sum of whole numbers.
LEMMA ScoreIs ==
    ASSUME NEW t \in Tickets, NEW day \in Int
    PROVE  Score(t, day) = 98 * (Weights.Severity * SevScore(t))
                         + 28 * (Weights.Age * AgeScore(t, day))
                         + 56 * (Weights.Due * DueScore(t, day))
<1> DEFINE s == SevScore(t)  a == AgeScore(t, day)  d == DueScore(t, day)
<1>1. s \in Int /\ a \in Int /\ d \in Int
  BY ComponentsInRange
<1>2. Weights.Severity \in Int /\ Weights.Age \in Int /\ Weights.Due \in Int
  BY WeightsAssumption
<1>3. Score(t, day) = Weights.Severity * s * 14 * 7 + Weights.Age * a * 4 * 7
                    + Weights.Due * d * 4 * 14
  BY DEF Score, AgeHorizon, DueHorizon
<1> HIDE DEF s, a, d
<1>4. \A w, x \in Int : /\ w * x * 14 * 7 = 98 * (w * x)
                        /\ w * x * 4 * 7 = 28 * (w * x)
                        /\ w * x * 4 * 14 = 56 * (w * x)
  OBVIOUS
<1>5. QED
  BY <1>1, <1>2, <1>3, <1>4 DEF s, a, d

\* No weights that add up to 1.0, none of them negative, take a score out of [0, 1].
THEOREM AlwaysInRange == Spec => []ScoreInRange
<1>1. TypeOK => ScoreInRange
  <2> SUFFICES ASSUME TypeOK, NoneNegative, AddUp
               PROVE  CurrentScore \in 0 .. One
    BY DEF ScoreInRange
  <2> DEFINE s == SevScore(ticket)  a == AgeScore(ticket, now)  d == DueScore(ticket, now)
             ws == Weights.Severity  wa == Weights.Age  wd == Weights.Due
  <2>1. ticket \in Tickets /\ now \in Int
    BY DaysAssumption DEF TypeOK
  <2>2. s \in 0 .. 4 /\ a \in 0 .. 14 /\ d \in 0 .. 7
    BY <2>1, ComponentsInRange
  <2>3. ws \in Nat /\ wa \in Nat /\ wd \in Nat /\ ws + wa + wd = 10
    BY DEF NoneNegative, AddUp
  <2>4. CurrentScore = 98 * (ws * s) + 28 * (wa * a) + 56 * (wd * d)
    BY <2>1, ScoreIs DEF CurrentScore
  <2> HIDE DEF s, a, d, ws, wa, wd
  <2> DEFINE p == ws * s  q == wa * a  r == wd * d
  <2>5. p \in Nat /\ q \in Nat /\ r \in Nat
    BY <2>2, <2>3, Scaled
  <2>6. p <= ws * 4 /\ q <= wa * 14 /\ r <= wd * 7
    BY <2>2, <2>3, Scaled
  <2>7. CurrentScore = 98 * p + 28 * q + 56 * r
    BY <2>4
  <2> HIDE DEF p, q, r
  <2>8. 98 * p + 28 * q + 56 * r \in 0 .. 3920
    BY <2>3, <2>5, <2>6
  <2>9. QED
    BY <2>7, <2>8 DEF One, AgeHorizon, DueHorizon
<1>2. QED
  BY <1>1, TypeCorrect, PTL

-----------------------------------------------------------------------------
(* Waiting. *)

LEMMA ScoreRises ==
    ASSUME NEW t \in Tickets, NEW day \in Int, NEW later \in Int, day <= later, NoneNegative
    PROVE  /\ Score(t, day) \in Int /\ Score(t, later) \in Int
           /\ Score(t, day) <= Score(t, later)
<1> DEFINE s == SevScore(t)  a == AgeScore(t, day)  d == DueScore(t, day)
           b == AgeScore(t, later)  e == DueScore(t, later)
           ws == Weights.Severity  wa == Weights.Age  wd == Weights.Due
<1>1. s \in Nat /\ a \in Nat /\ d \in Nat /\ b \in Nat /\ e \in Nat
  BY ComponentsInRange
<1>2. a <= b /\ d <= e
  BY ComponentsRise
<1>3. ws \in Nat /\ wa \in Nat /\ wd \in Nat
  BY DEF NoneNegative
<1>4. /\ Score(t, day) = 98 * (ws * s) + 28 * (wa * a) + 56 * (wd * d)
      /\ Score(t, later) = 98 * (ws * s) + 28 * (wa * b) + 56 * (wd * e)
  BY ScoreIs
<1> HIDE DEF s, a, d, b, e, ws, wa, wd
<1>5. /\ ws * s \in Nat /\ wa * a \in Nat /\ wd * d \in Nat
      /\ wa * b \in Nat /\ wd * e \in Nat
      /\ wa * a <= wa * b /\ wd * d <= wd * e
  BY <1>1, <1>2, <1>3, Scaled
<1>6. QED
  BY <1>4, <1>5

LEMMA RankIs ==
    ASSUME NEW score \in Int
    PROVE  LET b == BucketRank(score)
           IN  /\ b \in 1 .. 5
               /\ b = 1 \/ 100 * score >= BucketFloor[b] * One
               /\ \A c \in 1 .. 5 : c > b => 100 * score < BucketFloor[c] * One
<1> DEFINE Fits(b) == /\ b = 1 \/ 100 * score >= BucketFloor[b] * One
                      /\ \A c \in 1 .. 5 : c > b => 100 * score < BucketFloor[c] * One
<1>1. One = 3920
  BY DEF One, AgeHorizon, DueHorizon
<1>2. /\ BucketFloor[1] = 0 /\ BucketFloor[2] = 15 /\ BucketFloor[3] = 40
      /\ BucketFloor[4] = 70 /\ BucketFloor[5] = 90
  BY DEF BucketFloor
<1>3. \E b \in 1 .. 5 : Fits(b)
  <2>1. CASE 100 * score >= 90 * 3920
    BY <1>1, <1>2, <2>1
  <2>2. CASE 100 * score < 90 * 3920 /\ 100 * score >= 70 * 3920
    BY <1>1, <1>2, <2>2
  <2>3. CASE 100 * score < 70 * 3920 /\ 100 * score >= 40 * 3920
    BY <1>1, <1>2, <2>3
  <2>4. CASE 100 * score < 40 * 3920 /\ 100 * score >= 15 * 3920
    BY <1>1, <1>2, <2>4
  <2>5. CASE 100 * score < 15 * 3920
    BY <1>1, <1>2, <2>5
  <2>6. QED
    BY <2>1, <2>2, <2>3, <2>4, <2>5
<1>4. BucketRank(score) = CHOOSE b \in 1 .. 5 : Fits(b)
  BY DEF BucketRank
<1> HIDE DEF Fits
<1>5. BucketRank(score) \in 1 .. 5 /\ Fits(BucketRank(score))
  BY <1>3, <1>4
<1>6. QED
  BY <1>5 DEF Fits

LEMMA RankRises ==
    ASSUME NEW score \in Int, NEW higher \in Int, score <= higher
    PROVE  BucketRank(score) <= BucketRank(higher)
<1> DEFINE b == BucketRank(higher)  c == BucketRank(score)
<1>1. SUFFICES ASSUME c > b PROVE FALSE
  BY RankIs
<1>2. b \in 1 .. 5 /\ c \in 1 .. 5 /\ c # 1
  BY <1>1, RankIs
<1>3. 100 * higher < BucketFloor[c] * One
  BY <1>1, <1>2, RankIs
<1>4. 100 * score >= BucketFloor[c] * One
  BY <1>2, RankIs
<1>5. BucketFloor[c] * One \in Int
  <2>1. BucketFloor[c] \in Int
    BY <1>2 DEF BucketFloor
  <2>2. QED
    BY <2>1 DEF One, AgeHorizon, DueHorizon
<1>6. QED
  BY <1>3, <1>4, <1>5

\* A ticket nobody touches never sinks, whatever the weights, if none is negative.
THEOREM NeverSinks == Spec => WaitingNeverSinks
<1> DEFINE Sinks == /\ NoneNegative /\ ticket' = ticket
                    /\ ~ (/\ Score(ticket', now') >= Score(ticket, now)
                          /\ BucketRank(Score(ticket', now')) >= BucketRank(Score(ticket, now)))
<1>1. TypeOK /\ [Next]_vars => ~Sinks
  <2> SUFFICES ASSUME TypeOK, [Next]_vars, NoneNegative, ticket' = ticket
               PROVE  /\ Score(ticket', now') >= Score(ticket, now)
                      /\ BucketRank(Score(ticket', now')) >= BucketRank(Score(ticket, now))
    OBVIOUS
  <2>1. now \in Int /\ now' \in Int /\ now <= now' /\ ticket \in Tickets
    BY DaysAssumption DEF TypeOK, Next, Tick, Update, vars
  <2>2. /\ Score(ticket, now) \in Int /\ Score(ticket, now') \in Int
        /\ Score(ticket, now) <= Score(ticket, now')
    BY <2>1, ScoreRises
  <2>3. BucketRank(Score(ticket, now)) <= BucketRank(Score(ticket, now'))
    BY <2>2, RankRises
  <2>4. /\ BucketRank(Score(ticket, now)) \in Int /\ BucketRank(Score(ticket, now')) \in Int
    BY <2>2, RankIs
  <2>5. QED
    BY <2>2, <2>3, <2>4
<1>2. QED
  BY <1>1, TypeCorrect, PTL DEF Spec, WaitingNeverSinks

-----------------------------------------------------------------------------
(* The urgent buckets. *)

\* A ticket of a severity below the one a bucket asks for stays under its floor.
LEMMA SeverityBounds ==
    ASSUME NEW t \in Tickets, NEW day \in Int,
           NoneNegative, AddUp, Weights.Severity > 4
    PROVE  /\ Score(t, day) \in Int
           /\ SevScore(t) # 4 => 100 * Score(t, day) < 90 * 3920
           /\ SevScore(t) < 2 => 100 * Score(t, day) < 70 * 3920
<1> DEFINE s == SevScore(t)  a == AgeScore(t, day)  d == DueScore(t, day)
           ws == Weights.Severity  wa == Weights.Age  wd == Weights.Due
<1>1. s \in 0 .. 4 /\ a \in 0 .. 14 /\ d \in 0 .. 7
  BY ComponentsInRange
<1>2. ws \in Nat /\ wa \in Nat /\ wd \in Nat /\ ws + wa + wd = 10 /\ ws > 4
  BY DEF NoneNegative, AddUp
<1>3. Score(t, day) = 98 * (ws * s) + 28 * (wa * a) + 56 * (wd * d)
  BY ScoreIs
<1> HIDE DEF s, a, d, ws, wa, wd
<1>4. /\ ws * s \in Nat /\ wa * a \in Nat /\ wd * d \in Nat
      /\ wa * a <= wa * 14 /\ wd * d <= wd * 7
  BY <1>1, <1>2, Scaled
<1>5. ASSUME s # 4 PROVE ws * s <= ws * 3
  BY <1>1, <1>2, <1>5, Scaled
<1>6. ASSUME s < 2 PROVE ws * s <= ws * 1
  BY <1>1, <1>2, <1>6, Scaled
<1> DEFINE p == ws * s  q == wa * a  r == wd * d
<1>7. /\ p \in Nat /\ q \in Nat /\ r \in Nat /\ q <= 14 * wa /\ r <= 7 * wd
      /\ s # 4 => p <= 3 * ws
      /\ s < 2 => p <= ws
  BY <1>2, <1>4, <1>5, <1>6
<1>8. Score(t, day) = 98 * p + 28 * q + 56 * r
  BY <1>3
<1> HIDE DEF p, q, r
<1>9. Score(t, day) \in Int
  BY <1>7, <1>8
<1>10. s # 4 => 100 * Score(t, day) < 90 * 3920
  BY <1>2, <1>7, <1>8
<1>11. s < 2 => 100 * Score(t, day) < 70 * 3920
  BY <1>2, <1>7, <1>8
<1>12. QED
  BY <1>9, <1>10, <1>11 DEF s

\* No severity, age and due date break the caps of the urgent buckets.
THEOREM BucketsCapped == Spec => []SeverityCapsBucket
<1>1. TypeOK => SeverityCapsBucket
  <2> SUFFICES ASSUME TypeOK, NoneNegative, AddUp, Weights.Severity > 4
               PROVE  /\ BucketFor(CurrentScore) = "critical" => SevScore(ticket) = 4
                      /\ BucketFor(CurrentScore) = "high" => SevScore(ticket) >= 2
    BY DEF SeverityCapsBucket
  <2> DEFINE b == BucketRank(CurrentScore)
  <2>1. ticket \in Tickets /\ now \in Int
    BY DaysAssumption DEF TypeOK
  <2>2. /\ CurrentScore \in Int
        /\ SevScore(ticket) # 4 => 100 * CurrentScore < 90 * 3920
        /\ SevScore(ticket) < 2 => 100 * CurrentScore < 70 * 3920
        /\ SevScore(ticket) \in 0 .. 4
    BY <2>1, SeverityBounds, ComponentsInRange DEF CurrentScore
  <2>3. b \in 1 .. 5 /\ (b = 1 \/ 100 * CurrentScore >= BucketFloor[b] * One)
    BY <2>2, RankIs
  <2>4. BucketFor(CurrentScore) = BucketNames[b]
    BY DEF BucketFor
  <2> HIDE DEF b
  <2>5. b = 5 => 100 * CurrentScore >= 90 * 3920
    BY <2>3 DEF BucketFloor, One, AgeHorizon, DueHorizon
  <2>6. b = 4 => 100 * CurrentScore >= 70 * 3920
    BY <2>3 DEF BucketFloor, One, AgeHorizon, DueHorizon
  <2>7. BucketNames[b] = "critical" => b = 5
    BY <2>3 DEF BucketNames
  <2>8. BucketNames[b] = "high" => b = 4
    BY <2>3 DEF BucketNames
  <2>9. QED
    BY <2>2, <2>4, <2>5, <2>6, <2>7, <2>8
<1>2. QED
  BY <1>1, TypeCorrect, PTL

-----------------------------------------------------------------------------
(* The two ways the staleness is decided. *)

\* Induction over the natural numbers, for the set of those a fact holds for.
LEMMA Induction ==
    ASSUME NEW S, 0 \in S, \A n \in Nat : n \in S => n + 1 \in S
    PROVE  \A n \in Nat : n \in S
<1> DEFINE T == Nat \ S
<1>1. SUFFICES ASSUME T # {} PROVE FALSE
  OBVIOUS
<1>2. IsWellFoundedOn(OpToRel(<, Nat), Nat)
  BY NatLessThanWellFounded
<1>3. PICK i \in T : \A j \in T : <<j, i>> \notin OpToRel(<, Nat)
  BY <1>1, <1>2, WFMin
<1>4. \A j \in T : ~(j < i)
  BY <1>3 DEF OpToRel
<1>5. i # 0 /\ i - 1 \in Nat /\ i - 1 \notin T
  BY <1>4
<1>6. QED
  BY <1>5

LEMMA MaxOfInterval ==
    ASSUME NEW k \in Nat, NEW s \in SUBSET (1 .. k), k \in s
    PROVE  Max(s) = k
<1>1. \A x \in s : x \in Int /\ k >= x
  OBVIOUS
<1>2. \A x \in s : (\A y \in s : x >= y) => x = k
  BY <1>1
<1>3. QED
  BY <1>1, <1>2 DEF Max

\* One step of the scan, and the function on index sets that the fold is.
Later(last, e, caller) ==
    IF IsSupportSide(e, caller) /\ (last = None \/ e.ts > last[1]) THEN <<e.ts>> ELSE last

IsScan(g, k, ev, caller) ==
    g = [s \in SUBSET (1 .. k) |->
            IF s = {} THEN None ELSE Later(g[s \ {Max(s)}], ev[Max(s)], caller)]

LEMMA ScanExists ==
    ASSUME NEW n \in Nat, NEW ev, NEW caller
    PROVE  \E g : IsScan(g, n, ev, caller)
<1> DEFINE S == {k \in Nat : \E g : IsScan(g, k, ev, caller)}
<1>1. 0 \in S
  <2> DEFINE g == [s \in SUBSET (1 .. 0) |-> None]
  <2>1. SUBSET (1 .. 0) = {{}}
    OBVIOUS
  <2>2. IsScan(g, 0, ev, caller)
    BY <2>1 DEF IsScan
  <2>3. QED
    BY <2>2
<1>2. ASSUME NEW k \in Nat, k \in S PROVE k + 1 \in S
  <2>1. PICK g : IsScan(g, k, ev, caller)
    BY <1>2
  <2> DEFINE h == [s \in SUBSET (1 .. k + 1) |->
                      IF k + 1 \in s THEN Later(g[s \ {k + 1}], ev[k + 1], caller) ELSE g[s]]
  <2>2. ASSUME NEW s \in SUBSET (1 .. k + 1)
        PROVE  h[s] = IF s = {} THEN None ELSE Later(h[s \ {Max(s)}], ev[Max(s)], caller)
    <3>1. CASE k + 1 \in s
      <4>1. Max(s) = k + 1
        BY <3>1, MaxOfInterval
      <4>2. s \ {k + 1} \in SUBSET (1 .. k + 1) /\ k + 1 \notin s \ {k + 1}
        OBVIOUS
      <4>3. h[s \ {k + 1}] = g[s \ {k + 1}]
        BY <4>2
      <4>4. QED
        BY <3>1, <4>1, <4>3
    <3>2. CASE k + 1 \notin s
      <4>1. s \in SUBSET (1 .. k)
        BY <3>2
      <4>2. h[s] = g[s]
        BY <3>2
      <4>3. h[s \ {Max(s)}] = g[s \ {Max(s)}]
        BY <3>2
      <4>4. g[s] = IF s = {} THEN None ELSE Later(g[s \ {Max(s)}], ev[Max(s)], caller)
        BY <2>1, <4>1 DEF IsScan
      <4>5. QED
        BY <4>2, <4>3, <4>4
    <3>3. QED
      BY <3>1, <3>2
  <2>3. h = [s \in SUBSET (1 .. k + 1) |->
                IF s = {} THEN None ELSE Later(h[s \ {Max(s)}], ev[Max(s)], caller)]
    <3>1. h = [s \in SUBSET (1 .. k + 1) |-> h[s]]
      OBVIOUS
    <3> HIDE DEF h
    <3>2. QED
      BY <2>2, <3>1
  <2>4. IsScan(h, k + 1, ev, caller)
    BY <2>3 DEF IsScan
  <2> HIDE DEF h
  <2>5. QED
    BY <2>4
<1> HIDE DEF S
<1>3. n \in S
  BY <1>1, <1>2, Induction
<1>4. QED
  BY <1>3 DEF S

\* "last" holds the newest support-side timestamp of the first k entries.
IsLatest(last, k, ev, caller) ==
    LET Support == {i \in 1 .. k : IsSupportSide(ev[i], caller)}
    IN  \/ Support = {} /\ last = None
        \/ \E i \in Support : last = <<ev[i].ts>> /\ \A j \in Support : ev[j].ts <= ev[i].ts

\* One more entry keeps it so.
LEMMA LaterIsLatest ==
    ASSUME NEW k \in Nat, NEW ev, NEW caller, NEW last, IsLatest(last, k, ev, caller),
           \A i \in 1 .. k + 1 : ev[i].ts \in Int
    PROVE  IsLatest(Later(last, ev[k + 1], caller), k + 1, ev, caller)
<1> DEFINE Support == {i \in 1 .. k : IsSupportSide(ev[i], caller)}
           More    == {i \in 1 .. k + 1 : IsSupportSide(ev[i], caller)}
           e       == ev[k + 1]
<1>1. CASE ~IsSupportSide(e, caller)
  <2>1. More = Support
    BY <1>1
  <2>2. Later(last, e, caller) = last
    BY <1>1 DEF Later
  <2>3. QED
    BY <2>1, <2>2 DEF IsLatest
<1>2. CASE IsSupportSide(e, caller) /\ Support = {}
  <2>1. last = None
    BY <1>2 DEF IsLatest
  <2>2. Later(last, e, caller) = <<e.ts>>
    BY <1>2, <2>1 DEF Later
  <2>3. More = {k + 1}
    BY <1>2
  <2>4. QED
    BY <2>2, <2>3 DEF IsLatest
<1>3. CASE IsSupportSide(e, caller) /\ Support # {}
  <2>1. PICK i \in Support : last = <<ev[i].ts>> /\ \A j \in Support : ev[j].ts <= ev[i].ts
    BY <1>3 DEF IsLatest
  <2>2. last # None /\ last[1] = ev[i].ts
    BY <2>1 DEF None
  <2>3. More = Support \cup {k + 1} /\ k + 1 \in More /\ i \in More
    BY <1>3
  <2>4. ev[i].ts \in Int /\ e.ts \in Int
    OBVIOUS
  <2>5. CASE e.ts > ev[i].ts
    <3>1. Later(last, e, caller) = <<e.ts>>
      BY <1>3, <2>2, <2>5 DEF Later
    <3>2. \A j \in More : ev[j].ts <= ev[k + 1].ts
      BY <2>1, <2>3, <2>4, <2>5
    <3>3. QED
      BY <2>3, <3>1, <3>2 DEF IsLatest
  <2>6. CASE ~(e.ts > ev[i].ts)
    <3>1. Later(last, e, caller) = last
      BY <2>2, <2>6 DEF Later
    <3>2. \A j \in More : ev[j].ts <= ev[i].ts
      BY <2>1, <2>3, <2>4, <2>6
    <3>3. QED
      BY <2>1, <2>3, <3>1, <3>2 DEF IsLatest
  <2>7. QED
    BY <2>5, <2>6
<1>4. QED
  BY <1>1, <1>2, <1>3

\* The scan ends with the newest support-side timestamp, or with none.
LEMMA ScanFindsLatest ==
    ASSUME NEW n \in Nat, NEW ev, NEW caller, NEW g, IsScan(g, n, ev, caller),
           \A i \in 1 .. n : ev[i].ts \in Int
    PROVE  IsLatest(g[1 .. n], n, ev, caller)
<1> DEFINE S == {k \in Nat : k <= n => IsLatest(g[1 .. k], k, ev, caller)}
<1>1. 0 \in S
  <2>1. g[1 .. 0] = None
    BY DEF IsScan
  <2>2. QED
    BY <2>1 DEF IsLatest
<1>2. ASSUME NEW k \in Nat, k \in S PROVE k + 1 \in S
  <2> SUFFICES ASSUME k + 1 <= n
               PROVE  IsLatest(g[1 .. k + 1], k + 1, ev, caller)
    OBVIOUS
  <2>1. 1 .. k + 1 \in SUBSET (1 .. n) /\ k + 1 \in 1 .. k + 1 /\ (1 .. k + 1) \ {k + 1} = 1 .. k
    OBVIOUS
  <2>2. Max(1 .. k + 1) = k + 1
    BY <2>1, MaxOfInterval
  <2>3. g[1 .. k + 1] = Later(g[1 .. k], ev[k + 1], caller)
    BY <2>1, <2>2 DEF IsScan
  <2>4. IsLatest(g[1 .. k], k, ev, caller)
    BY <1>2
  <2>5. \A i \in 1 .. k + 1 : ev[i].ts \in Int
    OBVIOUS
  <2>6. QED
    BY <2>3, <2>4, <2>5, LaterIsLatest
<1> HIDE DEF S
<1>3. n \in S
  BY <1>1, <1>2, Induction
<1>4. QED
  BY <1>3 DEF S

\* StaleAsOf as a decision on the last value of the scan.
LEMMA StaleAsOfIs ==
    ASSUME NEW n \in Nat, NEW ev, DOMAIN ev = 1 .. n, NEW caller, NEW threshold, NEW d
    PROVE  LET g == CHOOSE g : IsScan(g, n, ev, caller)
           IN  StaleAsOf(ev, caller, threshold, d)
                 = (g[1 .. n] = None \/ d - g[1 .. n][1] > threshold)
BY DEF StaleAsOf, FoldLeft, MapThenFoldSet, IsScan, Later

\* An enumeration of a finite set misses none of its elements.
LEMMA Enumerated ==
    ASSUME NEW S, IsFiniteSet(S), NEW s \in SetToSeqs(S)
    PROVE  /\ Cardinality(S) \in Nat /\ DOMAIN s = 1 .. Cardinality(S)
           /\ \A i \in DOMAIN s : s[i] \in S
           /\ \A x \in S : \E i \in DOMAIN s : s[i] = x
<1> DEFINE n == Cardinality(S)
<1>1. n \in Nat
  BY FS_CardinalityType
<1>2. s \in [1 .. n -> S] /\ \A i, j \in 1 .. n : i # j => s[i] # s[j]
  BY DEF SetToSeqs
<1>3. s \in Injection(1 .. n, S)
  BY <1>2 DEF Injection, IsInjective
<1>4. Cardinality(1 .. n) = n
  BY <1>1, FS_Interval
<1>5. s \in Surjection(1 .. n, S)
  BY <1>3, <1>4, FS_Injection
<1>6. QED
  BY <1>1, <1>2, <1>5 DEF Surjection

\* However the events of a ticket are ordered, the scan of the detail view and
\* the LATERAL join of the lists come to the same flag.
THEOREM FlagsAlwaysAgree == Spec => []FlagsAgree
<1>1. TypeOK => FlagsAgree
  <2> SUFFICES ASSUME TypeOK, NEW s \in SetToSeqs(events)
               PROVE  StaleAsOf(s, ticket.caller, StaleThreshold, now) <=> Stale
    BY DEF FlagsAgree
  <2> DEFINE n      == Cardinality(events)
             caller == ticket.caller
             g      == CHOOSE g : IsScan(g, n, s, caller)
             last   == g[1 .. n]
             Sup    == {f \in events : IsSupportSide(f, caller)}
             Times  == {e.ts : e \in Sup}
  <2>1. IsFiniteSet(events) /\ \A e \in events : e.ts \in Int
    BY EventsAssumption, FS_Subset DEF TypeOK
  <2>2. /\ n \in Nat /\ DOMAIN s = 1 .. n
        /\ \A i \in 1 .. n : s[i] \in events
        /\ \A x \in events : \E i \in 1 .. n : s[i] = x
    BY <2>1, Enumerated
  <2> HIDE DEF n
  <2>3. IsScan(g, n, s, caller)
    BY <2>2, ScanExists
  <2>4. StaleAsOf(s, caller, StaleThreshold, now) = (last = None \/ now - last[1] > StaleThreshold)
    BY <2>2, StaleAsOfIs
  <2> HIDE DEF g
  <2>5. IsLatest(last, n, s, caller)
    BY <2>1, <2>2, <2>3, ScanFindsLatest
  <2> HIDE DEF last
  <2> DEFINE Support == {i \in 1 .. n : IsSupportSide(s[i], caller)}
  <2>6. LastSupport(events, caller) = last
    <3>1. LastSupport(events, caller) = IF Times = {} THEN None ELSE <<Max(Times)>>
      BY DEF LastSupport
    <3>2. CASE Support = {}
      <4>1. Sup = {}
        BY <2>2, <3>2
      <4>2. last = None
        BY <2>5, <3>2 DEF IsLatest
      <4>3. QED
        BY <3>1, <4>1, <4>2
    <3>3. CASE Support # {}
      <4>1. PICK i \in Support : last = <<s[i].ts>> /\ \A j \in Support : s[j].ts <= s[i].ts
        BY <2>5, <3>3 DEF IsLatest
      <4>2. s[i] \in Sup /\ s[i].ts \in Times
        BY <2>2
      <4>3. \A t \in Times : t \in Int /\ t <= s[i].ts
        <5>1. SUFFICES ASSUME NEW f \in Sup PROVE f.ts \in Int /\ f.ts <= s[i].ts
          OBVIOUS
        <5>2. PICK j \in 1 .. n : s[j] = f
          BY <2>2
        <5>3. j \in Support
          BY <5>2
        <5>4. QED
          BY <2>1, <4>1, <5>2, <5>3
      <4> HIDE DEF Times
      <4>4. Max(Times) = s[i].ts
        BY <4>2, <4>3 DEF Max
      <4>5. QED
        BY <3>1, <4>1, <4>2, <4>4
    <3>4. QED
      BY <3>2, <3>3
  <2>7. QED
    BY <2>4, <2>6 DEF Stale, StaleFromLastSupport
<1>2. QED
  BY <1>1, TypeCorrect, PTL
=============================================================================
