------------------------------ MODULE MCIngest ------------------------------
(***************************************************************************)
(* An instance of IngestWriter for TLC.                                      *)
(***************************************************************************)
EXTENDS IngestWriter

CONSTANTS t1, t2, s1, s2, s3, c1, v1, v2, v3, v4, e1, e2, e3,
          A,   \* an export whose first ticket repeats an entry
          B,   \* a later one: the same tickets, reordered, changed and moved
          D    \* an export with two records about one ticket

Rec4(n, s, v, j) == [num |-> n, svc |-> s, cols |-> v, journal |-> j]

AllRows ==
    [x \in {A, B, D} |->
        CASE x = A -> << Rec4(t1, s1, v1, <<e1, e1>>), Rec4(t2, s2, v1, <<e2>>) >>
          [] x = B -> << Rec4(t2, s3, v2, <<e3, e2>>), Rec4(t1, s3, v2, <<e1>>) >>
          [] x = D -> << Rec4(t1, s1, v3, <<e3>>), Rec4(t1, s1, v4, << >>) >>]

MCRows     == [x \in Export |-> AllRows[x]]
MCClientOf == [s \in Service |-> IF s = s1 THEN c1 ELSE Null]
=============================================================================
