---------------------------- MODULE MCDashboard ----------------------------
(***************************************************************************)
(* Instances of DashboardReads for TLC: three tickets, one of an internal  *)
(* service, and the exports that bring and change them.                    *)
(***************************************************************************)
EXTENDS DashboardReads

CONSTANTS t1, t2, t3, s1, s2, s3, c1, v1, v2, v3, v4, e1, e2, e3,
          A,   \* the first export: t1 and the internal t2
          B,   \* a later one: t1 changed, t2 gone, t3 new
          C    \* t2 and t3, updated in the same second, t3 on the service of t1

Rec4(n, s, v, j) == [num |-> n, svc |-> s, cols |-> v, journal |-> j]

AllRows ==
    [x \in {A, B, C} |->
        CASE x = A -> << Rec4(t1, s1, v1, <<e1>>), Rec4(t2, s2, v2, <<e2>>) >>
          [] x = B -> << Rec4(t1, s1, v3, <<e3, e1>>), Rec4(t3, s3, v4, << >>) >>
          [] x = C -> << Rec4(t2, s2, v2, <<e2>>), Rec4(t3, s1, v2, <<e1>>) >>]

MCRows      == [x \in Export |-> AllRows[x]]
MCClientOf  == [s \in Service |-> IF s = s2 THEN Null ELSE c1]
MCCountryOf == [s \in Service |-> CASE s = s1 -> "GB" [] s = s2 -> Null [] s = s3 -> "FR"]

Columns(state, severity, updated, opened, due) ==
    [state |-> state, severity |-> severity, updated |-> updated, opened |-> opened,
     due |-> due, caller |-> "ann"]

\* The day is 9; "Urgent" is a severity the scorer does not know.
MCColsOf ==
    [v \in Version |->
        CASE v = v1 -> Columns("New", "High", 5, 4, 12)
          [] v = v2 -> Columns("New", "Urgent", 6, 1, 7)
          [] v = v3 -> Columns("Closed", "High", 8, 4, 12)
          [] v = v4 -> Columns("New", "High", 7, 4, 12)]

MCEntryOf ==
    [e \in Entry |->
        CASE e = e1 -> [ts |-> 5, author |-> "ann", context |-> "Additional comments"]
          [] e = e2 -> [ts |-> 4, author |-> "bob", context |-> "Additional comments"]
          [] e = e3 -> [ts |-> 8, author |-> "ann", context |-> "Work Notes"]]

MCWeights  == [Severity |-> 5, Age |-> 2, Due |-> 3]
MCSeverity == [s \in {"High"} |-> 3]

List(limit, offset, sort, severity, state) ==
    [kind |-> "list", limit |-> limit, offset |-> offset, sort |-> sort,
     severity |-> severity, state |-> state]

Gets(ids) == [kind: {"ticket"}, id: ids]

MCTotals == {[kind |-> "stats"], [kind |-> "clients"], [kind |-> "markets"]}

MCLists ==
    {List(9, 0, "score_desc", NoFilter, NoFilter), List(9, -1, "due_date_asc", NoFilter, "New"),
     List(2, 1, "opened_at_desc", NoFilter, NoFilter), List(0, 1, NoFilter, "High", NoFilter),
     List(NotInt, 0, NoFilter, NoFilter, NoFilter), List(9, 0, "oldest", NoFilter, NoFilter)}
    \cup Gets({t2, NotInt})

MCReads == MCTotals \cup MCLists \cup Gets({t1, t3})

\* One filtered list.
MCNewOnly  == {List(9, 0, NoFilter, NoFilter, "New")}
=============================================================================
