---------------------------- MODULE UpperPushdown ---------------------------
(***************************************************************************)
(* Grouping, window functions, the final sort and LIMIT computed by        *)
(* ClickHouse (src/src/fdw.c, with the clauses of src/src/deparse.c).      *)
(*                                                                         *)
(* The planner calls clickhouseGetForeignUpperPaths once for each step a   *)
(* query needs after its scan.  A call that finds its step safe marks the  *)
(* new relation pushdown_safe, which is what lets the next step be         *)
(* considered, and adds a path; the planner may take any path there is and *)
(* does the remaining steps itself.  The state is the query being planned, *)
(* the CHFdwRelationInfo of each relation and the paths added so far.      *)
(*                                                                         *)
(* RowsSame runs every path over every table and compares the outcome with *)
(* what PostgreSQL would answer.                                           *)
(***************************************************************************)
EXTENDS Integers, FiniteSets, FiniteSetsExt, Functions

CONSTANTS Tables,       \* what the table may hold: functions from row numbers to rows
          LimitOptions, \* "COUNT", and "TIES" for FETCH FIRST ... WITH TIES
          WinTargets    \* over a grouping: has the target a plain "column", or not ("none")

(* What the constants may be. *)
UpperConstants ==
    /\ \A t \in Tables : IsFiniteSet(DOMAIN t) /\ \A i \in DOMAIN t : t[i] \in [k : Int, v : Int]
    /\ LimitOptions \subseteq {"COUNT", "TIES"}
    /\ WinTargets \subseteq {"column", "none"}

VARIABLES query,        \* the Query
          current,      \* the planner's current relation, the input of the next step
          todo,         \* the steps still to plan
          rel,          \* relation -> its fdw_private
          paths         \* the foreign paths added

upperVars == <<query, current, todo, rel, paths>>

(* safe is pushdown_safe, and qp is qp_is_pushdown_safe                    *)
NoInfo == [set |-> FALSE, safe |-> FALSE, outer |-> "none", qp |-> FALSE,
           remote |-> {}, local |-> {}, tlist |-> {}]

(* A query: the conditions of WHERE and HAVING that can ("remote") and     *)
(* cannot ("local") be shipped, the class of each expression, and the      *)
(* clauses it has.  agg "wrapped" is a local function of a shippable       *)
(* aggregate; having "strange" needs an aggregate that cannot be shipped.  *)
Queries ==
    [where : SUBSET {"remote", "local"},
     group : {"none", "ship", "unship", "param", "sets"},
     agg   : {"ship", "wrapped", "unship"},
     having: {"none", "remote", "local", "strange"},
     win   : {"none", "one", "two", "unship"}, wtarget: WinTargets,
     extra : {"none", "srf", "distinct"},
     sort  : {"none", "ship", "unship", "volatile"},
     limit : {"none", "ship", "unship"}, option: LimitOptions]

(* one unusual thing at a time, and no clause without what it qualifies    *)
Wellformed(q) ==
    /\ q.group = "none" => q.agg = "ship" /\ q.having = "none"
    /\ q.group = "none" \/ q.win = "none" => q.wtarget = "column"
    /\ q.group \in {"unship", "param", "sets"} => q.agg = "ship" /\ q.having = "none"
    /\ q.agg = "unship" => q.having = "none"
    /\ q.option = "TIES" => q.limit = "ship" /\ q.sort # "none"

(* The steps of a query, and those the planner takes before each step      *)
Steps(q) ==
    {"base", "final"}
      \cup (IF q.group # "none" THEN {"group"} ELSE {})
      \cup (IF q.win # "none" THEN {"window"} ELSE {})
      \cup ({q.extra} \cap {"srf", "distinct"})
      \cup (IF q.sort # "none" THEN {"ordered"} ELSE {})

Earlier ==
    [base     |-> {},
     group    |-> {"base"},
     window   |-> {"base", "group"},
     srf      |-> {"base", "group", "window"},
     distinct |-> {"base", "group", "window"},
     ordered  |-> {"base", "group", "window", "srf", "distinct"},
     final    |-> {"base", "group", "window", "srf", "distinct", "ordered"}]

IsNext(st) == st \in todo /\ Earlier[st] \cap todo = {}

Path(r, sort, limit) == [rel |-> r, sort |-> sort, limit |-> limit]

UpperInit ==
    /\ query \in {q \in Queries : Wellformed(q)}
    /\ current = "none"
    /\ todo = Steps(query)
    /\ rel = [r \in {"base", "group", "window", "distinct", "ordered", "final"} |-> NoInfo]
    /\ paths = {}

-----------------------------------------------------------------------------
(* chfdw_is_foreign_expr on the classes of expressions                     *)
IsForeignExpr(class) == class \in {"none", "ship", "param", "column"}

(* is_foreign_param: over a grouping, the relids that tell a Var from a    *)
(* parameter are the grouping relation's own, which are empty              *)
IsForeignParam(outer, class) ==
    class = "param" \/ (class = "column" /\ outer = "group")

(* get_useful_pathkeys_for_relation; without grouping, windows or DISTINCT *)
(* the query's pathkeys are those of its ORDER BY                          *)
UsefulPathkeys(q) ==
    /\ q.group = "none" /\ q.win = "none" /\ q.extra # "distinct"
    /\ q.sort \notin {"none", "volatile"}
    /\ IsForeignExpr(q.sort)

(* clickhouseGetForeignRelSize and clickhouseGetForeignPaths               *)
BaseRelInfo(q) ==
    [NoInfo EXCEPT !.set = TRUE, !.safe = TRUE, !.qp = UsefulPathkeys(q),
                   !.remote = q.where \cap {"remote"},
                   !.local  = q.where \cap {"local"}]

BasePaths(q) ==
    {Path("base", sort, FALSE) : sort \in {FALSE, UsefulPathkeys(q)}}

(* foreign_grouping_ok: whether to push, and what the relation keeps       *)
GroupingOk(q, outer) ==
    /\ q.group # "sets"
    /\ rel[outer].local = {}
    /\ IsForeignExpr(q.group) /\ ~IsForeignParam(outer, q.group)
    /\ q.agg \in {"ship", "wrapped"}
    /\ q.having # "strange"

(* the target list, with the aggregates of a local HAVING                  *)
GroupedTlist(q) ==
    {"k", "v"} \cup (IF q.having = "local" THEN {"count"} ELSE {})

GroupingInfo(q, outer) ==
    [NoInfo EXCEPT !.set = TRUE, !.safe = TRUE, !.outer = outer,
                   !.remote = {q.having} \cap {"remote"},
                   !.local  = {q.having} \cap {"local"},
                   !.tlist  = GroupedTlist(q)]

(* foreign_window_ok: no expression of the target may stay local           *)
WindowOk(q, outer) ==
    /\ rel[outer].local = {}
    /\ q.win # "unship" /\ q.agg = "ship"
    /\ IsForeignExpr(q.wtarget) /\ ~IsForeignParam(outer, q.wtarget)

(* add_foreign_ordered_paths: a scan was already offered the query's       *)
(* order; a grouping is ordered by its aggregate                           *)
OrderedOk(q, input) ==
    /\ q.extra # "srf"
    /\ IF input = "base" THEN rel["base"].qp
       ELSE /\ q.sort # "volatile" /\ IsForeignExpr(q.sort)
            /\ input = "group" => q.agg = "ship"

(* add_foreign_final_paths: a sort is taken over with the relation below   *)
Underlying(input) == IF input = "ordered" THEN rel["ordered"].outer ELSE input

LimitBeforeFilter(q, input) ==
    /\ q.limit # "none"
    /\ q.extra # "srf"
    /\ IsForeignExpr(q.limit)

FinalOk(q, input) ==
    /\ q.limit # "none"
    /\ q.extra # "srf"
    /\ rel[Underlying(input)].local = {}
    /\ IsForeignExpr(q.limit)

-----------------------------------------------------------------------------
(* clickhouseGetForeignUpperPaths: the early returns, the new fdw_private  *)
(* and the path of the step                                                *)
UpperPaths(st, ok, info, new) ==
    /\ IsNext(st)
    /\ LET called == rel[current].safe /\ ~rel[st].set
       IN  /\ rel' = [rel EXCEPT ![st] =
                        CASE ~called -> @
                          [] called /\ ok -> info
                          [] OTHER -> [NoInfo EXCEPT !.set = TRUE, !.outer = current]]
           /\ paths' = paths \cup (IF called /\ ok THEN new ELSE {})
    /\ current' = st
    /\ todo' = todo \ {st}
    /\ UNCHANGED query

SafeOver(input) == [NoInfo EXCEPT !.set = TRUE, !.safe = TRUE, !.outer = input]

GetForeignPaths ==
    /\ IsNext("base")
    /\ rel' = [rel EXCEPT !["base"] = BaseRelInfo(query)]
    /\ paths' = BasePaths(query)
    /\ current' = "base"
    /\ todo' = todo \ {"base"}
    /\ UNCHANGED query

AddForeignGroupingPaths ==
    UpperPaths("group", GroupingOk(query, current), GroupingInfo(query, current),
               {Path("group", FALSE, FALSE)})

AddForeignWindowPaths ==
    UpperPaths("window", WindowOk(query, current), SafeOver(current),
               {Path("window", FALSE, FALSE)})

AddForeignOrderedPaths ==
    UpperPaths("ordered", OrderedOk(query, current), SafeOver(current),
               IF current = "base" THEN {} ELSE {Path(current, TRUE, FALSE)})

AddForeignFinalPaths ==
    UpperPaths("final", FinalOk(query, current), SafeOver(current),
               {Path(Underlying(current), current = "ordered", TRUE)})

(* a step this wrapper has no part in: DISTINCT, and the projection of     *)
(* set-returning functions, which keeps the current relation               *)
OtherStep ==
    \E st \in {"srf", "distinct"} :
        /\ IsNext(st)
        /\ current' = IF st = "srf" THEN current ELSE "distinct"
        /\ todo' = todo \ {st}
        /\ UNCHANGED <<query, rel, paths>>

UpperNext ==
    \/ GetForeignPaths \/ AddForeignGroupingPaths \/ AddForeignWindowPaths
    \/ AddForeignOrderedPaths \/ AddForeignFinalPaths \/ OtherStep

UpperSpec == UpperInit /\ [][UpperNext]_upperVars

-----------------------------------------------------------------------------
(* What a step does to the rows, in ClickHouse and in PostgreSQL alike.    *)
(* rows is a function to rows from what identifies them, and sorted says   *)
(* whether they come in the order of the query's ORDER BY or in any order. *)
Outcome(rows, sorted) == [rows |-> rows, sorted |-> sorted]

Keep(conds, r) ==
    /\ "remote" \in conds => r.v # 2
    /\ "local" \in conds => r.k # 2

KeepGroup(conds, r) ==
    /\ "remote" \in conds => r.v > 1
    /\ "local" \in conds => r.count > 1

Filter(conds, rows)      == Restrict(rows, {i \in DOMAIN rows : Keep(conds, rows[i])})
FilterGroups(conds, rows) == Restrict(rows, {i \in DOMAIN rows : KeepGroup(conds, rows[i])})

OfGroup(rows, k) == {i \in DOMAIN rows : rows[i].k = k}
Total(rows, k)   == MapThenSumSet(LAMBDA i : rows[i].v, OfGroup(rows, k))
Groups(rows) ==
    [k \in {rows[i].k : i \in DOMAIN rows} |->
        [k |-> k, v |-> Total(rows, k), count |-> Cardinality(OfGroup(rows, k))]]

(* count is only there for HAVING                                          *)
WithoutCount(rows) == [k \in DOMAIN rows |-> [k |-> rows[k].k, v |-> rows[k].v]]

(* rank() over v, ascending for window 1 and descending for window 2       *)
Rank(rows, r, w) ==
    Cardinality({i \in DOMAIN rows : IF w = 1 THEN rows[i].v < r.v ELSE rows[i].v > r.v})

Windows(q) == IF q.win = "two" THEN {1, 2} ELSE {1}
AddWindows(q, rows) ==
    [i \in DOMAIN rows |-> [k |-> rows[i].k, v |-> rows[i].v,
                            w |-> [x \in Windows(q) |-> Rank(rows, rows[i], x)]]]

Doubled(rows)  == [i \in (DOMAIN rows) \X {1, 2} |-> rows[i[1]]]
Distinct(rows) == [r \in {rows[i] : i \in DOMAIN rows} |-> r]

(* LIMIT 1; WITH TIES keeps the rows that sort with the last one           *)
SortKey(r) == r.v
First(o) == {i \in DOMAIN o.rows :
                o.sorted => \A j \in DOMAIN o.rows : SortKey(o.rows[i]) <= SortKey(o.rows[j])}
Ties(o, i) == {j \in DOMAIN o.rows : SortKey(o.rows[j]) = SortKey(o.rows[i])}

Limited(o) ==
    IF DOMAIN o.rows = {} THEN {o}
    ELSE {Outcome(Restrict(o.rows, {i}), o.sorted) : i \in First(o)}
LimitedTies(o) ==
    IF DOMAIN o.rows = {} THEN {o}
    ELSE {Outcome(Restrict(o.rows, Ties(o, i)), o.sorted) : i \in First(o)}

(* the planner's own way to do the steps it is left with, each of which    *)
(* takes the outcome of those before it                                    *)
Group(q, steps, o) ==
    IF "group" \in steps
    THEN Outcome(WithoutCount(FilterGroups({q.having}, Groups(o.rows))), FALSE) ELSE o
Window(q, steps, o)   == IF "window" \in steps THEN Outcome(AddWindows(q, o.rows), o.sorted) ELSE o
Project(steps, o)     == IF "srf" \in steps THEN Outcome(Doubled(o.rows), o.sorted) ELSE o
Unique(steps, o)      == IF "distinct" \in steps THEN Outcome(Distinct(o.rows), FALSE) ELSE o
Sort(steps, o)        == IF "ordered" \in steps THEN Outcome(o.rows, TRUE) ELSE o
Limit(q, steps, o)    ==
    IF "final" \notin steps \/ q.limit = "none" THEN {o}
    ELSE IF q.option = "TIES" THEN LimitedTies(o) ELSE Limited(o)

Local(q, steps, o) ==
    Limit(q, steps, Sort(steps, Unique(steps, Project(steps, Window(q, steps, Group(q, steps, o))))))

Reference(q, t) == Local(q, Steps(q) \ {"base"}, Outcome(Filter(q.where, t), FALSE))

-----------------------------------------------------------------------------
(* replace_windowfuncs_mutator: a placeholder is told from another by the  *)
(* counter of the window function it stands for                            *)
WindowFuncs(q) == [i \in Windows(q) |-> [fn |-> "rank", args |-> {}, winref |-> i]]

Placeholder(wfs, i) ==
    [fn |-> wfs[i].fn, args |-> wfs[i].args,
     collid |-> Min({j \in DOMAIN wfs : wfs[j] = wfs[i]})]

(* setrefs reads an output column from the first equal entry of the scan's *)
(* target list                                                             *)
ReadColumn(q, i) ==
    LET wfs == WindowFuncs(q)
    IN  Min({j \in DOMAIN wfs : Placeholder(wfs, j) = Placeholder(wfs, i)})

(* chfdw_deparse_select_stmt_for_rel: WHERE from the scan relation, then   *)
(* GROUP BY and HAVING, ORDER BY the path's pathkeys, LIMIT                *)
ScanRel(p) == IF p.rel = "base" THEN "base" ELSE rel[p.rel].outer

(* a column that is not in the target list is not there to be read         *)
Columns(tlist, rows) ==
    [k \in DOMAIN rows |-> IF "count" \in tlist THEN rows[k] ELSE [rows[k] EXCEPT !.count = 0]]

RemoteRows(q, p, t) ==
    LET from == Filter(rel[ScanRel(p)].remote, t)
    IN  CASE p.rel = "base"   -> from
          [] p.rel = "group"  -> Columns(rel["group"].tlist,
                                         FilterGroups(rel["group"].remote, Groups(from)))
          [] p.rel = "window" -> AddWindows(q, from)

Remote(q, p, t) ==
    LET o == Outcome(RemoteRows(q, p, t), p.sort)
    IN  IF p.limit THEN Limited(o) ELSE {o}

(* the steps a path leaves to the planner                                  *)
Remaining(q, p) ==
    Steps(q) \ ((CASE p.rel = "base"   -> {"base"}
                   [] p.rel = "group"  -> {"base", "group"}
                   [] p.rel = "window" -> {"base", "group", "window"})
                \cup (IF p.sort THEN {"ordered"} ELSE {})
                \cup (IF p.limit THEN {"final"} ELSE {}))

(* clickhouseGetForeignPlan: local_exprs are applied to the rows received, *)
(* and a window column is read through its placeholder                     *)
ReadColumns(q, rows) ==
    [i \in DOMAIN rows |-> [k |-> rows[i].k, v |-> rows[i].v,
                            w |-> [x \in Windows(q) |-> rows[i].w[ReadColumn(q, x)]]]]

Received(q, p, rows) ==
    LET conds == rel[p.rel].local
    IN  CASE p.rel = "base"   -> Filter(conds, rows)
          [] p.rel = "group"  -> WithoutCount(FilterGroups(conds, rows))
          [] p.rel = "window" -> ReadColumns(q, rows)

Answers(q, p, t) ==
    UNION {Local(q, Remaining(q, p), Outcome(Received(q, p, o.rows), o.sorted)) :
             o \in Remote(q, p, t)}

-----------------------------------------------------------------------------
(* Whatever path the planner takes, the statement sent to ClickHouse and   *)
(* the steps left to the executor give rows that PostgreSQL could have     *)
(* given over the same table, in an order that the query asks for.         *)
RowsSame ==
    todo = {} =>
        \A t \in Tables, p \in paths : \A a \in Answers(query, p, t) :
            \E b \in Reference(query, t) : a.rows = b.rows /\ (b.sorted => a.sorted)

(* deparseFromExpr: "For upper relations, scanrel must be either a joinrel *)
(* or a baserel".                                                          *)
ScanRelIsScan ==
    \A p \in paths : p.rel # "base" => rel[p.rel].outer = "base"
=============================================================================
