---------------------------- MODULE JoinPushdown ----------------------------
(***************************************************************************)
(* Joins of foreign tables: which of them foreign_join_ok (src/src/fdw.c)  *)
(* lets ClickHouse compute, where each condition goes, and the FROM clause *)
(* the deparser (src/src/deparse.c) writes for them.                       *)
(*                                                                         *)
(* The planner builds the relations of a query bottom-up and offers each   *)
(* join of two of them once.  A condition ends up in the join clauses (ON),*)
(* in remote_conds (WHERE), or in local_conds (checked by the executor);   *)
(* conditions of the inputs are pulled up past the join.  Each relation of *)
(* the state carries what the module has recorded in its fdw_private and,  *)
(* once it is pushed down, the rows that PostgreSQL means by it and the    *)
(* rows of the FROM clause written for it, in every database; a clause is  *)
(* written from those of the inputs, whose fdw_private no longer changes.  *)
(*                                                                         *)
(* An expression is a comparison of columns; shippability, which           *)
(* ExprPushdown decides, is an attribute of it.                            *)
(***************************************************************************)
EXTENDS Integers, FiniteSets

CONSTANTS Null,          \* SQL NULL
          Contents,      \* what a table may hold: sets of pairs of values
          Shapes,        \* kinds of queries
          SemiNonKey,    \* SEMI joins with other conditions than equal keys
          AntiOuterEq,   \* ANTI joins whose outer input compares own columns
          PG16           \* PostgreSQL 16 or later: Vars carry varnullingrels

(* A shape: the range table indexes of its tables, the sets of tables it   *)
(* joins, its kinds of join, and the sets of comparisons that a table, the *)
(* two inputs of a join and the rows above a join may be subject to.  A    *)
(* comparison is of attribute a with attribute b, or with 1 if b is 0.     *)
Comparison == [op : {"=", "<", "null or ="}, a : {1, 2}, b : {0, 1, 2}, ship : BOOLEAN]

Shape == [tables : SUBSET (Nat \ {0}), joins : SUBSET SUBSET Nat,
          jointypes : SUBSET {"INNER", "LEFT", "RIGHT", "FULL", "SEMI", "ANTI"},
          table : SUBSET SUBSET Comparison,
          on    : SUBSET SUBSET {c \in Comparison : c.b # 0},
          where : SUBSET SUBSET Comparison]

(* What the constants may be. *)
JoinConstants == Shapes \subseteq Shape

VARIABLES shape,         \* the shape of the query
          rels           \* the relations the planner has built

joinVars == <<shape, rels>>

-----------------------------------------------------------------------------
(* Conditions.  A column is <<table, attribute>>; a constant <<0, value>>. *)

Cond(op, l, r, ship) == [op |-> op, l |-> l, r |-> r, ship |-> ship]
IsVar(x)   == x[1] # 0
One        == <<0, 1>>
CondRels(c) == {c.l[1]} \union (IF IsVar(c.r) THEN {c.r[1]} ELSE {})

(* The conditions of a kind between tables x and y                         *)
Conds(kind, x, y) ==
    {Cond(c.op, <<x, c.a>>, IF c.b = 0 THEN One ELSE <<y, c.b>>, c.ship) : c \in kind}

-----------------------------------------------------------------------------
(* Rows.  A row of a relation maps each of its tables to a tuple of values.*)

NullRow   == <<Null, Null>>
Databases == [shape.tables -> Contents]

Value(row, x) == IF IsVar(x) THEN row[x[1]][x[2]] ELSE x[2]
True(c, row)  == LET l == Value(row, c.l)  r == Value(row, c.r) IN
                 CASE c.op = "="         -> l # Null /\ l = r
                   [] c.op = "<"         -> l # Null /\ r # Null /\ l < r
                   [] c.op = "null or =" -> l = Null \/ l = r
Where(conds, rows) == {row \in rows : \A c \in conds : True(c, row)}

Beside(l, r) == [t \in DOMAIN l \union DOMAIN r |-> IF t \in DOMAIN l THEN l[t] ELSE r[t]]

Matches(L, R, on) == Where(on, {Beside(l, r) : l \in L, r \in R})
Unmatched(L, R, on) == {l \in L : Where(on, {Beside(l, r) : r \in R}) = {}}
Extend(L, ts)     == {Beside(l, [t \in ts |-> NullRow]) : l \in L}

Joined(jt, L, R, on, ol, il) ==
    LET m == Matches(L, R, on) IN
    CASE jt = "INNER" -> m
      [] jt = "LEFT"  -> m \union Extend(Unmatched(L, R, on), il)
      [] jt = "RIGHT" -> m \union Extend(Unmatched(R, L, on), ol)
      [] jt = "FULL"  -> m \union Extend(Unmatched(L, R, on), il)
                           \union Extend(Unmatched(R, L, on), ol)
      [] jt = "SEMI"  -> L \ Unmatched(L, R, on)
      [] jt = "ANTI"  -> Unmatched(L, R, on)

(* What PostgreSQL means by a join                                         *)
PgRows(jt, outer, inner, on, where) ==
    [db \in Databases |->
        Where(where, Joined(jt, outer.rows[db], inner.rows[db], on, outer.relids, inner.relids))]

-----------------------------------------------------------------------------
(* The FROM and WHERE clauses of a relation that is pushed down            *)

(* chfdw_deparse_select_stmt_for_rel                                       *)
SelectStmtForRel(rel) ==
    [db \in Databases |-> Where(rel.fdw_private.remote_conds, rel.from[db])]

(* deparseRangeTblRef                                                      *)
RangeTblRef(rel, make_subquery) ==
    IF make_subquery THEN SelectStmtForRel(rel) ELSE rel.from

(* deparseFromExprForRel                                                   *)
FromExprForRel(jt, outer, inner, info) ==
    LET L == RangeTblRef(outer, info.make_outerrel_subquery)
        R == RangeTblRef(inner, info.make_innerrel_subquery)
    IN  [db \in Databases |->
            Joined(jt, L[db], R[db], info.joinclauses, outer.relids, inner.relids)]

(* The outer joins that may have nulled a column of table t, below and at  *)
(* a join                                                                  *)
NullingRels(jt, outer, inner, t) ==
    IF ~PG16 THEN {}
    ELSE (IF t \in outer.relids THEN outer.nulled[t] ELSE inner.nulled[t])
         \union (IF \/ jt = "FULL"
                    \/ jt \in {"LEFT", "ANTI"} /\ t \in inner.relids
                    \/ jt = "RIGHT" /\ t \in outer.relids
                 THEN {outer.relids \union inner.relids} ELSE {})

(* is_subquery_var: the Vars in the target list of the topmost subquery    *)
(* that holds table t, by the joins that nulled them                       *)
SubqueryVars(outer, inner, info, t) ==
    LET in  == IF t \in outer.relids THEN outer ELSE inner
        sub == IF t \in outer.relids THEN info.make_outerrel_subquery
                                     ELSE info.make_innerrel_subquery
    IN  IF sub THEN {in.nulled[t]} ELSE in.vars[t]

(* get_relation_column_alias_ids: how a column of table t, nulled by the   *)
(* joins of nulling, is written at rel                                     *)
ColumnRef(rel, t, nulling) ==
    IF rel.vars[t] = {} THEN "column"
    ELSE IF nulling \in rel.vars[t] THEN "subquery column"
    ELSE "unexpected expression in subquery output"

(* ClickHouse's rows.  LEFT SEMI JOIN keeps the columns of some match of   *)
(* every outer row: the outcome is a set of possible results.              *)
ChResults(rel, db) ==
    IF rel.jointype # "SEMI" THEN {SelectStmtForRel(rel)[db]}
    ELSE LET info == rel.fdw_private
             L    == rel.from[db]
             R    == RangeTblRef(rel.inner, info.make_innerrel_subquery)[db]
             m    == Matches(L, R, info.joinclauses)
             Of(l) == {row \in m : \A t \in DOMAIN l : row[t] = l[t]}
         IN  { Where(info.remote_conds, {f[l] : l \in L}) :
                 f \in {g \in [L -> m] : \A l \in L : g[l] \in Of(l)} }

-----------------------------------------------------------------------------
(* Relations.  on and where are the parts of extra->restrictlist that      *)
(* belong to the join and that are pushed down to it (RINFO_IS_PUSHED_DOWN)*)

NotSafe == [pushdown_safe |-> FALSE]

(* clickhouseGetForeignRelSize                                             *)
BaseInfo(conds) ==
    [pushdown_safe |-> TRUE,
     remote_conds |-> {c \in conds : c.ship},
     local_conds  |-> {c \in conds : ~c.ship},
     joinclauses  |-> {},
     make_outerrel_subquery |-> FALSE,
     make_innerrel_subquery |-> FALSE]

BaseRel(t, conds) ==
    LET table == [db \in Databases |-> {[u \in {t} |-> x] : x \in db[t]}]
    IN  [relids |-> {t}, jointype |-> "BASE", where |-> conds,
         fdw_private |-> BaseInfo(conds),
         from |-> table, rows |-> [db \in Databases |-> Where(conds, table[db])],
         nulled |-> [u \in {t} |-> {}], vars |-> [u \in {t} |-> {}]]

IsJoinRel(r) == r.jointype # "BASE"
SemiOrAnti   == {"SEMI", "ANTI"}
OuterJoins   == {"LEFT", "RIGHT", "FULL", "ANTI"}    \* IS_OUTER_JOIN

IsSimpleJoinClause(c) == c.op = "=" /\ IsVar(c.r)

(* extract_join_equals: the conditions that move to the join clauses       *)
ExtractJoinEquals(conds) == {c \in conds : IsSimpleJoinClause(c)}

(* semijoin_target_ok: target holds the relations the target list names    *)
SemijoinTargetOk(target, inner) == target \cap inner.relids = {}

(* The early returns of foreign_join_ok                                    *)
InputsOk(jt, outer, inner, target) ==
    /\ jt \in SemiOrAnti => SemijoinTargetOk(target, inner)
    /\ \A r \in {outer, inner} :
          /\ r.fdw_private.pushdown_safe
          /\ r.jointype \notin SemiOrAnti
          /\ r.fdw_private.local_conds = {}
    /\ jt = "ANTI" => ~IsJoinRel(outer) /\ ~IsJoinRel(inner)

(* A clause of an outer join is part of the join, or the join stays local. *)
OwnClauses(jt, on)           == IF jt \in OuterJoins THEN on ELSE {}
OtherClauses(jt, on, where)  == IF jt \in OuterJoins THEN where ELSE on \union where

(* Where the conditions of the inputs are pulled up to                     *)
PullUp(jt, o, i) ==
    CASE jt = "INNER"                       -> [join |-> {}, remote |-> o \union i]
      [] jt \in {"LEFT"} \union SemiOrAnti  -> [join |-> i, remote |-> o]
      [] jt = "RIGHT"                       -> [join |-> o, remote |-> i]
      [] jt = "FULL"                        -> [join |-> {}, remote |-> {}]

(* FULL: an input with conditions is deparsed as a subquery                *)
NoSubquery(jt, conds)    == FALSE
NeedsSubquery(jt, conds) == jt = "FULL" /\ conds # {}

HasEquiKey(joinclauses) == \E c \in joinclauses : IsSimpleJoinClause(c)

(* What a join that is pushed down keeps: the conditions that stay remote, *)
(* and those of an INNER, SEMI or ANTI join that move to its clauses       *)
RemoteConds(jt, o, i, on, where) ==
    {c \in OtherClauses(jt, on, where) : c.ship} \union PullUp(jt, o, i).remote

Moved(jt, o, i, on, where) ==
    IF jt = "INNER" \/ jt \in SemiOrAnti
    THEN ExtractJoinEquals(RemoteConds(jt, o, i, on, where)) ELSE {}

JoinInfo(jt, o, i, on, where) ==
    [pushdown_safe |-> TRUE,
     remote_conds  |-> RemoteConds(jt, o, i, on, where) \ Moved(jt, o, i, on, where),
     local_conds   |-> {c \in OtherClauses(jt, on, where) : ~c.ship},
     joinclauses   |-> OwnClauses(jt, on) \union PullUp(jt, o, i).join
                         \union Moved(jt, o, i, on, where),
     make_outerrel_subquery |-> NeedsSubquery(jt, o),
     make_innerrel_subquery |-> NeedsSubquery(jt, i)]

(* foreign_join_ok; placeholder: a PlaceHolderVar is computed in the join   *)
ForeignJoinOk(jt, outer, inner, on, where, target, placeholder) ==
    /\ InputsOk(jt, outer, inner, target)
    /\ \A c \in OwnClauses(jt, on) : c.ship
    /\ ~placeholder
    /\ jt \in SemiOrAnti =>
          HasEquiKey(JoinInfo(jt, outer.fdw_private.remote_conds,
                              inner.fdw_private.remote_conds, on, where).joinclauses)

(* The relation of a join, pushed down or not                              *)
PushedRel(jt, outer, inner, on, where, info) ==
    LET relids == outer.relids \union inner.relids
    IN  [relids |-> relids, jointype |-> jt, outer |-> outer, inner |-> inner,
         fdw_private |-> info,
         from |-> FromExprForRel(jt, outer, inner, info),
         rows |-> PgRows(jt, outer, inner, on, where),
         nulled |-> [t \in relids |-> NullingRels(jt, outer, inner, t)],
         vars   |-> [t \in relids |-> SubqueryVars(outer, inner, info, t)]]

LocalRel(jt, outer, inner) ==
    [relids |-> outer.relids \union inner.relids, jointype |-> jt, outer |-> outer,
     inner |-> inner, fdw_private |-> NotSafe]

(* clickhouseGetForeignJoinPaths: a join is considered once, with the      *)
(* inputs and the type it is offered with first.                           *)
GetForeignJoinPaths(jt, outer, inner, on, where, target, placeholder) ==
    LET o == outer.fdw_private.remote_conds
        i == inner.fdw_private.remote_conds
    IN  /\ outer.relids \cap inner.relids = {}
        /\ ~\E r \in rels : r.relids = outer.relids \union inner.relids
        /\ rels' = rels \union
             { IF ForeignJoinOk(jt, outer, inner, on, where, target, placeholder)
               THEN PushedRel(jt, outer, inner, on, where, JoinInfo(jt, o, i, on, where))
               ELSE LocalRel(jt, outer, inner) }
        /\ UNCHANGED shape

-----------------------------------------------------------------------------
(* The queries                                                             *)

JoinInit ==
    /\ shape \in Shapes
    /\ \E kind \in [shape.tables -> shape.table] :
          rels = {BaseRel(t, Conds(kind[t], t, t)) : t \in shape.tables}

(* The constants that leave out what JoinRowsSame does not hold for        *)
Allowed(jt, outer, on) ==
    /\ jt = "SEMI" /\ ~SemiNonKey => \A c \in on : c.ship /\ IsSimpleJoinClause(c)
    /\ jt = "ANTI" /\ ~AntiOuterEq /\ ~IsJoinRel(outer) =>
          ~\E c \in outer.where : IsSimpleJoinClause(c)

(* The target of a SEMI or ANTI join names its outer side, but for an ANTI *)
(* join that was a LEFT JOIN ... WHERE inner IS NULL.                      *)
Targets(jt, outer, inner) ==
    IF jt = "ANTI" THEN {outer.relids, inner.relids}
    ELSE IF jt = "SEMI" THEN {outer.relids} ELSE {outer.relids \union inner.relids}

(* The conditions above a join are on a side it may have filled with NULLs.*)
ConditionsAbove(jt, up, x, y) == IF jt = "RIGHT" THEN Conds(up, x, x) ELSE Conds(up, y, y)

Join(jt) ==
    \E outer, inner \in rels :
    \E x \in outer.relids, y \in inner.relids, on \in shape.on, up \in shape.where \union {{}},
       target \in Targets(jt, outer, inner), placeholder \in BOOLEAN :
        /\ outer.relids \union inner.relids \in shape.joins
        /\ Allowed(jt, outer, Conds(on, x, y))
        /\ jt \notin {"LEFT", "RIGHT", "FULL"} => up = {}
        /\ GetForeignJoinPaths(jt, outer, inner, Conds(on, x, y), ConditionsAbove(jt, up, x, y),
                               target, placeholder)

JoinNext == \E jt \in shape.jointypes : Join(jt)

JoinSpec == JoinInit /\ [][JoinNext]_joinVars

-----------------------------------------------------------------------------
(* Properties                                                              *)

Pushed == {r \in rels : IsJoinRel(r) /\ r.fdw_private.pushdown_safe}

(* Relations already joined further: they were checked when they were made *)
Inputs == UNION {{r.outer, r.inner} : r \in {j \in rels : IsJoinRel(j)}}

(* The tables whose columns a join has to deliver                          *)
Delivered(r) == IF r.jointype \in SemiOrAnti THEN r.outer.relids ELSE r.relids
Shown(ts, rows) == {[t \in ts |-> row[t]] : row \in rows}

(* A join that is pushed down, with its local conditions checked on the    *)
(* rows it returns, yields exactly the rows of the join, wherever its      *)
(* conditions and those of its inputs were moved.                          *)
JoinRowsSame ==
    \A r \in Pushed \ Inputs : \A db \in Databases :
        \A result \in ChResults(r, db) :
            Shown(Delivered(r), Where(r.fdw_private.local_conds, result))
                = Shown(Delivered(r), r.rows[db])

(* Every column of the target list and of the WHERE clause of a pushed     *)
(* join, and of its ON clauses, can be written.                            *)
ColumnsFound ==
    \A r \in Pushed :
        /\ \A t \in Delivered(r) : ColumnRef(r, t, r.nulled[t]) \in {"column", "subquery column"}
        /\ \A c \in r.fdw_private.joinclauses : \A t \in CondRels(c) :
              LET below == IF t \in r.outer.relids THEN r.outer ELSE r.inner
              IN  ColumnRef(r, t, below.nulled[t]) \in {"column", "subquery column"}

(* fdw.c, foreign_join_ok: "Reject when the joinclauses have no simple     *)
(* equality referencing both sides".                                       *)
EquiKeyReferencesBothSides ==
    \A r \in Pushed : r.jointype \in SemiOrAnti =>
        \E c \in r.fdw_private.joinclauses :
            /\ IsSimpleJoinClause(c)
            /\ CondRels(c) \cap r.outer.relids # {} /\ CondRels(c) \cap r.inner.relids # {}
=============================================================================
