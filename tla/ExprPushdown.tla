---------------------------- MODULE ExprPushdown ----------------------------
(***************************************************************************)
(* Which expressions pg_clickhouse evaluates remotely, and in which form.  *)
(*                                                                         *)
(* foreign_expr_walker (src/src/deparse.c) decides whether an expression   *)
(* may be sent to ClickHouse; deparseExpr later writes the SQL, choosing   *)
(* between native, cheap and guarded forms.  The two run at different      *)
(* times and track separately how the value of an expression is consumed:  *)
(* the walker as TRUTH, NEGATED or EXACT, the deparser as the flag         *)
(* truth_ctx.  PostgreSQL's logic has three values and ClickHouse's IN has *)
(* two, so a mistake in either one returns wrong rows with no error.       *)
(*                                                                         *)
(* The state is one expression, grown a node at a time; the invariants     *)
(* compare PostgreSQL's value of it with ClickHouse's value of the SQL     *)
(* that is sent, for every row, parameter and content of the subquery's    *)
(* table.  SQL text is abstracted to the tree it denotes.                  *)
(***************************************************************************)
EXTENDS Integers, Sequences, FiniteSets, SequencesExt

CONSTANTS Null,       \* SQL NULL
          MaxDepth    \* bound on the nodes added around the first leaf

VARIABLES expr,       \* the expression the query contains
          type,       \* "int" or "bool"
          depth

vars == <<expr, type, depth>>

Vals == {0, 1}

-----------------------------------------------------------------------------
(* Range tables.  The outer query scans foreign tables 1 and 2, table 2 on *)
(* the nullable side of an outer join; the subquery scans its own table 1. *)
(* The entry of a column is its attnotnull.                                *)

RTable == [outer |-> << <<TRUE, FALSE>>, <<TRUE>> >>,
           sub   |-> << <<FALSE, TRUE>> >>]

OuterCxt == [root |-> "outer", relids |-> {1, 2}, subquery_scope |-> FALSE]
SubCxt   == [root |-> "sub",   relids |-> {1},    subquery_scope |-> TRUE]

(* Expression nodes.  "ship" is chfdw_is_shippable of the node's function, *)
(* operator and result type.                                               *)
Var(n, a)   == [node |-> "Var", varno |-> n, att |-> a, ship |-> TRUE]
Const(v)    == [node |-> "Const", v |-> v, ship |-> TRUE]
Param(id)   == [node |-> "Param", id |-> id, multiexpr |-> FALSE, ship |-> TRUE]
OpExpr(o, a, b) == [node |-> "OpExpr", op |-> o, args |-> <<a, b>>, ship |-> TRUE]
BoolExpr(o, as) == [node |-> "BoolExpr", op |-> o, args |-> as, ship |-> TRUE]
Wrapped(n, as)  == [node |-> n, args |-> as, ship |-> TRUE]
CaseExpr(x, w, t, d) == [node |-> "CaseExpr", arg |-> x, when |-> w,
                         result |-> t, def |-> d, ship |-> TRUE]
NoExpr        == [node |-> "none", ship |-> TRUE]     \* an absent operand
CaseTestExpr  == [node |-> "CaseTestExpr", ship |-> TRUE]
ArrayLength(arr, dim) ==
    [node |-> "FuncExpr", args |-> <<arr>>, dim |-> dim, ship |-> TRUE]
Saop(or, op, x, arr) == [node |-> "ScalarArrayOpExpr", useOr |-> or, op |-> op,
                         probe |-> x, arr |-> arr, ship |-> TRUE]
ArrConst(s)   == [node |-> "ArrayConst", v |-> s, ship |-> TRUE]
SubPlan(t, x, q, a) ==
    [node |-> "SubPlan", type |-> t, probe |-> x, q |-> q, arg |-> a, ship |-> TRUE]

-----------------------------------------------------------------------------
(* What the planner proves about NULL.                                     *)

(* is_non_nullable_op: only basic arithmetic is listed; a strict operator *)
(* such as ->> may still return NULL.                                      *)
NeverNullOps == {"+"}

(* expr_never_null and op_expr_never_null                                  *)
RECURSIVE NeverNull(_, _)
NeverNull(e, cxt) ==
    CASE e.node = "RelabelType" -> NeverNull(e.args[1], cxt)
      [] e.node = "Const"       -> e.v # Null
      [] e.node = "Var"         -> /\ e.varno \in cxt.relids
                                   /\ ~(cxt.root = "outer" /\ e.varno = 2)
                                   /\ RTable[cxt.root][e.varno][e.att]
      [] e.node = "OpExpr"      -> /\ e.op \in NeverNullOps
                                   /\ \A i \in 1..2 : NeverNull(e.args[i], cxt)
      [] OTHER                  -> FALSE

SaopArrayNulls(arr, cxt) ==
    CASE arr.node = "ArrayConst" ->
             IF arr.v = Null THEN "UNKNOWN"
             ELSE IF arr.v = <<>> THEN "EMPTY"
             ELSE IF \E i \in DOMAIN arr.v : arr.v[i] = Null THEN "UNKNOWN"
             ELSE "NULL_FREE"
      [] arr.node = "ArrayExpr" ->
             IF arr.args = <<>> THEN "EMPTY"
             ELSE IF \A i \in DOMAIN arr.args : NeverNull(arr.args[i], cxt)
             THEN "NULL_FREE" ELSE "UNKNOWN"
      [] OTHER -> "UNKNOWN"

OutputInOuterScope(sp, cxt) ==
    {side \in {"PROBE", "OUTPUT"} :
        ~NeverNull(IF side = "PROBE" THEN sp.probe ELSE sp.q.out, cxt)}

(* notin_prove_nullability: the sides that may produce NULL; the probe     *)
(* belongs to the outer scope, the output to the subquery's.               *)
NotInNullability(sp, cxt) ==
    (IF NeverNull(sp.probe, cxt) THEN {} ELSE {"PROBE"})
    \union (IF NeverNull(sp.q.out, SubCxt) THEN {} ELSE {"OUTPUT"})

ClassifyNotIn(sp, cxt) ==
    IF NotInNullability(sp, cxt) = {} THEN "PLAIN"
    ELSE IF ~sp.q.group /\ sp.q.out.node # "Aggref" THEN "GUARDED"
    ELSE "NONE"

-----------------------------------------------------------------------------
(* foreign_expr_walker.  ctx: how the value is consumed.                   *)

(* The context of a BoolExpr's operands.                                   *)
NegatedThroughAndOr(op, ctx) ==
    IF op = "not" THEN IF ctx = "TRUTH" THEN "NEGATED" ELSE "EXACT" ELSE ctx

BoolChildCtx(op, ctx) ==
    IF op = "not" THEN IF ctx = "TRUTH" THEN "NEGATED" ELSE "EXACT"
    ELSE IF ctx = "NEGATED" THEN "EXACT" ELSE ctx

(* A cast between a NOT and its operand hides a SubPlan from the deparser. *)
RelabelChildCtx(ctx) == IF ctx = "NEGATED" THEN "EXACT" ELSE ctx

CaseResultCtx(ctx) == IF ctx = "TRUTH" THEN "TRUTH" ELSE "EXACT"

RECURSIVE Walk(_, _, _)

(* is_shippable_subplan; "ship" covers the query features that are not     *)
(* deparsed, tables of other servers and servers older than 25.8.          *)
IsShippableSubplan(sp, cxt, ctx) ==
    /\ sp.type \in {"EXPR", "EXISTS", "ANY"}
    /\ sp.type = "EXPR" => sp.q.out.node = "Aggref" /\ ~sp.q.group
    /\ sp.type = "ANY" => Walk(sp.probe, cxt, "EXACT")
    /\ Walk(sp.arg, cxt, "EXACT")
    /\ Walk(sp.q.out, SubCxt, "EXACT")
    /\ Walk(sp.q.where, SubCxt, "TRUTH")
    /\ sp.type = "ANY" /\ ctx # "TRUTH" =>
           IF ctx = "NEGATED" THEN ClassifyNotIn(sp, cxt) # "NONE"
                              ELSE ClassifyNotIn(sp, cxt) = "PLAIN"

WalkList(as, cxt, ctx) == \A i \in DOMAIN as : Walk(as[i], cxt, ctx)

(* System columns of the scanned tables are not sent.                      *)
WalkVar(e, cxt) == e.varno \in cxt.relids => e.att > 0

(* A Param of a multi-column UPDATE is not sent.                           *)
WalkParam(e) == ~e.multiexpr

(* Operators, NULLIF and IS DISTINCT FROM                                  *)
WalkOp(e, cxt) == WalkList(e.args, cxt, "EXACT")

(* IS NULL and ARRAY[...]: NULL and FALSE differ in the value of an operand*)
WalkObserver(e, cxt) == WalkList(e.args, cxt, "EXACT")

(* COALESCE                                                                *)
WalkCoalesce(e, cxt) == WalkList(e.args, cxt, "EXACT")

(* array_length, of the only dimension that ClickHouse's length() has      *)
WalkFunc(e, cxt) == e.dim = 1 /\ WalkList(e.args, cxt, "EXACT")

WalkSaop(e, cxt) ==
    /\ e.op \in {"=", "<>"}
    /\ ~(e.arr.node = "ArrayConst" /\ e.arr.v = Null)
    /\ Walk(e.probe, cxt, "EXACT")
    /\ Walk(e.arr, cxt, "EXACT")

WalkCase(e, cxt, ctx) ==
    /\ Walk(e.arg, cxt, "EXACT")
    /\ Walk(e.when, cxt, "TRUTH")
    /\ Walk(e.result, cxt, CaseResultCtx(ctx))
    /\ Walk(e.def, cxt, CaseResultCtx(ctx))

(* Aggregates belong to grouping queries and subqueries, and only the      *)
(* latter occur here.                                                      *)
WalkAggref(e, cxt) == cxt.subquery_scope /\ WalkList(e.args, cxt, "EXACT")

Walk(e, cxt, ctx) ==
    /\ e.ship
    /\ CASE e.node \in {"Const", "ArrayConst", "CaseTestExpr", "none"} -> TRUE
         [] e.node = "Var"               -> WalkVar(e, cxt)
         [] e.node = "Param"             -> WalkParam(e)
         [] e.node = "ScalarArrayOpExpr" -> WalkSaop(e, cxt)
         [] e.node = "RelabelType"       -> WalkList(e.args, cxt, RelabelChildCtx(ctx))
         [] e.node = "BoolExpr"          -> WalkList(e.args, cxt, BoolChildCtx(e.op, ctx))
         [] e.node = "Aggref"            -> WalkAggref(e, cxt)
         [] e.node = "FuncExpr"          -> WalkFunc(e, cxt)
         [] e.node = "CaseExpr"          -> WalkCase(e, cxt, ctx)
         [] e.node = "SubPlan"           -> ~cxt.subquery_scope /\ IsShippableSubplan(e, cxt, ctx)
         [] e.node \in {"OpExpr", "NullIfExpr", "DistinctExpr"} -> WalkOp(e, cxt)
         [] e.node \in {"NullTest", "ArrayExpr"} -> WalkObserver(e, cxt)
         [] e.node = "CoalesceExpr"      -> WalkCoalesce(e, cxt)
         [] OTHER -> FALSE
-----------------------------------------------------------------------------
(* deparseExpr.  The SQL is a tree of nodes [ch, v, args].  The context d  *)
(* holds the scope, truth_ctx and, inside a subquery, the SQL of the outer *)
(* expression that feeds the correlation parameter.                        *)

F(op, as) == [ch |-> op, v |-> Null, args |-> as]
Lit(x)    == [ch |-> "lit", v |-> x, args |-> <<>>]

WhereCxt == [root |-> "outer", truth |-> TRUE,  arg |-> Lit(Null)]  \* appendConditions
ValueCxt == [root |-> "outer", truth |-> FALSE, arg |-> Lit(Null)]  \* target lists

(* The relations of the null proofs are those of the outer scan, also in   *)
(* the scope of a subquery.                                                *)
ProofCxt(d) == [OuterCxt EXCEPT !.root = d.root]

RECURSIVE Emit(_, _)
EmitList(as, d) == [i \in DOMAIN as |-> Emit(as[i], d)]

(* deparseGuardedScalarArrayOp                                             *)
GuardedSaop(e, x, arr) ==
    LET exhaustive == IF e.useOr THEN "<>" ELSE "="
        matches    == F("countEqual", <<arr, x>>)
        nulls      == F("countEqual", <<arr, Lit(Null)>>)
        differing  == F("-", << F("-", <<F("length", <<arr>>), matches>>), nulls >>)
    IN  F("case", << F("and", <<F("isnull", <<x>>), F("notEmpty", <<arr>>)>>), Lit(Null),
                     F(">0", <<IF e.op # exhaustive THEN matches ELSE differing>>),
                     Lit(e.useOr),
                     F(">0", <<nulls>>), Lit(Null),
                     Lit(~e.useOr) >>)

(* deparseAsIn, for which is_ok_in_expr wants a constant that is not empty *)
NativeIn(e, d) ==
    [ch |-> "in", v |-> [neg |-> e.op = "<>", set |-> e.arr.v],
     args |-> <<Emit(e.probe, d)>>]

(* deparseScalarArrayOpExpr                                                *)
EmitSaop(e, d) ==
    LET exact == [d EXCEPT !.truth = FALSE]
        nulls == SaopArrayNulls(e.arr, ProofCxt(d))
        x     == Emit(e.probe, exact)
        arr   == Emit(e.arr, exact)
        count == F("countEqual", <<arr, x>>)
        len   == F("length", <<arr>>)
    IN  IF /\ nulls = "NULL_FREE" \/ (d.truth /\ e.useOr /\ e.op = "=")
           /\ e.arr.node = "ArrayConst" /\ e.arr.v # <<>>
           /\ e.useOr <=> (e.op = "=")
        THEN NativeIn(e, exact)
        ELSE IF \/ nulls = "EMPTY"
                \/ nulls = "NULL_FREE" /\ NeverNull(e.probe, ProofCxt(d))
        THEN CASE e.useOr /\ e.op = "="   -> F("has", <<arr, x>>)
               [] e.useOr /\ e.op = "<>"  -> F("<", <<count, len>>)
               [] ~e.useOr /\ e.op = "="  -> F("eqnum", <<count, len>>)
               [] ~e.useOr /\ e.op = "<>" -> F("eqnum", <<count, Lit(0)>>)
        ELSE GuardedSaop(e, x, arr)

(* deparseSubPlanQuery: the body of the subquery, or its null probe        *)
EmitQuery(sp, d, probe) ==
    LET in    == [root |-> "sub", truth |-> FALSE, arg |-> Emit(sp.arg, d)]
        out   == Emit(sp.q.out, in)
        where == Emit(sp.q.where, [in EXCEPT !.truth = TRUE])
    IN  [ch |-> "query", v |-> sp.q.group,
         args |-> IF probe THEN << Lit(1), F("and", <<where, F("isnull", <<out>>)>>) >>
                           ELSE << out, where >>]

(* deparseSubPlan                                                          *)
EmitSubPlan(sp, d) ==
    CASE sp.type = "EXISTS" -> F("exists", <<EmitQuery(sp, d, FALSE)>>)
      [] sp.type = "EXPR"   -> F("scalar", <<EmitQuery(sp, d, FALSE)>>)
      [] sp.type = "ANY"    ->
             F("insub", <<Emit(sp.probe, d), EmitQuery(sp, d, FALSE)>>)

(* deparseGuardedNotIn                                                     *)
GuardedNotIn(sp, d) ==
    LET nulls == NotInNullability(sp, OuterCxt)
        x     == Emit(sp.probe, d)
        body  == EmitQuery(sp, d, FALSE)
        notin == F("not", <<F("insub", <<x, body>>)>>)
        main  == IF "OUTPUT" \in nulls
                 THEN F("and", <<notin, F("not", <<F("exists", <<EmitQuery(sp, d, TRUE)>>)>>)>>)
                 ELSE notin
    IN  IF "PROBE" \in nulls
        THEN F("case", <<F("isnull", <<x>>), F("not", <<F("exists", <<body>>)>>), main>>)
        ELSE main

(* deparseBoolExpr: NOT clears truth_ctx and looks for an ANY SubPlan      *)
EmitBool(e, d) ==
    LET x == e.args[1] IN
    IF e.op # "not" THEN F(e.op, EmitList(e.args, d))
    ELSE IF x.node = "SubPlan" /\ x.type = "ANY" /\ ClassifyNotIn(x, OuterCxt) = "GUARDED"
    THEN GuardedNotIn(x, [d EXCEPT !.truth = FALSE])
    ELSE F("not", <<Emit(x, [d EXCEPT !.truth = FALSE])>>)

(* deparseCaseExpr                                                         *)
EmitCase(e, d) ==
    LET branch == << Emit(e.when, [d EXCEPT !.truth = TRUE]),
                     Emit(e.result, d), Emit(e.def, d) >>
    IN  IF e.arg.node = "none" THEN F("case", branch)
        ELSE F("caseof", <<Emit(e.arg, [d EXCEPT !.truth = FALSE])>> \o branch)

(* deparseOpExpr: the CaseTestExpr of CASE x WHEN v is skipped             *)
EmitOp(e, d) ==
    IF e.args[1].node = "CaseTestExpr" THEN Emit(e.args[2], d)
    ELSE F(e.op, EmitList(e.args, d))

Emit(e, d0) ==
    LET keeps == {"BoolExpr", "CaseExpr", "RelabelType", "ScalarArrayOpExpr"}
        d     == [d0 EXCEPT !.truth = d0.truth /\ e.node \in keeps]
    IN  CASE e.node = "Var"    -> [ch |-> "col", v |-> <<d.root, e.varno, e.att>>, args |-> <<>>]
          [] e.node \in {"Const", "ArrayConst"} -> Lit(e.v)
          [] e.node = "Param"  -> IF e.id = 1 THEN d.arg ELSE F("param", <<>>)
          [] e.node = "OpExpr" -> EmitOp(e, d)
          [] e.node = "ScalarArrayOpExpr" -> EmitSaop(e, d)
          [] e.node = "RelabelType"  -> Emit(e.args[1], d)
          [] e.node = "BoolExpr"     -> EmitBool(e, d)
          [] e.node = "NullTest"     -> F("isnull", EmitList(e.args, d))
          [] e.node = "ArrayExpr"    -> F("array", EmitList(e.args, d))
          [] e.node = "CoalesceExpr" -> F("coalesce", EmitList(e.args, d))
          [] e.node = "DistinctExpr" -> F("distinct", EmitList(e.args, d))
          [] e.node = "NullIfExpr"   -> F("nullif", EmitList(e.args, d))
          [] e.node = "FuncExpr"     -> F("nullIf0", <<F("length", EmitList(e.args, d))>>)
          [] e.node = "Aggref"       -> F("max", EmitList(e.args, d))
          [] e.node = "CaseExpr"     -> EmitCase(e, d)
          [] e.node = "SubPlan"      -> EmitSubPlan(e, d)
          [] OTHER -> F("unsupported expression type for deparse", <<>>)
-----------------------------------------------------------------------------
(* Evaluation.  env: the outer row, a parameter, the correlation parameter *)
(* and case test value (PostgreSQL only), and the rows of the subquery's   *)
(* table.  row: the subquery's row, <<>> in the outer scope.               *)

Envs == { [col |-> << <<a, b>>, <<c>> >>, p |-> c, arg |-> Null, test |-> Null, sub |-> s] :
            a \in Vals, b \in {0, Null}, c \in {1, Null},
            s \in { {}, {<<Null, 0>>}, {<<0, 1>>}, {<<Null, 0>>, <<1, 1>>}, {<<0, 1>>, <<1, 1>>} } }

Not3(x)  == IF x = Null THEN Null ELSE ~x
And3(as) == IF \E i \in DOMAIN as : as[i] = FALSE THEN FALSE
            ELSE IF \E i \in DOMAIN as : as[i] = Null THEN Null ELSE TRUE
Or3(as)  == Not3(And3([i \in DOMAIN as |-> Not3(as[i])]))

(* Operators that both systems compute alike; ->> may return NULL.         *)
StrictOp(op, a, b) ==
    IF a = Null \/ b = Null THEN Null
    ELSE CASE op = "="   -> a = b
           [] op = "+"   -> (a + b) % 2
           [] op = "->>" -> IF a = b THEN Null ELSE a

FirstNonNull(as) ==
    IF \E i \in DOMAIN as : as[i] # Null
    THEN as[CHOOSE i \in DOMAIN as : as[i] # Null /\ \A j \in 1..(i-1) : as[j] = Null]
    ELSE Null

MaxOf(S) == IF S \ {Null} = {} THEN Null
            ELSE CHOOSE x \in S \ {Null} : \A y \in S \ {Null} : x >= y

(* The values a query body returns; an aggregate without GROUP BY returns *)
(* one row even over no rows.                                              *)
Output(rows, agg, group, Out(_)) ==
    IF ~agg THEN {Out(r) : r \in rows}
    ELSE IF ~group THEN { MaxOf({Out(r) : r \in rows}) }
    ELSE { MaxOf({Out(r) : r \in {x \in rows : x[2] = k}}) : k \in {x[2] : x \in rows} }

PgIn(x, S) == IF S = {} THEN FALSE ELSE IF x = Null THEN Null
              ELSE IF x \in S THEN TRUE ELSE IF Null \in S THEN Null ELSE FALSE

(* ExecEvalScalarArrayOp                                                   *)
PgSaop(or, op, x, s) ==
    LET each == [i \in DOMAIN s |->
                   IF op = "=" THEN StrictOp("=", x, s[i])
                               ELSE Not3(StrictOp("=", x, s[i]))]
    IN  IF s = Null THEN Null ELSE IF or THEN Or3(each) ELSE And3(each)

RECURSIVE PgEval(_, _, _)
PgEval(e, env, row) ==
    LET Val(x) == PgEval(x, env, row)
        Vs(as) == [i \in DOMAIN as |-> PgEval(as[i], env, row)]
    IN
    CASE e.node = "Var" -> IF row = <<>> THEN env.col[e.varno][e.att] ELSE row[e.att]
      [] e.node \in {"Const", "ArrayConst"} -> e.v
      [] e.node = "Param"  -> IF e.id = 1 THEN env.arg ELSE env.p
      [] e.node = "CaseTestExpr" -> env.test
      [] e.node = "OpExpr" -> StrictOp(e.op, Val(e.args[1]), Val(e.args[2]))
      [] e.node = "ScalarArrayOpExpr" -> PgSaop(e.useOr, e.op, Val(e.probe), Val(e.arr))
      [] e.node = "RelabelType"  -> Val(e.args[1])
      [] e.node = "BoolExpr" /\ e.op = "not" -> Not3(Val(e.args[1]))
      [] e.node = "BoolExpr" /\ e.op = "and" -> And3(Vs(e.args))
      [] e.node = "BoolExpr" /\ e.op = "or"  -> Or3(Vs(e.args))
      [] e.node = "NullTest"     -> Val(e.args[1]) = Null
      [] e.node = "ArrayExpr"    -> Vs(e.args)
      [] e.node = "CoalesceExpr" -> FirstNonNull(Vs(e.args))
      [] e.node = "DistinctExpr" -> Val(e.args[1]) # Val(e.args[2])
      [] e.node = "NullIfExpr"   -> IF Val(e.args[1]) = Val(e.args[2]) THEN Null ELSE Val(e.args[1])
      [] e.node = "FuncExpr"     -> LET s == Val(e.args[1]) IN
                                    IF s = Null \/ s = <<>> THEN Null ELSE Len(s)
      [] e.node = "CaseExpr" ->
             LET in == IF e.arg.node = "none" THEN env ELSE [env EXCEPT !.test = Val(e.arg)]
             IN  IF PgEval(e.when, in, row) = TRUE THEN Val(e.result) ELSE Val(e.def)
      [] e.node = "SubPlan" ->
             LET agg  == e.q.out.node = "Aggref"
                 in   == IF e.arg.node = "none" THEN env ELSE [env EXCEPT !.arg = Val(e.arg)]
                 out  == IF agg THEN e.q.out.args[1] ELSE e.q.out
                 Out(r) == PgEval(out, in, r)
                 rows == {r \in env.sub : PgEval(e.q.where, in, r) = TRUE}
                 S    == Output(rows, agg, e.q.group, Out)
             IN  CASE e.type = "EXISTS" -> S # {}
                   [] e.type = "EXPR"   -> CHOOSE x \in S : TRUE
                   [] e.type = "ANY"    -> PgIn(Val(e.probe), S)

(* ClickHouse, as the comment at deparseScalarArrayOpExpr records it: IN is *)
(* two-valued but for a NULL probe; has and countEqual match NULL to NULL. *)
ChFun(op, a) ==
    CASE op \in {"=", "+", "->>"} -> StrictOp(op, a[1], a[2])
      [] op = "not"        -> Not3(a[1])
      [] op = "and"        -> And3(a)
      [] op = "or"         -> Or3(a)
      [] op = "isnull"     -> a[1] = Null
      [] op = "array"      -> a
      [] op = "coalesce"   -> FirstNonNull(a)
      [] op = "distinct"   -> a[1] # a[2]
      [] op = "nullif"     -> IF StrictOp("=", a[1], a[2]) = TRUE THEN Null ELSE a[1]
      [] op = "nullIf0"    -> IF a[1] = 0 THEN Null ELSE a[1]
      [] op = "length"     -> IF a[1] = Null THEN Null ELSE Len(a[1])
      [] op = "notEmpty"   -> a[1] # <<>>
      [] op = "has"        -> \E i \in DOMAIN a[1] : a[1][i] = a[2]
      [] op = "countEqual" -> Cardinality({i \in DOMAIN a[1] : a[1][i] = a[2]})
      [] op = "-"          -> a[1] - a[2]
      [] op = "<"          -> a[1] < a[2]
      [] op = ">0"         -> a[1] > 0
      [] op = "eqnum"      -> a[1] = a[2]

RECURSIVE ChEval(_, _, _)
RECURSIVE ChCase(_, _, _, _)

(* The rows of a query node                                                *)
ChRows(q, env) ==
    LET agg    == q.args[1].ch = "max"
        out    == IF agg THEN q.args[1].args[1] ELSE q.args[1]
        Out(r) == ChEval(out, env, r)
        rows   == {r \in env.sub : ChEval(q.args[2], env, r) = TRUE}
    IN  Output(rows, agg, q.v, Out)

ChCase(as, i, env, row) ==
    IF i = Len(as) THEN ChEval(as[i], env, row)
    ELSE IF ChEval(as[i], env, row) = TRUE THEN ChEval(as[i+1], env, row)
    ELSE ChCase(as, i + 2, env, row)

ChEval(t, env, row) ==
    LET Val(i) == ChEval(t.args[i], env, row)
    IN
    CASE t.ch = "lit"    -> t.v
      [] t.ch = "col"    -> IF t.v[1] = "sub" THEN row[t.v[3]] ELSE env.col[t.v[2]][t.v[3]]
      [] t.ch = "param"  -> env.p
      [] t.ch = "case"   -> ChCase(t.args, 1, env, row)
      [] t.ch = "caseof" -> IF StrictOp("=", Val(1), Val(2)) = TRUE THEN Val(3) ELSE Val(4)
      [] t.ch = "in"     -> IF Val(1) = Null THEN Null
                            ELSE (\E i \in DOMAIN t.v.set : t.v.set[i] = Val(1)) # t.v.neg
      [] t.ch = "insub"  -> IF Val(1) = Null THEN Null ELSE Val(1) \in ChRows(t.args[2], env)
      [] t.ch = "exists" -> ChRows(t.args[1], env) # {}
      [] t.ch = "scalar" -> CHOOSE x \in ChRows(t.args[1], env) : TRUE
      [] OTHER -> ChFun(t.ch, [i \in DOMAIN t.args |-> Val(i)])

-----------------------------------------------------------------------------
(* The queries: an expression is built up around a leaf.                   *)

Leaves == {Var(1, 1), Var(1, 2), Var(2, 1), Param(0)}

ConstArrays == { ArrConst(Null), ArrConst(<<>>), ArrConst(<<0>>), ArrConst(<<1, Null>>) }
Elements(x) == Wrapped("ArrayExpr", <<Const(0), x>>)

Where == { Const(TRUE),
           OpExpr("=", Var(1, 2), Param(1)),
           Saop(TRUE, "=", Var(1, 1), ArrConst(<<1, Null>>)),
           BoolExpr("not", <<Saop(TRUE, "=", Var(1, 1), ArrConst(<<1, Null>>))>>) }

Queries == { [out |-> Var(1, 1), where |-> w, group |-> FALSE] : w \in Where }
    \union { [out |-> Var(1, 2), where |-> Const(TRUE), group |-> FALSE] }
    \union { [out |-> Wrapped("Aggref", <<Var(1, 1)>>), where |-> w, group |-> g] :
               w \in {Const(TRUE), OpExpr("=", Var(1, 2), Param(1))}, g \in BOOLEAN }

Init == /\ expr \in Leaves
        /\ type = "int"
        /\ depth = 0

Grow(t, e, t2) == /\ type = t /\ depth < MaxDepth
                  /\ expr' = e /\ type' = t2 /\ depth' = depth + 1

AddOperator == \/ Grow("int", OpExpr("=", expr, Const(0)), "bool")
               \/ \E o \in {"+", "->>"} : Grow("int", OpExpr(o, expr, Const(1)), "int")

AddIn == \E or \in BOOLEAN, o \in {"=", "<>"} :
            \/ \E arr \in ConstArrays : Grow("int", Saop(or, o, expr, arr), "bool")
            \/ \E x \in {Var(1, 1), Var(2, 1)} : Grow("int", Saop(or, o, x, Elements(expr)), "bool")

Correlated == { q \in Queries : q.where = OpExpr("=", Var(1, 2), Param(1)) }

AddSubPlan ==
    \/ \E q \in Queries : Grow("int", SubPlan("ANY", expr, q, Var(1, 2)), "bool")
    \/ \E q \in Correlated :
          \/ Grow("int", SubPlan("EXISTS", NoExpr, q, expr), "bool")
          \/ Grow("int", SubPlan("EXPR", NoExpr, q, expr), "int")
          \/ Grow("bool", SubPlan("ANY", Var(1, 1), q,
                                 CaseExpr(NoExpr, expr, Const(0), Const(Null))), "bool")

AddNot      == Grow("bool", BoolExpr("not", <<expr>>), "bool")
AddAndOr    == \E o \in {"and", "or"} :
                  Grow("bool", BoolExpr(o, <<OpExpr("=", Var(1, 2), Const(0)), expr>>), "bool")
AddNullTest == Grow(type, Wrapped("NullTest", <<expr>>), "bool")
AddRelabel  == Grow(type, Wrapped("RelabelType", <<expr>>), type)
AddCoalesce == Grow("bool", Wrapped("CoalesceExpr", <<expr, Const(TRUE)>>), "bool")
AddLength   == \/ Grow("int", ArrayLength(ArrConst(<<>>), 1), "int")
               \/ \E n \in 1..2 : Grow("int", ArrayLength(Elements(expr), n), "int")
AddDistinct == \/ Grow("int", Wrapped("DistinctExpr", <<Var(1, 2), expr>>), "bool")
               \/ Grow("int", Wrapped("NullIfExpr", <<expr, Const(0)>>), "int")
AddUnshippable == Grow(type, [expr EXCEPT !.ship = FALSE], type)

AddCase == \/ Grow("bool", CaseExpr(NoExpr, expr, Const(0), Const(Null)), "int")
           \/ Grow("bool", CaseExpr(NoExpr, OpExpr("=", Var(1, 2), Const(0)), Const(TRUE), expr), "bool")
           \/ Grow("int", CaseExpr(expr, OpExpr("=", CaseTestExpr, Const(0)), Const(1), expr), "int")

(* CASE x WHEN v over a column whose type needs a binary-compatible cast   *)
(* before the comparison, such as varchar.                                 *)
AddCastCase ==
    Grow("int", CaseExpr(expr, OpExpr("=", Wrapped("RelabelType", <<CaseTestExpr>>), Const(0)),
                         Const(1), expr), "int")

Next == \/ AddOperator \/ AddIn \/ AddSubPlan \/ AddNot \/ AddAndOr \/ AddNullTest
        \/ AddRelabel \/ AddCoalesce \/ AddLength \/ AddDistinct \/ AddUnshippable \/ AddCase

Spec == Init /\ [][Next]_vars

NextWithCasts == Next \/ AddCastCase
SpecWithCasts == Init /\ [][NextWithCasts]_vars

-----------------------------------------------------------------------------
(* chfdw_is_foreign_expr and chfdw_classify_conditions                     *)
IsForeignExpr(e, exact) == Walk(e, OuterCxt, IF exact THEN "EXACT" ELSE "TRUTH")

(* A condition evaluated remotely (WHERE, JOIN, HAVING, FILTER) keeps       *)
(* exactly the rows PostgreSQL would keep.                                 *)
ConditionKeepsSameRows ==
    type = "bool" /\ IsForeignExpr(expr, FALSE) =>
        LET sql == Emit(expr, WhereCxt) IN
        \A env \in Envs : (PgEval(expr, env, <<>>) = TRUE) <=> (ChEval(sql, env, <<>>) = TRUE)

(* An expression whose value is fetched, grouped or sorted by has the same *)
(* value remotely, NULL included.                                          *)
ValueIsSame ==
    IsForeignExpr(expr, TRUE) =>
        LET sql == Emit(expr, ValueCxt) IN
        \A env \in Envs : PgEval(expr, env, <<>>) = ChEval(sql, env, <<>>)

(* deparseExpr's header: "This function must support all the same node     *)
(* types that foreign_expr_walker accepts."                                *)
RECURSIVE Unsupported(_)
Unsupported(t) == \/ t.ch = "unsupported expression type for deparse"
                  \/ \E i \in DOMAIN t.args : Unsupported(t.args[i])

AcceptedIsDeparsed ==
    IsForeignExpr(expr, FALSE) => ~Unsupported(Emit(expr, WhereCxt))

=============================================================================
