---------------------------- MODULE AggPushdown -----------------------------
(***************************************************************************)
(* Aggregates computed by ClickHouse (src/src/deparse.c).                  *)
(*                                                                         *)
(* deparseAggref rewrites an aggregate by the engine of its table, by its  *)
(* FILTER and by whether it is partial: on a CollapsingMergeTree a row     *)
(* counts with its sign; a FILTER becomes the condition of the -If         *)
(* combinator; under partitionwise aggregation the foreign partition       *)
(* returns, as an array, the transition state PostgreSQL would have        *)
(* reached, which the executor combines with the state of a local          *)
(* partition.                                                              *)
(*                                                                         *)
(* The state is one aggregate and the rows of the two partitions, which    *)
(* grow; the invariants compare what comes of the call that is sent, which *)
(* may be an error of either system, with the value and the transition     *)
(* state PostgreSQL would compute over the rows themselves.                *)
(***************************************************************************)
EXTENDS Integers, Sequences, FiniteSets, FiniteSetsExt

CONSTANTS Null,         \* SQL NULL
          NaN,          \* the float that is no number
          Refused,      \* no value: ClickHouse or the combine step raises
          Fns,          \* aggregate functions
          MaxRows,      \* bound on the rows of a partition
          Engines,      \* engines of the foreign table
          Nullables,    \* may the argument column be Nullable
          Splits        \* "SIMPLE", and "PARTIAL" for AGGSPLIT_INITIAL_SERIAL

(* What the constants may be. *)
AggConstants ==
    /\ Fns \subseteq {"count", "sum", "avg", "var", "min", "string_agg", "percentile"}
    /\ Engines \subseteq {"MergeTree", "CollapsingMergeTree"}
    /\ MaxRows \in Nat
    /\ Cardinality({Null, NaN, Refused}) = 3

VARIABLES agg,          \* the Aggref and the table it reads
          cold,         \* rows of the foreign table, cancelling rows included
          hot           \* rows of the local partition

vars == <<agg, cold, hot>>

(* pg_aggregate: a combine function, a final function, a serial function,  *)
(* and the accumulator that tells the layout of the state                  *)
Accum(fn, type) ==
    CASE fn \in {"avg", "var"} /\ type = "float8" -> "float8_accum"
      [] fn = "avg" /\ type = "int4"              -> "int4_avg_accum"
      [] OTHER                                    -> "internal"

HasCombine(fn) == fn # "percentile"
HasFinal(fn)   == fn \notin {"count", "sum", "min"}

-----------------------------------------------------------------------------
(* agg_partial_kind                                                        *)
AggPartialKind(a) ==
    IF a.distinct \/ ~HasCombine(a.fn) THEN "NONE"
    ELSE IF ~HasFinal(a.fn) THEN "DIRECT"
    ELSE CASE Accum(a.fn, a.type) = "int4_avg_accum" -> "AVG_INT"
           [] Accum(a.fn, a.type) = "float8_accum"   -> "STAT_FLOAT"
           [] OTHER                                  -> "NONE"

(* foreign_expr_walker, case T_Aggref; order is the aggregate's ORDER BY   *)
WalkAggref(a) ==
    /\ a.split = "PARTIAL" => AggPartialKind(a) # "NONE"
    /\ ~(a.distinct /\ a.filter)
    /\ a.fn # "percentile" => a.order = "none"

(* appendFunctionName: on a CollapsingMergeTree, sum, avg and count turn   *)
(* into a sum over the sign                                                *)
SignOnSumOnly(a) ==
    IF a.engine = "CollapsingMergeTree" /\ a.fn = "sum" THEN "SIGN_SUM" ELSE "none"

SignKind(a) ==
    IF a.engine # "CollapsingMergeTree" THEN "none"
    ELSE CASE a.fn = "sum"   -> "SIGN_SUM"
           [] a.fn = "avg"   -> "SIGN_AVG"
           [] a.fn = "count" -> "SIGN_COUNT"
           [] OTHER          -> "none"

FunctionName(a) ==
    CASE SignKind(a) # "none"   -> "sum"
      [] a.fn = "string_agg"    -> "groupConcat"
      [] OTHER                  -> a.fn

(* appendAggOrderBySuffix                                                  *)
OrderRefused(a) == a.fn = "percentile" /\ a.order \in {"desc", "nulls first", "using"}

(* The condition of the -If combinator, as the set of what it tests        *)
SignCountFilter(a) == SignKind(a) = "SIGN_COUNT" /\ ~a.star

IfCondition(a) == (IF a.filter THEN {"filter"} ELSE {})
                    \union (IF SignCountFilter(a) THEN {"not null"} ELSE {})

(* What stands before the condition; a filtered count of rows has nothing  *)
OmitStar(a) == a.star /\ a.filter /\ ~a.distinct /\ a.fn = "count"

PlainArgs(a) ==
    CASE SignKind(a) = "SIGN_COUNT"               -> <<"sign">>
      [] OmitStar(a)                              -> <<>>
      [] a.star                                   -> <<"*">>
      [] SignKind(a) \in {"SIGN_SUM", "SIGN_AVG"} -> <<"x * sign">>
      [] OTHER                                    -> <<"x">>

(* The comma before the condition is left out with the star, and what      *)
(* stands before it then becomes part of it.                               *)
CallArgs(a) ==
    LET args == PlainArgs(a)  cond == IfCondition(a) IN
    IF cond = {} \/ FunctionName(a) = "groupConcat" THEN args
    ELSE IF OmitStar(a) /\ args # <<>> THEN <<"glued">>
    ELSE Append(args, "condition")

(* deparseAggref; divisor: the condition of the sumIf(sign, ...) of an avg *)
Call(a) ==
    [name |-> FunctionName(a), if |-> IfCondition(a) # {}, distinct |-> a.distinct,
     args |-> CallArgs(a), cond |-> IfCondition(a),
     divisor |-> IF SignKind(a) = "SIGN_AVG"
                 THEN (IF a.filter THEN {"filter"} ELSE {}) \union {"not null"}
                 ELSE {}]

(* The -If combinator takes the condition as one more argument; without    *)
(* one ClickHouse refuses the call (external).                             *)
Accepted(c) ==
    c.if => /\ c.args # <<>> /\ c.args[Len(c.args)] = "condition"
            /\ c.name # "count" => Len(c.args) = 2

IsStateArray(a) == a.split = "PARTIAL" /\ AggPartialKind(a) \in {"AVG_INT", "STAT_FLOAT"}

-----------------------------------------------------------------------------
(* Arithmetic.  Averages and squared deviations are kept times Scale, so   *)
(* that the divisions by at most four rows are exact.                      *)

Scale == 12
Total(rows, S, V(_)) == MapThenSumSet(LAMBDA i : V(rows[i]), S)

Rows(rows)          == DOMAIN rows
Passing(rows, cond) == {i \in Rows(rows) : /\ "filter" \in cond => rows[i].f = TRUE
                                           /\ "not null" \in cond => rows[i].x # Null}
Filtered(a, rows)   == Passing(rows, IF a.filter THEN {"filter"} ELSE {})
NonNull(rows, S)    == {i \in S : rows[i].x # Null}
X(row)  == row.x
Sq(row) == row.x * row.x

Distinct(rows, S)   == {i \in S : \A j \in S : rows[i].x = rows[j].x => i <= j}
Values(rows, S) == {rows[i].x : i \in S}
Each(rows, S)   == [v \in Values(rows, S) |-> Cardinality({i \in S : rows[i].x = v})]

(* percentile_disc(0.5), ascending or descending                           *)
Median(rows, S, desc) ==
    CHOOSE v \in Values(rows, S) :
        LET upto(w) == Cardinality({i \in S : IF desc THEN rows[i].x >= w ELSE rows[i].x <= w})
        IN  /\ 2 * upto(v) >= Cardinality(S)
            /\ \A w \in Values(rows, S) : 2 * upto(w) >= Cardinality(S) => upto(v) <= upto(w)

(* float8_accum and int4_avg_accum over rows: {N, Sx, Sxx}                 *)
Deviations(rows, S) ==
    IF S = {} THEN 0
    ELSE Scale * Total(rows, S, Sq)
         - (Scale * Total(rows, S, X) * Total(rows, S, X)) \div Cardinality(S)

State(kind, rows, S) ==
    IF kind = "AVG_INT" THEN <<Cardinality(S), Total(rows, S, X)>>
    ELSE <<Cardinality(S), Total(rows, S, X), Deviations(rows, S)>>

(* float8_combine and int4_avg_combine (external)                          *)
Combine(kind, s, t) ==
    IF kind = "AVG_INT" THEN <<s[1] + t[1], s[2] + t[2]>>
    ELSE IF s[1] = 0 THEN t ELSE IF t[1] = 0 THEN s
    ELSE LET n   == s[1] + t[1]
             tmp == s[2] * t[1] - t[2] * s[1]       \* (Sx1/N1 - Sx2/N2) * N1 * N2
         IN  <<n, s[2] + t[2], s[3] + t[3] + (Scale * tmp * tmp) \div (s[1] * t[1] * n)>>

Final(fn, s) == IF s[1] = 0 THEN Null
                ELSE IF fn = "avg" THEN (Scale * s[2]) \div s[1] ELSE s

-----------------------------------------------------------------------------
(* PostgreSQL's value over rows (external)                                 *)
PgValue(a, rows) ==
    LET S == Filtered(a, rows)
        N == IF a.distinct THEN Distinct(rows, NonNull(rows, S)) ELSE NonNull(rows, S)
    IN
    CASE a.fn = "count" /\ a.star -> Cardinality(S)
      [] a.fn = "count"           -> Cardinality(N)
      [] N = {}                   -> Null
      [] a.fn = "sum"             -> Total(rows, N, X)
      [] a.fn = "min"             -> Min(Values(rows, N))
      [] a.fn = "string_agg"      -> Each(rows, N)
      [] a.fn = "percentile"      -> Median(rows, N, a.order = "desc")
      [] a.fn \in {"avg", "var"}  -> Final(a.fn, State("STAT_FLOAT", rows, N))

(* The rows that are left when every cancelling row has met its partner    *)
Collapse(rows) ==
    LET keep == {i \in Rows(rows) : rows[i].sign = 1 /\ ~\E j \in Rows(rows) : rows[j].cancels = i}
        nth(k) == CHOOSE i \in keep : Cardinality({j \in keep : j <= i}) = k
    IN  [k \in 1..Cardinality(keep) |-> rows[nth(k)]]

(* The rows ClickHouse reads: FINAL collapses them first.                  *)
Read(a) == IF a.final THEN Collapse(cold) ELSE cold

(* ClickHouse's aggregate functions (external) over the rows that pass the *)
(* condition of the call: over none, a Nullable argument gives NULL and    *)
(* any other the default of its type.                                      *)
Default(a) ==
    CASE a.fn \in {"sum", "min"}              -> 0
      [] a.fn = "string_agg"                  -> << >>
      [] a.fn \in {"avg", "var", "percentile"} -> NaN

Empty(a) == IF a.nullable THEN Null ELSE Default(a)

ChSum(a, rows, S, V(_)) == IF S = {} THEN Empty(a) ELSE Total(rows, S, V)

(* An average over the sign divides two sums; 0 / 0 is no number.          *)
SignAverage(a, rows, N, divisor, V(_), Sign(_)) ==
    LET n == Total(rows, Passing(rows, divisor), Sign) IN
    CASE N = {} /\ a.nullable -> Null
      [] n = 0                -> NaN
      [] OTHER                -> (Scale * Total(rows, N, V)) \div n

ChValue(a, rows) ==
    LET c == Call(a)
        S == Passing(rows, c.cond)
        N == NonNull(rows, S)
        Sign(row)   == row.sign
        Signed(row) == row.x * row.sign
        Products    == {i \in N : \A j \in N : Signed(rows[i]) = Signed(rows[j]) => i <= j}
        Args        == IF c.distinct THEN Products ELSE N
    IN
    CASE ~Accepted(c) -> Refused
      [] SignKind(a) = "SIGN_COUNT" ->
             IF c.distinct THEN SumSet({rows[i].sign : i \in S}) ELSE Total(rows, S, Sign)
      [] SignKind(a) = "SIGN_SUM" -> ChSum(a, rows, Args, Signed)
      [] SignKind(a) = "SIGN_AVG" -> SignAverage(a, rows, Args, c.divisor, Signed, Sign)
      [] SignKind(a) = "none" /\ a.fn # "count" /\ N = {} -> Empty(a)
      [] SignKind(a) = "none" /\ a.fn = "percentile"      -> Median(rows, N, FALSE)
      [] OTHER -> PgValue([a EXCEPT !.filter = "filter" \in c.cond], rows)

(* deparsePartialStatArray: the array reads the column, not its sign.  Its *)
(* sum over no rows is NULL for a Nullable argument, and 0 otherwise.      *)
PartialStatArray(a, rows) ==
    LET S   == NonNull(rows, Filtered(a, rows))
        sum == IF S # {} THEN Total(rows, S, X) ELSE IF a.nullable THEN Null ELSE 0
    IN
    IF AggPartialKind(a) = "AVG_INT"
    THEN <<Cardinality(S), sum>>
    ELSE <<Cardinality(S), sum, Deviations(rows, S)>>

(* The combine step over values that are their own state (external), which *)
(* raises for an array with a NULL in it.                                  *)
CombineDirect(fn, v, w) ==
    CASE v = Refused -> Refused
      [] v = Null    -> w
      [] w = Null    -> v
      [] OTHER       -> IF fn = "min" THEN (IF v < w THEN v ELSE w) ELSE v + w

CombineArrays(a, s, rows) ==
    IF s[2] = Null THEN Refused
    ELSE LET kind == AggPartialKind(a) IN
         Final(a.fn, Combine(kind, s, State(kind, rows, NonNull(rows, Filtered(a, rows)))))

(* What the query gives for the aggregate.                                 *)
Result(a) ==
    CASE a.split = "SIMPLE" -> ChValue(a, Read(a))
      [] IsStateArray(a)    -> CombineArrays(a, PartialStatArray(a, Read(a)), hot)
      [] OTHER              -> CombineDirect(a.fn, ChValue(a, Read(a)), PgValue(a, hot))

-----------------------------------------------------------------------------
(* The queries and their data                                              *)

Aggrefs ==
    [fn : Fns, type : {"int4", "float8"}, star : BOOLEAN, distinct : BOOLEAN,
     filter : BOOLEAN, order : {"none", "asc", "desc", "nulls first", "using"},
     split : Splits, engine : Engines, nullable : Nullables, final : BOOLEAN]

(* What PostgreSQL's parser lets through; FINAL is the setting final, and  *)
(* says nothing of a MergeTree.                                            *)
Sensible(a) ==
    /\ a.star => a.fn = "count" /\ ~a.distinct
    /\ a.fn = "percentile" => a.order # "none" /\ ~a.distinct
    /\ a.fn # "percentile" => a.order \in {"none", "asc"}
    /\ a.fn \notin {"avg", "var"} => a.type = "float8"
    /\ a.engine = "MergeTree" => ~a.final

Sent == WalkAggref(agg) /\ ~OrderRefused(agg)

Init == /\ agg \in {a \in Aggrefs : Sensible(a)}
        /\ cold = <<>> /\ hot = <<>>

NewRows == [x : (IF agg.nullable THEN {Null} ELSE {}) \union {1, 3},
            f : (IF agg.filter THEN {Null} ELSE {}) \union {TRUE},
            sign : {1}, cancels : {0}]

InsertCold == /\ Sent /\ Len(cold) < MaxRows
              /\ \E r \in NewRows : cold' = Append(cold, r)
              /\ UNCHANGED <<agg, hot>>

(* A row of a CollapsingMergeTree is deleted by writing it again with the  *)
(* opposite sign.                                                          *)
CancelCold == /\ Sent /\ agg.engine = "CollapsingMergeTree" /\ Len(cold) <= MaxRows
              /\ \E i \in Rows(cold) :
                    /\ cold[i].sign = 1 /\ ~\E j \in Rows(cold) : cold[j].cancels = i
                    /\ cold' = Append(cold, [cold[i] EXCEPT !.sign = -1, !.cancels = i])
              /\ UNCHANGED <<agg, hot>>

InsertHot == /\ Sent /\ agg.split = "PARTIAL" /\ Len(hot) < MaxRows
             /\ \E r \in NewRows : hot' = Append(hot, r)
             /\ UNCHANGED <<agg, cold>>

Next == InsertCold \/ CancelCold \/ InsertHot

Spec == Init /\ [][Next]_vars

-----------------------------------------------------------------------------
Both == Collapse(cold) \o hot

Input(rows) == NonNull(rows, Filtered(agg, rows))

(***************************************************************************)
(* Where the value is another than PostgreSQL's, in terms of the query and *)
(* of the rows:                                                            *)
(*   MustRefuse     an error, for a FILTER that is not a condition of the  *)
(*                  call, and for the state of a Nullable column of which  *)
(*                  ClickHouse read no value: all NULL, filtered out, or   *)
(*                  no rows;                                               *)
(*   SignNotApplied a cancelled row is still read, and the aggregate is    *)
(*                  not summed over the sign;                              *)
(*   DistinctSigns  count and avg DISTINCT over the sign;                  *)
(*   NoInputLeft    nothing of the foreign partition enters the aggregate, *)
(*                  and ClickHouse gives a default and not NULL.           *)
(***************************************************************************)
Collapsing == agg.engine = "CollapsingMergeTree"

MustRefuse ==
    \/ agg.filter /\ (agg.fn = "string_agg" \/ (agg.star /\ Collapsing))
    \/ /\ agg.split = "PARTIAL" /\ agg.fn \in {"avg", "var"}
       /\ agg.nullable /\ Input(Read(agg)) = {}

SignNotApplied ==
    /\ Collapsing /\ Read(agg) # Collapse(cold)
    /\ \/ agg.fn \notin {"sum", "avg", "count"} \/ agg.distinct
       \/ agg.split = "PARTIAL" /\ agg.fn = "avg"

DistinctSigns == Collapsing /\ agg.distinct /\ agg.fn \in {"count", "avg"}

NoInputLeft ==
    /\ agg.split = "SIMPLE" \/ agg.fn \in {"sum", "min"}
    /\ agg.fn # "count" /\ Input(Collapse(cold)) = {}
    /\ agg.fn = "sum" => Input(hot) = {}
    /\ ~agg.nullable \/ Input(Read(agg)) # {}

(* An aggregate that ClickHouse computes, wholly or for one partition,     *)
(* gives the value PostgreSQL would compute over the rows, or an error     *)
(* where MustRefuse says so; nothing is claimed of the other exceptions.   *)
AggregateSame ==
    Sent =>
        IF MustRefuse THEN Result(agg) = Refused
        ELSE SignNotApplied \/ DistinctSigns \/ NoInputLeft \/ Result(agg) = PgValue(agg, Both)

(* The same without exceptions, which is not true of the code.             *)
AggregateAlwaysSame == Sent => Result(agg) = PgValue(agg, Both)

(* deparsePartialStatArray: "Emit partial aggregate as a ClickHouse array  *)
(* holding Postgres transition state", over no rows as well.               *)
PartialStateIsPostgres ==
    Sent /\ IsStateArray(agg) =>
        PartialStatArray(agg, Read(agg))
            = State(AggPartialKind(agg), Collapse(cold), Input(Collapse(cold)))

(* A FILTER is a condition that ClickHouse accepts.                        *)
IfTakesCondition == Sent /\ ~IsStateArray(agg) => Accepted(Call(agg))

=============================================================================
