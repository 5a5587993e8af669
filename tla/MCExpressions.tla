--------------------------- MODULE MCExpressions ---------------------------
(***************************************************************************)
(* What one item of a remote SELECT means: an ordinary expression, an      *)
(* aggregate or a window function.  deparseExpr dispatches on the node, so *)
(* a behaviour follows one of them; the variables of the other two rest.   *)
(***************************************************************************)
EXTENDS ExprPushdown, WindowFrame

CONSTANTS NaN, Refused      \* AggPushdown's

VARIABLES item,             \* the kind of node
          agg, cold, hot    \* AggPushdown's

Aggregates == INSTANCE AggPushdown WITH
    MaxRows <- 2,
    Fns <- {"count", "sum", "avg", "var", "min", "string_agg", "percentile"},
    Engines <- {"MergeTree", "CollapsingMergeTree"},
    Nullables <- BOOLEAN, Splits <- {"SIMPLE", "PARTIAL"}

ASSUME ItemAssumption == Aggregates!AggConstants /\ WindowConstants

itemVars == <<item, vars, agg, cold, hot, wc, rows>>

Nothing == expr = << >> /\ type = "none" /\ depth = 0
NoAggregate == agg = << >> /\ cold = << >> /\ hot = << >>
NoWindow ==
    WindowInit /\ wc.fn = "rank" /\ ~wc.desc /\ ~wc.nullsFirst /\ ~wc.frame.nondefault

ItemInit ==
    \/ item = "Expr" /\ Init /\ NoAggregate /\ NoWindow
    \/ item = "Aggref" /\ Aggregates!Init /\ Nothing /\ NoWindow
    \/ item = "WindowFunc" /\ WindowInit /\ Nothing /\ NoAggregate

ItemNext ==
    \/ item = "Expr" /\ Next /\ UNCHANGED <<item, agg, cold, hot, wc, rows>>
    \/ item = "Aggref" /\ Aggregates!Next /\ UNCHANGED <<item, vars, wc, rows>>
    \/ item = "WindowFunc" /\ WindowNext /\ UNCHANGED <<item, vars, agg, cold, hot>>

ItemSpec == ItemInit /\ [][ItemNext]_itemVars

(* A condition that foreign_expr_walker accepts keeps the same rows.       *)
ItemConditionKeepsSameRows == item = "Expr" => ConditionKeepsSameRows

(* A value that foreign_expr_walker accepts is the same, NULL included.    *)
ItemValueIsSame == item = "Expr" => ValueIsSame

(* An aggregate that deparseAggref writes, whole or as a partial state,    *)
(* has the value PostgreSQL would compute, over no rows and over NULL,     *)
(* filtered or cancelled ones as well, or is an error where AggPushdown's  *)
(* MustRefuse says; its other exceptions, named there, are those of the    *)
(* sign of a CollapsingMergeTree and of ClickHouse's defaults.             *)
ItemAggregateSame == item = "Aggref" => Aggregates!AggregateSame
=============================================================================
