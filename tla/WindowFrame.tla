---------------------------- MODULE WindowFrame -----------------------------
(***************************************************************************)
(* The OVER clause ClickHouse is sent (src/src/deparse.c).                 *)
(*                                                                         *)
(* deparseWindowFunc spells a WindowClause from its flag word: order,      *)
(* placement of NULLs, and the frame unless it is the default one or the   *)
(* function ranks.  What is left out of the text falls back to ClickHouse's*)
(* defaults, so the frame of a row is right only if those agree.  The      *)
(* state is one window clause and the rows of a partition, which grow; the *)
(* invariant compares the frame of every row on both sides.                *)
(***************************************************************************)
EXTENDS Integers, Sequences, FiniteSets, FiniteSetsExt

CONSTANTS NullKey,      \* SQL NULL
          MaxValue,     \* bound on the ordering key
          MaxPartition, \* bound on the rows of the partition
          Offsets,      \* n in n PRECEDING and n FOLLOWING
          Excludes      \* frame exclusions: "none", "current row"

(* What the constants may be. *)
WindowConstants ==
    /\ MaxValue \in Nat /\ MaxPartition \in Nat /\ Offsets \subseteq Nat
    /\ Excludes \subseteq {"none", "current row"}

VARIABLES wc,           \* the WindowClause and the function over it
          rows          \* ordering keys, in order of arrival

windowVars == <<wc, rows>>

Bound(kind, n) == [kind |-> kind, n |-> n]
Distances == {Bound(kind, n) : kind \in {"OP", "OF"}, n \in Offsets}
Starts == {Bound("UP", 0), Bound("CR", 0)} \cup Distances
Ends   == {Bound("UF", 0), Bound("CR", 0)} \cup Distances

(* what the parser lets through; no BETWEEN means an end at CURRENT ROW    *)
Frames ==
    {f \in [nondefault : BOOLEAN, mode : {"ROWS", "RANGE"}, between : BOOLEAN,
            start : Starts, end : Ends, exclude : Excludes] :
        /\ ~f.nondefault => /\ f.mode = "RANGE" /\ ~f.between /\ f.exclude = "none"
                            /\ f.start.kind = "UP" /\ f.end.kind = "CR"
        /\ ~f.between => f.end.kind = "CR" /\ f.start.kind # "OF"
        /\ f.start.kind = "CR" => f.end.kind # "OP"
        /\ f.start.kind = "OF" => f.end.kind \in {"OF", "UF"}}

WindowInit ==
    /\ wc \in [fn : {"rank", "last_value"}, desc : BOOLEAN, nullsFirst : BOOLEAN, frame : Frames]
    /\ rows = << >>

AddRow ==
    /\ Len(rows) < MaxPartition
    /\ \E v \in (0..MaxValue) \cup {NullKey} : rows' = Append(rows, v)
    /\ UNCHANGED wc

WindowNext == AddRow
WindowSpec == WindowInit /\ [][WindowNext]_windowVars

-----------------------------------------------------------------------------
(* deparseWindowFunc: "none" stands for what is not written                *)
Ranking == {"rank"}

(* the frame options other than NONDEFAULT are the default ones            *)
IsDefault(f) == f = [nondefault |-> TRUE, mode |-> "RANGE", between |-> FALSE,
                     start |-> Bound("UP", 0), end |-> Bound("CR", 0), exclude |-> "none"]

EmittedFrame(w) ==
    IF w.fn \in Ranking \/ ~w.frame.nondefault \/ IsDefault(w.frame)
    THEN [mode |-> "none", start |-> Bound("none", 0), end |-> Bound("none", 0)]
    ELSE [mode |-> w.frame.mode, start |-> w.frame.start,
          end |-> IF w.frame.between THEN w.frame.end ELSE Bound("none", 0)]

NullsDropped(w) == [desc |-> w.desc, nulls |-> "none"]

EmittedOrder(w) == [desc |-> w.desc, nulls |-> IF w.nullsFirst THEN "FIRST" ELSE "none"]

Emitted(w) == [order |-> EmittedOrder(w), frame |-> EmittedFrame(w)]

-----------------------------------------------------------------------------
(* Frames, as sets of rows, when rows are ordered by their keys            *)
Before(desc, nullsFirst, a, b) ==
    CASE a = NullKey /\ b = NullKey -> FALSE
      [] a = NullKey             -> nullsFirst
      [] b = NullKey             -> ~nullsFirst
      [] OTHER                -> IF desc THEN a > b ELSE a < b

Position(desc, nf, i) ==
    Cardinality({j \in DOMAIN rows : \/ Before(desc, nf, rows[j], rows[i])
                                     \/ rows[j] = rows[i] /\ j <= i})

(* distance in rows, or in values; the peers of a row are at distance 0    *)
Distance(mode, desc, nf, i, j) ==
    IF mode = "ROWS" THEN Position(desc, nf, j) - Position(desc, nf, i)
    ELSE IF desc THEN rows[i] - rows[j] ELSE rows[j] - rows[i]

Sign(bound) == IF bound.kind = "OP" THEN 0 - bound.n ELSE bound.n

NotBeforeStart(mode, start, desc, nf, i, j) ==
    CASE start.kind = "UP" -> TRUE
      [] start.kind = "CR" /\ mode = "RANGE" -> ~Before(desc, nf, rows[j], rows[i])
      [] OTHER -> Distance(mode, desc, nf, i, j) >= Sign(start)

NotAfterEnd(mode, end, desc, nf, i, j) ==
    CASE end.kind = "UF" -> TRUE
      [] end.kind = "CR" /\ mode = "RANGE" -> ~Before(desc, nf, rows[i], rows[j])
      [] OTHER -> Distance(mode, desc, nf, i, j) <= Sign(end)

FrameOf(mode, start, end, desc, nf, i) ==
    {j \in DOMAIN rows : /\ NotBeforeStart(mode, start, desc, nf, i, j)
                         /\ NotAfterEnd(mode, end, desc, nf, i, j)}

PgFrame(w, i) ==
    FrameOf(w.frame.mode, w.frame.start, w.frame.end, w.desc, w.nullsFirst, i)
        \ (IF w.frame.exclude = "current row" THEN {i} ELSE {})

(* ClickHouse: NULLs last, RANGE from the first row, up to the current one *)
ChFrame(e, i) ==
    LET f == IF e.frame.mode = "none"
             THEN [mode |-> "RANGE", start |-> Bound("UP", 0), end |-> Bound("CR", 0)]
             ELSE e.frame
        end == IF f.end.kind = "none" THEN Bound("CR", 0) ELSE f.end
    IN  FrameOf(f.mode, f.start, end, e.order.desc, e.order.nulls = "FIRST", i)

(* a distance in values needs values                                       *)
Measurable(w) ==
    w.frame.mode = "RANGE" /\ {w.frame.start.kind, w.frame.end.kind} \cap {"OP", "OF"} # {}
        => \A i \in DOMAIN rows : rows[i] # NullKey

(* Every row's frame, and with it its rank or the last value of its frame, *)
(* is the one PostgreSQL gives the row.  A ranking function only sees the  *)
(* rows before the current one and its peers, whatever the frame.          *)
FrameSame ==
    Measurable(wc) =>
        \A i \in DOMAIN rows :
            ChFrame(Emitted(wc), i) =
                IF wc.fn \in Ranking
                THEN FrameOf("RANGE", Bound("UP", 0), Bound("CR", 0), wc.desc, wc.nullsFirst, i)
                ELSE PgFrame(wc, i)
=============================================================================
