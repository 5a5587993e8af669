----------------------------- MODULE MCQueries -----------------------------
(***************************************************************************)
(* The relations of a remote SELECT: a behaviour plans the joins below the *)
(* scan relation (GetForeignJoinPaths) or the steps above it               *)
(* (GetForeignUpperPaths); the variables of the other rest.  Two tables    *)
(* are joined with every kind of join and condition, three with the        *)
(* conditions that a second join moves on.                                 *)
(***************************************************************************)
EXTENDS JoinPushdown, UpperPushdown

CONSTANT Stages          \* "join", "upper"

MCContents == { {}, {<<0, 0>>, <<0, 1>>}, {<<0, 1>>, <<1, 1>>} }

Is(op, a, b, ship) == {[op |-> op, a |-> a, b |-> b, ship |-> ship]}
Fixed  == Is("=", 2, 0, TRUE)
Own    == Is("=", 1, 2, TRUE)
Key    == Is("=", 1, 1, TRUE)
Less   == Is("<", 2, 2, TRUE)
KeepsNullRows(ship) == Is("null or =", 2, 0, ship)

Pair ==
    [tables |-> {1, 2}, joins |-> {{1, 2}},
     jointypes |-> {"INNER", "LEFT", "RIGHT", "FULL", "SEMI", "ANTI"},
     table |-> {{}, Fixed, Own, Is("=", 2, 0, FALSE)},
     on    |-> {{}, Key, Less, Key \union Less, Key \union Is("<", 2, 2, FALSE)},
     where |-> {KeepsNullRows(TRUE), KeepsNullRows(FALSE)}]

(* Bound: the first two of three tables are joined first.                  *)
Triple ==
    [tables |-> {1, 2, 3}, joins |-> {{1, 2}, {1, 2, 3}},
     jointypes |-> {"INNER", "LEFT", "FULL", "SEMI", "ANTI"},
     table |-> {{}, Fixed}, on |-> {Key, Key \union Less}, where |-> {KeepsNullRows(TRUE)}]

PairsAndTriples == {Pair, Triple}

(* The shapes of the exceptions                                            *)
SemiOverLess == {[Pair EXCEPT !.jointypes = {"SEMI"}]}
AntiOverOwn  == {[Pair EXCEPT !.jointypes = {"ANTI"}]}
FullOnly     == {[Pair EXCEPT !.jointypes = {"FULL"}]}

(* Bound: the table above which steps are planned holds three rows; the    *)
(* order in which it holds them does not matter.                           *)
MCRows   == [k : 1..2, v : 1..2]
Place(r) == 2 * r.k + r.v
MCTables ==
    UNION {{t \in [1..n -> MCRows] : \A i \in 1..(n - 1) : Place(t[i]) <= Place(t[i + 1])}
           : n \in 0..3}

ASSUME QueryAssumption == JoinConstants /\ UpperConstants

NoUpper == query = << >> /\ current = "none" /\ todo = {"none"} /\ rel = << >> /\ paths = {}
NoJoin  == shape = << >> /\ rels = {}

QueryInit ==
    \/ "join" \in Stages /\ JoinInit /\ NoUpper
    \/ "upper" \in Stages /\ UpperInit /\ NoJoin

QueryNext ==
    \/ rels # {} /\ JoinNext /\ UNCHANGED upperVars
    \/ rels = {} /\ UpperNext /\ UNCHANGED joinVars

QuerySpec == QueryInit /\ [][QueryNext]_<<joinVars, upperVars>>
=============================================================================
