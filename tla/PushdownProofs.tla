--------------------------- MODULE PushdownProofs ---------------------------
(***************************************************************************)
(* Proofs about the queries that are sent to ClickHouse: that a remote     *)
(* join (JoinPushdown), a remote OVER clause (WindowFrame) and the steps   *)
(* planned above a scan (UpperPushdown) give the rows that PostgreSQL      *)
(* would, for any contents of the tables, any number of joins and any      *)
(* partition.                                                              *)
(*                                                                         *)
(* The three have no state in common; each part has its own inductive      *)
(* invariant and the algebra of rows that its last step needs.             *)
(***************************************************************************)
EXTENDS JoinPushdown, UpperPushdown, WindowFrame, TLAPS

-----------------------------------------------------------------------------
(***************************************************************************)
(* Joins: rows, conditions and where they are checked (fdw.c,              *)
(* foreign_join_ok)                                                        *)
(***************************************************************************)

(* a row of the tables ts                                                  *)
RowOver(ts, row) == row = [t \in ts |-> row[t]]
(* No table is on both sides.                                              *)
Disjoint(A, B) == A \cap B = {}
(* Every row of S is one.                                                  *)
RowsOver(ts, S) == \A row \in S : RowOver(ts, row)

(* the conditions compare columns of the tables ts                         *)
CondsOver(ts, conds) == \A c \in conds : c.l[1] # 0 /\ CondRels(c) \subseteq ts \cup {0}
(* The conditions hold of the row.                                         *)
Holds(conds, row) == \A c \in conds : True(c, row)

(* A joined row is over the tables of both sides.                          *)
LEMMA BesideOver ==
  ASSUME NEW A, NEW B, NEW l, NEW r, RowOver(A, l), RowOver(B, r)
  PROVE  RowOver(A \cup B, Beside(l, r))
  <1>1. DOMAIN l = A /\ DOMAIN r = B  BY DEF RowOver
  <1>2. Beside(l, r) = [t \in A \cup B |-> IF t \in A THEN l[t] ELSE r[t]]
    BY <1>1 DEF Beside
  <1> QED BY <1>2 DEF RowOver

(* A joined row has the outer side's columns,                              *)
LEMMA BesideOuter ==
  ASSUME NEW A, NEW B, NEW l, NEW r, RowOver(A, l), RowOver(B, r)
  PROVE  \A t \in A : Beside(l, r)[t] = l[t]
  BY DEF RowOver, Beside

(* and the inner side's, since the two have no table in common.            *)
LEMMA BesideInner ==
  ASSUME NEW A, NEW B, NEW l, NEW r, RowOver(A, l), RowOver(B, r), Disjoint(A, B)
  PROVE  \A t \in B : Beside(l, r)[t] = r[t]
  <1>1. DOMAIN l = A /\ DOMAIN r = B  BY DEF RowOver
  <1>2. Beside(l, r) = [t \in A \cup B |-> IF t \in A THEN l[t] ELSE r[t]]
    BY <1>1 DEF Beside
  <1>3. \A t \in B : t \notin A  BY DEF Disjoint
  <1> QED BY <1>2, <1>3

(* A condition is decided by the columns of the tables it names, so it     *)
(* holds of a row if it holds of the part of the row over those tables.    *)
(* This is what lets foreign_join_ok move the conditions of an input past  *)
(* a join.                                                                 *)
LEMMA HoldsOnPart ==
  ASSUME NEW A, NEW row, NEW part, NEW conds, CondsOver(A, conds),
         \A t \in A : row[t] = part[t]
  PROVE  Holds(conds, row) <=> Holds(conds, part)
  <1> SUFFICES ASSUME NEW c \in conds PROVE True(c, row) = True(c, part)
    BY DEF Holds
  <1>1. Value(row, c.l) = Value(part, c.l)  BY DEF Value, CondRels, IsVar, CondsOver
  <1>2. Value(row, c.r) = Value(part, c.r)  BY DEF Value, CondRels, IsVar, CondsOver
  <1> QED BY <1>1, <1>2 DEF True

(* A condition of the outer input holds of a joined row if it holds of the *)
(* outer row,                                                              *)
LEMMA HoldsOuter ==
  ASSUME NEW A, NEW B, NEW l, NEW r, RowOver(A, l), RowOver(B, r),
         NEW conds, CondsOver(A, conds)
  PROVE  Holds(conds, Beside(l, r)) <=> Holds(conds, l)
  <1>1. \A t \in A : Beside(l, r)[t] = l[t]  BY BesideOuter
  <1> QED BY <1>1, HoldsOnPart

(* and one of the inner input if it holds of the inner row.                *)
LEMMA HoldsInner ==
  ASSUME NEW A, NEW B, NEW l, NEW r, RowOver(A, l), RowOver(B, r), Disjoint(A, B),
         NEW conds, CondsOver(B, conds)
  PROVE  Holds(conds, Beside(l, r)) <=> Holds(conds, r)
  <1>1. \A t \in B : Beside(l, r)[t] = r[t]  BY BesideInner
  <1> QED BY <1>1, HoldsOnPart

(* The conditions of two lists hold together if those of each hold.        *)
LEMMA HoldsBoth ==
  \A C, D, row : Holds(C \cup D, row) <=> Holds(C, row) /\ Holds(D, row)
  BY DEF Holds

(* WHERE keeps the rows its conditions hold of.                            *)
LEMMA InWhere ==
  \A conds, S, row : row \in Where(conds, S) <=> row \in S /\ Holds(conds, row)
  BY DEF Where, Holds

(* Conditions checked one list after the other, remotely and then by the   *)
(* executor, are all checked.                                              *)
LEMMA WhereTwice ==
  ASSUME NEW C, NEW D, NEW S
  PROVE  Where(C, Where(D, S)) = Where(D \cup C, S)
  BY DEF Where

(* A WHERE without conditions keeps every row.                             *)
LEMMA WhereNothing ==
  ASSUME NEW S
  PROVE  Where({}, S) = S
  BY DEF Where

(* The pairs that match the join clauses                                   *)
LEMMA InMatches ==
  ASSUME NEW L, NEW R, NEW on, NEW row
  PROVE  row \in Matches(L, R, on) <=>
            \E l \in L, r \in R : row = Beside(l, r) /\ Holds(on, Beside(l, r))
  BY InWhere DEF Matches

(* The rows of one side that match none of the other                       *)
LEMMA InUnmatched ==
  ASSUME NEW L, NEW R, NEW on, NEW l
  PROVE  l \in Unmatched(L, R, on) <=> l \in L /\ \A r \in R : ~Holds(on, Beside(l, r))
  <1>1. Where(on, {Beside(l, r) : r \in R}) = {} <=> \A r \in R : ~Holds(on, Beside(l, r))
    BY DEF Where, Holds
  <1> QED BY <1>1 DEF Unmatched

(* Of the pairs that match, the same are left wherever a condition is      *)
(* checked: in an input, in the join clauses or above the join (INNER      *)
(* joins, and the matches of every other kind).                            *)
LEMMA MatchesSame ==
  ASSUME NEW A, NEW B, Disjoint(A, B), NEW Fo, NEW Fi, RowsOver(A, Fo), RowsOver(B, Fi),
         NEW o, NEW i, CondsOver(A, o), CondsOver(B, i),
         NEW on, NEW where, NEW clauses, NEW later,
         clauses \cup later = (on \cup where) \cup (o \cup i)
  PROVE  Where(later, Matches(Fo, Fi, clauses)) = Where(where, Matches(Where(o, Fo), Where(i, Fi), on))
  <1> SUFFICES ASSUME NEW row
               PROVE  row \in Where(later, Matches(Fo, Fi, clauses))
                        <=> row \in Where(where, Matches(Where(o, Fo), Where(i, Fi), on))
    OBVIOUS
  <1>1. row \in Where(later, Matches(Fo, Fi, clauses)) <=>
           \E l \in Fo, r \in Fi : row = Beside(l, r) /\ Holds(clauses \cup later, Beside(l, r))
    BY InWhere, InMatches, HoldsBoth
  <1>2. ASSUME NEW l \in Fo, NEW r \in Fi
        PROVE  Holds(clauses \cup later, Beside(l, r)) <=>
                  /\ Holds(on, Beside(l, r)) /\ Holds(where, Beside(l, r))
                  /\ Holds(o, l) /\ Holds(i, r)
    <2>1. RowOver(A, l) /\ RowOver(B, r)  BY DEF RowsOver
    <2>2. /\ Holds(o, Beside(l, r)) <=> Holds(o, l)
          /\ Holds(i, Beside(l, r)) <=> Holds(i, r)
      BY <2>1, HoldsOuter, HoldsInner
    <2> QED BY <2>2, HoldsBoth
  <1>3. row \in Matches(Where(o, Fo), Where(i, Fi), on) <=>
           \E l \in Where(o, Fo), r \in Where(i, Fi) :
              row = Beside(l, r) /\ Holds(on, Beside(l, r))
    BY InMatches
  <1>4. row \in Where(where, Matches(Where(o, Fo), Where(i, Fi), on)) <=>
           \E l \in Fo, r \in Fi : /\ row = Beside(l, r)
                                   /\ Holds(on, Beside(l, r)) /\ Holds(where, Beside(l, r))
                                   /\ Holds(o, l) /\ Holds(i, r)
    BY <1>3, InWhere
  <1> QED BY <1>1, <1>2, <1>4

(* A row is without a match among the filtered inner rows if it is without *)
(* one under the join clauses with the inner conditions added (PullUp:     *)
(* LEFT, SEMI and ANTI joins).                                             *)
LEMMA UnmatchedSame ==
  ASSUME NEW A, NEW B, Disjoint(A, B), NEW Fo, NEW Fi, RowsOver(A, Fo), RowsOver(B, Fi),
         NEW o, NEW i, CondsOver(B, i), NEW on, NEW l \in Fo
  PROVE  l \in Unmatched(Where(o, Fo), Where(i, Fi), on)
            <=> l \in Unmatched(Fo, Fi, on \cup i) /\ Holds(o, l)
  <1>1. ASSUME NEW r \in Fi
        PROVE  Holds(on \cup i, Beside(l, r)) <=> Holds(on, Beside(l, r)) /\ Holds(i, r)
    <2>1. RowOver(A, l) /\ RowOver(B, r)  BY DEF RowsOver
    <2>2. Holds(i, Beside(l, r)) <=> Holds(i, r)  BY <2>1, HoldsInner
    <2> QED BY <2>2, HoldsBoth
  <1>2. l \in Unmatched(Where(o, Fo), Where(i, Fi), on) <=>
           l \in Where(o, Fo) /\ \A r \in Where(i, Fi) : ~Holds(on, Beside(l, r))
    BY InUnmatched
  <1>3. l \in Unmatched(Fo, Fi, on \cup i) <=>
           l \in Fo /\ \A r \in Fi : ~Holds(on \cup i, Beside(l, r))
    BY InUnmatched
  <1> QED BY <1>1, <1>2, <1>3, InWhere

(* So the rows filled with NULLs are the same when the inner conditions go *)
(* to the join clauses and the outer ones above the join,                  *)
LEMMA ExtendedSame ==
  ASSUME NEW A, NEW B, Disjoint(A, B), NEW Fo, NEW Fi, RowsOver(A, Fo), RowsOver(B, Fi),
         NEW o, NEW i, CondsOver(A, o), CondsOver(B, i), NEW on, NEW where
  PROVE  Where(where \cup o, Extend(Unmatched(Fo, Fi, on \cup i), B))
           = Where(where, Extend(Unmatched(Where(o, Fo), Where(i, Fi), on), B))
  <1> DEFINE nulls == [t \in B |-> NullRow]
  <1>1. RowOver(B, nulls)  BY DEF RowOver
  <1> HIDE DEF nulls
  <1>2. ASSUME NEW l \in Fo
        PROVE  Holds(where \cup o, Beside(l, nulls))
                 <=> Holds(where, Beside(l, nulls)) /\ Holds(o, l)
    <2>1. RowOver(A, l)  BY DEF RowsOver
    <2>2. Holds(o, Beside(l, nulls)) <=> Holds(o, l)  BY <1>1, <2>1, HoldsOuter
    <2> QED BY <2>2, HoldsBoth
  <1> SUFFICES ASSUME NEW row
               PROVE  row \in Where(where \cup o, Extend(Unmatched(Fo, Fi, on \cup i), B))
                        <=> row \in Where(where, Extend(Unmatched(Where(o, Fo), Where(i, Fi), on), B))
    OBVIOUS
  <1>3. \A S : row \in Extend(S, B) <=> \E l \in S : row = Beside(l, nulls)
    BY DEF Extend, nulls
  <1> DEFINE U == Unmatched(Fo, Fi, on \cup i)
             V == Unmatched(Where(o, Fo), Where(i, Fi), on)
  <1>4. \A l : l \in U => l \in Fo  BY InUnmatched
  <1>5. \A l : l \in V => l \in Fo  BY InUnmatched, InWhere
  <1>6. \A l \in Fo : l \in V <=> l \in U /\ Holds(o, l)
    BY UnmatchedSame
  <1> HIDE DEF U, V
  <1>7. row \in Extend(U, B) <=> \E l \in U : row = Beside(l, nulls)  BY <1>3
  <1>8. row \in Extend(V, B) <=> \E l \in V : row = Beside(l, nulls)  BY <1>3
  <1>9. row \in Where(where \cup o, Extend(U, B))
          <=> \E l \in U : row = Beside(l, nulls) /\ Holds(where, row) /\ Holds(o, l)
    BY <1>2, <1>4, <1>7, InWhere
  <1>10. row \in Where(where, Extend(V, B))
          <=> \E l \in V : row = Beside(l, nulls) /\ Holds(where, row)
    BY <1>8, InWhere
  <1>11. row \in Where(where \cup o, Extend(U, B)) <=> row \in Where(where, Extend(V, B))
    BY <1>4, <1>5, <1>6, <1>9, <1>10
  <1> QED BY <1>11 DEF U, V

(* and so is a LEFT join,                                                  *)
LEMMA LeftSame ==
  ASSUME NEW A, NEW B, Disjoint(A, B), NEW Fo, NEW Fi, RowsOver(A, Fo), RowsOver(B, Fi),
         NEW o, NEW i, CondsOver(A, o), CondsOver(B, i), NEW on, NEW where
  PROVE  Where(where \cup o, Joined("LEFT", Fo, Fi, on \cup i, A, B))
           = Where(where, Joined("LEFT", Where(o, Fo), Where(i, Fi), on, A, B))
  <1>1. (on \cup i) \cup (where \cup o) = (on \cup where) \cup (o \cup i)  OBVIOUS
  <1>2. Where(where \cup o, Matches(Fo, Fi, on \cup i))
          = Where(where, Matches(Where(o, Fo), Where(i, Fi), on))
    BY <1>1, MatchesSame
  <1>3. Where(where \cup o, Extend(Unmatched(Fo, Fi, on \cup i), B))
           = Where(where, Extend(Unmatched(Where(o, Fo), Where(i, Fi), on), B))
    BY ExtendedSame
  <1> DEFINE m == Matches(Fo, Fi, on \cup i)    e == Extend(Unmatched(Fo, Fi, on \cup i), B)
             n == Matches(Where(o, Fo), Where(i, Fi), on)
             f == Extend(Unmatched(Where(o, Fo), Where(i, Fi), on), B)
  <1>6. /\ Joined("LEFT", Fo, Fi, on \cup i, A, B) = m \cup e
        /\ Joined("LEFT", Where(o, Fo), Where(i, Fi), on, A, B) = n \cup f
    BY DEF Joined
  <1>7. Where(where \cup o, m) = Where(where, n) /\ Where(where \cup o, e) = Where(where, f)
    BY <1>2, <1>3
  <1> HIDE DEF m, e, n, f
  <1>8. ASSUME NEW row
        PROVE  row \in Where(where \cup o, m \cup e) <=> row \in Where(where, n \cup f)
    <2>1. row \in Where(where \cup o, m) <=> row \in Where(where, n)  BY <1>7
    <2>2. row \in Where(where \cup o, e) <=> row \in Where(where, f)  BY <1>7
    <2> QED BY <2>1, <2>2, InWhere
  <1>9. Where(where \cup o, m \cup e) = Where(where, n \cup f)  BY <1>8
  <1> QED BY <1>6, <1>9

(* and a RIGHT join, with its sides exchanged.                             *)
LEMMA RightSame ==
  ASSUME NEW A, NEW B, Disjoint(A, B), NEW Fo, NEW Fi, RowsOver(A, Fo), RowsOver(B, Fi),
         NEW o, NEW i, CondsOver(A, o), CondsOver(B, i), NEW on, NEW where
  PROVE  Where(where \cup i, Joined("RIGHT", Fo, Fi, on \cup o, A, B))
           = Where(where, Joined("RIGHT", Where(o, Fo), Where(i, Fi), on, A, B))
  <1>1. (on \cup o) \cup (where \cup i) = (on \cup where) \cup (o \cup i)  OBVIOUS
  <1>2. Where(where \cup i, Matches(Fo, Fi, on \cup o))
          = Where(where, Matches(Where(o, Fo), Where(i, Fi), on))
    BY <1>1, MatchesSame
  <1>3. Disjoint(B, A)  BY DEF Disjoint
  <1>4. Where(where \cup i, Extend(Unmatched(Fi, Fo, on \cup o), A))
           = Where(where, Extend(Unmatched(Where(i, Fi), Where(o, Fo), on), A))
    BY <1>3, ExtendedSame
  <1> DEFINE m == Matches(Fo, Fi, on \cup o)    e == Extend(Unmatched(Fi, Fo, on \cup o), A)
             n == Matches(Where(o, Fo), Where(i, Fi), on)
             f == Extend(Unmatched(Where(i, Fi), Where(o, Fo), on), A)
  <1>6. /\ Joined("RIGHT", Fo, Fi, on \cup o, A, B) = m \cup e
        /\ Joined("RIGHT", Where(o, Fo), Where(i, Fi), on, A, B) = n \cup f
    BY DEF Joined
  <1>7. Where(where \cup i, m) = Where(where, n) /\ Where(where \cup i, e) = Where(where, f)
    BY <1>2, <1>4
  <1> HIDE DEF m, e, n, f
  <1>8. ASSUME NEW row
        PROVE  row \in Where(where \cup i, m \cup e) <=> row \in Where(where, n \cup f)
    <2>1. row \in Where(where \cup i, m) <=> row \in Where(where, n)  BY <1>7
    <2>2. row \in Where(where \cup i, e) <=> row \in Where(where, f)  BY <1>7
    <2> QED BY <2>1, <2>2, InWhere
  <1>9. Where(where \cup i, m \cup e) = Where(where, n \cup f)  BY <1>8
  <1> QED BY <1>6, <1>9

(* the conditions o are moved and kept; the clauses are on, i and moved    *)
Split(o, moved, kept) ==
    /\ moved \subseteq o
    /\ \A row : Holds(o, row) <=> Holds(moved, row) /\ Holds(kept, row)
Gathered(clauses, on, i, moved) ==
    \A row : Holds(clauses, row) <=> Holds(on, row) /\ Holds(i, row) /\ Holds(moved, row)

(* A SEMI join keeps the outer rows with a match.                          *)
LEMMA InSemi ==
  ASSUME NEW A, NEW B, NEW L, NEW R, NEW on, NEW l
  PROVE  l \in Joined("SEMI", L, R, on, A, B) <=> l \in L /\ \E r \in R : Holds(on, Beside(l, r))
  <1>1. Joined("SEMI", L, R, on, A, B) = L \ Unmatched(L, R, on)  BY DEF Joined
  <1> QED BY <1>1, InUnmatched

(* A SEMI join whose clauses took in the inner conditions and some of the  *)
(* outer ones (extract_join_equals), the others being checked above it,    *)
(* keeps the same outer rows.                                              *)
LEMMA SemiSame ==
  ASSUME NEW A, NEW B, Disjoint(A, B), NEW Fo, NEW Fi, RowsOver(A, Fo), RowsOver(B, Fi),
         NEW o, NEW i, CondsOver(A, o), CondsOver(B, i), NEW on,
         NEW moved, NEW kept, Split(o, moved, kept), NEW clauses, Gathered(clauses, on, i, moved),
         NEW l
  PROVE  l \in Joined("SEMI", Fo, Fi, clauses, A, B) /\ Holds(kept, l)
           <=> l \in Joined("SEMI", Where(o, Fo), Where(i, Fi), on, A, B)
  <1>2. l \in Joined("SEMI", Fo, Fi, clauses, A, B)
          <=> l \in Fo /\ \E r \in Fi : Holds(clauses, Beside(l, r))
    BY InSemi
  <1>3. l \in Joined("SEMI", Where(o, Fo), Where(i, Fi), on, A, B)
          <=> l \in Where(o, Fo) /\ \E r \in Where(i, Fi) : Holds(on, Beside(l, r))
    BY InSemi
  <1>4. ASSUME NEW r \in Fi, l \in Fo
        PROVE  Holds(clauses, Beside(l, r))
                  <=> Holds(on, Beside(l, r)) /\ Holds(i, r) /\ Holds(moved, l)
    <2>1. RowOver(A, l) /\ RowOver(B, r)  BY <1>4 DEF RowsOver
    <2>2. CondsOver(A, moved)  BY DEF CondsOver, Split
    <2>3. Holds(i, Beside(l, r)) <=> Holds(i, r)  BY <2>1, HoldsInner
    <2>4. Holds(moved, Beside(l, r)) <=> Holds(moved, l)  BY <2>1, <2>2, HoldsOuter
    <2>5. Holds(clauses, Beside(l, r))
            <=> Holds(on, Beside(l, r)) /\ Holds(i, Beside(l, r)) /\ Holds(moved, Beside(l, r))
      BY DEF Gathered
    <2> QED BY <2>3, <2>4, <2>5
  <1>5. Holds(o, l) <=> Holds(moved, l) /\ Holds(kept, l)  BY DEF Split
  <1>6. l \in Fo => (l \in Joined("SEMI", Fo, Fi, clauses, A, B)
          <=> \E r \in Fi : Holds(on, Beside(l, r)) /\ Holds(i, r) /\ Holds(moved, l))
    BY <1>2, <1>4
  <1>7. l \in Joined("SEMI", Where(o, Fo), Where(i, Fi), on, A, B)
          <=> l \in Fo /\ Holds(o, l) /\ \E r \in Fi : Holds(i, r) /\ Holds(on, Beside(l, r))
    BY <1>3, InWhere
  <1> QED BY <1>2, <1>5, <1>6, <1>7

(* An ANTI join whose clauses took in the inner conditions keeps the same  *)
(* outer rows; none of the outer conditions may move there.                *)
LEMMA AntiSame ==
  ASSUME NEW A, NEW B, Disjoint(A, B), NEW Fo, NEW Fi, RowsOver(A, Fo), RowsOver(B, Fi),
         NEW o, NEW i, CondsOver(B, i), NEW on
  PROVE  Where(o, Joined("ANTI", Fo, Fi, on \cup i, A, B))
           = Joined("ANTI", Where(o, Fo), Where(i, Fi), on, A, B)
  <1>1. \A L, R, c : Joined("ANTI", L, R, c, A, B) = Unmatched(L, R, c)
    BY DEF Joined
  <1>2. \A l : l \in Unmatched(Fo, Fi, on \cup i) => l \in Fo  BY InUnmatched
  <1>3. \A l : l \in Unmatched(Where(o, Fo), Where(i, Fi), on) => l \in Fo  BY InUnmatched, InWhere
  <1>4. \A l \in Fo : l \in Unmatched(Where(o, Fo), Where(i, Fi), on)
                        <=> l \in Unmatched(Fo, Fi, on \cup i) /\ Holds(o, l)
    BY UnmatchedSame
  <1>5. \A l : l \in Where(o, Unmatched(Fo, Fi, on \cup i))
                 <=> l \in Unmatched(Where(o, Fo), Where(i, Fi), on)
    BY <1>2, <1>3, <1>4, InWhere
  <1>6. Where(o, Unmatched(Fo, Fi, on \cup i)) = Unmatched(Where(o, Fo), Where(i, Fi), on)
    BY <1>5
  <1> QED BY <1>1, <1>6

(* The rows of a join that is not a SEMI or ANTI join are over both sides. *)
LEMMA JoinedOver ==
  ASSUME NEW A, NEW B, NEW L, NEW R, RowsOver(A, L), RowsOver(B, R), NEW on,
         NEW jt \in {"INNER", "LEFT", "RIGHT", "FULL"}
  PROVE  RowsOver(A \cup B, Joined(jt, L, R, on, A, B))
  <1>1. RowsOver(A \cup B, Matches(L, R, on))
    <2> SUFFICES ASSUME NEW row \in Matches(L, R, on) PROVE RowOver(A \cup B, row)
      BY DEF RowsOver
    <2>1. PICK l \in L, r \in R : row = Beside(l, r)  BY InMatches
    <2>2. RowOver(A, l) /\ RowOver(B, r)  BY DEF RowsOver
    <2> QED BY <2>1, <2>2, BesideOver
  <1>2. RowsOver(A \cup B, Extend(Unmatched(L, R, on), B))
    <2> SUFFICES ASSUME NEW row \in Extend(Unmatched(L, R, on), B) PROVE RowOver(A \cup B, row)
      BY DEF RowsOver
    <2>1. PICK l \in Unmatched(L, R, on) : row = Beside(l, [t \in B |-> NullRow])
      BY DEF Extend
    <2>2. RowOver(A, l) /\ RowOver(B, [t \in B |-> NullRow])
      BY InUnmatched DEF RowsOver, RowOver
    <2> QED BY <2>1, <2>2, BesideOver
  <1>3. RowsOver(A \cup B, Extend(Unmatched(R, L, on), A))
    <2> SUFFICES ASSUME NEW row \in Extend(Unmatched(R, L, on), A) PROVE RowOver(A \cup B, row)
      BY DEF RowsOver
    <2>1. PICK l \in Unmatched(R, L, on) : row = Beside(l, [t \in A |-> NullRow])
      BY DEF Extend
    <2>2. RowOver(B, l) /\ RowOver(A, [t \in A |-> NullRow])
      BY InUnmatched DEF RowsOver, RowOver
    <2>3. RowOver(B \cup A, row)  BY <2>1, <2>2, BesideOver
    <2>4. B \cup A = A \cup B  OBVIOUS
    <2> QED BY <2>3, <2>4
  <1> QED BY <1>1, <1>2, <1>3 DEF Joined, RowsOver

(* The kinds of join                                                       *)
JoinTypes == {"INNER", "LEFT", "RIGHT", "FULL", "SEMI", "ANTI"}

(* a pushed relation that may be joined further                            *)
SoundInput(r) ==
    /\ CondsOver(r.relids, r.fdw_private.remote_conds)
    /\ \A db \in Databases :
          /\ RowsOver(r.relids, r.from[db])
          /\ Where(r.fdw_private.local_conds, Where(r.fdw_private.remote_conds, r.from[db]))
               = r.rows[db]

(* JoinRowsSame of one relation                                            *)
JoinSame(r) ==
    \A db \in Databases : \A result \in ChResults(r, db) :
        Shown(Delivered(r), Where(r.fdw_private.local_conds, result))
            = Shown(Delivered(r), r.rows[db])

(* What is known of a relation: it can be joined further if it is pushed,  *)
(* a pushed join delivers its rows, and a scan sends conditions of its own *)
SoundRel(r) ==
    /\ r.relids \subseteq shape.tables
    /\ r.fdw_private.pushdown_safe /\ r.jointype \notin SemiOrAnti => SoundInput(r)
    /\ r.fdw_private.pushdown_safe /\ IsJoinRel(r) => JoinSame(r)
    /\ ~IsJoinRel(r) => r.fdw_private.remote_conds \subseteq r.where

(* The inductive invariant of the joins of a query                         *)
JoinInv ==
    /\ shape \in Shapes
    /\ \A r \in rels : SoundRel(r)

(* A condition of the query names tables of the query.                     *)
LEMMA CondsSides ==
  ASSUME JoinConstants, shape \in Shapes, NEW kind, NEW x \in shape.tables, NEW y \in shape.tables,
         NEW ts, x \in ts, y \in ts
  PROVE  CondsOver(ts, Conds(kind, x, y))
  <1>1. x # 0 /\ y # 0  BY DEF JoinConstants, Shape
  <1> SUFFICES ASSUME NEW c \in Conds(kind, x, y)
               PROVE  c.l[1] # 0 /\ CondRels(c) \subseteq ts \cup {0}
    BY DEF CondsOver
  <1>2. PICK k \in kind : c = Cond(k.op, <<x, k.a>>, IF k.b = 0 THEN One ELSE <<y, k.b>>, k.ship)
    BY DEF Conds
  <1>3. c.l = <<x, k.a>> /\ c.r \in {One, <<y, k.b>>}  BY <1>2 DEF Cond
  <1> QED BY <1>1, <1>3 DEF CondRels, IsVar, One

(* Fewer conditions over more tables are still over those tables.          *)
LEMMA CondsWider ==
  ASSUME NEW A, NEW B, A \subseteq B, NEW C, NEW D, C \subseteq D, CondsOver(A, D)
  PROVE  CondsOver(B, C)
  BY DEF CondsOver

(* A scan sends its shippable conditions and checks the others             *)
(* (clickhouseGetForeignRelSize).                                          *)
LEMMA BaseSound ==
  ASSUME JoinConstants, shape \in Shapes, NEW t \in shape.tables, NEW kind
  PROVE  SoundRel(BaseRel(t, Conds(kind, t, t)))
  <1> DEFINE conds == Conds(kind, t, t)
             r == BaseRel(t, conds)
  <1>1. CondsOver({t}, conds)  BY CondsSides
  <1> HIDE DEF conds
  <1>2. /\ r.relids = {t} /\ r.jointype = "BASE" /\ r.where = conds
        /\ r.from = [db \in Databases |-> {[u \in {t} |-> x] : x \in db[t]}]
        /\ r.rows = [db \in Databases |-> Where(conds, {[u \in {t} |-> x] : x \in db[t]})]
    BY DEF BaseRel
  <1>3. /\ r.fdw_private.remote_conds = {c \in conds : c.ship}
        /\ r.fdw_private.local_conds = {c \in conds : ~c.ship}
    BY DEF BaseRel, BaseInfo
  <1> HIDE DEF r
  <1>4. CondsOver({t}, r.fdw_private.remote_conds)
    BY <1>1, <1>3 DEF CondsOver
  <1>5. ASSUME NEW db \in Databases
        PROVE  /\ RowsOver(r.relids, r.from[db])
               /\ Where(r.fdw_private.local_conds, Where(r.fdw_private.remote_conds, r.from[db]))
                    = r.rows[db]
    <2>1. r.from[db] = {[u \in {t} |-> x] : x \in db[t]} /\ r.rows[db] = Where(conds, r.from[db])
      BY <1>2
    <2>2. RowsOver({t}, r.from[db])  BY <2>1 DEF RowsOver, RowOver
    <2>3. r.fdw_private.remote_conds \cup r.fdw_private.local_conds = conds
      BY <1>3
    <2> QED BY <1>2, <2>1, <2>2, <2>3, WhereTwice
  <1>6. SoundInput(r)  BY <1>2, <1>4, <1>5 DEF SoundInput
  <1>7. SoundRel(r)  BY <1>2, <1>3, <1>6 DEF SoundRel, IsJoinRel
  <1> QED BY <1>7 DEF r, conds

(* A join that is not pushed down promises nothing.                        *)
LEMMA LocalSound ==
  ASSUME NEW jt \in JoinTypes, NEW outer, NEW inner, SoundRel(outer), SoundRel(inner)
  PROVE  SoundRel(LocalRel(jt, outer, inner))
  BY DEF SoundRel, LocalRel, NotSafe, IsJoinRel, JoinTypes

(* what a pushed join may be offered                                       *)
Offered(jt, outer, inner, on, where) ==
    /\ Disjoint(outer.relids, inner.relids)
    /\ CondsOver(outer.relids \cup inner.relids, on)
    /\ CondsOver(outer.relids \cup inner.relids, where)
    /\ jt \notin {"LEFT", "RIGHT", "FULL"} => where = {}
    /\ jt = "SEMI" => \A c \in on : c.ship /\ IsSimpleJoinClause(c)
    /\ jt = "ANTI" => IsJoinRel(outer) \/ ~\E c \in outer.where : IsSimpleJoinClause(c)

(* foreign_join_ok keeps the rows of an INNER, LEFT, RIGHT or FULL join.   *)
LEMMA PlainSound ==
  ASSUME NEW jt \in {"INNER", "LEFT", "RIGHT", "FULL"}, NEW outer, NEW inner,
         SoundRel(outer), SoundRel(inner), NEW on, NEW where, NEW target, NEW placeholder,
         Offered(jt, outer, inner, on, where),
         ForeignJoinOk(jt, outer, inner, on, where, target, placeholder)
  PROVE  SoundRel(PushedRel(jt, outer, inner, on, where,
            JoinInfo(jt, outer.fdw_private.remote_conds, inner.fdw_private.remote_conds, on, where)))
  <1> DEFINE A == outer.relids    B == inner.relids
             o == outer.fdw_private.remote_conds
             i == inner.fdw_private.remote_conds
             info == JoinInfo(jt, o, i, on, where)
             new == PushedRel(jt, outer, inner, on, where, info)
  <1>1. SoundInput(outer) /\ SoundInput(inner)
    BY DEF ForeignJoinOk, InputsOk, SoundRel
  <1>2. outer.fdw_private.local_conds = {} /\ inner.fdw_private.local_conds = {}
    BY DEF ForeignJoinOk, InputsOk
  <1>3. CondsOver(A, o) /\ CondsOver(B, i)  BY <1>1 DEF SoundInput
  <1>4. Disjoint(A, B) /\ CondsOver(A \cup B, on) /\ CondsOver(A \cup B, where)  BY DEF Offered
  <1>5. \A c \in OwnClauses(jt, on) : c.ship  BY DEF ForeignJoinOk
  <1>6. /\ new.relids = A \cup B /\ new.jointype = jt /\ new.fdw_private = info
        /\ new.from = FromExprForRel(jt, outer, inner, info)
        /\ new.rows = PgRows(jt, outer, inner, on, where)
    BY DEF PushedRel
  <1>7. /\ info.remote_conds = RemoteConds(jt, o, i, on, where) \ Moved(jt, o, i, on, where)
        /\ info.local_conds  = {c \in OtherClauses(jt, on, where) : ~c.ship}
        /\ info.joinclauses  = OwnClauses(jt, on) \union PullUp(jt, o, i).join
                         \union Moved(jt, o, i, on, where)
        /\ info.make_outerrel_subquery = NeedsSubquery(jt, o)
        /\ info.make_innerrel_subquery = NeedsSubquery(jt, i)
    BY DEF JoinInfo
  <1> HIDE DEF new, info
  <1>8. CondsOver(A \cup B, info.remote_conds)
    <2>1. info.remote_conds \subseteq on \cup where \cup o \cup i
      BY <1>7 DEF RemoteConds, OtherClauses, PullUp
    <2>2. CondsOver(A \cup B, o) /\ CondsOver(A \cup B, i)
      BY <1>3, CondsWider
    <2>3. CondsOver(A \cup B, on \cup where \cup o \cup i)
      BY <2>2, <1>4 DEF CondsOver
    <2> QED BY <2>1, <2>3 DEF CondsOver
  <1>9. ASSUME NEW db \in Databases
        PROVE  /\ RowsOver(A \cup B, new.from[db])
               /\ Where(info.local_conds, Where(info.remote_conds, new.from[db])) = new.rows[db]
    <2> DEFINE Fo == outer.from[db]    Fi == inner.from[db]
               L == RangeTblRef(outer, info.make_outerrel_subquery)[db]
               R == RangeTblRef(inner, info.make_innerrel_subquery)[db]
               kept == info.remote_conds \cup info.local_conds
    <2>1. RowsOver(A, Fo) /\ RowsOver(B, Fi)  BY <1>1 DEF SoundInput
    <2>2. outer.rows[db] = Where(o, Fo)
      <3>1. outer.rows[db] = Where({}, Where(o, Fo))  BY <1>1, <1>2 DEF SoundInput
      <3> QED BY <3>1, WhereNothing
    <2>3. inner.rows[db] = Where(i, Fi)
      <3>1. inner.rows[db] = Where({}, Where(i, Fi))  BY <1>1, <1>2 DEF SoundInput
      <3> QED BY <3>1, WhereNothing
    <2>4. new.from[db] = Joined(jt, L, R, info.joinclauses, A, B)
      BY <1>6 DEF FromExprForRel
    <2>5. new.rows[db] = Where(where, Joined(jt, Where(o, Fo), Where(i, Fi), on, A, B))
      BY <1>6, <2>2, <2>3 DEF PgRows
    <2>6. L = IF NeedsSubquery(jt, o) THEN Where(o, Fo) ELSE Fo
      BY <1>7 DEF RangeTblRef, SelectStmtForRel
    <2>7. R = IF NeedsSubquery(jt, i) THEN Where(i, Fi) ELSE Fi
      BY <1>7 DEF RangeTblRef, SelectStmtForRel
    <2> HIDE DEF L, R
    <2>8. RowsOver(A, L) /\ RowsOver(B, R)  BY <2>1, <2>6, <2>7 DEF RowsOver, Where
    <2>9. RowsOver(A \cup B, new.from[db])  BY <2>4, <2>8, JoinedOver
    <2>10. Where(info.local_conds, Where(info.remote_conds, new.from[db])) = Where(kept, new.from[db])
      BY WhereTwice
    <2>11. Where(kept, new.from[db]) = new.rows[db]
      <3>1. CASE jt = "INNER"
        <4>1. L = Fo /\ R = Fi  BY <3>1, <2>6, <2>7 DEF NeedsSubquery
        <4>2. info.joinclauses \cup kept = (on \cup where) \cup (o \cup i)
          BY <3>1, <1>7 DEF RemoteConds, OtherClauses, OwnClauses, OuterJoins, PullUp, Moved,
                            ExtractJoinEquals
        <4>3. Where(kept, Matches(Fo, Fi, info.joinclauses))
                = Where(where, Matches(Where(o, Fo), Where(i, Fi), on))
          BY <1>3, <1>4, <2>1, <4>2, MatchesSame
        <4> QED BY <3>1, <4>1, <4>3, <2>4, <2>5 DEF Joined
      <3>2. CASE jt = "LEFT"
        <4>1. L = Fo /\ R = Fi  BY <3>2, <2>6, <2>7 DEF NeedsSubquery
        <4>2. info.joinclauses = on \cup i
          BY <3>2, <1>7 DEF OwnClauses, OuterJoins, PullUp, Moved, SemiOrAnti
        <4>3. kept = where \cup o
          BY <3>2, <1>7 DEF RemoteConds, OtherClauses, OuterJoins, PullUp, Moved, SemiOrAnti
        <4>4. Where(where \cup o, Joined("LEFT", Fo, Fi, on \cup i, A, B))
                = Where(where, Joined("LEFT", Where(o, Fo), Where(i, Fi), on, A, B))
          BY <1>3, <1>4, <2>1, LeftSame
        <4> QED BY <3>2, <4>1, <4>2, <4>3, <4>4, <2>4, <2>5
      <3>3. CASE jt = "RIGHT"
        <4>1. L = Fo /\ R = Fi  BY <3>3, <2>6, <2>7 DEF NeedsSubquery
        <4>2. info.joinclauses = on \cup o
          BY <3>3, <1>7 DEF OwnClauses, OuterJoins, PullUp, Moved, SemiOrAnti
        <4>3. kept = where \cup i
          BY <3>3, <1>7 DEF RemoteConds, OtherClauses, OuterJoins, PullUp, Moved, SemiOrAnti
        <4>4. Where(where \cup i, Joined("RIGHT", Fo, Fi, on \cup o, A, B))
                = Where(where, Joined("RIGHT", Where(o, Fo), Where(i, Fi), on, A, B))
          BY <1>3, <1>4, <2>1, RightSame
        <4> QED BY <3>3, <4>1, <4>2, <4>3, <4>4, <2>4, <2>5
      <3>4. CASE jt = "FULL"
        <4>1. L = Where(o, Fo)
          BY <3>4, <2>6, WhereNothing DEF NeedsSubquery
        <4>2. R = Where(i, Fi)
          BY <3>4, <2>7, WhereNothing DEF NeedsSubquery
        <4>3. info.joinclauses = on
          BY <3>4, <1>7 DEF OwnClauses, OuterJoins, PullUp, Moved, SemiOrAnti
        <4>4. kept = where
          BY <3>4, <1>7 DEF RemoteConds, OtherClauses, OuterJoins, PullUp, Moved, SemiOrAnti
        <4> QED BY <3>4, <4>1, <4>2, <4>3, <4>4, <2>4, <2>5
      <3> QED BY <3>1, <3>2, <3>3, <3>4
    <2> QED BY <2>9, <2>10, <2>11
  <1>10. SoundInput(new)  BY <1>6, <1>8, <1>9 DEF SoundInput
  <1>11. JoinSame(new)
    <2> SUFFICES ASSUME NEW db \in Databases, NEW result \in ChResults(new, db)
                 PROVE  Where(info.local_conds, result) = new.rows[db]
      BY <1>6 DEF JoinSame
    <2>1. result = Where(info.remote_conds, new.from[db])
      BY <1>6 DEF ChResults, SelectStmtForRel
    <2> QED BY <2>1, <1>9
  <1>12. new.relids \subseteq shape.tables  BY <1>6 DEF SoundRel
  <1>13. IsJoinRel(new)  BY <1>6 DEF IsJoinRel
  <1>14. SoundRel(new)  BY <1>10, <1>11, <1>12, <1>13 DEF SoundRel
  <1> QED BY <1>14 DEF new, info

(* Rows over the tables that are delivered are delivered whole.            *)
LEMMA ShownSame ==
  ASSUME NEW A, NEW S, RowsOver(A, S)
  PROVE  Shown(A, S) = S
  <1>1. \A row \in S : [t \in A |-> row[t]] = row  BY DEF RowsOver, RowOver
  <1> QED BY <1>1 DEF Shown

(* foreign_join_ok keeps the rows of an ANTI join.                         *)
LEMMA AntiSound ==
  ASSUME NEW outer, NEW inner,
         SoundRel(outer), SoundRel(inner), NEW on, NEW where, NEW target, NEW placeholder,
         Offered("ANTI", outer, inner, on, where),
         ForeignJoinOk("ANTI", outer, inner, on, where, target, placeholder)
  PROVE  SoundRel(PushedRel("ANTI", outer, inner, on, where,
            JoinInfo("ANTI", outer.fdw_private.remote_conds, inner.fdw_private.remote_conds, on, where)))
  <1> DEFINE A == outer.relids    B == inner.relids
             o == outer.fdw_private.remote_conds
             i == inner.fdw_private.remote_conds
             info == JoinInfo("ANTI", o, i, on, where)
             new == PushedRel("ANTI", outer, inner, on, where, info)
  <1>1. SoundInput(outer) /\ SoundInput(inner)
    BY DEF ForeignJoinOk, InputsOk, SoundRel
  <1>2. outer.fdw_private.local_conds = {} /\ inner.fdw_private.local_conds = {}
    BY DEF ForeignJoinOk, InputsOk
  <1>3. CondsOver(A, o) /\ CondsOver(B, i)  BY <1>1 DEF SoundInput
  <1>4. Disjoint(A, B) /\ where = {}  BY DEF Offered
  <1>5. \A c \in o : ~IsSimpleJoinClause(c)
    BY DEF Offered, ForeignJoinOk, InputsOk, SoundRel
  <1>6. /\ new.relids = A \cup B /\ new.jointype = "ANTI" /\ new.fdw_private = info
        /\ new.from = FromExprForRel("ANTI", outer, inner, info)
        /\ new.rows = PgRows("ANTI", outer, inner, on, where)
        /\ new.outer = outer /\ new.inner = inner
    BY DEF PushedRel
  <1>7. RemoteConds("ANTI", o, i, on, where) = o
    BY <1>4 DEF RemoteConds, OtherClauses, OuterJoins, PullUp, SemiOrAnti
  <1>8. Moved("ANTI", o, i, on, where) = {}
    BY <1>5, <1>7 DEF Moved, ExtractJoinEquals, SemiOrAnti
  <1>9. /\ info.remote_conds = o
        /\ info.local_conds  = {}
        /\ info.joinclauses  = on \cup i
        /\ info.make_outerrel_subquery = FALSE
        /\ info.make_innerrel_subquery = FALSE
    BY <1>4, <1>7, <1>8 DEF JoinInfo, OtherClauses, OwnClauses, OuterJoins, PullUp, SemiOrAnti,
       NeedsSubquery
  <1> HIDE DEF new, info
  <1>10. JoinSame(new)
    <2> SUFFICES ASSUME NEW db \in Databases, NEW result \in ChResults(new, db)
                 PROVE  Where({}, result) = new.rows[db]
      BY <1>6, <1>9 DEF JoinSame
    <2> DEFINE Fo == outer.from[db]    Fi == inner.from[db]
    <2>1. RowsOver(A, Fo) /\ RowsOver(B, Fi)  BY <1>1 DEF SoundInput
    <2>2. outer.rows[db] = Where(o, Fo)
      <3>1. outer.rows[db] = Where({}, Where(o, Fo))  BY <1>1, <1>2 DEF SoundInput
      <3> QED BY <3>1, WhereNothing
    <2>3. inner.rows[db] = Where(i, Fi)
      <3>1. inner.rows[db] = Where({}, Where(i, Fi))  BY <1>1, <1>2 DEF SoundInput
      <3> QED BY <3>1, WhereNothing
    <2>4. new.from[db] = Joined("ANTI", Fo, Fi, on \cup i, A, B)
      BY <1>6, <1>9 DEF FromExprForRel, RangeTblRef
    <2>5. new.rows[db] = Where({}, Joined("ANTI", Where(o, Fo), Where(i, Fi), on, A, B))
      BY <1>4, <1>6, <2>2, <2>3 DEF PgRows
    <2>6. result = Where(o, new.from[db])
      BY <1>6, <1>9 DEF ChResults, SelectStmtForRel
    <2>7. Where(o, Joined("ANTI", Fo, Fi, on \cup i, A, B))
            = Joined("ANTI", Where(o, Fo), Where(i, Fi), on, A, B)
      BY <1>3, <1>4, <2>1, AntiSame
    <2> QED BY <2>4, <2>5, <2>6, <2>7
  <1>11. new.relids \subseteq shape.tables  BY <1>6 DEF SoundRel
  <1>12. IsJoinRel(new) /\ new.jointype \in SemiOrAnti  BY <1>6 DEF IsJoinRel, SemiOrAnti
  <1>13. SoundRel(new)  BY <1>10, <1>11, <1>12 DEF SoundRel
  <1> QED BY <1>13 DEF new, info

(* foreign_join_ok keeps the outer rows of a SEMI join, whichever match    *)
(* ClickHouse's LEFT SEMI JOIN takes the inner columns from.               *)
LEMMA SemiSound ==
  ASSUME NEW outer, NEW inner,
         SoundRel(outer), SoundRel(inner), NEW on, NEW where, NEW target, NEW placeholder,
         Offered("SEMI", outer, inner, on, where),
         ForeignJoinOk("SEMI", outer, inner, on, where, target, placeholder)
  PROVE  SoundRel(PushedRel("SEMI", outer, inner, on, where,
            JoinInfo("SEMI", outer.fdw_private.remote_conds, inner.fdw_private.remote_conds, on, where)))
  <1> DEFINE A == outer.relids    B == inner.relids
             o == outer.fdw_private.remote_conds
             i == inner.fdw_private.remote_conds
             info == JoinInfo("SEMI", o, i, on, where)
             new == PushedRel("SEMI", outer, inner, on, where, info)
             moved == ExtractJoinEquals(o)
  <1>1. SoundInput(outer) /\ SoundInput(inner)
    BY DEF ForeignJoinOk, InputsOk, SoundRel
  <1>2. outer.fdw_private.local_conds = {} /\ inner.fdw_private.local_conds = {}
    BY DEF ForeignJoinOk, InputsOk
  <1>3. CondsOver(A, o) /\ CondsOver(B, i)  BY <1>1 DEF SoundInput
  <1>4. Disjoint(A, B) /\ where = {}  BY DEF Offered
  <1>5. \A c \in on : c.ship /\ IsSimpleJoinClause(c)  BY DEF Offered
  <1>6. /\ new.relids = A \cup B /\ new.jointype = "SEMI" /\ new.fdw_private = info
        /\ new.from = FromExprForRel("SEMI", outer, inner, info)
        /\ new.rows = PgRows("SEMI", outer, inner, on, where)
        /\ new.outer = outer /\ new.inner = inner
    BY DEF PushedRel
  <1>7. RemoteConds("SEMI", o, i, on, where) = on \cup o
    BY <1>4, <1>5 DEF RemoteConds, OtherClauses, OuterJoins, PullUp, SemiOrAnti
  <1>8. Moved("SEMI", o, i, on, where) = on \cup moved
    BY <1>5, <1>7 DEF Moved, ExtractJoinEquals, SemiOrAnti
  <1>9. /\ info.remote_conds = o \ (on \cup moved)
        /\ info.local_conds  = {}
        /\ info.joinclauses  = on \cup i \cup moved
        /\ info.make_outerrel_subquery = FALSE
        /\ info.make_innerrel_subquery = FALSE
    <2>1. info.remote_conds = (on \cup o) \ (on \cup moved)  BY <1>7, <1>8 DEF JoinInfo
    <2>2. info.local_conds = {}  BY <1>4, <1>5 DEF JoinInfo, OtherClauses, OuterJoins
    <2>3. info.joinclauses = {} \cup i \cup (on \cup moved)
      BY <1>8 DEF JoinInfo, OwnClauses, OuterJoins, PullUp, SemiOrAnti
    <2>4. info.make_outerrel_subquery = FALSE /\ info.make_innerrel_subquery = FALSE
      BY DEF JoinInfo, NeedsSubquery
    <2> QED BY <2>1, <2>2, <2>3, <2>4
  <1> DEFINE clauses == info.joinclauses
             kept == info.remote_conds
  <1>10. /\ moved \subseteq o /\ kept \subseteq o
         /\ \A row : Holds(o, row) <=> Holds(moved, row) /\ Holds(kept, row)
         /\ \A row : Holds(clauses, row) <=> Holds(on, row) /\ Holds(i, row) /\ Holds(moved, row)
    <2>1. moved \subseteq o /\ \A c \in o : c \in on => c \in moved
      BY <1>5 DEF ExtractJoinEquals
    <2>2. \A c : c \in kept <=> c \in o /\ c \notin moved  BY <1>9, <2>1
    <2> HIDE DEF moved, kept
    <2>3. \A row : Holds(o, row) <=> Holds(moved, row) /\ Holds(kept, row)
      BY <2>1, <2>2 DEF Holds
    <2>4. \A row : Holds(clauses, row) <=> Holds(on, row) /\ Holds(i, row) /\ Holds(moved, row)
      BY <1>9 DEF Holds
    <2> QED BY <2>1, <2>2, <2>3, <2>4
  <1>11. CondsOver(A, kept)  BY <1>3, <1>10 DEF CondsOver
  <1>12. ASSUME NEW db \in Databases, NEW result \in ChResults(new, db)
         PROVE  Shown(A, Where({}, result)) = Shown(A, new.rows[db])
    <2> DEFINE Fo == outer.from[db]    Fi == inner.from[db]
               L == Joined("SEMI", Fo, Fi, clauses, A, B)
               P == Joined("SEMI", Where(o, Fo), Where(i, Fi), on, A, B)
               m == Matches(L, RangeTblRef(new.inner, info.make_innerrel_subquery)[db], clauses)
    <2>1. RowsOver(A, Fo) /\ RowsOver(B, Fi)  BY <1>1 DEF SoundInput
    <2>2. outer.rows[db] = Where(o, Fo)
      <3>1. outer.rows[db] = Where({}, Where(o, Fo))  BY <1>1, <1>2 DEF SoundInput
      <3> QED BY <3>1, WhereNothing
    <2>3. inner.rows[db] = Where(i, Fi)
      <3>1. inner.rows[db] = Where({}, Where(i, Fi))  BY <1>1, <1>2 DEF SoundInput
      <3> QED BY <3>1, WhereNothing
    <2>4. new.from[db] = L
      BY <1>6, <1>9 DEF FromExprForRel, RangeTblRef
    <2>5. new.rows[db] = P
      <3>1. new.rows[db] = Where({}, P)  BY <1>4, <1>6, <2>2, <2>3 DEF PgRows
      <3> QED BY <3>1, WhereNothing
    <2>6. \A l : l \in L => l \in Fo /\ RowOver(A, l)  BY <2>1, InSemi DEF RowsOver
    <2>7. \A l : l \in P => RowOver(A, l)  BY <2>1, InSemi, InWhere DEF RowsOver
    <2>8. \A l : l \in L /\ Holds(kept, l) <=> l \in P
      <3> SUFFICES ASSUME NEW l PROVE l \in L /\ Holds(kept, l) <=> l \in P
        OBVIOUS
      <3>1. Split(o, moved, kept)  BY <1>10 DEF Split
      <3>2. Gathered(clauses, on, i, moved)  BY <1>10 DEF Gathered
      <3> HIDE DEF moved, kept, clauses, Fo, Fi, o, i, A, B
      <3> QED BY <1>3, <1>4, <2>1, <3>1, <3>2, SemiSame
    <2> HIDE DEF P
    <2>9. PICK f \in [L -> m] :
             /\ result = Where(kept, {f[l] : l \in L})
             /\ \A l \in L : \A t \in DOMAIN l : f[l][t] = l[t]
      <3> DEFINE F == new.from[db]
                 M == Matches(F, RangeTblRef(new.inner, new.fdw_private.make_innerrel_subquery)[db],
                              new.fdw_private.joinclauses)
      <3>1. \E f \in [F -> M] :
               /\ result = Where(new.fdw_private.remote_conds, {f[l] : l \in F})
               /\ \A l \in F : f[l] \in {row \in M : \A t \in DOMAIN l : row[t] = l[t]}
        BY <1>6 DEF ChResults
      <3>2. F = L /\ M = m /\ new.fdw_private.remote_conds = kept  BY <1>6, <2>4
      <3> HIDE DEF F, M, L, m, kept
      <3> QED BY <3>1, <3>2
    <2> HIDE DEF L
    <2> HIDE DEF m, kept
    <2>10. \A l \in L : /\ [t \in A |-> f[l][t]] = l
                        /\ Holds(kept, f[l]) <=> Holds(kept, l)
      <3> SUFFICES ASSUME NEW l \in L
                   PROVE  /\ [t \in A |-> f[l][t]] = l
                          /\ Holds(kept, f[l]) <=> Holds(kept, l)
        OBVIOUS
      <3>1. RowOver(A, l)  BY <2>6
      <3>2. \A t \in A : f[l][t] = l[t]  BY <2>9, <3>1 DEF RowOver
      <3>3. [t \in A |-> f[l][t]] = l  BY <3>1, <3>2 DEF RowOver
      <3>4. Holds(kept, f[l]) <=> Holds(kept, l)  BY <1>11, <3>2, HoldsOnPart
      <3> QED BY <3>3, <3>4
    <2>11. \A row : row \in result <=> \E l \in L : row = f[l] /\ Holds(kept, l)
      BY <2>9, <2>10, InWhere
    <2>12. \A row : row \in Shown(A, result) <=> \E l \in L : row = l /\ Holds(kept, l)
      BY <2>10, <2>11 DEF Shown
    <2>13. Shown(A, result) = P  BY <2>8, <2>12
    <2>14. Shown(A, P) = P  BY <2>7, ShownSame DEF RowsOver
    <2>15. Where({}, result) = result  BY WhereNothing
    <2> QED BY <2>5, <2>13, <2>14, <2>15
  <1>13. JoinSame(new)
    BY <1>6, <1>9, <1>12 DEF JoinSame, Delivered, SemiOrAnti
  <1>14. new.relids \subseteq shape.tables  BY <1>6 DEF SoundRel
  <1>15. IsJoinRel(new) /\ new.jointype \in SemiOrAnti  BY <1>6 DEF IsJoinRel, SemiOrAnti
  <1>16. SoundRel(new)  BY <1>13, <1>14, <1>15 DEF SoundRel
  <1> QED BY <1>16 DEF new, info

(* So it does for every kind of join.                                      *)
LEMMA PushedSound ==
  ASSUME NEW jt \in JoinTypes, NEW outer, NEW inner,
         SoundRel(outer), SoundRel(inner), NEW on, NEW where, NEW target, NEW placeholder,
         Offered(jt, outer, inner, on, where),
         ForeignJoinOk(jt, outer, inner, on, where, target, placeholder)
  PROVE  SoundRel(PushedRel(jt, outer, inner, on, where,
            JoinInfo(jt, outer.fdw_private.remote_conds, inner.fdw_private.remote_conds, on, where)))
  <1>1. CASE jt \in {"INNER", "LEFT", "RIGHT", "FULL"}  BY <1>1, PlainSound
  <1>2. CASE jt = "ANTI"  BY <1>2, AntiSound
  <1>3. CASE jt = "SEMI"  BY <1>3, SemiSound
  <1> QED BY <1>1, <1>2, <1>3 DEF JoinTypes

(* What is known of a relation does not change while its query is planned. *)
LEMMA SoundKept ==
  ASSUME NEW r, SoundRel(r), UNCHANGED shape
  PROVE  SoundRel(r)'
  <1>1. Databases' = Databases  BY DEF Databases
  <1>2. SelectStmtForRel(r)' = SelectStmtForRel(r)  BY <1>1 DEF SelectStmtForRel
  <1>3. SelectStmtForRel(r.inner)' = SelectStmtForRel(r.inner)  BY <1>1 DEF SelectStmtForRel
  <1>4. ASSUME NEW db PROVE ChResults(r, db)' = ChResults(r, db)
    BY <1>2, <1>3 DEF ChResults, RangeTblRef
  <1>5. SoundInput(r)' <=> SoundInput(r)  BY <1>1 DEF SoundInput
  <1>6. JoinSame(r)' <=> JoinSame(r)  BY <1>1, <1>4 DEF JoinSame
  <1> QED BY <1>5, <1>6 DEF SoundRel

(* clickhouseGetForeignJoinPaths adds a relation that is sound and leaves  *)
(* the others alone.                                                       *)
LEMMA JoinStep ==
  ASSUME JoinConstants, ~SemiNonKey, ~AntiOuterEq, JoinInv, NEW jt \in JoinTypes, Join(jt)
  PROVE  JoinInv'
  <1>0. PICK outer \in rels, inner \in rels :
        \E x \in outer.relids, y \in inner.relids, on \in shape.on, up \in shape.where \union {{}},
           target \in Targets(jt, outer, inner), placeholder \in BOOLEAN :
          /\ outer.relids \union inner.relids \in shape.joins
          /\ Allowed(jt, outer, Conds(on, x, y))
          /\ jt \notin {"LEFT", "RIGHT", "FULL"} => up = {}
          /\ GetForeignJoinPaths(jt, outer, inner, Conds(on, x, y), ConditionsAbove(jt, up, x, y),
                                 target, placeholder)
    BY Zenon DEF Join
  <1>1. PICK x \in outer.relids, y \in inner.relids, on \in shape.on, up \in shape.where \union {{}},
             target \in Targets(jt, outer, inner), placeholder \in BOOLEAN :
          /\ outer.relids \union inner.relids \in shape.joins
          /\ Allowed(jt, outer, Conds(on, x, y))
          /\ jt \notin {"LEFT", "RIGHT", "FULL"} => up = {}
          /\ GetForeignJoinPaths(jt, outer, inner, Conds(on, x, y), ConditionsAbove(jt, up, x, y),
                                 target, placeholder)
    BY <1>0, Zenon
  <1> DEFINE C == Conds(on, x, y)    W == ConditionsAbove(jt, up, x, y)
             info == JoinInfo(jt, outer.fdw_private.remote_conds, inner.fdw_private.remote_conds, C, W)
             new == IF ForeignJoinOk(jt, outer, inner, C, W, target, placeholder)
                    THEN PushedRel(jt, outer, inner, C, W, info)
                    ELSE LocalRel(jt, outer, inner)
  <1>2. SoundRel(outer) /\ SoundRel(inner) /\ shape \in Shapes  BY DEF JoinInv
  <1>3. x \in shape.tables /\ y \in shape.tables   BY <1>2 DEF SoundRel
  <1>4. /\ CondsOver(outer.relids \cup inner.relids, C)
        /\ CondsOver(outer.relids \cup inner.relids, W)
    BY <1>2, <1>3, CondsSides DEF ConditionsAbove
  <1>5. jt \notin {"LEFT", "RIGHT", "FULL"} => W = {}  BY <1>1 DEF Conds, ConditionsAbove
  <1>6. /\ Disjoint(outer.relids, inner.relids) /\ rels' = rels \cup {new} /\ UNCHANGED shape
    BY <1>1 DEF GetForeignJoinPaths, Disjoint
  <1>7. Offered(jt, outer, inner, C, W)
    BY <1>1, <1>4, <1>5, <1>6 DEF Offered, Allowed
  <1> HIDE DEF C, W
  <1>8. SoundRel(new)
    <2>1. CASE ForeignJoinOk(jt, outer, inner, C, W, target, placeholder)
      <3>1. SoundRel(PushedRel(jt, outer, inner, C, W, info))
        BY <1>2, <1>7, <2>1, PushedSound
      <3> QED BY <2>1, <3>1
    <2>2. CASE ~ForeignJoinOk(jt, outer, inner, C, W, target, placeholder)
      <3>1. SoundRel(LocalRel(jt, outer, inner))  BY <1>2, LocalSound
      <3> QED BY <2>2, <3>1
    <2> QED BY <2>1, <2>2
  <1> HIDE DEF new
  <1>9. ASSUME NEW r \in rels' PROVE SoundRel(r)'
    <2>1. SoundRel(r)  BY <1>6, <1>8 DEF JoinInv
    <2> QED BY <1>6, <2>1, SoundKept
  <1>10. shape' \in Shapes  BY <1>2, <1>6
  <1> QED BY <1>9, <1>10 DEF JoinInv

(* Every relation the planner builds is sound: a pushed relation that may  *)
(* be joined further has the rows of its join once its remote and local    *)
(* conditions are checked, which are over its tables, and any pushed join  *)
(* delivers the rows of the join.  The second alone is not inductive: a    *)
(* join above needs to know which tables the conditions of its inputs      *)
(* name.                                                                   *)
THEOREM JoinInvariant ==
  ASSUME JoinConstants, ~SemiNonKey, ~AntiOuterEq
  PROVE  JoinSpec => []JoinInv
  <1>1. JoinInit => JoinInv
    <2> SUFFICES ASSUME JoinInit PROVE JoinInv
      OBVIOUS
    <2>1. PICK kind \in [shape.tables -> shape.table] :
             rels = {BaseRel(t, Conds(kind[t], t, t)) : t \in shape.tables}
      BY DEF JoinInit
    <2>2. shape \in Shapes  BY DEF JoinInit
    <2>3. ASSUME NEW r \in rels PROVE SoundRel(r)
      <3>1. PICK t \in shape.tables : r = BaseRel(t, Conds(kind[t], t, t))  BY <2>1
      <3> QED BY <2>2, <3>1, BaseSound
    <2> QED BY <2>2, <2>3 DEF JoinInv
  <1>2. JoinInv /\ [JoinNext]_joinVars => JoinInv'
    <2> SUFFICES ASSUME JoinInv, [JoinNext]_joinVars PROVE JoinInv'
      OBVIOUS
    <2>1. CASE UNCHANGED joinVars
      <3>1. rels' = rels /\ shape' = shape  BY <2>1 DEF joinVars
      <3> QED BY <3>1, SoundKept DEF JoinInv
    <2>2. ASSUME NEW jt \in shape.jointypes, Join(jt) PROVE JoinInv'
      <3>1. jt \in JoinTypes  BY DEF JoinInv, JoinConstants, Shape, JoinTypes
      <3> QED BY <2>2, <3>1, JoinStep
    <2> QED BY <2>1, <2>2 DEF JoinNext
  <1> QED BY <1>1, <1>2, PTL DEF JoinSpec

(* A join that foreign_join_ok pushes down yields exactly the rows of the  *)
(* join, for any tables, any number of joins and any contents, but for     *)
(* SEMI joins with conditions other than equal keys and ANTI joins over an *)
(* outer table that compares its own columns (JoinSemiClause.cfg and       *)
(* JoinAntiFilter.cfg show that these two do not).                         *)
THEOREM JoinsKeepRows ==
  ASSUME JoinConstants, ~SemiNonKey, ~AntiOuterEq
  PROVE  JoinSpec => []JoinRowsSame
  <1>1. JoinInv => JoinRowsSame
    BY DEF JoinInv, SoundRel, JoinSame, JoinRowsSame, Pushed
  <1> QED BY <1>1, JoinInvariant, PTL

-----------------------------------------------------------------------------
(***************************************************************************)
(* Window frames (deparse.c, deparseWindowFunc)                            *)
(***************************************************************************)

(* The window clause stays one that the parser lets through.               *)
WindowInv == wc \in [fn : {"rank", "last_value"}, desc : BOOLEAN, nullsFirst : BOOLEAN, frame : Frames]

(* The window clause is one the parser lets through, and no row changes    *)
(* it.                                                                     *)
THEOREM WindowInvariant ==
  WindowSpec => []WindowInv
  <1>1. WindowInit => WindowInv  BY DEF WindowInit, WindowInv
  <1>2. WindowInv /\ [WindowNext]_windowVars => WindowInv'
    BY DEF WindowInv, WindowNext, AddRow, windowVars, Frames, Starts, Ends, Distances, Bound
  <1> QED BY <1>1, <1>2, PTL DEF WindowSpec

(* The bounds of a frame with no distance are the two the grammar has.     *)
LEMMA BoundKinds ==
  /\ \A b \in Ends : (b.kind = "CR" => b = Bound("CR", 0)) /\ b.kind # "none"
  /\ \A b \in Starts : b.kind = "UP" => b = Bound("UP", 0)
  <1>1. \A b \in Distances : b.kind \in {"OP", "OF"}
    BY DEF Distances, Bound
  <1> QED BY <1>1 DEF Ends, Starts, Bound

(* What deparseWindowFunc leaves out of the OVER clause is what ClickHouse *)
(* takes for granted.                                                      *)
LEMMA EmittedSame ==
  ASSUME "current row" \notin Excludes, WindowInv, NEW i
  PROVE  ChFrame(Emitted(wc), i) =
                IF wc.fn \in Ranking
                THEN FrameOf("RANGE", Bound("UP", 0), Bound("CR", 0), wc.desc, wc.nullsFirst, i)
                ELSE PgFrame(wc, i)
  <1> DEFINE f == wc.frame
             e == EmittedFrame(wc)
             deflt == FrameOf("RANGE", Bound("UP", 0), Bound("CR", 0), wc.desc, wc.nullsFirst, i)
  <1>1. f \in Frames /\ wc.desc \in BOOLEAN /\ wc.nullsFirst \in BOOLEAN  BY DEF WindowInv
  <1>2. /\ Emitted(wc).frame = e
        /\ Emitted(wc).order.desc = wc.desc
        /\ (Emitted(wc).order.nulls = "FIRST") = wc.nullsFirst
    BY <1>1 DEF Emitted, EmittedOrder
  <1>3. f.exclude # "current row"  BY <1>1 DEF Frames
  <1>4. PgFrame(wc, i) = FrameOf(f.mode, f.start, f.end, wc.desc, wc.nullsFirst, i)
    BY <1>3 DEF PgFrame
  <1>5. ~f.between => f.end = Bound("CR", 0)
    BY <1>1, BoundKinds DEF Frames
  <1>6. CASE wc.fn \in Ranking \/ ~f.nondefault \/ IsDefault(f)
    <2>1. e.mode = "none"  BY <1>6 DEF EmittedFrame
    <2>2. ChFrame(Emitted(wc), i) = deflt
      BY <1>2, <2>1 DEF ChFrame, Bound
    <2>3. ~f.nondefault => f.mode = "RANGE" /\ f.start = Bound("UP", 0) /\ f.end = Bound("CR", 0)
      <3>1. f.start \in Starts /\ f.end \in Ends  BY <1>1 DEF Frames
      <3>2. ~f.nondefault => f.mode = "RANGE" /\ f.start.kind = "UP" /\ f.end.kind = "CR"
        BY <1>1 DEF Frames
      <3> QED BY <3>1, <3>2, BoundKinds
    <2>4. IsDefault(f) => f.mode = "RANGE" /\ f.start = Bound("UP", 0) /\ f.end = Bound("CR", 0)
      <3> DEFINE r == [nondefault |-> TRUE, mode |-> "RANGE", between |-> FALSE,
                       start |-> Bound("UP", 0), end |-> Bound("CR", 0), exclude |-> "none"]
      <3>1. r.mode = "RANGE" /\ r.start = Bound("UP", 0) /\ r.end = Bound("CR", 0)  OBVIOUS
      <3>2. IsDefault(f) => f = r  BY DEF IsDefault
      <3> HIDE DEF r, f
      <3> QED BY <3>1, <3>2
    <2>5. wc.fn \notin Ranking => PgFrame(wc, i) = deflt
      BY <1>4, <1>6, <2>3, <2>4
    <2> QED BY <2>2, <2>5
  <1>7. CASE ~(wc.fn \in Ranking \/ ~f.nondefault \/ IsDefault(f))
    <2>1. /\ e.mode = f.mode /\ e.start = f.start
          /\ e.end = IF f.between THEN f.end ELSE Bound("none", 0)
      BY <1>7 DEF EmittedFrame
    <2>2. f.mode # "none" /\ f.end.kind # "none"
      <3>1. f.mode \in {"ROWS", "RANGE"} /\ f.end \in Ends  BY <1>1 DEF Frames
      <3> QED BY <3>1, BoundKinds
    <2>3. (IF e.end.kind = "none" THEN Bound("CR", 0) ELSE e.end) = f.end
      <3>1. CASE f.between  BY <3>1, <2>1, <2>2
      <3>2. CASE ~f.between  
        <4>1. Bound("none", 0).kind = "none"  BY DEF Bound
        <4>2. e.end = Bound("none", 0) /\ f.end = Bound("CR", 0)  BY <3>2, <1>5, <2>1
        <4> QED BY <4>1, <4>2
      <3> QED BY <3>1, <3>2
    <2>4. ChFrame(Emitted(wc), i) = FrameOf(f.mode, f.start, f.end, wc.desc, wc.nullsFirst, i)
      BY <1>2, <2>1, <2>2, <2>3 DEF ChFrame
    <2> QED BY <1>4, <1>7, <2>4
  <1> QED BY <1>6, <1>7

(* The frame of every row is PostgreSQL's, for any partition, of any size  *)
(* and with any keys, and any frame without EXCLUDE CURRENT ROW            *)
(* (WindowExclude.cfg shows that such a clause is sent without it).        *)
THEOREM WindowsKeepFrames ==
  ASSUME "current row" \notin Excludes
  PROVE  WindowSpec => []FrameSame
  <1>1. WindowInv => FrameSame  BY EmittedSame DEF FrameSame
  <1> QED BY <1>1, WindowInvariant, PTL

-----------------------------------------------------------------------------
(***************************************************************************)
(* The steps above a scan (fdw.c, clickhouseGetForeignUpperPaths)          *)
(***************************************************************************)

(* The relations of the steps                                              *)
UpperRels == {"base", "group", "window", "distinct", "ordered", "final"}

(* what each relation that is safe holds                                   *)
RelOk(q, r) ==
    /\ r["base"].safe => r["base"] = BaseRelInfo(q)
    /\ r["group"].safe \/ r["window"].safe => r["base"].safe
    /\ r["group"].safe => r["group"] = GroupingInfo(q, "base") /\ "local" \notin q.where
                          /\ q.group # "none"
    /\ r["window"].safe => /\ r["window"] = SafeOver("base")
                           /\ "local" \notin q.where /\ q.group = "none" /\ q.win # "none"
    /\ ~r["distinct"].safe

(* a sort that ClickHouse does over relation u is the query's              *)
SortOk(q, r, u) ==
    /\ u \in {"base", "group", "window"} /\ r[u].safe
    /\ q.sort # "none"
    /\ u = "base" => UsefulPathkeys(q)
    /\ u # "base" => q.extra = "none"
    /\ u = "group" => q.win = "none"

(* a limit that ClickHouse applies over relation u is over the whole query *)
LimitOk(q, r, u, sort) ==
    /\ u \in {"base", "group", "window"} /\ r[u].safe
    /\ r[u].local = {}
    /\ q.limit # "none" /\ q.extra = "none"
    /\ u = "base" => q.group = "none" /\ q.win = "none"
    /\ u = "group" => q.win = "none"
    /\ q.sort # "none" => sort

(* What a path takes over, by its relation, sort and limit                 *)
PathOk(q, r, p) ==
    /\ p = Path(p.rel, p.sort, p.limit) /\ p.sort \in BOOLEAN /\ p.limit \in BOOLEAN
    /\ p.rel \in {"base", "group", "window"} /\ r[p.rel].safe
    /\ p.sort => SortOk(q, r, p.rel)
    /\ p.limit => LimitOk(q, r, p.rel, p.sort)

(* The relation of a sort that was taken over                              *)
OrderedRelOk(q, r) ==
    r["ordered"].safe => SortOk(q, r, r["ordered"].outer) /\ q.extra = "none"

(* the current relation is that of the last step taken                     *)
CurrentOk(q, td, c) ==
    "base" \notin td =>
        /\ c \in UpperRels
        /\ \A st \in {"group", "window", "distinct", "ordered", "final"} :
              c \in Earlier[st] => st \in td \/ st \notin Steps(q)
        /\ c \in Steps(q) /\ c \notin td

(* steps are taken in their order                                          *)
OrderOk(q, td) == \A a \in td, b \in Steps(q) : a \in Earlier[b] => b \in td

(* The inductive invariant of the steps above a scan                       *)
UpperInv ==
    /\ query \in Queries /\ todo \subseteq Steps(query) /\ OrderOk(query, todo)
    /\ rel \in [UpperRels -> {rel[r] : r \in UpperRels}]
    /\ \A st \in todo \cap UpperRels : rel[st] = NoInfo
    /\ CurrentOk(query, todo, current)
    /\ RelOk(query, rel) /\ OrderedRelOk(query, rel)
    /\ \A p \in paths : PathOk(query, rel, p)

(* A relation that was not found safe has no pushdown_safe.                *)
LEMMA NoInfoUnsafe ==
  NoInfo.safe = FALSE /\ NoInfo.set = FALSE /\ [NoInfo EXCEPT !.set = TRUE, !.outer = current].safe = FALSE
  BY DEF NoInfo

(* The fields of the fdw_private of a step that only goes on top,          *)
LEMMA SafeOverFields ==
  \A u : SafeOver(u).safe = TRUE /\ SafeOver(u).outer = u /\ SafeOver(u).local = {}
  BY DEF SafeOver, NoInfo

(* of a grouping (foreign_grouping_ok)                                     *)
LEMMA GroupingFields ==
  \A q : LET g == GroupingInfo(q, "base") IN
     /\ g.safe = TRUE /\ g.outer = "base" /\ g.remote = {q.having} \cap {"remote"}
     /\ g.local = {q.having} \cap {"local"} /\ g.tlist = GroupedTlist(q)
  BY DEF GroupingInfo, NoInfo

(* and of a scan (clickhouseGetForeignRelSize).                            *)
LEMMA BaseFields ==
  \A q : LET b == BaseRelInfo(q) IN
     /\ b.safe = TRUE /\ b.qp = UsefulPathkeys(q)
     /\ b.remote = q.where \cap {"remote"} /\ b.local = q.where \cap {"local"}
  BY DEF BaseRelInfo, NoInfo

(* A path is as good as the sort and the limit that go into it.            *)
LEMMA NewPathOk ==
  ASSUME NEW q, NEW r, NEW u \in {"base", "group", "window"}, r[u].safe,
         NEW sort \in BOOLEAN, sort => SortOk(q, r, u),
         NEW limit \in BOOLEAN, limit => LimitOk(q, r, u, sort)
  PROVE  PathOk(q, r, Path(u, sort, limit))
  <1> DEFINE p == Path(u, sort, limit)
  <1>1. p.rel = u /\ p.sort = sort /\ p.limit = limit  BY DEF Path
  <1>2. p = Path(p.rel, p.sort, p.limit)  BY <1>1
  <1> HIDE DEF p
  <1>3. PathOk(q, r, p)  BY <1>1, <1>2 DEF PathOk
  <1> QED BY <1>3 DEF p

(* A step leaves alone what is recorded of the relations that are safe.    *)
LEMMA KeptOk ==
  ASSUME NEW q, NEW r, NEW s, RelOk(q, r), OrderedRelOk(q, r), NEW p, PathOk(q, r, p),
         \A u \in UpperRels : r[u].safe => s[u] = r[u]
  PROVE  PathOk(q, s, p)
  BY DEF PathOk, SortOk, LimitOk, UpperRels

(* What an upper step comes to: it enters info for its relation if the     *)
(* relation below is safe, or an entry that is not safe.                   *)
LEMMA UpperPathsOutcome ==
  ASSUME UpperInv, NEW st \in {"group", "window", "ordered", "final"}, NEW ok \in BOOLEAN, NEW info, NEW new,
         UpperPaths(st, ok, info, new)
  PROVE  /\ rel \in [UpperRels -> {rel[r] : r \in UpperRels}]
         /\ \A u \in UpperRels : u # st => rel'[u] = rel[u]
         /\ rel' \in [UpperRels -> {rel'[r] : r \in UpperRels}]
         /\ rel[st] = NoInfo /\ st \in todo /\ Earlier[st] \cap todo = {}
         /\ current \in UpperRels /\ "base" \notin todo
         /\ \/ rel'[st].safe = FALSE /\ paths' = paths
            \/ rel[current].safe /\ ok /\ rel'[st] = info /\ paths' = paths \cup new
         /\ current' = st /\ todo' = todo \ {st} /\ query' = query
  <1> USE DEF UpperRels
  <1>1. rel \in [UpperRels -> {rel[r] : r \in UpperRels}]  BY DEF UpperInv
  <1>2. st \in todo /\ Earlier[st] \cap todo = {}  BY DEF UpperPaths, IsNext
  <1>3. rel[st] = NoInfo  BY <1>2 DEF UpperInv
  <1>4. "base" \in Earlier[st]  BY DEF Earlier
  <1>5. "base" \notin todo  BY <1>2, <1>4
  <1>6. current \in UpperRels  BY <1>5 DEF UpperInv, CurrentOk
  <1>7. current' = st /\ todo' = todo \ {st} /\ query' = query  BY DEF UpperPaths
  <1>8. PICK new2 : rel' = [rel EXCEPT ![st] = new2]  BY DEF UpperPaths
  <1>9. DOMAIN rel = UpperRels  BY <1>1
  <1>10. \A u \in UpperRels : u # st => rel'[u] = rel[u]  BY <1>8, <1>9
  <1>11. rel' \in [UpperRels -> {rel'[r] : r \in UpperRels}]  BY <1>8, <1>9
  <1>12. CASE rel[current].safe /\ ok
    <2>1. ~rel[st].set  BY <1>3, NoInfoUnsafe
    <2>2. rel' = [rel EXCEPT ![st] = info] /\ paths' = paths \cup new
      BY <1>12, <2>1 DEF UpperPaths
    <2>3. rel'[st] = info  BY <2>2, <1>9
    <2> QED BY <1>12, <2>2, <2>3, <1>1, <1>2, <1>3, <1>5, <1>6, <1>7, <1>10, <1>11
  <1>13. CASE ~(rel[current].safe /\ ok)
    <2>1. paths' = paths  BY <1>13 DEF UpperPaths
    <2>2. \/ rel' = [rel EXCEPT ![st] = rel[st]]
          \/ rel' = [rel EXCEPT ![st] = [NoInfo EXCEPT !.set = TRUE, !.outer = current]]
      BY <1>13 DEF UpperPaths
    <2>3. rel'[st] \in {rel[st], [NoInfo EXCEPT !.set = TRUE, !.outer = current]}
      BY <2>2, <1>9
    <2>4. rel'[st].safe = FALSE  BY <2>3, <1>3, NoInfoUnsafe
    <2> QED BY <2>1, <2>4, <1>1, <1>2, <1>3, <1>5, <1>6, <1>7, <1>10, <1>11
  <1> QED BY <1>12, <1>13

(* The part of the invariant that every upper step keeps in the same way   *)
LEMMA StepParts ==
  ASSUME UpperInv, NEW st \in {"group", "window", "ordered", "final"}, NEW ok \in BOOLEAN, NEW info, NEW new,
         UpperPaths(st, ok, info, new)
  PROVE  /\ query' \in Queries /\ todo' \subseteq Steps(query') /\ OrderOk(query', todo')
         /\ \A s \in todo' \cap UpperRels : rel'[s] = NoInfo
         /\ CurrentOk(query', todo', current')
         /\ \A u \in UpperRels : rel[u].safe => rel'[u] = rel[u]
  <1>1. /\ \A u \in UpperRels : u # st => rel'[u] = rel[u]
        /\ rel[st] = NoInfo /\ st \in todo /\ Earlier[st] \cap todo = {}
        /\ current' = st /\ todo' = todo \ {st} /\ query' = query
    BY UpperPathsOutcome
  <1>2. query \in Queries /\ todo \subseteq Steps(query) /\ OrderOk(query, todo)
    BY DEF UpperInv
  <1>3. query' \in Queries /\ todo' \subseteq Steps(query')  BY <1>1, <1>2
  <1>4. OrderOk(query', todo')  BY <1>1, <1>2 DEF OrderOk
  <1>5. \A s \in todo' \cap UpperRels : rel'[s] = NoInfo  BY <1>1 DEF UpperInv
  <1>6. \A s \in {"group", "window", "distinct", "ordered", "final"} :
           st \in Earlier[s] => s # st
    BY DEF Earlier
  <1>7. CurrentOk(query', todo', current')
    BY <1>1, <1>2, <1>6 DEF CurrentOk, OrderOk, UpperRels
  <1>8. \A u \in UpperRels : rel[u].safe => rel'[u] = rel[u]
    BY <1>1, NoInfoUnsafe
  <1> QED BY <1>3, <1>4, <1>5, <1>7, <1>8

(* Before the step st, the current relation is of none of the steps that   *)
(* come after a step of the query.                                         *)
LEMMA CurrentBelow ==
  ASSUME UpperInv, NEW st \in {"group", "window", "ordered", "final"},
         "base" \notin todo, Earlier[st] \cap todo = {}, NEW s \in Earlier[st] \ {"base", "srf"},
         current \in Earlier[s]
  PROVE  s \notin Steps(query)
  <1>1. s \in {"group", "window", "distinct", "ordered", "final"}  BY DEF Earlier
  <1>2. s \notin todo  OBVIOUS
  <1> QED BY <1>1, <1>2 DEF UpperInv, CurrentOk

(* The invariant after a step that is not taken by ClickHouse              *)
LEMMA UnsafeStep ==
  ASSUME UpperInv, NEW st \in {"group", "window", "ordered", "final"}, NEW ok \in BOOLEAN, NEW info, NEW new,
         UpperPaths(st, ok, info, new), rel'[st].safe = FALSE, paths' = paths
  PROVE  UpperInv'
  <1>1. /\ \A u \in UpperRels : u # st => rel'[u] = rel[u]
        /\ rel' \in [UpperRels -> {rel'[r] : r \in UpperRels}]
        /\ query' = query
    BY UpperPathsOutcome
  <1>2. /\ query' \in Queries /\ todo' \subseteq Steps(query') /\ OrderOk(query', todo')
        /\ \A s \in todo' \cap UpperRels : rel'[s] = NoInfo
        /\ CurrentOk(query', todo', current')
        /\ \A u \in UpperRels : rel[u].safe => rel'[u] = rel[u]
    BY StepParts
  <1>3. RelOk(query, rel) /\ OrderedRelOk(query, rel) /\ \A p \in paths : PathOk(query, rel, p)
    BY DEF UpperInv
  <1>4. RelOk(query', rel')  BY <1>1, <1>3 DEF RelOk, UpperRels
  <1>5. OrderedRelOk(query', rel')
    BY <1>1, <1>2, <1>3 DEF OrderedRelOk, SortOk, UpperRels
  <1>6. \A p \in paths' : PathOk(query', rel', p)
    <2>1. \A p \in paths : PathOk(query, rel', p)  BY <1>2, <1>3, KeptOk
    <2> QED BY <1>1, <2>1
  <1> QED BY <1>1, <1>2, <1>4, <1>5, <1>6 DEF UpperInv

(* The invariant after a step that is, from what it enters                 *)
LEMMA SafeStep ==
  ASSUME UpperInv, NEW st \in {"group", "window", "ordered", "final"}, NEW ok \in BOOLEAN, NEW info, NEW new,
         UpperPaths(st, ok, info, new), paths' = paths \cup new,
         RelOk(query, rel'), OrderedRelOk(query, rel'), \A p \in new : PathOk(query, rel', p)
  PROVE  UpperInv'
  <1>1. /\ rel' \in [UpperRels -> {rel'[r] : r \in UpperRels}]
        /\ query' = query
    BY UpperPathsOutcome
  <1>2. /\ query' \in Queries /\ todo' \subseteq Steps(query') /\ OrderOk(query', todo')
        /\ \A s \in todo' \cap UpperRels : rel'[s] = NoInfo
        /\ CurrentOk(query', todo', current')
        /\ \A u \in UpperRels : rel[u].safe => rel'[u] = rel[u]
    BY StepParts
  <1>3. RelOk(query, rel) /\ OrderedRelOk(query, rel) /\ \A p \in paths : PathOk(query, rel, p)
    BY DEF UpperInv
  <1>4. \A p \in paths : PathOk(query, rel', p)  BY <1>2, <1>3, KeptOk
  <1> QED BY <1>1, <1>2, <1>4 DEF UpperInv

(* The current relation is of a step that comes before the next one.       *)
LEMMA CurrentEarlier ==
  ASSUME UpperInv, NEW st \in {"group", "window", "ordered", "final"},
         "base" \notin todo, st \in todo
  PROVE  current \in Earlier[st]
  <1>1. current \in UpperRels /\ current \in Steps(query) /\ current \notin todo
    BY DEF UpperInv, CurrentOk
  <1>2. st \notin Earlier[current]  BY <1>1 DEF UpperInv, OrderOk
  <1> QED BY <1>1, <1>2 DEF UpperRels, Earlier

(* The steps of a query are those of its clauses.                          *)
LEMMA StepsOf ==
  ASSUME NEW q \in Queries
  PROVE  /\ "group" \in Steps(q) <=> q.group # "none"
         /\ "window" \in Steps(q) <=> q.win # "none"
         /\ "srf" \in Steps(q) <=> q.extra = "srf"
         /\ "distinct" \in Steps(q) <=> q.extra = "distinct"
         /\ "ordered" \in Steps(q) <=> q.sort # "none"
         /\ q.extra \in {"none", "srf", "distinct"}
         /\ "base" \in Steps(q) /\ "final" \in Steps(q)
  BY DEF Steps, Queries

(* add_foreign_grouping_paths keeps the invariant: a grouping goes over a  *)
(* scan whose conditions are all checked remotely.                         *)
LEMMA GroupStep ==
  ASSUME UpperInv, AddForeignGroupingPaths
  PROVE  UpperInv'
  <1> DEFINE ok == GroupingOk(query, current)    info == GroupingInfo(query, current)
             new == {Path("group", FALSE, FALSE)}
  <1>1. UpperPaths("group", ok, info, new) /\ ok \in BOOLEAN
    BY DEF AddForeignGroupingPaths, GroupingOk
  <1>2. /\ \A u \in UpperRels : u # "group" => rel'[u] = rel[u]
        /\ "group" \in todo /\ Earlier["group"] \cap todo = {} /\ "base" \notin todo
        /\ \/ rel'["group"].safe = FALSE /\ paths' = paths
           \/ rel[current].safe /\ ok /\ rel'["group"] = info /\ paths' = paths \cup new
    BY <1>1, UpperPathsOutcome
  <1>3. CASE rel'["group"].safe = FALSE /\ paths' = paths
    BY <1>1, <1>3, UnsafeStep
  <1>4. CASE rel[current].safe /\ ok /\ rel'["group"] = info /\ paths' = paths \cup new
    <2>1. current = "base"  BY <1>2, CurrentEarlier DEF Earlier
    <2>0. query \in Queries /\ todo \subseteq Steps(query)  BY DEF UpperInv
    <2>2. RelOk(query, rel) /\ OrderedRelOk(query, rel) /\ query.group # "none"
      BY <1>2, <2>0, StepsOf DEF UpperInv
    <2>3. rel["base"] = BaseRelInfo(query)  BY <1>4, <2>1, <2>2 DEF RelOk
    <2>4. rel["base"].local = query.where \cap {"local"}  BY <2>3, BaseFields
    <2>5. "local" \notin query.where  BY <1>4, <2>1, <2>4 DEF GroupingOk
    <2>6. rel'["group"] = GroupingInfo(query, "base")  BY <1>4, <2>1
    <2>7. RelOk(query, rel')  BY <1>2, <1>4, <2>1, <2>2, <2>5, <2>6 DEF RelOk, UpperRels
    <2>8. \A u \in UpperRels : rel[u].safe => rel'[u] = rel[u]  BY <1>1, StepParts
    <2>9. OrderedRelOk(query, rel')
      BY <1>2, <2>2, <2>8 DEF OrderedRelOk, SortOk, UpperRels
    <2>10. rel'["group"].safe = TRUE  BY <2>6, GroupingFields
    <2>11. \A p \in new : PathOk(query, rel', p)  BY <2>10, NewPathOk
    <2> HIDE DEF ok, info, new
    <2> QED BY <1>1, <1>4, <2>7, <2>9, <2>11, SafeStep
  <1> QED BY <1>2, <1>3, <1>4

(* add_foreign_window_paths does: windows go over such a scan too, and not *)
(* over a grouping, whose columns look like parameters there.              *)
LEMMA WindowStep ==
  ASSUME UpperInv, AddForeignWindowPaths, WinTargets \subseteq {"column"}
  PROVE  UpperInv'
  <1> DEFINE ok == WindowOk(query, current)    info == SafeOver(current)
             new == {Path("window", FALSE, FALSE)}
  <1>1. UpperPaths("window", ok, info, new) /\ ok \in BOOLEAN
    BY DEF AddForeignWindowPaths, WindowOk
  <1>2. /\ \A u \in UpperRels : u # "window" => rel'[u] = rel[u]
        /\ "window" \in todo /\ Earlier["window"] \cap todo = {} /\ "base" \notin todo
        /\ \/ rel'["window"].safe = FALSE /\ paths' = paths
           \/ rel[current].safe /\ ok /\ rel'["window"] = info /\ paths' = paths \cup new
    BY <1>1, UpperPathsOutcome
  <1>3. CASE rel'["window"].safe = FALSE /\ paths' = paths
    BY <1>1, <1>3, UnsafeStep
  <1>4. CASE rel[current].safe /\ ok /\ rel'["window"] = info /\ paths' = paths \cup new
    <2>1. current \in {"base", "group"}  BY <1>2, CurrentEarlier DEF Earlier
    <2>2. RelOk(query, rel) /\ OrderedRelOk(query, rel) /\ query \in Queries  BY DEF UpperInv
    <2>3. query.wtarget = "column"  BY <2>2 DEF Queries
    <2>4. current = "base"  BY <1>4, <2>1, <2>3 DEF WindowOk, IsForeignParam
    <2>5. rel["base"] = BaseRelInfo(query)  BY <1>4, <2>4, <2>2 DEF RelOk
    <2>6. rel["base"].local = query.where \cap {"local"}  BY <2>5, BaseFields
    <2>7. "local" \notin query.where  BY <1>4, <2>4, <2>6 DEF WindowOk
    <2>8. "group" \in Earlier["window"] \ {"base", "srf"} /\ current \in Earlier["group"]
      BY <2>4 DEF Earlier
    <2>9. "group" \notin Steps(query)  BY <1>2, <2>8, CurrentBelow
    <2>10. query.group = "none" /\ query.win # "none"
      BY <1>2, <2>2, <2>9, StepsOf DEF UpperInv
    <2>11. rel'["window"] = SafeOver("base")  BY <1>4, <2>4
    <2>12. RelOk(query, rel')  BY <1>2, <1>4, <2>2, <2>4, <2>7, <2>10, <2>11 DEF RelOk, UpperRels
    <2>13. \A u \in UpperRels : rel[u].safe => rel'[u] = rel[u]  BY <1>1, StepParts
    <2>14. OrderedRelOk(query, rel')
      BY <1>2, <2>2, <2>13 DEF OrderedRelOk, SortOk, UpperRels
    <2>15. rel'["window"].safe = TRUE  BY <2>11, SafeOverFields
    <2>16. \A p \in new : PathOk(query, rel', p)  BY <2>15, NewPathOk
    <2> HIDE DEF ok, info, new
    <2> QED BY <1>1, <1>4, <2>12, <2>14, <2>16, SafeStep
  <1> QED BY <1>2, <1>3, <1>4

(* add_foreign_ordered_paths does: nothing but the LIMIT is left above a   *)
(* sort over a grouping or windows.                                        *)
LEMMA OrderedStep ==
  ASSUME UpperInv, AddForeignOrderedPaths
  PROVE  UpperInv'
  <1> DEFINE ok == OrderedOk(query, current)    info == SafeOver(current)
             new == IF current = "base" THEN {} ELSE {Path(current, TRUE, FALSE)}
  <1>1. UpperPaths("ordered", ok, info, new)
    BY DEF AddForeignOrderedPaths
  <1>0. ok \in BOOLEAN
    BY DEF OrderedOk
  <1>2. /\ \A u \in UpperRels : u # "ordered" => rel'[u] = rel[u]
        /\ "ordered" \in todo /\ Earlier["ordered"] \cap todo = {} /\ "base" \notin todo
        /\ \/ rel'["ordered"].safe = FALSE /\ paths' = paths
           \/ rel[current].safe /\ ok /\ rel'["ordered"] = info /\ paths' = paths \cup new
    BY <1>0, <1>1, UpperPathsOutcome
  <1>3. CASE rel'["ordered"].safe = FALSE /\ paths' = paths
    BY <1>0, <1>1, <1>3, UnsafeStep
  <1>4. CASE rel[current].safe /\ ok /\ rel'["ordered"] = info /\ paths' = paths \cup new
    <2>1. RelOk(query, rel) /\ OrderedRelOk(query, rel) /\ query \in Queries
          /\ todo \subseteq Steps(query)
      BY DEF UpperInv
    <2>2. current \in {"base", "group", "window"}
      <3>1. current \in Earlier["ordered"] /\ current \in UpperRels
        BY <1>2, CurrentEarlier DEF UpperInv, CurrentOk
      <3> QED BY <3>1, <1>4, <2>1 DEF Earlier, RelOk, UpperRels
    <2>3. query.sort # "none"  BY <1>2, <2>1, StepsOf
    <2>4. query.extra = "none"
      <3>1. "distinct" \in Earlier["ordered"] \ {"base", "srf"} /\ current \in Earlier["distinct"]
        BY <2>2 DEF Earlier
      <3>2. "distinct" \notin Steps(query)  BY <1>2, <3>1, CurrentBelow
      <3> QED BY <1>4, <2>1, <3>2, StepsOf DEF OrderedOk
    <2>5. current = "group" => query.win = "none"
      <3> HAVE current = "group"
      <3>1. "window" \in Earlier["ordered"] \ {"base", "srf"} /\ current \in Earlier["window"]
        BY DEF Earlier
      <3>2. "window" \notin Steps(query)  BY <1>2, <3>1, CurrentBelow
      <3> QED BY <2>1, <3>2, StepsOf
    <2>6. current = "base" => UsefulPathkeys(query)
      <3> HAVE current = "base"
      <3>1. rel["base"] = BaseRelInfo(query)  BY <1>4, <2>1 DEF RelOk
      <3>2. rel["base"].qp = UsefulPathkeys(query)  BY <3>1, BaseFields
      <3>3. rel["base"].qp  BY <1>4 DEF OrderedOk
      <3> QED BY <3>2, <3>3
    <2>7. rel'[current] = rel[current]  BY <1>2, <2>2 DEF UpperRels
    <2>8. SortOk(query, rel', current)
      BY <1>4, <2>2, <2>3, <2>4, <2>5, <2>6, <2>7 DEF SortOk
    <2>9. rel'["ordered"].outer = current  BY <1>4, SafeOverFields
    <2>10. OrderedRelOk(query, rel')  BY <2>4, <2>8, <2>9 DEF OrderedRelOk
    <2>11. RelOk(query, rel')  BY <1>2, <2>1 DEF RelOk, UpperRels
    <2>12. \A p \in new : PathOk(query, rel', p)
      BY <1>4, <2>2, <2>7, <2>8, NewPathOk
    <2> HIDE DEF ok, info, new
    <2> QED BY <1>0, <1>1, <1>4, <2>10, <2>11, <2>12, SafeStep
  <1> QED BY <1>2, <1>3, <1>4

(* add_foreign_final_paths does: everything else is done and no condition  *)
(* is left to the executor under a LIMIT.                                  *)
LEMMA FinalStep ==
  ASSUME UpperInv, AddForeignFinalPaths
  PROVE  UpperInv'
  <1> DEFINE ok == FinalOk(query, current)    info == SafeOver(current)
             u == Underlying(current)    sort == current = "ordered"
             new == {Path(u, sort, TRUE)}
  <1>1. UpperPaths("final", ok, info, new) /\ ok \in BOOLEAN
    BY DEF AddForeignFinalPaths, FinalOk
  <1>2. /\ \A r \in UpperRels : r # "final" => rel'[r] = rel[r]
        /\ "final" \in todo /\ Earlier["final"] \cap todo = {} /\ "base" \notin todo
        /\ \/ rel'["final"].safe = FALSE /\ paths' = paths
           \/ rel[current].safe /\ ok /\ rel'["final"] = info /\ paths' = paths \cup new
    BY <1>1, UpperPathsOutcome
  <1>3. CASE rel'["final"].safe = FALSE /\ paths' = paths
    BY <1>1, <1>3, UnsafeStep
  <1>4. CASE rel[current].safe /\ ok /\ rel'["final"] = info /\ paths' = paths \cup new
    <2>1. RelOk(query, rel) /\ OrderedRelOk(query, rel) /\ query \in Queries
          /\ todo \subseteq Steps(query)
      BY DEF UpperInv
    <2>2. current \in {"base", "group", "window", "ordered"}
      <3>1. current \in Earlier["final"] /\ current \in UpperRels
        BY <1>2, CurrentEarlier DEF UpperInv, CurrentOk
      <3> QED BY <3>1, <1>4, <2>1 DEF Earlier, RelOk, UpperRels
    <2>3. ASSUME NEW s \in {"group", "window", "distinct", "ordered"}, current \in Earlier[s]
          PROVE  s \notin Steps(query)
      <3>1. s \in Earlier["final"] \ {"base", "srf"}  BY DEF Earlier
      <3> QED BY <1>2, <2>3, <3>1, CurrentBelow
    <2>4. /\ current \in {"base", "group", "window"} => query.sort = "none" /\ query.extra # "distinct"
          /\ current \in {"base", "group"} => query.win = "none"
          /\ current = "base" => query.group = "none"
      <3>1. /\ current \in {"base", "group", "window"} =>
                  current \in Earlier["ordered"] /\ current \in Earlier["distinct"]
            /\ current \in {"base", "group"} => current \in Earlier["window"]
            /\ current = "base" => current \in Earlier["group"]
        BY DEF Earlier
      <3> QED BY <2>1, <2>3, <3>1, StepsOf
    <2>5. /\ rel[u].local = {} /\ query.limit # "none" /\ query.extra # "srf"
      BY <1>4 DEF FinalOk
    <2>6. current = "ordered" => /\ SortOk(query, rel, u) /\ query.extra = "none"
      BY <1>4, <2>1 DEF OrderedRelOk, Underlying
    <2>7. current # "ordered" => u = current  BY DEF Underlying
    <2>8. query.extra \in {"none", "srf", "distinct"}  BY <2>1, StepsOf
    <2> HIDE DEF u
    <2>9. LimitOk(query, rel, u, sort)
      <3>1. CASE current = "ordered"
        BY <3>1, <2>5, <2>6 DEF LimitOk, SortOk, UsefulPathkeys
      <3>2. CASE current # "ordered"
        BY <3>2, <1>4, <2>2, <2>4, <2>5, <2>7, <2>8 DEF LimitOk
      <3> QED BY <3>1, <3>2
    <2>10. u \in {"base", "group", "window"} /\ rel[u].safe  BY <2>9 DEF LimitOk
    <2>11. rel'[u] = rel[u]  BY <1>2, <2>10 DEF UpperRels
    <2>12. LimitOk(query, rel', u, sort) /\ (sort => SortOk(query, rel', u))
      BY <2>6, <2>9, <2>11 DEF LimitOk, SortOk
    <2>13. OrderedRelOk(query, rel')
      BY <1>2, <2>1 DEF OrderedRelOk, SortOk, UpperRels
    <2>14. RelOk(query, rel')  BY <1>2, <2>1 DEF RelOk, UpperRels
    <2>15. \A p \in new : PathOk(query, rel', p)
      BY <2>10, <2>11, <2>12, NewPathOk
    <2> HIDE DEF ok, info, new
    <2> QED BY <1>1, <1>4, <2>13, <2>14, <2>15, SafeStep
  <1> QED BY <1>2, <1>3, <1>4

(* clickhouseGetForeignPaths offers the scan, unsorted or in the query's   *)
(* order.                                                                  *)
LEMMA BaseStep ==
  ASSUME UpperInv, GetForeignPaths
  PROVE  UpperInv'
  <1>1. /\ query \in Queries /\ todo \subseteq Steps(query) /\ OrderOk(query, todo)
        /\ rel \in [UpperRels -> {rel[r] : r \in UpperRels}]
        /\ \A st \in todo \cap UpperRels : rel[st] = NoInfo
        /\ RelOk(query, rel) /\ OrderedRelOk(query, rel)
    BY DEF UpperInv
  <1>2. /\ "base" \in todo
        /\ rel' = [rel EXCEPT !["base"] = BaseRelInfo(query)] /\ paths' = BasePaths(query)
        /\ current' = "base" /\ todo' = todo \ {"base"} /\ query' = query
    BY DEF GetForeignPaths, IsNext
  <1>3. /\ \A u \in UpperRels : u # "base" => rel'[u] = rel[u]
        /\ rel'["base"] = BaseRelInfo(query)
        /\ rel' \in [UpperRels -> {rel'[r] : r \in UpperRels}]
    BY <1>1, <1>2 DEF UpperRels
  <1>4. rel["base"] = NoInfo  BY <1>1, <1>2 DEF UpperRels
  <1>5. \A u \in UpperRels : rel[u].safe => rel'[u] = rel[u]  BY <1>3, <1>4, NoInfoUnsafe
  <1>6. OrderOk(query', todo')
    <2>1. \A a : a \in Earlier["base"] => FALSE  BY DEF Earlier
    <2> QED BY <1>1, <1>2, <2>1 DEF OrderOk
  <1>7. \A st \in todo' \cap UpperRels : rel'[st] = NoInfo  BY <1>1, <1>2, <1>3
  <1>8. CurrentOk(query', todo', current')
    <2>1. \A s \in {"group", "window", "distinct", "ordered", "final"} :
             "base" \in Earlier[s] /\ s # "base"
      BY DEF Earlier
    <2>2. \A s \in {"group", "window", "distinct", "ordered", "final"} :
             s \in Steps(query) => s \in todo
      BY <1>1, <1>2, <2>1 DEF OrderOk
    <2> QED BY <1>1, <1>2, <2>1, <2>2 DEF CurrentOk, UpperRels
  <1>9. RelOk(query', rel')  BY <1>1, <1>2, <1>3 DEF RelOk, UpperRels
  <1>10. OrderedRelOk(query', rel')
    BY <1>1, <1>2, <1>3, <1>5 DEF OrderedRelOk, SortOk, UpperRels
  <1>11. ASSUME NEW p \in paths' PROVE PathOk(query', rel', p)
    <2>1. PICK sort \in {FALSE, UsefulPathkeys(query)} : p = Path("base", sort, FALSE)
      BY <1>2 DEF BasePaths
    <2>2. sort \in BOOLEAN  BY DEF UsefulPathkeys
    <2>3. rel'["base"].safe  BY <1>3, BaseFields
    <2>4. sort => SortOk(query, rel', "base")
      BY <2>3 DEF SortOk, UsefulPathkeys
    <2>5. PathOk(query, rel', Path("base", sort, FALSE))
      BY <2>2, <2>3, <2>4, NewPathOk
    <2> QED BY <1>2, <2>1, <2>5
  <1>12. query' \in Queries /\ todo' \subseteq Steps(query')  BY <1>1, <1>2
  <1> QED BY <1>3, <1>6, <1>7, <1>8, <1>9, <1>10, <1>11, <1>12 DEF UpperInv

(* DISTINCT and set-returning functions stay with the planner: no relation *)
(* and no path is added.                                                   *)
LEMMA SkippedStep ==
  ASSUME UpperInv, OtherStep
  PROVE  UpperInv'
  <1>1. PICK st \in {"srf", "distinct"} :
           /\ st \in todo /\ Earlier[st] \cap todo = {}
           /\ current' = IF st = "srf" THEN current ELSE "distinct"
           /\ todo' = todo \ {st}
           /\ UNCHANGED <<query, rel, paths>>
    BY DEF OtherStep, IsNext
  <1>2. /\ query \in Queries /\ todo \subseteq Steps(query) /\ OrderOk(query, todo)
        /\ \A s \in todo \cap UpperRels : rel[s] = NoInfo
        /\ CurrentOk(query, todo, current)
    BY DEF UpperInv
  <1>3. query' = query /\ rel' = rel /\ paths' = paths  BY <1>1
  <1>4. query' \in Queries /\ todo' \subseteq Steps(query')  BY <1>1, <1>2, <1>3
  <1>5. OrderOk(query', todo')  BY <1>1, <1>2, <1>3 DEF OrderOk
  <1>6. \A s \in todo' \cap UpperRels : rel'[s] = NoInfo  BY <1>1, <1>2, <1>3
  <1>7. CurrentOk(query', todo', current')
    <2>1. CASE st = "srf"  BY <1>1, <1>2, <1>3, <2>1 DEF CurrentOk
    <2>2. CASE st = "distinct"
      <3>1. \A s \in {"group", "window", "distinct", "ordered", "final"} :
               "distinct" \in Earlier[s] => s # "distinct"
        BY DEF Earlier
      <3> QED BY <1>1, <1>2, <1>3, <2>2, <3>1 DEF CurrentOk, OrderOk, UpperRels
    <2> QED BY <2>1, <2>2
  <1> QED BY <1>3, <1>4, <1>5, <1>6, <1>7 DEF UpperInv

(* While the steps above a scan are planned, every relation marked         *)
(* pushdown_safe holds what its step takes over, every sort a path takes   *)
(* over is the query's last, and every limit is applied to the whole of    *)
(* the query.  RowsSame is not inductive without it: whether a path is     *)
(* right depends on what was recorded for the relations below, steps       *)
(* before the path was added.                                              *)
THEOREM UpperInvariant ==
  ASSUME WinTargets \subseteq {"column"}
  PROVE  UpperSpec => []UpperInv
  <1>1. UpperInit => UpperInv
    <2> SUFFICES ASSUME UpperInit PROVE UpperInv
      OBVIOUS
    <2>1. /\ query \in Queries /\ todo = Steps(query) /\ paths = {}
          /\ rel = [r \in UpperRels |-> NoInfo]
      BY DEF UpperInit, UpperRels
    <2>2. \A r \in UpperRels : rel[r] = NoInfo /\ rel[r].safe = FALSE  BY <2>1, NoInfoUnsafe
    <2>3. OrderOk(query, todo)  BY <2>1 DEF OrderOk
    <2>4. CurrentOk(query, todo, current)  BY <2>1, StepsOf DEF CurrentOk
    <2>5. RelOk(query, rel) /\ OrderedRelOk(query, rel)
      BY <2>2 DEF RelOk, OrderedRelOk, UpperRels
    <2>6. rel \in [UpperRels -> {rel[r] : r \in UpperRels}]  BY <2>1
    <2> QED BY <2>1, <2>2, <2>3, <2>4, <2>5, <2>6 DEF UpperInv
  <1>2. UpperInv /\ [UpperNext]_upperVars => UpperInv'
    <2> SUFFICES ASSUME UpperInv, [UpperNext]_upperVars PROVE UpperInv'
      OBVIOUS
    <2>1. CASE UNCHANGED upperVars
      <3>1. /\ query' = query /\ current' = current /\ todo' = todo /\ rel' = rel
            /\ paths' = paths
        BY <2>1 DEF upperVars
      <3> QED BY <3>1 DEF UpperInv
    <2>2. CASE GetForeignPaths  BY <2>2, BaseStep
    <2>3. CASE AddForeignGroupingPaths  BY <2>3, GroupStep
    <2>4. CASE AddForeignWindowPaths  BY <2>4, WindowStep
    <2>5. CASE AddForeignOrderedPaths  BY <2>5, OrderedStep
    <2>6. CASE AddForeignFinalPaths  BY <2>6, FinalStep
    <2>7. CASE OtherStep  BY <2>7, SkippedStep
    <2> QED BY <2>1, <2>2, <2>3, <2>4, <2>5, <2>6, <2>7 DEF UpperNext
  <1> QED BY <1>1, <1>2, PTL DEF UpperSpec

(* The remote conditions of a scan and then its local ones are its         *)
(* conditions.                                                             *)
LEMMA FilterParts ==
  ASSUME NEW c, NEW t
  PROVE  Filter(c \cap {"local"}, Filter(c \cap {"remote"}, t)) = Filter(c, t)
  <1> DEFINE S == {i \in DOMAIN t : Keep(c \cap {"remote"}, t[i])}
             g == [i \in S |-> t[i]]
             T == {i \in S : Keep(c \cap {"local"}, g[i])}
             U == {i \in DOMAIN t : Keep(c, t[i])}
  <1>1. Filter(c \cap {"remote"}, t) = g  BY DEF Filter, Restrict
  <1>2. Filter(c \cap {"local"}, g) = [i \in T |-> g[i]]  BY DEF Filter, Restrict
  <1>3. T = U  BY DEF Keep
  <1>4. Filter(c, t) = [i \in U |-> t[i]]  BY DEF Filter, Restrict
  <1>5. [i \in T |-> g[i]] = [i \in U |-> t[i]]  BY <1>3
  <1> QED BY <1>1, <1>2, <1>4, <1>5

(* Without a local condition the remote ones are all of them.              *)
LEMMA FilterRemote ==
  ASSUME NEW c, NEW t, "local" \notin c
  PROVE  Filter(c \cap {"remote"}, t) = Filter(c, t)
  <1>1. {i \in DOMAIN t : Keep(c \cap {"remote"}, t[i])} = {i \in DOMAIN t : Keep(c, t[i])}
    BY DEF Keep
  <1> QED BY <1>1 DEF Filter

(* No condition drops no row.                                              *)
LEMMA FilterNothing ==
  ASSUME NEW S, NEW f, NEW g, g = [i \in S |-> f[i]]
  PROVE  Filter({}, g) = g
  <1>1. {i \in DOMAIN g : Keep({}, g[i])} = S  BY DEF Keep
  <1> QED BY <1>1 DEF Filter, Restrict

(* HAVING, the aggregates that a local HAVING reads being delivered        *)
LEMMA HavingParts ==
  ASSUME NEW h \in {"none", "remote", "local", "strange"}, NEW q, q.having = h, NEW S, NEW t,
         NEW G, G = Groups(t)
  PROVE  LET C == Columns(GroupedTlist(q), FilterGroups({h} \cap {"remote"}, G))
             Y == WithoutCount(FilterGroups({h}, G))
         IN  /\ WithoutCount(FilterGroups({h} \cap {"local"}, C)) = Y
             /\ h # "local" => /\ DOMAIN C = DOMAIN Y
                               /\ \A k \in DOMAIN C : SortKey(C[k]) = SortKey(Y[k])
                               /\ \A k \in DOMAIN C :
                                     WithoutCount(FilterGroups({}, Restrict(C, {k}))) = Restrict(Y, {k})
  <1> DEFINE C == Columns(GroupedTlist(q), FilterGroups({h} \cap {"remote"}, G))
             Y == WithoutCount(FilterGroups({h}, G))
             K == DOMAIN G
             R == {k \in K : KeepGroup({h} \cap {"remote"}, G[k])}
             H == {k \in K : KeepGroup({h}, G[k])}
             D(k) == IF "count" \in GroupedTlist(q) THEN G[k] ELSE [G[k] EXCEPT !.count = 0]
  <1>1. \A k \in K : G[k] = [k |-> k, v |-> Total(t, k), count |-> Cardinality(OfGroup(t, k))]
    BY DEF Groups
  <1>2. \A k \in K : D(k).k = G[k].k /\ D(k).v = G[k].v  BY <1>1
  <1>3. h = "local" => \A k \in K : D(k) = G[k]  BY DEF GroupedTlist
  <1>4. FilterGroups({h} \cap {"remote"}, G) = [k \in R |-> G[k]]  BY DEF FilterGroups, Restrict
  <1>5. C = [k \in R |-> D(k)]  BY <1>4 DEF Columns
  <1>6. Y = [k \in H |-> [k |-> G[k].k, v |-> G[k].v]]
    BY DEF FilterGroups, Restrict, WithoutCount
  <1> HIDE DEF C, Y, D, K
  <1>7. {k \in R : KeepGroup({h} \cap {"local"}, C[k])} = H
    <2>1. CASE h = "local"  BY <1>3, <1>5, <2>1 DEF KeepGroup
    <2>2. CASE h # "local"  BY <2>2 DEF KeepGroup
    <2> QED BY <2>1, <2>2
  <1> DEFINE W == FilterGroups({h} \cap {"local"}, C)
  <1>8. W = [k \in H |-> C[k]]
    BY <1>5, <1>7 DEF FilterGroups, Restrict
  <1>9. H \subseteq R /\ H \subseteq K  BY DEF KeepGroup
  <1> HIDE DEF W, H, R
  <1>10. \A k \in H : C[k].k = G[k].k /\ C[k].v = G[k].v  BY <1>2, <1>5, <1>9
  <1>11. WithoutCount(W) = Y  BY <1>6, <1>8, <1>10 DEF WithoutCount
  <1>12. ASSUME h # "local"
         PROVE  /\ DOMAIN C = DOMAIN Y
                /\ \A k \in DOMAIN C : SortKey(C[k]) = SortKey(Y[k])
                /\ \A k \in DOMAIN C :
                      WithoutCount(FilterGroups({}, Restrict(C, {k}))) = Restrict(Y, {k})
    <2>1. R = H  BY <1>12 DEF R, H, KeepGroup
    <2>2. DOMAIN C = DOMAIN Y  BY <1>5, <1>6, <2>1
    <2>3. \A k \in H : Y[k] = [k |-> C[k].k, v |-> C[k].v]  BY <1>6, <1>10
    <2>4. \A k \in DOMAIN C : SortKey(C[k]) = SortKey(Y[k])
      <3> DEFINE row(a, b) == [k |-> a, v |-> b]
      <3>1. \A a, b : row(a, b).v = b  OBVIOUS
      <3>2. \A k \in H : Y[k] = row(C[k].k, C[k].v)  BY <2>3
      <3> HIDE DEF row
      <3> QED BY <3>1, <3>2, <2>1, <1>5 DEF SortKey
    <2>5. ASSUME NEW k \in DOMAIN C
          PROVE  WithoutCount(FilterGroups({}, Restrict(C, {k}))) = Restrict(Y, {k})
      <3>1. FilterGroups({}, Restrict(C, {k})) = [x \in {k} |-> C[x]]
        BY DEF FilterGroups, Restrict, KeepGroup
      <3>2. k \in H  BY <1>5, <2>1
      <3> QED BY <3>1, <3>2, <2>3 DEF WithoutCount, Restrict
    <2> QED BY <2>2, <2>4, <2>5
  <1> QED BY <1>11, <1>12 DEF C, Y, W

(* A window function's placeholder is told from every other by the counter *)
(* in it, so its column is read from its own entry                         *)
(* (replace_windowfuncs_mutator);                                          *)
LEMMA ReadColumnSame ==
  ASSUME NEW q, NEW x \in Windows(q)
  PROVE  ReadColumn(q, x) = x
  <1> DEFINE wfs == WindowFuncs(q)
  <1>1. DOMAIN wfs = Windows(q) /\ Windows(q) \subseteq {1, 2}
    BY DEF WindowFuncs, Windows
  <1>2. \A i \in Windows(q) : wfs[i] = [fn |-> "rank", args |-> {}, winref |-> i]
    BY DEF WindowFuncs
  <1>3. \A i, j \in Windows(q) : wfs[i] = wfs[j] => i = j
    <2> DEFINE func(i) == [fn |-> "rank", args |-> {}, winref |-> i]
    <2>1. \A i : func(i).winref = i  OBVIOUS
    <2>2. \A i \in Windows(q) : wfs[i] = func(i)  BY <1>2
    <2> HIDE DEF func
    <2>3. \A i \in Windows(q) : wfs[i].winref = i  BY <2>1, <2>2
    <2> QED BY <2>3
  <1> HIDE DEF wfs
  <1>4. \A i \in Windows(q) : Min({i}) = i
    BY <1>1 DEF Min
  <1>5. ASSUME NEW i \in Windows(q) PROVE Placeholder(wfs, i).collid = i
    <2>1. {j \in DOMAIN wfs : wfs[j] = wfs[i]} = {i}  BY <1>1, <1>3
    <2> QED BY <1>4, <2>1 DEF Placeholder
  <1>6. {j \in DOMAIN wfs : Placeholder(wfs, j) = Placeholder(wfs, x)} = {x}
    BY <1>1, <1>5
  <1> QED BY <1>4, <1>6 DEF ReadColumn, wfs

(* with that, the rows of a window relation are received as they are sent. *)
LEMMA ReadColumnsSame ==
  ASSUME NEW q, NEW t, NEW S, NEW g, S \subseteq DOMAIN t, g = [i \in S |-> AddWindows(q, t)[i]]
  PROVE  ReadColumns(q, g) = g
  <1> DEFINE row(a, b, c) == [k |-> a, v |-> b, w |-> c]
             ranks(i) == [x \in Windows(q) |-> Rank(t, t[i], x)]
  <1>1. \A i \in S : g[i] = row(t[i].k, t[i].v, ranks(i))
    BY DEF AddWindows
  <1>2. \A a, b, c : row(a, b, c).k = a /\ row(a, b, c).v = b /\ row(a, b, c).w = c
    OBVIOUS
  <1>3. \A i : [x \in Windows(q) |-> ranks(i)[ReadColumn(q, x)]] = ranks(i)
    BY ReadColumnSame
  <1>4. ReadColumns(q, g)
          = [i \in S |-> row(g[i].k, g[i].v, [x \in Windows(q) |-> g[i].w[ReadColumn(q, x)]])]
    BY DEF ReadColumns
  <1> HIDE DEF row, ranks
  <1>5. ASSUME NEW i \in S
        PROVE  row(g[i].k, g[i].v, [x \in Windows(q) |-> g[i].w[ReadColumn(q, x)]]) = g[i]
    <2>1. g[i].k = t[i].k /\ g[i].v = t[i].v /\ g[i].w = ranks(i)  BY <1>1, <1>2
    <2>2. [x \in Windows(q) |-> g[i].w[ReadColumn(q, x)]] = ranks(i)  BY <1>3, <2>1
    <2> QED BY <1>1, <2>1, <2>2
  <1>6. ReadColumns(q, g) = [i \in S |-> g[i]]  BY <1>4, <1>5
  <1> QED BY <1>6

(* the rows of the relation that a path is for                             *)
Wanted(q, p, t) ==
    CASE p.rel = "base"   -> Filter(q.where, t)
      [] p.rel = "group"  -> WithoutCount(FilterGroups({q.having}, Groups(Filter(q.where, t))))
      [] p.rel = "window" -> AddWindows(q, Filter(q.where, t))

(* x received is y, and so is every row of it                              *)
ReceivedAs(q, p, x, y) ==
    /\ Received(q, p, x) = y
    /\ rel[p.rel].local = {} =>
          /\ DOMAIN x = DOMAIN y
          /\ \A i \in DOMAIN x : SortKey(x[i]) = SortKey(y[i])
          /\ \A i \in DOMAIN x : Received(q, p, Restrict(x, {i})) = Restrict(y, {i})

(* What a path receives, with its local conditions checked, is what its    *)
(* relation stands for, and so for each of its rows if none is.            *)
LEMMA RowsReceived ==
  ASSUME query \in Queries, RelOk(query, rel), NEW p, PathOk(query, rel, p), NEW t
  PROVE  ReceivedAs(query, p, RemoteRows(query, p, t), Wanted(query, p, t))
  <1> DEFINE x == RemoteRows(query, p, t)    y == Wanted(query, p, t)
             F == Filter(query.where, t)
  <1>1. p.rel \in {"base", "group", "window"} /\ rel[p.rel].safe  BY DEF PathOk
  <1>2. CASE p.rel = "base"
    <2>1. rel["base"] = BaseRelInfo(query)  BY <1>1, <1>2 DEF RelOk
    <2>2. /\ rel["base"].remote = query.where \cap {"remote"}
          /\ rel["base"].local = query.where \cap {"local"}
      BY <2>1, BaseFields
    <2>3. x = Filter(query.where \cap {"remote"}, t) /\ y = F
      BY <1>2, <2>2 DEF RemoteRows, ScanRel, Wanted
    <2>4. \A f : Received(query, p, f) = Filter(query.where \cap {"local"}, f)
      BY <1>2, <2>2 DEF Received
    <2> HIDE DEF x, y
    <2>5. Received(query, p, x) = y  BY <2>3, <2>4, FilterParts
    <2>6. ASSUME rel["base"].local = {}
          PROVE  /\ x = y
                 /\ \A i \in DOMAIN x : Received(query, p, Restrict(x, {i})) = Restrict(y, {i})
      <3>1. query.where \cap {"local"} = {} /\ "local" \notin query.where  BY <2>2, <2>6
      <3>2. x = y  BY <2>3, <3>1, FilterRemote
      <3>3. ASSUME NEW i \in DOMAIN x
            PROVE  Received(query, p, Restrict(x, {i})) = Restrict(y, {i})
        <4>1. Restrict(x, {i}) = [j \in {i} |-> x[j]]  BY DEF Restrict
        <4>2. Filter({}, Restrict(x, {i})) = Restrict(x, {i})  BY <4>1, FilterNothing
        <4> QED BY <2>4, <3>1, <3>2, <4>2
      <3> QED BY <3>2, <3>3
    <2>7. ReceivedAs(query, p, x, y)  BY <1>2, <2>5, <2>6 DEF ReceivedAs
    <2> QED BY <2>7 DEF x, y
  <1>3. CASE p.rel = "group"
    <2>1. rel["group"] = GroupingInfo(query, "base") /\ "local" \notin query.where
      BY <1>1, <1>3 DEF RelOk
    <2>2. /\ rel["group"].remote = {query.having} \cap {"remote"}
          /\ rel["group"].local = {query.having} \cap {"local"}
          /\ rel["group"].tlist = GroupedTlist(query) /\ rel["group"].outer = "base"
      BY <2>1, GroupingFields
    <2>3. query.having \in {"none", "remote", "local", "strange"}  BY DEF Queries
    <2> DEFINE C == Columns(GroupedTlist(query),
                            FilterGroups({query.having} \cap {"remote"}, Groups(F)))
    <2>4. x = C
      <3>1. ScanRel(p) = "base"  BY <1>3, <2>2 DEF ScanRel
      <3>2. rel["base"].remote = query.where \cap {"remote"}
        BY <1>1, <1>3, BaseFields DEF RelOk
      <3>3. Filter(rel["base"].remote, t) = F  BY <3>2, <2>1, FilterRemote
      <3> QED BY <1>3, <2>2, <3>1, <3>3 DEF RemoteRows
    <2>5. y = WithoutCount(FilterGroups({query.having}, Groups(F)))  BY <1>3 DEF Wanted
    <2>6. \A f : Received(query, p, f) = WithoutCount(FilterGroups({query.having} \cap {"local"}, f))
      BY <1>3, <2>2 DEF Received
    <2>7. /\ WithoutCount(FilterGroups({query.having} \cap {"local"}, C)) = y
          /\ query.having # "local" =>
                /\ DOMAIN C = DOMAIN y
                /\ \A k \in DOMAIN C : SortKey(C[k]) = SortKey(y[k])
                /\ \A k \in DOMAIN C :
                      WithoutCount(FilterGroups({}, Restrict(C, {k}))) = Restrict(y, {k})
      BY <2>3, <2>5, HavingParts
    <2>8. rel["group"].local = {} => query.having # "local" /\ {query.having} \cap {"local"} = {}
      BY <2>2
    <2> HIDE DEF x, y, C
    <2>9. ReceivedAs(query, p, x, y)  BY <1>3, <2>4, <2>6, <2>7, <2>8 DEF ReceivedAs
    <2> QED BY <2>9 DEF x, y
  <1>4. CASE p.rel = "window"
    <2>1. rel["window"] = SafeOver("base") /\ "local" \notin query.where
      BY <1>1, <1>4 DEF RelOk
    <2>2. rel["window"].outer = "base"  BY <2>1, SafeOverFields
    <2>3. x = AddWindows(query, F) /\ y = AddWindows(query, F)
      <3>1. ScanRel(p) = "base"  BY <1>4, <2>2 DEF ScanRel
      <3>2. rel["base"].remote = query.where \cap {"remote"}
        BY <1>1, <1>4, BaseFields DEF RelOk
      <3>3. Filter(rel["base"].remote, t) = F  BY <3>2, <2>1, FilterRemote
      <3> QED BY <1>4, <3>1, <3>3 DEF RemoteRows, Wanted
    <2>4. \A f : Received(query, p, f) = ReadColumns(query, f)
      BY <1>4 DEF Received
    <2>5. DOMAIN AddWindows(query, F) = DOMAIN F
          /\ AddWindows(query, F) = [i \in DOMAIN F |-> AddWindows(query, F)[i]]
      BY DEF AddWindows
    <2>6. ReadColumns(query, AddWindows(query, F)) = AddWindows(query, F)
      BY <2>5, ReadColumnsSame
    <2>7. ASSUME NEW i \in DOMAIN F
          PROVE  ReadColumns(query, Restrict(AddWindows(query, F), {i}))
                   = Restrict(AddWindows(query, F), {i})
      <3>1. Restrict(AddWindows(query, F), {i}) = [j \in {i} |-> AddWindows(query, F)[j]]
        BY DEF Restrict
      <3> QED BY <3>1, ReadColumnsSame
    <2> HIDE DEF x, y
    <2>8. ReceivedAs(query, p, x, y)
      BY <2>3, <2>4, <2>5, <2>6, <2>7 DEF ReceivedAs
    <2> QED BY <2>8 DEF x, y
  <1> QED BY <1>1, <1>2, <1>3, <1>4

(* Then a row that ClickHouse may return for LIMIT is one that PostgreSQL  *)
(* may.                                                                    *)
LEMMA LimitReceived ==
  ASSUME NEW p, NEW x, NEW y, NEW s, ReceivedAs(query, p, x, y), rel[p.rel].local = {},
         NEW o \in Limited(Outcome(x, s))
  PROVE  Outcome(Received(query, p, o.rows), o.sorted) \in Limited(Outcome(y, s))
  <1>1. \A f, b : Outcome(f, b).rows = f /\ Outcome(f, b).sorted = b  BY DEF Outcome
  <1>2. /\ Received(query, p, x) = y /\ DOMAIN x = DOMAIN y
        /\ \A i \in DOMAIN x : SortKey(x[i]) = SortKey(y[i])
        /\ \A i \in DOMAIN x : Received(query, p, Restrict(x, {i})) = Restrict(y, {i})
    BY DEF ReceivedAs
  <1>3. CASE DOMAIN x = {}
    <2>1. o = Outcome(x, s) /\ Limited(Outcome(y, s)) = {Outcome(y, s)}
      BY <1>1, <1>2, <1>3 DEF Limited
    <2> QED BY <1>1, <1>2, <2>1
  <1>4. CASE DOMAIN x # {}
    <2>1. PICK i \in First(Outcome(x, s)) : o = Outcome(Restrict(x, {i}), s)
      BY <1>1, <1>4 DEF Limited
    <2>2. i \in DOMAIN x /\ (s => \A j \in DOMAIN x : SortKey(x[i]) <= SortKey(x[j]))
      BY <1>1 DEF First
    <2>3. i \in First(Outcome(y, s))  BY <1>1, <1>2, <2>2 DEF First
    <2>4. Outcome(Restrict(y, {i}), s) \in Limited(Outcome(y, s))
      <3> DEFINE z == Outcome(y, s)
      <3>1. z.rows = y /\ z.sorted = s /\ i \in First(z)  BY <1>1, <2>3
      <3>2. DOMAIN z.rows # {}  BY <1>2, <1>4, <3>1
      <3> HIDE DEF z
      <3>3. Limited(z) = {Outcome(Restrict(z.rows, {j}), z.sorted) : j \in First(z)}
        BY <3>2 DEF Limited
      <3>4. Outcome(Restrict(z.rows, {i}), z.sorted) \in Limited(z)  BY <3>1, <3>3
      <3> QED BY <3>1, <3>4 DEF z
    <2>5. o.rows = Restrict(x, {i}) /\ o.sorted = s  BY <1>1, <2>1
    <2>6. Received(query, p, Restrict(x, {i})) = Restrict(y, {i})  BY <1>2, <2>2
    <2> QED BY <2>4, <2>5, <2>6
  <1> QED BY <1>3, <1>4

(* The steps a path leaves to the planner (create_foreign_upper_path)      *)
LEMMA Leftover ==
  ASSUME NEW q \in Queries, NEW r, NEW p, PathOk(q, r, p)
  PROVE  LET R == Remaining(q, p) IN
         /\ "group" \in R <=> p.rel = "base" /\ q.group # "none"
         /\ "window" \in R <=> p.rel # "window" /\ q.win # "none"
         /\ "srf" \in R <=> q.extra = "srf"
         /\ "distinct" \in R <=> q.extra = "distinct"
         /\ "ordered" \in R <=> q.sort # "none" /\ ~p.sort
         /\ "final" \in R <=> ~p.limit
  <1>1. p.rel \in {"base", "group", "window"} /\ p.sort \in BOOLEAN /\ p.limit \in BOOLEAN
    BY DEF PathOk
  <1>2. CASE p.rel = "base"  BY <1>1, <1>2, StepsOf DEF Remaining
  <1>3. CASE p.rel = "group"  BY <1>1, <1>3, StepsOf DEF Remaining
  <1>4. CASE p.rel = "window"  BY <1>1, <1>4, StepsOf DEF Remaining
  <1> QED BY <1>1, <1>2, <1>3, <1>4

(* nothing of grouping and windows is left above a path                    *)
Top(q, p) == /\ p.rel = "base" => q.group = "none" /\ q.win = "none"
             /\ p.rel = "group" => q.win = "none"

(* With no grouping or window left above it, a path is for the rows that   *)
(* PostgreSQL has before the final steps.                                  *)
LEMMA BelowTop ==
  ASSUME NEW q \in Queries, NEW r, RelOk(q, r), NEW p, PathOk(q, r, p), Top(q, p), NEW t,
         NEW S, S = Steps(q) \ {"base"}
  PROVE  Window(q, S, Group(q, S, Outcome(Filter(q.where, t), FALSE))) = Outcome(Wanted(q, p, t), FALSE)
  <1> DEFINE F == Filter(q.where, t)    o == Outcome(F, FALSE)
  <1>1. p.rel \in {"base", "group", "window"} /\ r[p.rel].safe  BY DEF PathOk
  <1>2. ("group" \in S <=> q.group # "none") /\ ("window" \in S <=> q.win # "none")
    BY StepsOf
  <1>3. o.rows = F /\ o.sorted = FALSE  BY DEF Outcome
  <1> HIDE DEF o
  <1>4. CASE p.rel = "base"
    <2>1. Wanted(q, p, t) = F  BY <1>4 DEF Wanted
    <2>2. Window(q, S, Group(q, S, o)) = o
      BY <1>2, <1>4 DEF Top, Window, Group
    <2> QED BY <2>1, <2>2 DEF o
  <1>5. CASE p.rel = "group"
    <2>1. q.group # "none"  BY <1>1, <1>5 DEF RelOk
    <2>2. Group(q, S, o) = Outcome(Wanted(q, p, t), FALSE)
      BY <1>2, <1>3, <1>5, <2>1 DEF Group, Wanted
    <2>3. "window" \notin S  BY <1>2, <1>5 DEF Top
    <2> QED BY <2>2, <2>3 DEF Window, o
  <1>6. CASE p.rel = "window"
    <2>1. q.group = "none" /\ q.win # "none"  BY <1>1, <1>6 DEF RelOk
    <2>2. Group(q, S, o) = o  BY <1>2, <2>1 DEF Group
    <2>3. Window(q, S, o) = Outcome(Wanted(q, p, t), FALSE)
      BY <1>2, <1>3, <1>6, <2>1 DEF Window, Wanted
    <2> QED BY <2>2, <2>3 DEF o
  <1> QED BY <1>1, <1>4, <1>5, <1>6

(* A plain path, followed by the steps it leaves, gives what PostgreSQL    *)
(* gives.                                                                  *)
LEMMA RestUnsorted ==
  ASSUME NEW q \in Queries, NEW r, RelOk(q, r), NEW p, PathOk(q, r, p), ~p.sort, ~p.limit, NEW t
  PROVE  Local(q, Remaining(q, p), Outcome(Wanted(q, p, t), FALSE)) = Reference(q, t)
  <1> DEFINE S == Steps(q) \ {"base"}    R == Remaining(q, p)
             F == Filter(q.where, t)    o == Outcome(F, FALSE)
             a == Outcome(Wanted(q, p, t), FALSE)
  <1>1. p.rel \in {"base", "group", "window"} /\ r[p.rel].safe  BY DEF PathOk
  <1>2. /\ "group" \in R <=> p.rel = "base" /\ "group" \in S
        /\ "window" \in R <=> p.rel # "window" /\ "window" \in S
        /\ "srf" \in R <=> "srf" \in S
        /\ "distinct" \in R <=> "distinct" \in S
        /\ "ordered" \in R <=> "ordered" \in S
        /\ "final" \in R <=> "final" \in S
    BY Leftover, StepsOf
  <1>3. Window(q, R, Group(q, R, a)) = Window(q, S, Group(q, S, o))
    <2>1. CASE p.rel = "base"
      <3>1. a = o  BY <2>1 DEF Wanted
      <3> HIDE DEF a, o, R, S
      <3>2. Group(q, R, a) = Group(q, S, o)  BY <1>2, <2>1, <3>1 DEF Group
      <3>3. \A x : Window(q, R, x) = Window(q, S, x)  BY <1>2, <2>1 DEF Window
      <3> QED BY <3>2, <3>3
    <2>2. CASE p.rel = "group"
      <3>1. "group" \in S  BY <1>1, <2>2, StepsOf DEF RelOk
      <3>2. Group(q, S, o) = a  BY <2>2, <3>1 DEF Group, Wanted, Outcome
      <3> HIDE DEF a, o, R, S
      <3>3. Group(q, R, a) = a  BY <1>2, <2>2 DEF Group
      <3>4. \A x : Window(q, R, x) = Window(q, S, x)  BY <1>2, <2>2 DEF Window
      <3> QED BY <3>2, <3>3, <3>4
    <2>3. CASE p.rel = "window"
      <3>1. Window(q, S, Group(q, S, o)) = a  BY <2>3, BelowTop DEF Top
      <3> HIDE DEF a, o, R, S
      <3>2. Group(q, R, a) = a  BY <1>2, <2>3 DEF Group
      <3>3. Window(q, R, a) = a  BY <1>2, <2>3 DEF Window
      <3> QED BY <3>1, <3>2, <3>3
    <2> QED BY <1>1, <2>1, <2>2, <2>3
  <1>4. Reference(q, t) = Local(q, S, o)  BY DEF Reference
  <1> HIDE DEF a, o, R, S
  <1>5. \A x : Project(R, x) = Project(S, x)  BY <1>2 DEF Project
  <1>6. \A x : Unique(R, x) = Unique(S, x)  BY <1>2 DEF Unique
  <1>7. \A x : Sort(R, x) = Sort(S, x)  BY <1>2 DEF Sort
  <1>8. \A x : Limit(q, R, x) = Limit(q, S, x)  BY <1>2 DEF Limit
  <1>9. Local(q, R, a) = Local(q, S, o)  BY <1>3, <1>5, <1>6, <1>7, <1>8 DEF Local
  <1> QED BY <1>4, <1>9 DEF a, R

(* So does a sorted one: what is left above it keeps the order.            *)
LEMMA RestSorted ==
  ASSUME NEW q \in Queries, NEW r, RelOk(q, r), NEW p, PathOk(q, r, p), p.sort, ~p.limit, NEW t
  PROVE  Local(q, Remaining(q, p), Outcome(Wanted(q, p, t), TRUE)) = Reference(q, t)
  <1> DEFINE S == Steps(q) \ {"base"}    R == Remaining(q, p)
             Y == Wanted(q, p, t)    o == Outcome(Filter(q.where, t), FALSE)
             a == Outcome(Y, TRUE)    w == Outcome(Y, FALSE)
  <1>1. SortOk(q, r, p.rel)  BY DEF PathOk
  <1>2. q.extra # "distinct" /\ Top(q, p)  BY <1>1 DEF SortOk, UsefulPathkeys, Top
  <1>3. /\ "group" \notin R /\ "window" \notin R
        /\ "srf" \in R <=> "srf" \in S
        /\ "distinct" \notin R /\ "distinct" \notin S
        /\ "ordered" \notin R /\ "ordered" \in S
        /\ "final" \in R <=> "final" \in S
    BY <1>1, <1>2, Leftover, StepsOf DEF SortOk, Top, PathOk
  <1>4. Window(q, S, Group(q, S, o)) = w  BY <1>2, BelowTop
  <1>5. Reference(q, t) = Local(q, S, o)  BY DEF Reference
  <1>6. a.rows = Y /\ a.sorted = TRUE /\ w.rows = Y /\ w.sorted = FALSE  BY DEF Outcome
  <1>7. \A f, b : Outcome(f, b).rows = f /\ Outcome(f, b).sorted = b  BY DEF Outcome
  <1>8. a = Outcome(Y, TRUE) /\ w = Outcome(Y, FALSE)  OBVIOUS
  <1> HIDE DEF a, w, o, R, S, Y
  <1>9. Window(q, R, Group(q, R, a)) = a  BY <1>3 DEF Window, Group
  <1>10. Sort(R, Unique(R, Project(R, a))) = Sort(S, Unique(S, Project(S, w)))
    <2>1. CASE "srf" \in S
      <3>1. Project(R, a) = Outcome(Doubled(Y), TRUE) /\ Project(S, w) = Outcome(Doubled(Y), FALSE)
        BY <1>3, <1>6, <2>1 DEF Project
      <3> DEFINE D == Doubled(Y)
      <3> HIDE DEF D
      <3>2. Unique(R, Outcome(D, TRUE)) = Outcome(D, TRUE)  BY <1>3 DEF Unique
      <3>3. Unique(S, Outcome(D, FALSE)) = Outcome(D, FALSE)  BY <1>3 DEF Unique
      <3>4. Sort(R, Outcome(D, TRUE)) = Outcome(D, TRUE)  BY <1>3 DEF Sort
      <3>5. Sort(S, Outcome(D, FALSE)) = Outcome(D, TRUE)  BY <1>3, <1>7 DEF Sort
      <3> QED BY <3>1, <3>2, <3>3, <3>4, <3>5 DEF D
    <2>2. CASE "srf" \notin S
      <3>1. Project(R, a) = a /\ Project(S, w) = w  BY <1>3, <2>2 DEF Project
      <3> QED BY <1>3, <1>6, <1>8, <3>1 DEF Unique, Sort
    <2> QED BY <2>1, <2>2
  <1>11. \A x : Limit(q, R, x) = Limit(q, S, x)  BY <1>3 DEF Limit
  <1>12. Local(q, R, a) = Local(q, S, o)  BY <1>4, <1>9, <1>10, <1>11 DEF Local
  <1> QED BY <1>5, <1>12 DEF a, R, Y

(* A path with the LIMIT leaves nothing to do.                             *)
LEMMA RestLimited ==
  ASSUME NEW q \in Queries, q.option # "TIES", NEW r, RelOk(q, r), NEW p, PathOk(q, r, p), p.limit,
         NEW t
  PROVE  /\ Reference(q, t) = Limited(Outcome(Wanted(q, p, t), p.sort))
         /\ \A x : Local(q, Remaining(q, p), x) = {x}
  <1> DEFINE S == Steps(q) \ {"base"}    R == Remaining(q, p)
             Y == Wanted(q, p, t)    o == Outcome(Filter(q.where, t), FALSE)
             w == Outcome(Y, FALSE)
  <1>1. LimitOk(q, r, p.rel, p.sort) /\ p.sort \in BOOLEAN  BY DEF PathOk
  <1>2. q.extra = "none" /\ Top(q, p) /\ q.limit # "none"  BY <1>1 DEF LimitOk, Top
  <1>3. p.sort <=> q.sort # "none"  BY <1>1 DEF LimitOk, PathOk, SortOk
  <1>4. /\ "group" \notin R /\ "window" \notin R /\ "srf" \notin R /\ "distinct" \notin R
        /\ "ordered" \notin R /\ "final" \notin R
    BY <1>1, <1>2, <1>3, Leftover DEF LimitOk, Top, PathOk
  <1>5. /\ "srf" \notin S /\ "distinct" \notin S /\ ("ordered" \in S <=> p.sort) /\ "final" \in S
    BY <1>2, <1>3, StepsOf
  <1>6. Window(q, S, Group(q, S, o)) = w  BY <1>2, BelowTop
  <1>7. Reference(q, t) = Local(q, S, o)  BY DEF Reference
  <1>8. w.rows = Y  BY DEF Outcome
  <1>9. ASSUME NEW x PROVE Local(q, R, x) = {x}
    <2> HIDE DEF R
    <2>1. Group(q, R, x) = x  BY <1>4 DEF Group
    <2>2. Window(q, R, x) = x  BY <1>4 DEF Window
    <2>3. Project(R, x) = x  BY <1>4 DEF Project
    <2>4. Unique(R, x) = x  BY <1>4 DEF Unique
    <2>5. Sort(R, x) = x  BY <1>4 DEF Sort
    <2>6. Limit(q, R, x) = {x}  BY <1>4 DEF Limit
    <2> QED BY <2>1, <2>2, <2>3, <2>4, <2>5, <2>6 DEF Local
  <1>10. Sort(S, Unique(S, Project(S, w))) = Outcome(Y, p.sort)
    <2> HIDE DEF S, w
    <2>0. Project(S, w) = w  BY <1>5 DEF Project
    <2>1. Unique(S, Project(S, w)) = w  BY <1>5, <2>0 DEF Unique
    <2> USE DEF w
    <2>2. CASE p.sort  BY <1>1, <1>5, <1>8, <2>1, <2>2 DEF Sort
    <2>3. CASE ~p.sort  BY <1>1, <1>5, <2>1, <2>3 DEF Sort
    <2> QED BY <2>2, <2>3
  <1>11. \A x : Limit(q, S, x) = Limited(x)  BY <1>2, <1>5 DEF Limit
  <1> HIDE DEF S, R, w, o, Y
  <1>12. Local(q, S, o) = Limited(Outcome(Y, p.sort))  BY <1>6, <1>10, <1>11 DEF Local
  <1> QED BY <1>7, <1>9, <1>12 DEF Y, R

(* Whatever a path and the steps it leaves may answer, PostgreSQL may      *)
(* answer.                                                                 *)
LEMMA PathAnswers ==
  ASSUME LimitOptions \subseteq {"COUNT"}, UpperInv, NEW p \in paths, NEW t,
         NEW x \in Answers(query, p, t)
  PROVE  x \in Reference(query, t)
  <1> DEFINE X == RemoteRows(query, p, t)    Y == Wanted(query, p, t)    R == Remaining(query, p)
  <1>1. /\ query \in Queries /\ RelOk(query, rel) /\ PathOk(query, rel, p)
    BY DEF UpperInv
  <1>2. query.option # "TIES"  BY <1>1 DEF Queries
  <1>3. ReceivedAs(query, p, X, Y)  BY <1>1, RowsReceived
  <1>4. PICK o \in Remote(query, p, t) :
           x \in Local(query, R, Outcome(Received(query, p, o.rows), o.sorted))
    BY DEF Answers
  <1> HIDE DEF X, Y, R
  <1>5. CASE ~p.limit
    <2>1. o = Outcome(X, p.sort)  BY <1>5 DEF Remote, X
    <2>2. o.rows = X /\ o.sorted = p.sort  BY <2>1 DEF Outcome
    <2>3. x \in Local(query, R, Outcome(Y, p.sort))  BY <1>3, <1>4, <2>2 DEF ReceivedAs
    <2>4. p.sort \in BOOLEAN  BY <1>1 DEF PathOk
    <2>5. CASE p.sort
      <3>1. Local(query, R, Outcome(Y, TRUE)) = Reference(query, t)
        BY <1>1, <1>5, <2>5, RestSorted DEF R, Y
      <3>2. p.sort = TRUE  BY <2>4, <2>5
      <3> QED BY <2>3, <3>1, <3>2
    <2>6. CASE ~p.sort
      <3>1. Local(query, R, Outcome(Y, FALSE)) = Reference(query, t)
        BY <1>1, <1>5, <2>6, RestUnsorted DEF R, Y
      <3>2. p.sort = FALSE  BY <2>4, <2>6
      <3> QED BY <2>3, <3>1, <3>2
    <2> QED BY <2>5, <2>6
  <1>6. CASE p.limit
    <2>1. o \in Limited(Outcome(X, p.sort))  BY <1>6 DEF Remote, X
    <2>2. rel[p.rel].local = {}  BY <1>1, <1>6 DEF PathOk, LimitOk
    <2>3. Outcome(Received(query, p, o.rows), o.sorted) \in Limited(Outcome(Y, p.sort))
      BY <1>3, <2>1, <2>2, LimitReceived
    <2>4. /\ Reference(query, t) = Limited(Outcome(Y, p.sort))
          /\ \A z : Local(query, R, z) = {z}
      BY <1>1, <1>2, <1>6, RestLimited DEF R, Y
    <2> QED BY <1>4, <2>3, <2>4
  <1> QED BY <1>5, <1>6

(* Whatever path the planner takes, the rows and their order are ones that *)
(* PostgreSQL could give, for tables of any contents, as long as there is  *)
(* no WITH TIES and a window over a grouping has a plain column in its     *)
(* target (UpperLimitTies.cfg and UpperWindowOverGroup.cfg show why).      *)
THEOREM UpperKeepsRows ==
  ASSUME LimitOptions \subseteq {"COUNT"}, WinTargets \subseteq {"column"}
  PROVE  UpperSpec => []RowsSame
  <1>1. UpperInv => RowsSame  BY PathAnswers DEF RowsSame
  <1> QED BY <1>1, UpperInvariant, PTL
=============================================================================
