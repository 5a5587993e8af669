--------------------------- MODULE PlanningProofs ---------------------------
(***************************************************************************)
(* Proofs about Settings, for any number of tables and settings, and about *)
(* the memories of MCPlanning side by side.                                *)
(*                                                                         *)
(* The inductive invariant of Settings says what the merged list is after  *)
(* any sequence of merges: MergedIsAgreement itself is not enough, since   *)
(* it leaves open which values besides Unset and a value of Values the     *)
(* list can hold, so it goes with TypeOK.                                  *)
(***************************************************************************)
EXTENDS MCPlanning, TLAPS

(* A list of settings parses to values and Unset (overlay on an empty list) *)
LEMMA LastType ==
    ASSUME NEW list, NEW n PROVE Last(list, n) \in Values \cup {Unset}
BY DEF Last

(* A parsed list is a setting for each name. *)
LEMMA ParsedType == ASSUME NEW list PROVE Parsed(list) \in Setting
BY LastType DEF Parsed, Setting

(* a merged value stands for the values S that the tables give             *)
Agrees(a, S) ==
    /\ a \in Values \cup {Unset, Conflict}
    /\ a = Unset <=> S \ {Unset} = {}
    /\ \A v \in Values : a = v <=> S \ {Unset} = {v}

(* Merging a value into what the tables so far agree on gives what the     *)
(* tables with the new one agree on (one step of chfdw_merge_settings)     *)
LEMMA MergeValueAgrees ==
    \A a, S : \A b \in Values \cup {Unset} :
        Agrees(a, S) => Agrees(MergeValue(a, b), S \cup {b})
<1> SUFFICES ASSUME NEW a, NEW S, NEW b \in Values \cup {Unset}, Agrees(a, S)
             PROVE  Agrees(MergeValue(a, b), S \cup {b})
  OBVIOUS
<1> USE DEF Agrees
<1> DEFINE U == S \ {Unset}
           m == MergeValue(a, b)
           T == (S \cup {b}) \ {Unset}
<1>1. CASE b = Unset
  <2>1. m = a /\ T = U  BY <1>1 DEF MergeValue
  <2> QED BY <2>1
<1>2. CASE b # Unset
  <2>1. b \in Values /\ T = U \cup {b}  BY <1>2
  <2>2. T # {}  BY <2>1
  <2>3. CASE a = Unset
    <3>1. m = b /\ T = {b}  BY <1>2, <2>1, <2>3 DEF MergeValue
    <3> QED BY <3>1, <2>1, ValuesAssumption
  <2>4. CASE a = b
    <3>1. m = b /\ T = {b}  BY <1>2, <2>1, <2>4 DEF MergeValue
    <3> QED BY <3>1, <2>1, ValuesAssumption
  <2>5. CASE a # Unset /\ a # b
    <3>1. m = Conflict  BY <1>2, <2>5 DEF MergeValue
    <3>2. U # {} /\ U # {b}  BY <2>1, <2>5
    <3>3. PICK c \in U : c # b  BY <3>2
    <3>4. \A v \in Values : T # {v}  BY <2>1, <3>3
    <3> QED BY <3>1, <3>4, <2>2, ValuesAssumption
  <2> QED BY <2>3, <2>4, <2>5
<1> QED BY <1>1, <1>2

Inv == TypeOK /\ MergedIsAgreement

(* No table at all agrees on nothing. *)
LEMMA NoSettingsAgree ==
    ASSUME met = {}, merged = NoSettings PROVE MergedIsAgreement
BY ValuesAssumption DEF MergedIsAgreement, NoSettings, Says

(* The invariant holds at the start. *)
LEMMA InitInv == Init => Inv
<1> SUFFICES ASSUME Init PROVE Inv  OBVIOUS
<1>1. TypeOK  BY DEF Init, TypeOK, NoSettings, Setting
<1>2. MergedIsAgreement  BY NoSettingsAgree DEF Init
<1> QED BY <1>1, <1>2 DEF Inv

(* The settings of a query have their type. *)
LEMMA QuerySettingsType == ASSUME TypeOK PROVE QuerySettings \in Setting
<1>1. Parsed(server) \in Setting /\ Parsed(session) \in Setting  BY ParsedType
<1>2. WithArgument(merged) \in Setting  BY DEF WithArgument, TypeOK, Setting
<1> QED BY <1>1, <1>2, DefaultAssumption DEF QuerySettings, DropUnsupported, Overlay, Setting

(* Meeting one more table                                                  *)
LEMMA DeparseTableInv ==
    ASSUME Inv, NEW t \in Tables, DeparseTable(t) PROVE Inv'
<1> USE DEF Inv
<1>1. option' = option  BY DEF DeparseTable
<1>2. ASSUME NEW n \in Names
      PROVE  /\ Agrees(merged'[n], {TableSettings(u)[n] : u \in met'})
             /\ Says(met, n)' = {TableSettings(u)[n] : u \in met'} \ {Unset}
  <2> DEFINE S == {TableSettings(u)[n] : u \in met}
             b == TableSettings(t)[n]
  <2>1. b \in Values \cup {Unset}  BY <1>2, ParsedType DEF TableSettings, Setting
  <2>2. Agrees(merged[n], S)
    BY <1>2 DEF Agrees, TypeOK, MergedIsAgreement, Says
  <2>3. {TableSettings(u)[n] : u \in met'} = S \cup {b}  BY DEF DeparseTable
  <2>4. merged'[n] = MergeValue(merged[n], b)  BY <1>2 DEF DeparseTable, MergeSettings
  <2>5. Says(met, n)' = {TableSettings(u)[n] : u \in met'} \ {Unset}
    BY <1>1 DEF Says, TableSettings
  <2> HIDE DEF S, b
  <2> QED BY <2>1, <2>2, <2>3, <2>4, <2>5, MergeValueAgrees
<1>3. TypeOK'
  <2>1. merged' \in [Names -> Values \cup {Unset, Conflict}]
    BY <1>2 DEF DeparseTable, MergeSettings, Agrees
  <2> QED BY <2>1 DEF TypeOK, DeparseTable
<1>4. MergedIsAgreement'  BY <1>2 DEF MergedIsAgreement, Agrees
<1> QED BY <1>3, <1>4

(* Steps that leave the tables' options and the plan alone                 *)
LEMMA PlanUnchanged ==
    ASSUME Inv, UNCHANGED <<option, met, merged>> PROVE MergedIsAgreement'
<1>1. \A n \in Names : Says(met, n)' = Says(met, n)  BY DEF Says, TableSettings
<1> QED BY <1>1 DEF Inv, MergedIsAgreement

(* Every step keeps the invariant. *)
LEMMA NextInv == ASSUME Inv, [Next]_vars PROVE Inv'
<1>1. ASSUME NEW t \in Tables, DeparseTable(t) PROVE Inv'  BY <1>1, DeparseTableInv
<1>2. ASSUME met' = {}, merged' = NoSettings PROVE MergedIsAgreement'
  BY <1>2, ValuesAssumption DEF MergedIsAgreement, NoSettings, Says
<1>3. ASSUME NEW t \in Tables, AlterTable(t) PROVE Inv'
  <2>1. TypeOK'  BY <1>3 DEF Inv, TypeOK, AlterTable, NoSettings, Setting
  <2> QED BY <2>1, <1>2, <1>3 DEF Inv, AlterTable
<1>4. CASE PlanAgain
  <2>1. TypeOK'  BY <1>4 DEF Inv, TypeOK, PlanAgain, NoSettings, Setting
  <2> QED BY <2>1, <1>2, <1>4 DEF Inv, PlanAgain
<1>5. CASE BeginForeignScan
  <2>1. TypeOK'  BY <1>5, QuerySettingsType DEF Inv, TypeOK, BeginForeignScan
  <2>2. MergedIsAgreement'  BY <1>5, PlanUnchanged DEF BeginForeignScan
  <2> QED BY <2>1, <2>2 DEF Inv
<1>6. CASE AlterServer
  <2>1. TypeOK'  BY <1>6 DEF Inv, TypeOK, AlterServer
  <2>2. MergedIsAgreement'  BY <1>6, PlanUnchanged DEF AlterServer
  <2> QED BY <2>1, <2>2 DEF Inv
<1>7. CASE SetSession
  <2>1. TypeOK'  BY <1>7 DEF Inv, TypeOK, SetSession
  <2>2. MergedIsAgreement'  BY <1>7, PlanUnchanged DEF SetSession
  <2> QED BY <2>1, <2>2 DEF Inv
<1>8. CASE UNCHANGED vars
  <2>1. TypeOK'  BY <1>8 DEF Inv, TypeOK, vars
  <2>2. MergedIsAgreement'  BY <1>8, PlanUnchanged DEF vars
  <2> QED BY <2>1, <2>2 DEF Inv
<1> QED BY <1>1, <1>3, <1>4, <1>5, <1>6, <1>7, <1>8 DEF Next

(* The invariant holds throughout. *)
LEMMA SpecInv == Spec => []Inv
BY InitInv, NextInv, PTL DEF Spec

(* The settings of every plan are well formed, and what is sent never      *)
(* carries the mark of a conflict (the DefElem without an argument would   *)
(* be read as a string by new_kv_list_from_pg_list).                       *)
THEOREM SettingsTypeOK == Spec => []TypeOK
BY SpecInv, PTL DEF Inv

(* In any order and however often the deparser meets the tables of a       *)
(* query, the merged settings are what those tables agree on.              *)
THEOREM MergeIsOrderFree == Spec => []MergedIsAgreement
BY SpecInv, PTL DEF Inv

(* Laying the lists over one another is the declared precedence            *)
LEMMA QueryIsDeclared ==
    ASSUME Inv, NEW n \in Names PROVE QuerySettings[n] = Declared(n)
<1> DEFINE w == WithArgument(merged)[n]
           p == Parsed(server)[n]
           q == Parsed(session)[n]
<1>1. QuerySettings[n] = IF version # 0 /\ version < Since[n] THEN Unset
                         ELSE IF q # Unset THEN q
                         ELSE IF w # Unset THEN w
                         ELSE IF p # Unset THEN p
                         ELSE Default[n]
  BY DEF QuerySettings, DropUnsupported, Overlay
<1>2. CASE merged[n] \in Values
  <2>1. Says(met, n) = {merged[n]}  BY <1>2 DEF Inv, MergedIsAgreement
  <2>2. (CHOOSE v \in Values : Says(met, n) = {v}) = merged[n]  BY <1>2, <2>1
  <2>3. w = merged[n] /\ w # Unset  BY <1>2, ValuesAssumption DEF WithArgument
  <2> QED BY <1>1, <1>2, <2>1, <2>2, <2>3 DEF Declared
<1>3. CASE merged[n] \in {Unset, Conflict}
  <2>1. w = Unset  BY <1>3 DEF WithArgument
  <2>2. ~ \E v \in Values : Says(met, n) = {v}
    BY <1>3, ValuesAssumption DEF Inv, MergedIsAgreement
  <2> QED BY <1>1, <2>1, <2>2 DEF Declared
<1> QED BY <1>2, <1>3 DEF Inv, TypeOK

(* Whenever a scan begins, each setting sent is the one the precedence     *)
(* rules declare: session over agreeing tables over server over defaults,  *)
(* less what the server's version does not know.                           *)
THEOREM QuerySettingsPrecedence == Spec => SentAsDeclared
<1>1. ASSUME Inv, [Next]_vars
      PROVE  [sent' # sent => \A n \in Names : sent'[n] = Declared(n)]_vars
  <2>1. CASE BeginForeignScan  BY <1>1, <2>1, QueryIsDeclared DEF BeginForeignScan
  <2>2. CASE ~BeginForeignScan
    <3>1. sent' = sent
      BY <1>1, <2>2 DEF Next, DeparseTable, AlterTable, PlanAgain, AlterServer, SetSession, vars
    <3> QED BY <3>1
  <2> QED BY <2>1, <2>2
<1> QED BY <1>1, SpecInv, PTL DEF Spec, SentAsDeclared

(***************************************************************************)
(* The memories of MCPlanning.  Each keeps the inductive invariant of its  *)
(* own module, and no step of one disturbs another.                        *)
(***************************************************************************)
ColumnMemory == memory = "columns" => Columns!ColumnInv
ObjectMemory == memory = "objects" => Objects!MarkInv
AnswerMemory == memory = "objects" => Objects!MarkInv /\ Objects!RecentInv
VectorMemory == memory = "vectors" => Vectors!VectorInv

(* A step of the composition is a step of the memory it follows. *)
LEMMA OneMemory ==
  ASSUME [PlanningNext]_allVars
  PROVE  /\ memory' = memory
         /\ memory = "columns" => [Columns!Next]_(Columns!vars)
         /\ memory = "objects" => [Objects!Next]_(Objects!vars)
         /\ memory = "vectors" => [Vectors!Next]_(Vectors!vars)
  <1>1. memory' = memory
    BY DEF PlanningNext, allVars
  <1>2. memory = "columns" => [Columns!Next]_(Columns!vars)
    BY DEF PlanningNext, allVars, columnVars, Columns!vars, Columns!shared,
           Columns!memory, Columns!caller
  <1>3. memory = "objects" => [Objects!Next]_(Objects!vars)
    BY DEF PlanningNext, allVars, objectVars, Objects!vars, Objects!world, Objects!tab,
           Objects!lookup, Objects!backend
  <1>4. memory = "vectors" => [Vectors!Next]_(Vectors!vars)
    BY DEF PlanningNext, allVars, vectorVars, Vectors!vars
  <1> QED BY <1>1, <1>2, <1>3, <1>4

(* The cache of column options, beside the others. *)
LEMMA ColumnMemoryKept == PlanningSpec => []ColumnMemory
  <1>1. PlanningInit => ColumnMemory
    <2>1. Columns!Init => Columns!ColumnInv
      BY MemoryAssumption, Columns!ColumnInitSafe
    <2> QED BY <2>1 DEF PlanningInit, ColumnMemory
  <1>2. ColumnMemory /\ [PlanningNext]_allVars => ColumnMemory'
    <2>1. Columns!ColumnInv /\ [Columns!Next]_(Columns!vars) => Columns!ColumnInv'
      BY MemoryAssumption, Columns!ColumnStepSafe
    <2> QED BY <2>1, OneMemory DEF ColumnMemory
  <1> QED BY <1>1, <1>2, PTL DEF PlanningSpec

(* The cache of object definitions, whatever ends a transaction. *)
LEMMA ObjectMemoryKept == PlanningSpec => []ObjectMemory
  <1>1. PlanningInit => ObjectMemory
    <2>1. Objects!Init => Objects!MarkInv
      BY MemoryAssumption, Objects!MarkInitSafe
    <2> QED BY <2>1 DEF PlanningInit, ObjectMemory
  <1>2. ObjectMemory /\ [PlanningNext]_allVars => ObjectMemory'
    <2>1. Objects!MarkInv /\ [Objects!Next]_(Objects!vars) => Objects!MarkInv'
      BY MemoryAssumption, Objects!MarkStepSafe
    <2> QED BY <2>1, OneMemory DEF ObjectMemory
  <1> QED BY <1>1, <1>2, PTL DEF PlanningSpec

(* Its answers, when no transaction ends by PREPARE. *)
LEMMA AnswerMemoryKept ==
  ASSUME "prepare" \notin EndEvents
  PROVE  PlanningSpec => []AnswerMemory
  <1>1. PlanningInit => AnswerMemory
    <2>1. Objects!Init => Objects!MarkInv /\ Objects!RecentInv
      BY MemoryAssumption, Objects!MarkInitSafe, Objects!RecentInitSafe
    <2> QED BY <2>1 DEF PlanningInit, AnswerMemory
  <1>2. AnswerMemory /\ [PlanningNext]_allVars => AnswerMemory'
    <2>1. Objects!MarkInv /\ [Objects!Next]_(Objects!vars) => Objects!MarkInv'
      BY MemoryAssumption, Objects!MarkStepSafe
    <2>2. Objects!MarkInv /\ Objects!RecentInv /\ [Objects!Next]_(Objects!vars)
            => Objects!RecentInv'
      BY MemoryAssumption, Objects!AnswersFromEntries
    <2> QED BY <2>1, <2>2, OneMemory DEF AnswerMemory
  <1> QED BY <1>1, <1>2, PTL DEF PlanningSpec

(* The vector index metadata, over binary connections and for limits that fit. *)
LEMMA VectorMemoryKept ==
  ASSUME Vectors!Binary, Vectors!Fits
  PROVE  PlanningSpec => []VectorMemory
  <1>1. PlanningInit => VectorMemory
    <2>1. Vectors!Init => Vectors!VectorInv
      BY MemoryAssumption, Vectors!VectorInitSafe
    <2> QED BY <2>1 DEF PlanningInit, VectorMemory
  <1>2. VectorMemory /\ [PlanningNext]_allVars => VectorMemory'
    <2>1. Vectors!VectorInv /\ [Vectors!Next]_(Vectors!vars) => Vectors!VectorInv'
      BY MemoryAssumption, Vectors!VectorStepSafe
    <2> QED BY <2>1, OneMemory DEF VectorMemory
  <1> QED BY <1>1, <1>2, PTL DEF PlanningSpec

(* A column name that a scan or a binary INSERT puts in its remote query is
   the option in force under its lock, with invalidations in the middle of the
   lookups of chfdw_get_custom_column_info and after lookups that raised.  Two
   names are excepted: the one of an entry that a raised lookup left unfilled,
   and any name once the callback has freed an unwritten entry's pointer.  The
   callers that keep a name over catalog reads (http_prepare_insert, the vector
   planner) are no part of PlanningSpec; for them it is false. *)
THEOREM NamesAreThoseInForce == PlanningSpec => []NameIsDeclared
  <1>1. ColumnMemory => NameIsDeclared
    BY DEF ColumnMemory, NameIsDeclared, Columns!NameIsDeclared, Columns!ColumnInv,
           Columns!Sound
  <1> QED BY <1>1, ColumnMemoryKept, PTL

(* The unwritten entries are the only way that invalidate_custom_columns_cache
   comes to free anything but a live string: one inside table_open when the
   callback runs, and one that a raised lookup left.  Until the callback meets
   a pointer in one of those, it frees live strings only, each once, with
   invalidations inside table_open and GetForeignColumnOptions and lookups
   that raise in both.  That it never frees anything else is not true of the
   code (NeverFreesWrongly). *)
THEOREM InvalidationFreesLiveNames == PlanningSpec => []FreesLiveNames
  <1>1. ColumnMemory => FreesLiveNames
    BY DEF ColumnMemory, FreesLiveNames, Columns!FreesLiveNames, Columns!ColumnInv,
           Columns!Sound
  <1> QED BY <1>1, ColumnMemoryKept, PTL

(* A custom_objects_cache that is not marked stale describes the catalog: no
   entry outlives its object unmarked. *)
THEOREM UnmarkedTableIsCurrent == PlanningSpec => []UnmarkedIsCurrent
  <1>1. ObjectMemory => UnmarkedIsCurrent
    BY Objects!MarkInvCurrent DEF ObjectMemory, UnmarkedIsCurrent
  <1> QED BY <1>1, ObjectMemoryKept, PTL

(* Where transactions end by commit or abort, every definition a transaction
   plans with was right at some time since the one before it ended. *)
THEOREM AnswersAreRecent ==
  ASSUME "prepare" \notin EndEvents
  PROVE  PlanningSpec => []AnswerIsRecent
  <1>1. AnswerMemory => AnswerIsRecent
    BY DEF AnswerMemory, AnswerIsRecent, Objects!RecentInv
  <1> QED BY <1>1, AnswerMemoryKept, PTL

(* What a vector scan says of its index was so within the time to live, and
   since the last refresh, the cap as well as the index: where LIMIT and OFFSET
   are constants, "index" is said of a count within a cap that ClickHouse
   reported with that index, and "limit" of one beyond it.  Of a count that is
   an expression, of OFFSET NULL and of OFFSET without LIMIT nothing is said: the
   code names the index whatever it is (const_count, fallback_reason). *)
THEOREM ReasonsAreTrue ==
  ASSUME Vectors!Binary, Vectors!Fits
  PROVE  PlanningSpec => []ReasonTrue
  <1>1. VectorMemory => ReasonTrue
    BY DEF VectorMemory, ReasonTrue, Vectors!VectorInv
  <1> QED BY <1>1, VectorMemoryKept, PTL

(* The metadata cache leaks no memory context and keeps no dangling one,
   through misses, evictions, failed fetches and refreshes. *)
THEOREM MetadataContextsAreOwned ==
  ASSUME Vectors!Binary, Vectors!Fits
  PROVE  PlanningSpec => []ContextsOwned
  <1>1. VectorMemory => ContextsOwned
    BY Vectors!VectorInvOwns DEF VectorMemory, ContextsOwned
  <1> QED BY <1>1, VectorMemoryKept, PTL
=============================================================================
