----------------------------- MODULE MCPlanning -----------------------------
(***************************************************************************)
(* What a backend remembers between queries and plans with: the settings,  *)
(* the cache of column options, the cache of object definitions and the    *)
(* vector index metadata.  They share no state, so a behaviour follows one *)
(* of them and the variables of the others rest.                           *)
(*                                                                         *)
(* The instance of Settings: a default for final, and an index setting     *)
(* that came with version 2.  The other three come with their proofs, so   *)
(* that PlanningProofs can cite them.                                      *)
(***************************************************************************)
EXTENDS Settings

CONSTANTS ColumnNames, Cols, MaxAlters,         \* ColumnCache's
          Oids, EndEvents, MaxChanges,          \* ObjectCache's
          IndexTables, Altered, Drivers,        \* VectorSearch's
          MaxTime, MaxPlans, MaxIndexChanges, TTLs, Caps, Limits, Versions

MCNames   == {"final", "index"}
MCDefault == [n \in MCNames |-> IF n = "final" THEN "1" ELSE Unset]
MCSince   == [n \in MCNames |-> IF n = "final" THEN 0 ELSE 2]
MCLists   == {<< >>, <<<<"final", "0">>>>, <<<<"index", "0">>, <<"index", "1">>>>,
              <<<<"index", "0">>, <<"final", "1">>>>}
MCCaps    == {2, 0 - 1}             \* -1: NoCap

VARIABLES memory,   \* which of the four
    \* ColumnCache's
    catalog, queued, table, colname, heap, stmt, phase, pc, attno, elem,
    kept, read, locked, half, badFree, strayed, alters,
    \* ObjectCache's
    objects, since, objectQueued, created, definitions, custom_objects_stale,
    objectPc, asked, oid, inTransaction, answer, recent, changes,
    \* VectorSearch's
    driver, remote, now, ttl, index, cap, indexChanges, held, metadata, live, up,
    conn, remembered, scan, plans, cancelled

Columns == INSTANCE ColumnCacheProofs WITH Names <- ColumnNames

Objects == INSTANCE ObjectCacheProofs WITH
    catalog <- objects, queued <- objectQueued, cache <- definitions, pc <- objectPc

Vectors == INSTANCE VectorSearchProofs WITH
    Tables <- IndexTables, MaxChanges <- MaxIndexChanges, server <- remote,
    changes <- indexChanges, cache <- metadata, version <- remembered

ASSUME MemoryAssumption ==
    Columns!ColumnConstants /\ Objects!ObjectConstants /\ Vectors!VectorConstants

columnVars == <<catalog, queued, table, colname, heap, stmt, phase, pc, attno, elem,
                kept, read, locked, half, badFree, strayed, alters>>
objectVars == <<objects, since, objectQueued, created, definitions, custom_objects_stale,
                objectPc, asked, oid, inTransaction, answer, recent, changes>>
vectorVars == <<driver, remote, now, ttl, index, cap, indexChanges, held, metadata, live,
                up, conn, remembered, scan, plans, cancelled>>
allVars == <<memory, vars, columnVars, objectVars, vectorVars>>

SettingsRest ==
    /\ option = [t \in Tables |-> << >>]
    /\ server = << >> /\ session = << >> /\ version = 0
    /\ met = {} /\ merged = NoSettings /\ sent = NoSettings
ColumnsRest ==
    /\ catalog = 0 /\ queued = 0 /\ table = 0 /\ colname = 0 /\ heap = 0 /\ stmt = 0
    /\ phase = 0 /\ pc = 0 /\ attno = 0 /\ elem = 0 /\ kept = 0 /\ read = 0
    /\ locked = 0 /\ half = 0 /\ badFree = 0 /\ strayed = 0 /\ alters = 0
ObjectsRest ==
    /\ objects = 0 /\ since = 0 /\ objectQueued = 0 /\ created = 0 /\ definitions = 0
    /\ custom_objects_stale = 0 /\ objectPc = 0 /\ asked = 0 /\ oid = 0
    /\ inTransaction = 0 /\ answer = 0 /\ recent = 0 /\ changes = 0
VectorsRest ==
    /\ driver = 0 /\ remote = 0 /\ now = 0 /\ ttl = 0 /\ index = 0 /\ cap = 0
    /\ indexChanges = 0 /\ held = 0 /\ metadata = 0 /\ live = 0 /\ up = 0
    /\ conn = 0 /\ remembered = 0 /\ scan = 0 /\ plans = 0 /\ cancelled = 0

PlanningInit ==
    \/ memory = "settings" /\ Init /\ ColumnsRest /\ ObjectsRest /\ VectorsRest
    \/ memory = "columns" /\ Columns!Init /\ SettingsRest /\ ObjectsRest /\ VectorsRest
    \/ memory = "objects" /\ Objects!Init /\ SettingsRest /\ ColumnsRest /\ VectorsRest
    \/ memory = "vectors" /\ Vectors!Init /\ SettingsRest /\ ColumnsRest /\ ObjectsRest

PlanningNext ==
    \/ memory = "settings" /\ Next /\ UNCHANGED <<memory, columnVars, objectVars, vectorVars>>
    \/ memory = "columns" /\ Columns!Next /\ UNCHANGED <<memory, vars, objectVars, vectorVars>>
    \/ memory = "objects" /\ Objects!Next /\ UNCHANGED <<memory, vars, columnVars, vectorVars>>
    \/ memory = "vectors" /\ Vectors!Next /\ UNCHANGED <<memory, vars, columnVars, objectVars>>

PlanningSpec == PlanningInit /\ [][PlanningNext]_allVars

(* The names that statements take from custom_columns_cache are the        *)
(* options in force, with invalidations in the middle of its lookups and   *)
(* lookups that raise; not the names of entries that a raised lookup left  *)
(* unfilled, nor any once the callback freed the pointer of an unwritten   *)
(* entry.  The callers that keep a name over other catalog reads are not   *)
(* among the statements (ColumnCache's SpecHttpInsert, SpecVector).        *)
NameIsDeclared == memory = "columns" => Columns!NameIsDeclared

(* The invalidation callback of custom_columns_cache frees live strings    *)
(* only, each once, until it meets an entry with a pointer that no lookup  *)
(* wrote: that of a lookup inside table_open, or of one that raised.       *)
FreesLiveNames == memory = "columns" => Columns!FreesLiveNames

(* A custom_objects_cache that is not marked stale describes the catalog.  *)
UnmarkedIsCurrent == memory = "objects" => Objects!UnmarkedIsCurrent

(* The definitions a transaction plans with are at most one transaction    *)
(* late (drop_stale_custom_objects).                                       *)
AnswerIsRecent == memory = "objects" => Objects!AnswerIsRecent

(* The reason a vector scan gives is true of metadata no older than the    *)
(* time to live (chfdw_vector_table_meta, fallback_reason): the index, and *)
(* the cap reported with it where LIMIT and OFFSET are constants.  Where   *)
(* one is an expression the code names the index whatever the count.       *)
ReasonTrue == memory = "vectors" => Vectors!ReasonTrue

(* Each memory context of the metadata cache belongs to one entry.         *)
ContextsOwned == memory = "vectors" => Vectors!ContextsOwned
=============================================================================
