----------------------------- MODULE ColumnCache -----------------------------
(***************************************************************************)
(* The column options cache of custom_types.c (custom_columns_cache), with *)
(* the callers that read a column's ClickHouse name through it.            *)
(*                                                                         *)
(* One backend plans and runs statements on one foreign table.  A lookup   *)
(* that misses enters its entry first and fills it afterwards, over calls  *)
(* that read the catalogs.  Such a call may process the invalidations that *)
(* other sessions sent, which runs invalidate_custom_columns_cache in the  *)
(* middle of the lookup, and it may raise.  The hash table's elements and  *)
(* the strings they point to are modelled as memory: a removed element     *)
(* goes to the free list with its old contents, and is handed out again    *)
(* with them.                                                              *)
(***************************************************************************)
EXTENDS Naturals

CONSTANTS Names,        \* the values of the column_name option
          Cols,         \* the table's columns are attributes 1 .. Cols
          MaxAlters     \* bound: attribute changes by other sessions

VARIABLES catalog,   \* attribute -> its column_name option, or NoName
          queued,    \* an attribute invalidation waits in the shared queue
          table,     \* the hash table: attribute -> its element, or NoElement
          colname,   \* element -> its colname pointer
          heap,      \* string chunk -> its contents, or Freed
          half,      \* attributes whose entry a raised lookup left unfilled
          stmt,      \* the caller that reads names, None between statements
          phase,     \* "prime": chfdw_apply_custom_table_options, "get": lookups
          pc,        \* the step within a lookup
          attno,     \* the attribute it is about
          elem,      \* the element it entered, until the lookup ends
          kept,      \* <<attribute, char*, filled>>: what the caller keeps
          read,      \* <<attribute, name, filled>>: what it has used so far,
                     \* and whether the entry had been filled
          locked,    \* the backend's transaction holds a lock on the table
          badFree,   \* pfree was given something else than a live chunk
          strayed,   \* pfree was given the pointer of an unwritten entry
          alters     \* attribute changes so far

shared == <<catalog, alters>>
memory == <<queued, table, heap, half, badFree, strayed>>
caller == <<stmt, kept, read>>
vars == <<shared, memory, colname, caller, phase, pc, attno, elem, locked>>

None == "none"
NoName == "no option"
Freed == "freed"

Attrs == 1 .. Cols
Elements == 1 .. Cols
NoElement == 0

(* Pointers: NULL, the string chunks, and an address that is none of them. *)
Chunks == 1 .. (Cols + MaxAlters)
Null == 0
Garbage == Cols + MaxAlters + 1

(* What the constants may be. *)
ColumnConstants ==
    /\ Cols \in Nat \ {0}
    /\ MaxAlters \in Nat
    /\ Names # {}
    /\ NoName \notin Names /\ Freed \notin Names

(***************************************************************************)
(* deparse      deparseColumnRef and the colmap of a binary INSERT use the *)
(*              name before they look up another.                          *)
(* httpInsert   http_prepare_insert keeps every name until it makes the    *)
(*              writer.                                                    *)
(* vector       chfdw_vector_plan_info keeps one name over the metadata    *)
(*              lookup.                                                    *)
(***************************************************************************)
Callers == {"deparse", "httpInsert", "vector"}

(* Every variable has its type. *)
TypeOK ==
    /\ catalog \in [Attrs -> Names \cup {NoName}]
    /\ table \in [Attrs -> Elements \cup {NoElement}]
    /\ colname \in [Elements -> Chunks \cup {Null, Garbage}]
    /\ heap \in [Chunks -> Names \cup {Freed}]
    /\ stmt \in Callers \cup {None}
    /\ phase \in {"prime", "get"}
    /\ pc \in {"enter", "open", "options", "copy", "kept"}
    /\ attno \in 1 .. (Cols + 1)
    /\ elem \in Elements \cup {NoElement}
    /\ kept \subseteq Attrs \X (Chunks \cup {Null, Garbage}) \X BOOLEAN
    /\ read \subseteq Attrs \X (Names \cup {NoName, Freed}) \X BOOLEAN
    /\ half \subseteq Attrs
    /\ queued \in BOOLEAN /\ locked \in BOOLEAN
    /\ badFree \in BOOLEAN /\ strayed \in BOOLEAN
    /\ alters \in 0 .. MaxAlters

Init ==
    /\ catalog \in [Attrs -> Names \cup {NoName}]
    /\ alters = 0
    /\ queued = FALSE
    /\ table = [a \in Attrs |-> NoElement]
    /\ colname = [e \in Elements |-> Garbage]
    /\ heap = [c \in Chunks |-> Freed]
    /\ half = {} /\ badFree = FALSE /\ strayed = FALSE
    /\ stmt = None /\ kept = {} /\ read = {}
    /\ phase = "get" /\ pc = "enter" /\ attno = 1 /\ elem = NoElement
    /\ locked = FALSE

-----------------------------------------------------------------------------
(***************************************************************************)
(* Other sessions.  ALTER FOREIGN TABLE ... OPTIONS locks the table        *)
(* against every reader; a change to another table's attribute queues the  *)
(* same kind of invalidation at any time.                                  *)
(***************************************************************************)
AlterColumn(a, o) ==
    /\ alters < MaxAlters
    /\ ~locked
    /\ catalog' = [catalog EXCEPT ![a] = o]
    /\ queued' = TRUE
    /\ alters' = alters + 1
    /\ UNCHANGED <<table, heap, half, badFree, strayed, colname, caller, phase, pc,
                   attno, elem, locked>>

AlterOtherTable ==
    /\ alters < MaxAlters
    /\ queued' = TRUE
    /\ alters' = alters + 1
    /\ UNCHANGED <<catalog, table, heap, half, badFree, strayed, colname, caller,
                   phase, pc, attno, elem, locked>>

-----------------------------------------------------------------------------
(***************************************************************************)
(* invalidate_custom_columns_cache frees the name of every entry and       *)
(* removes the entry; the element keeps its contents.  An entry that is    *)
(* entered and not written yet, by the lookup that runs or by one that     *)
(* raised, has the pointer its element came with (Unwritten).              *)
(***************************************************************************)
Entries == {a \in Attrs : table[a] # NoElement}
Pointer(a) == colname[table[a]]
Named == {a \in Entries : Pointer(a) # Null}

(* pfree of p is wrong: no chunk, freed before, or freed twice in this pass. *)
BadPointer(a) ==
    \/ Pointer(a) = Garbage
    \/ heap[Pointer(a)] = Freed
    \/ \E b \in Named \ {a} : Pointer(b) = Pointer(a)

Unwritten == half \cup (IF pc = "open" THEN {attno} ELSE {})

(* A bug: a change to an attribute leaves the entries. *)
EntriesStay == UNCHANGED <<badFree, strayed, heap, table, half>>

invalidate_custom_columns_cache ==
    /\ badFree' = (badFree \/ \E a \in Named : BadPointer(a))
    /\ strayed' = (strayed \/ Named \cap Unwritten # {})
    /\ half' = {}
    /\ heap' = [c \in Chunks |->
                  IF \E a \in Named : Pointer(a) = c THEN Freed ELSE heap[c]]
    /\ table' = [a \in Attrs |-> NoElement]

ProcessInvalidations ==
    queued /\ invalidate_custom_columns_cache /\ queued' = FALSE

AcceptInvalidations == ProcessInvalidations \/ (~queued /\ UNCHANGED memory)

(* A catalog read that may find everything cached. *)
ReadCatalog == ProcessInvalidations \/ UNCHANGED memory

-----------------------------------------------------------------------------
(* A transaction locks the table, which reads the queue, and ends. *)
LockTable ==
    /\ ~locked
    /\ locked' = TRUE
    /\ AcceptInvalidations
    /\ UNCHANGED <<shared, colname, caller, phase, pc, attno, elem>>

EndTransaction ==
    /\ locked /\ stmt = None
    /\ locked' = FALSE
    /\ UNCHANGED <<shared, memory, colname, caller, phase, pc, attno, elem>>

(***************************************************************************)
(* Planning a scan primes the cache in GetForeignRelSize before anything   *)
(* reads a name; an INSERT reads names without it.                         *)
(***************************************************************************)
Start(k, p) ==
    /\ locked /\ stmt = None
    /\ stmt' = k
    /\ phase' = p
    /\ pc' = "enter" /\ attno' = 1
    /\ UNCHANGED <<shared, memory, colname, kept, read, elem, locked>>

StartScan == Start("deparse", "prime")
StartInsert == Start("deparse", "get")
StartHttpInsert == Start("httpInsert", "get")
StartVectorScan == Start("vector", "prime")

(* The last name was used. *)
Finish ==
    /\ stmt # None /\ phase = "get" /\ pc = "enter" /\ attno > Cols
    /\ stmt' = None /\ read' = {} /\ kept' = {}
    /\ UNCHANGED <<shared, memory, colname, phase, pc, attno, elem, locked>>

-----------------------------------------------------------------------------
(* hash_search(HASH_ENTER) of a missing key takes an element off the free  *)
(* list.                                                                   *)
FreeElements == Elements \ {table[a] : a \in Attrs}

HashEnter ==
    /\ stmt # None /\ pc = "enter" /\ attno <= Cols /\ table[attno] = NoElement
    /\ \E e \in FreeElements :
          elem' = e /\ table' = [table EXCEPT ![attno] = e]
    /\ UNCHANGED <<shared, queued, heap, half, badFree, strayed, caller, phase, attno,
                   locked>>

HashFound ==
    /\ stmt # None /\ pc = "enter" /\ attno <= Cols /\ table[attno] # NoElement
    /\ UNCHANGED <<shared, memory, colname, stmt, elem, locked>>

(* A bug: colname is only set when the column has a column_name option. *)
FieldsNotCleared(e) == UNCHANGED colname

(* populate_custom_column_entry begins by clearing the entry's fields. *)
ClearFields(e) == colname' = [colname EXCEPT ![e] = Null]

(***************************************************************************)
(* chfdw_apply_custom_table_options: a present entry is left alone, a      *)
(* missing one is entered and its fields are cleared at once.              *)
(***************************************************************************)
PrimeFound ==
    /\ phase = "prime"
    /\ HashFound
    /\ attno' = attno + 1
    /\ UNCHANGED <<kept, read, phase, pc>>

PrimeEnter ==
    /\ phase = "prime"
    /\ HashEnter
    /\ ClearFields(elem')
    /\ pc' = "options"

(***************************************************************************)
(* The catalog reads between lookups: table_open before the cache is       *)
(* primed, and what else the deparser reads of the catalogs.               *)
(***************************************************************************)
ReadOtherCatalogs ==
    /\ stmt # None /\ pc = "enter"
    /\ ProcessInvalidations
    /\ UNCHANGED <<shared, colname, caller, phase, pc, attno, elem, locked>>

PrimeDone ==
    /\ stmt # None /\ phase = "prime" /\ pc = "enter" /\ attno > Cols
    /\ phase' = "get" /\ attno' = 1
    /\ UNCHANGED <<shared, memory, colname, caller, pc, elem, locked>>

-----------------------------------------------------------------------------
(* The name a caller sees through a pointer; without one it takes the      *)
(* attribute's own name.                                                   *)
NameAt(p) == IF p = Null THEN NoName ELSE IF p = Garbage THEN Freed ELSE heap'[p]

(* What the caller does with the entry's colname p; f: the entry is filled. *)
UseNow(p, f) ==
    /\ stmt = "deparse"
    /\ read' = read \cup {<<attno, NameAt(p), f>>}
    /\ attno' = attno + 1
    /\ pc' = "enter"
    /\ UNCHANGED <<kept, phase>>

KeepAll(p, f) ==
    /\ stmt = "httpInsert"
    /\ kept' = kept \cup {<<attno, p, f>>}
    /\ attno' = attno + 1
    /\ pc' = IF attno = Cols THEN "kept" ELSE "enter"
    /\ UNCHANGED <<read, phase>>

KeepOne(p, f) ==
    /\ stmt = "vector"
    /\ kept' = kept \cup {<<attno, p, f>>}
    /\ attno' = Cols + 1
    /\ pc' = "kept"
    /\ UNCHANGED <<read, phase>>

Keep(p, f) == KeepAll(p, f) \/ KeepOne(p, f)

(* chfdw_get_custom_column_info: a hit, and a miss that enters the key. *)
GetFound ==
    /\ phase = "get"
    /\ HashFound
    /\ UseNow(colname[table[attno]], attno \notin half)

KeepFound ==
    /\ phase = "get"
    /\ HashFound
    /\ Keep(colname[table[attno]], attno \notin half)

GetEnter ==
    /\ phase = "get"
    /\ HashEnter
    /\ pc' = "open"
    /\ UNCHANGED colname

(***************************************************************************)
(* table_open finds the relation in the relation cache, and                *)
(* populate_custom_column_entry begins.  RebuildTable is the case that the *)
(* cached relation was invalidated: building it again reads the catalogs   *)
(* while the new entry still has the element's old contents.               *)
(***************************************************************************)
OpenTable ==
    /\ pc = "open"
    /\ ClearFields(elem)
    /\ pc' = "options"
    /\ UNCHANGED <<shared, memory, caller, phase, attno, elem, locked>>

RebuildTable ==
    /\ pc = "open"
    /\ ProcessInvalidations
    /\ ClearFields(elem)
    /\ pc' = "options"
    /\ UNCHANGED <<shared, caller, phase, attno, elem, locked>>

(* GetForeignColumnOptions reads the attribute's row. *)
GetForeignColumnOptions ==
    /\ pc = "options"
    /\ ReadCatalog
    /\ pc' = "copy"
    /\ UNCHANGED <<shared, colname, caller, phase, attno, elem, locked>>

(***************************************************************************)
(* The option's value is copied to a new chunk and stored in the entry,    *)
(* which an invalidation may have removed since.                           *)
(***************************************************************************)
CopyName ==
    \/ /\ catalog[attno] = NoName
       /\ UNCHANGED <<heap, colname>>
    \/ \E c \in {d \in Chunks : heap[d] = Freed} :
          /\ catalog[attno] # NoName
          /\ heap' = [heap EXCEPT ![c] = catalog[attno]]
          /\ colname' = [colname EXCEPT ![elem] = c]

PrimeFill ==
    /\ phase = "prime" /\ pc = "copy"
    /\ CopyName
    /\ attno' = attno + 1 /\ pc' = "enter" /\ elem' = NoElement
    /\ UNCHANGED <<shared, queued, table, half, badFree, strayed, caller, phase, locked>>

GetFill ==
    /\ phase = "get" /\ pc = "copy"
    /\ CopyName
    /\ UseNow(colname'[elem], TRUE) /\ elem' = NoElement
    /\ UNCHANGED <<shared, queued, table, half, badFree, strayed, stmt, locked>>

KeepFill ==
    /\ phase = "get" /\ pc = "copy"
    /\ CopyName
    /\ Keep(colname'[elem], TRUE) /\ elem' = NoElement
    /\ UNCHANGED <<shared, queued, table, half, badFree, strayed, stmt, locked>>

(***************************************************************************)
(* The catalog reads between keeping a name and using it: the DESCRIBE and *)
(* its decoding in http_prepare_insert, the index metadata lookup and the  *)
(* server version in fallback_reason.                                      *)
(***************************************************************************)
UseKept ==
    /\ pc = "kept"
    /\ ReadCatalog
    /\ read' = read \cup {<<k[1], NameAt(k[2]), k[3]>> : k \in kept}
    /\ pc' = "enter"
    /\ UNCHANGED <<shared, colname, stmt, kept, phase, attno, elem, locked>>

(***************************************************************************)
(* table_open or GetForeignColumnOptions raises, maybe after it processed  *)
(* an invalidation, and the transaction aborts.  Nothing removes the key   *)
(* that the lookup entered: the entry stays, and is found by the next      *)
(* lookups with what its fields then held.                                 *)
(***************************************************************************)
Raise ==
    /\ pc \in {"open", "options"}
    /\ \/ ProcessInvalidations
       \/ /\ half' = half \cup ({attno} \cap Entries)
          /\ UNCHANGED <<queued, table, heap, badFree, strayed>>
    /\ stmt' = None /\ pc' = "enter" /\ attno' = Cols + 1 /\ phase' = "get"
    /\ locked' = FALSE
    /\ read' = {} /\ kept' = {} /\ elem' = NoElement
    /\ UNCHANGED <<shared, colname>>

-----------------------------------------------------------------------------
Others ==
    \/ \E a \in Attrs, o \in Names \cup {NoName} : AlterColumn(a, o)
    \/ AlterOtherTable

Lookup ==
    \/ PrimeFound \/ PrimeEnter \/ PrimeDone \/ PrimeFill
    \/ GetFound \/ GetEnter \/ OpenTable \/ RebuildTable \/ GetForeignColumnOptions
    \/ GetFill \/ Raise \/ ReadOtherCatalogs \/ Finish

Next ==
    \/ Others
    \/ LockTable \/ EndTransaction
    \/ StartScan \/ StartInsert
    \/ Lookup

Spec == Init /\ [][Next]_vars

(* The callers that keep a name over other reads. *)
Keeping == KeepFound \/ KeepFill \/ UseKept
SpecHttpInsert == Init /\ [][Next \/ StartHttpInsert \/ Keeping]_vars
SpecVector == Init /\ [][Next \/ StartVectorScan \/ Keeping]_vars

-----------------------------------------------------------------------------
(***************************************************************************)
(* A column name that a statement puts in its remote query is the          *)
(* column_name option in force under the statement's table lock, whatever  *)
(* invalidations arrive in the middle of chfdw_get_custom_column_info,     *)
(* whichever lookups raised, and whatever entries earlier statements left. *)
(* Two cases are excepted: the entry was left unfilled by a lookup that    *)
(* raised (r[3] is FALSE; the attribute's own name is taken for the        *)
(* option), and the memory is no longer sound, since the callback gave     *)
(* pfree a pointer that no lookup had written.  NameAlwaysDeclared has no  *)
(* exception, and is violated.                                             *)
(***************************************************************************)
NameIsDeclared ==
    locked /\ ~strayed => \A r \in read : r[3] => r[2] = catalog[r[1]]

NameAlwaysDeclared ==
    locked => \A r \in read : r[2] = catalog[r[1]]

(***************************************************************************)
(* The entries whose pointers no lookup has written are the only way that  *)
(* invalidate_custom_columns_cache comes to free anything but a live       *)
(* string: the entry of a lookup whose table_open processes an             *)
(* invalidation (RebuildTable), and one that a raised lookup left (Raise). *)
(* Until the callback has met one of those with a pointer in it, it frees  *)
(* live strings only, each once.  NeverFreesWrongly leaves out the         *)
(* condition, and is violated.                                             *)
(***************************************************************************)
FreesLiveNames == badFree => strayed

NeverFreesWrongly == ~badFree

-----------------------------------------------------------------------------
(***************************************************************************)
(* The inductive invariant of Spec.                                        *)
(***************************************************************************)
(* A lookup runs in a statement, under its lock; the callers of Spec keep no
   name. *)
LookupRuns ==
    /\ stmt \in {"deparse", None} /\ kept = {} /\ pc # "kept"
    /\ stmt # None => locked
    /\ stmt = None => read = {}
    /\ pc # "enter" => stmt # None /\ attno \in Attrs /\ elem \in Elements

(* It runs on an element that no entry but its own has. *)
LookupOwnsElement ==
    /\ pc # "enter" =>
        /\ table[attno] \in {elem, NoElement}
        /\ \A a \in Attrs \ {attno} : table[a] # elem
    /\ pc \in {"options", "copy"} => colname[elem] = Null

(* The entries that have been written. *)
Readable == Entries \ Unwritten

(* Each entry has its own element, and if written a name of its own or none. *)
EntriesApart ==
    /\ \A a, b \in Entries : table[a] = table[b] => a = b
    /\ \A a \in Readable : Pointer(a) # Null =>
        /\ Pointer(a) \in Chunks
        /\ heap[Pointer(a)] # Freed
        /\ \A b \in Readable : Pointer(b) = Pointer(a) => a = b

(* The entries that are filled name the options in force, while the table is
   locked or no invalidation waits. *)
Filled == {a \in Entries \ half : pc = "enter" \/ a # attno}
CachedName(a) == IF Pointer(a) = Null THEN NoName ELSE heap[Pointer(a)]

FilledAreCurrent ==
    locked \/ ~queued => \A a \in Filled : CachedName(a) = catalog[a]

(* The memory is sound until the callback has met an unwritten pointer. *)
Sound ==
    /\ LookupOwnsElement /\ EntriesApart /\ FilledAreCurrent
    /\ NameIsDeclared /\ FreesLiveNames

ColumnInv == TypeOK /\ LookupRuns /\ (strayed \/ Sound)
=============================================================================
