------------------------- MODULE ColumnCacheProofs -------------------------
(***************************************************************************)
(* Proofs about the column options cache, for tables of any number of      *)
(* columns and any number of changes by other sessions.  The invariant     *)
(* says what an invalidation in the middle of a lookup may and may not     *)
(* find.  Only the entries that no lookup has written can hold a pointer   *)
(* that is not theirs (Unwritten): the one of a lookup that is in          *)
(* table_open, and those that raised lookups left.  While the callback has *)
(* met none of them (~strayed), every written entry owns its string, and   *)
(* the names are those in force; the lemmas below show each step to keep   *)
(* that or to be the one where the callback meets such an entry.           *)
(***************************************************************************)
EXTENDS ColumnCache, TLAPS

(* The special pointers and elements are none of the real ones. *)
LEMMA Addresses ==
  ASSUME ColumnConstants
  PROVE  /\ Null \notin Chunks /\ Garbage \notin Chunks /\ Null # Garbage
         /\ NoElement \notin Elements /\ Attrs = Elements
         /\ \A i \in 1 .. (Cols + 1) : i <= Cols => i \in Attrs /\ i + 1 \in 1 .. (Cols + 1)
         /\ \A i \in Attrs : i \in 1 .. (Cols + 1)
         /\ \A i \in Attrs : i <= Cols /\ i + 1 \in 1 .. (Cols + 1)
         /\ 1 \in 1 .. (Cols + 1)
  BY DEF ColumnConstants, Null, Chunks, Garbage, NoElement, Elements, Attrs

(***************************************************************************)
(* What holds whatever the callback frees: the types, and when a lookup    *)
(* runs.                                                                   *)
(***************************************************************************)
(* A run of the callback, or none, leaves the memory well typed, and does not
   forget that it strayed. *)
LEMMA MemoryTypes ==
  ASSUME ColumnConstants, TypeOK, ReadCatalog \/ AcceptInvalidations
  PROVE  /\ heap' \in [Chunks -> Names \cup {Freed}]
         /\ table' \in [Attrs -> Elements \cup {NoElement}]
         /\ half' \subseteq Attrs /\ queued' \in BOOLEAN
         /\ badFree' \in BOOLEAN /\ strayed' \in BOOLEAN
         /\ strayed => strayed'
  <1>1. CASE ProcessInvalidations
    <2>1. /\ heap' \in [Chunks -> Names \cup {Freed}]
          /\ table' \in [Attrs -> Elements \cup {NoElement}]
      BY <1>1 DEF ProcessInvalidations, invalidate_custom_columns_cache, TypeOK
    <2>2. /\ half' = {} /\ queued' = FALSE
          /\ badFree' = (badFree \/ \E a \in Named : BadPointer(a))
          /\ strayed' = (strayed \/ Named \cap Unwritten # {})
      BY <1>1 DEF ProcessInvalidations, invalidate_custom_columns_cache
    <2> QED BY <2>1, <2>2
  <1>2. CASE UNCHANGED memory
    BY <1>2 DEF memory, TypeOK
  <1> QED BY <1>1, <1>2 DEF ReadCatalog, AcceptInvalidations

(* What a caller sees through a pointer is a name, no name or a freed one. *)
LEMMA NameAtType ==
  ASSUME NEW p \in Chunks \cup {Null, Garbage}, heap' \in [Chunks -> Names \cup {Freed}]
  PROVE  NameAt(p) \in Names \cup {NoName, Freed}
  BY DEF NameAt

(* A read of a name keeps the types of what the caller has read. *)
LEMMA UseNowTypes ==
  ASSUME ColumnConstants, TypeOK, LookupRuns, attno \in Attrs,
         heap' \in [Chunks -> Names \cup {Freed}],
         NEW p \in Chunks \cup {Null, Garbage}, NEW f \in BOOLEAN, UseNow(p, f)
  PROVE  /\ read' \subseteq Attrs \X (Names \cup {NoName, Freed}) \X BOOLEAN
         /\ attno' \in 1 .. (Cols + 1) /\ pc' = "enter" /\ kept' = kept /\ phase' = phase
  <1>1. <<attno, NameAt(p), f>> \in Attrs \X (Names \cup {NoName, Freed}) \X BOOLEAN
    BY NameAtType
  <1>2. read' = read \cup {<<attno, NameAt(p), f>>} /\ attno' = attno + 1
    BY DEF UseNow
  <1> QED BY <1>1, <1>2, Addresses DEF UseNow, TypeOK

(* The copy of a name, where the lookup has an element. *)
LEMMA CopyTypes ==
  ASSUME ColumnConstants, TypeOK, elem \in Elements, attno \in Attrs, CopyName
  PROVE  /\ heap' \in [Chunks -> Names \cup {Freed}]
         /\ colname' \in [Elements -> Chunks \cup {Null, Garbage}]
         /\ colname'[elem] \in Chunks \cup {Null, Garbage}
  <1>1. CASE UNCHANGED <<heap, colname>>
    BY <1>1 DEF TypeOK
  <1>2. ASSUME NEW c \in Chunks, catalog[attno] # NoName,
               heap' = [heap EXCEPT ![c] = catalog[attno]],
               colname' = [colname EXCEPT ![elem] = c]
        PROVE  /\ heap' \in [Chunks -> Names \cup {Freed}]
               /\ colname' \in [Elements -> Chunks \cup {Null, Garbage}]
    BY <1>2 DEF TypeOK
  <1>3. /\ heap' \in [Chunks -> Names \cup {Freed}]
        /\ colname' \in [Elements -> Chunks \cup {Null, Garbage}]
    BY <1>1, <1>2 DEF CopyName
  <1> QED BY <1>3

(* Types, locks and the mark, over every step. *)
Structure == TypeOK' /\ LookupRuns' /\ (strayed => strayed')

(* The steps between lookups and the other sessions. *)
LEMMA StructureOutside ==
  ASSUME ColumnConstants, TypeOK, LookupRuns,
         \/ Others \/ LockTable \/ EndTransaction \/ StartScan \/ StartInsert
         \/ ReadOtherCatalogs \/ PrimeFound \/ PrimeDone \/ Finish
  PROVE  Structure
  <1>1. CASE Others
    <2>1. /\ UNCHANGED <<table, heap, half, badFree, strayed, colname, stmt, kept, read,
                         phase, pc, attno, elem, locked>>
          /\ queued' = TRUE /\ alters < MaxAlters /\ alters' = alters + 1
          /\ catalog' \in [Attrs -> Names \cup {NoName}]
      BY <1>1 DEF Others, AlterColumn, AlterOtherTable, caller, TypeOK
    <2>2. TypeOK'
      BY <2>1 DEF TypeOK, ColumnConstants
    <2> QED BY <2>1, <2>2 DEF Structure, LookupRuns
  <1>2. CASE LockTable \/ ReadOtherCatalogs
    <2>1. /\ UNCHANGED <<catalog, alters, colname, stmt, kept, read, phase, pc, attno, elem>>
          /\ locked' \in BOOLEAN /\ (locked => locked')
          /\ ReadCatalog \/ AcceptInvalidations
      BY <1>2 DEF LockTable, ReadOtherCatalogs, ReadCatalog, shared, caller, TypeOK
    <2>2. /\ heap' \in [Chunks -> Names \cup {Freed}]
          /\ table' \in [Attrs -> Elements \cup {NoElement}]
          /\ half' \subseteq Attrs /\ queued' \in BOOLEAN
          /\ badFree' \in BOOLEAN /\ strayed' \in BOOLEAN
          /\ strayed => strayed'
      BY <2>1, MemoryTypes
    <2>3. TypeOK'
      BY <2>1, <2>2 DEF TypeOK
    <2>4. LookupRuns'
      BY <2>1 DEF LookupRuns
    <2> QED BY <2>2, <2>3, <2>4 DEF Structure
  <1>3. CASE EndTransaction \/ StartScan \/ StartInsert \/ PrimeFound \/ PrimeDone \/ Finish
    <2>1. /\ UNCHANGED <<catalog, alters, queued, table, heap, half, badFree, strayed, colname>>
          /\ pc = "enter" /\ pc' = "enter"
          /\ read' \in {read, {}} /\ kept' = {}
      BY <1>3 DEF EndTransaction, StartScan, StartInsert, Start, Finish, PrimeDone, PrimeFound,
                  HashFound, shared, memory, caller, LookupRuns
    <2>2. /\ attno' \in 1 .. (Cols + 1) /\ elem' \in Elements \cup {NoElement}
          /\ phase' \in {"prime", "get"} /\ stmt' \in {"deparse", None}
          /\ locked' \in BOOLEAN /\ (stmt' # None => locked')
          /\ stmt' = None => read' = {}
      <3>1. CASE EndTransaction
        BY <3>1 DEF EndTransaction, TypeOK, LookupRuns, caller
      <3>2. CASE StartScan \/ StartInsert
        BY <3>2, Addresses DEF StartScan, StartInsert, Start, TypeOK, LookupRuns
      <3>3. CASE Finish
        BY <3>3 DEF Finish, TypeOK, LookupRuns
      <3>4. CASE PrimeDone
        BY <3>4, Addresses DEF PrimeDone, TypeOK, LookupRuns, caller
      <3>5. CASE PrimeFound
        BY <3>5, Addresses DEF PrimeFound, HashFound, TypeOK, LookupRuns
      <3> QED BY <1>3, <3>1, <3>2, <3>3, <3>4, <3>5
    <2>3. TypeOK'
      BY <2>1, <2>2 DEF TypeOK, Callers
    <2> QED BY <2>1, <2>2, <2>3 DEF Structure, LookupRuns
  <1> QED BY <1>1, <1>2, <1>3

(* The steps of a lookup. *)
LEMMA StructureLookup ==
  ASSUME ColumnConstants, TypeOK, LookupRuns,
         \/ PrimeEnter \/ GetEnter \/ GetFound \/ OpenTable \/ RebuildTable
         \/ GetForeignColumnOptions \/ PrimeFill \/ GetFill \/ Raise
  PROVE  Structure
  <1>1. CASE PrimeEnter \/ GetEnter
    <2>1. /\ UNCHANGED <<catalog, alters, queued, heap, half, badFree, strayed, stmt, kept,
                         read, phase, attno, locked>>
          /\ HashEnter /\ pc' \in {"open", "options"}
          /\ colname' \in {[colname EXCEPT ![elem'] = Null], colname}
      BY <1>1 DEF PrimeEnter, GetEnter, HashEnter, ClearFields, shared, caller
    <2>2. /\ elem' \in Elements /\ attno \in Attrs /\ stmt # None
          /\ table' \in [Attrs -> Elements \cup {NoElement}]
      BY <2>1, Addresses DEF HashEnter, FreeElements, TypeOK
    <2>3. colname' \in [Elements -> Chunks \cup {Null, Garbage}]
      BY <2>1, <2>2 DEF TypeOK
    <2>4. TypeOK'
      BY <2>1, <2>2, <2>3 DEF TypeOK
    <2> QED BY <2>1, <2>2, <2>4 DEF Structure, LookupRuns
  <1>2. CASE GetFound
    <2>1. /\ UNCHANGED <<catalog, alters, queued, table, heap, half, badFree, strayed, colname,
                         stmt, elem, locked>>
          /\ stmt # None /\ attno <= Cols /\ table[attno] # NoElement
          /\ UseNow(colname[table[attno]], attno \notin half)
      BY <1>2 DEF GetFound, HashFound, shared, memory
    <2>2. attno \in Attrs /\ colname[table[attno]] \in Chunks \cup {Null, Garbage}
      BY <2>1, Addresses DEF TypeOK
    <2>3. /\ read' \subseteq Attrs \X (Names \cup {NoName, Freed}) \X BOOLEAN
          /\ attno' \in 1 .. (Cols + 1) /\ pc' = "enter" /\ kept' = kept /\ phase' = phase
      BY <2>1, <2>2, UseNowTypes DEF TypeOK
    <2>4. TypeOK'
      BY <2>1, <2>3 DEF TypeOK
    <2> QED BY <2>1, <2>3, <2>4 DEF Structure, LookupRuns
  <1>3. CASE OpenTable \/ RebuildTable \/ GetForeignColumnOptions
    <2>1. /\ UNCHANGED <<catalog, alters, stmt, kept, read, phase, attno, elem, locked>>
          /\ pc # "enter" /\ pc' \in {"options", "copy"} /\ ReadCatalog
          /\ colname' \in {[colname EXCEPT ![elem] = Null], colname}
      BY <1>3 DEF OpenTable, RebuildTable, GetForeignColumnOptions, ReadCatalog, ClearFields,
                  shared, caller
    <2>2. elem \in Elements /\ attno \in Attrs /\ stmt # None
      BY <2>1 DEF LookupRuns
    <2>3. colname' \in [Elements -> Chunks \cup {Null, Garbage}]
      BY <2>1, <2>2 DEF TypeOK
    <2>4. /\ heap' \in [Chunks -> Names \cup {Freed}]
          /\ table' \in [Attrs -> Elements \cup {NoElement}]
          /\ half' \subseteq Attrs /\ queued' \in BOOLEAN
          /\ badFree' \in BOOLEAN /\ strayed' \in BOOLEAN
          /\ strayed => strayed'
      BY <2>1, MemoryTypes
    <2>5. TypeOK'
      BY <2>1, <2>2, <2>3, <2>4 DEF TypeOK
    <2> QED BY <2>1, <2>2, <2>4, <2>5 DEF Structure, LookupRuns
  <1>4. CASE PrimeFill \/ GetFill
    <2>1. /\ UNCHANGED <<catalog, alters, queued, table, half, badFree, strayed, stmt, locked>>
          /\ pc = "copy" /\ CopyName /\ elem' = NoElement
          /\ \/ attno' = attno + 1 /\ pc' = "enter" /\ UNCHANGED <<kept, read, phase>>
             \/ UseNow(colname'[elem], TRUE)
      BY <1>4 DEF PrimeFill, GetFill, shared, caller
    <2>2. elem \in Elements /\ attno \in Attrs /\ stmt # None
      BY <2>1 DEF LookupRuns
    <2>3. /\ heap' \in [Chunks -> Names \cup {Freed}]
          /\ colname' \in [Elements -> Chunks \cup {Null, Garbage}]
          /\ colname'[elem] \in Chunks \cup {Null, Garbage}
      BY <2>1, <2>2, CopyTypes
    <2>4. /\ read' \subseteq Attrs \X (Names \cup {NoName, Freed}) \X BOOLEAN
          /\ attno' \in 1 .. (Cols + 1) /\ pc' = "enter" /\ kept' = kept /\ phase' = phase
          /\ read' = read \/ locked
      <3>1. CASE UseNow(colname'[elem], TRUE)
        BY <2>2, <2>3, <3>1, UseNowTypes DEF LookupRuns
      <3>2. CASE attno' = attno + 1 /\ pc' = "enter" /\ UNCHANGED <<kept, read, phase>>
        BY <2>2, <3>2, Addresses DEF TypeOK
      <3> QED BY <2>1, <3>1, <3>2
    <2>5. TypeOK'
      BY <2>1, <2>3, <2>4 DEF TypeOK
    <2> QED BY <2>1, <2>2, <2>4, <2>5 DEF Structure, LookupRuns
  <1>5. CASE Raise
    <2>1. /\ UNCHANGED <<catalog, alters, colname>> /\ elem' = NoElement
          /\ stmt' = None /\ pc' = "enter" /\ attno' = Cols + 1 /\ phase' = "get"
          /\ locked' = FALSE /\ read' = {} /\ kept' = {}
          /\ \/ ProcessInvalidations
             \/ /\ half' = half \cup ({attno} \cap Entries)
                /\ UNCHANGED <<queued, table, heap, badFree, strayed>>
      BY <1>5 DEF Raise, shared
    <2>2. Cols + 1 \in 1 .. (Cols + 1)
      BY DEF ColumnConstants
    <2>3. /\ heap' \in [Chunks -> Names \cup {Freed}]
          /\ table' \in [Attrs -> Elements \cup {NoElement}]
          /\ half' \subseteq Attrs /\ queued' \in BOOLEAN
          /\ badFree' \in BOOLEAN /\ strayed' \in BOOLEAN
          /\ strayed => strayed'
      <3>1. CASE ProcessInvalidations
        BY <3>1, MemoryTypes DEF ReadCatalog
      <3>2. CASE /\ half' = half \cup ({attno} \cap Entries)
                 /\ UNCHANGED <<queued, table, heap, badFree, strayed>>
        BY <3>2 DEF TypeOK, Entries
      <3> QED BY <2>1, <3>1, <3>2
    <2>4. TypeOK'
      BY <2>1, <2>2, <2>3 DEF TypeOK
    <2> QED BY <2>1, <2>3, <2>4 DEF Structure, LookupRuns
  <1> QED BY <1>1, <1>2, <1>3, <1>4, <1>5

(***************************************************************************)
(* The memory while the callback has not strayed.                          *)
(***************************************************************************)
Quiet == TypeOK /\ LookupRuns /\ Sound /\ ~strayed

(* A run of the callback frees each live name once and leaves no entry, if it
   meets no unwritten pointer. *)
LEMMA ProcessFacts ==
  ASSUME ColumnConstants, Quiet, ProcessInvalidations, ~strayed'
  PROVE  /\ badFree' = FALSE
         /\ table' = [a \in Attrs |-> NoElement]
         /\ EntriesApart' /\ FilledAreCurrent'
  <1>1. /\ badFree' = (badFree \/ \E a \in Named : BadPointer(a))
        /\ strayed' = (strayed \/ Named \cap Unwritten # {})
        /\ table' = [a \in Attrs |-> NoElement]
    BY DEF ProcessInvalidations, invalidate_custom_columns_cache
  <1>2. \A a \in Named : ~BadPointer(a)
    <2> SUFFICES ASSUME NEW a \in Named PROVE ~BadPointer(a)
      OBVIOUS
    <2>1. \A b \in Named : b \in Readable /\ Pointer(b) # Null
      BY <1>1 DEF Named, Readable
    <2>2. /\ Pointer(a) \in Chunks /\ heap[Pointer(a)] # Freed
          /\ \A b \in Named : Pointer(b) = Pointer(a) => a = b
      BY <2>1 DEF Quiet, Sound, EntriesApart
    <2> QED BY <2>2, Addresses DEF BadPointer
  <1>3. badFree' = FALSE
    BY <1>1, <1>2 DEF Quiet, Sound, FreesLiveNames, TypeOK
  <1>4. Entries' = {} /\ Readable' = {} /\ Filled' = {}
    BY <1>1 DEF Entries, Readable, Filled
  <1>5. EntriesApart' /\ FilledAreCurrent'
    BY <1>4 DEF EntriesApart, FilledAreCurrent
  <1> QED BY <1>1, <1>3, <1>5

(* Steps that leave the table, its elements and the strings alone, and make no
   entry readable or filled. *)
LEMMA SameEntries ==
  ASSUME Quiet, table' = table, colname' = colname, heap' = heap,
         \/ pc = "enter" /\ pc' = "enter" /\ half' = half
         \/ /\ pc # "enter" /\ pc' # "enter" /\ (pc = "open" <=> pc' = "open")
            /\ attno' = attno /\ half' = half
         \/ /\ pc # "enter" /\ pc' = "enter"
            /\ half' = half \cup ({attno} \cap Entries)
  PROVE  /\ EntriesApart'
         /\ catalog' = catalog /\ (locked' \/ ~queued' => locked \/ ~queued)
              => FilledAreCurrent'
  <1>1. Entries' = Entries
    BY DEF Entries
  <1>2. Readable' \subseteq Readable /\ Filled' \subseteq Filled
    <2>1. CASE pc = "enter" /\ pc' = "enter" /\ half' = half
      BY <1>1, <2>1 DEF Readable, Unwritten, Filled
    <2>2. CASE /\ pc # "enter" /\ pc' # "enter" /\ (pc = "open" <=> pc' = "open")
               /\ attno' = attno /\ half' = half
      BY <1>1, <2>2 DEF Readable, Unwritten, Filled
    <2>3. CASE /\ pc # "enter" /\ pc' = "enter"
               /\ half' = half \cup ({attno} \cap Entries)
      BY <1>1, <2>3 DEF Readable, Unwritten, Filled
    <2> QED BY <2>1, <2>2, <2>3
  <1>3. \A a \in Attrs : Pointer(a)' = Pointer(a) /\ CachedName(a)' = CachedName(a)
    BY DEF Pointer, CachedName
  <1>4. Readable \subseteq Attrs /\ Filled \subseteq Attrs /\ Entries \subseteq Attrs
    BY DEF Readable, Filled, Entries
  <1>5. EntriesApart'
    <2>1. \A a, b \in Entries' : table'[a] = table'[b] => a = b
      BY <1>1 DEF Quiet, Sound, EntriesApart
    <2>2. ASSUME NEW a \in Readable', Pointer(a)' # Null
          PROVE  /\ Pointer(a)' \in Chunks /\ heap'[Pointer(a)'] # Freed
                 /\ \A b \in Readable' : Pointer(b)' = Pointer(a)' => a = b
      BY <1>2, <1>3, <1>4, <2>2 DEF Quiet, Sound, EntriesApart
    <2> QED BY <2>1, <2>2 DEF EntriesApart, Chunks, Null
  <1>6. ASSUME catalog' = catalog, locked' \/ ~queued' => locked \/ ~queued
        PROVE  FilledAreCurrent'
    BY <1>2, <1>3, <1>4, <1>6 DEF Quiet, Sound, FilledAreCurrent
  <1> QED BY <1>5, <1>6

(* Nothing new has been read and nothing freed. *)
LEMMA SameReads ==
  ASSUME Quiet, read' \in {read, {}}, locked' => locked \/ read' = {},
         catalog' = catalog \/ read' = {}, badFree' = FALSE
  PROVE  NameIsDeclared' /\ FreesLiveNames'
  BY DEF Quiet, Sound, NameIsDeclared, FreesLiveNames

(***************************************************************************)
(* Other sessions and transactions.                                        *)
(***************************************************************************)
LEMMA OthersSafe ==
  ASSUME ColumnConstants, Quiet, Others
  PROVE  Sound'
  <1>1. /\ UNCHANGED <<table, heap, half, badFree, colname, stmt, read, pc, attno, elem, locked>>
        /\ queued' = TRUE
        /\ locked => catalog' = catalog
    BY DEF Others, AlterColumn, AlterOtherTable, caller
  <1>2. LookupOwnsElement'
    BY <1>1 DEF Quiet, Sound, LookupOwnsElement
  <1>3. NameIsDeclared' /\ FreesLiveNames'
    BY <1>1 DEF Quiet, Sound, LookupRuns, NameIsDeclared, FreesLiveNames
  <1>4. EntriesApart' /\ FilledAreCurrent'
    <2>1. CASE locked
      BY <1>1, <2>1, SameEntries
    <2>2. CASE ~locked
      BY <1>1, <2>2, SameEntries DEF FilledAreCurrent
    <2> QED BY <2>1, <2>2
  <1> QED BY <1>2, <1>3, <1>4 DEF Sound

(* LockTable reads the queue: what is left in the table is current from here
   to the end of the transaction.  The catalog reads between lookups run the
   callback at most. *)
LEMMA LockSafe ==
  ASSUME ColumnConstants, Quiet, LockTable \/ ReadOtherCatalogs, ~strayed'
  PROVE  Sound'
  <1>1. /\ UNCHANGED <<colname, stmt, read, pc, attno, elem, catalog>>
        /\ ProcessInvalidations \/ (~queued /\ UNCHANGED memory)
        /\ pc = "enter"
        /\ locked' => locked \/ read' = {}
    BY DEF LockTable, ReadOtherCatalogs, AcceptInvalidations, caller, shared,
           Quiet, LookupRuns
  <1>2. badFree' = FALSE /\ EntriesApart' /\ FilledAreCurrent'
    <2>1. CASE ProcessInvalidations
      BY <2>1, ProcessFacts
    <2>2. CASE ~queued /\ UNCHANGED memory
      <3>1. badFree' = FALSE
        BY <2>2 DEF memory, Quiet, Sound, FreesLiveNames, TypeOK
      <3> QED BY <1>1, <2>2, <3>1, SameEntries DEF memory
    <2> QED BY <1>1, <2>1, <2>2
  <1>3. LookupOwnsElement'
    BY <1>1 DEF LookupOwnsElement
  <1>4. NameIsDeclared' /\ FreesLiveNames'
    BY <1>1, <1>2, SameReads
  <1> QED BY <1>2, <1>3, <1>4 DEF Sound

(* The other steps between lookups. *)
LEMMA BetweenLookupsSafe ==
  ASSUME ColumnConstants, Quiet,
         EndTransaction \/ StartScan \/ StartInsert \/ Finish \/ PrimeDone \/ PrimeFound
  PROVE  Sound'
  <1>1. /\ UNCHANGED <<catalog, queued, table, heap, half, badFree, colname>>
        /\ pc = "enter" /\ pc' = "enter"
        /\ read' \in {read, {}}
        /\ locked' => locked
    BY DEF EndTransaction, StartScan, StartInsert, Start, Finish, PrimeDone, PrimeFound,
           HashFound, shared, memory, caller, Quiet, LookupRuns
  <1>2. badFree' = FALSE
    BY <1>1 DEF Quiet, Sound, FreesLiveNames, TypeOK
  <1>3. LookupOwnsElement'
    BY <1>1 DEF LookupOwnsElement
  <1>4. NameIsDeclared' /\ FreesLiveNames'
    BY <1>1, <1>2, SameReads
  <1>5. EntriesApart' /\ FilledAreCurrent'
    BY <1>1, SameEntries
  <1> QED BY <1>3, <1>4, <1>5 DEF Sound

(* A hit gives the name of a filled entry, under the lock, or one of an entry
   known to be unfilled. *)
LEMMA GetFoundSafe ==
  ASSUME ColumnConstants, Quiet, GetFound
  PROVE  Sound'
  <1>0. TypeOK /\ LookupRuns /\ EntriesApart /\ FilledAreCurrent
    BY DEF Quiet, Sound
  <1>1. /\ UNCHANGED <<catalog, queued, table, heap, half, badFree, colname, stmt, elem, locked>>
        /\ pc = "enter" /\ pc' = "enter"
        /\ attno <= Cols /\ table[attno] # NoElement /\ stmt # None
        /\ read' = read \cup {<<attno, NameAt(colname[table[attno]]), attno \notin half>>}
    BY DEF GetFound, HashFound, UseNow, shared, memory
  <1>2. attno \in Attrs /\ attno \in Entries /\ locked
    BY <1>0, <1>1, Addresses DEF TypeOK, Entries, LookupRuns
  <1>3. attno \notin half => NameAt(colname[table[attno]]) = catalog[attno]
    <2> SUFFICES ASSUME attno \notin half
                 PROVE  NameAt(colname[table[attno]]) = catalog[attno]
      OBVIOUS
    <2>1. attno \in Filled /\ attno \in Readable
      BY <1>1, <1>2 DEF Filled, Readable, Unwritten
    <2>2. Pointer(attno) # Null => Pointer(attno) \in Chunks
      BY <1>0, <2>1 DEF EntriesApart
    <2>3. NameAt(colname[table[attno]]) = CachedName(attno)
      BY <1>1, <2>2, Addresses DEF NameAt, CachedName, Pointer
    <2>4. CachedName(attno) = catalog[attno]
      BY <1>0, <1>2, <2>1 DEF FilledAreCurrent
    <2> QED BY <2>3, <2>4
  <1>4. NameIsDeclared'
    <2> DEFINE r == <<attno, NameAt(colname[table[attno]]), attno \notin half>>
    <2>1. r[1] = attno /\ r[2] = NameAt(colname[table[attno]]) /\ r[3] = (attno \notin half)
      OBVIOUS
    <2>2. \A q \in read : q[3] => q[2] = catalog[q[1]]
      BY <1>2 DEF Quiet, Sound, NameIsDeclared
    <2>3. read' = read \cup {r}
      BY <1>1
    <2> HIDE DEF r
    <2> QED BY <1>1, <1>3, <2>1, <2>2, <2>3 DEF NameIsDeclared
  <1>5. LookupOwnsElement' /\ FreesLiveNames'
    BY <1>1 DEF Quiet, Sound, LookupOwnsElement, FreesLiveNames
  <1>6. EntriesApart' /\ FilledAreCurrent'
    BY <1>1, SameEntries
  <1> QED BY <1>4, <1>5, <1>6 DEF Sound

(***************************************************************************)
(* Misses.                                                                 *)
(***************************************************************************)
(* A miss enters its key with an element no entry has.  Its fields are not
   written until they are cleared. *)
LEMMA EnterSafe ==
  ASSUME ColumnConstants, Quiet, PrimeEnter \/ GetEnter
  PROVE  Sound'
  <1>0. TypeOK /\ LookupRuns /\ EntriesApart /\ FilledAreCurrent
    BY DEF Quiet, Sound
  <1>1. /\ HashEnter
        /\ \/ pc' = "options" /\ colname' = [colname EXCEPT ![elem'] = Null]
           \/ pc' = "open" /\ colname' = colname
    BY DEF PrimeEnter, GetEnter, ClearFields
  <1>2. /\ UNCHANGED <<catalog, queued, heap, half, badFree, stmt, read, attno, locked>>
        /\ pc = "enter" /\ attno <= Cols /\ table[attno] = NoElement /\ stmt # None
    BY <1>1 DEF HashEnter, shared, caller
  <1>3. PICK e \in FreeElements : elem' = e /\ table' = [table EXCEPT ![attno] = e]
    BY <1>1 DEF HashEnter
  <1>4. /\ e \in Elements /\ e # NoElement /\ attno \in Attrs
        /\ \A a \in Attrs : table[a] # e
        /\ table'[attno] = e /\ \A a \in Attrs : a # attno => table'[a] = table[a]
        /\ table' \in [Attrs -> Elements \cup {NoElement}]
    BY <1>0, <1>2, <1>3, Addresses DEF FreeElements, TypeOK
  <1>5. /\ \A f \in Elements : f # e => colname'[f] = colname[f]
        /\ pc' = "options" => colname'[e] = Null
    BY <1>0, <1>1, <1>3, <1>4 DEF TypeOK
  <1>6. LookupOwnsElement'
    BY <1>0, <1>1, <1>2, <1>3, <1>4, <1>5 DEF LookupOwnsElement
  <1>7. badFree' = FALSE
    BY <1>2 DEF Quiet, Sound, FreesLiveNames, TypeOK
  <1>8. NameIsDeclared' /\ FreesLiveNames'
    BY <1>2, <1>7, SameReads
  <1>9. /\ Entries' = Entries \cup {attno} /\ attno \notin Entries
        /\ Readable = Entries \ half /\ Filled = Entries \ half
        /\ Filled' = Entries \ half
        /\ \A a \in Readable' : a \in Readable \/ (a = attno /\ pc' = "options")
    BY <1>1, <1>2, <1>4 DEF Entries, Readable, Unwritten, Filled
  <1>10. /\ \A a \in Entries : /\ Pointer(a)' = Pointer(a) /\ CachedName(a)' = CachedName(a)
                               /\ table[a] # e /\ table'[a] = table[a]
         /\ pc' = "options" => Pointer(attno)' = Null
    <2>1. \A a \in Entries : a \in Attrs /\ a # attno /\ table[a] \in Elements /\ table[a] # e
      BY <1>0, <1>4, <1>9 DEF Entries, TypeOK
    <2> QED BY <1>2, <1>4, <1>5, <2>1 DEF Pointer, CachedName
  <1>11. EntriesApart'
    <2>1. \A a, b \in Entries' : table'[a] = table'[b] => a = b
      BY <1>0, <1>4, <1>9, <1>10 DEF EntriesApart
    <2>2. ASSUME NEW a \in Readable', Pointer(a)' # Null
          PROVE  /\ Pointer(a)' \in Chunks /\ heap'[Pointer(a)'] # Freed
                 /\ \A b \in Readable' : Pointer(b)' = Pointer(a)' => a = b
      BY <1>0, <1>2, <1>9, <1>10, <2>2, Addresses DEF EntriesApart
    <2> QED BY <2>1, <2>2, Addresses DEF EntriesApart, Chunks, Null
  <1>12. FilledAreCurrent'
    BY <1>0, <1>2, <1>9, <1>10 DEF FilledAreCurrent
  <1> QED BY <1>6, <1>8, <1>11, <1>12 DEF Sound

(* The fields of an element that only the lookup's own entry can have. *)
LEMMA ClearFacts ==
  ASSUME ColumnConstants, Quiet, pc = "open", ClearFields(elem)
  PROVE  /\ elem \in Elements /\ attno \in Attrs /\ table[attno] \in {elem, NoElement}
         /\ \A a \in Attrs \ {attno} : table[a] # elem
         /\ \A f \in Elements : f # elem => colname'[f] = colname[f]
         /\ colname'[elem] = Null
  BY DEF Quiet, Sound, TypeOK, LookupRuns, LookupOwnsElement, ClearFields

(* populate_custom_column_entry clears the fields of the new entry. *)
LEMMA OpenTableSafe ==
  ASSUME ColumnConstants, Quiet, OpenTable
  PROVE  Sound'
  <1>0. TypeOK /\ EntriesApart /\ FilledAreCurrent /\ LookupRuns
    BY DEF Quiet, Sound
  <1>1. /\ UNCHANGED <<catalog, queued, table, heap, half, badFree, stmt, elem, locked, read,
                       attno>>
        /\ pc = "open" /\ pc' = "options" /\ ClearFields(elem)
    BY DEF OpenTable, shared, memory, caller
  <1>2. /\ elem \in Elements /\ attno \in Attrs /\ table[attno] \in {elem, NoElement}
        /\ \A a \in Attrs \ {attno} : table[a] # elem
        /\ \A f \in Elements : f # elem => colname'[f] = colname[f]
        /\ colname'[elem] = Null
    BY <1>1, ClearFacts
  <1>3. LookupOwnsElement'
    BY <1>1, <1>2 DEF LookupOwnsElement
  <1>4. badFree' = FALSE
    BY <1>1 DEF Quiet, Sound, FreesLiveNames, TypeOK
  <1>5. NameIsDeclared' /\ FreesLiveNames'
    BY <1>1, <1>4, SameReads
  <1>6. /\ Entries' = Entries /\ Filled' = Filled
        /\ \A a \in Readable' : a \in Entries
        /\ \A a \in Readable' : a # attno => a \in Readable
        /\ \A a \in Filled : a \in Entries /\ a # attno
    BY <1>1 DEF Entries, Readable, Unwritten, Filled
  <1>7. /\ \A a \in Entries : a # attno =>
             Pointer(a)' = Pointer(a) /\ CachedName(a)' = CachedName(a)
        /\ attno \in Entries => Pointer(attno)' = Null
    <2>1. \A a \in Entries : a \in Attrs /\ table[a] \in Elements /\ (a # attno => table[a] # elem)
      BY <1>0, <1>2 DEF Entries, TypeOK
    <2>2. attno \in Entries => table[attno] = elem
      BY <1>2 DEF Entries
    <2> QED BY <1>1, <1>2, <2>1, <2>2 DEF Pointer, CachedName
  <1>8. EntriesApart'
    <2>1. \A a, b \in Entries' : table'[a] = table'[b] => a = b
      BY <1>0, <1>1, <1>6 DEF EntriesApart
    <2>2. ASSUME NEW a \in Readable', Pointer(a)' # Null
          PROVE  /\ Pointer(a)' \in Chunks /\ heap'[Pointer(a)'] # Freed
                 /\ \A b \in Readable' : Pointer(b)' = Pointer(a)' => a = b
      BY <1>0, <1>1, <1>6, <1>7, <2>2 DEF EntriesApart
    <2> QED BY <2>1, <2>2, Addresses DEF EntriesApart, Chunks, Null
  <1>9. FilledAreCurrent'
    BY <1>0, <1>1, <1>6, <1>7 DEF FilledAreCurrent
  <1> QED BY <1>3, <1>5, <1>8, <1>9 DEF Sound

(* table_open runs the callback, which finds no pointer in the new entry, and
   the fields are cleared in an element that no entry has any more. *)
LEMMA RebuildSafe ==
  ASSUME ColumnConstants, Quiet, RebuildTable, ~strayed'
  PROVE  Sound'
  <1>1. /\ UNCHANGED <<catalog, stmt, elem, locked, read, attno>>
        /\ pc = "open" /\ pc' = "options" /\ ClearFields(elem) /\ ProcessInvalidations
    BY DEF RebuildTable, shared, caller
  <1>2. badFree' = FALSE /\ table' = [a \in Attrs |-> NoElement]
    BY <1>1, ProcessFacts
  <1>3. elem \in Elements /\ attno \in Attrs /\ colname'[elem] = Null
    BY <1>1, ClearFacts
  <1>4. LookupOwnsElement'
    BY <1>1, <1>2, <1>3, Addresses DEF LookupOwnsElement
  <1>5. NameIsDeclared' /\ FreesLiveNames'
    BY <1>1, <1>2, SameReads
  <1>6. Entries' = {} /\ Readable' = {} /\ Filled' = {}
    BY <1>2 DEF Entries, Readable, Filled
  <1>7. EntriesApart' /\ FilledAreCurrent'
    BY <1>6 DEF EntriesApart, FilledAreCurrent
  <1> QED BY <1>4, <1>5, <1>7 DEF Sound

(* GetForeignColumnOptions may run the callback, which takes the entry being
   filled with the others. *)
LEMMA OptionsSafe ==
  ASSUME ColumnConstants, Quiet, GetForeignColumnOptions, ~strayed'
  PROVE  Sound'
  <1>1. /\ UNCHANGED <<catalog, colname, stmt, elem, locked, read, attno>>
        /\ pc = "options" /\ pc' = "copy" /\ ReadCatalog
    BY DEF GetForeignColumnOptions, shared, caller
  <1>2. /\ badFree' = FALSE /\ EntriesApart' /\ FilledAreCurrent'
        /\ table' \in {table, [a \in Attrs |-> NoElement]}
    <2>1. CASE ProcessInvalidations
      BY <2>1, ProcessFacts
    <2>2. CASE UNCHANGED memory
      <3>1. badFree' = FALSE
        BY <2>2 DEF memory, Quiet, Sound, FreesLiveNames, TypeOK
      <3> QED BY <1>1, <2>2, <3>1, SameEntries DEF memory
    <2> QED BY <1>1, <2>1, <2>2 DEF ReadCatalog
  <1>3. LookupOwnsElement'
    <2>1. elem \in Elements /\ attno \in Attrs
      BY <1>1 DEF Quiet, LookupRuns
    <2> QED BY <1>1, <1>2, <2>1, Addresses DEF Quiet, Sound, LookupOwnsElement
  <1>4. NameIsDeclared' /\ FreesLiveNames'
    BY <1>1, <1>2, SameReads
  <1> QED BY <1>2, <1>3, <1>4 DEF Sound

(* A catalog read that raises leaves the entry to be found unfilled. *)
LEMMA RaiseSafe ==
  ASSUME ColumnConstants, Quiet, Raise, ~strayed'
  PROVE  Sound'
  <1>1. /\ UNCHANGED <<catalog, colname>> /\ pc # "enter" /\ pc' = "enter"
        /\ read' = {} /\ locked
        /\ \/ ProcessInvalidations
           \/ /\ half' = half \cup ({attno} \cap Entries)
              /\ UNCHANGED <<queued, table, heap, badFree, strayed>>
    BY DEF Raise, shared, Quiet, LookupRuns
  <1>2. badFree' = FALSE /\ EntriesApart' /\ FilledAreCurrent'
    <2>1. CASE ProcessInvalidations
      BY <2>1, ProcessFacts
    <2>2. CASE /\ half' = half \cup ({attno} \cap Entries)
               /\ UNCHANGED <<queued, table, heap, badFree, strayed>>
      <3>1. badFree' = FALSE
        BY <2>2 DEF Quiet, Sound, FreesLiveNames, TypeOK
      <3> QED BY <1>1, <2>2, <3>1, SameEntries
    <2> QED BY <1>1, <2>1, <2>2
  <1>3. LookupOwnsElement'
    BY <1>1 DEF LookupOwnsElement
  <1>4. NameIsDeclared' /\ FreesLiveNames'
    BY <1>1, <1>2, SameReads
  <1> QED BY <1>2, <1>3, <1>4 DEF Sound

(* The name is stored in the entry, or in an element that no entry has any
   more; either way it is the option in force. *)
LEMMA CopyFacts ==
  ASSUME ColumnConstants, Quiet, pc = "copy", CopyName, table' = table,
         half' = half, pc' = "enter", catalog' = catalog, locked' = locked
  PROVE  /\ EntriesApart' /\ FilledAreCurrent'
         /\ NameAt(colname'[elem]) = catalog[attno]
  <1>0. TypeOK /\ LookupRuns /\ LookupOwnsElement /\ EntriesApart /\ FilledAreCurrent
    BY DEF Quiet, Sound
  <1>1. /\ elem \in Elements /\ attno \in Attrs /\ table[attno] \in {elem, NoElement}
        /\ \A a \in Attrs \ {attno} : table[a] # elem
        /\ colname[elem] = Null /\ locked
    BY <1>0 DEF LookupOwnsElement, LookupRuns
  <1>2. /\ heap' \in [Chunks -> Names \cup {Freed}]
        /\ colname' \in [Elements -> Chunks \cup {Null, Garbage}]
        /\ \A f \in Elements : f # elem => colname'[f] = colname[f]
        /\ \A c \in Chunks : heap[c] # Freed => heap'[c] = heap[c]
        /\ \/ colname'[elem] = Null /\ catalog[attno] = NoName
           \/ /\ colname'[elem] \in Chunks /\ heap[colname'[elem]] = Freed
              /\ heap'[colname'[elem]] = catalog[attno]
              /\ catalog[attno] # Freed
    <2>1. CASE catalog[attno] = NoName /\ UNCHANGED <<heap, colname>>
      BY <1>0, <1>1, <2>1 DEF TypeOK
    <2>2. ASSUME NEW c \in Chunks, heap[c] = Freed, catalog[attno] # NoName,
                 heap' = [heap EXCEPT ![c] = catalog[attno]],
                 colname' = [colname EXCEPT ![elem] = c]
          PROVE  /\ heap' \in [Chunks -> Names \cup {Freed}]
                 /\ colname' \in [Elements -> Chunks \cup {Null, Garbage}]
                 /\ \A f \in Elements : f # elem => colname'[f] = colname[f]
                 /\ \A d \in Chunks : heap[d] # Freed => heap'[d] = heap[d]
                 /\ colname'[elem] = c /\ heap'[c] = catalog[attno]
                 /\ catalog[attno] # Freed
      BY <1>0, <1>1, <2>2 DEF TypeOK, ColumnConstants
    <2> QED BY <2>1, <2>2 DEF CopyName
  <1>3. NameAt(colname'[elem]) = catalog[attno]
    BY <1>2, Addresses DEF NameAt
  <1>4. /\ Entries' = Entries /\ Filled' = Entries \ half /\ Readable' = Entries \ half
        /\ Readable = Entries \ half
        /\ \A a \in Entries \ half : a # attno => a \in Filled
    BY DEF Entries, Filled, Readable, Unwritten
  <1>5. /\ \A a \in Entries : a # attno =>
             /\ Pointer(a)' = Pointer(a)
             /\ a \notin half /\ Pointer(a) # Null =>
                  Pointer(a) \in Chunks /\ heap[Pointer(a)] # Freed
             /\ a \notin half => CachedName(a)' = CachedName(a)
        /\ \A a \in Entries : a = attno => Pointer(a)' = colname'[elem]
    <2>1. \A a \in Entries : a \in Attrs /\ table[a] \in Elements /\ (a # attno => table[a] # elem)
      BY <1>0, <1>1 DEF Entries, TypeOK
    <2>2. attno \in Entries => table[attno] = elem
      BY <1>1 DEF Entries
    <2>3. \A a \in Entries : a # attno => Pointer(a)' = Pointer(a)
      BY <1>2, <2>1 DEF Pointer
    <2>4. \A a \in Entries \ half : Pointer(a) # Null =>
             Pointer(a) \in Chunks /\ heap[Pointer(a)] # Freed
      BY <1>0, <1>4 DEF EntriesApart
    <2>5. \A a \in Entries \ half : a # attno => CachedName(a)' = CachedName(a)
      BY <1>2, <2>3, <2>4 DEF CachedName
    <2>6. \A a \in Entries : a = attno => Pointer(a)' = colname'[elem]
      BY <2>2 DEF Pointer
    <2> QED BY <2>3, <2>4, <2>5, <2>6
  <1>6. EntriesApart'
    <2>1. \A a, b \in Entries' : table'[a] = table'[b] => a = b
      BY <1>0, <1>4 DEF EntriesApart
    <2>2. ASSUME NEW a \in Readable', Pointer(a)' # Null
          PROVE  /\ Pointer(a)' \in Chunks /\ heap'[Pointer(a)'] # Freed
                 /\ \A b \in Readable' : Pointer(b)' = Pointer(a)' => a = b
      <3>1. CASE a # attno
        BY <1>0, <1>2, <1>4, <1>5, <2>2, <3>1 DEF EntriesApart
      <3>2. CASE a = attno
        BY <1>2, <1>4, <1>5, <2>2, <3>2
      <3> QED BY <3>1, <3>2
    <2> QED BY <2>1, <2>2, Addresses DEF EntriesApart, Chunks, Null
  <1>7. FilledAreCurrent'
    <2>1. \A a \in Entries \ half : a # attno => CachedName(a) = catalog[a]
      BY <1>0, <1>1, <1>4 DEF FilledAreCurrent
    <2>2. \A a \in Entries : a = attno => CachedName(a)' = catalog[a]
      BY <1>2, <1>5, Addresses DEF CachedName
    <2> QED BY <1>4, <1>5, <2>1, <2>2 DEF FilledAreCurrent
  <1> QED BY <1>3, <1>6, <1>7

(* The name is written into the entry. *)
LEMMA FillSafe ==
  ASSUME ColumnConstants, Quiet, PrimeFill \/ GetFill
  PROVE  Sound'
  <1>1. /\ UNCHANGED <<catalog, queued, table, half, badFree, stmt, locked>>
        /\ pc = "copy" /\ pc' = "enter" /\ CopyName
        /\ read' \in {read, read \cup {<<attno, NameAt(colname'[elem]), TRUE>>}}
    BY DEF PrimeFill, GetFill, UseNow, shared, caller
  <1>2. /\ EntriesApart' /\ FilledAreCurrent'
        /\ NameAt(colname'[elem]) = catalog[attno]
    BY <1>1, CopyFacts
  <1>3. LookupOwnsElement' /\ FreesLiveNames'
    BY <1>1 DEF Quiet, Sound, LookupOwnsElement, FreesLiveNames
  <1>4. NameIsDeclared'
    <2>1. locked /\ \A q \in read : q[3] => q[2] = catalog[q[1]]
      BY <1>1 DEF Quiet, Sound, LookupRuns, NameIsDeclared
    <2> DEFINE r == <<attno, NameAt(colname'[elem]), TRUE>>
    <2>2. r[1] = attno /\ r[2] = NameAt(colname'[elem])
      OBVIOUS
    <2>3. \A q \in read' : q \in read \/ q = r
      BY <1>1
    <2> HIDE DEF r
    <2> QED BY <1>1, <1>2, <2>1, <2>2, <2>3 DEF NameIsDeclared
  <1> QED BY <1>2, <1>3, <1>4 DEF Sound

(***************************************************************************)
(* The theorems.                                                           *)
(***************************************************************************)
LEMMA ColumnInitSafe ==
  ASSUME ColumnConstants, Init
  PROVE  ColumnInv
  <1>1. TypeOK
    <2>1. /\ table \in [Attrs -> Elements \cup {NoElement}]
          /\ colname \in [Elements -> Chunks \cup {Null, Garbage}]
          /\ heap \in [Chunks -> Names \cup {Freed}]
      BY DEF Init
    <2>2. attno \in 1 .. (Cols + 1) /\ alters \in 0 .. MaxAlters
      BY DEF Init, ColumnConstants
    <2> QED BY <2>1, <2>2 DEF Init, TypeOK
  <1>2. Entries = {} /\ Readable = {} /\ Filled = {}
    BY DEF Init, Entries, Readable, Filled
  <1>3. EntriesApart /\ FilledAreCurrent
    BY <1>2 DEF EntriesApart, FilledAreCurrent
  <1>4. LookupRuns /\ LookupOwnsElement /\ NameIsDeclared /\ FreesLiveNames
    BY DEF Init, LookupRuns, LookupOwnsElement, NameIsDeclared, FreesLiveNames
  <1> QED BY <1>1, <1>3, <1>4 DEF ColumnInv, Sound

(* Every step keeps the invariant. *)
LEMMA ColumnStepSafe ==
  ASSUME ColumnConstants, ColumnInv, [Next]_vars
  PROVE  ColumnInv'
  <1>1. CASE Next
    <2>1. Structure
      BY <1>1, StructureOutside, StructureLookup DEF ColumnInv, Next, Lookup
    <2>2. ASSUME ~strayed' PROVE Sound'
      <3>0. Quiet
        BY <2>1, <2>2 DEF ColumnInv, Quiet, Structure
      <3>1. CASE Others
        BY <3>0, <3>1, OthersSafe
      <3>2. CASE LockTable \/ ReadOtherCatalogs
        BY <2>2, <3>0, <3>2, LockSafe
      <3>3. CASE EndTransaction \/ StartScan \/ StartInsert \/ Finish \/ PrimeDone \/ PrimeFound
        BY <3>0, <3>3, BetweenLookupsSafe
      <3>4. CASE GetFound
        BY <3>0, <3>4, GetFoundSafe
      <3>5. CASE PrimeEnter \/ GetEnter
        BY <3>0, <3>5, EnterSafe
      <3>6. CASE OpenTable
        BY <3>0, <3>6, OpenTableSafe
      <3>7. CASE RebuildTable
        BY <2>2, <3>0, <3>7, RebuildSafe
      <3>8. CASE GetForeignColumnOptions
        BY <2>2, <3>0, <3>8, OptionsSafe
      <3>9. CASE PrimeFill \/ GetFill
        BY <3>0, <3>9, FillSafe
      <3>10. CASE Raise
        BY <2>2, <3>0, <3>10, RaiseSafe
      <3> QED BY <1>1, <3>1, <3>2, <3>3, <3>4, <3>5, <3>6, <3>7, <3>8, <3>9, <3>10
              DEF Next, Lookup
    <2> QED BY <2>1, <2>2 DEF ColumnInv, Structure
  <1>2. CASE UNCHANGED vars
    <2>1. /\ UNCHANGED <<catalog, alters, queued, table, heap, half, badFree, strayed, colname,
                         stmt, elem, locked, kept, phase, read, pc, attno>>
      BY <1>2 DEF vars, shared, memory, caller
    <2>2. TypeOK' /\ LookupRuns'
      BY <2>1 DEF ColumnInv, TypeOK, LookupRuns
    <2>3. ASSUME ~strayed' PROVE Sound'
      <3>1. Quiet
        BY <2>1, <2>3 DEF ColumnInv, Quiet
      <3>2. EntriesApart' /\ FilledAreCurrent'
        <4>1. /\ pc = "enter" => pc' = "enter" /\ half' = half
              /\ pc # "enter" => /\ pc' # "enter" /\ (pc = "open" <=> pc' = "open")
                                 /\ attno' = attno /\ half' = half
          BY <2>1
        <4> QED BY <2>1, <3>1, <4>1, SameEntries
      <3>3. LookupOwnsElement' /\ NameIsDeclared' /\ FreesLiveNames'
        BY <2>1, <3>1 DEF Quiet, Sound, LookupOwnsElement, NameIsDeclared, FreesLiveNames
      <3> QED BY <3>2, <3>3 DEF Sound
    <2> QED BY <2>2, <2>3 DEF ColumnInv
  <1> QED BY <1>1, <1>2

(* The inductive invariant holds. *)
THEOREM ColumnInvariant ==
  ASSUME ColumnConstants
  PROVE  Spec => []ColumnInv
  <1>1. Init => ColumnInv
    BY ColumnInitSafe
  <1>2. ColumnInv /\ [Next]_vars => ColumnInv'
    BY ColumnStepSafe
  <1> QED BY <1>1, <1>2, PTL DEF Spec
=============================================================================
