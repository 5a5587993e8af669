------------------------- MODULE ObjectCacheProofs -------------------------
(***************************************************************************)
(* Proofs about the cache of object definitions, for any set of OIDs and   *)
(* any number of changes by other sessions.  The definitions that lookups  *)
(* store come from what the backend may see of the catalog ("since"); an   *)
(* invalidation narrows that, and marks the table in the same step; the    *)
(* end of the transaction drops a marked table.                            *)
(***************************************************************************)
EXTENDS ObjectCache, TLAPS

(* What a lookup makes of an object is a definition. *)
LEMMA DefinitionTypes ==
  ASSUME NEW k \in Kinds, NEW obj
  PROVE  DefOf(k, obj) \in Defs
  BY DEF DefOf, Defs, Kinds

(* The types, one fact each. *)
LEMMA Types ==
  TypeOK <=>
    /\ catalog \in [Oids -> Objects] /\ since \in [Oids -> SUBSET Objects]
    /\ cache \in [Oids -> Defs]
    /\ ~created => \A o \in Oids : cache[o] = NoDef
    /\ pc \in {"idle", "entered", "reading"}
    /\ asked \in Kinds /\ oid \in Oids
    /\ answer \in (Kinds \X Oids \X Defs) \cup {NoAnswer}
    /\ recent \in [Oids -> SUBSET Objects]
    /\ queued \in BOOLEAN /\ created \in BOOLEAN
    /\ custom_objects_stale \in BOOLEAN /\ inTransaction \in BOOLEAN
    /\ changes \in 0 .. MaxChanges
  BY DEF TypeOK

(* Reading the queue narrows what the backend sees to the catalog, and marks
   the table; otherwise nothing happens. *)
LEMMA ReadFacts ==
  ASSUME MarkInv, ReadCatalog
  PROVE  /\ since' \in [Oids -> SUBSET Objects]
         /\ queued' \in BOOLEAN /\ custom_objects_stale' \in BOOLEAN
         /\ \A o \in Oids : /\ catalog[o] \in since'[o]
                            /\ since'[o] \subseteq recent[o]
                            /\ ~queued' => since'[o] = {catalog[o]}
         /\ ~custom_objects_stale' => ~custom_objects_stale /\ since' = since
  <1>0. TypeOK /\ SinceIsRecent
    BY DEF MarkInv
  <1>1. CASE queued /\ queued' = FALSE /\ since' = [o \in Oids |-> {catalog[o]}]
             /\ custom_objects_stale' = TRUE
    BY <1>0, <1>1, Types DEF SinceIsRecent
  <1>2. CASE UNCHANGED <<queued, since, custom_objects_stale>>
    BY <1>0, <1>2, Types DEF SinceIsRecent
  <1> QED BY <1>1, <1>2
          DEF ReadCatalog, AcceptInvalidations, invalidate_custom_objects_cache

(***************************************************************************)
(* Marks: every step keeps MarkInv.                                        *)
(***************************************************************************)
LEMMA ChangeMarks ==
  ASSUME ObjectConstants, MarkInv, NEW o \in Oids, NEW obj \in Objects, ChangeObject(o, obj)
  PROVE  MarkInv'
  <1>0. TypeOK /\ LookupHasTable /\ SinceIsRecent /\ UnmarkedFromSince
    BY DEF MarkInv
  <1>1. /\ changes < MaxChanges /\ changes' = changes + 1 /\ queued' = TRUE
        /\ catalog' = [catalog EXCEPT ![o] = obj]
        /\ since' = [since EXCEPT ![o] = @ \cup {obj}]
        /\ recent' = [recent EXCEPT ![o] = @ \cup {obj}]
        /\ created' = created /\ cache' = cache
        /\ custom_objects_stale' = custom_objects_stale
        /\ pc' = pc /\ asked' = asked /\ oid' = oid
        /\ inTransaction' = inTransaction /\ answer' = answer
    BY DEF ChangeObject, tab, lookup, backend
  <1>2. /\ catalog' \in [Oids -> Objects] /\ since' \in [Oids -> SUBSET Objects]
        /\ recent' \in [Oids -> SUBSET Objects]
        /\ \A p \in Oids : since[p] \subseteq since'[p] /\ recent[p] \subseteq recent'[p]
        /\ \A p \in Oids : catalog'[p] \in since'[p] /\ since'[p] \subseteq recent'[p]
    BY <1>0, <1>1, Types DEF SinceIsRecent
  <1>3. changes' \in 0 .. MaxChanges
    BY <1>0, <1>1, Types DEF ObjectConstants
  <1>4. TypeOK'
    BY <1>0, <1>1, <1>2, <1>3 DEF TypeOK
  <1>5. LookupHasTable' /\ SinceIsRecent'
    BY <1>0, <1>1, <1>2 DEF LookupHasTable, SinceIsRecent
  <1>6. UnmarkedFromSince'
    <2>1. \A p \in Oids : Finished(p)' <=> Finished(p)
      BY <1>1 DEF Finished
    <2> QED BY <1>0, <1>1, <1>2, <2>1 DEF UnmarkedFromSince, MadeOf
  <1> QED BY <1>4, <1>5, <1>6 DEF MarkInv

(* A transaction begins. *)
LEMMA BeginMarks ==
  ASSUME MarkInv, BeginTransaction
  PROVE  MarkInv'
  <1>0. TypeOK /\ LookupHasTable /\ SinceIsRecent /\ UnmarkedFromSince
    BY DEF MarkInv
  <1>1. /\ ReadCatalog /\ inTransaction' = TRUE /\ answer' = NoAnswer
        /\ catalog' = catalog /\ changes' = changes /\ created' = created
        /\ cache' = cache /\ pc' = pc /\ asked' = asked /\ oid' = oid /\ recent' = recent
    BY DEF BeginTransaction, ReadCatalog, world, lookup
  <1>2. /\ since' \in [Oids -> SUBSET Objects]
        /\ queued' \in BOOLEAN /\ custom_objects_stale' \in BOOLEAN
        /\ \A o \in Oids : /\ catalog[o] \in since'[o]
                           /\ since'[o] \subseteq recent[o]
                           /\ ~queued' => since'[o] = {catalog[o]}
        /\ ~custom_objects_stale' => ~custom_objects_stale /\ since' = since
    BY <1>1, ReadFacts
  <1>3. TypeOK'
    BY <1>0, <1>1, <1>2 DEF TypeOK
  <1>4. LookupHasTable' /\ SinceIsRecent'
    BY <1>0, <1>1, <1>2 DEF LookupHasTable, SinceIsRecent
  <1>5. UnmarkedFromSince'
    BY <1>0, <1>1, <1>2 DEF UnmarkedFromSince, Finished
  <1> QED BY <1>3, <1>4, <1>5 DEF MarkInv

(* drop_stale_custom_objects: the table goes with its mark, or both stay. *)
LEMMA EndMarks ==
  ASSUME MarkInv, NEW e \in EndEvents, EndTransaction(e)
  PROVE  MarkInv'
  <1>0. TypeOK /\ LookupHasTable /\ SinceIsRecent /\ UnmarkedFromSince
    BY DEF MarkInv
  <1>1. /\ pc = "idle" /\ inTransaction' = FALSE /\ answer' = NoAnswer /\ recent' = since
        /\ catalog' = catalog /\ changes' = changes /\ since' = since /\ queued' = queued
        /\ pc' = pc /\ asked' = asked /\ oid' = oid
    BY DEF EndTransaction, world, lookup
  <1>2. /\ cache' \in [Oids -> Defs] /\ created' \in BOOLEAN
        /\ custom_objects_stale' \in BOOLEAN
        /\ ~created' => \A o \in Oids : cache'[o] = NoDef
        /\ \/ cache' = cache /\ custom_objects_stale' = custom_objects_stale
           \/ \A o \in Oids : cache'[o] = NoDef
    BY <1>0, Types DEF EndTransaction, drop_stale_custom_objects, tab, Defs
  <1>3. TypeOK'
    BY <1>0, <1>1, <1>2 DEF TypeOK
  <1>4. LookupHasTable' /\ SinceIsRecent'
    BY <1>0, <1>1 DEF LookupHasTable, SinceIsRecent
  <1>5. UnmarkedFromSince'
    BY <1>0, <1>1, <1>2 DEF UnmarkedFromSince, Finished
  <1> QED BY <1>3, <1>4, <1>5 DEF MarkInv

(* A lookup finds its entry. *)
LEMMA HitMarks ==
  ASSUME MarkInv, NEW k \in Kinds, NEW o \in Oids, LookupHit(k, o)
  PROVE  MarkInv'
  <1>0. TypeOK /\ LookupHasTable /\ SinceIsRecent /\ UnmarkedFromSince
    BY DEF MarkInv
  <1>1. /\ answer' = <<k, o, cache[o]>> /\ inTransaction' = inTransaction
        /\ catalog' = catalog /\ changes' = changes /\ since' = since /\ queued' = queued
        /\ created' = created /\ cache' = cache
        /\ custom_objects_stale' = custom_objects_stale
        /\ pc' = pc /\ asked' = asked /\ oid' = oid /\ recent' = recent
    BY DEF LookupHit, Answer, world, tab, lookup
  <1>2. answer' \in Kinds \X Oids \X Defs
    BY <1>0, <1>1, Types
  <1>3. TypeOK'
    BY <1>0, <1>1, <1>2 DEF TypeOK
  <1> QED BY <1>0, <1>1, <1>3
          DEF MarkInv, LookupHasTable, SinceIsRecent, UnmarkedFromSince, Finished

(* A table made anew is empty; its creation may clear the mark. *)
LEMMA MissMarks ==
  ASSUME MarkInv, NEW k \in Kinds, NEW o \in Oids, LookupEnter(k, o) \/ LookupType(o)
  PROVE  MarkInv'
  <1>0. TypeOK /\ LookupHasTable /\ SinceIsRecent /\ UnmarkedFromSince
    BY DEF MarkInv
  <1>1. /\ catalog' = catalog /\ changes' = changes /\ since' = since /\ queued' = queued
        /\ inTransaction' = inTransaction /\ answer' = answer /\ recent' = recent
        /\ created' = TRUE /\ custom_objects_stale' = (custom_objects_stale /\ created)
        /\ oid' = o /\ asked' \in Kinds /\ pc = "idle" /\ cache[o] = NoDef
        /\ \/ pc' = "entered" /\ cache' = [cache EXCEPT ![o] = Usual]
           \/ pc' = "reading" /\ cache' = cache
    BY DEF LookupEnter, LookupType, CreateIfNull, world, backend, Kinds
  <1>2. /\ cache' \in [Oids -> Defs]
        /\ \A p \in Oids : p # o => cache'[p] = cache[p]
        /\ custom_objects_stale' \in BOOLEAN
    BY <1>0, <1>1, Types DEF Defs
  <1>3. TypeOK'
    BY <1>0, <1>1, <1>2 DEF TypeOK
  <1>4. LookupHasTable' /\ SinceIsRecent'
    BY <1>0, <1>1 DEF LookupHasTable, SinceIsRecent
  <1>5. \A p \in Oids : Finished(p)' => p # o /\ Finished(p)
    BY <1>1, <1>2 DEF Finished
  <1>6. UnmarkedFromSince'
    <2>1. CASE created
      BY <1>0, <1>1, <1>2, <1>5, <2>1 DEF UnmarkedFromSince
    <2>2. CASE ~created
      BY <1>0, <1>1, <1>2, <1>5, <2>2, Types DEF UnmarkedFromSince, Finished
    <2> QED BY <2>1, <2>2
  <1> QED BY <1>3, <1>4, <1>6 DEF MarkInv

(* The lookup ends with what it read, of an object the backend may see. *)
LEMMA LookupEndFacts ==
  ASSUME MarkInv, LookupEnd
  PROVE  /\ since' \in [Oids -> SUBSET Objects]
         /\ queued' \in BOOLEAN /\ custom_objects_stale' \in BOOLEAN
         /\ \A o \in Oids : /\ catalog[o] \in since'[o]
                            /\ since'[o] \subseteq recent[o]
                            /\ ~queued' => since'[o] = {catalog[o]}
         /\ ~custom_objects_stale' => ~custom_objects_stale /\ since' = since
         /\ \E obj \in since'[oid] :
              /\ cache'[oid] = DefOf(asked, obj)
              /\ answer' = <<asked, oid, DefOf(asked, obj)>>
         /\ \A o \in Oids : o # oid => cache'[o] = cache[o]
         /\ cache' \in [Oids -> Defs] /\ answer' \in Kinds \X Oids \X Defs
         /\ created /\ created' = created /\ recent' = recent /\ catalog' = catalog
         /\ pc' = "idle" /\ asked' = asked /\ oid' = oid /\ oid \in Oids /\ asked \in Kinds
  <1>0. TypeOK /\ LookupHasTable
    BY DEF MarkInv
  <1>1. /\ pc # "idle" /\ ReadCatalog /\ pc' = "idle" /\ catalog' = catalog
        /\ created' = created /\ asked' = asked /\ oid' = oid /\ recent' = recent
    BY DEF LookupEnd, world
  <1>2. PICK obj \in since'[oid] :
          /\ cache' = [cache EXCEPT ![oid] = DefOf(asked, obj)]
          /\ answer' = <<asked, oid, DefOf(asked, obj)>>
    BY DEF LookupEnd, Answer
  <1>3. DefOf(asked, obj) \in Defs /\ oid \in Oids /\ asked \in Kinds
    BY <1>0, DefinitionTypes, Types
  <1>4. /\ cache' \in [Oids -> Defs] /\ cache'[oid] = DefOf(asked, obj)
        /\ \A o \in Oids : o # oid => cache'[o] = cache[o]
        /\ answer' \in Kinds \X Oids \X Defs
    BY <1>0, <1>2, <1>3, Types
  <1>5. created
    BY <1>0, <1>1 DEF LookupHasTable
  <1>6. /\ since' \in [Oids -> SUBSET Objects]
        /\ queued' \in BOOLEAN /\ custom_objects_stale' \in BOOLEAN
        /\ \A o \in Oids : /\ catalog[o] \in since'[o]
                           /\ since'[o] \subseteq recent[o]
                           /\ ~queued' => since'[o] = {catalog[o]}
        /\ ~custom_objects_stale' => ~custom_objects_stale /\ since' = since
    BY <1>1, ReadFacts
  <1> QED BY <1>1, <1>2, <1>3, <1>4, <1>5, <1>6

(* A lookup fills its entry. *)
LEMMA LookupEndMarks ==
  ASSUME MarkInv, LookupEnd
  PROVE  MarkInv'
  <1>0. TypeOK /\ LookupHasTable /\ SinceIsRecent /\ UnmarkedFromSince
    BY DEF MarkInv
  <1>1. changes' = changes /\ inTransaction' = inTransaction
    BY DEF LookupEnd, world
  <1>2. TypeOK'
    BY <1>0, <1>1, LookupEndFacts DEF TypeOK
  <1>3. LookupHasTable' /\ SinceIsRecent'
    BY LookupEndFacts DEF LookupHasTable, SinceIsRecent
  <1>4. UnmarkedFromSince'
    <2> SUFFICES ASSUME ~custom_objects_stale', NEW o \in Oids, Finished(o)'
                 PROVE  MadeOf(cache'[o], since'[o])
      BY DEF UnmarkedFromSince, MadeOf
    <2>1. CASE o = oid
      BY <2>1, LookupEndFacts DEF MadeOf
    <2>2. CASE o # oid
      <3>1. /\ ~custom_objects_stale /\ since' = since /\ cache'[o] = cache[o]
            /\ Finished(o)
        BY <2>2, LookupEndFacts DEF Finished
      <3> QED BY <1>0, <3>1 DEF UnmarkedFromSince
    <2> QED BY <2>1, <2>2
  <1> QED BY <1>2, <1>3, <1>4 DEF MarkInv

(* Every step keeps the invariant. *)
LEMMA MarkStepSafe ==
  ASSUME ObjectConstants, MarkInv, [Next]_vars
  PROVE  MarkInv'
  <1>1. ASSUME NEW o \in Oids, NEW obj \in Objects, ChangeObject(o, obj) PROVE MarkInv'
    BY <1>1, ChangeMarks
  <1>2. CASE BeginTransaction
    BY <1>2, BeginMarks
  <1>3. ASSUME NEW e \in EndEvents, EndTransaction(e) PROVE MarkInv'
    BY <1>3, EndMarks
  <1>4. ASSUME NEW k \in Kinds, NEW o \in Oids, LookupHit(k, o) PROVE MarkInv'
    BY <1>4, HitMarks
  <1>5. ASSUME NEW k \in Kinds, NEW o \in Oids, LookupEnter(k, o) PROVE MarkInv'
    BY <1>5, MissMarks
  <1>6. ASSUME NEW o \in Oids, LookupType(o) PROVE MarkInv'
    <2>1. "type" \in Kinds
      BY DEF Kinds
    <2> QED BY <1>6, <2>1, MissMarks
  <1>7. CASE LookupEnd
    BY <1>7, LookupEndMarks
  <1>8. CASE UNCHANGED vars
    BY <1>8 DEF vars, world, tab, lookup, backend, MarkInv, TypeOK, LookupHasTable,
                SinceIsRecent, UnmarkedFromSince, Finished
  <1> QED BY <1>1, <1>2, <1>3, <1>4, <1>5, <1>6, <1>7, <1>8 DEF Next

(* It holds at the start. *)
LEMMA MarkInitSafe ==
  ASSUME ObjectConstants, Init
  PROVE  MarkInv
  <1>1. TypeOK
    <2>1. /\ since \in [Oids -> SUBSET Objects] /\ recent \in [Oids -> SUBSET Objects]
          /\ cache \in [Oids -> Defs] /\ \A o \in Oids : cache[o] = NoDef
      BY DEF Init, Defs
    <2>2. changes \in 0 .. MaxChanges
      BY DEF Init, ObjectConstants
    <2> QED BY <2>1, <2>2, Types DEF Init, Kinds
  <1>2. LookupHasTable /\ SinceIsRecent /\ UnmarkedFromSince
    BY DEF Init, LookupHasTable, SinceIsRecent, UnmarkedFromSince, Finished
  <1> QED BY <1>1, <1>2 DEF MarkInv

(***************************************************************************)
(* Answers: every step keeps RecentInv as well, unless it is a PREPARE.    *)
(***************************************************************************)
(* A hit answers from an entry, and each entry is of an object its OID had
   lately: an end of transaction that keeps the table finds it unmarked. *)
LEMMA AnswersFromEntries ==
  ASSUME ObjectConstants, "prepare" \notin EndEvents, MarkInv, RecentInv, [Next]_vars
  PROVE  RecentInv'
  <1>0. TypeOK /\ SinceIsRecent /\ UnmarkedFromSince /\ EntriesAreRecent /\ AnswerIsRecent
    BY DEF MarkInv, RecentInv
  <1> DEFINE Keeps == /\ cache' = cache /\ pc' = pc /\ oid' = oid
                      /\ \A o \in Oids : recent[o] \subseteq recent'[o]
             Silent == answer' \in {NoAnswer, answer}
  <1>1. ASSUME Keeps PROVE EntriesAreRecent'
    <2>1. \A o \in Oids : Finished(o)' <=> Finished(o)
      BY <1>1 DEF Finished
    <2> QED BY <1>0, <1>1, <2>1 DEF EntriesAreRecent, MadeOf
  <1>2. ASSUME Silent, \A o \in Oids : recent[o] \subseteq recent'[o]
        PROVE  AnswerIsRecent'
    <2>1. CASE answer' = NoAnswer
      BY <2>1 DEF AnswerIsRecent
    <2>2. CASE answer' = answer /\ answer # NoAnswer
      <3>1. answer[2] \in Oids
        BY <1>0, <2>2, Types
      <3> QED BY <1>0, <1>2, <2>2, <3>1 DEF AnswerIsRecent
    <2> QED BY <1>2, <2>1, <2>2
  <1>3. ASSUME NEW o \in Oids, NEW obj \in Objects, ChangeObject(o, obj) PROVE RecentInv'
    <2>1. Keeps /\ Silent
      BY <1>0, <1>3, Types DEF ChangeObject, tab, lookup, backend
    <2> QED BY <1>1, <1>2, <2>1 DEF RecentInv
  <1>4. CASE BeginTransaction
    <2>1. Keeps /\ Silent
      BY <1>4 DEF BeginTransaction, lookup
    <2> QED BY <1>1, <1>2, <2>1 DEF RecentInv
  <1>5. ASSUME NEW e \in EndEvents, EndTransaction(e) PROVE RecentInv'
    <2>1. /\ answer' = NoAnswer /\ recent' = since /\ drop_stale_custom_objects(e)
          /\ pc' = pc /\ oid' = oid /\ e \in {"commit", "abort"}
      BY <1>5 DEF EndTransaction, lookup, ObjectConstants
    <2>2. AnswerIsRecent'
      BY <2>1 DEF AnswerIsRecent
    <2>3. CASE custom_objects_stale /\ created
      <3>1. \A o \in Oids : cache'[o] = NoDef
        BY <2>1, <2>3 DEF drop_stale_custom_objects
      <3> QED BY <2>2, <3>1 DEF RecentInv, EntriesAreRecent, Finished
    <2>4. CASE ~created
      <3>1. \A o \in Oids : cache'[o] = NoDef
        BY <1>0, <2>1, <2>4, Types DEF drop_stale_custom_objects, tab
      <3> QED BY <2>2, <3>1 DEF RecentInv, EntriesAreRecent, Finished
    <2>5. CASE ~custom_objects_stale
      <3>1. cache' = cache
        BY <2>1, <2>5 DEF drop_stale_custom_objects, tab
      <3> QED BY <1>0, <2>1, <2>2, <2>5, <3>1
              DEF RecentInv, EntriesAreRecent, UnmarkedFromSince, Finished
    <2> QED BY <2>3, <2>4, <2>5
  <1>6. ASSUME NEW k \in Kinds, NEW o \in Oids, LookupHit(k, o) PROVE RecentInv'
    <2>1. /\ Keeps /\ answer' = <<k, o, cache[o]>> /\ pc = "idle" /\ cache[o] # NoDef
          /\ recent' = recent
      BY <1>6 DEF LookupHit, Answer, tab, lookup
    <2>2. PICK obj \in recent[o], j \in Kinds : cache[o] = DefOf(j, obj)
      BY <1>0, <2>1 DEF EntriesAreRecent, Finished, MadeOf
    <2>3. AnswerIsRecent'
      BY <2>1, <2>2 DEF AnswerIsRecent
    <2> QED BY <1>1, <2>1, <2>3 DEF RecentInv
  <1>7. ASSUME NEW k \in Kinds, NEW o \in Oids, LookupEnter(k, o) \/ LookupType(o)
        PROVE  RecentInv'
    <2>1. /\ answer' = answer /\ recent' = recent /\ oid' = o /\ pc = "idle"
          /\ cache[o] = NoDef
          /\ \/ pc' = "entered" /\ cache' = [cache EXCEPT ![o] = Usual]
             \/ pc' = "reading" /\ cache' = cache
      BY <1>7 DEF LookupEnter, LookupType, backend
    <2>2. \A p \in Oids : Finished(p)' => Finished(p) /\ cache'[p] = cache[p]
      BY <1>0, <2>1, Types DEF Finished
    <2>3. EntriesAreRecent'
      BY <1>0, <2>1, <2>2 DEF EntriesAreRecent
    <2> QED BY <1>2, <2>1, <2>3 DEF RecentInv
  <1>8. CASE LookupEnd
    <2>1. PICK obj \in since'[oid] : /\ cache'[oid] = DefOf(asked, obj)
                                     /\ answer' = <<asked, oid, DefOf(asked, obj)>>
      BY <1>8, LookupEndFacts
    <2>2. /\ obj \in recent[oid] /\ recent' = recent /\ oid' = oid /\ asked \in Kinds
          /\ oid \in Oids /\ pc' = "idle"
          /\ \A o \in Oids : o # oid => cache'[o] = cache[o]
      BY <1>8, <2>1, LookupEndFacts
    <2>3. AnswerIsRecent'
      BY <2>1, <2>2 DEF AnswerIsRecent
    <2>4. EntriesAreRecent'
      <3> SUFFICES ASSUME NEW o \in Oids, Finished(o)' PROVE MadeOf(cache'[o], recent'[o])
        BY DEF EntriesAreRecent, MadeOf
      <3>1. CASE o = oid
        BY <2>1, <2>2, <3>1 DEF MadeOf
      <3>2. CASE o # oid
        BY <1>0, <2>2, <3>2 DEF EntriesAreRecent, Finished
      <3> QED BY <3>1, <3>2
    <2> QED BY <2>3, <2>4 DEF RecentInv
  <1>9. CASE UNCHANGED vars
    <2>1. Keeps /\ Silent
      BY <1>9 DEF vars, tab, lookup, backend
    <2> QED BY <1>1, <1>2, <2>1 DEF RecentInv
  <1>10. "type" \in Kinds
    BY DEF Kinds
  <1> QED BY <1>3, <1>4, <1>5, <1>6, <1>7, <1>8, <1>9, <1>10 DEF Next

(* Under the first, a table that is not marked stale describes the catalog: no
   entry outlives its object unmarked (invalidate_custom_objects_cache). *)
LEMMA MarkInvCurrent == ASSUME MarkInv PROVE UnmarkedIsCurrent
  <1> SUFFICES ASSUME ~custom_objects_stale, ~queued, NEW o \in Oids,
                      cache[o] # NoDef, ~(pc = "entered" /\ oid = o)
               PROVE  \E k \in Kinds : cache[o] = DefOf(k, catalog[o])
    BY DEF UnmarkedIsCurrent
  <1>1. since[o] = {catalog[o]} /\ MadeOf(cache[o], since[o])
    BY DEF MarkInv, SinceIsRecent, UnmarkedFromSince, Finished
  <1> QED BY <1>1 DEF MadeOf

(* The second starts with no entry and no answer. *)
LEMMA RecentInitSafe == Init => RecentInv
  BY DEF Init, RecentInv, EntriesAreRecent, AnswerIsRecent, Finished

(***************************************************************************)
(* The theorems.                                                           *)
(***************************************************************************)
(* The first invariant holds, whatever ends a transaction. *)
THEOREM MarkInvariant ==
  ASSUME ObjectConstants
  PROVE  Spec => []MarkInv
  <1>1. Init => MarkInv
    BY MarkInitSafe
  <1>2. MarkInv /\ [Next]_vars => MarkInv'
    BY MarkStepSafe
  <1> QED BY <1>1, <1>2, PTL DEF Spec

(* Where transactions end by commit or abort, the second holds too: what a
   transaction plans with is at most one transaction late. *)
THEOREM RecentInvariant ==
  ASSUME ObjectConstants, "prepare" \notin EndEvents
  PROVE  Spec => []RecentInv
  <1>1. Init => RecentInv
    BY RecentInitSafe
  <1>2. MarkInv /\ RecentInv /\ [Next]_vars => RecentInv'
    BY AnswersFromEntries
  <1> QED BY <1>1, <1>2, MarkInvariant, PTL DEF Spec
=============================================================================
