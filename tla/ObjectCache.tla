----------------------------- MODULE ObjectCache -----------------------------
(***************************************************************************)
(* The cache of function, type and operator definitions of custom_types.c  *)
(* (custom_objects_cache).  The planner ships an object when its lookup    *)
(* answers with a definition, and the deparser writes what that says.      *)
(*                                                                         *)
(* The three kinds of object share one hash table keyed by OID alone.  An  *)
(* invalidation only marks the table stale, since an entry may be in use;  *)
(* the end of the transaction drops it.  Functions and operators enter     *)
(* their entry before they read the catalogs, types after.                 *)
(***************************************************************************)
EXTENDS Naturals

CONSTANTS Oids,         \* OIDs above FirstUnpinnedObjectId
          EndEvents,    \* how a transaction may end
          MaxChanges    \* bound: catalog changes by other sessions

(* What the constants may be. *)
ObjectConstants ==
    EndEvents \subseteq {"commit", "abort", "prepare"} /\ MaxChanges \in Nat

VARIABLES catalog,      \* OID -> the object, as committed
          since,        \* OID -> what it was since the backend last looked
          queued,       \* an invalidation waits in the shared queue
          created,      \* custom_objects_cache is not NULL
          cache,        \* OID -> its entry, or NoDef
          custom_objects_stale,
          pc, asked, oid,   \* the lookup that runs, its kind and OID
          inTransaction,
          answer,       \* the transaction's last <<kind, OID, definition>>
          recent,       \* OID -> what it was since the last transaction ended
          changes

backend == <<inTransaction, answer>>
lookup == <<pc, asked, oid>>
tab == <<created, cache, custom_objects_stale>>
world == <<catalog, changes>>
vars == <<world, since, queued, tab, lookup, backend, recent>>

Kinds == {"function", "type", "operator"}

(***************************************************************************)
(* An object is its kind and what the lookup makes of it: of an extension  *)
(* with a ClickHouse equivalent, of an extension without one, or of none.  *)
(***************************************************************************)
Absent == <<"absent", "none">>
Objects == (Kinds \X {"mapped", "unmapped", "plain"}) \cup {Absent}

NoDef == "no definition"
Usual == "CF_USUAL"
NoAnswer == <<"none", "none", "none">>
Defs == {NoDef, Usual} \cup Kinds

(***************************************************************************)
(* The definition that the code derives for an object asked for as kind k. *)
(* A mapped object has its kind's own; a type of no extension is CF_USUAL. *)
(***************************************************************************)
DefOf(k, obj) ==
    IF obj = <<k, "mapped">> THEN k
    ELSE IF obj = <<k, "plain">> /\ k = "type" THEN Usual
    ELSE NoDef

(* Every variable has its type. *)
TypeOK ==
    /\ catalog \in [Oids -> Objects] /\ since \in [Oids -> SUBSET Objects]
    /\ cache \in [Oids -> Defs]
    /\ ~created => \A o \in Oids : cache[o] = NoDef
    /\ pc \in {"idle", "entered", "reading"}
    /\ asked \in Kinds /\ oid \in Oids
    /\ answer \in (Kinds \X Oids \X Defs) \cup {NoAnswer}
    /\ recent \in [Oids -> SUBSET Objects]
    /\ {queued, created, custom_objects_stale, inTransaction} \subseteq BOOLEAN
    /\ changes \in 0 .. MaxChanges

Init ==
    /\ catalog \in [Oids -> Objects]
    /\ since = [o \in Oids |-> {catalog[o]}]
    /\ queued = FALSE
    /\ created = FALSE
    /\ cache = [o \in Oids |-> NoDef]
    /\ custom_objects_stale = FALSE
    /\ pc = "idle" /\ asked = "function" /\ oid \in Oids
    /\ inTransaction = FALSE /\ answer = NoAnswer
    /\ recent = [o \in Oids |-> {catalog[o]}]
    /\ changes = 0

-----------------------------------------------------------------------------
(***************************************************************************)
(* Another session changes an object, or drops it and creates another one  *)
(* under the same OID.                                                     *)
(***************************************************************************)
ChangeObject(o, obj) ==
    /\ changes < MaxChanges
    /\ catalog' = [catalog EXCEPT ![o] = obj]
    /\ since' = [since EXCEPT ![o] = @ \cup {obj}]
    /\ recent' = [recent EXCEPT ![o] = @ \cup {obj}]
    /\ queued' = TRUE
    /\ changes' = changes + 1
    /\ UNCHANGED <<tab, lookup, backend>>

(***************************************************************************)
(* invalidate_custom_objects_cache.  The backend's own catalog caches are  *)
(* flushed by the same message.  The callback is registered with the first *)
(* table; a stale mark without a table is cleared by its creation.         *)
(***************************************************************************)
(* A bug: no callback. *)
CallbackIgnored == UNCHANGED custom_objects_stale

invalidate_custom_objects_cache == custom_objects_stale' = TRUE

AcceptInvalidations ==
    \/ /\ queued
       /\ queued' = FALSE
       /\ since' = [o \in Oids |-> {catalog[o]}]
       /\ invalidate_custom_objects_cache
    \/ ~queued /\ UNCHANGED <<queued, since, custom_objects_stale>>

ReadCatalog ==
    AcceptInvalidations \/ UNCHANGED <<queued, since, custom_objects_stale>>

-----------------------------------------------------------------------------
BeginTransaction ==
    /\ ~inTransaction
    /\ inTransaction' = TRUE
    /\ answer' = NoAnswer
    /\ AcceptInvalidations
    /\ UNCHANGED <<world, created, cache, lookup, recent>>

(* A bug: only a commit drops the table. *)
DropOnCommit(event) ==
    IF custom_objects_stale /\ created /\ event = "commit"
    THEN /\ created' = FALSE
         /\ cache' = [o \in Oids |-> NoDef]
         /\ custom_objects_stale' = FALSE
    ELSE UNCHANGED tab

drop_stale_custom_objects(event) ==
    IF custom_objects_stale /\ created /\ event \in {"commit", "abort"}
    THEN /\ created' = FALSE
         /\ cache' = [o \in Oids |-> NoDef]
         /\ custom_objects_stale' = FALSE
    ELSE UNCHANGED tab

EndTransaction(event) ==
    /\ inTransaction /\ pc = "idle"
    /\ inTransaction' = FALSE
    /\ answer' = NoAnswer
    /\ drop_stale_custom_objects(event)
    /\ recent' = since
    /\ UNCHANGED <<world, since, queued, lookup>>

-----------------------------------------------------------------------------
(* create_custom_objects_cache, by whichever lookup comes first. *)
CreateIfNull ==
    /\ created' = TRUE
    /\ custom_objects_stale' = (custom_objects_stale /\ created)

Answer(k, o, def) == answer' = <<k, o, def>>

(* HASH_FIND has an entry: it is the answer, whatever kind it was made for. *)
LookupHit(k, o) ==
    /\ inTransaction /\ pc = "idle" /\ cache[o] # NoDef
    /\ Answer(k, o, cache[o])
    /\ UNCHANGED <<world, since, queued, tab, lookup, inTransaction, recent>>

(***************************************************************************)
(* chfdw_check_for_custom_function and _operator enter an entry that says  *)
(* CF_USUAL and read the object's extension next.                          *)
(***************************************************************************)
LookupEnter(k, o) ==
    /\ inTransaction /\ pc = "idle" /\ cache[o] = NoDef
    /\ k \in {"function", "operator"}
    /\ CreateIfNull
    /\ cache' = [cache EXCEPT ![o] = Usual]
    /\ pc' = "entered" /\ asked' = k /\ oid' = o
    /\ UNCHANGED <<world, since, queued, backend, recent>>

(* chfdw_check_for_custom_type reads first. *)
LookupType(o) ==
    /\ inTransaction /\ pc = "idle" /\ cache[o] = NoDef
    /\ CreateIfNull
    /\ pc' = "reading" /\ asked' = "type" /\ oid' = o
    /\ UNCHANGED <<world, since, queued, cache, backend, recent>>

(***************************************************************************)
(* getExtensionOfObject and the object's catalog row, as the backend has   *)
(* it or as it is after the queued invalidations.  The entry gets the      *)
(* definition; HASH_REMOVE when there is none.                             *)
(***************************************************************************)
LookupEnd ==
    /\ pc # "idle"
    /\ ReadCatalog
    /\ \E obj \in since'[oid] :
          /\ cache' = [cache EXCEPT ![oid] = DefOf(asked, obj)]
          /\ Answer(asked, oid, DefOf(asked, obj))
    /\ pc' = "idle"
    /\ UNCHANGED <<world, created, asked, oid, inTransaction, recent>>

(* The catalog read raises, in an exception block or not. *)
LookupRaise ==
    /\ pc # "idle"
    /\ pc' = "idle"
    /\ UNCHANGED <<world, since, queued, tab, asked, oid, backend, recent>>

-----------------------------------------------------------------------------
Next ==
    \/ \E o \in Oids, obj \in Objects : ChangeObject(o, obj)
    \/ BeginTransaction
    \/ \E e \in EndEvents : EndTransaction(e)
    \/ \E k \in Kinds, o \in Oids : LookupHit(k, o) \/ LookupEnter(k, o)
    \/ \E o \in Oids : LookupType(o)
    \/ LookupEnd

Spec == Init /\ [][Next]_vars
SpecRaise == Init /\ [][Next \/ LookupRaise]_vars

-----------------------------------------------------------------------------
(***************************************************************************)
(* A table that is not marked stale describes the catalog: once the        *)
(* backend has seen every invalidation, each finished entry is what a new  *)
(* lookup of the object would make, so no entry outlives its object or is  *)
(* found by another object that has its OID.                               *)
(***************************************************************************)
UnmarkedIsCurrent ==
    (~custom_objects_stale /\ ~queued) =>
        \A o \in Oids :
            (cache[o] # NoDef /\ ~(pc = "entered" /\ oid = o)) =>
                \E k \in Kinds : cache[o] = DefOf(k, catalog[o])

(***************************************************************************)
(* Every answer that a transaction plans with is right for the object as   *)
(* it was at some time since the transaction before it ended: a definition *)
(* is at most one transaction late, and an object without a ClickHouse     *)
(* equivalent is not shipped.                                              *)
(***************************************************************************)
AnswerIsRecent ==
    answer # NoAnswer =>
        \E obj \in recent[answer[2]], k \in Kinds :
            /\ answer[3] = DefOf(k, obj)
            /\ k = answer[1] \/ answer[3] # NoDef

-----------------------------------------------------------------------------
(***************************************************************************)
(* The inductive invariants: MarkInv whatever ends a transaction, and      *)
(* RecentInv with it when no transaction ends by PREPARE.                  *)
(***************************************************************************)
(* A lookup that runs has a table to store its entry in. *)
LookupHasTable == pc # "idle" => created

(* What the backend may still see of an object, and what it was lately. *)
SinceIsRecent ==
    \A o \in Oids :
        /\ catalog[o] \in since[o]
        /\ since[o] \subseteq recent[o]
        /\ ~queued => since[o] = {catalog[o]}

(* The entry of o is there and its lookup has ended. *)
Finished(o) == cache[o] # NoDef /\ ~(pc = "entered" /\ oid = o)

(* Def is what a lookup makes of one of the objects. *)
MadeOf(def, objs) == \E obj \in objs, k \in Kinds : def = DefOf(k, obj)

UnmarkedFromSince ==
    ~custom_objects_stale => \A o \in Oids : Finished(o) => MadeOf(cache[o], since[o])

(* Marked or not, an entry is no older than the last transaction's end. *)
EntriesAreRecent == \A o \in Oids : Finished(o) => MadeOf(cache[o], recent[o])

MarkInv == TypeOK /\ LookupHasTable /\ SinceIsRecent /\ UnmarkedFromSince
RecentInv == EntriesAreRecent /\ AnswerIsRecent
=============================================================================
