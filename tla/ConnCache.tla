----------------------------- MODULE ConnCache -----------------------------
(***************************************************************************)
(* The connection manager of one PostgreSQL backend (connection.c).        *)
(*                                                                         *)
(* ConnectionHash caches one ClickHouse connection per user mapping.  A    *)
(* holder (a foreign scan, a foreign INSERT, clickhouse_query, ...) leases *)
(* the cached connection while it is free and otherwise gets a private one *)
(* that PrivateConnections remembers.  A lease ends when its holder        *)
(* releases it, when the memory context it was taken in is freed, or when  *)
(* the transaction ends, in whatever order these happen.                   *)
(*                                                                         *)
(* A connection is a heap address: an address that was freed may be handed *)
(* out again, so that comparing addresses is as weak here as in the code.  *)
(* Connection options are abstracted to version numbers, counted up by     *)
(* each ALTER of the server or of the user mapping.                        *)
(***************************************************************************)
EXTENDS Naturals, FiniteSets

CONSTANTS
    Mappings,       \* user mapping oids, the keys of ConnectionHash
    Servers,        \* foreign server oids
    ServerOf,       \* the server of each user mapping
    Conns,          \* addresses a connection object may have
    Holders,        \* lease structs (memory contexts they live in)
    None,           \* the NULL pointer
    MaxGeneration,  \* bound on the number of transactions
    MaxVersion      \* bound on the number of ALTERs of one object

ASSUME ConstantAssumption ==
    /\ ServerOf \in [Mappings -> Servers]
    /\ None \notin Conns
    /\ None \notin Mappings
    /\ MaxGeneration \in Nat
    /\ MaxVersion \in Nat

VARIABLES
    ConnectionHash,      \* ConnCacheEntry of each user mapping
    PrivateConnections,  \* connections on the PrivateConnections list
    lease_generation,    \* transactions ended so far
    lease,               \* the ch_lease structs
    user,                \* UserMapping* a holder looked up and still uses
    open,                \* connections connected and not yet disconnected
    broken,              \* connections whose is_broken method says true
    built,               \* option versions a connection was opened with
    closed,              \* connections disconnected by the last step
    catalog,             \* committed option versions
    syscache             \* option versions this backend has been told of

vars == <<ConnectionHash, PrivateConnections, lease_generation, lease, user,
          open, broken, built, closed, catalog, syscache>>

cacheVars == <<ConnectionHash, PrivateConnections, lease_generation>>
heapVars == <<open, broken, built>>
catVars == <<catalog, syscache>>

Versions == 0 .. MaxVersion
Options == [server : [Servers -> Versions], mapping : [Mappings -> Versions]]
Entry == [conn : Conns \cup {None}, busy : BOOLEAN, invalidated : BOOLEAN]
Lease == [live : BOOLEAN, entry : Mappings \cup {None},
          conn : Conns \cup {None}, generation : Nat, released : BOOLEAN]
UserMapping == [umid : Mappings \cup {None}, options : Versions]

NoLease == [live |-> FALSE, entry |-> None, conn |-> None,
            generation |-> 0, released |-> TRUE]
NoUser == [umid |-> None, options |-> 0]

TypeOK ==
    /\ ConnectionHash \in [Mappings -> Entry]
    /\ PrivateConnections \subseteq Conns
    /\ lease_generation \in Nat
    /\ lease \in [Holders -> Lease]
    /\ user \in [Holders -> UserMapping]
    /\ open \subseteq Conns
    /\ broken \subseteq Conns
    /\ built \in [Conns -> [server : Versions, mapping : Versions]]
    /\ closed \subseteq Conns
    /\ catalog \in Options
    /\ syscache \in Options

(* hash_search(HASH_ENTER) leaves "invalidated" of a new entry as it finds
   the memory; only "conn" and "busy" are cleared. *)
Init ==
    /\ ConnectionHash \in [Mappings -> {e \in Entry : e.conn = None /\ ~e.busy}]
    /\ PrivateConnections = {}
    /\ lease_generation = 0
    /\ lease = [h \in Holders |-> NoLease]
    /\ user = [h \in Holders |-> NoUser]
    /\ open = {}
    /\ broken = {}
    /\ built = [c \in Conns |-> [server |-> 0, mapping |-> 0]]
    /\ closed = {}
    /\ catalog = [server |-> [s \in Servers |-> 0],
                  mapping |-> [m \in Mappings |-> 0]]
    /\ syscache = catalog

(***************************************************************************)
(* Leases.                                                                 *)
(***************************************************************************)
(* A lease that its holder relies on: taken in this transaction and neither
   released nor freed. *)
Held(h) == lease[h].live /\ ~lease[h].released
                         /\ lease[h].generation = lease_generation

(***************************************************************************)
(* get_connection_entry                                                    *)
(***************************************************************************)
(* Mutants: the entry is remade although it is leased; a broken connection is
   kept. *)
DiscardsLeased(m) == LET e == ConnectionHash[m] IN
    e.conn # None /\ (e.invalidated \/ e.conn \in broken)

KeepsBroken(m) == LET e == ConnectionHash[m] IN
    e.conn # None /\ ~e.busy /\ e.invalidated

(* The idle cached connection is thrown away when a catalog change
   invalidated it or an earlier statement broke it. *)
Discards(m) == LET e == ConnectionHash[m] IN
    /\ e.conn # None
    /\ ~e.busy
    /\ e.invalidated \/ e.conn \in broken

Connects(m) == ConnectionHash[m].conn = None \/ Discards(m)
Discarded(m) == IF Discards(m) THEN {ConnectionHash[m].conn} ELSE {}

(* clickhouse_connect: a connection at any address not in use, built from the
   server's options and the user mapping's. *)
clickhouse_connect(c, dropped, m, options) ==
    /\ c \notin open \ dropped
    /\ open' = (open \ dropped) \cup {c}
    /\ broken' = broken \ (dropped \cup {c})
    /\ built' = [built EXCEPT ![c] = [server |-> syscache.server[ServerOf[m]],
                                      mapping |-> options]]
    /\ closed' = dropped

(* The connection c that the entry of m ends up with. *)
get_connection_entry(c, m, options) ==
    IF Connects(m)
    THEN clickhouse_connect(c, Discarded(m), m, options)
    ELSE /\ c = ConnectionHash[m].conn
         /\ closed' = {}
         /\ UNCHANGED heapVars

(* Mutant: the entry's remaining fields are not filled in. *)
EntryPartlyFilled(m, c, busy) == [conn |-> c, busy |-> busy]

(* The entry once "conn" is set; a new connection clears "invalidated". *)
EntryAfter(m, c, busy) ==
    [conn |-> c, busy |-> busy,
     invalidated |-> ~Connects(m) /\ ConnectionHash[m].invalidated]

(* The caller looks up its user mapping (GetUserMapping): the options it gets
   are those this backend has been told of by now. *)
GetUserMapping(h, m) ==
    /\ ~lease[h].live
    /\ user[h] = NoUser
    /\ user' = [user EXCEPT ![h] = [umid |-> m, options |-> syscache.mapping[m]]]
    /\ closed' = {}
    /\ UNCHANGED <<cacheVars, heapVars, catVars, lease>>

NewLease(entry, c) ==
    [live |-> TRUE, entry |-> entry, conn |-> c,
     generation |-> lease_generation, released |-> FALSE]

(* chfdw_get_scan_connection on a free entry: mark it busy and lease it. *)
LeaseCached(h) == LET m == user[h].umid IN
    /\ m # None
    /\ ~lease[h].live
    /\ ~ConnectionHash[m].busy
    /\ \E c \in Conns :
        /\ get_connection_entry(c, m, user[h].options)
        /\ ConnectionHash' = [ConnectionHash EXCEPT ![m] = EntryAfter(m, c, TRUE)]
        /\ lease' = [lease EXCEPT ![h] = NewLease(m, c)]
    /\ user' = [user EXCEPT ![h] = NoUser]
    /\ UNCHANGED <<PrivateConnections, lease_generation, catVars>>

(* Mutant: the private connection is not put on the list. *)
TrackNothing(c) == PrivateConnections

TrackPrivate(c) == PrivateConnections \cup {c}

(* chfdw_get_scan_connection on a busy entry: a private connection.  A busy
   entry has a connection (BusyIffLeased), which get_connection_entry leaves
   alone. *)
LeasePrivate(h) == LET m == user[h].umid IN
    /\ m # None
    /\ ~lease[h].live
    /\ ConnectionHash[m].busy
    /\ \E c \in Conns :
        /\ clickhouse_connect(c, {}, m, user[h].options)
        /\ PrivateConnections' = TrackPrivate(c)
        /\ lease' = [lease EXCEPT ![h] = NewLease(None, c)]
    /\ user' = [user EXCEPT ![h] = NoUser]
    /\ UNCHANGED <<ConnectionHash, lease_generation, catVars>>

(* clickhouse_connect throws: a discarded connection is gone, the entry is
   left empty, and no lease is registered. *)
ConnectFails(h) == LET m == user[h].umid IN
    /\ m # None
    /\ Connects(m) \/ ConnectionHash[m].busy
    /\ ConnectionHash' = [ConnectionHash EXCEPT ![m] =
                            IF Connects(m) THEN EntryAfter(m, None, @.busy) ELSE @]
    /\ open' = open \ Discarded(m)
    /\ broken' = broken \ Discarded(m)
    /\ closed' = Discarded(m)
    /\ user' = [user EXCEPT ![h] = NoUser]
    /\ UNCHANGED <<PrivateConnections, lease_generation, lease, built, catVars>>

(* chfdw_get_server_version: the planner asks the entry's connection, leased
   or not, for the server's version and takes no lease. *)
chfdw_get_server_version(h) == LET m == user[h].umid IN
    /\ m # None
    /\ \E c \in Conns :
        /\ get_connection_entry(c, m, user[h].options)
        /\ ConnectionHash' = [ConnectionHash EXCEPT ![m] = EntryAfter(m, c, @.busy)]
    /\ UNCHANGED <<PrivateConnections, lease_generation, lease, user, catVars>>

(***************************************************************************)
(* chfdw_release_scan_connection                                           *)
(***************************************************************************)
(* Mutant: a lease may be released twice. *)
UnleasesAgain(l) == TRUE

(* A second release does nothing. *)
Unleases(l) == ~l.released

(* What releasing lease l does to the cache; a second release does nothing,
   and a private connection no longer on the list was closed already. *)
chfdw_release_scan_connection(l) ==
    LET private == IF Unleases(l) /\ l.entry = None
                   THEN {l.conn} \cap PrivateConnections ELSE {}
    IN /\ ConnectionHash' =
            IF Unleases(l) /\ l.entry # None
            THEN [ConnectionHash EXCEPT ![l.entry].busy = FALSE]
            ELSE ConnectionHash
       /\ PrivateConnections' = PrivateConnections \ private
       /\ open' = open \ private
       /\ broken' = broken \ private
       /\ closed' = private
       /\ UNCHANGED <<lease_generation, built>>

(* The holder is done: EndForeignScan, finish_foreign_modify, the end of
   clickhouse_query, ...  Its code only runs inside its own transaction. *)
Release(h) ==
    /\ lease[h].live
    /\ lease[h].generation = lease_generation
    /\ chfdw_release_scan_connection(lease[h])
    /\ lease' = [lease EXCEPT ![h].released = TRUE]
    /\ UNCHANGED <<user, catVars>>

(* Mutant: the generation is not compared. *)
AnyGeneration(h) == TRUE

OfThisTransaction(h) == lease[h].generation = lease_generation

(* release_lease, the reset callback: the context that holds the lease struct
   is freed, by the end of the statement, by an error a PL/pgSQL block
   catches, or after the transaction the lease belongs to is over. *)
release_lease(h) ==
    /\ lease[h].live
    /\ IF OfThisTransaction(h)
       THEN chfdw_release_scan_connection(lease[h])
       ELSE closed' = {} /\ UNCHANGED <<cacheVars, heapVars>>
    /\ lease' = [lease EXCEPT ![h] = NoLease]
    /\ UNCHANGED <<user, catVars>>

(***************************************************************************)
(* Catalog changes.                                                        *)
(***************************************************************************)
(* External: another session commits ALTER SERVER or ALTER USER MAPPING. *)
AlterServer(s) ==
    /\ catalog.server[s] < MaxVersion
    /\ catalog' = [catalog EXCEPT !.server[s] = @ + 1]
    /\ closed' = {}
    /\ UNCHANGED <<cacheVars, heapVars, lease, user, syscache>>

AlterUserMapping(m) ==
    /\ catalog.mapping[m] < MaxVersion
    /\ catalog' = [catalog EXCEPT !.mapping[m] = @ + 1]
    /\ closed' = {}
    /\ UNCHANGED <<cacheVars, heapVars, lease, user, syscache>>

(* Mutant: changes of the server are not looked at. *)
AffectedByMappingOnly(m) == catalog.mapping[m] # syscache.mapping[m]

(* The entry depends on a catalog row whose change is being delivered. *)
Affected(m) ==
    \/ catalog.server[ServerOf[m]] # syscache.server[ServerOf[m]]
    \/ catalog.mapping[m] # syscache.mapping[m]

(* chfdw_inval_callback for every message the backend has not seen; a reset
   of the queue (hash value 0) marks every entry.  Empty entries are skipped. *)
chfdw_inval_callback(reset) ==
    /\ reset \/ catalog # syscache
    /\ syscache' = catalog
    /\ ConnectionHash' =
        [m \in Mappings |->
            IF ConnectionHash[m].conn # None /\ (reset \/ Affected(m))
            THEN [ConnectionHash[m] EXCEPT !.invalidated = TRUE]
            ELSE ConnectionHash[m]]
    /\ closed' = {}
    /\ UNCHANGED <<PrivateConnections, lease_generation, heapVars, lease, user,
                   catalog>>

(***************************************************************************)
(* Transaction end and failures.                                           *)
(***************************************************************************)
(* Cached connections that the end of the transaction closes. *)
Expired == {ConnectionHash[m].conn :
                m \in {n \in Mappings : /\ ConnectionHash[n].conn # None
                                        /\ ConnectionHash[n].invalidated}}

(* Mutant: busy markers are not cleared. *)
EntryAtXactEndStillBusy(m) == LET e == ConnectionHash[m] IN
    [e EXCEPT !.conn = IF e.invalidated THEN None ELSE e.conn]

EntryAtXactEnd(m) == LET e == ConnectionHash[m] IN
    [e EXCEPT !.conn = IF e.invalidated THEN None ELSE e.conn, !.busy = FALSE]

(* chfdw_xact_callback, at commit as well as at abort.  Leases that no one
   released stay behind with an old generation. *)
chfdw_xact_callback ==
    /\ lease_generation < MaxGeneration
    /\ ConnectionHash' = [m \in Mappings |-> EntryAtXactEnd(m)]
    /\ PrivateConnections' = {}
    /\ lease_generation' = lease_generation + 1
    /\ open' = open \ (PrivateConnections \cup Expired)
    /\ broken' = broken \ (PrivateConnections \cup Expired)
    /\ closed' = PrivateConnections \cup Expired
    /\ user' = [h \in Holders |-> NoUser]
    /\ UNCHANGED <<built, lease, catVars>>

(* The driver hits a protocol or transport error on a connection. *)
MarkBroken(c) ==
    /\ c \in open \ broken
    /\ broken' = broken \cup {c}
    /\ closed' = {}
    /\ UNCHANGED <<cacheVars, open, built, lease, user, catVars>>

Next ==
    \/ \E h \in Holders, m \in Mappings : GetUserMapping(h, m)
    \/ \E h \in Holders :
        \/ LeaseCached(h)
        \/ LeasePrivate(h)
        \/ ConnectFails(h)
        \/ chfdw_get_server_version(h)
        \/ Release(h)
        \/ release_lease(h)
    \/ \E s \in Servers : AlterServer(s)
    \/ \E m \in Mappings : AlterUserMapping(m)
    \/ \E reset \in BOOLEAN : chfdw_inval_callback(reset)
    \/ chfdw_xact_callback
    \/ \E c \in Conns : MarkBroken(c)

Spec == Init /\ [][Next]_vars
(***************************************************************************)
(* Properties.                                                             *)
(***************************************************************************)
(* "ClickHouse allows only one query at a time per connection": two holders
   never rely on the same connection, however releases, context frees,
   reconnects and reuse of addresses interleave (chfdw_get_scan_connection,
   chfdw_release_scan_connection). *)
LeaseExclusive ==
    \A g, h \in Holders :
        Held(g) /\ Held(h) /\ lease[g].conn = lease[h].conn => g = h

(* A holder's connection is open, and it is the one its entry caches or one
   that the transaction end will find on PrivateConnections. *)
LeaseOpen ==
    \A h \in Holders : Held(h) =>
        /\ lease[h].conn \in open
        /\ IF lease[h].entry = None
           THEN lease[h].conn \in PrivateConnections
           ELSE lease[h].conn = ConnectionHash[lease[h].entry].conn

(* The busy flag of an entry is neither lost nor left behind: it is set
   exactly while a lease on the entry is held, whichever of the three ways of
   ending a lease comes first. *)
BusyIffLeased ==
    \A m \in Mappings :
        /\ ConnectionHash[m].busy <=> \E h \in Holders : Held(h) /\ lease[h].entry = m
        /\ ConnectionHash[m].busy => ConnectionHash[m].conn # None

(* No connection leaks and none is listed twice: the open connections are
   those of the entries and of PrivateConnections, each owned by one place,
   and a private one does not outlive its lease. *)
Cached == {ConnectionHash[m].conn : m \in Mappings} \ {None}

NoLeak ==
    /\ open = Cached \cup PrivateConnections
    /\ Cached \cap PrivateConnections = {}
    /\ \A m, n \in Mappings :
        ConnectionHash[m].conn = ConnectionHash[n].conn
            /\ ConnectionHash[m].conn # None => m = n
    /\ \A c \in PrivateConnections :
        \E h \in Holders : Held(h) /\ lease[h].entry = None /\ lease[h].conn = c

(* The connection manager implements exclusive leasing.  Beyond exclusivity
   this says that no step disconnects a connection whose lease is held before
   and after it ("Wait until connection is no longer in use before closing
   it"), not even to open another at the same address. *)
Manager == INSTANCE ExclusiveLease WITH
    held <- [h \in Holders |-> IF Held(h) THEN lease[h].conn ELSE None]

ImplementsExclusiveLease == Manager!Spec

(* A connection handed out has not been marked broken by an earlier
   statement, and its entry is not waiting to be remade. *)
FreshHandout ==
    [][\A h \in Holders : ~Held(h) /\ Held(h)' =>
        /\ lease'[h].conn \notin broken'
        /\ lease'[h].entry # None =>
            ~ConnectionHash'[lease'[h].entry].invalidated]_vars

(* A cached connection that does not match the server options committed in
   the catalog is marked for remaking, or the message about the change is
   still on its way (chfdw_inval_callback). *)
ServerOptionsFresh ==
    \A m \in Mappings : LET e == ConnectionHash[m] IN
        e.conn # None /\ ~e.invalidated =>
            built[e.conn].server = syscache.server[ServerOf[m]]

(* The same for the options of the user mapping: "mark connections depending
   on that entry as needing to be remade ... we'll remake them at the next
   opportunity".  The code does not keep this one: the caller's UserMapping
   may predate an invalidation that found the entry empty. *)
MappingOptionsFresh ==
    \A m \in Mappings : LET e == ConnectionHash[m] IN
        e.conn # None /\ ~e.invalidated =>
            built[e.conn].mapping = syscache.mapping[m]

(* The inductive invariant: the properties above are inductive together once
   no lease can carry a generation that is still to come. *)
GenerationsPast == \A h \in Holders : lease[h].generation <= lease_generation

IInv ==
    /\ TypeOK
    /\ GenerationsPast
    /\ LeaseOpen
    /\ LeaseExclusive
    /\ BusyIffLeased
    /\ NoLeak
=============================================================================
