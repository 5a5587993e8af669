---------------------------- MODULE VectorSearch ----------------------------
(***************************************************************************)
(* Vector index metadata and the classification of vector searches         *)
(* (src/src/vector_meta.c, src/src/vector_plan.c).                         *)
(*                                                                         *)
(* Planning a scan sorted by a vector distance reads the ClickHouse        *)
(* indexes of the table, through a cache with a time to live, asks for the *)
(* server's version and says whether an index can serve the search.  The   *)
(* answer only goes to warnings and EXPLAIN, but it is given from state    *)
(* that ages: the cached indexes and the limit cap cached with them, the   *)
(* version the connection remembers, and an entry that is entered in the   *)
(* hash table before it is filled.                                         *)
(***************************************************************************)
EXTENDS Integers, FiniteSets, FiniteSetsExt

CONSTANTS Tables,       \* foreign tables
          Altered,      \* those whose index changes in ClickHouse
          Drivers,      \* "http", "binary"
          MaxTime,      \* bound on the clock, in seconds
          MaxPlans,     \* bound on the scans planned
          MaxChanges,   \* bound on the changes of indexes and caps in ClickHouse
          TTLs,         \* values of pg_clickhouse.vector_metadata_ttl
          Caps,         \* values of max_limit_for_vector_search_queries
          Limits,       \* constant LIMIT counts
          Versions      \* "new": 25.8 or later, "old"

NoCap == 0 - 1                      \* the server reports no cap

(* What the constants may be. *)
VectorConstants ==
    /\ Altered \subseteq Tables
    /\ Drivers \subseteq {"http", "binary"} /\ Versions \subseteq {"new", "old"}
    /\ Caps \subseteq Nat \cup {NoCap}
    /\ TTLs \subseteq Nat /\ Limits \subseteq Nat /\ MaxTime \in Nat /\ MaxPlans \in Nat
    /\ MaxChanges \in Nat

Indexes  == {"none", "L2", "cosine"} \* the metric of the index on the column
TopBit   == 8                       \* 2^63, with an int64 of four bits
Never    == 0 - 1                   \* before the clock starts

(***************************************************************************)
(* VectorTableMeta, what fetch_meta makes of its rows: the metric of the   *)
(* index on the column and limit_cap.  The cap comes with the rows of the  *)
(* indexes, so a table without one has none.                               *)
(***************************************************************************)
Meta(metric, limitcap) == [metric |-> metric, cap |-> limitcap]
NoIndex == Meta("none", NoCap)
Metas   == {NoIndex} \cup {Meta(m, c) : m \in {"L2", "cosine"}, c \in Caps}
Garbage == Meta("garbage", NoCap)   \* memory nothing has been written to

VARIABLES driver, server,           \* the driver and the server's version
          now, ttl,                 \* the clock and the time to live
          index,                    \* table -> its index in ClickHouse
          cap,                      \* the effective cap, for the settings a query carries
          changes,                  \* changes in ClickHouse so far
          held,                     \* table, Meta -> when it last held since the refresh
          cache,                    \* table -> entry, for the tables in its domain
          live,                     \* memory contexts not deleted
          up, conn, version,        \* reachable; connection; the version it remembers
          scan,                     \* the scan being planned
          plans, cancelled          \* scans planned; was a cancel requested

vars == <<driver, server, now, ttl, index, cap, changes, held, cache, live, up, conn, version,
          scan, plans, cancelled>>

Idle == [pc |-> "idle", t |-> "none", started |-> 0, found |-> FALSE, cxt |-> 0,
         meta |-> NoIndex, count |-> 0, reason |-> "none"]

Entry(meta, at, cxt) == [meta |-> meta, at |-> at, cxt |-> cxt]

Init ==
    /\ driver \in Drivers /\ server \in Versions
    /\ now = 0 /\ ttl \in TTLs
    /\ index = [t \in Tables |-> "none"] /\ cap \in Caps /\ changes = 0
    /\ held = [t \in Tables |-> [m \in Metas |-> IF m = NoIndex THEN 0 ELSE Never]]
    /\ cache = << >> /\ live = {}
    /\ up = TRUE /\ conn = FALSE /\ version = "unknown"
    /\ scan = Idle /\ plans = 0 /\ cancelled = FALSE

-----------------------------------------------------------------------------
(* chfdw_vector_table_meta                                                 *)
NeverExpires(e, time) == ttl > 0

Fresh(e, time) == ttl > 0 /\ time - e.at < ttl

(* evict_stale *)
Stale(t, time) == {u \in DOMAIN cache \ {t} : time - cache[u].at >= ttl}

Without(c, ts) == [u \in DOMAIN c \ ts |-> c[u]]
With(c, t, e)  == [u \in DOMAIN c \cup {t} |-> IF u = t THEN e ELSE c[u]]
Contexts(c)    == {c[u].cxt : u \in DOMAIN c}

(* a hit; on a miss the entry exists, unfilled, when the fetch starts      *)
LookupHit ==
    /\ scan.pc = "lookup" /\ scan.t \in DOMAIN cache
    /\ Fresh(cache[scan.t], now)
    /\ scan' = [scan EXCEPT !.pc = "version", !.started = now, !.meta = cache[scan.t].meta]
    /\ UNCHANGED <<driver, server, now, ttl, index, cap, changes, held, cache, live, up,
                   conn, version, plans, cancelled>>

LookupMiss ==
    /\ scan.pc = "lookup"
    /\ scan.t \in DOMAIN cache => ~Fresh(cache[scan.t], now)
    /\ LET found == scan.t \in DOMAIN cache
           kept  == Without(cache, Stale(scan.t, now))
       IN  /\ cache' = IF found THEN kept ELSE With(kept, scan.t, Entry(Garbage, now, 0))
           /\ live' = (live \ {cache[u].cxt : u \in Stale(scan.t, now)}) \cup {plans}
           /\ scan' = [scan EXCEPT !.pc = "subxact", !.started = now, !.found = found,
                                   !.cxt = plans]
    /\ UNCHANGED <<driver, server, now, ttl, index, cap, changes, held, up, conn,
                   version, plans, cancelled>>

(* BeginInternalSubTransaction                                             *)
BeginSubTransaction ==
    /\ scan.pc = "subxact"
    /\ scan' = [scan EXCEPT !.pc = "fetch"]
    /\ UNCHANGED <<driver, server, now, ttl, index, cap, changes, held, cache, live, up,
                   conn, version, plans, cancelled>>

(* In parallel mode it is an error, which leaves before PG_TRY; the entry  *)
(* stays, with whatever its memory held                                    *)
SubTransactionFails ==
    /\ scan.pc = "subxact"
    /\ \E at \in 0..MaxTime :
         cache' = IF scan.found THEN cache ELSE With(cache, scan.t, Entry(Garbage, at, 0))
    /\ scan' = [Idle EXCEPT !.pc = "error"]
    /\ UNCHANGED <<driver, server, now, ttl, index, cap, changes, held, live, up, conn,
                   version, plans, cancelled>>

(* what fetch_meta finds of table t                                        *)
MetaOf(t) == IF index[t] = "none" THEN NoIndex ELSE Meta(index[t], cap)

(* fetch_meta and what follows it                                          *)
FetchMeta ==
    /\ scan.pc = "fetch" /\ up /\ ~cancelled
    /\ conn' = TRUE
    /\ live' = live \ (IF scan.found THEN {cache[scan.t].cxt} ELSE {})
    /\ cache' = With(cache, scan.t, Entry(MetaOf(scan.t), scan.started, scan.cxt))
    /\ scan' = [scan EXCEPT !.pc = "version", !.meta = MetaOf(scan.t), !.found = FALSE,
                            !.cxt = 0]
    /\ UNCHANGED <<driver, server, now, ttl, index, cap, changes, held, up, version,
                   plans, cancelled>>

(* the PG_CATCH branch; the error may be a cancel, which is flushed too    *)
EntryKept(t) == cache

EntryRemoved(t) == Without(cache, {t})

FetchFails ==
    /\ scan.pc = "fetch"
    /\ live' = live \ ({scan.cxt} \cup (IF scan.found THEN {cache[scan.t].cxt} ELSE {}))
    /\ cache' = EntryRemoved(scan.t)
    /\ scan' = [scan EXCEPT !.pc = "planned", !.reason = "unknown", !.found = FALSE,
                            !.cxt = 0]
    /\ UNCHANGED <<driver, server, now, ttl, index, cap, changes, held, up, conn,
                   version, plans, cancelled>>

-----------------------------------------------------------------------------
(* chfdw_get_server_version: a binary connection knows the version from    *)
(* its handshake; an HTTP connection asks once, and a failure counts       *)
GetServerVersion ==
    /\ scan.pc = "version"
    /\ \/ /\ conn \/ up \/ driver = "http"
          /\ conn' = TRUE
          /\ version' = CASE version # "unknown" -> version
                          [] version = "unknown" /\ (up \/ driver = "binary") -> server
                          [] OTHER -> "zero"
          /\ scan' = [scan EXCEPT !.pc = "classify"]
       \/ /\ ~conn /\ ~up /\ driver = "binary"
          /\ scan' = [Idle EXCEPT !.pc = "error"]
          /\ UNCHANGED <<conn, version>>
    /\ UNCHANGED <<driver, server, now, ttl, index, cap, changes, held, cache, live, up,
                   plans, cancelled>>

(***************************************************************************)
(* A LIMIT or OFFSET: none, a constant n, the constant NULL that ALL and   *)
(* NULL give ("all"), or an expression whose value the planner does not    *)
(* know, such as a parameter.                                              *)
(***************************************************************************)
Clause(kind, n) == [kind |-> kind, n |-> n]
Clauses(counts) ==
    {Clause(k, 0) : k \in {"none", "all", "expr"}} \cup {Clause("const", n) : n \in counts}

(* limit_needed (external): PostgreSQL plans a LIMIT node                  *)
LimitNeeded(limit, offset) ==
    \/ limit.kind \in {"const", "expr"}
    \/ offset.kind = "expr" \/ (offset.kind = "const" /\ offset.n # 0)

const_count(c) == CASE c.kind = "none" -> 0 [] c.kind = "const" -> c.n [] OTHER -> 0 - 1

(* limit + offset in an int64                                              *)
Wrap(n) == ((n + TopBit) % (2 * TopBit)) - TopBit

(* fallback_reason, for a search by ascending L2 distance whose one sort   *)
(* key is pushed down; "index" says one is used                            *)
OverCap(limitcap, limit, offset) ==
    /\ limitcap >= 0 /\ limit >= 0 /\ offset >= 0
    /\ Wrap(limit + offset) > limitcap

FallbackReason(meta, hasLimit, limit, offset) ==
    IF version # "new" THEN "old"
    ELSE IF ~hasLimit THEN "no limit"
    ELSE IF meta.metric = "none" THEN "no index"
    ELSE IF meta.metric # "L2" THEN "other metric"
    ELSE IF OverCap(meta.cap, const_count(limit), const_count(offset)) THEN "limit"
    ELSE "index"

(* How many rows the query asks of the index, where its text tells.        *)
Unknown   == 0 - 2
Unlimited == 0 - 1

Asked(limit, offset) ==
    CASE limit.kind \in {"none", "all"}                          -> Unlimited
      [] limit.kind = "const" /\ offset.kind \in {"none", "const"} -> limit.n + offset.n
      [] OTHER                                                   -> Unknown

(* pushed: the LIMIT can be pushed down                                    *)
Classify ==
    /\ scan.pc = "classify"
    /\ \E limit \in Clauses(Limits), offset \in Clauses({0, 1}), pushed \in BOOLEAN :
         scan' = [scan EXCEPT !.pc = "planned", !.meta = NoIndex,
                              !.count = Asked(limit, offset),
                              !.reason = FallbackReason(scan.meta,
                                             pushed /\ LimitNeeded(limit, offset),
                                             limit, offset)]
    /\ UNCHANGED <<driver, server, now, ttl, index, cap, changes, held, cache, live, up,
                   conn, version, plans, cancelled>>

(* chfdw_vector_plan_info for a scan sorted by a distance                  *)
PlanScan ==
    /\ scan.pc = "idle" /\ plans < MaxPlans
    /\ \E t \in Tables : scan' = [Idle EXCEPT !.pc = "lookup", !.t = t]
    /\ plans' = plans + 1
    /\ UNCHANGED <<driver, server, now, ttl, index, cap, changes, held, cache, live, up,
                   conn, version, cancelled>>

(* the plan is executed, or the query fails                                *)
EndQuery ==
    /\ scan.pc \in {"planned", "error"}
    /\ scan' = Idle /\ cancelled' = FALSE
    /\ UNCHANGED <<driver, server, now, ttl, index, cap, changes, held, cache, live, up,
                   conn, version, plans>>

-----------------------------------------------------------------------------
(* chfdw_vector_meta_invalidate_all, called between queries                *)
InvalidateAll == cache' = << >> /\ live' = {}

RefreshVectorMetadata ==
    /\ scan.pc = "idle"
    /\ InvalidateAll
    /\ held' = [t \in Tables |-> [m \in Metas |-> IF m = MetaOf(t) THEN now ELSE Never]]
    /\ UNCHANGED <<driver, server, now, ttl, index, cap, changes, up, conn, version,
                   scan, plans, cancelled>>

SetTtl ==
    /\ scan.pc = "idle" /\ ttl' \in TTLs \ {ttl}
    /\ UNCHANGED <<driver, server, now, index, cap, changes, held, cache, live, up,
                   conn, version, scan, plans, cancelled>>

(* What ClickHouse answers from now on has held up to now.                 *)
RecordHeld == held' = [t \in Tables |-> [held[t] EXCEPT ![MetaOf(t)'] = now']]

Tick ==
    /\ now < MaxTime
    /\ now' = now + 1
    /\ UNCHANGED <<driver, server, ttl, index, cap, changes, cache, live, up, conn,
                   version, scan, plans, cancelled>>
    /\ RecordHeld

(* someone alters the table in ClickHouse                                  *)
AlterIndex ==
    /\ changes < MaxChanges /\ changes' = changes + 1
    /\ \E t \in Altered, i \in Indexes :
         /\ i # index[t]
         /\ index' = [index EXCEPT ![t] = i]
    /\ UNCHANGED <<driver, server, now, ttl, cap, cache, live, up, conn, version, scan,
                   plans, cancelled>>
    /\ RecordHeld

(* the server's profile, or pg_clickhouse.session_settings, changes the    *)
(* cap that system.settings reports                                        *)
ChangeCap ==
    /\ changes < MaxChanges /\ changes' = changes + 1
    /\ cap' \in Caps \ {cap}
    /\ UNCHANGED <<driver, server, now, ttl, index, cache, live, up, conn, version,
                   scan, plans, cancelled>>
    /\ RecordHeld

(* an aborted transaction or ALTER SERVER drops the connection             *)
DropConnection ==
    /\ scan.pc = "idle" /\ conn
    /\ conn' = FALSE /\ version' = "unknown"
    /\ UNCHANGED <<driver, server, now, ttl, index, cap, changes, held, cache, live, up,
                   scan, plans, cancelled>>

NetworkChanges ==
    /\ up' = ~up
    /\ UNCHANGED <<driver, server, now, ttl, index, cap, changes, held, cache, live,
                   conn, version, scan, plans, cancelled>>

Cancel ==
    /\ scan.pc = "fetch" /\ ~cancelled
    /\ cancelled' = TRUE
    /\ UNCHANGED <<driver, server, now, ttl, index, cap, changes, held, cache, live, up,
                   conn, version, scan, plans>>

Next ==
    \/ PlanScan \/ LookupHit \/ LookupMiss \/ BeginSubTransaction \/ FetchMeta \/ FetchFails
    \/ GetServerVersion \/ Classify \/ EndQuery
    \/ RefreshVectorMetadata \/ SetTtl \/ Tick \/ AlterIndex \/ ChangeCap
    \/ DropConnection \/ NetworkChanges \/ Cancel

Spec == Init /\ [][Next]_vars

(* with queries planned in parallel mode                                   *)
SpecParallel == Init /\ [][Next \/ SubTransactionFails]_vars

-----------------------------------------------------------------------------
(***************************************************************************)
(* What a scan is told about its index was so in ClickHouse at some moment *)
(* within the time to live before the lookup and since the last refresh,   *)
(* and the other reasons are true of the server and of the query.  A count *)
(* is compared with a cap that ClickHouse reported in the same moment as   *)
(* the index, where the LIMIT and the OFFSET are constants.  Of a LIMIT or *)
(* OFFSET that is an expression, of OFFSET NULL, and of an OFFSET without  *)
(* a LIMIT, the code names the index whatever the count, and nothing is    *)
(* claimed of that count (IndexWithinLimit, which claims it, is violated). *)
(***************************************************************************)
Held(m) ==
    held[scan.t][m] # Never /\ held[scan.t][m] > scan.started - Max({ttl, 1})

Within(limitcap) == limitcap = NoCap \/ (scan.count \in Nat /\ scan.count <= limitcap)
Beyond(limitcap) == limitcap # NoCap /\ (scan.count = Unlimited \/ scan.count > limitcap)

ReasonTrue ==
    scan.pc = "planned" =>
        CASE scan.reason = "index" ->
                 \E c \in Caps : Held(Meta("L2", c)) /\ (scan.count \in Nat => Within(c))
          [] scan.reason = "limit"        -> \E c \in Caps : Held(Meta("L2", c)) /\ Beyond(c)
          [] scan.reason = "other metric" -> \E c \in Caps : Held(Meta("cosine", c))
          [] scan.reason = "no index"     -> Held(NoIndex)
          [] scan.reason = "old"          -> server = "old"
          [] OTHER                        -> TRUE

(* An index is named only for a count within the cap.                      *)
IndexWithinLimit ==
    scan.pc = "planned" /\ scan.reason = "index" =>
        \E c \in Caps : Held(Meta("L2", c)) /\ Within(c)

(* Between queries the memory of the cache is that of its entries: each    *)
(* entry's context is alive, and no other context is.                      *)
ContextsOwned ==
    scan.pc = "idle" => live = Contexts(cache)

(* chfdw_vector_table_meta gives a result of fetch_meta, or nothing.       *)
ReturnsMetadata == scan.meta # Garbage

(* A lookup that fails never fails the plan.                               *)
PlanSurvives == scan.pc # "error"

(* A query that was cancelled is not executed.                             *)
CancelStopsQuery == ~(cancelled /\ scan.pc = "planned")

-----------------------------------------------------------------------------
(***************************************************************************)
(* The inductive invariant of Spec.                                        *)
(***************************************************************************)
Pcs == {"idle", "lookup", "subxact", "fetch", "version", "classify", "planned", "error"}
Reasons == {"none", "unknown", "old", "no limit", "no index", "other metric", "limit", "index"}
Scans == [pc : Pcs, t : Tables \cup {"none"}, started : Nat, found : BOOLEAN,
          cxt : Nat, meta : Metas, count : Nat \cup {Unknown, Unlimited}, reason : Reasons]

VectorTypes ==
    /\ driver \in Drivers /\ server \in Versions
    /\ now \in Nat /\ ttl \in TTLs /\ plans \in Nat
    /\ index \in [Tables -> Indexes] /\ cap \in Caps /\ changes \in Nat
    /\ held \in [Tables -> [Metas -> Nat \cup {Never}]]
    /\ DOMAIN cache \subseteq Tables
    /\ scan \in Scans
    /\ scan.pc \notin {"idle", "error"} => scan.t \in Tables

(* A lookup that missed runs; its entry is there, and maybe not filled yet. *)
Fetching == scan.pc \in {"subxact", "fetch"}
Filled   == {u \in DOMAIN cache : ~(Fetching /\ ~scan.found /\ u = scan.t)}

(* What a fetch would find now is recorded as held up to now. *)
HeldNow ==
    \A t \in Tables : held[t][MetaOf(t)] = now /\ \A m \in Metas : held[t][m] <= now

(* A filled entry was true when it was fetched or after, since the refresh. *)
EntryTrue(u) ==
    LET e == cache[u] IN
    /\ e.meta \in Metas /\ e.at \in Nat /\ e.cxt \in Nat
    /\ held[u][e.meta] # Never /\ held[u][e.meta] >= e.at

EntriesTrue == \A u \in Filled : EntryTrue(u)

(* So is what the scan was given, within the time to live. *)
GivenTrue == scan.pc \in {"version", "classify"} => Held(scan.meta)
StartsByNow == scan.started <= now

(* A binary connection remembers its own server's version. *)
VersionTrue ==
    version \in {"unknown", server} /\ (scan.pc = "classify" => version = server)

(* Each filled entry has a context of its own; a lookup adds a new one. *)
ContextsApart ==
    /\ \A u, v \in Filled : cache[u].cxt = cache[v].cxt => u = v
    /\ \A u \in Filled : cache[u].cxt <= plans
    /\ scan.pc \in {"lookup", "subxact", "fetch"} =>
         \A u \in Filled : cache[u].cxt < plans
    /\ Fetching => scan.cxt = plans /\ scan.t \in DOMAIN cache
    /\ live = {cache[u].cxt : u \in Filled} \cup (IF Fetching THEN {scan.cxt} ELSE {})

VectorInv ==
    /\ VectorTypes /\ HeldNow /\ EntriesTrue /\ GivenTrue /\ StartsByNow
    /\ VersionTrue /\ ContextsApart /\ ReasonTrue
=============================================================================
