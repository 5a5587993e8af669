# pg_clickhouse in TLA+

pg_clickhouse is a PostgreSQL extension: a foreign data wrapper that runs scans,
joins, aggregates and INSERTs on a ClickHouse server, over the binary (native TCP)
protocol or over HTTP. This directory holds TLA+ models of the parts of it that are
hard to test, the TLC configurations that check them, and TLAPS proofs about the
connection manager, the lifecycle of scans, the binary and the HTTP driver, the pushdown of joins,
windows and the steps above a scan, and what a backend remembers between plans. Paths such as
`src/src/http.c` are relative to the directory that holds the repository as `src/`.

To check: `tlc -config X.cfg M` for each pair (module M, configuration X) of the table
of runs, and `tlapm M.tla` for each module M whose name ends in `Proofs`.

## 1. The system

One PostgreSQL backend is one process with one thread. "Concurrency" in it means:
several statements (scans of one join, a function called from a scan, an INSERT whose
source is a foreign scan) that are open at the same time; callbacks of PostgreSQL (memory
context resets, catalog invalidations, transaction ends) and of libcurl that run in the
middle of something else; errors (`ereport`) that leave through `longjmp` from anywhere;
signals that set `QueryCancelPending`; and the server and the network, which go on by
themselves.

| component | state it keeps | operations | what makes it correct |
|---|---|---|---|
| connection cache (`connection.c`) | `ConnectionHash`, `PrivateConnections`, `lease_generation`, the `ch_lease` of each holder | get a scan connection, release it, free its context, invalidate, end the transaction | one holder per connection; held connections are open; nothing leaks; stale or broken connections are not handed out |
| scan, text query and insert lifecycle (`fdw.c`, `cursor.c`, `pglink.c`) | cursor, response, insert handle, lease, memory contexts | begin, iterate, rescan, end, error, abort | responses and handles go before the lease, the lease before the connection; one reply in flight |
| binary driver (`binary/*.c`) | `ch_binary_connection_t` (broken, check_cancel_fn, deadline), response, insert state | send query, pump packets, fetch block, drain, begin/flush/finalize/release INSERT | own blocks in order, no truncation, clean connection afterwards, acknowledged INSERTs |
| HTTP driver (`http.c`, `http_*` of `pglink.c`) | `HttpStream` (buffer, tail, paused, done, status), attempts | begin, pump, next chunk, late exception, retry, kill query, INSERT by POST | whole body in order or an error; no repeated INSERT; cancelled requests killed |
| settings (`settings.c`) | option lists of server, tables and session; the plan's merged list | merge a table's, overlay, filter by version | order of tables does not matter; precedence; conflicts count for nothing |
| options, endpoints (`kv_list.c`, `option.c`, `endpoint.c`) | none | parse, validate, resolve | invalid combinations refused |
| vector search (`vector*.c`) | metadata cache with time to live, remembered server version | look up, refresh, evict, plan | what a scan is told is true and recent; memory has one owner |
| planner (`fdw.c`) | `CHFdwRelationInfo` per relation | paths for scans, joins, aggregates, windows, sorts, limits | whichever path wins, the rows are the query's |
| deparser (`deparse.c`) | deparse context | walk expressions, write SQL | what is accepted means the same in ClickHouse, NULLs included |
| column option cache (`custom_types.c`) | `custom_columns_cache`, the names it owns | look up, prime, invalidate | names are the options in force; freed once |
| function, type and operator cache (`custom_types.c`) | `custom_objects_cache`, its stale mark | look up, mark, drop at the end of the transaction | at most one transaction behind the catalog |
| shippability (`shipable.c`) | a cache | look up | its cache is never reached: `fpinfo->shippable_extensions` is always NIL (`fdw.c:575`) |
| schema import (`pglink.c`) | none | describe tables, write `CREATE FOREIGN TABLE` | type mapping |

How they interact: the planner and the deparser produce the query of a scan; the scan
takes a lease from the connection cache and opens a cursor with the driver's
`simple_query`; the cursor pulls blocks from the driver through the decoder of
`pg-clickhouse-c`; the end of the scan frees the cursor and gives back the lease. An INSERT
keeps an insert state in place of the cursor. The transaction callback cleans up what
errors have left behind. The driver tells the cache through `is_broken` that a
connection may not be used again.

Hard behaviours, listed with their lines under "hazards" in `PROJECT.json`: a lease is
ended by whichever of three events comes first, and by the others afterwards; heap
addresses of connections are reused; catalog changes arrive in the middle of lookups;
connects fail half way; invalidations run in the middle of a cache lookup that has entered its key;
conditions, limits and aggregates move across joins, groupings and NULLs on which two database
systems disagree; PostgreSQL frees memory before and after the transaction callbacks;
Cancel crosses the end of a reply; draining meets its deadline; the server raises after
it has sent rows; HTTP bodies are cut at any byte; requests are retried; a statement
waits for a server that does not answer.

## 2. Modules

| module | models | size of the state |
|---|---|---|
| `ExclusiveLease` | abstract specification: holders get and give back resources, one holder each, nothing is closed while held | `held`, `open`, `closed` |
| `ConnCache` | `connection.c` | 11 variables |
| `ScanLifecycle` | extends `ConnCache` with what holders do with their connection and the order in which memory goes away | + 6 variables |
| `ScanLifecycleProofs` | theorems about `ConnCache`, its refinement of `ExclusiveLease`, and theorems about `ScanLifecycle` | |
| `BinaryDriver` | one binary connection, the statements it serves in turn, the server and the two directions of the socket | 13 variables |
| `BinaryDriverProofs` | theorems about `BinaryDriver` | |
| `HttpDriver` | one session of HTTP statements, libcurl and the server | 16 variables |
| `HttpDriverProofs` | theorems about `HttpDriver` | |
| `ExprPushdown` | `foreign_expr_walker` and the forms `deparseExpr` chooses for conditions and values | the expression, grown node by node |
| `AggPushdown` | `deparseAggref`: FILTER, DISTINCT, CollapsingMergeTree signs, partial states | an aggregate, the rows of a remote and a local partition |
| `WindowFrame` | `deparseWindowFunc`: order, NULLs and frame | a window clause, the rows of a partition |
| `JoinPushdown` | `foreign_join_ok`, the FROM clause, subquery inputs and their columns | a query's shape, its relations |
| `UpperPushdown` | `clickhouseGetForeignUpperPaths`: grouping, windows, final sort and limit | 5 variables |
| `PushdownProofs` | theorems about `JoinPushdown`, `WindowFrame` and `UpperPushdown` | |
| `Settings` | `settings.c` | 7 variables |
| `ColumnCache` | `custom_columns_cache` and the callers that read names through it | 15 variables |
| `ObjectCache` | `custom_objects_cache` | 13 variables |
| `VectorSearch` | `vector_meta.c`, `vector_plan.c`, the version lookups of both drivers | 14 variables |
| `ColumnCacheProofs`, `ObjectCacheProofs`, `VectorSearchProofs` | the inductive invariants of these three | |
| `MCConnCache`, `MCScanLifecycle` | model values and symmetry for TLC | |
| `MCExpressions` | one item of a remote SELECT: expression, aggregate or window function | |
| `MCQueries` | the relations of a remote SELECT: joins, and the steps above the scan | |
| `MCPlanning` | what a backend remembers: settings, columns, objects, vector metadata, in one specification | |
| `PlanningProofs` | theorems about `Settings` and `MCPlanning` | |

**ConnCache.** `ConnectionHash[m]` is the `ConnCacheEntry` of user mapping `m` (`conn`,
`busy`, `invalidated`), `lease[h]` the `ch_lease` of holder `h`. A connection is an address
of a small set, free to be reused once it is closed, because the code compares pointers.
Options are version numbers that `AlterServer` and `AlterUserMapping` count up in
`catalog`; `chfdw_inval_callback` brings a change to `syscache` and marks entries. A
holder first looks its `UserMapping` up (`GetUserMapping`) and leases later, as the planner
and the executor do. `LeaseCached` and `LeasePrivate` are the two outcomes of
`chfdw_get_scan_connection`, both with `get_connection_entry` inside, and `ConnectFails` its
failure. `Release` is an explicit release, `release_lease` the reset callback,
`chfdw_xact_callback` the end of a transaction. `MarkBroken` stands for whatever a driver
did.

**ScanLifecycle.** Reuses every action of `ConnCache` through `Manage`, which adds what a
close does to handles (`ch_binary_close` detaches INSERTs, not responses). `wire[c]` is the
sequence of holders whose reply is unread on `c`. Holders are query, text
(`chfdw_run_text_query`) or insert holders, and some are late: their memory goes after the
transaction callbacks. `faults` records holders that touched a closed connection.

**BinaryDriver.** `pc` says which function the session is in; `toServer` and `toClient`
are the socket. A scan is `SendQuery`, `pump_one`, `OpenCursor`, `TakeBlock`, `EndOfStream`,
then one of the ways `ch_binary_response_free` can go: `FreeAtEnd`, `FreeEarly` (Cancel, then
`ch_binary_drain` under a deadline) and `FreeUnsent`. An INSERT is `BeginInsert`,
`recv_initial_block`, `ch_binary_flush_block`, `ch_binary_finalize_insert` and
`ch_binary_release_insert`. The server is nondeterministic: it answers, raises at any
point, honours Cancel, ignores it or hangs; the socket may drop at any time.

**HttpDriver.** The body of a response is a sequence of units that curl delivers in
pieces of any length. `pc` tells the six callers of `pump()` apart. `PumpChunk`, `PumpDone`
and `PumpCanceled` are one round of its loop. The exception text of the server is a unit `Code`
followed by units `More`; `tail` keeps the last `TailSize` units, as `write_callback` keeps
the last 4096 bytes. The server decides when it gets a request how it will answer, and the network
may cut the answer off anywhere.

**ExprPushdown.** A state is one expression; each action puts a node on top of it: an operator,
IN over an array, a sublink, NOT, AND/OR, CASE, a null test and so on. `Walk` is the walker with
its TRUTH, NEGATED and EXACT contexts, `Emit` the deparser with `truth_ctx`; the SQL is the tree
it denotes. `PgEval` is PostgreSQL's three-valued meaning, `ChEval` ClickHouse's, in which IN
has two values and a subquery's NULLs drop out. The invariants compare the two for every row,
parameter and content of the subquery's table.

**AggPushdown, WindowFrame.** The same comparison for aggregates (`ChValue`, `PartialStatArray`
against `PgValue` and PostgreSQL's transition states, combined and finalised) and for the
frames of window functions (`ChFrame` against `FrameOf`). Rows are inserted and cancelled one
at a time. `Call` is the call as it is written, condition and arguments apart; ClickHouse may
refuse it (`Accepted`), the combine step may refuse its result (`CombineArrays`), and over no
rows it gives NULL or the type's default (`Empty`). `Result` puts these together.

**JoinPushdown.** `Join` offers two relations to `GetForeignJoinPaths`, which fills in the
`fdw_private` of the new relation: which conditions go to ON, to WHERE and to the
executor, which inputs become subqueries. A shape says which tables a query has, in which order
they are joined and which kinds of joins and conditions occur. A relation carries, besides its
`fdw_private`, its rows in PostgreSQL and, once it is pushed, the rows of its FROM clause in
ClickHouse, both for every database. `ChResults` adds the WHERE clause; LEFT SEMI JOIN may keep any
match, so it has a set of results.

**UpperPushdown.** The planner visits the steps a query needs in order; a step that is safe
marks its relation and adds a path. `Answers` runs a path, the rest being done by the executor
(`Local`), over every table; `Reference` is the query done by PostgreSQL alone. An outcome is rows,
a function from what identifies a row to the row, and a flag that says whether they come in
the order of the query's ORDER BY or in any order.

**Settings.** `DeparseTable` is met once per occurrence of a table in the join tree,
`BeginForeignScan` sends `QuerySettings`: defaults, server, tables, session, then the
version filter. ALTERs and SET come between planning and execution.

**ColumnCache.** Hash elements and names are memory: a removed element goes to the free list
with its contents and is handed out again with them. A lookup is several steps, between which
the catalog reads of the code may process an invalidation, which runs
`invalidate_custom_columns_cache`. `RebuildTable` is the read inside `table_open`, while the
entry just entered still has its element's old contents; `Raise` is a read that raises and
leaves the entry behind (`half`). `strayed` records that the callback has met the pointer of
an entry that no lookup had written: from then on it may free anything. The statement holds a lock on its table from its first
lookup on, so the option may not change under it; other tables' changes still invalidate.

**ObjectCache.** The callback marks (`custom_objects_stale`); `drop_stale_custom_objects` drops
the table at the end of the transaction. Functions and operators enter their entry before they
read the catalogs, types after. An OID may be dropped and used again.

**VectorSearch.** A scan looks its table's indexes up (`Fresh`, refresh in a subtransaction,
`evict_stale`), then the version, then classifies. An entry has the index's metric and, as
`system.settings` reported it in the same query, the cap on the limit (`Meta`). A LIMIT or
OFFSET is absent, a constant, NULL or an expression (`Clause`), and `const_count` does not
know the last two. The clock, changes of the index and of the cap and the server's
reachability go on by themselves. `held` remembers when each answer was last true.

Definitions carry the names of the functions they model where these are functions of
their own, and `PROJECT.json` maps each one to its lines.

## 3. Runs

| run | configuration | result |
|---|---|---|
| `conn_cache_leases` | `MCConnCache`, `ConnCache.cfg` | passes |
| `conn_cache_stale_mapping` | `MCConnCache`, `ConnCacheStaleMapping.cfg` | violated, see 5.1 |
| `scan_lifecycle` | `MCScanLifecycle`, `ScanLifecycle.cfg` | passes |
| `scan_text_query` | `MCScanLifecycle`, `ScanTextQuery.cfg` | violated, see 5.2 |
| `scan_spi_abort` | `MCScanLifecycle`, `ScanSpiAbort.cfg` | violated, see 5.3 |
| `binary_driver` | `BinaryDriver`, `BinaryDriver.cfg` | passes |
| `binary_rescan` | `BinaryDriver`, `BinaryRescan.cfg` | violated, see 5.4 |
| `binary_insert_cancel` | `BinaryDriver`, `BinaryInsertCancel.cfg` | violated, see 5.5 |
| `http_driver` | `HttpDriver`, `HttpDriver.cfg` | passes |
| `pushdown_expressions` | `MCExpressions`, `MCExpressions.cfg` | passes |
| `pushdown_queries` | `MCQueries`, `MCQueries.cfg` | passes |
| `planning_memory` | `MCPlanning`, `MCPlanning.cfg` | passes |

- `conn_cache_leases`: `LeaseExclusive`, `LeaseOpen`, `BusyIffLeased`, `NoLeak`,
  `FreshHandout`, `ServerOptionsFresh` and the refinement `ImplementsExclusiveLease`. Two
  mappings of one server, two addresses, two holders, two transactions, one ALTER of each
  object: enough for a lease that outlives its transaction while its address is reused by
  another holder's connection, and for options that change between the lookup and the connect.
  Larger sets of holders and addresses are covered by the proofs of section 4. Mappings,
  holders and addresses are symmetric.
- `scan_lifecycle`: `OneHolderInFlight`, `ResponseUnderLease`, `NoUseAfterCloseButLate`. Each
  states its exceptions (a failed text query, late memory) and the two violation runs show
  what these do. One mapping, a scan, a late INSERT and a late text query, two addresses, two
  transactions, two requests per connection: one holder on the cached connection, one on a
  private one and a third that takes over what the others gave back. Addresses are symmetric.
- `binary_driver`: `OwnBlocksInOrder`, `NoSilentTruncation`, `CleanForReuse`,
  `InsertAcknowledged`, and the liveness properties `FreeEnds` and `CanceledScanEnds`. Two
  statements in turn, because what an earlier statement leaves behind matters to the next only;
  two blocks, so that order and loss differ; three packets in flight, so that a block, the end
  and a progress packet can be on the way together.
- `http_driver`: `GivenInOrder`, `NoSilentTruncation`, `LateExceptionReported`, `AbortedIsKilled`,
  `InsertAccounted`, `CanceledStatementEnds`. Three row blocks and three units of exception
  text with a tail of two, so that texts that fit, fill and exceed the tail occur, in one chunk
  and in several; two statements, so that nothing of the first may show in the second.
- `pushdown_expressions`: `ItemConditionKeepsSameRows` and `ItemValueIsSame` over every expression
  of three nodes above a leaf: a context passed down wrongly shows with a comparison, a NOT and
  one node between them. `ItemAggregateSame` with up to two rows (and their cancelling rows) in
  each partition, over every aggregate that PostgreSQL's parser lets through and the walker
  accepts, with and without FINAL: empty, all-NULL, filtered and cancelled inputs occur. Its value
  is right, or it is an error (`MustRefuse`: a FILTER that does not become a condition of the call,
  the state array of a Nullable column of which no value was read), or its value may differ for
  one of three reasons named in `AggPushdown`: `SignNotApplied` (a cancelled row is read by an
  aggregate that is not summed over the sign), `DistinctSigns` (count and avg DISTINCT over the sign)
  and `NoInputLeft` (no row enters the aggregate and ClickHouse gives a default, 0 or NaN, where
  PostgreSQL gives NULL). `AggregateAlwaysSame` has no exception; it holds of all but string_agg
  over Nullable columns of a MergeTree outside state arrays, and 5.6 shows where it does not.
  `Excludes` leaves out frame exclusions (5.6).
  `FrameSame` over four rows of three values and NULL, enough for peers before, at and after a
  current row.
- `pushdown_queries`: `JoinRowsSame` with two tables and every kind of join and
  condition (shippable, local, on one side, no key at all; the shape `Pair`), and with three tables
  and fewer kinds, so that a join's input is a join with conditions that were already pulled up
  (`Triple`). A table has one of three contents: none, two rows with equal keys, two with
  different ones. `RowsSame` with tables of up to three rows, in which keys and values repeat. Left out by constants, each the
  subject of 5.6: SEMI joins with conditions other than key equality (`SemiNonKey`), ANTI
  joins whose outer table compares its own columns (`AntiOuterEq`), PostgreSQL 16's nulling
  relations (`PG16`), WITH TIES (`LimitOptions`) and windows over a shipped grouping without a
  plain column (`WinTargets`).
- `planning_memory`: `MergedIsAgreement` and `SentAsDeclared` with three tables (a conflict and
  a third opinion) and two settings; `NameIsDeclared` and `FreesLiveNames` with two columns
  (one that is being looked up and one that is already there) and two changes, so that an
  invalidation arrives inside a lookup or after one that raised, and another one later; both state
  their exceptions (an unfilled entry, a stray pointer), see 5.6;
  `UnmarkedIsCurrent` and `AnswerIsRecent` with one OID that is dropped and reused, three
  changes; `ReasonTrue` and `ContextsOwned` with two tables, two plans, a time to live of two ticks, which
  is as long as the clock runs, two changes of the index or of the cap, a cap of 2 or none, and
  counts of 2 and, with an OFFSET, 3: within the cap and beyond it. The OIDs, and the tables' metadata but for eviction, do not interact.

`MCExpressions`, `MCQueries` and `MCPlanning` each put several components into one run. These share no
variable, so a behaviour follows one of them, picked by the initial state, and the others
rest: the reachable states are the union of the components' own. Deadlock is not
checked in these three: a planned query, or a history that has met its bounds, is at its end.

Each property of a passing run is accompanied by a mutant (an operator just before the one it
changes, listed under "mutants" in `PROJECT.json`): a plausible mistake in the modelled code that makes TLC
find the property violated.

**Fairness.** The safety runs need none. For `BinaryDriver`, weak fairness of the
session's own steps (a single thread that is not blocked goes on) and of the failure
of a blocked read once its poll or its deadline fires: `chc` calls `check_cancel_fn` while it waits, and
`drain_until_eos` sets a 5 s deadline. Nothing is assumed of the server. For
`HttpDriver`, weak fairness of the session's steps and of `xferinfo_callback` (libcurl calls it
about once a second; `pump` waits 100 ms at a time), and that a KILL QUERY request, which
nobody can cancel and which has no timeout, is answered or fails. That last assumption
is one of the environment: without it a cancelled statement may hang.

## 4. Proofs

Every theorem is about all values of the constants; what is assumed of them is said in each
case. In each module the argument is the same: an inductive invariant (the initial states have
it, a lemma per action shows that the action keeps it), from which the properties of the runs
follow. TLC has checked each inductive invariant on the instance of the run first (that of
`BinaryDriver` with `Nat` cut off at the largest block number).

**ScanLifecycleProofs**, about `ConnCache`, from `ConstantAssumption` (each mapping has a server; the NULL pointer is
neither an address nor a mapping; the bounds are natural numbers):

- `TypeCorrect`: `Spec => []TypeOK`;
- `InductiveInvariant`: `Spec => []IInv`, and from it `LeasesAreExclusive`, `BusyIsAccurate`,
  `ConnectionsAreOwned`, `LeasedIsOpen`: the safety invariants of the run `conn_cache_leases`;
- `ServerOptionsStayFresh`: `Spec => []ServerOptionsFresh`: a cached connection that is not
  invalidated has the options of its server that the syscache holds;
- `HandoutsAreFresh`: `Spec => FreshHandout`, an action property;
- `ManagerRefinesExclusiveLease`: `Spec => ImplementsExclusiveLease`: every step of the manager is
  a step of `ExclusiveLease` or leaves its three variables alone.

None of the first four is inductive alone. Exclusivity needs that a busy entry has a holder and
that cached and private connections are disjoint, so that a new connection is nobody
else's (`BusyIffLeased`, `NoLeak`); these need that a held lease points to what its entry caches
(`LeaseOpen`). And since a lease counts as held only if its generation is the current one, all
need `GenerationsPast`: no lease carries a generation still to come, or the end of a
transaction could bring a dead lease back to life. `IInv` is their conjunction. `Frame` covers the
actions that leave leases, lists, busy marks and connections alone, and `EntryConnection` says
what `get_connection_entry` returns.

**ScanLifecycleProofs**, about `ScanLifecycle`, from `ConstantAssumption` and `KindAssumption` (query, text and insert
holders are disjoint kinds):

- `LifeInvariant`: `LifeSpec => []LifeInv`;
- `OneHolderPerWire`, `ResponsesAreLeased`, `ClosedStaysUntouched`: the invariants
  `OneHolderInFlight`, `ResponseUnderLease` and `NoUseAfterCloseButLate`.

`LifeInv` contains `IInv`. `FlightHasConnection` and `FlightUnderLease` tie a holder in flight to
the connection of its lease, `WireIsHolders` and `WireAnswered` the unread replies to holders in
flight, so that exclusive leases become exclusive wires; `InsertsAttached` and `DeadAreLate` say
who can still have a handle on a connection that was closed.

**BinaryDriverProofs**, from `BoundAssumption`; statements, blocks and packets under way are of any
number, and the server, the socket and the user do what they like. `Spec` leaves out the failed
allocation of `SpecOutOfMemory`, which breaks `CleanForReuse` (section 5):

- `BinInvariant`: `Spec => []BinInv`;
- `BinaryTypeCorrect`, `BlocksAreOwn`, `ScansAreComplete`, `ConnectionsAreClean`,
  `InsertsAreAcknowledged`: the five invariants of the run `binary_driver`.

The properties speak of the session's history, which says nothing of the packets still under way;
`BinInv` does. `RestIsQuiet`: a connection that is not marked broken, and whose reply is not
waited for, has no packet to read and an idle server, and only Cancels that came too late are on
their way. `ReplyIsOwn`: while a reply is waited for (`Current`), every packet to the client is for
the last request, one packet ends it, and none comes before the server has read the request.
`BlocksInOrder`: the blocks under way continue those received, up to the last one the server
sent unless the socket is down with the end of the reply lost. `ScanReply` and `InsertReply`: a
reply is cut short only by its own Cancel, which only a scan that is being freed has sent, and an
INSERT's blocks reach the server in order before the end of its data. `StagesMean` ties these to the
response: a connection that was sound when the query was sent is marked broken only together with
an error that ends the response. `BrokenWire` and `DoneIsOver` cover what goes on after the
session has turned away: an INSERT that was given up is still applied in order, and a statement that
ended well is never worked on again, so that what was true of its result stays true. The part most
easily missed is the Cancel that arrives after the reply has ended: it stays in the queue,
the server must skip it, and it may not be mistaken for a Cancel of the next query. `Numbered` says
that a queue's blocks are consecutive through a counting function, so that the lemmas on
reading, sending and cutting off (`NumberedTail`, `NumberedAppend`, `NumberedPrefix`) need no
induction.

**HttpDriverProofs**, from `BoundAssumption`; the body, the exception text and the tail are of
any length and curl cuts the body anywhere:

- `HttpInvariant`: `Spec => []HttpInv`;
- `HttpTypeCorrect`, `DecoderGetsThePrefix`, `ResultsAreComplete`, `LateExceptionsAreReported`,
  `AbortsAreKilled`, `InsertsAreAccounted`: the six invariants of the run.

`BodyAccounted` says that what was given to the decoder, what is buffered and what is still to
come are the body, `TailAccounted` that the tail is the end of what was delivered, `StatusMeans` and
`ExceptionsHaveShape` what the server may have decided, `AbortPending` and `InsertPending`
what an abort or a POST under way still owes.

**ColumnCacheProofs**, **ObjectCacheProofs**, **VectorSearchProofs** prove inductive invariants:

- `ColumnInvariant`, from `ColumnConstants`. Elements on the free list keep their old contents, so
  `NameIsDeclared` needs that the table is injective and that each finished entry owns a
  string of its own (`EntriesApart`), that the entry a lookup fills is in the table under its key
  (`LookupOwnsElement`), and that entries are current while the table is locked or nothing is
  queued (`FilledAreCurrent`). `ColumnInv` is `TypeOK`, `LookupRuns`, and these (`Sound`) unless
  `strayed`. So the theorem also says what the damage starts from: as long as the callback has not
  met the pointer of an entry entered and not written (`RebuildTable`, `Raise`), every
  interleaving is sound. That it may meet one, and what a reader sees of an unfilled entry, are
  the violated `NeverFreesWrongly` and `NameAlwaysDeclared` of section 5.
- `MarkInvariant`, from `ObjectConstants`, and `RecentInvariant`, which assumes besides that no
  transaction ends with PREPARE (`"prepare" \notin EndEvents`; `ObjectPrepare.cfg` shows why).
  `UnmarkedFromSince` says that an entry not marked stale is one the catalogs have held since the
  last drop; `SinceIsRecent` that those are recent.
- `VectorInvariant`, from `VectorConstants`, for the binary driver (`Binary`) and limits whose sum
  does not wrap (`Fits`); `VectorVersionZero.cfg` and `VectorLimitOverflow.cfg` show both
  exceptions. `EntriesTrue`, `GivenTrue` and `VersionTrue` say that what is cached or returned was
  true at some moment within the time to live, the cap together with the index; `ContextsApart` that no two entries
  share a memory context.

**PlanningProofs** proves about `Settings`, from `ValuesAssumption` (Unset and Conflict are not
values), `ListsAssumption`, `DefaultAssumption` and `VersionAssumption`:

- `SettingsTypeOK`: `Spec => []TypeOK`; in particular no conflict mark is ever sent;
- `MergeIsOrderFree`: `Spec => []MergedIsAgreement`;
- `QuerySettingsPrecedence`: `Spec => SentAsDeclared`.

The inductive invariant is `TypeOK /\ MergedIsAgreement`: what the merged list is for the set
of tables met so far, whatever order they came in. `MergeValueAgrees` is its heart: merging one value
into the value that stands for a set gives the one that stands for the larger set, with
Conflict absorbing everything. Precedence follows from the invariant in the state before
`BeginForeignScan`.

And about `PlanningSpec` of `MCPlanning`, in which the four memories of a backend change in any
interleaving: `NamesAreThoseInForce`, `InvalidationFreesLiveNames`, `UnmarkedTableIsCurrent`,
`AnswersAreRecent`, `ReasonsAreTrue`, `MetadataContextsAreOwned`, with the assumptions of the
component where it has them. Each memory keeps its own invariant, since a step of one leaves the
variables of the others alone.

**PushdownProofs**, about three specifications of the planner and the deparser, for tables of any
contents:

- `JoinInvariant`: `JoinSpec => []JoinInv`, and `JoinsKeepRows`: `JoinSpec => []JoinRowsSame`: whatever
  tables are joined, in whatever order, kind and with whatever conditions, a join that was
  pushed delivers PostgreSQL's rows. Assumed: `JoinConstants` (what shapes and contents are made
  of), `~SemiNonKey` and `~AntiOuterEq`; `JoinSemiClause.cfg` and `JoinAntiFilter.cfg` show that the
  statement is false without either of the last two.
- `WindowInvariant`: `WindowSpec => []WindowInv`, and `WindowsKeepFrames`: `WindowSpec => []FrameSame`: the
  frame that is sent has the rows of the frame that was asked for, for partitions of any
  size. Assumed: no EXCLUDE CURRENT ROW (`WindowExclude.cfg`).
- `UpperInvariant`: `UpperSpec => []UpperInv`, and `UpperKeepsRows`: `UpperSpec => []RowsSame`: every
  path above a scan, completed by the executor, gives an outcome that PostgreSQL alone could
  give, whatever the table. Assumed: a window over a grouping has a plain column in its target
  (`WinTargets`, `UpperWindowOverGroup.cfg`), and no WITH TIES (`LimitOptions`, `UpperLimitTies.cfg`).

`JoinInv` says of every relation that `SoundRel` holds. `JoinRowsSame` alone is of no use one join
further up: a pushed join is joined not by its result but by its FROM clause and the
conditions it has pulled up. So `SoundInput` says that the remote and then the local conditions
over the FROM clause's rows give the join's rows, and that these conditions name tables of
the relation only. The last part carries the argument: a condition is decided by the columns
of its tables, so it keeps its value in a row that was joined with others, which is why
a condition of the outer input may move across an INNER or a LEFT join and why one of an
input that is filled up with NULLs may not.

`UpperInv` says which relations are safe and what they hold (`RelOk`), when a sort (`SortOk`) or a
limit (`LimitOk`) may be sent with a relation, that paths and the ordered relation are such
(`PathOk`, `OrderedRelOk`), and that the current relation is the one of the last step taken
(`CurrentOk`, `OrderOk`): without this last part a limit could be added over a relation with a step
still to come between the two. From it, what a path receives is what its relation stands for,
and the steps that are left turn it into the reference's outcome.

Only model-checked: `ItemConditionKeepsSameRows` and `ItemValueIsSame`, whose evaluators are recursive
operators on trees, which the prover cannot reason about; `ItemAggregateSame`, which needs sums over
sets of rows, so induction over data; and liveness under fairness, which is out of its reach.

## 5. Where the code departs from what it says

1. `MappingOptionsFresh`. A `UserMapping` read before an ALTER USER MAPPING arrives is used to
   build a connection after it. The connection is cached as valid, with the old options.
2. `NoSharedWire`. `chfdw_run_text_query` that fails while reading releases its lease in
   `PG_FINALLY` with the reply unread and the connection not marked broken. Its caller
   `chfdw_vector_table_meta` catches the error, so the next scan sends its query on the same
   connection.
3. `NoUseAfterClose`. When a transaction aborts with a scan run through SPI still open, the
   transaction callback closes the scan's private connection, and the scan's memory is freed
   later: `ch_binary_response_free` then uses the closed connection.
4. `AlwaysOwnBlocks`. A rescan keeps its lease and so its connection, although the drain of the
   first scan's reply ran into the deadline and marked it broken. The second query
   reads blocks of the first.
5. `CanceledInsertEnds`. `ch_binary_finalize_insert` waits for the acknowledgement with no
   cancel check and no deadline.

6. The models of the planner, the deparser and the caches leave out what the properties do not
   hold for, by constants, as actions of their own specification, or as an exception that the property
   names. Each case has a configuration that shows it (`tlc -config X.cfg M`, with the invariant named below); these are
   not among the runs.

| configuration | module and property | what it shows |
|---|---|---|
| `JoinSemiClause.cfg` | `MCQueries`, `JoinRowsSame` | a correlated inequality of an EXISTS goes to WHERE after LEFT SEMI JOIN, where one arbitrary match is left to test (`fdw.c:2149`) |
| `JoinAntiFilter.cfg` | `MCQueries`, `JoinRowsSame` | `a = b` on the outer table of NOT EXISTS is taken for a join key and moved to ON, so rows that fail it come back (`fdw.c:2260`) |
| `JoinSemiClause.cfg` | `MCQueries`, `EquiKeyReferencesBothSides` | an equality within one table passes as the key that `fdw.c:2306` asks for |
| `JoinFullPG16.cfg` | `MCQueries`, `ColumnsFound` | on PostgreSQL 16 a column above a FULL join carries nulling relations and is not found in the subquery's output (`deparse.c:6998`, "Shouldn't get here") |
| `UpperLimitTies.cfg` | `MCQueries`, `RowsSame` | FETCH FIRST n ROWS WITH TIES is sent as LIMIT n (`fdw.c:3419`) |
| `UpperWindowOverGroup.cfg` | `MCQueries`, `ScanRelIsScan` | a window relation over a shipped grouping has an upper relation as its scanrel (`deparse.c:2170` asserts otherwise) |
| `ExprCastCase.cfg` | `ExprPushdown`, `AcceptedIsDeparsed` | CASE x WHEN over a relabelled column is accepted by the walker and refused by the deparser (`deparse.c:2862`) |
| `AggPartialEmpty.cfg` | `AggPushdown`, `PartialStateIsPostgres` | the partial avg or variance of no values of a Nullable column has a NULL for its sum (`deparse.c:6007`, `deparse.c:6019`) |
| `AggPartialEmpty.cfg` | `AggPushdown`, `AggregateAlwaysSame` | which the combine step refuses: an error, also when all values are filtered out |
| `AggCollapsingFilter.cfg` | `AggPushdown`, `IfTakesCondition` | a filtered row count on a CollapsingMergeTree loses the comma before its condition (`deparse.c:6195`) |
| `AggCollapsingFilter.cfg` with `Fns = {"string_agg"}`, `Engines = {"MergeTree"}` | `AggPushdown`, `IfTakesCondition` | string_agg with FILTER becomes groupConcatIf without a condition (`deparse.c:6106`) |
| `AggCollapsingFilter.cfg` with `Fns = {"avg"}`, `Splits = {"PARTIAL"}` | `AggPushdown`, `AggregateAlwaysSame` | a partial avg over a CollapsingMergeTree ignores the sign (`deparse.c:5971`) |
| `AggCollapsingFilter.cfg` | `AggPushdown`, `AggregateAlwaysSame` | count(DISTINCT x) there is a sum of distinct signs (`deparse.c:6824`) |
| `AggCollapsingFilter.cfg` with `Fns = {"min"}`, `Nullables = {TRUE}` (or `var`, `percentile`) | `AggPushdown`, `AggregateAlwaysSame` | without FINAL these, and string_agg, read cancelled rows of a CollapsingMergeTree; only sum, avg and count use the sign (`deparse.c:6826`), although `doc/pg_clickhouse.md:367` has the engine's parameters applied to function expressions |
| `AggCollapsingFilter.cfg` with `Fns = {"sum"}`, `Engines = {"MergeTree"}` (or `avg`, `var`, `min`, `string_agg`, `percentile`) | `AggPushdown`, `AggregateAlwaysSame` | over no rows of a column that is not Nullable ClickHouse gives 0, an empty string or NaN, PostgreSQL NULL |
| `WindowExclude.cfg` | `WindowFrame`, `FrameSame` | the EXCLUDE clause of a frame is dropped (`deparse.c:6397`) |
| `ColumnHttpInsert.cfg` | `ColumnCache`, `NameIsDeclared` | `http_prepare_insert` keeps pointers to names that an invalidation frees (`pglink.c:580`) |
| `ColumnHttpInsert.cfg` with `SPECIFICATION SpecVector` | `ColumnCache`, `NameIsDeclared` | so does `chfdw_vector_plan_info` over the metadata lookup (`vector_plan.c:260`) |
| `ColumnRebuild.cfg` | `ColumnCache`, `NeverFreesWrongly` | an invalidation inside `table_open` frees the unwritten name of the entry just entered (`custom_types.c:112`) |
| `ColumnRaise.cfg` | `ColumnCache`, `NameAlwaysDeclared` | a catalog read that raises leaves an entry without its name, and later statements take the attribute's own (`custom_types.c:1322`) |
| `ObjectPrepare.cfg` | `ObjectCache`, `AnswerIsRecent` | PREPARE TRANSACTION does not drop stale definitions (`custom_types.c:70`) |
| `ObjectRaise.cfg` | `ObjectCache`, `AnswerIsRecent` | a catalog read that raises leaves an entry that makes an unmapped function shippable (`custom_types.c:772`) |
| `VectorHalfEntry.cfg` | `VectorSearch`, `ReturnsMetadata` | an error between entering a key and the subtransaction leaves an entry without contents (`vector_meta.c:194`) |
| `VectorHalfEntry.cfg` with `SPECIFICATION Spec` | `VectorSearch`, `PlanSurvives` | with metadata cached and the server gone, the version lookup fails the plan (`vector_plan.c:170`) |
| `VectorVersionZero.cfg` | `VectorSearch`, `ReasonTrue` | a failed HTTP version query counts as version 0 for the connection's life (`http.c:780`) |
| `VectorLimitOverflow.cfg` | `VectorSearch`, `ReasonTrue` | LIMIT plus OFFSET wraps (`vector_plan.c:206`) |
| `VectorLimitOverflow.cfg` with `Limits = {2}` | `VectorSearch`, `IndexWithinLimit` | the index is named whatever the count when LIMIT or OFFSET is an expression or NULL, or OFFSET stands alone (`vector_plan.c:121`) |
| `VectorCancel.cfg` | `VectorSearch`, `CancelStopsQuery` | a cancellation during the metadata query is caught with its other errors (`vector_meta.c:226`) |
| `BinaryOutOfMemory.cfg` | `BinaryDriver`, `CleanForReuse` | an allocation that fails while the first block is pumped leaves a reply on a connection not marked broken (`binary/select.c:286`) |

A further observation needs no model: a cancellation that HTTP notices between two rows
(`CHECK_FOR_INTERRUPTS`), or while it reads the rest of a body that could not be decoded, drops the
transfer without KILL QUERY. `AbortedIsKilled` is stated for the pumps where the code does send it.

## 6. Bounds and abstractions

Every bound is a constant with `Max` in its name, `TailSize`, or a small set given in a
configuration or an MC module. In the driver modules SQL texts, rows and column values are numbered
blocks: no property depends on their contents. In the pushdown modules SQL text is the tree it denotes,
and values are a few numbers and NULL. Costs are left out: the planner may take any path.
Shippability of a function is an attribute of a node (`ExprPushdown`, `JoinPushdown`); what decides it is
`ObjectCache`. Timeouts are steps that may happen whenever their wait is under way. Allocation
failures are in `BinaryDriver`'s `SpecOutOfMemory` only. In `HttpDriver` a failure of
`curl_multi_perform` itself is not told apart from a failed transfer. `BinaryDriver` has one
connection; the sharing of several is the subject of `ConnCache` and `ScanLifecycle`, which
abstract a reply to one element of `wire`. ClickHouse's semantics, PostgreSQL's catalogs and libcurl are
outside the repository and are marked external in the map.

## 7. Not modelled, and the plan

Not modelled: TCP, TLS and URL set-up (I/O); parsing and validation of option strings and the choice
of port and TLS from them (`option.c`, `kv_list.c`, `endpoint.c`: string functions without state); the
spelling of constants, types and functions in deparsed SQL, and the tables that name a
ClickHouse equivalent for each function (data); cost estimation; schema import (one query, then text);
the shippability cache, which is never reached; the client libraries, which are git submodules
and are modelled from their use; tests and packaging.

Planned: a composition of `ColumnCache` with `ScanLifecycle`, where an INSERT's names and its
connection are both kept over the same calls.
