--------------------------- MODULE ScanLifecycle ---------------------------
(***************************************************************************)
(* Statements on top of the connection manager: who leases a connection,   *)
(* sends a query or an INSERT on it with the binary driver, and in which   *)
(* order the response, the lease and the connection go away again.         *)
(*                                                                         *)
(* The holders of ConnCache are given a kind.  A query holder (a foreign   *)
(* scan, clickhouse_query, clickhouse_perform) disposes of its cursor      *)
(* before it releases its lease.  A text holder (chfdw_run_text_query)     *)
(* does so when it succeeds, but releases in PG_FINALLY, with the cursor   *)
(* still there, when it fails.  An insert holder keeps an insert handle.   *)
(*                                                                         *)
(* External: PostgreSQL frees the memory of an aborting transaction in two *)
(* goes.  Portals go before the transaction callbacks run; memory under    *)
(* TopTransactionContext (statements run through SPI) and MessageContext   *)
(* (planning) goes after them.  LateHolders live in memory of the second   *)
(* sort.  Within a context, children are freed before reset callbacks run. *)
(***************************************************************************)
EXTENDS ConnCache, Sequences, SequencesExt

CONSTANTS
    TextHolders,    \* holders that run chfdw_run_text_query
    InsertHolders,  \* holders that run a foreign INSERT
    LateHolders,    \* holders freed after the transaction callbacks
    MaxWire         \* bound on unanswered requests of one connection

ASSUME KindAssumption ==
    /\ TextHolders \subseteq Holders
    /\ InsertHolders \subseteq Holders
    /\ LateHolders \subseteq Holders
    /\ TextHolders \cap InsertHolders = {}
    /\ MaxWire \in Nat

VARIABLES
    resp,    \* ch_binary_response_t of a holder's cursor
    ins,     \* ch_binary_insert_handle of an insert holder
    wire,    \* requests of a connection whose reply is not yet consumed
    tainted, \* connections a failed text query gave back with a reply unread
    xact,    \* "running", or "cleanup" between the callbacks and the next start
    faults   \* holders that have touched a connection after it was closed

scanVars == <<resp, ins, wire, tainted, xact, faults>>
lifeVars == <<vars, scanVars>>

NoResp == [conn |-> None, eos |-> TRUE, dead |-> FALSE]
NoInsert == [conn |-> None, live |-> FALSE, finalized |-> FALSE]

LifeTypeOK ==
    /\ TypeOK
    /\ resp \in [Holders -> [conn : Conns \cup {None}, eos : BOOLEAN, dead : BOOLEAN]]
    /\ ins \in [Holders -> [conn : Conns \cup {None}, live : BOOLEAN,
                            finalized : BOOLEAN]]
    /\ wire \in [Conns -> Seq(Holders)]
    /\ tainted \subseteq Conns
    /\ xact \in {"running", "cleanup"}
    /\ faults \subseteq Holders

LifeInit ==
    /\ Init
    /\ resp = [h \in Holders |-> NoResp]
    /\ ins = [h \in Holders |-> NoInsert]
    /\ wire = [c \in Conns |-> <<>>]
    /\ tainted = {}
    /\ xact = "running"
    /\ faults = {}

(***************************************************************************)
(* Closing a connection (ch_binary_close).                                 *)
(***************************************************************************)
(* Mutant: inserts keep their pointer to the closed connection. *)
InsertNotDetached(i) == i

(* ch_binary_detach_inserts *)
DetachInsert(i) == IF i.conn \in closed' THEN [i EXCEPT !.conn = None] ELSE i

(* Inserts of a closed connection are detached.  Responses are not: their
   pointer dangles, even if a new connection gets the same address. *)
ch_binary_close ==
    /\ wire' = [c \in Conns |-> IF c \in closed' THEN <<>> ELSE wire[c]]
    /\ ins' = [h \in Holders |-> DetachInsert(ins[h])]
    /\ resp' = [h \in Holders |->
                    IF resp[h].conn \in closed'
                    THEN [resp[h] EXCEPT !.dead = TRUE] ELSE resp[h]]

(* A step of the connection manager alone, taken by the holder's code. *)
Manage(A) ==
    /\ xact = "running"
    /\ A
    /\ ch_binary_close
    /\ tainted' = tainted \ closed'
    /\ UNCHANGED <<xact, faults>>

(***************************************************************************)
(* Queries.                                                                *)
(***************************************************************************)
Connection(h) == lease[h].conn

(* The wire and the driver change, the cache does not. *)
DriverStep(h) ==
    /\ closed' = {}
    /\ UNCHANGED <<cacheVars, open, built, lease, user, catVars, tainted, xact>>

(* The holder's own code runs: inside its transaction, on a held lease. *)
Active(h) == xact = "running" /\ Held(h)

Room(c) == Len(wire[c]) < MaxWire

(* ch_binary_simple_query: the query is sent, for the first time or, after
   ReScanForeignScan disposed of the cursor, again on the same lease; nothing
   looks at "broken" here ... *)
SendQuery(h) ==
    /\ Active(h) /\ h \notin InsertHolders /\ resp[h] = NoResp
    /\ Room(Connection(h))
    /\ resp' = [resp EXCEPT ![h] = [conn |-> Connection(h), eos |-> FALSE,
                                    dead |-> FALSE]]
    /\ wire' = [wire EXCEPT ![Connection(h)] = Append(@, h)]
    /\ UNCHANGED <<broken, ins, faults>>
    /\ DriverStep(h)

(* ... or cannot be sent: the response is freed and an error raised. *)
SendQueryFails(h) ==
    /\ Active(h) /\ h \notin InsertHolders /\ resp[h] = NoResp
    /\ broken' = broken \cup {Connection(h)}
    /\ UNCHANGED <<resp, ins, wire, faults>>
    /\ DriverStep(h)

(* The response reads the next reply on its connection up to the end. *)
ReadToEnd(h) ==
    /\ Active(h) /\ resp[h].conn # None /\ ~resp[h].eos
    /\ wire[resp[h].conn] # <<>>
    /\ wire' = [wire EXCEPT ![resp[h].conn] = Tail(@)]
    /\ resp' = [resp EXCEPT ![h].eos = TRUE]
    /\ UNCHANGED <<broken, ins, faults>>
    /\ DriverStep(h)

(* pump_one meets an exception, a transport error or an invalid block. *)
ReadFails(h) ==
    /\ Active(h) /\ resp[h].conn # None /\ ~resp[h].eos
    /\ broken' = broken \cup {resp[h].conn}
    /\ resp' = [resp EXCEPT ![h].eos = TRUE]
    /\ UNCHANGED <<ins, wire, faults>>
    /\ DriverStep(h)

(* drain_until_eos: after Cancel the rest of the reply is read, or the
   connection is given up (send failure, exception, transport error,
   deadline). *)
drain_until_eos(h) == LET c == resp[h].conn IN
    \/ resp[h].eos /\ UNCHANGED <<broken, wire>>
    \/ /\ ~resp[h].eos /\ wire[c] # <<>>
       /\ wire' = [wire EXCEPT ![c] = Tail(@)]
       /\ UNCHANGED broken
    \/ /\ ~resp[h].eos
       /\ broken' = broken \cup {c}
       /\ UNCHANGED wire

(* cursor_free, ch_binary_response_free: by dispose_scan, by the end of
   clickhouse_query, or because the memory of the cursor is freed. *)
FreeResponse(h) ==
    /\ resp[h].conn # None
    /\ IF resp[h].dead
       THEN faults' = faults \cup {h} /\ UNCHANGED <<broken, wire>>
       ELSE drain_until_eos(h) /\ UNCHANGED faults
    /\ resp' = [resp EXCEPT ![h] = NoResp]
    /\ UNCHANGED ins
    /\ DriverStep(h)

(***************************************************************************)
(* INSERT.                                                                 *)
(***************************************************************************)
(* ch_binary_begin_insert: the server has answered with the table's columns
   and waits for data. *)
BeginInsert(h) ==
    /\ Active(h) /\ h \in InsertHolders /\ ~ins[h].live
    /\ Room(Connection(h))
    /\ ins' = [ins EXCEPT ![h] = [conn |-> Connection(h), live |-> TRUE,
                                  finalized |-> FALSE]]
    /\ wire' = [wire EXCEPT ![Connection(h)] = Append(@, h)]
    /\ UNCHANGED <<broken, resp, faults>>
    /\ DriverStep(h)

(* It fails: in recv_initial_block, or after it with the aborted insert
   drained, which may break the connection as well. *)
BeginInsertFails(h) ==
    /\ Active(h) /\ h \in InsertHolders /\ ~ins[h].live
    /\ broken' \in {broken, broken \cup {Connection(h)}}
    /\ UNCHANGED <<resp, ins, wire, faults>>
    /\ DriverStep(h)

(* ch_binary_finalize_insert: empty Data, then the reply is drained. *)
FinalizeInsert(h) ==
    /\ Active(h) /\ ins[h].live /\ ~ins[h].finalized
    /\ ins' = [ins EXCEPT ![h].finalized = TRUE]
    /\ \/ /\ wire[ins[h].conn] # <<>>
          /\ wire' = [wire EXCEPT ![ins[h].conn] = Tail(@)]
          /\ UNCHANGED broken
       \/ /\ broken' = broken \cup {ins[h].conn}
          /\ UNCHANGED wire
    /\ UNCHANGED <<resp, faults>>
    /\ DriverStep(h)

(* Mutant: an unfinished INSERT leaves its connection for reuse. *)
BreaksNothing(i) == {}

BrokenByRelease(i) == IF i.finalized THEN {} ELSE {i.conn}

(* ch_binary_release_insert, when the memory of the insert state is freed. *)
ReleaseInsert(h) ==
    /\ ins[h].live
    /\ IF ins[h].conn = None
       THEN UNCHANGED <<broken, faults>>
       ELSE /\ broken' = broken \cup (BrokenByRelease(ins[h]) \cap open)
            /\ faults' = IF ins[h].conn \in open THEN faults ELSE faults \cup {h}
    /\ ins' = [ins EXCEPT ![h] = NoInsert]
    /\ UNCHANGED <<resp, wire>>
    /\ DriverStep(h)

(***************************************************************************)
(* Ends of leases.                                                         *)
(***************************************************************************)
(* Mutant: EndForeignScan gives the connection back before its cursor. *)
AnyTime(h) == TRUE

(* When the code of a holder releases: after its cursor is gone or its INSERT
   finalized.  The PG_FINALLY of chfdw_run_text_query also runs on an error,
   with the cursor still there. *)
ReadyToRelease(h) ==
    \/ h \in TextHolders
    \/ /\ resp[h] = NoResp
       /\ ins[h].live => ins[h].finalized

EndHolder(h) ==
    /\ xact = "running"
    /\ ReadyToRelease(h)
    /\ Release(h)
    /\ ch_binary_close
    /\ tainted' = (tainted \cup IF h \in TextHolders /\ Held(h) /\ ~resp[h].eos
                               THEN {resp[h].conn} ELSE {}) \ closed'
    /\ UNCHANGED <<xact, faults>>

(* The memory of the lease is freed: cursor and insert state, allocated under
   the same context, are gone by then.  In the cleanup phase too. *)
FreeLease(h) ==
    /\ resp[h] = NoResp
    /\ ~ins[h].live
    /\ release_lease(h)
    /\ ch_binary_close
    /\ tainted' = tainted \ closed'
    /\ UNCHANGED <<xact, faults>>

Gone(h) == ~lease[h].live /\ resp[h] = NoResp /\ ~ins[h].live

(* The callbacks run once the early memory is gone. *)
EndTransaction ==
    /\ xact = "running"
    /\ \A h \in Holders \ LateHolders : Gone(h)
    /\ chfdw_xact_callback
    /\ ch_binary_close
    /\ tainted' = tainted \ closed'
    /\ xact' = "cleanup"
    /\ UNCHANGED faults

(* CleanupTransaction has freed the rest: the next statement may start. *)
StartTransaction ==
    /\ xact = "cleanup"
    /\ \A h \in Holders : Gone(h)
    /\ xact' = "running"
    /\ closed' = {}
    /\ UNCHANGED <<cacheVars, heapVars, lease, user, catVars, resp, ins, wire,
                   tainted, faults>>

LifeNext ==
    \/ \E h \in Holders :
        \/ \E m \in Mappings : resp[h] = NoResp /\ Manage(GetUserMapping(h, m))
        \/ Manage(LeaseCached(h))
        \/ Manage(LeasePrivate(h))
        \/ Manage(ConnectFails(h))
        \/ Manage(chfdw_get_server_version(h))
        \/ SendQuery(h)
        \/ SendQueryFails(h)
        \/ ReadToEnd(h)
        \/ ReadFails(h)
        \/ FreeResponse(h)
        \/ BeginInsert(h)
        \/ BeginInsertFails(h)
        \/ FinalizeInsert(h)
        \/ ReleaseInsert(h)
        \/ EndHolder(h)
        \/ FreeLease(h)
    \/ \E reset \in BOOLEAN : Manage(chfdw_inval_callback(reset))
    \/ EndTransaction
    \/ StartTransaction

LifeSpec == LifeInit /\ [][LifeNext]_lifeVars

(***************************************************************************)
(* Properties.                                                             *)
(***************************************************************************)
(* "ClickHouse allows only one query at a time per connection": two holders
   never have unanswered requests on one connection, whichever way the
   statements before ended, unless a failed chfdw_run_text_query gave the
   connection back with its reply unread.  Covers scans, aborted INSERTs and
   connections that change hands in the same or the next transaction. *)
OneHolderInFlight ==
    \A c \in Conns \ tainted : Cardinality(Range(wire[c])) <= 1

(* A response uses its connection only while its holder leases it: from the
   moment a query is sent until its response is freed, nobody else can be
   given the connection.  Failed text queries and, between the transaction
   callbacks and the end of the cleanup, late memory are the exceptions. *)
ResponseUnderLease ==
    \A h \in Holders \ TextHolders : resp[h].conn # None =>
        \/ Held(h) /\ lease[h].conn = resp[h].conn
        \/ xact = "cleanup" /\ h \in LateHolders

(* Whatever closes a connection, an INSERT that used it does not touch it
   afterwards (ch_binary_detach_inserts), and neither does a query whose
   memory goes before the transaction callbacks. *)
NoUseAfterCloseButLate ==
    faults \subseteq (LateHolders \cup TextHolders) \ InsertHolders

(* "Drain the response before the caller sends another query: binary
   streaming only permits one in-flight response at a time": no exceptions.
   The code does not keep this one (an error in chfdw_run_text_query). *)
NoSharedWire == \A c \in Conns : Cardinality(Range(wire[c])) <= 1

(* "By the end of a transaction no foreign scan is live": so no response is
   freed after its connection.  The code does not keep this one (a scan run
   through SPI on a private connection, aborted). *)
NoUseAfterClose == faults = {}

(***************************************************************************)
(* The inductive invariant.                                                *)
(***************************************************************************)
(* Only insert holders have an insert handle, and they never send a query. *)
KindsApart ==
    /\ \A h \in InsertHolders : resp[h] = NoResp
    /\ \A h \in Holders : ins[h].live => h \in InsertHolders

(* A response that expects packets has a connection. *)
FlightHasConnection == \A h \in Holders : ~resp[h].eos => resp[h].conn # None

(* The end of the transaction has passed over a holder whose memory goes
   late. *)
Passed(h) == xact = "cleanup" /\ h \in LateHolders

(* A response that still expects packets, or an INSERT not finalized, on c. *)
InFlight(h, c) ==
    \/ resp[h].conn = c /\ ~resp[h].eos /\ ~resp[h].dead
    \/ ins[h].live /\ ins[h].conn = c /\ ~ins[h].finalized

Uses(h, c) == Held(h) /\ lease[h].conn = c

(* What is in flight is under a lease, was given back unread by a failed text
   query, or awaits the cleanup. *)
FlightUnderLease ==
    \A h \in Holders, c \in Conns : InFlight(h, c) =>
        Uses(h, c) \/ Passed(h) \/ c \in tainted

(* The lease of an INSERT is freed after it; the INSERT points to an open
   connection or to none: while its lease is held, to the leased one. *)
InsertsAttached ==
    \A h \in Holders : ins[h].live =>
        /\ lease[h].live
        /\ ins[h].conn # None => ins[h].conn \in open
        /\ Held(h) => ins[h].conn = lease[h].conn

(* Only late memory and failed text queries outlive their connection. *)
DeadAreLate == \A h \in Holders : resp[h].dead => h \in LateHolders \cup TextHolders

(* Closed connections have nothing on the wire. *)
ClosedAreSilent == \A c \in Conns \ open : wire[c] = <<>>

(* Whatever is unanswered on a connection is the present holder's, and one
   holder's. *)
WireIsHolders ==
    \A c \in Conns \ tainted :
        /\ \A x, y \in Range(wire[c]) : x = y
        /\ \A h \in Holders : Uses(h, c) => Range(wire[c]) \subseteq {h}

(* On a connection fit for reuse there is at most one request, and something
   that will consume its reply. *)
WireAnswered ==
    \A c \in Conns \ (tainted \cup broken) : wire[c] # <<>> =>
        /\ Len(wire[c]) = 1
        /\ \E h \in Holders : InFlight(h, c)

LifeInv ==
    /\ IInv
    /\ LifeTypeOK
    /\ KindsApart
    /\ FlightHasConnection
    /\ ResponseUnderLease
    /\ FlightUnderLease
    /\ InsertsAttached
    /\ DeadAreLate
    /\ NoUseAfterCloseButLate
    /\ ClosedAreSilent
    /\ WireIsHolders
    /\ WireAnswered
=============================================================================
