---------------------------- MODULE BinaryDriver ----------------------------
(***************************************************************************)
(* One connection of the binary driver (binary/select.c, binary/insert.c,  *)
(* binary/binary.c) and the server at its other end.                       *)
(*                                                                         *)
(* A session runs statements on the connection one after another, which is *)
(* what the leases of ConnCache guarantee.  A scan sends a query, reads    *)
(* the reply block by block, and may stop at any moment: LIMIT, rescan,    *)
(* error, cancellation.  An INSERT enters insert mode, ships blocks and    *)
(* finishes.  Between statements the cache replaces a connection that is   *)
(* marked broken; a rescan keeps the connection as it is.                  *)
(*                                                                         *)
(* The packets of both directions travel in order.  The socket may go down *)
(* at any time, with any part of what is under way still readable.  The    *)
(* server is external: it answers a query with a header block and data     *)
(* blocks or with an exception, stops early on Cancel, ignores a Cancel    *)
(* that comes too late, and usually hangs up after an exception.           *)
(***************************************************************************)
EXTENDS Naturals, Sequences

CONSTANTS
    MaxQueries,  \* bound on the queries and INSERTs of the session
    MaxBlocks,   \* bound on the blocks of one result or INSERT
    MaxPackets   \* bound on the packets on their way to the client

ASSUME BoundAssumption ==
    /\ MaxQueries \in Nat \ {0}
    /\ MaxBlocks \in Nat
    /\ MaxPackets \in Nat \ {0}

VARIABLES
    broken,     \* conn->broken
    polls,      \* conn->check_cancel_fn is set
    deadline,   \* an I/O deadline is set on the connection
    resp,       \* ch_binary_response_t
    pc,         \* what the session is doing
    canceled,   \* QueryCancelPending
    up,         \* the socket is connected
    toServer,   \* packets on their way to the server
    toClient,   \* packets on their way to the client
    server,     \* what the server is doing, and for which query
    asked,      \* queries and INSERTs sent so far
    query,      \* what the session knows of each: history
    result      \* what the server did for each: history

connVars == <<broken, polls, deadline>>
netVars == <<up, toServer, toClient, server>>
vars == <<connVars, resp, pc, canceled, netVars, asked, query, result>>

Queries == 1 .. MaxQueries
Blocks == Queries \X (0 .. MaxBlocks)   \* the header is block 0
NoBlock == <<0, 0>>

NoNumber == MaxBlocks + 1               \* of a packet that carries no block

Packet(kind, q, n) == [kind |-> kind, q |-> q, n |-> n]
NoResp == [q |-> 0, error |-> FALSE, eos |-> TRUE, staged |-> NoBlock]
Idle == [mode |-> "idle", q |-> 0]

(* A session is at rest ("idle"), or it holds the connection for a scan that
   has no cursor ("leased"), pumps for the first block ("starting"), has a
   cursor ("open"), frees it ("draining"), prepares an INSERT, accepts its
   rows ("inserting"), undoes it or finishes it. *)
Stages == {"idle", "leased", "starting", "open", "draining",
           "preparing", "inserting", "undoing", "finalizing"}

TypeOK ==
    /\ broken \in BOOLEAN /\ polls \in BOOLEAN /\ deadline \in BOOLEAN
    /\ resp \in [q : Queries \cup {0}, error : BOOLEAN, eos : BOOLEAN,
                 staged : Blocks \cup {NoBlock}]
    /\ pc \in Stages
    /\ canceled \in BOOLEAN /\ up \in BOOLEAN
    /\ server \in [mode : {"idle", "select", "insert", "accept"},
                   q : Queries \cup {0}]
    /\ asked \in Queries \cup {0}
    /\ \A q \in Queries :
        /\ query[q].kind \in {"none", "select", "insert"}
        /\ query[q].sound \in BOOLEAN
        /\ query[q].given \in Seq(Blocks)
        /\ query[q].flushed \in 0 .. MaxBlocks
        /\ query[q].outcome \in {"none", "ok", "error"}
        /\ result[q].sent \in 0 .. MaxBlocks + 1
        /\ result[q].complete \in BOOLEAN
        /\ result[q].applied \in Seq(0 .. MaxBlocks)

Init ==
    /\ broken = FALSE /\ polls = FALSE /\ deadline = FALSE
    /\ resp = NoResp
    /\ pc = "idle"
    /\ canceled = FALSE
    /\ up = TRUE
    /\ toServer = <<>> /\ toClient = <<>>
    /\ server = Idle
    /\ asked = 0
    /\ query = [q \in Queries |-> [kind |-> "none", sound |-> FALSE,
                                   given |-> <<>>, flushed |-> 0,
                                   outcome |-> "none"]]
    /\ result = [q \in Queries |-> [sent |-> 0, complete |-> FALSE,
                                    applied |-> <<>>]]

(***************************************************************************)
(* The client library (clickhouse-c, external).                            *)
(***************************************************************************)
(* A packet is sent; on a socket that is down it may seem to be, or fail. *)
Send(p) == toServer' = IF up THEN Append(toServer, p) ELSE toServer
SendFails == ~up /\ UNCHANGED toServer

(* chc_client_recv_packet gives up: the peer is gone, cancel_adapter says
   that the statement is cancelled, or the I/O deadline has passed. *)
Interrupted ==
    \/ ~up /\ toClient = <<>>
    \/ polls /\ canceled
    \/ deadline

Receives == toClient # <<>> /\ toClient' = Tail(toClient)

(***************************************************************************)
(* Statements and the connection cache.                                    *)
(***************************************************************************)
(* The statement is over; a cancellation that was pending is dealt with. *)
Over ==
    /\ pc' = "idle"
    /\ canceled' = FALSE

(* Between statements a broken connection is replaced by a new one. *)
Reconnect ==
    /\ pc = "idle" /\ broken
    /\ broken' = FALSE
    /\ up' = TRUE
    /\ toServer' = <<>> /\ toClient' = <<>>
    /\ server' = Idle
    /\ UNCHANGED <<polls, deadline, resp, pc, canceled, asked, query, result>>

LeaseForScan ==
    /\ pc = "idle" /\ ~broken
    /\ pc' = "leased"
    /\ UNCHANGED <<connVars, resp, canceled, netVars, asked, query, result>>

EndScan ==
    /\ pc = "leased"
    /\ Over
    /\ UNCHANGED <<connVars, resp, netVars, asked, query, result>>

(* The user cancels the statement, or statement_timeout fires. *)
CancelRequest ==
    /\ pc # "idle" /\ ~canceled
    /\ canceled' = TRUE
    /\ UNCHANGED <<connVars, resp, pc, netVars, asked, query, result>>

Fails(q) == query' = [query EXCEPT ![q].outcome = "error"]

(***************************************************************************)
(* Queries (binary/select.c).                                              *)
(***************************************************************************)
(* Mutant: cancellation is not polled. *)
NoCancelCheck == FALSE

(* ch_binary_simple_query installs the cancel check of its caller. *)
CancelCheck == TRUE

(* ch_binary_simple_query, also for a rescan: "broken" is not looked at. *)
SendQuery == LET q == asked + 1 IN
    /\ pc = "leased" /\ asked < MaxQueries
    /\ asked' = q
    /\ Send(Packet("Query", q, 0))
    /\ resp' = [q |-> q, error |-> FALSE, eos |-> FALSE, staged |-> NoBlock]
    /\ polls' = CancelCheck
    /\ query' = [query EXCEPT ![q].kind = "select", ![q].sound = ~broken]
    /\ pc' = "starting"
    /\ UNCHANGED <<broken, deadline, canceled, up, toClient, server, result>>

(* The query cannot be sent: the response is freed and an error raised. *)
SendQueryFails == LET q == asked + 1 IN
    /\ pc = "leased" /\ asked < MaxQueries
    /\ asked' = q
    /\ SendFails
    /\ broken' = TRUE
    /\ Fails(q)
    /\ Over
    /\ UNCHANGED <<polls, deadline, resp, up, toClient, server, result>>

(* The loops around pump_one, in ch_binary_simple_query before there is a
   cursor and in ch_binary_response_fetch_next_block. *)
Pumping ==
    /\ pc \in {"starting", "open"}
    /\ resp.staged = NoBlock /\ ~resp.eos /\ ~resp.error

(* Mutants: a cancellation is taken for the end of the stream; a packet without
   a block is staged as one. *)
FoldCanceledIsEnd(p, bad) ==
    [resp EXCEPT !.error = p.kind = "Exception" \/ bad,
                 !.eos = p.kind \in {"Exception", "EndOfStream"} \/ bad
                            \/ (polls /\ canceled),
                 !.staged = IF p.kind = "Data" /\ ~bad THEN <<p.q, p.n>> ELSE @]

FoldStagesPacket(p, bad) ==
    [resp EXCEPT !.error = p.kind = "Exception" \/ bad \/ (polls /\ canceled),
                 !.eos = p.kind \in {"Exception", "EndOfStream"} \/ bad,
                 !.staged = IF p.kind \in {"Data", "Progress"} /\ ~bad
                            THEN <<p.q, p.n>> ELSE @]

(* What packet p makes of the response; "bad" is a block that does not pass
   chc_column_validate. *)
Fold(p, bad) ==
    [resp EXCEPT !.error = p.kind = "Exception" \/ bad \/ (polls /\ canceled),
                 !.eos = p.kind \in {"Exception", "EndOfStream"} \/ bad,
                 !.staged = IF p.kind = "Data" /\ ~bad THEN <<p.q, p.n>> ELSE @]

pump_one(bad) == LET p == Head(toClient) IN
    /\ Pumping
    /\ Receives
    /\ bad => p.kind = "Data"
    /\ resp' = Fold(p, bad)
    /\ broken' = (broken \/ bad \/ p.kind = "Exception")
    /\ UNCHANGED <<polls, deadline, pc, canceled, up, toServer, server, asked,
                   query, result>>

PumpFails ==
    /\ Pumping
    /\ Interrupted
    /\ resp' = [resp EXCEPT !.error = TRUE, !.eos = TRUE]
    /\ broken' = TRUE
    /\ UNCHANGED <<polls, deadline, pc, canceled, netVars, asked, query, result>>

(* Memory runs out in resp_set_error, which copies the message: the error
   leaves ch_binary_simple_query before anything can free the response.  (A
   response with a cursor is freed by the cursor's reset callback.) *)
OutOfMemory ==
    /\ pc = "starting" /\ Pumping
    /\ Receives
    /\ (polls /\ canceled) \/ Head(toClient).kind = "Exception"
    /\ resp' = NoResp
    /\ Fails(resp.q)
    /\ Over
    /\ UNCHANGED <<connVars, up, toServer, server, asked, result>>

(* binary_simple_query: no error so far, the cursor is opened. *)
OpenCursor ==
    /\ pc = "starting" /\ ~Pumping /\ ~resp.error
    /\ pc' = "open"
    /\ UNCHANGED <<connVars, resp, canceled, netVars, asked, query, result>>

(* ch_binary_response_fetch_next_block hands the staged block to the reader. *)
TakeBlock ==
    /\ pc = "open" /\ resp.staged # NoBlock
    /\ query' = [query EXCEPT ![resp.q].given = Append(@, resp.staged)]
    /\ resp' = [resp EXCEPT !.staged = NoBlock]
    /\ UNCHANGED <<connVars, pc, canceled, netVars, asked, result>>

(* It returns NULL without an error: the scan has seen all its rows. *)
EndOfStream ==
    /\ pc = "open" /\ resp.staged = NoBlock /\ resp.eos /\ ~resp.error
    /\ query[resp.q].outcome = "none"
    /\ query' = [query EXCEPT ![resp.q].outcome = "ok"]
    /\ UNCHANGED <<connVars, resp, pc, canceled, netVars, asked, result>>

(***************************************************************************)
(* Freeing the response, and ch_binary_drain.                              *)
(***************************************************************************)
(* The response is gone.  A scan without an error may go on with a rescan. *)
Freed ==
    /\ resp' = NoResp
    /\ polls' = FALSE
    /\ deadline' = FALSE
    /\ IF resp.error THEN Over ELSE pc' = "leased" /\ UNCHANGED canceled

Outcome == IF resp.error
           THEN Fails(resp.q)
           ELSE UNCHANGED query

Freeing == pc = "open" \/ (pc = "starting" /\ resp.error)

(* ch_binary_response_free of a response that was read to its end, *)
FreeAtEnd ==
    /\ Freeing /\ resp.eos
    /\ Outcome
    /\ Freed
    /\ UNCHANGED <<broken, netVars, asked, result>>

(* Mutant: no limit on the wait for the reply to Cancel. *)
NoDeadline == FALSE

DrainDeadline == TRUE

(* of one that was not: drain_until_eos sends Cancel and starts to drain, *)
FreeEarly ==
    /\ Freeing /\ ~resp.eos
    /\ Outcome
    /\ Send(Packet("Cancel", resp.q, 0))
    /\ polls' = FALSE
    /\ deadline' = DrainDeadline
    /\ pc' = "draining"
    /\ UNCHANGED <<broken, resp, canceled, up, toClient, server, asked, result>>

(* or Cancel cannot be sent. *)
FreeUnsent ==
    /\ Freeing /\ ~resp.eos
    /\ SendFails
    /\ Outcome
    /\ broken' = TRUE
    /\ Freed
    /\ UNCHANGED <<up, toClient, server, asked, result>>

(* ch_binary_drain runs for a response that is freed, for an INSERT that
   could not be prepared, and for one that is finished. *)
Draining == pc \in {"draining", "undoing", "finalizing"}

(* Mutant: the error that ended the drain is not reported. *)
DrainedQuietly(ok) ==
    \/ pc = "draining" /\ Freed /\ UNCHANGED query
    \/ /\ pc \in {"undoing", "finalizing"}
       /\ query' = [query EXCEPT ![asked].outcome =
                        IF pc = "finalizing" THEN "ok" ELSE "error"]
       /\ Over
       /\ UNCHANGED <<resp, polls, deadline>>

(* It ended, with the end of the stream or not. *)
Drained(ok) ==
    \/ pc = "draining" /\ Freed /\ UNCHANGED query
    \/ /\ pc \in {"undoing", "finalizing"}
       /\ query' = [query EXCEPT ![asked].outcome =
                        IF ok /\ pc = "finalizing" THEN "ok" ELSE "error"]
       /\ Over
       /\ UNCHANGED <<resp, polls, deadline>>

(* Mutant: the drain stops at the first packet. *)
StopsAtFirst(p) == TRUE

EndsDrain(p) == p.kind \in {"EndOfStream", "Exception"}
BreaksDrain(p) == p.kind = "Exception"

ch_binary_drain == LET p == Head(toClient) IN
    /\ Draining
    /\ Receives
    /\ broken' = (broken \/ BreaksDrain(p))
    /\ IF EndsDrain(p)
       THEN Drained(p.kind # "Exception")
       ELSE UNCHANGED <<polls, deadline, resp, pc, canceled, query>>
    /\ UNCHANGED <<up, toServer, server, asked, result>>

DrainFails ==
    /\ Draining
    /\ Interrupted
    /\ broken' = TRUE
    /\ Drained(FALSE)
    /\ UNCHANGED <<netVars, asked, result>>

(***************************************************************************)
(* INSERT (binary/insert.c).                                               *)
(***************************************************************************)
(* ch_binary_begin_insert on a connection the cache has just handed out.  No
   cancel check is installed. *)
BeginInsert == LET q == asked + 1 IN
    /\ pc = "idle" /\ ~broken /\ asked < MaxQueries
    /\ asked' = q
    /\ Send(Packet("Insert", q, 0))
    /\ query' = [query EXCEPT ![q].kind = "insert", ![q].sound = TRUE]
    /\ pc' = "preparing"
    /\ UNCHANGED <<connVars, resp, canceled, up, toClient, server, result>>

BeginInsertFails == LET q == asked + 1 IN
    /\ pc = "idle" /\ ~broken /\ asked < MaxQueries
    /\ asked' = q
    /\ SendFails
    /\ broken' = TRUE
    /\ Fails(q)
    /\ Over
    /\ UNCHANGED <<polls, deadline, resp, up, toClient, server, result>>

(* recv_initial_block: the schema has come, and the writer can be built *)
recv_initial_block == LET p == Head(toClient) IN
    /\ pc = "preparing"
    /\ Receives
    /\ \/ p.kind = "Data" /\ pc' = "inserting"
          /\ UNCHANGED <<broken, canceled, query>>
       \/ p.kind = "Exception" /\ broken' = TRUE /\ Fails(asked) /\ Over
       \/ p.kind \notin {"Data", "Exception"}
          /\ UNCHANGED <<broken, pc, canceled, query>>
    /\ UNCHANGED <<polls, deadline, resp, up, toServer, server, asked, result>>

PrepareFails ==
    /\ pc = "preparing"
    /\ Interrupted
    /\ broken' = TRUE
    /\ Fails(asked)
    /\ Over
    /\ UNCHANGED <<polls, deadline, resp, netVars, asked, result>>

(* or pgch_writer_new raises and drain_aborted_insert ends the INSERT. *)
drain_aborted_insert ==
    /\ pc = "inserting" /\ query[asked].flushed = 0
    /\ \/ /\ Send(Packet("EndOfData", asked, 0))
          /\ pc' = "undoing"
          /\ UNCHANGED <<broken, canceled, query>>
       \/ /\ SendFails
          /\ broken' = TRUE
          /\ Fails(asked)
          /\ Over
    /\ UNCHANGED <<polls, deadline, resp, up, toClient, server, asked, result>>

ch_binary_flush_block == LET n == query[asked].flushed + 1 IN
    /\ pc = "inserting" /\ n <= MaxBlocks
    /\ \/ /\ Send(Packet("Data", asked, n))
          /\ query' = [query EXCEPT ![asked].flushed = n]
          /\ UNCHANGED <<broken, pc, canceled>>
       \/ /\ SendFails
          /\ broken' = TRUE
          /\ Fails(asked)
          /\ Over
    /\ UNCHANGED <<polls, deadline, resp, up, toClient, server, asked, result>>

ch_binary_finalize_insert ==
    /\ pc = "inserting"
    /\ \/ /\ Send(Packet("EndOfData", asked, 0))
          /\ pc' = "finalizing"
          /\ UNCHANGED <<broken, canceled, query>>
       \/ /\ SendFails
          /\ broken' = TRUE
          /\ Fails(asked)
          /\ Over
    /\ UNCHANGED <<polls, deadline, resp, up, toClient, server, asked, result>>

(* Mutant: an INSERT given up half way leaves the connection for reuse. *)
ReleaseKeeps == broken

ReleaseBreaks == TRUE

(* ch_binary_release_insert of an INSERT that was not finalized: an error
   elsewhere frees its state, and nothing is said to the server. *)
ch_binary_release_insert ==
    /\ pc = "inserting"
    /\ broken' = ReleaseBreaks
    /\ Fails(asked)
    /\ Over
    /\ UNCHANGED <<polls, deadline, resp, netVars, asked, result>>

(***************************************************************************)
(* The server and the network (external).                                  *)
(***************************************************************************)
serverUnchanged == <<connVars, resp, pc, canceled, asked, query>>

Room == Len(toClient) < MaxPackets

Reply(kind, n) == toClient' = Append(toClient, Packet(kind, server.q, n))

ServerReads(kind) ==
    /\ up /\ toServer # <<>>
    /\ Head(toServer).kind = kind
    /\ toServer' = Tail(toServer)

ServerStarts ==
    /\ server.mode = "idle"
    /\ \/ /\ ServerReads("Query")
          /\ server' = [mode |-> "select", q |-> Head(toServer).q]
       \/ /\ ServerReads("Insert")
          /\ server' = [mode |-> "insert", q |-> Head(toServer).q]
       \/ ServerReads("Cancel") /\ UNCHANGED server
    /\ UNCHANGED <<serverUnchanged, up, toClient, result>>

(* Data of an INSERT that the server has given up: it hangs up. *)
ServerRefuses ==
    /\ server.mode = "idle"
    /\ ServerReads("Data") \/ ServerReads("EndOfData")
    /\ up' = FALSE
    /\ UNCHANGED <<serverUnchanged, toClient, server, result>>

ServerSendsBlock == LET n == result[server.q].sent IN
    /\ up /\ server.mode = "select" /\ Room /\ n <= MaxBlocks
    /\ Reply("Data", n)
    /\ result' = [result EXCEPT ![server.q].sent = n + 1]
    /\ UNCHANGED <<serverUnchanged, up, toServer, server>>

ServerSendsProgress ==
    /\ up /\ server.mode # "idle" /\ Room
    /\ Reply("Progress", NoNumber)
    /\ UNCHANGED <<serverUnchanged, up, toServer, server, result>>

ServerFinishes ==
    /\ up /\ server.mode = "select" /\ Room
    /\ Reply("EndOfStream", 0)
    /\ result' = [result EXCEPT ![server.q].complete = TRUE]
    /\ server' = Idle
    /\ UNCHANGED <<serverUnchanged, up, toServer>>

ServerIsCanceled ==
    /\ server.mode = "select" /\ Room
    /\ ServerReads("Cancel")
    /\ Reply("EndOfStream", 0)
    /\ server' = Idle
    /\ UNCHANGED <<serverUnchanged, up, result>>

ServerRaises ==
    /\ up /\ server.mode # "idle" /\ Room
    /\ Reply("Exception", 0)
    /\ server' = Idle
    /\ up' \in BOOLEAN
    /\ toServer' = IF up' THEN toServer ELSE <<>>
    /\ UNCHANGED <<serverUnchanged, result>>

ServerSendsSchema ==
    /\ up /\ server.mode = "insert" /\ Room
    /\ Reply("Data", 0)
    /\ server' = [server EXCEPT !.mode = "accept"]
    /\ UNCHANGED <<serverUnchanged, up, toServer, result>>

ServerAccepts ==
    /\ server.mode = "accept"
    /\ ServerReads("Data")
    /\ result' = [result EXCEPT ![server.q].applied = Append(@, Head(toServer).n)]
    /\ UNCHANGED <<serverUnchanged, up, toClient, server>>

ServerAcknowledges ==
    /\ server.mode = "accept" /\ Room
    /\ ServerReads("EndOfData")
    /\ Reply("EndOfStream", 0)
    /\ result' = [result EXCEPT ![server.q].complete = TRUE]
    /\ server' = Idle
    /\ UNCHANGED <<serverUnchanged, up>>

SocketDrops ==
    /\ up
    /\ up' = FALSE
    /\ toServer' = <<>>
    /\ \E n \in 0 .. Len(toClient) : toClient' = SubSeq(toClient, 1, n)
    /\ UNCHANGED <<serverUnchanged, server, result>>

(***************************************************************************)
(* The specification.                                                      *)
(***************************************************************************)
Pump == (\E bad \in BOOLEAN : pump_one(bad)) \/ PumpFails
Drain == ch_binary_drain \/ DrainFails
Free == FreeAtEnd \/ FreeEarly \/ FreeUnsent

Client ==
    \/ Reconnect \/ LeaseForScan \/ EndScan
    \/ SendQuery \/ SendQueryFails
    \/ Pump
    \/ OpenCursor \/ TakeBlock \/ EndOfStream
    \/ Free
    \/ Drain
    \/ BeginInsert \/ BeginInsertFails
    \/ recv_initial_block \/ PrepareFails \/ drain_aborted_insert
    \/ ch_binary_flush_block \/ ch_binary_finalize_insert
    \/ ch_binary_release_insert

Server ==
    \/ ServerStarts \/ ServerRefuses
    \/ ServerSendsBlock \/ ServerSendsProgress
    \/ ServerFinishes \/ ServerIsCanceled \/ ServerRaises
    \/ ServerSendsSchema \/ ServerAccepts \/ ServerAcknowledges

(* The bound on queries is reached. *)
Done == pc = "idle" /\ ~broken /\ asked = MaxQueries /\ UNCHANGED vars

Next == Client \/ CancelRequest \/ Server \/ SocketDrops \/ Done

(* The session's own code goes on as long as it can, and a poll for
   cancellation or a deadline takes effect.  Nothing is assumed of the
   server, the network or the user. *)
Fairness ==
    /\ WF_vars(Pump \/ OpenCursor \/ TakeBlock \/ Free)
    /\ WF_vars(PumpFails)
    /\ WF_vars(Drain)
    /\ WF_vars(DrainFails)

Spec == Init /\ [][Next]_vars /\ Fairness

(* With allocations that may fail *)
SpecOutOfMemory == Init /\ [][Next \/ OutOfMemory]_vars

(***************************************************************************)
(* Properties.                                                             *)
(***************************************************************************)
(* The blocks a scan is given are those of its own query, in the order the
   server sent them and without a gap, whatever earlier statements on the
   connection left behind: a reply that was cancelled half way, an exception,
   a late Cancel.  For queries sent on a connection not marked broken. *)
OwnBlocksInOrder ==
    \A q \in Queries : query[q].sound =>
        query[q].given = [i \in 1 .. Len(query[q].given) |-> <<q, i - 1>>]

(* A scan that ends without an error has seen the whole result: no
   cancellation, exception, hang-up or bad block is taken for the end of the
   data (pump_one, ch_binary_response_fetch_next_block). *)
NoSilentTruncation ==
    \A q \in Queries :
        query[q].kind = "select" /\ query[q].sound /\ query[q].outcome = "ok" =>
            /\ result[q].complete
            /\ Len(query[q].given) = result[q].sent

(* "so the connection is left clean for the next query": a connection that is
   not marked broken has, when a statement starts on it, no packet of an
   earlier one to read and no server still working (drain_until_eos,
   ch_binary_finalize_insert, ch_binary_release_insert). *)
CleanForReuse ==
    pc \in {"idle", "leased"} /\ ~broken =>
        /\ toClient = <<>>
        /\ up => server = Idle
        /\ \A i \in 1 .. Len(toServer) : toServer[i].kind = "Cancel"

(* An INSERT reported as done was acknowledged by the server, which has taken
   exactly the blocks that were flushed, once and in order. *)
InsertAcknowledged ==
    \A q \in Queries :
        /\ \A i \in 1 .. Len(result[q].applied) : result[q].applied[i] = i
        /\ query[q].kind = "insert" /\ query[q].outcome = "ok" =>
            /\ result[q].complete
            /\ Len(result[q].applied) = query[q].flushed

(* "caps total wait with an IO deadline so a peer that ignores Cancel doesn't
   cause hang": freeing a response ends, whatever the server does. *)
FreeEnds == pc = "draining" ~> pc # "draining"

(* A cancelled scan stops waiting for the server (cancel_adapter, and the
   check after each packet). *)
CanceledScanEnds ==
    canceled /\ pc \in {"starting", "open"} ~> pc \in {"leased", "idle"}

(* "Sets conn->broken on transport failure / timeout / send_cancel failure so
   the cache drops the connection": every query is given its own blocks, on
   whatever connection it was sent.  The code does not keep this one (a rescan
   after a Cancel that went unanswered keeps the connection marked broken and
   reads on where the first scan stopped). *)
AlwaysOwnBlocks ==
    \A q \in Queries :
        query[q].given = [i \in 1 .. Len(query[q].given) |-> <<q, i - 1>>]

(* "Added query cancellation via Ctrl-C and statement_timeout to the binary
   driver": a cancelled INSERT stops waiting for the server.  The code does
   not keep this one (ch_binary_finalize_insert polls nothing and sets no
   deadline). *)
CanceledInsertEnds == canceled /\ pc = "finalizing" ~> pc # "finalizing"

(***************************************************************************)
(* The inductive invariant.                                                *)
(***************************************************************************)
ToServer == [kind : {"Query", "Insert", "Cancel", "Data", "EndOfData"},
             q : Queries, n : 0 .. NoNumber]
ToClient == [kind : {"Data", "Progress", "EndOfStream", "Exception"},
             q : Queries, n : 0 .. NoNumber]

Requests == {"Query", "Insert"}
Ends == {"EndOfStream", "Exception"}

(* Packets of a queue, by their kinds. *)
KindsIn(s, K) == \A i \in 1 .. Len(s) : s[i].kind \in K
NoKind(s, K) == \A i \in 1 .. Len(s) : s[i].kind \notin K
LastOnly(s, K) == \A i \in 1 .. Len(s) : s[i].kind \in K => i = Len(s)
Once(s, K) ==
    \A i, j \in 1 .. Len(s) : s[i].kind \in K /\ s[j].kind \in K => i = j

(* The blocks of queue s are a, a + 1, .. b - 1 in this order: f[i] is the
   number of the next block from position i on. *)
Numbered(s, a, b) ==
    \E f \in [1 .. Len(s) + 1 -> Nat] :
        /\ f[1] = a /\ f[Len(s) + 1] = b
        /\ \A i \in 1 .. Len(s) :
            IF s[i].kind = "Data" THEN s[i].n = f[i] /\ f[i + 1] = f[i] + 1
                                  ELSE f[i + 1] = f[i]

Responses == [q : Queries \cup {0}, error : BOOLEAN, eos : BOOLEAN,
              staged : Blocks \cup {NoBlock}]
Tasks == [mode : {"idle", "select", "insert", "accept"}, q : Queries \cup {0}]
QueryRecs == [kind : {"none", "select", "insert"}, sound : BOOLEAN,
              given : Seq(Blocks), flushed : 0 .. MaxBlocks,
              outcome : {"none", "ok", "error"}]
ResultRecs == [sent : 0 .. MaxBlocks + 1, complete : BOOLEAN,
               applied : Seq(0 .. MaxBlocks)]

ClientTypes ==
    /\ broken \in BOOLEAN /\ polls \in BOOLEAN /\ deadline \in BOOLEAN
    /\ resp \in Responses
    /\ pc \in Stages
    /\ canceled \in BOOLEAN
    /\ asked \in Queries \cup {0}
    /\ query \in [Queries -> QueryRecs]

(* The data of a queue are blocks. *)
HasBlocks(s) == \A i \in 1 .. Len(s) : s[i].kind = "Data" => s[i].n <= MaxBlocks

NetTypes ==
    /\ up \in BOOLEAN
    /\ server \in Tasks /\ (server.mode = "idle" <=> server.q = 0)
    /\ result \in [Queries -> ResultRecs]
    /\ toServer \in Seq(ToServer) /\ HasBlocks(toServer)
    /\ toClient \in Seq(ToClient) /\ HasBlocks(toClient)

(* Nothing has happened yet to the queries to come. *)
ToComeIsFresh ==
    /\ \A q \in Queries : q > asked =>
        /\ query[q].given = <<>> /\ query[q].flushed = 0 /\ ~query[q].sound
        /\ query[q].outcome = "none" /\ query[q].kind = "none"
        /\ result[q].sent = 0 /\ result[q].applied = <<>>
    /\ server.q <= asked
    /\ \A i \in 1 .. Len(toServer) : toServer[i].q <= asked

ScanStages == {"starting", "open", "draining"}
InsertStages == {"preparing", "inserting", "undoing", "finalizing"}

(* What each stage of a statement knows of it.  A connection that was sound when
   the query was sent is marked broken only together with an error that ends the
   response. *)
StagesMean ==
    /\ pc \in ScanStages =>
        /\ asked # 0 /\ resp.q = asked /\ query[asked].kind = "select"
        /\ ~broken => query[asked].sound
        /\ pc # "draining" /\ query[asked].sound /\ broken => resp.error /\ resp.eos
        /\ pc = "draining" => ~resp.eos /\ (query[asked].sound => ~broken)
    /\ pc \notin ScanStages => resp = NoResp /\ ~polls /\ ~deadline
    /\ pc \in InsertStages =>
        /\ asked # 0 /\ query[asked].kind = "insert" /\ query[asked].outcome = "none"
        /\ query[asked].sound /\ ~broken

(* The reply to the last request is still to be read. *)
Current == \/ pc \in ScanStages /\ ~resp.eos /\ ~broken
           \/ pc \in InsertStages

(* Otherwise a connection that is not marked broken is quiet: only a Cancel that
   came too late may be on its way. *)
RestIsQuiet ==
    ~broken /\ ~Current =>
        toClient = <<>> /\ server = Idle /\ KindsIn(toServer, {"Cancel"})

(* Every packet of the reply is for the last request, one packet ends it, and
   before the server reads the request there is no reply. *)
ReplyIsOwn ==
    Current =>
        /\ \A i \in 1 .. Len(toClient) : toClient[i].q = asked
        /\ LastOnly(toClient, Ends)
        /\ Once(toServer, Requests)
        /\ ~NoKind(toClient, Ends) => server = Idle /\ NoKind(toServer, Requests)
        /\ server # Idle => server.q = asked /\ NoKind(toServer, Requests)
        /\ ~NoKind(toServer, Requests) => toClient = <<>>
                /\ result[asked].sent = 0 /\ result[asked].applied = <<>>
        /\ \A i \in 1 .. Len(toServer) :
                toServer[i].kind \in Requests => toServer[i].q = asked

(* Blocks the response has received. *)
Received == Len(query[asked].given) + IF resp.staged = NoBlock THEN 0 ELSE 1

(* The blocks under way have the numbers from Received on, up to the last one the
   server sent if nothing was cut off. *)
BlocksInOrder ==
    pc \in {"starting", "open"} /\ Current =>
        \E b \in Nat :
            /\ Numbered(toClient, Received, b)
            /\ up \/ ~NoKind(toClient, Ends) => b = result[asked].sent

(* A reply is cut short only by the Cancel of its own query. *)
ScanReply ==
    pc \in ScanStages /\ Current =>
        /\ server.mode \in {"idle", "select"}
        /\ KindsIn(toServer, {"Query", "Cancel"})
        /\ pc # "draining" =>
            /\ server.mode = "select" => toServer = <<>>
            /\ LastOnly(toServer, Requests)
            /\ ~NoKind(toClient, {"EndOfStream"}) => result[asked].complete

(* What a scan on a sound connection has been given, and how it ends. *)
ScanResult ==
    pc \in {"starting", "open"} /\ query[asked].sound =>
        /\ resp.staged # NoBlock => resp.staged = <<asked, Len(query[asked].given)>>
        /\ resp.eos /\ ~resp.error =>
            result[asked].complete /\ Received = result[asked].sent
        /\ query[asked].outcome = "ok" => resp.eos /\ resp.staged = NoBlock /\ ~resp.error

(* The server gets the blocks of an INSERT in order, then the end of the data. *)
InputIs(b) == Numbered(toServer, Len(result[server.q].applied) + 1, b)

InsertReply ==
    pc \in InsertStages =>
        /\ server.mode # "select"
        /\ NoKind(toServer, {"Query"})
        /\ pc = "preparing" =>
            /\ query[asked].flushed = 0 /\ result[asked].applied = <<>>
            /\ KindsIn(toServer, {"Insert", "Cancel"}) /\ LastOnly(toServer, Requests)
            /\ server # Idle => toServer = <<>>
            /\ server.mode = "insert" => NoKind(toClient, {"Data"})
        /\ pc # "preparing" => server.mode # "insert" /\ NoKind(toServer, Requests)
        /\ up /\ server.mode = "accept" =>
            /\ InputIs(query[asked].flushed + 1)
            /\ pc = "inserting" => KindsIn(toServer, {"Data"})
            /\ LastOnly(toServer, {"EndOfData"})
        /\ ~NoKind(toClient, {"EndOfStream"}) =>
            /\ pc \in {"undoing", "finalizing"} /\ toServer = <<>>
            /\ result[asked].complete
            /\ Len(result[asked].applied) = query[asked].flushed

(* An INSERT that was given up is still fed in order, until the connection is
   replaced. *)
BrokenWire ==
    up /\ broken =>
        /\ server.mode # "insert" /\ NoKind(toServer, {"Insert"})
        /\ server.mode = "accept" => pc = "idle" /\ \E b \in Nat : InputIs(b)

(* The server has nothing more to do for a statement that ended well. *)
DoneIsOver ==
    \A q \in Queries : query[q].outcome = "ok" /\ query[q].sound =>
        /\ server.q # q
        /\ \A i \in 1 .. Len(toServer) :
            toServer[i].kind \in Requests => toServer[i].q # q

InsertsAreSound == \A q \in Queries : query[q].kind = "insert" => query[q].sound

(* The invariant: types, what the client knows, what is on the wire, and the
   history. *)
WireInv == RestIsQuiet /\ ReplyIsOwn /\ BlocksInOrder /\ ScanReply /\ InsertReply /\ BrokenWire
History == OwnBlocksInOrder /\ NoSilentTruncation /\ InsertAcknowledged /\ InsertsAreSound
BinInv ==
    /\ ClientTypes /\ NetTypes
    /\ ToComeIsFresh /\ StagesMean
    /\ WireInv /\ ScanResult /\ DoneIsOver
    /\ History
=============================================================================
