----------------------------- MODULE HttpDriver -----------------------------
(***************************************************************************)
(* Statements over the HTTP driver: http.c, and the http_* functions of    *)
(* pglink.c.                                                               *)
(*                                                                         *)
(* A query is one POST whose body comes back in chunks of any size; curl   *)
(* hands each chunk to write_callback, which pauses the transfer until the *)
(* decoder has taken it.  pump() runs the transfer for six callers, told   *)
(* apart by pc.  A request that fails in transport is repeated, a request  *)
(* that is cancelled is followed by KILL QUERY, and a failure after the    *)
(* first rows is found in the last bytes of the body.  An INSERT describes *)
(* its table with such a query and then POSTs each buffer of rows.         *)
(*                                                                         *)
(* The body is a sequence of units: row blocks 1, 2, ... and an exception  *)
(* text, Code followed by More.  External: libcurl, the decoder and the    *)
(* server, which decides when it gets a request how it will answer.        *)
(***************************************************************************)
EXTENDS Naturals, Sequences

CONSTANTS
    MaxStatements,  \* bound on the statements of the session
    MaxRows,        \* bound on the row blocks of one result or INSERT
    MaxExc,         \* bound on the length of an exception text
    TailSize        \* units that fit into HttpStream.tail

ASSUME BoundAssumption ==
    /\ MaxStatements \in Nat \ {0}
    /\ MaxRows \in Nat
    /\ MaxExc \in Nat
    /\ TailSize \in Nat \ {0}

MaxAttempts == 3
Code == 0
More == MaxRows + 1

VARIABLES
    pc,         \* what the session is doing
    stream,     \* HttpStream of the request under way
    wire,       \* what the network still has for it (external)
    attempts,   \* of http_native_cursor
    drained,    \* units read by ch_http_stream_exception
    canceled,   \* QueryCancelPending or ProcDiePending
    kind,       \* "query", "describe" or "insert"
    count,      \* statements so far
    given,      \* units the decoder was given: history
    body,       \* the answer of the server to the last request: history
    outcome,    \* of the statement: history
    aborted,    \* the pump xferinfo_callback aborted, or "none": history
    killed,     \* KILL QUERY was sent for the last request: history
    posted,     \* row blocks POSTed by this INSERT: history
    acked,      \* of these, answered with success: history
    applied     \* row blocks the server has inserted: history

histVars == <<given, body, outcome, aborted, killed, posted, acked, applied>>
vars == <<pc, stream, wire, attempts, drained, canceled, kind, count, histVars>>

(* "idle"; "begin" and "errbody", the two pumps of ch_http_stream_begin;
   "open", a cursor; "next", the pump of ch_http_stream_next_chunk; "readerror",
   http_native_read_error; "drain", the loop of ch_http_stream_exception, and
   "tail", its pump; "kill"; "rows", an INSERT that accepts rows; "post", one of
   its POSTs. *)
Pumps == {"begin", "errbody", "next", "tail", "post", "kill"}
Stages == Pumps \cup {"idle", "open", "readerror", "drain", "rows"}

Units == 1 .. MaxRows \cup {Code, More}
NoStream == [status |-> "none", buf |-> <<>>, tail |-> <<>>, streaming |-> FALSE,
             paused |-> FALSE, done |-> FALSE, cancel |-> FALSE]
NoWire == [todo |-> <<>>, end |-> "complete", code |-> "ok"]

TypeOK ==
    /\ pc \in Stages
    /\ stream.status \in {"none", "ok", "error", "canceled", "transport"}
    /\ stream.buf \in Seq(Units) /\ stream.tail \in Seq(Units)
    /\ Len(stream.tail) <= TailSize
    /\ wire.todo \in Seq(Units)
    /\ wire.end \in {"complete", "cut"} /\ wire.code \in {"ok", "error"}
    /\ attempts \in 0 .. MaxAttempts
    /\ drained \in Nat
    /\ kind \in {"query", "describe", "insert"}
    /\ given \in Seq(Units)
    /\ outcome \in {"none", "ok", "closed", "error", "exception", "canceled"}

Init ==
    /\ pc = "idle"
    /\ stream = NoStream /\ wire = NoWire
    /\ attempts = 0 /\ drained = 0
    /\ canceled = FALSE
    /\ kind = "query" /\ count = 0
    /\ given = <<>> /\ body = NoWire
    /\ outcome = "none" /\ aborted = "none" /\ killed = FALSE
    /\ posted = 0 /\ acked = 0 /\ applied = <<>>

(***************************************************************************)
(* The server's answers (external).                                        *)
(***************************************************************************)
Rows(n) == [i \in 1 .. n |-> i]
Text(n) == [i \in 1 .. n |-> IF i = 1 THEN Code ELSE More]

(* To a query: rows, then perhaps an exception; or an error status with the
   exception as its body.  The transfer may be cut off anywhere, before the
   first unit included. *)
Answers ==
    UNION {{[todo |-> Rows(n) \o Text(e), end |-> x, code |-> "ok"],
            [todo |-> Text(e), end |-> x, code |-> "error"]} :
                n \in 0 .. MaxRows, e \in 0 .. MaxExc, x \in {"complete", "cut"}}

(* To a POST of rows and to KILL QUERY: a status and a short text. *)
ShortAnswers ==
    {[todo |-> <<>>, end |-> x, code |-> c] :
        x \in {"complete", "cut"}, c \in {"ok", "error"}}

(***************************************************************************)
(* HttpStream                                                              *)
(***************************************************************************)
(* Mutant: the cancel check is not installed. *)
StreamBeginDeaf(a, streaming, cancel) ==
    /\ wire' = a
    /\ body' = a
    /\ stream' = [NoStream EXCEPT !.streaming = streaming]

(* ch_http_stream_begin up to its first pump: a new transfer is started. *)
StreamBegin(a, streaming, cancel) ==
    /\ wire' = a
    /\ body' = a
    /\ stream' = [NoStream EXCEPT !.streaming = streaming, !.cancel = cancel]

(* Mutant: the tail is that of the last chunk only. *)
TailOfChunk(chunk) ==
    SubSeq(chunk, IF Len(chunk) > TailSize THEN Len(chunk) - TailSize + 1 ELSE 1,
           Len(chunk))

(* Mutant: the tail is not bounded. *)
TailGrows(chunk) == stream.tail \o chunk

(* The last TailSize units received, the new chunk included. *)
TailAfter(chunk) == LET all == stream.tail \o chunk IN
    SubSeq(all, IF Len(all) > TailSize THEN Len(all) - TailSize + 1 ELSE 1, Len(all))

(* write_callback appends a chunk; while streaming it keeps the tail and
   pauses the transfer. *)
write_callback(chunk) ==
    [stream EXCEPT !.buf = @ \o chunk,
                   !.tail = IF stream.streaming THEN TailAfter(chunk) ELSE @,
                   !.paused = stream.streaming]

(* A caller unpauses the transfer and lets it run. *)
StartPump == stream' = [stream EXCEPT !.paused = FALSE]

PumpRuns == pc \in Pumps /\ ~stream.paused /\ ~stream.done

(* One round of curl_multi_perform in pump(): a chunk arrives; *)
PumpChunk ==
    /\ PumpRuns
    /\ \E n \in 1 .. Len(wire.todo) :
        /\ stream' = [write_callback(SubSeq(wire.todo, 1, n)) EXCEPT
                        !.status = wire.code]
        /\ wire' = [wire EXCEPT !.todo = SubSeq(@, n + 1, Len(@))]
    /\ UNCHANGED <<pc, attempts, drained, canceled, kind, count, histVars>>

(* or the transfer is over, with the status of the response, or cut off; *)
PumpDone ==
    /\ PumpRuns
    /\ wire.todo = <<>> \/ wire.end = "cut"
    /\ stream' = [stream EXCEPT !.done = TRUE,
                                !.status = IF wire.end = "cut" THEN "transport"
                                                               ELSE wire.code]
    /\ UNCHANGED <<pc, wire, attempts, drained, canceled, kind, count, histVars>>

(* or xferinfo_callback aborts it. *)
PumpCanceled ==
    /\ PumpRuns
    /\ stream.cancel /\ canceled
    /\ stream' = [stream EXCEPT !.done = TRUE, !.status = "canceled"]
    /\ aborted' = pc
    /\ UNCHANGED <<pc, wire, attempts, drained, canceled, kind, count, given, body,
                   outcome, killed, posted, acked, applied>>

(* pump() returns: a chunk is there or the transfer is over. *)
Pumped == stream.paused \/ stream.done

(* Mutant: the result of pump() is not looked at. *)
IgnoresResult == FALSE

(* It returns -1 if the transfer did not end well. *)
PumpError == stream.done /\ stream.status \in {"canceled", "transport"}

(***************************************************************************)
(* http_native_cursor                                                      *)
(***************************************************************************)
(* The statement ends; an interrupt that was pending is dealt with. *)
Ends(o) ==
    /\ outcome' = o
    /\ pc' = "idle"
    /\ canceled' = FALSE
    /\ stream' = NoStream /\ wire' = NoWire

StartStatement(k) ==
    /\ pc = "idle" /\ count < MaxStatements
    /\ k \in {"query", "describe"}
    /\ count' = count + 1
    /\ kind' = k
    /\ attempts' = 0 /\ drained' = 0
    /\ given' = <<>> /\ outcome' = "none" /\ aborted' = "none" /\ killed' = FALSE
    /\ posted' = 0 /\ acked' = 0 /\ applied' = <<>>
    /\ \E a \in Answers : StreamBegin(a, TRUE, TRUE)
    /\ pc' = "begin"
    /\ UNCHANGED canceled

CancelRequest ==
    /\ pc # "idle" /\ ~canceled
    /\ canceled' = TRUE
    /\ UNCHANGED <<pc, stream, wire, attempts, drained, kind, count, histVars>>

(* ch_http_stream_begin: an error body is not streamed but read to its end. *)
ReadErrorBody ==
    /\ pc = "begin" /\ Pumped /\ stream.status = "error"
    /\ stream' = [stream EXCEPT !.streaming = FALSE, !.paused = FALSE]
    /\ pc' = "errbody"
    /\ UNCHANGED <<wire, attempts, drained, canceled, kind, count, histVars>>

Begun == (pc = "begin" /\ Pumped /\ stream.status # "error")
         \/ (pc = "errbody" /\ stream.done)

(* A transport error is tried again, up to MaxAttempts times in all. *)
Retry ==
    /\ Begun
    /\ stream.status = "transport" /\ attempts + 1 < MaxAttempts
    /\ attempts' = attempts + 1
    /\ \E a \in Answers : StreamBegin(a, TRUE, TRUE)
    /\ pc' = "begin"
    /\ UNCHANGED <<drained, canceled, kind, count, given, outcome, aborted, killed,
                   posted, acked, applied>>

OpenCursor ==
    /\ Begun
    /\ stream.status = "ok"
    /\ attempts' = attempts + 1
    /\ pc' = "open"
    /\ UNCHANGED <<stream, wire, drained, canceled, kind, count, histVars>>

(* kill_query: a request of its own that cannot be cancelled. *)
KillQuery ==
    /\ killed' = TRUE
    /\ pc' = "kill"
    /\ stream' = NoStream
    /\ wire' \in ShortAnswers
    /\ UNCHANGED <<given, body, outcome, aborted, posted, acked, applied>>

(* report_http_stream_query_failure *)
ReportFailure ==
    /\ Begun
    /\ attempts' = attempts + 1
    /\ \/ /\ stream.status = "canceled"
          /\ KillQuery
          /\ UNCHANGED canceled
       \/ /\ \/ stream.status = "transport" /\ attempts + 1 >= MaxAttempts
             \/ stream.status = "error"
          /\ Ends("error")
          /\ UNCHANGED <<given, body, aborted, killed, posted, acked, applied>>
    /\ UNCHANGED <<drained, kind, count>>

KillDone ==
    /\ pc = "kill" /\ stream.done
    /\ Ends("canceled")
    /\ UNCHANGED <<attempts, drained, kind, count, given, body, aborted, killed, posted,
                   acked, applied>>

(***************************************************************************)
(* Reading.                                                                *)
(***************************************************************************)
(* The decoder can go on: it has met neither an exception text nor a block it
   cannot decode. *)
Decodes(s) == \A i \in 1 .. Len(s) : s[i] \in 1 .. MaxRows

AtEnd == stream.buf = <<>> /\ stream.done

(* Mutant: the chunk that was handed out stays in the buffer. *)
NotTaken == stream

Taken == [stream EXCEPT !.buf = <<>>]

(* ch_http_stream_next_chunk hands out what is buffered; the decoder may fail
   on it ("bad": a block it cannot decode). *)
TakeChunk(bad) ==
    /\ pc = "open" /\ ~AtEnd /\ stream.buf # <<>>
    /\ given' = given \o stream.buf
    /\ stream' = Taken
    /\ pc' = IF Decodes(stream.buf) /\ ~bad THEN "open" ELSE "readerror"
    /\ UNCHANGED <<wire, attempts, drained, canceled, kind, count, body, outcome,
                   aborted, killed, posted, acked, applied>>

(* It pumps when nothing is buffered, *)
NextChunk ==
    /\ pc = "open" /\ ~AtEnd /\ stream.buf = <<>>
    /\ StartPump
    /\ pc' = "next"
    /\ UNCHANGED <<wire, attempts, drained, canceled, kind, count, histVars>>

(* which may fail. *)
NextPumped ==
    /\ pc = "next" /\ Pumped
    /\ pc' = IF PumpError THEN "readerror" ELSE "open"
    /\ UNCHANGED <<stream, wire, attempts, drained, canceled, kind, count, histVars>>

(* Clean end of the body: the last row was read. *)
EndOfBody ==
    /\ pc = "open" /\ kind = "query" /\ AtEnd
    /\ Ends("ok")
    /\ UNCHANGED <<attempts, drained, kind, count, given, body, aborted, killed,
                   posted, acked, applied>>

(* http_prepare_insert drops the cursor of DESCRIBE once it has read a row for
   each column, or no more come; the INSERT then takes rows. *)
EndDescribe ==
    /\ pc = "open" /\ kind = "describe"
    /\ AtEnd \/ given # <<>>
    /\ pc' = "rows" /\ kind' = "insert"
    /\ stream' = NoStream /\ wire' = NoWire
    /\ UNCHANGED <<attempts, drained, canceled, count, histVars>>

(* The cursor is freed early by its scan, or by the CHECK_FOR_INTERRUPTS before
   the next row: ch_http_stream_end drops the transfer and no KILL QUERY is
   sent. *)
CloseEarly ==
    /\ pc = "open" /\ kind = "query"
    /\ Ends(IF canceled THEN "canceled" ELSE "closed")
    /\ UNCHANGED <<attempts, drained, kind, count, given, body, aborted, killed,
                   posted, acked, applied>>

(* The cancel check between reads (native_chunks_cancelled). *)
ReadCanceled ==
    /\ pc = "open" /\ canceled
    /\ pc' = "readerror"
    /\ UNCHANGED <<stream, wire, attempts, drained, canceled, kind, count, histVars>>

(***************************************************************************)
(* http_native_read_error and ch_http_stream_exception                     *)
(***************************************************************************)
(* Mutant: a read error is never looked upon as a cancellation. *)
NeverCanceled == FALSE

(* The read failed because of a cancellation, or there is one by now. *)
WasCanceled == stream.status = "canceled" \/ canceled

ReadErrorCanceled ==
    /\ pc = "readerror" /\ WasCanceled
    /\ KillQuery
    /\ UNCHANGED <<attempts, drained, canceled, kind, count>>

ReadErrorOther ==
    /\ pc = "readerror" /\ ~WasCanceled
    /\ pc' = "drain"
    /\ UNCHANGED <<stream, wire, attempts, drained, canceled, kind, count, histVars>>

(* ch_http_stream_exception reads on to the end, but not for long. *)
DrainsOn == ~stream.done /\ drained < TailSize

ReadTail ==
    /\ pc = "drain" /\ DrainsOn
    /\ stream' = [stream EXCEPT !.buf = <<>>, !.paused = FALSE]
    /\ pc' = "tail"
    /\ UNCHANGED <<wire, attempts, drained, canceled, kind, count, histVars>>

(* A chunk more; a failing pump has set "done", which ends the loop. *)
TailPumped ==
    /\ pc = "tail" /\ Pumped
    /\ drained' = drained + Len(stream.buf)
    /\ pc' = "drain"
    /\ UNCHANGED <<stream, wire, attempts, canceled, kind, count, histVars>>

ExceptionInTail == \E i \in 1 .. Len(stream.tail) : stream.tail[i] = Code

(* The error is raised: the exception of the server if the tail has one, else
   (raise_reader_error) an interrupt that came meanwhile, without KILL QUERY, or
   the error of the decoder. *)
RaiseReadError ==
    /\ pc = "drain" /\ ~DrainsOn
    /\ Ends(CASE ExceptionInTail -> "exception"
              [] ~ExceptionInTail /\ canceled -> "canceled"
              [] OTHER -> "error")
    /\ UNCHANGED <<attempts, drained, kind, count, given, body, aborted, killed,
                   posted, acked, applied>>

(***************************************************************************)
(* INSERT                                                                  *)
(***************************************************************************)
(* http_flush_insert, when the buffer is full or, with rows left, at the end;
   the server may insert the rows whether or not its answer arrives, and not
   at all if the request is lost or refused. *)
PostRows == LET n == posted + 1 IN
    /\ pc = "rows" /\ n <= MaxRows
    /\ posted' = n
    /\ \E a \in ShortAnswers :
        /\ StreamBegin(a, FALSE, TRUE)
        /\ applied' \in CASE a.code = "error" -> {applied}
                          [] a.end = "complete" -> {Append(applied, n)}
                          [] OTHER -> {applied, Append(applied, n)}
    /\ pc' = "post"
    /\ UNCHANGED <<attempts, drained, canceled, kind, count, given, outcome, aborted,
                   killed, acked>>

(* Mutant: an INSERT is repeated like a query. *)
PostedAgain ==
    /\ pc = "post" /\ stream.done
    /\ \/ /\ stream.status = "ok"
          /\ acked' = posted
          /\ pc' = "rows"
          /\ stream' = NoStream /\ wire' = NoWire
          /\ UNCHANGED <<canceled, given, body, outcome, aborted, killed, posted, applied>>
       \/ /\ stream.status = "transport"
          /\ applied' = Append(applied, posted)
          /\ StreamBegin([NoWire EXCEPT !.end = "complete"], FALSE, TRUE)
          /\ UNCHANGED <<pc, canceled, given, outcome, aborted, killed, posted, acked>>
    /\ UNCHANGED <<attempts, drained, kind, count>>

(* http_simple_insert looks at the status; nothing is tried again. *)
Posted ==
    /\ pc = "post" /\ stream.done
    /\ \/ /\ stream.status = "ok"
          /\ acked' = posted
          /\ pc' = "rows"
          /\ stream' = NoStream /\ wire' = NoWire
          /\ UNCHANGED <<canceled, given, body, outcome, aborted, killed, posted, applied>>
       \/ /\ stream.status = "canceled"
          /\ KillQuery
          /\ UNCHANGED canceled
       \/ /\ stream.status \in {"error", "transport"}
          /\ Ends("error")
          /\ UNCHANGED <<given, body, aborted, killed, posted, acked, applied>>
    /\ UNCHANGED <<attempts, drained, kind, count>>

(* The INSERT is over, or an error elsewhere ends it. *)
EndInsert(o) ==
    /\ pc = "rows"
    /\ o \in {"ok", "error"}
    /\ Ends(o)
    /\ UNCHANGED <<attempts, drained, kind, count, given, body, aborted, killed, posted,
                   acked, applied>>

(***************************************************************************)
(* The specification.                                                      *)
(***************************************************************************)
Pump == PumpChunk \/ PumpDone \/ PumpCanceled

Read ==
    \/ \E bad \in BOOLEAN : TakeChunk(bad)
    \/ NextChunk \/ NextPumped \/ EndOfBody \/ EndDescribe \/ ReadCanceled
    \/ ReadErrorCanceled \/ ReadErrorOther \/ ReadTail \/ TailPumped \/ RaiseReadError

Request == ReadErrorBody \/ Retry \/ OpenCursor \/ ReportFailure \/ KillDone \/ Posted

Done == pc = "idle" /\ count = MaxStatements /\ UNCHANGED vars

Next ==
    \/ \E k \in {"query", "describe"} : StartStatement(k)
    \/ CancelRequest
    \/ Pump \/ Read \/ Request
    \/ CloseEarly
    \/ PostRows
    \/ \E o \in {"ok", "error"} : EndInsert(o)
    \/ Done

(* The session goes on while it can.  A request that nobody can cancel, KILL
   QUERY, is answered or fails; of other requests nothing is assumed, but the
   progress callback does run. *)
Fairness ==
    /\ WF_vars(Read)
    /\ WF_vars(Request)
    /\ WF_vars(PumpCanceled)
    /\ WF_vars(pc = "kill" /\ PumpDone)

Spec == Init /\ [][Next]_vars /\ Fairness

(***************************************************************************)
(* Properties.                                                             *)
(***************************************************************************)
(* The decoder is given the body of one response from its start, in order and
   without loss or repetition, however curl cuts it into chunks, pauses and
   requests that were tried again before (write_callback, pump,
   ch_http_stream_next_chunk). *)
GivenInOrder ==
    pc # "idle" /\ kind # "insert" =>
        Len(given) <= Len(body.todo) /\ given = SubSeq(body.todo, 1, Len(given))

(* A query that ends without an error has been given its whole result: no cut
   connection, cancellation or late exception is taken for the end. *)
NoSilentTruncation ==
    kind = "query" /\ outcome = "ok" =>
        /\ given = body.todo
        /\ Decodes(given)
        /\ body.end = "complete" /\ body.code = "ok"

(* "Either way it ends the body, so drain what little remains first": an
   exception that comes after the first rows is reported as that exception and
   not as a decoding error, if its text, from Code to the end of the body, fits
   the tail and the decoder stopped at it.  Takes the chunking, the tail and the
   bounded drain together. *)
LateExceptionReported ==
    /\ kind = "query" /\ outcome = "error"
    /\ body.code = "ok" /\ body.end = "complete"
    /\ ~Decodes(given)
    => \A i \in 1 .. Len(body.todo) :
            body.todo[i] = Code => Len(body.todo) - i + 1 > TailSize

(* A statement whose transfer was aborted by a cancellation while it was sent
   or read has asked the server to kill that request, and is reported as
   cancelled and not as a communication or decoding error, nor tried again
   (report_http_stream_query_failure, http_native_read_error,
   http_simple_insert).  Not so when it is aborted while the rest of a body that
   could not be decoded is read. *)
AbortedIsKilled ==
    pc = "idle" /\ aborted \in {"begin", "errbody", "next", "post"} =>
        killed /\ outcome = "canceled"

(* An INSERT inserts each buffer of rows at most once and in order; what was
   acknowledged is there, and at most the POST under way is in doubt, so that
   one reported as done is there completely. *)
InsertAccounted ==
    /\ \A i \in 1 .. Len(applied) : applied[i] = i
    /\ Len(applied) \in {acked, posted}
    /\ posted - acked \in {0, 1}
    /\ kind = "insert" /\ outcome = "ok" => Len(applied) = posted

(* A cancelled statement ends although the server never answers its request,
   provided that KILL QUERY is answered. *)
CanceledStatementEnds == canceled ~> pc \in {"idle", "rows"}

(***************************************************************************)
(* The inductive invariant.                                                *)
(***************************************************************************)
Streams == [status : {"none", "ok", "error", "canceled", "transport"},
            buf : Seq(Units), tail : Seq(Units), streaming : BOOLEAN,
            paused : BOOLEAN, done : BOOLEAN, cancel : BOOLEAN]
Responses == [todo : Seq(Units), end : {"complete", "cut"}, code : {"ok", "error"}]

HttpTypes ==
    /\ TypeOK
    /\ stream \in Streams /\ wire \in Responses /\ body \in Responses
    /\ posted \in Nat /\ acked \in Nat /\ applied \in Seq(Nat)
    /\ canceled \in BOOLEAN /\ killed \in BOOLEAN

(* What the status and the flags of a stream say about its transfer. *)
StatusMeans ==
    /\ stream.paused => ~stream.done
    /\ ~stream.done => stream.status \in {wire.code} \cup
            IF stream.paused THEN {} ELSE {"none"}
    /\ stream.done => \/ stream.status \in {"canceled", "transport"}
                      \/ /\ stream.status = wire.code
                         /\ wire.todo = <<>> /\ wire.end = "complete"
    /\ stream.status = "transport" => wire.end = "cut"
    /\ stream.status = "canceled" => canceled

(* The stages of a query's own transfer, and those before it is given up. *)
Decoding == {"begin", "errbody", "open", "next", "readerror"}
Reading == Decoding \cup {"drain", "tail"}

(* Units of the body that have arrived. *)
Received == Len(body.todo) - Len(wire.todo)

(* s is what b has after its first k units. *)
Within(b, k, s) ==
    /\ k + Len(s) <= Len(b)
    /\ \A i \in 1 .. Len(s) : s[i] = b[k + i]

(* Every unit of the body is with the decoder, in the buffer or on the wire,
   in this order. *)
BodyAccounted ==
    /\ pc # "idle" /\ kind # "insert" => Within(body.todo, 0, given)
    /\ pc \in Reading =>
        /\ kind # "insert"
        /\ body.end = wire.end /\ body.code = wire.code
        /\ Received >= 0 /\ Within(body.todo, Received, wire.todo)
    /\ pc \in Decoding =>
        /\ Within(body.todo, Len(given), stream.buf)
        /\ Len(given) + Len(stream.buf) = Received
        /\ drained = 0

(* The tail is the end of what has arrived; what was drained came after what
   the decoder was given. *)
TailAccounted ==
    /\ pc \in Reading \ {"errbody"} =>
        /\ stream.streaming
        /\ Received - Len(stream.tail) >= 0
        /\ Within(body.todo, Received - Len(stream.tail), stream.tail)
        /\ Len(stream.tail) \in {TailSize, Received}
    /\ pc = "drain" => Len(given) + drained <= Received
    /\ pc = "tail" => Len(given) + drained + Len(stream.buf) <= Received

(* What each stage of a query knows. *)
StagesMean ==
    /\ pc \in {"begin", "errbody"} => given = <<>> /\ attempts < MaxAttempts
    /\ pc = "errbody" => wire.code = "error"
    /\ pc \in {"open", "next"} => wire.code = "ok" /\ Decodes(given)
    /\ pc = "open" => ~PumpError
    /\ pc = "kill" => killed /\ ~stream.cancel
    /\ pc # "idle" => outcome = "none"

(* Units that are no rows are an exception text, which has one Code. *)
TextShape(s) ==
    \A i \in 1 .. Len(s) : s[i] \notin 1 .. MaxRows =>
        \E j \in 1 .. i : s[j] = Code /\ \A k \in 1 .. Len(s) : s[k] = Code => k = j

ExceptionsHaveShape == pc \in Reading => TextShape(body.todo)

(* An aborted transfer is on its way to KILL QUERY. *)
AbortPending ==
    pc # "idle" /\ aborted \in {"begin", "errbody", "next", "post"} =>
        \/ pc = "kill"
        \/ pc \in {aborted, "readerror"} /\ stream.done /\ stream.status = "canceled"

(* Where an INSERT stands: only the POST under way is in doubt, and not that
   once the server has answered with success. *)
InsertPending ==
    /\ pc \in Reading => posted = 0 /\ acked = 0
    /\ pc = "rows" => kind = "insert" /\ acked = posted
    /\ pc = "post" =>
        /\ kind = "insert" /\ posted = acked + 1 /\ wire.todo = <<>>
        /\ wire.code = "ok" /\ wire.end = "complete" => Len(applied) = posted

HttpInv ==
    /\ HttpTypes /\ StatusMeans
    /\ BodyAccounted /\ TailAccounted
    /\ StagesMean /\ ExceptionsHaveShape
    /\ AbortPending /\ InsertPending
    /\ NoSilentTruncation
    /\ LateExceptionReported
    /\ AbortedIsKilled
    /\ InsertAccounted
=============================================================================
