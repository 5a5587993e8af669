-------------------------- MODULE HttpDriverProofs --------------------------
(***************************************************************************)
(* Proofs about statements over the HTTP driver, for results and texts of  *)
(* any length and a tail of any size.  The invariant follows every unit of *)
(* a response: with the decoder, in the buffer or on the wire, and the     *)
(* last ones in the tail as well.                                          *)
(***************************************************************************)
EXTENDS HttpDriver, Integers, SequenceTheorems, TLAPS

(***************************************************************************)
(* Pieces of a sequence.                                                   *)
(***************************************************************************)
(* Adjacent pieces make one; *)
LEMMA WithinConcat ==
  ASSUME NEW U, NEW b \in Seq(U), NEW s \in Seq(U), NEW t \in Seq(U), NEW k \in Nat,
         Within(b, k, s), Within(b, k + Len(s), t)
  PROVE  /\ Within(b, k, s \o t)
         /\ s \o t \in Seq(U) /\ Len(s \o t) = Len(s) + Len(t)
  <1>1. /\ s \o t \in Seq(U) /\ Len(s \o t) = Len(s) + Len(t)
        /\ \A i \in 1 .. Len(s) + Len(t) :
             (s \o t)[i] = IF i <= Len(s) THEN s[i] ELSE t[i - Len(s)]
    BY ConcatProperties
  <1>2. Len(s) \in Nat /\ Len(t) \in Nat /\ Len(b) \in Nat
    BY LenProperties
  <1>3. k + (Len(s) + Len(t)) <= Len(b)
    BY <1>2 DEF Within
  <1>4. ASSUME NEW i \in 1 .. Len(s) + Len(t) PROVE (s \o t)[i] = b[k + i]
    <2>1. CASE i <= Len(s)
      BY <1>1, <1>2, <2>1 DEF Within
    <2>2. CASE ~(i <= Len(s))
      <3>1. i - Len(s) \in 1 .. Len(t) /\ (k + Len(s)) + (i - Len(s)) = k + i
        BY <1>2, <2>2
      <3>2. t[i - Len(s)] = b[(k + Len(s)) + (i - Len(s))]
        BY <3>1 DEF Within
      <3> QED BY <1>1, <2>2, <3>1, <3>2
    <2> QED BY <2>1, <2>2
  <1> QED BY <1>1, <1>3, <1>4 DEF Within

(* a piece can be cut in two; *)
LEMMA WithinSplit ==
  ASSUME NEW U, NEW b \in Seq(U), NEW t \in Seq(U), NEW k \in Nat, Within(b, k, t),
         NEW n \in 1 .. Len(t)
  PROVE  /\ SubSeq(t, 1, n) \in Seq(U) /\ Len(SubSeq(t, 1, n)) = n
         /\ SubSeq(t, n + 1, Len(t)) \in Seq(U)
         /\ Len(SubSeq(t, n + 1, Len(t))) = Len(t) - n
         /\ Within(b, k, SubSeq(t, 1, n))
         /\ Within(b, k + n, SubSeq(t, n + 1, Len(t)))
  <1>0. Len(t) \in Nat /\ Len(b) \in Nat /\ \A i \in 1 .. Len(t) : t[i] \in U
    BY LenProperties
  <1> DEFINE f == SubSeq(t, 1, n)
             g == SubSeq(t, n + 1, Len(t))
  <1>1. f \in Seq(U) /\ Len(f) = n /\ \A i \in 1 .. n : f[i] = t[i]
    <2>1. \A i \in 1 .. n : t[i] \in U
      BY <1>0
    <2> QED BY <1>0, <2>1, SubSeqProperties
  <1>2. /\ g \in Seq(U) /\ Len(g) = Len(t) - n
        /\ \A i \in 1 .. Len(t) - n : g[i] = t[n + i]
    <2>1. \A i \in n + 1 .. Len(t) : t[i] \in U
      BY <1>0
    <2>2. /\ g \in Seq(U) /\ Len(g) = IF n + 1 <= Len(t) THEN Len(t) - (n + 1) + 1 ELSE 0
          /\ \A i \in 1 .. Len(t) - (n + 1) + 1 : g[i] = t[(n + 1) + i - 1]
      BY <1>0, <2>1, SubSeqProperties
    <2> QED BY <1>0, <2>2
  <1>3. Within(b, k, f)
    BY <1>0, <1>1 DEF Within
  <1>4. Within(b, k + n, g)
    <2>1. (k + n) + Len(g) <= Len(b)
      BY <1>0, <1>2 DEF Within
    <2>2. ASSUME NEW i \in 1 .. Len(g) PROVE g[i] = b[(k + n) + i]
      <3>1. n + i \in 1 .. Len(t) /\ (k + n) + i = k + (n + i)
        BY <1>0, <1>2
      <3> QED BY <1>2, <3>1 DEF Within
    <2> QED BY <2>1, <2>2 DEF Within
  <1> QED BY <1>1, <1>2, <1>3, <1>4

(* What is left of a piece after its first n units. *)
LEMMA WithinRest ==
  ASSUME NEW U, NEW b \in Seq(U), NEW t \in Seq(U), NEW k \in Nat, Within(b, k, t),
         NEW n \in 1 .. Len(t), NEW g, g = SubSeq(t, n + 1, Len(t))
  PROVE  g \in Seq(U) /\ Len(g) = Len(t) - n /\ Within(b, k + n, g)
  BY WithinSplit

LastOf(s, N) == SubSeq(s, IF Len(s) > N THEN Len(s) - N + 1 ELSE 1, Len(s))

(* t is the last N of the first r units of b, or all of them. *)
TailOf(b, r, t, N) ==
    /\ Len(t) <= N /\ Len(t) \in {N, r}
    /\ r - Len(t) >= 0 /\ Within(b, r - Len(t), t)

(* The end of a piece is the end of the body so far. *)
LEMMA LastOfPiece ==
  ASSUME NEW U, NEW b \in Seq(U), NEW s \in Seq(U), NEW k \in Nat, Within(b, k, s),
         NEW N \in Nat \ {0}, k = 0 \/ Len(s) >= N, Len(s) >= 1,
         NEW R, R = k + Len(s), NEW u, u = LastOf(s, N)
  PROVE  TailOf(b, R, u, N)
  <1>1. Len(s) \in Nat
    BY LenProperties
  <1>2. CASE Len(s) > N
    <2>1. Len(s) - N \in 1 .. Len(s)
      BY <1>1, <1>2
    <2>2. PICK m \in 1 .. Len(s) : m = Len(s) - N
      BY <2>1
    <2>3. u = SubSeq(s, m + 1, Len(s))
      BY <1>1, <1>2, <2>2 DEF LastOf
    <2>4. u \in Seq(U)
      BY <2>3, WithinRest
    <2>5. Len(u) = Len(s) - m
      BY <2>3, WithinRest
    <2>6. Within(b, k + m, u)
      BY <2>3, WithinRest
    <2>7. Len(u) = N /\ R - Len(u) = k + m /\ k + m >= 0
      BY <1>1, <2>2, <2>5
    <2>8. Within(b, R - Len(u), u)
      BY <2>6, <2>7
    <2>9. Len(u) <= N /\ R - Len(u) >= 0
      BY <2>7
    <2> QED BY <2>7, <2>8, <2>9 DEF TailOf
  <1>3. CASE ~(Len(s) > N)
    <2>1. Len(s) \in 1 .. Len(s)
      BY <1>1
    <2>2. u = SubSeq(s, 1, Len(s))
      BY <1>3 DEF LastOf
    <2>3. u \in Seq(U) /\ Len(u) = Len(s) /\ Within(b, k, u)
      BY <2>1, <2>2, WithinSplit
    <2>4. Len(u) <= N /\ Len(u) \in {N, R} /\ R - Len(u) = k
      BY <1>1, <1>3, <2>3
    <2>5. Within(b, R - Len(u), u) /\ R - Len(u) >= 0
      BY <2>3, <2>4
    <2> QED BY <2>4, <2>5 DEF TailOf
  <1> QED BY <1>2, <1>3

(* the last units of what has arrived stay the last ones with a chunk added; *)
LEMMA TailMoves ==
  ASSUME NEW U, NEW b \in Seq(U), NEW t \in Seq(U), NEW c \in Seq(U),
         NEW r \in Nat, NEW N \in Nat \ {0}, NEW u, u = LastOf(t \o c, N),
         Len(c) >= 1, TailOf(b, r, t, N), Within(b, r, c)
  PROVE  TailOf(b, r + Len(c), u, N)
  <1>a. /\ Len(t) <= N /\ Len(t) \in {N, r} /\ r - Len(t) >= 0
        /\ Within(b, r - Len(t), t) /\ Within(b, r, c)
    BY DEF TailOf
  <1>0. Len(t) \in Nat /\ Len(c) \in Nat /\ Len(b) \in Nat
    BY LenProperties
  <1>1. PICK k \in Nat : k = r - Len(t) /\ k + Len(t) = r
    BY <1>0, <1>a
  <1>2. Within(b, k, t) /\ Within(b, k + Len(t), c)
    BY <1>1, <1>a
  <1>3. PICK all \in Seq(U) : all = t \o c
    BY ConcatProperties
  <1>4. Within(b, k, all) /\ Len(all) = Len(t) + Len(c)
    BY <1>1, <1>2, <1>3, WithinConcat
  <1>5. /\ k = 0 \/ Len(all) >= N
        /\ Len(all) >= 1 /\ r + Len(c) = k + Len(all)
    BY <1>0, <1>1, <1>4, <1>a
  <1>6. u = LastOf(all, N)
    BY <1>3, <1>a
  <1>7. PICK R : R = r + Len(c)
    OBVIOUS
  <1>8. R = k + Len(all)
    BY <1>5, <1>7
  <1>9. Within(b, k, all)
    BY <1>4
  <1>10. TailOf(b, R, u, N)
    BY <1>5, <1>6, <1>8, <1>9, LastOfPiece
  <1> QED BY <1>7, <1>10

(* and a piece from the start is a prefix. *)
LEMMA WithinIsPrefix ==
  ASSUME NEW U, NEW b \in Seq(U), NEW s \in Seq(U), Within(b, 0, s)
  PROVE  /\ Len(s) <= Len(b) /\ s = SubSeq(b, 1, Len(s))
         /\ Len(s) = Len(b) => s = b
  <1>0. Len(s) \in Nat /\ Len(b) \in Nat /\ \A i \in 1 .. Len(b) : b[i] \in U
    BY LenProperties
  <1>1. Len(s) <= Len(b) /\ \A i \in 1 .. Len(s) : s[i] = b[i]
    BY <1>0 DEF Within
  <1>2. /\ SubSeq(b, 1, Len(s)) \in Seq(U) /\ Len(SubSeq(b, 1, Len(s))) = Len(s)
        /\ \A i \in 1 .. Len(s) : SubSeq(b, 1, Len(s))[i] = b[i]
    <2>1. \A i \in 1 .. Len(s) : b[i] \in U
      BY <1>0, <1>1
    <2> QED BY <1>0, <2>1, SubSeqProperties
  <1>3. s = SubSeq(b, 1, Len(s))
    BY <1>1, <1>2, SeqEqual
  <1>4. Len(s) = Len(b) => s = b
    BY <1>1, SeqEqual
  <1> QED BY <1>1, <1>3, <1>4

(* The last units are no more than asked for. *)
LEMMA LastOfType ==
  ASSUME NEW U, NEW s \in Seq(U), NEW N \in Nat \ {0}
  PROVE  LastOf(s, N) \in Seq(U) /\ Len(LastOf(s, N)) <= N
  <1>0. Len(s) \in Nat /\ \A i \in 1 .. Len(s) : s[i] \in U
    BY LenProperties
  <1>1. CASE Len(s) > N
    <2>0. PICK l \in Nat : l = Len(s)
      BY <1>0
    <2>a. l - N + 1 \in Nat /\ l - N + 1 >= 1 /\ l - N + 1 <= l
      BY <1>1, <2>0
    <2>1. PICK m \in Nat : m = Len(s) - N + 1 /\ m >= 1 /\ m <= Len(s)
      BY <2>0, <2>a
    <2>2. \A i \in m .. Len(s) : s[i] \in U
      BY <1>0, <2>1
    <2>3. /\ SubSeq(s, m, Len(s)) \in Seq(U)
          /\ Len(SubSeq(s, m, Len(s))) = IF m <= Len(s) THEN Len(s) - m + 1 ELSE 0
      BY <1>0, <2>1, <2>2, SubSeqProperties
    <2>4. LastOf(s, N) = SubSeq(s, m, Len(s))
      BY <1>1, <2>1 DEF LastOf
    <2> QED BY <1>0, <1>1, <2>1, <2>3, <2>4
  <1>2. CASE ~(Len(s) > N)
    <2>1. /\ SubSeq(s, 1, Len(s)) \in Seq(U)
          /\ Len(SubSeq(s, 1, Len(s))) = IF 1 <= Len(s) THEN Len(s) - 1 + 1 ELSE 0
      BY <1>0, SubSeqProperties
    <2>2. LastOf(s, N) = SubSeq(s, 1, Len(s))
      BY <1>2 DEF LastOf
    <2> QED BY <1>0, <1>2, <2>1, <2>2
  <1> QED BY <1>1, <1>2

(***************************************************************************)
(* The server's answers.                                                   *)
(***************************************************************************)
(* Rows and then an exception text, either perhaps empty, have the shape the
   invariant speaks of. *)
LEMMA RowsThenText ==
  ASSUME NEW n \in 0 .. MaxRows, NEW e \in Nat
  PROVE  /\ Rows(n) \o Text(e) \in Seq(Units) /\ TextShape(Rows(n) \o Text(e))
         /\ Text(e) \in Seq(Units) /\ TextShape(Text(e))
  <1> USE BoundAssumption
  <1> DEFINE r == Rows(n)
             t == Text(e)
             s == r \o t
  <1>0. n \in Nat /\ Units = (1 .. MaxRows) \cup {0, MaxRows + 1}
        /\ Code = 0 /\ More = MaxRows + 1
    BY DEF Units, Code, More
  <1>1. r \in Seq(Units) /\ Len(r) = n /\ \A i \in 1 .. n : r[i] = i
    <2>1. \A i \in 1 .. n : i \in Units
      BY <1>0
    <2> QED BY <1>0, <2>1 DEF Rows
  <1>2. /\ t \in Seq(Units) /\ Len(t) = e
        /\ \A i \in 1 .. e : t[i] = IF i = 1 THEN 0 ELSE MaxRows + 1
    <2>1. \A i \in 1 .. e : (IF i = 1 THEN Code ELSE More) \in Units
      BY <1>0
    <2> QED BY <1>0, <2>1 DEF Text
  <1> HIDE DEF r, t
  <1>3. /\ s \in Seq(Units) /\ Len(s) = n + e
        /\ \A i \in 1 .. n + e : s[i] = IF i <= n THEN r[i] ELSE t[i - n]
    <2>1. /\ s \in Seq(Units) /\ Len(s) = Len(r) + Len(t)
          /\ \A i \in 1 .. Len(r) + Len(t) :
                s[i] = IF i <= Len(r) THEN r[i] ELSE t[i - Len(r)]
      BY <1>1, <1>2, ConcatProperties
    <2> HIDE DEF s
    <2> QED BY <1>1, <1>2, <2>1
  <1>4. /\ \A i \in 1 .. n : s[i] = i
        /\ \A i \in n + 1 .. n + e : s[i] = IF i = n + 1 THEN 0 ELSE MaxRows + 1
    <2>1. ASSUME NEW i \in 1 .. n PROVE s[i] = i
      BY <1>0, <1>1, <1>3
    <2>2. ASSUME NEW i \in n + 1 .. n + e
          PROVE  s[i] = IF i = n + 1 THEN 0 ELSE MaxRows + 1
      <3>1. i \in 1 .. n + e /\ ~(i <= n) /\ i - n \in 1 .. e
            /\ (i - n = 1 <=> i = n + 1)
        BY <1>0
      <3> QED BY <1>2, <1>3, <3>1
    <2> QED BY <2>1, <2>2
  <1> HIDE DEF s
  <1>5. TextShape(s)
    <2> SUFFICES ASSUME NEW i \in 1 .. Len(s), s[i] \notin 1 .. MaxRows
                 PROVE  \E j \in 1 .. i : /\ s[j] = Code
                          /\ \A k \in 1 .. Len(s) : s[k] = Code => k = j
      BY DEF TextShape
    <2>1. i \in n + 1 .. n + e
      BY <1>0, <1>3, <1>4
    <2>2. n + 1 \in 1 .. i /\ s[n + 1] = Code
      BY <1>0, <1>4, <2>1
    <2>3. ASSUME NEW k \in 1 .. Len(s), s[k] = Code PROVE k = n + 1
      BY <1>0, <1>3, <1>4, <2>3
    <2> QED BY <2>2, <2>3
  <1>6. TextShape(t)
    <2> SUFFICES ASSUME NEW i \in 1 .. Len(t), t[i] \notin 1 .. MaxRows
                 PROVE  \E j \in 1 .. i : /\ t[j] = Code
                          /\ \A k \in 1 .. Len(t) : t[k] = Code => k = j
      BY DEF TextShape
    <2>1. 1 \in 1 .. i /\ t[1] = Code
      BY <1>0, <1>2
    <2>2. ASSUME NEW k \in 1 .. Len(t), t[k] = Code PROVE k = 1
      BY <1>0, <1>2, <2>2
    <2> QED BY <2>1, <2>2
  <1> QED BY <1>2, <1>3, <1>5, <1>6 DEF s, r, t

(* What a response to a query may be. *)
LEMMA AnswersFacts ==
  ASSUME NEW a \in Answers
  PROVE  a \in Responses /\ TextShape(a.todo)
  <1>1. PICK n \in 0 .. MaxRows, e \in 0 .. MaxExc, x \in {"complete", "cut"} :
          \/ a = [todo |-> Rows(n) \o Text(e), end |-> x, code |-> "ok"]
          \/ a = [todo |-> Text(e), end |-> x, code |-> "error"]
    BY DEF Answers
  <1>2. e \in Nat
    BY BoundAssumption
  <1>3. CASE a = [todo |-> Rows(n) \o Text(e), end |-> x, code |-> "ok"]
    <2>1. a.todo = Rows(n) \o Text(e)
      BY <1>3
    <2>2. a.todo \in Seq(Units) /\ TextShape(a.todo)
      BY <1>2, <2>1, RowsThenText
    <2> QED BY <1>3, <2>1, <2>2 DEF Responses
  <1>4. CASE a = [todo |-> Text(e), end |-> x, code |-> "error"]
    <2>1. a.todo = Text(e)
      BY <1>4
    <2>2. a.todo \in Seq(Units) /\ TextShape(a.todo)
      BY <1>2, <2>1, RowsThenText
    <2> QED BY <1>4, <2>1, <2>2 DEF Responses
  <1> QED BY <1>1, <1>3, <1>4

(* What a response without a body may be. *)
LEMMA ShortAnswersFacts ==
  ASSUME NEW a \in ShortAnswers
  PROVE  a \in Responses /\ a.todo = <<>>
  <1>1. PICK x \in {"complete", "cut"}, c \in {"ok", "error"} :
          a = [todo |-> <<>>, end |-> x, code |-> c]
    BY DEF ShortAnswers
  <1>2. <<>> \in Seq(Units)
    BY EmptySeq
  <1> QED BY <1>1, <1>2 DEF Responses

(***************************************************************************)
(* Steps that end a statement or start a request.                          *)
(***************************************************************************)
LEMMA EmptyStream ==
  /\ NoStream \in Streams /\ NoWire \in Responses
  /\ NoStream.status = "none" /\ NoStream.buf = <<>> /\ NoStream.tail = <<>>
  /\ NoStream.paused = FALSE /\ NoStream.done = FALSE /\ NoStream.cancel = FALSE
  /\ NoWire.todo = <<>> /\ NoWire.end = "complete" /\ NoWire.code = "ok"
  <1>1. <<>> \in Seq(Units)
    BY EmptySeq
  <1> QED BY <1>1 DEF NoStream, NoWire, Streams, Responses

(* While a statement goes on, nothing is claimed of its result. *)
LEMMA GoesOn ==
  ASSUME HttpInv, pc' # "idle", outcome' = "none",
         UNCHANGED <<posted, acked, applied>>
  PROVE  /\ NoSilentTruncation' /\ LateExceptionReported'
         /\ AbortedIsKilled' /\ InsertAccounted'
  BY DEF HttpInv, NoSilentTruncation, LateExceptionReported, AbortedIsKilled,
         InsertAccounted

(* A statement that ends as it may leaves nothing to account for. *)
LEMMA EndsSafe ==
  ASSUME HttpInv, NEW o \in {"ok", "closed", "error", "exception", "canceled"}, Ends(o),
         UNCHANGED <<drained, kind, given, body, aborted, killed, posted, acked, applied>>,
         attempts' \in 0 .. MaxAttempts,
         NoSilentTruncation', LateExceptionReported', AbortedIsKilled',
         kind = "insert" /\ o = "ok" => Len(applied) = posted
  PROVE  HttpInv'
  <1>1. /\ pc' = "idle" /\ canceled' = FALSE /\ stream' = NoStream /\ wire' = NoWire
        /\ outcome' = o
    BY DEF Ends
  <1>2. HttpTypes'
    <2>1. /\ stream' \in Streams /\ wire' \in Responses /\ stream'.tail = <<>>
          /\ Len(<<>>) = 0
      BY <1>1, EmptyStream
    <2>2. body' \in Responses /\ posted' \in Nat /\ acked' \in Nat /\ applied' \in Seq(Nat)
          /\ canceled' \in BOOLEAN /\ killed' \in BOOLEAN
      BY <1>1 DEF HttpInv, HttpTypes
    <2>3. TypeOK'
      BY <1>1, <2>1, BoundAssumption DEF HttpInv, HttpTypes, TypeOK, Stages, Streams, Responses
    <2> QED BY <2>1, <2>2, <2>3 DEF HttpTypes
  <1>3. StatusMeans'
    BY <1>1, EmptyStream DEF StatusMeans
  <1>4. BodyAccounted' /\ TailAccounted' /\ StagesMean' /\ ExceptionsHaveShape'
        /\ AbortPending' /\ InsertPending'
    BY <1>1 DEF BodyAccounted, TailAccounted, StagesMean, ExceptionsHaveShape,
                AbortPending, InsertPending, Reading, Decoding
  <1>5. InsertAccounted'
    BY <1>1 DEF HttpInv, InsertAccounted
  <1> QED BY <1>2, <1>3, <1>4, <1>5 DEF HttpInv

(* A request for a query starts from nothing. *)
LEMMA BeginSafe ==
  ASSUME HttpInv, NEW a \in Answers, StreamBegin(a, TRUE, TRUE), pc' = "begin",
         given' = <<>>, drained' = 0, attempts' \in 0 .. MaxAttempts - 1,
         kind' \in {"query", "describe"}, outcome' = "none", UNCHANGED canceled,
         aborted' \notin {"begin", "errbody", "next", "post"},
         posted' = 0, acked' = 0, applied' \in Seq(Nat), killed' \in BOOLEAN,
         InsertAccounted'
  PROVE  HttpInv'
  <1>0. a \in Responses /\ TextShape(a.todo) /\ Len(a.todo) \in Nat /\ Len(<<>>) = 0
        /\ <<>> \in Seq(Units) /\ a.code \in {"ok", "error"} /\ a.todo \in Seq(Units)
    <2>1. a \in Responses /\ TextShape(a.todo)
      BY AnswersFacts
    <2>2. a.todo \in Seq(Units) /\ a.code \in {"ok", "error"}
      BY <2>1 DEF Responses
    <2> QED BY <2>1, <2>2, EmptySeq, LenProperties
  <1>1. /\ wire' = a /\ body' = a
        /\ stream' \in Streams /\ stream'.status = "none" /\ stream'.buf = <<>>
        /\ stream'.tail = <<>> /\ stream'.streaming = TRUE /\ ~stream'.paused
        /\ ~stream'.done
    BY <1>0 DEF StreamBegin, NoStream, Streams
  <1>2. HttpTypes'
    <2>1. TypeOK'
      BY <1>0, <1>1, BoundAssumption
      DEF TypeOK, Stages, Pumps, Streams, Responses, MaxAttempts
    <2> QED BY <1>0, <1>1, <2>1 DEF HttpInv, HttpTypes
  <1>3. StatusMeans'
    BY <1>1 DEF StatusMeans
  <1>4. Received' = 0 /\ Within(a.todo, 0, <<>>) /\ Within(a.todo, 0, a.todo)
    BY <1>0, <1>1 DEF Received, Within
  <1>5. BodyAccounted'
    BY <1>0, <1>1, <1>4 DEF BodyAccounted, Reading, Decoding
  <1>6. TailAccounted'
    BY <1>0, <1>1, <1>4 DEF TailAccounted, Reading, Decoding
  <1>7. StagesMean' /\ ExceptionsHaveShape' /\ AbortPending' /\ InsertPending'
    BY <1>0, <1>1 DEF StagesMean, ExceptionsHaveShape, AbortPending, InsertPending,
                      MaxAttempts
  <1>8. NoSilentTruncation' /\ LateExceptionReported' /\ AbortedIsKilled'
    BY DEF NoSilentTruncation, LateExceptionReported, AbortedIsKilled
  <1> QED BY <1>2, <1>3, <1>5, <1>6, <1>7, <1>8 DEF HttpInv

(* KILL QUERY leaves what is known of the statement alone. *)
LEMMA KillSafe ==
  ASSUME HttpInv, KillQuery, pc # "idle", UNCHANGED <<drained, canceled, kind>>,
         attempts' \in 0 .. MaxAttempts
  PROVE  HttpInv'
  <1>0. /\ wire' \in Responses /\ wire'.todo = <<>> /\ stream' = NoStream
        /\ stream' \in Streams /\ stream'.status = "none" /\ stream'.tail = <<>>
        /\ ~stream'.paused /\ ~stream'.done /\ ~stream'.cancel
        /\ killed' = TRUE /\ pc' = "kill"
    BY ShortAnswersFacts, EmptyStream DEF KillQuery
  <1>1. UNCHANGED <<given, body, outcome, aborted, posted, acked, applied>>
    BY DEF KillQuery
  <1>2. HttpTypes'
    <2>1. TypeOK'
      <3>1. Len(stream'.tail) <= TailSize
        BY <1>0, BoundAssumption
      <3> QED BY <1>0, <1>1, <3>1
          DEF HttpInv, HttpTypes, TypeOK, Stages, Pumps, Streams, Responses
    <2> QED BY <1>0, <1>1, <2>1 DEF HttpInv, HttpTypes
  <1>3. StatusMeans'
    BY <1>0 DEF StatusMeans
  <1>4. BodyAccounted' /\ TailAccounted' /\ ExceptionsHaveShape' /\ InsertPending'
    BY <1>0, <1>1
    DEF HttpInv, BodyAccounted, TailAccounted, ExceptionsHaveShape, InsertPending,
        Reading, Decoding
  <1>5. StagesMean' /\ AbortPending'
    BY <1>0, <1>1 DEF HttpInv, StagesMean, AbortPending
  <1>6. outcome' = "none"
    BY <1>1 DEF HttpInv, StagesMean
  <1>7. /\ NoSilentTruncation' /\ LateExceptionReported'
        /\ AbortedIsKilled' /\ InsertAccounted'
    BY <1>0, <1>1, <1>6, GoesOn
  <1> QED BY <1>2, <1>3, <1>4, <1>5, <1>7 DEF HttpInv

(* Outside the pumps and http_native_read_error no abort is pending. *)
LEMMA NoneAborted ==
  ASSUME HttpInv, pc # "idle", pc # "kill",
         \/ pc \in {"open", "drain", "rows"}
         \/ stream.status # "canceled"
  PROVE  aborted \notin {"begin", "errbody", "next", "post"}
  BY DEF HttpInv, AbortPending

(* The body has come to its end. *)
LEMMA EndOfBodySafe == ASSUME HttpInv, EndOfBody PROVE HttpInv'
  <1>1. /\ pc = "open" /\ kind = "query" /\ Ends("ok") /\ AtEnd
        /\ UNCHANGED <<attempts, drained, kind, given, body, aborted, killed,
                       posted, acked, applied>>
    BY DEF EndOfBody
  <1>2. /\ stream.buf = <<>> /\ stream.done /\ Decodes(given) /\ wire.code = "ok"
        /\ stream.status \notin {"canceled", "transport"}
    BY <1>1 DEF AtEnd, HttpInv, StagesMean, PumpError
  <1>3. wire.todo = <<>> /\ wire.end = "complete"
    BY <1>2 DEF HttpInv, StatusMeans
  <1>4. given \in Seq(Units) /\ body.todo \in Seq(Units) /\ Len(given) \in Nat
        /\ Len(body.todo) \in Nat /\ Len(<<>>) = 0 /\ attempts \in 0 .. MaxAttempts
    BY LenProperties DEF HttpInv, HttpTypes, TypeOK, Responses
  <1>5. /\ Within(body.todo, 0, given) /\ Len(given) + Len(stream.buf) = Received
        /\ body.end = "complete" /\ body.code = "ok"
    BY <1>1, <1>2, <1>3 DEF HttpInv, BodyAccounted, Reading, Decoding
  <1>6. Len(given) = Len(body.todo)
    BY <1>2, <1>3, <1>4, <1>5 DEF Received
  <1>7. given = body.todo
    BY <1>4, <1>5, <1>6, WithinIsPrefix
  <1>8. outcome' = "ok" /\ pc' = "idle"
    BY <1>1 DEF Ends
  <1>9. NoSilentTruncation' /\ LateExceptionReported' /\ AbortedIsKilled'
    <2>1. NoSilentTruncation'
      BY <1>1, <1>2, <1>5, <1>7 DEF NoSilentTruncation, Decodes
    <2>2. LateExceptionReported'
      BY <1>8 DEF LateExceptionReported
    <2>3. AbortedIsKilled'
      BY <1>1, NoneAborted DEF AbortedIsKilled
    <2> QED BY <2>1, <2>2, <2>3
  <1> QED BY <1>1, <1>4, <1>9, EndsSafe

(* A scan stops before the end of the body. *)
LEMMA CloseEarlySafe == ASSUME HttpInv, CloseEarly PROVE HttpInv'
  <1>1. PICK o \in {"closed", "canceled"} : Ends(o)
    BY DEF CloseEarly
  <1>2. /\ pc = "open" /\ attempts' \in 0 .. MaxAttempts
        /\ UNCHANGED <<drained, kind, given, body, aborted, killed, posted, acked,
                       applied>>
    BY DEF CloseEarly, HttpInv, HttpTypes, TypeOK
  <1>3. NoSilentTruncation' /\ LateExceptionReported' /\ AbortedIsKilled'
    BY <1>1, <1>2, NoneAborted
    DEF Ends, NoSilentTruncation, LateExceptionReported, AbortedIsKilled
  <1> QED BY <1>1, <1>2, <1>3, EndsSafe

(* KILL QUERY has been sent. *)
LEMMA KillDoneSafe == ASSUME HttpInv, KillDone PROVE HttpInv'
  <1>1. /\ Ends("canceled") /\ pc = "kill" /\ attempts' \in 0 .. MaxAttempts
        /\ UNCHANGED <<drained, kind, given, body, aborted, killed, posted, acked,
                       applied>>
    BY DEF KillDone, HttpInv, HttpTypes, TypeOK
  <1>2. NoSilentTruncation' /\ LateExceptionReported' /\ AbortedIsKilled'
    BY <1>1
    DEF HttpInv, StagesMean, Ends, NoSilentTruncation, LateExceptionReported,
        AbortedIsKilled
  <1> QED BY <1>1, <1>2, EndsSafe

(* An INSERT ends. *)
LEMMA EndInsertSafe ==
  ASSUME HttpInv, NEW o \in {"ok", "error"}, EndInsert(o) PROVE HttpInv'
  <1>1. /\ Ends(o) /\ pc = "rows" /\ attempts' \in 0 .. MaxAttempts
        /\ UNCHANGED <<drained, kind, given, body, aborted, killed, posted, acked,
                       applied>>
    BY DEF EndInsert, HttpInv, HttpTypes, TypeOK
  <1>2. kind = "insert" /\ Len(applied) = posted
    BY <1>1 DEF HttpInv, InsertPending, InsertAccounted
  <1>3. NoSilentTruncation' /\ LateExceptionReported' /\ AbortedIsKilled'
    BY <1>1, <1>2, NoneAborted
    DEF NoSilentTruncation, LateExceptionReported, AbortedIsKilled
  <1> QED BY <1>1, <1>2, <1>3, EndsSafe

(* The exception is found in the tail, wherever the chunks end, unless it is
   too long for it. *)
LEMMA RaiseReadErrorSafe == ASSUME HttpInv, RaiseReadError PROVE HttpInv'
  <1>1. PICK o \in {"exception", "canceled", "error"} :
          Ends(o) /\ (o = "error" => ~ExceptionInTail /\ ~canceled)
    BY DEF RaiseReadError
  <1>2. /\ pc = "drain" /\ ~DrainsOn /\ attempts' \in 0 .. MaxAttempts
        /\ UNCHANGED <<drained, kind, given, body, aborted, killed, posted, acked,
                       applied>>
    BY DEF RaiseReadError, HttpInv, HttpTypes, TypeOK
  <1>3. NoSilentTruncation' /\ AbortedIsKilled' /\ outcome' = o
    BY <1>1, <1>2, NoneAborted DEF Ends, NoSilentTruncation, AbortedIsKilled
  <1>4. LateExceptionReported'
    <2>1. SUFFICES ASSUME ~ExceptionInTail, ~canceled,
                          body.code = "ok", body.end = "complete", ~Decodes(given),
                          NEW j \in 1 .. Len(body.todo), body.todo[j] = Code
                   PROVE  Len(body.todo) - j + 1 > TailSize
      BY <1>1, <1>2, <1>3 DEF LateExceptionReported, Decodes
    <2>2. /\ kind # "insert" /\ Within(body.todo, 0, given) /\ TextShape(body.todo)
          /\ body.end = wire.end /\ Received >= 0
          /\ Received - Len(stream.tail) >= 0
          /\ Within(body.todo, Received - Len(stream.tail), stream.tail)
          /\ Len(stream.tail) \in {TailSize, Received}
          /\ Len(given) + drained <= Received
      BY <1>2 DEF HttpInv, BodyAccounted, TailAccounted, ExceptionsHaveShape, Reading,
                  Decoding
    <2>3. /\ Len(given) \in Nat /\ Len(body.todo) \in Nat /\ Len(stream.tail) \in Nat
          /\ Len(wire.todo) \in Nat /\ drained \in Nat
          /\ TailSize \in Nat /\ Received \in Int
      BY BoundAssumption, LenProperties
      DEF HttpInv, HttpTypes, TypeOK, Responses, Received
    <2>4. j \in 1 .. Len(given)
      <3>1. PICK i \in 1 .. Len(given) : given[i] \notin 1 .. MaxRows
        BY <2>1 DEF Decodes
      <3>2. i \in 1 .. Len(body.todo) /\ body.todo[i] \notin 1 .. MaxRows
        BY <2>2, <2>3, <3>1 DEF Within
      <3>3. PICK m \in 1 .. i : body.todo[m] = Code
              /\ \A k \in 1 .. Len(body.todo) : body.todo[k] = Code => k = m
        BY <2>2, <3>2 DEF TextShape
      <3>4. j = m
        BY <2>1, <3>3
      <3> QED BY <2>3, <3>3, <3>4
    <2>a. PICK B \in Nat, W \in Nat, T \in Nat, R \in Int :
            B = Len(body.todo) /\ W = Len(wire.todo) /\ T = Len(stream.tail)
            /\ R = Received
      BY <2>3
    <2>b. R = B - W /\ R - T >= 0 /\ T \in {TailSize, R} /\ j \in 1 .. B
      BY <2>1, <2>2, <2>a DEF Received
    <2>5. CASE stream.done
      <3>1. stream.status \notin {"canceled", "transport"}
        BY <2>1, <2>2 DEF HttpInv, StatusMeans
      <3>2. W = 0
        BY <2>5, <2>a, <3>1 DEF HttpInv, StatusMeans
      <3>3. SUFFICES ASSUME ~(B - j + 1 > TailSize) PROVE FALSE
        BY <2>a
      <3>4. /\ j - (R - T) \in 1 .. T
            /\ (R - T) + (j - (R - T)) = j
        BY <2>3, <2>b, <3>2, <3>3
      <3>5. Within(body.todo, R - T, stream.tail)
        BY <2>2, <2>a
      <3>6. stream.tail[j - (R - T)] = body.todo[j]
        BY <2>a, <3>4, <3>5 DEF Within
      <3> QED BY <2>1, <2>a, <3>4, <3>6 DEF ExceptionInTail
    <2>6. CASE drained >= TailSize
      <3>1. PICK G \in Nat : G = Len(given) /\ G + drained <= R /\ j <= G
        BY <2>2, <2>3, <2>4, <2>a
      <3>2. B - j + 1 > TailSize
        BY <2>3, <2>6, <2>b, <3>1
      <3> QED BY <2>a, <3>2
    <2> QED BY <1>2, <2>3, <2>5, <2>6 DEF DrainsOn
  <1> QED BY <1>1, <1>2, <1>3, <1>4, EndsSafe

(***************************************************************************)
(* Requests.                                                               *)
(***************************************************************************)
LEMMA TypesKept ==
  ASSUME HttpInv, pc' \in Stages, stream' \in Streams, Len(stream'.tail) <= TailSize,
         wire' \in Responses, body' \in Responses, attempts' \in 0 .. MaxAttempts,
         drained' \in Nat, kind' \in {"query", "describe", "insert"},
         canceled' \in BOOLEAN, given' \in Seq(Units), posted' \in Nat, acked' \in Nat,
         applied' \in Seq(Nat), UNCHANGED <<outcome, killed>>
  PROVE  HttpTypes'
  <1>1. TypeOK'
    BY DEF HttpInv, HttpTypes, TypeOK, Streams, Responses
  <1> QED BY <1>1 DEF HttpInv, HttpTypes

(* The types of the state. *)
LEMMA Known ==
  ASSUME HttpInv
  PROVE  /\ pc \in Stages /\ stream \in Streams /\ Len(stream.tail) <= TailSize
         /\ wire \in Responses /\ body \in Responses /\ attempts \in 0 .. MaxAttempts
         /\ drained \in Nat /\ kind \in {"query", "describe", "insert"}
         /\ canceled \in BOOLEAN /\ given \in Seq(Units) /\ posted \in Nat
         /\ acked \in Nat /\ applied \in Seq(Nat)
         /\ stream.buf \in Seq(Units) /\ stream.tail \in Seq(Units)
         /\ wire.todo \in Seq(Units) /\ body.todo \in Seq(Units)
  BY DEF HttpInv, HttpTypes, TypeOK, Streams, Responses

(* A statement starts. *)
LEMMA StartStatementSafe ==
  ASSUME HttpInv, NEW k \in {"query", "describe"}, StartStatement(k) PROVE HttpInv'
  <1>1. PICK a \in Answers : StreamBegin(a, TRUE, TRUE)
    BY DEF StartStatement
  <1>2. /\ pc' = "begin" /\ given' = <<>> /\ drained' = 0 /\ attempts' = 0
        /\ kind' \in {"query", "describe"} /\ outcome' = "none" /\ UNCHANGED canceled
        /\ aborted' = "none" /\ posted' = 0 /\ acked' = 0 /\ applied' = <<>>
        /\ killed' = FALSE
    BY DEF StartStatement
  <1>3. applied' \in Seq(Nat) /\ InsertAccounted' /\ attempts' \in 0 .. MaxAttempts - 1
    BY <1>2 DEF InsertAccounted, MaxAttempts
  <1> QED BY <1>1, <1>2, <1>3, BeginSafe

(* A request is sent again. *)
LEMMA RetrySafe == ASSUME HttpInv, Retry PROVE HttpInv'
  <1>1. PICK a \in Answers : StreamBegin(a, TRUE, TRUE)
    BY DEF Retry
  <1>2. /\ pc \in {"begin", "errbody"} /\ stream.status = "transport"
        /\ attempts + 1 < MaxAttempts /\ attempts' = attempts + 1 /\ pc' = "begin"
        /\ UNCHANGED <<drained, canceled, kind, given, outcome, aborted, killed,
                       posted, acked, applied>>
    BY DEF Retry, Begun
  <1>3. /\ given = <<>> /\ drained = 0 /\ kind # "insert" /\ outcome = "none"
        /\ posted = 0 /\ acked = 0
    BY <1>2 DEF HttpInv, StagesMean, BodyAccounted, InsertPending, Reading, Decoding
  <1>4. aborted \notin {"begin", "errbody", "next", "post"}
    BY <1>2, NoneAborted
  <1>5. /\ attempts' \in 0 .. MaxAttempts - 1 /\ applied' \in Seq(Nat)
        /\ killed' \in BOOLEAN /\ kind' \in {"query", "describe"}
    BY <1>2, <1>3 DEF HttpInv, HttpTypes, TypeOK, MaxAttempts
  <1>6. InsertAccounted'
    BY <1>2 DEF HttpInv, InsertAccounted
  <1> QED BY <1>1, <1>2, <1>3, <1>4, <1>5, <1>6, BeginSafe

(* The cursor is opened. *)
LEMMA OpenCursorSafe == ASSUME HttpInv, OpenCursor PROVE HttpInv'
  <1>1. /\ stream.status = "ok" /\ attempts' = attempts + 1 /\ pc' = "open"
        /\ pc \in {"begin", "errbody"} /\ (pc = "errbody" => stream.done)
        /\ UNCHANGED <<stream, wire, drained, canceled, kind, given, body, outcome,
                       aborted, killed, posted, acked, applied>>
    BY DEF OpenCursor, Begun, histVars
  <1>2. pc = "begin" /\ wire.code = "ok" /\ given = <<>>
    BY <1>1 DEF HttpInv, StatusMeans, StagesMean
  <1>3. Received' = Received
    BY <1>1 DEF Received
  <1>4. HttpTypes'
    <2>1. attempts' \in 0 .. MaxAttempts /\ pc' \in Stages
      BY <1>1, Known DEF HttpInv, StagesMean, MaxAttempts, Stages
    <2> QED BY <1>1, <2>1, Known, TypesKept
  <1>5. StatusMeans' /\ ExceptionsHaveShape' /\ InsertPending'
    BY <1>1, <1>2
    DEF HttpInv, StatusMeans, ExceptionsHaveShape, InsertPending, Reading, Decoding
  <1>6. BodyAccounted'
    BY <1>1, <1>2, <1>3 DEF HttpInv, BodyAccounted, Reading, Decoding
  <1>7. TailAccounted'
    BY <1>1, <1>2, <1>3 DEF HttpInv, TailAccounted, Reading, Decoding
  <1>8. StagesMean'
    BY <1>1, <1>2 DEF HttpInv, StagesMean, Decodes, PumpError
  <1>9. AbortPending'
    BY <1>1, <1>2, NoneAborted DEF AbortPending
  <1>10. outcome' = "none"
    BY <1>8, <1>1 DEF StagesMean
  <1> QED BY <1>1, <1>4, <1>5, <1>6, <1>7, <1>8, <1>9, <1>10, GoesOn DEF HttpInv

(* The body of an error response is read. *)
LEMMA ReadErrorBodySafe == ASSUME HttpInv, ReadErrorBody PROVE HttpInv'
  <1>1. /\ pc = "begin" /\ pc' = "errbody" /\ stream.status = "error"
        /\ stream' = [stream EXCEPT !.streaming = FALSE, !.paused = FALSE]
        /\ UNCHANGED <<wire, attempts, drained, canceled, kind, given, body, outcome,
                       aborted, killed, posted, acked, applied>>
    BY DEF ReadErrorBody, histVars
  <1>2. /\ stream' \in Streams /\ stream'.paused = FALSE
        /\ stream'.buf = stream.buf /\ stream'.tail = stream.tail
        /\ stream'.done = stream.done /\ stream'.status = stream.status
    BY <1>1, Known DEF Streams
  <1>3. wire.code = "error" /\ Received' = Received
    BY <1>1 DEF HttpInv, StatusMeans, Received
  <1>4. HttpTypes'
    BY <1>1, <1>2, Known, TypesKept DEF Stages, Pumps
  <1>5. StatusMeans'
    BY <1>1, <1>2 DEF HttpInv, StatusMeans
  <1>6. ExceptionsHaveShape' /\ InsertPending' /\ TailAccounted' /\ StagesMean'
    BY <1>1, <1>3
    DEF HttpInv, ExceptionsHaveShape, InsertPending, TailAccounted, StagesMean, Reading,
        Decoding
  <1>7. BodyAccounted'
    BY <1>1, <1>2, <1>3 DEF HttpInv, BodyAccounted, Reading, Decoding
  <1>8. AbortPending'
    BY <1>1, NoneAborted DEF AbortPending
  <1>9. outcome' = "none"
    BY <1>1, <1>6 DEF StagesMean
  <1> QED BY <1>1, <1>4, <1>5, <1>6, <1>7, <1>8, <1>9, GoesOn DEF HttpInv

(* A failed transfer is reported. *)
LEMMA ReportFailureSafe == ASSUME HttpInv, ReportFailure PROVE HttpInv'
  <1>1. /\ pc \in {"begin", "errbody"} /\ attempts' = attempts + 1
        /\ UNCHANGED <<drained, kind>>
    BY DEF ReportFailure, Begun
  <1>2. attempts' \in 0 .. MaxAttempts /\ given = <<>>
    BY <1>1, Known DEF HttpInv, StagesMean, MaxAttempts
  <1>3. CASE KillQuery /\ UNCHANGED canceled
    BY <1>1, <1>2, <1>3, KillSafe
  <1>4. CASE /\ stream.status \in {"transport", "error"} /\ Ends("error")
             /\ UNCHANGED <<given, body, aborted, killed, posted, acked, applied>>
    <2>1. NoSilentTruncation' /\ AbortedIsKilled'
      BY <1>1, <1>4, NoneAborted DEF Ends, NoSilentTruncation, AbortedIsKilled
    <2>2. LateExceptionReported'
      BY <1>2, <1>4 DEF LateExceptionReported, Decodes
    <2> QED BY <1>1, <1>2, <1>4, <2>1, <2>2, EndsSafe
  <1> QED BY <1>3, <1>4 DEF ReportFailure

(***************************************************************************)
(* Reading.                                                                *)
(***************************************************************************)
(* From one stage of the transfer to another that knows no more of the tail,
   with the stream as it is or unpaused. *)
LEMMA MoveSafe ==
  ASSUME HttpInv, pc \in Decoding \ {"errbody"}, pc' \in {"open", "next", "readerror"},
         stream' \in Streams, stream'.buf = stream.buf, stream'.tail = stream.tail,
         stream'.streaming = stream.streaming,
         UNCHANGED <<wire, attempts, drained, canceled, kind, given, body, outcome,
                     aborted, killed, posted, acked, applied>>,
         StatusMeans', StagesMean', AbortPending'
  PROVE  HttpInv'
  <1>1. Received' = Received
    BY DEF Received
  <1>2. HttpTypes'
    BY Known, TypesKept DEF Stages, Pumps
  <1>3. ExceptionsHaveShape' /\ InsertPending'
    BY DEF HttpInv, ExceptionsHaveShape, InsertPending, Reading, Decoding
  <1>4. BodyAccounted'
    BY <1>1 DEF HttpInv, BodyAccounted, Reading, Decoding
  <1>5. TailAccounted'
    BY <1>1 DEF HttpInv, TailAccounted, Reading, Decoding
  <1>6. pc' # "idle" /\ outcome' = "none"
    BY DEF StagesMean
  <1> QED BY <1>2, <1>3, <1>4, <1>5, <1>6, GoesOn DEF HttpInv

(* A pump for the next chunk is over. *)
LEMMA NextPumpedSafe == ASSUME HttpInv, NextPumped PROVE HttpInv'
  <1>1. /\ pc = "next" /\ pc' = IF PumpError THEN "readerror" ELSE "open"
        /\ UNCHANGED <<stream, wire, attempts, drained, canceled, kind, given, body,
                       outcome, aborted, killed, posted, acked, applied>>
    BY DEF NextPumped, histVars
  <1>2. StatusMeans' /\ StagesMean'
    BY <1>1 DEF HttpInv, StatusMeans, StagesMean, PumpError, Decodes
  <1>3. AbortPending'
    BY <1>1 DEF HttpInv, AbortPending, PumpError
  <1> QED BY <1>1, <1>2, <1>3, Known, MoveSafe DEF Decoding

(* The cancel check between two reads. *)
LEMMA ReadCanceledSafe == ASSUME HttpInv, ReadCanceled PROVE HttpInv'
  <1>1. /\ pc = "open" /\ pc' = "readerror"
        /\ UNCHANGED <<stream, wire, attempts, drained, canceled, kind, given, body,
                       outcome, aborted, killed, posted, acked, applied>>
    BY DEF ReadCanceled, histVars
  <1>2. StatusMeans' /\ StagesMean'
    BY <1>1 DEF HttpInv, StatusMeans, StagesMean
  <1>3. AbortPending'
    BY <1>1, NoneAborted DEF AbortPending
  <1> QED BY <1>1, <1>2, <1>3, Known, MoveSafe DEF Decoding

(* The decoder asks for more. *)
LEMMA NextChunkSafe == ASSUME HttpInv, NextChunk PROVE HttpInv'
  <1>1. /\ pc = "open" /\ pc' = "next" /\ stream' = [stream EXCEPT !.paused = FALSE]
        /\ UNCHANGED <<wire, attempts, drained, canceled, kind, given, body,
                       outcome, aborted, killed, posted, acked, applied>>
    BY DEF NextChunk, StartPump, histVars
  <1>2. /\ stream' \in Streams /\ stream'.paused = FALSE
        /\ stream'.buf = stream.buf /\ stream'.tail = stream.tail
        /\ stream'.streaming = stream.streaming
        /\ stream'.done = stream.done /\ stream'.status = stream.status
    BY <1>1, Known DEF Streams
  <1>3. StatusMeans' /\ StagesMean'
    BY <1>1, <1>2 DEF HttpInv, StatusMeans, StagesMean, Decodes
  <1>4. AbortPending'
    BY <1>1, NoneAborted DEF AbortPending
  <1> QED BY <1>1, <1>2, <1>3, <1>4, MoveSafe DEF Decoding

(* The decoder takes what is buffered, and may fail on it. *)
LEMMA TakeChunkSafe ==
  ASSUME HttpInv, NEW bad \in BOOLEAN, TakeChunk(bad) PROVE HttpInv'
  <1>1. /\ pc = "open" /\ given' = given \o stream.buf
        /\ stream' = [stream EXCEPT !.buf = <<>>]
        /\ pc' \in {"open", "readerror"} /\ (pc' = "open" => Decodes(stream.buf))
        /\ UNCHANGED <<wire, attempts, drained, canceled, kind, body, outcome,
                       aborted, killed, posted, acked, applied>>
    BY DEF TakeChunk, Taken
  <1>2. /\ stream' \in Streams /\ stream'.buf = <<>> /\ stream'.tail = stream.tail
        /\ stream'.streaming = stream.streaming /\ stream'.paused = stream.paused
        /\ stream'.done = stream.done /\ stream'.status = stream.status
    BY <1>1, Known, EmptySeq DEF Streams
  <1>3. /\ Within(body.todo, 0, given) /\ Within(body.todo, Len(given), stream.buf)
        /\ Len(given) + Len(stream.buf) = Received /\ drained = 0
        /\ kind # "insert" /\ body.end = wire.end /\ body.code = wire.code
        /\ Received >= 0 /\ Within(body.todo, Received, wire.todo)
    BY <1>1 DEF HttpInv, BodyAccounted, Reading, Decoding
  <1>4. PICK b \in Seq(Units), g \in Seq(Units), f \in Seq(Units) :
          b = body.todo /\ g = given /\ f = stream.buf
    BY Known
  <1>5. Within(b, 0, g \o f) /\ g \o f \in Seq(Units) /\ Len(g \o f) = Len(g) + Len(f)
    <2>1. Len(g) \in Nat /\ 0 + Len(g) = Len(g)
      BY <1>4, LenProperties
    <2>2. Within(b, 0, g) /\ Within(b, 0 + Len(g), f)
      BY <1>3, <1>4, <2>1
    <2> QED BY <2>2, WithinConcat
  <1>6. /\ Within(body.todo, 0, given') /\ given' \in Seq(Units)
        /\ Len(given') = Received /\ Received' = Received
    BY <1>1, <1>3, <1>4, <1>5 DEF Received
  <1>7. HttpTypes'
    BY <1>1, <1>2, <1>6, Known, TypesKept DEF Stages
  <1>8. StatusMeans' /\ ExceptionsHaveShape' /\ InsertPending'
    BY <1>1, <1>2
    DEF HttpInv, StatusMeans, ExceptionsHaveShape, InsertPending, Reading, Decoding
  <1>9. BodyAccounted'
    <2>1. Within(body.todo, Len(given'), <<>>) /\ Len(given') + Len(<<>>) = Received
      <3>1. PICK L \in Nat : L = Len(given')
        BY <1>6, LenProperties
      <3>2. Len(<<>>) = 0 /\ L <= Len(body.todo)
        BY <1>6, <3>1 DEF Within
      <3>3. L + 0 = L
        BY <3>1
      <3> QED BY <1>6, <3>1, <3>2, <3>3 DEF Within
    <2> QED BY <1>1, <1>2, <1>3, <1>6, <2>1 DEF BodyAccounted, Reading, Decoding
  <1>10. TailAccounted'
    BY <1>1, <1>2, <1>6 DEF HttpInv, TailAccounted, Reading, Decoding
  <1>11. StagesMean'
    <2>1. Decodes(given) /\ wire.code = "ok" /\ ~PumpError /\ outcome = "none"
      BY <1>1 DEF HttpInv, StagesMean
    <2>2. Decodes(f) => Decodes(g \o f)
      <3>1. /\ Len(g) \in Nat /\ Len(f) \in Nat
            /\ \A i \in 1 .. Len(g) + Len(f) :
                 (g \o f)[i] = IF i <= Len(g) THEN g[i] ELSE f[i - Len(g)]
        BY ConcatProperties, LenProperties
      <3>2. SUFFICES ASSUME Decodes(f), NEW i \in 1 .. Len(g) + Len(f)
                     PROVE  (g \o f)[i] \in 1 .. MaxRows
        BY <1>5 DEF Decodes
      <3>3. CASE i <= Len(g)
        BY <1>4, <2>1, <3>1, <3>3 DEF Decodes
      <3>4. CASE ~(i <= Len(g))
        <4>1. i - Len(g) \in 1 .. Len(f)
          BY <3>1, <3>2, <3>4
        <4> QED BY <3>1, <3>2, <3>4, <4>1 DEF Decodes
      <3> QED BY <3>3, <3>4
    <2>3. pc' = "open" => Decodes(given')
      BY <1>1, <1>4, <2>2
    <2> QED BY <1>1, <1>2, <2>1, <2>3 DEF StagesMean, PumpError, Decodes
  <1>12. AbortPending'
    BY <1>1, NoneAborted DEF AbortPending
  <1>13. outcome' = "none" /\ pc' # "idle"
    BY <1>1, <1>11 DEF StagesMean
  <1> QED BY <1>1, <1>7, <1>8, <1>9, <1>10, <1>11, <1>12, <1>13, GoesOn DEF HttpInv

(* A read that failed is reported as cancelled. *)
LEMMA ReadErrorCanceledSafe == ASSUME HttpInv, ReadErrorCanceled PROVE HttpInv'
  BY Known, KillSafe DEF ReadErrorCanceled

(* The three steps of the drain. *)
LEMMA DrainSafe ==
  ASSUME HttpInv, ReadErrorOther \/ ReadTail \/ TailPumped PROVE HttpInv'
  <1>1. /\ UNCHANGED <<wire, attempts, canceled, kind, given, body, outcome, aborted,
                       killed, posted, acked, applied>>
        /\ pc \in {"readerror", "drain", "tail"} /\ pc' \in {"drain", "tail"}
        /\ (pc = "readerror" => stream.status # "canceled")
    BY DEF ReadErrorOther, ReadTail, TailPumped, WasCanceled, histVars
  <1>2. /\ stream' \in Streams /\ stream'.tail = stream.tail
        /\ stream'.streaming = stream.streaming /\ stream'.done = stream.done
        /\ stream'.status = stream.status /\ stream'.paused \in {stream.paused, FALSE}
    <2>1. CASE ReadTail
      BY <2>1, Known, EmptySeq DEF ReadTail, Streams
    <2>2. CASE UNCHANGED stream
      BY <2>2, Known
    <2> QED BY <2>1, <2>2 DEF ReadErrorOther, TailPumped
  <1>3. Received' = Received
    BY <1>1 DEF Received
  <1>4. PICK L \in Nat, G \in Nat, R \in Int :
          L = Len(stream.buf) /\ G = Len(given) /\ R = Received
    <2>1. Len(stream.buf) \in Nat /\ Len(given) \in Nat /\ Len(body.todo) \in Nat
          /\ Len(wire.todo) \in Nat
      BY Known, LenProperties
    <2>2. PICK B \in Nat, W \in Nat : B = Len(body.todo) /\ W = Len(wire.todo)
      BY <2>1
    <2>3. Received \in Int
      BY <2>2 DEF Received
    <2> QED BY <2>1, <2>3
  <1>5. /\ drained' \in Nat
        /\ pc' = "drain" => G + drained' <= R
        /\ pc' = "tail" => G + drained' + Len(stream'.buf) <= R
    <2>1. CASE ReadErrorOther
      <3>1. pc = "readerror" /\ pc' = "drain" /\ UNCHANGED drained
        BY <2>1 DEF ReadErrorOther
      <3>2. G + L = R /\ drained = 0
        BY <1>4, <3>1 DEF HttpInv, BodyAccounted, Decoding
      <3> QED BY <3>1, <3>2
    <2>2. CASE ReadTail
      <3>1. pc = "drain" /\ pc' = "tail" /\ UNCHANGED drained /\ stream'.buf = <<>>
        BY <2>2, Known DEF ReadTail, Streams
      <3>2. G + drained <= R /\ drained \in Nat /\ Len(stream'.buf) = 0
        BY <1>4, <3>1, Known DEF HttpInv, TailAccounted
      <3> QED BY <3>1, <3>2
    <2>3. CASE TailPumped
      <3>1. pc = "tail" /\ pc' = "drain" /\ drained' = drained + L
        BY <1>4, <2>3 DEF TailPumped
      <3>2. G + drained + L <= R /\ drained \in Nat
        BY <1>4, <3>1, Known DEF HttpInv, TailAccounted
      <3> QED BY <3>1, <3>2
    <2> QED BY <2>1, <2>2, <2>3
  <1>6. HttpTypes'
    BY <1>1, <1>2, <1>5, Known, TypesKept DEF Stages, Pumps
  <1>7. StatusMeans'
    BY <1>1, <1>2 DEF HttpInv, StatusMeans
  <1>8. ExceptionsHaveShape' /\ InsertPending'
    BY <1>1 DEF HttpInv, ExceptionsHaveShape, InsertPending, Reading, Decoding
  <1>9. BodyAccounted'
    BY <1>1, <1>3 DEF HttpInv, BodyAccounted, Reading, Decoding
  <1>10. TailAccounted'
    BY <1>1, <1>2, <1>3, <1>4, <1>5 DEF HttpInv, TailAccounted, Reading, Decoding
  <1>11. StagesMean'
    BY <1>1 DEF HttpInv, StagesMean
  <1>12. AbortPending'
    <2>1. aborted \notin {"begin", "errbody", "next", "post"}
      BY <1>1 DEF HttpInv, AbortPending
    <2> QED BY <1>1, <2>1 DEF AbortPending
  <1>13. outcome' = "none" /\ pc' # "idle"
    BY <1>1, <1>11 DEF StagesMean
  <1> QED BY <1>1, <1>6, <1>7, <1>8, <1>9, <1>10, <1>11, <1>12, <1>13, GoesOn DEF HttpInv

(* DESCRIBE TABLE has been answered. *)
LEMMA EndDescribeSafe == ASSUME HttpInv, EndDescribe PROVE HttpInv'
  <1>1. /\ pc = "open" /\ pc' = "rows" /\ kind' = "insert"
        /\ stream' = NoStream /\ wire' = NoWire
        /\ UNCHANGED <<attempts, drained, canceled, given, body, outcome, aborted,
                       killed, posted, acked, applied>>
    BY DEF EndDescribe, histVars
  <1>2. HttpTypes'
    <2>1. stream' \in Streams /\ wire' \in Responses /\ Len(stream'.tail) <= TailSize
      BY <1>1, EmptyStream, BoundAssumption
    <2> QED BY <1>1, <2>1, Known, TypesKept DEF Stages
  <1>3. StatusMeans'
    BY <1>1, EmptyStream DEF StatusMeans
  <1>4. BodyAccounted' /\ TailAccounted' /\ ExceptionsHaveShape' /\ StagesMean'
    BY <1>1
    DEF HttpInv, BodyAccounted, TailAccounted, ExceptionsHaveShape, StagesMean, Reading,
        Decoding
  <1>5. InsertPending'
    BY <1>1 DEF HttpInv, InsertPending, Reading, Decoding
  <1>6. AbortPending'
    BY <1>1, NoneAborted DEF AbortPending
  <1>7. outcome' = "none"
    BY <1>1 DEF HttpInv, StagesMean
  <1> QED BY <1>1, <1>2, <1>3, <1>4, <1>5, <1>6, <1>7, GoesOn DEF HttpInv

(***************************************************************************)
(* INSERT.                                                                 *)
(***************************************************************************)
LEMMA PostRowsSafe == ASSUME HttpInv, PostRows PROVE HttpInv'
  <1>1. PICK a \in ShortAnswers :
          /\ StreamBegin(a, FALSE, TRUE)
          /\ \/ applied' = applied /\ ~(a.code = "ok" /\ a.end = "complete")
             \/ applied' = Append(applied, posted + 1)
    BY ShortAnswersFacts DEF PostRows, Responses
  <1>2. /\ pc = "rows" /\ pc' = "post" /\ posted' = posted + 1
        /\ UNCHANGED <<attempts, drained, canceled, kind, given, outcome, aborted,
                       killed, acked>>
    BY DEF PostRows
  <1>3. kind = "insert" /\ acked = posted /\ Len(applied) = posted /\ outcome = "none"
        /\ \A i \in 1 .. Len(applied) : applied[i] = i
    BY <1>2 DEF HttpInv, InsertPending, InsertAccounted, StagesMean
  <1>4. /\ a \in Responses /\ a.todo = <<>> /\ wire' = a /\ body' = a
        /\ stream' \in Streams /\ stream'.status = "none" /\ stream'.tail = <<>>
        /\ ~stream'.paused /\ ~stream'.done
    BY <1>1, ShortAnswersFacts, EmptySeq DEF StreamBegin, NoStream, Streams
  <1>5. PICK p \in Nat : p = posted
    BY Known
  <1>6. applied' \in Seq(Nat) /\ Len(applied') \in {p, p + 1}
        /\ (a.code = "ok" /\ a.end = "complete" => Len(applied') = p + 1)
        /\ \A i \in 1 .. Len(applied') : applied'[i] = i
    <2>1. CASE applied' = applied /\ ~(a.code = "ok" /\ a.end = "complete")
      BY <1>3, <1>5, <2>1, Known
    <2>2. CASE applied' = Append(applied, posted + 1)
      <3>1. PICK s \in Seq(Nat) : s = applied
        BY Known
      <3>2. Len(s) = p /\ \A i \in 1 .. p : s[i] = i
        BY <1>3, <1>5, <3>1
      <3>3. /\ Append(s, p + 1) \in Seq(Nat) /\ Len(Append(s, p + 1)) = p + 1
            /\ \A i \in 1 .. p : Append(s, p + 1)[i] = s[i]
            /\ Append(s, p + 1)[p + 1] = p + 1
        BY <1>5, <3>2, AppendProperties
      <3>4. \A i \in 1 .. p + 1 : Append(s, p + 1)[i] = i
        BY <1>5, <3>2, <3>3
      <3> QED BY <1>5, <2>2, <3>1, <3>3, <3>4
    <2> QED BY <1>1, <2>1, <2>2
  <1>7. HttpTypes'
    <2>1. Len(stream'.tail) <= TailSize /\ posted' \in Nat
      BY <1>2, <1>4, Known, BoundAssumption
    <2> QED BY <1>2, <1>4, <1>6, <2>1, Known, TypesKept DEF Stages, Pumps
  <1>8. StatusMeans'
    BY <1>4 DEF StatusMeans
  <1>9. BodyAccounted' /\ TailAccounted' /\ ExceptionsHaveShape' /\ StagesMean'
    BY <1>2, <1>3
    DEF BodyAccounted, TailAccounted, ExceptionsHaveShape, StagesMean, Reading, Decoding
  <1>10. InsertPending'
    BY <1>2, <1>3, <1>4, <1>5, <1>6 DEF InsertPending, Reading, Decoding
  <1>11. AbortPending'
    BY <1>2, NoneAborted DEF AbortPending
  <1>12. NoSilentTruncation' /\ LateExceptionReported' /\ AbortedIsKilled'
    BY <1>2, <1>3 DEF NoSilentTruncation, LateExceptionReported, AbortedIsKilled
  <1>13. InsertAccounted'
    <2>1. posted' = p + 1 /\ acked' = p /\ (p + 1) - p = 1 /\ outcome' # "ok"
      BY <1>2, <1>3, <1>5
    <2> QED BY <1>6, <2>1 DEF InsertAccounted
  <1> QED BY <1>7, <1>8, <1>9, <1>10, <1>11, <1>12, <1>13 DEF HttpInv

(* A POST has been answered. *)
LEMMA PostedSafe == ASSUME HttpInv, Posted PROVE HttpInv'
  <1>1. /\ pc = "post" /\ stream.done /\ UNCHANGED <<attempts, drained, kind>>
    BY DEF Posted
  <1>2. kind = "insert" /\ outcome = "none" /\ posted = acked + 1
    BY <1>1 DEF HttpInv, InsertPending, StagesMean
  <1>3. CASE /\ stream.status = "ok" /\ acked' = posted /\ pc' = "rows"
             /\ stream' = NoStream /\ wire' = NoWire
             /\ UNCHANGED <<canceled, given, body, outcome, aborted, killed, posted,
                            applied>>
    <2>1. Len(applied) = posted
      BY <1>1, <1>3 DEF HttpInv, StatusMeans, InsertPending
    <2>2. HttpTypes'
      <3>1. stream' \in Streams /\ wire' \in Responses /\ Len(stream'.tail) <= TailSize
        BY <1>3, EmptyStream, BoundAssumption
      <3> QED BY <1>1, <1>3, <3>1, Known, TypesKept DEF Stages
    <2>3. StatusMeans'
      BY <1>3, EmptyStream DEF StatusMeans
    <2>4. BodyAccounted' /\ TailAccounted' /\ ExceptionsHaveShape' /\ StagesMean'
      BY <1>1, <1>2, <1>3
      DEF BodyAccounted, TailAccounted, ExceptionsHaveShape, StagesMean, Reading, Decoding
    <2>5. InsertPending'
      BY <1>1, <1>2, <1>3 DEF InsertPending, Reading, Decoding
    <2>6. AbortPending'
      BY <1>1, <1>3, NoneAborted DEF AbortPending
    <2>7. NoSilentTruncation' /\ LateExceptionReported' /\ AbortedIsKilled'
      BY <1>2, <1>3 DEF NoSilentTruncation, LateExceptionReported, AbortedIsKilled
    <2>8. InsertAccounted'
      <3>1. posted - posted = 0
        BY Known
      <3> QED BY <1>2, <1>3, <2>1, <3>1 DEF HttpInv, InsertAccounted
    <2> QED BY <2>2, <2>3, <2>4, <2>5, <2>6, <2>7, <2>8 DEF HttpInv
  <1>4. CASE KillQuery /\ UNCHANGED canceled
    BY <1>1, <1>4, Known, KillSafe
  <1>5. CASE /\ stream.status \in {"error", "transport"} /\ Ends("error")
             /\ UNCHANGED <<given, body, aborted, killed, posted, acked, applied>>
    <2>1. NoSilentTruncation' /\ LateExceptionReported' /\ AbortedIsKilled'
      BY <1>1, <1>2, <1>5, NoneAborted
      DEF NoSilentTruncation, LateExceptionReported, AbortedIsKilled
    <2> QED BY <1>1, <1>5, <2>1, Known, EndsSafe
  <1> QED BY <1>3, <1>4, <1>5 DEF Posted

(***************************************************************************)
(* pump().                                                                 *)
(***************************************************************************)
(* The transfer ends: nothing moves. *)
LEMMA TransferEndsSafe ==
  ASSUME HttpInv, PumpDone \/ PumpCanceled PROVE HttpInv'
  <1>1. /\ pc \in Pumps /\ ~stream.paused /\ ~stream.done
        /\ UNCHANGED <<pc, wire, attempts, drained, canceled, kind, given, body,
                       outcome, killed, posted, acked, applied>>
        /\ aborted' = aborted \/ (aborted' = pc /\ stream'.status = "canceled")
    BY Known DEF PumpDone, PumpCanceled, PumpRuns, histVars, Streams
  <1>2. /\ stream' \in Streams /\ stream'.done = TRUE
        /\ stream'.paused = stream.paused /\ stream'.cancel = stream.cancel
        /\ stream'.buf = stream.buf /\ stream'.tail = stream.tail
        /\ stream'.streaming = stream.streaming
        /\ \/ stream'.status = "canceled" /\ canceled
           \/ stream'.status = "transport" /\ wire.end = "cut"
           \/ stream'.status = wire.code /\ wire.todo = <<>> /\ wire.end = "complete"
    <2>1. CASE PumpDone
      BY <2>1, Known DEF PumpDone, Streams, Responses
    <2>2. CASE PumpCanceled
      BY <2>2, Known DEF PumpCanceled, Streams
    <2> QED BY <2>1, <2>2
  <1>3. Received' = Received
    BY <1>1 DEF Received
  <1>4. HttpTypes'
    BY <1>1, <1>2, Known, TypesKept
  <1>5. StatusMeans'
    BY <1>1, <1>2, Known DEF StatusMeans, Responses
  <1>6. BodyAccounted'
    BY <1>1, <1>2, <1>3 DEF HttpInv, BodyAccounted
  <1>7. TailAccounted'
    BY <1>1, <1>2, <1>3 DEF HttpInv, TailAccounted
  <1>8. StagesMean'
    BY <1>1, <1>2 DEF HttpInv, StagesMean, Decodes, Pumps
  <1>9. ExceptionsHaveShape' /\ InsertPending'
    BY <1>1 DEF HttpInv, ExceptionsHaveShape, InsertPending
  <1>10. AbortPending'
    BY <1>1, <1>2 DEF HttpInv, AbortPending
  <1>11. outcome' = "none" /\ pc' # "idle"
    BY <1>1, <1>8 DEF StagesMean, Pumps
  <1> QED BY <1>1, <1>4, <1>5, <1>6, <1>7, <1>8, <1>9, <1>10, <1>11, GoesOn DEF HttpInv

(* A chunk moves from the wire to the buffer, and into the tail. *)
LEMMA PumpChunkSafe == ASSUME HttpInv, PumpChunk PROVE HttpInv'
  <1>1. /\ pc \in Pumps /\ ~stream.paused /\ ~stream.done
        /\ UNCHANGED <<pc, attempts, drained, canceled, kind, given, body,
                       outcome, aborted, killed, posted, acked, applied>>
    BY DEF PumpChunk, PumpRuns, histVars
  <1>2. PICK n \in 1 .. Len(wire.todo) :
          /\ stream' = [write_callback(SubSeq(wire.todo, 1, n)) EXCEPT
                           !.status = wire.code]
          /\ wire' = [wire EXCEPT !.todo = SubSeq(wire.todo, n + 1, Len(wire.todo))]
    BY DEF PumpChunk
  <1>3. PICK w \in Seq(Units), f \in Seq(Units), t \in Seq(Units), b \in Seq(Units),
             W \in Nat :
          /\ w = wire.todo /\ f = stream.buf /\ t = stream.tail /\ b = body.todo
          /\ W = Len(w) /\ n \in 1 .. Len(w)
    BY Known, LenProperties
  <1>4. PICK c, v : c = SubSeq(w, 1, n) /\ v = SubSeq(w, n + 1, Len(w))
    OBVIOUS
  <1>5. /\ c \in Seq(Units) /\ v \in Seq(Units) /\ Len(c) = n /\ Len(v) = W - n
    <2>0. Len(w) \in Nat /\ \A i \in 1 .. Len(w) : w[i] \in Units
      BY LenProperties
    <2>1. /\ SubSeq(w, 1, n) \in Seq(Units)
          /\ Len(SubSeq(w, 1, n)) = IF 1 <= n THEN n - 1 + 1 ELSE 0
      BY <1>3, <2>0, SubSeqProperties
    <2>2. /\ SubSeq(w, n + 1, Len(w)) \in Seq(Units)
          /\ Len(SubSeq(w, n + 1, Len(w)))
                = IF n + 1 <= Len(w) THEN Len(w) - (n + 1) + 1 ELSE 0
      <3>1. \A i \in n + 1 .. Len(w) : w[i] \in Units
        BY <1>3, <2>0
      <3> QED BY <1>3, <2>0, <3>1, SubSeqProperties
    <2> QED BY <1>3, <1>4, <2>0, <2>1, <2>2
  <1>6. f \o c \in Seq(Units) /\ Len(f \o c) = Len(f) + Len(c) /\ t \o c \in Seq(Units)
    BY <1>5, ConcatProperties
  <1>7. PICK u \in Seq(Units) : u = LastOf(t \o c, TailSize) /\ Len(u) <= TailSize
    BY <1>6, LastOfType, BoundAssumption
  <1>8. /\ stream'.status = wire.code /\ stream'.buf = f \o c
        /\ stream'.tail = IF stream.streaming THEN u ELSE t
        /\ stream'.streaming = stream.streaming /\ stream'.paused = stream.streaming
        /\ stream'.done = stream.done /\ stream'.cancel = stream.cancel
        /\ stream' \in Streams
        /\ wire'.todo = v /\ wire'.end = wire.end /\ wire'.code = wire.code
        /\ wire' \in Responses
    <2>1. SubSeq(wire.todo, 1, n) = c /\ SubSeq(wire.todo, n + 1, Len(wire.todo)) = v
      BY <1>3, <1>4
    <2>2. stream' = [write_callback(c) EXCEPT !.status = wire.code]
      BY <1>2, <2>1
    <2>3. TailAfter(c) = u
      BY <1>3, <1>7 DEF TailAfter, LastOf
    <2>4. wire' = [wire EXCEPT !.todo = v]
      BY <1>2, <2>1
    <2>5. stream' = [stream EXCEPT !.buf = f \o c,
                       !.tail = IF stream.streaming THEN u ELSE t,
                       !.paused = stream.streaming, !.status = wire.code]
      BY <1>3, <2>2, <2>3, Known DEF write_callback, Streams
    <2> QED BY <1>5, <1>6, <1>7, <2>4, <2>5, Known DEF Streams, Responses
  <1>9. HttpTypes'
    BY <1>1, <1>3, <1>7, <1>8, Known, TypesKept
  <1>10. StatusMeans'
    BY <1>1, <1>8, Known DEF StatusMeans, Responses
  <1>11. StagesMean' /\ ExceptionsHaveShape'
    BY <1>1, <1>8 DEF HttpInv, StagesMean, ExceptionsHaveShape, Decodes, Pumps
  <1>12. InsertPending'
    <2>1. pc # "post"
      BY <1>2 DEF HttpInv, InsertPending
    <2> QED BY <1>1, <2>1 DEF HttpInv, InsertPending
  <1>13. AbortPending'
    BY <1>1, <1>8 DEF HttpInv, AbortPending
  <1>14. PICK B \in Nat, R \in Int, F \in Nat, G \in Nat, T \in Nat :
           /\ B = Len(b) /\ R = Received /\ F = Len(f) /\ G = Len(given) /\ T = Len(t)
           /\ R = B - W /\ Received' = R + n
    <2>1. PICK B \in Nat, F \in Nat, G \in Nat, T \in Nat :
            B = Len(b) /\ F = Len(f) /\ G = Len(given) /\ T = Len(t)
      BY Known, LenProperties
    <2>2. Received = B - W /\ Received' = B - (W - n)
      BY <1>1, <1>3, <1>5, <1>8, <2>1 DEF Received
    <2>3. B - W \in Int /\ B - (W - n) = (B - W) + n
      BY <1>3
    <2> QED BY <2>1, <2>2, <2>3
  <1>15. ASSUME pc \in Reading
         PROVE  /\ Within(b, R, c) /\ Within(b, R + n, v) /\ R \in Nat
    <2>1. Within(b, R, w) /\ R \in Nat
      <3>1. Received >= 0 /\ Within(body.todo, Received, wire.todo)
        BY <1>15 DEF HttpInv, BodyAccounted
      <3>2. R >= 0 /\ Within(b, R, w)
        BY <1>3, <1>14, <3>1
      <3> QED BY <1>14, <3>2
    <2>2. Within(b, R, SubSeq(w, 1, n))
      BY <1>3, <2>1, WithinSplit
    <2>3. Within(b, R + n, v)
      BY <1>3, <1>4, <2>1, WithinRest
    <2> QED BY <1>4, <2>1, <2>2, <2>3
  <1>16. BodyAccounted'
    <2>1. pc # "idle" /\ kind # "insert" => Within(body.todo, 0, given)
      BY DEF HttpInv, BodyAccounted
    <2>2. ASSUME pc \in Reading
          PROVE  /\ kind # "insert" /\ body.end = wire.end /\ body.code = wire.code
                 /\ R + n >= 0
      BY <1>14, <1>15, <2>2 DEF HttpInv, BodyAccounted
    <2>3. ASSUME pc \in Decoding
          PROVE  /\ Within(b, G, f \o c) /\ G + Len(f \o c) = R + n /\ drained = 0
      <3>1. pc \in Reading
        BY <2>3 DEF Reading
      <3>2. Within(b, G, f) /\ G + F = R /\ drained = 0
        BY <1>3, <1>14, <2>3 DEF HttpInv, BodyAccounted
      <3>3. Within(b, G + Len(f), c)
        BY <1>14, <1>15, <3>1, <3>2
      <3>4. Within(b, G, f \o c)
        BY <1>5, <3>2, <3>3, WithinConcat
      <3>5. G + (F + n) = R + n
        BY <3>2
      <3> QED BY <1>5, <1>6, <1>14, <3>2, <3>4, <3>5
    <2> QED BY <1>1, <1>3, <1>8, <1>14, <1>15, <2>1, <2>2, <2>3 DEF BodyAccounted
  <1>17. TailAccounted'
    <2>1. ASSUME pc \in Reading \ {"errbody"}
          PROVE  /\ stream.streaming /\ (R + n) - Len(u) >= 0
                 /\ Within(b, (R + n) - Len(u), u) /\ Len(u) \in {TailSize, R + n}
      <3>1. /\ stream.streaming /\ R - T >= 0 /\ Within(b, R - T, t)
            /\ T \in {TailSize, R}
        BY <1>3, <1>14, <2>1 DEF HttpInv, TailAccounted
      <3>2. /\ Len(c) >= 1 /\ Len(t) <= TailSize /\ Len(t) \in {TailSize, R}
            /\ R - Len(t) >= 0 /\ Within(b, R - Len(t), t)
        <4>1. Len(c) >= 1
          BY <1>3, <1>5
        <4>2. Len(t) <= TailSize
          BY <1>3, Known
        <4> QED BY <1>14, <3>1, <4>1, <4>2
      <3>3. R \in Nat /\ Within(b, R, c) /\ TailSize \in Nat \ {0}
        BY <1>15, <2>1, BoundAssumption
      <3>4. TailOf(b, R, t, TailSize) /\ u = LastOf(t \o c, TailSize)
        BY <1>7, <3>2 DEF TailOf
      <3>5. TailOf(b, R + Len(c), u, TailSize)
        BY <1>5, <3>2, <3>3, <3>4, TailMoves
      <3> QED BY <1>5, <3>1, <3>5 DEF TailOf
    <2>2. pc # "drain"
      BY <1>1 DEF Pumps
    <2>3. ASSUME pc = "tail" PROVE G + drained + Len(f \o c) <= R + n
      <3>1. G + drained + F <= R /\ drained \in Nat
        BY <1>3, <1>14, <2>3, Known DEF HttpInv, TailAccounted
      <3>2. G + drained + (F + n) <= R + n
        BY <3>1
      <3> QED BY <1>5, <1>6, <1>14, <3>2
    <2> QED BY <1>1, <1>3, <1>8, <1>14, <2>1, <2>2, <2>3 DEF TailAccounted
  <1>18. outcome' = "none" /\ pc' # "idle"
    BY <1>1, <1>11 DEF StagesMean, Pumps
  <1> QED BY <1>1, <1>9, <1>10, <1>11, <1>12, <1>13, <1>16, <1>17, <1>18, GoesOn DEF HttpInv

(***************************************************************************)
(* The theorems.                                                           *)
(***************************************************************************)
LEMMA HttpInitSafe == Init => HttpInv
  <1> SUFFICES ASSUME Init PROVE HttpInv
    OBVIOUS
  <1>1. /\ pc = "idle" /\ stream = NoStream /\ wire = NoWire /\ body = NoWire
        /\ given = <<>> /\ applied = <<>> /\ posted = 0 /\ acked = 0
        /\ outcome = "none" /\ aborted = "none" /\ attempts = 0 /\ drained = 0
        /\ kind = "query" /\ canceled = FALSE /\ killed = FALSE
    BY DEF Init
  <1>2. HttpTypes
    <2>1. /\ stream \in Streams /\ wire \in Responses /\ body \in Responses
          /\ Len(stream.tail) <= TailSize /\ given \in Seq(Units)
          /\ applied \in Seq(Nat)
      BY <1>1, EmptyStream, EmptySeq, BoundAssumption
    <2>2. TypeOK
      BY <1>1, <2>1 DEF TypeOK, Stages, Streams, Responses, MaxAttempts
    <2> QED BY <1>1, <2>1, <2>2 DEF HttpTypes
  <1>3. StatusMeans
    BY <1>1, EmptyStream DEF StatusMeans
  <1>4. BodyAccounted /\ TailAccounted /\ StagesMean /\ ExceptionsHaveShape
        /\ AbortPending /\ InsertPending
    BY <1>1 DEF BodyAccounted, TailAccounted, StagesMean, ExceptionsHaveShape,
                AbortPending, InsertPending, Reading, Decoding
  <1>5. NoSilentTruncation /\ LateExceptionReported /\ AbortedIsKilled /\ InsertAccounted
    BY <1>1 DEF NoSilentTruncation, LateExceptionReported, AbortedIsKilled,
                InsertAccounted
  <1> QED BY <1>2, <1>3, <1>4, <1>5 DEF HttpInv

(* A cancellation comes in. *)
LEMMA CancelRequestSafe == ASSUME HttpInv, CancelRequest PROVE HttpInv'
  <1>1. /\ canceled' = TRUE /\ pc # "idle"
        /\ UNCHANGED <<pc, stream, wire, attempts, drained, kind, given, body, outcome,
                       aborted, killed, posted, acked, applied>>
    BY DEF CancelRequest, histVars
  <1>2. Received' = Received
    BY <1>1 DEF Received
  <1>3. HttpTypes'
    BY <1>1, Known, TypesKept
  <1>4. StatusMeans' /\ ExceptionsHaveShape' /\ InsertPending' /\ AbortPending'
    BY <1>1
    DEF HttpInv, StatusMeans, ExceptionsHaveShape, InsertPending, AbortPending
  <1>5. BodyAccounted' /\ TailAccounted'
    BY <1>1, <1>2 DEF HttpInv, BodyAccounted, TailAccounted
  <1>6. StagesMean'
    BY <1>1 DEF HttpInv, StagesMean, Decodes, PumpError
  <1>7. outcome' = "none"
    BY <1>1, <1>6 DEF StagesMean
  <1> QED BY <1>1, <1>3, <1>4, <1>5, <1>6, <1>7, GoesOn DEF HttpInv

(* Nothing happens. *)
LEMMA HttpStutter == ASSUME HttpInv, UNCHANGED vars PROVE HttpInv'
  <1>1. UNCHANGED <<pc, stream, wire, attempts, drained, canceled, kind, given, body,
                    outcome, aborted, killed, posted, acked, applied>>
    BY DEF vars, histVars
  <1>2. Received' = Received
    BY <1>1 DEF Received
  <1>3. HttpTypes'
    BY <1>1, Known, TypesKept
  <1>4. StatusMeans' /\ ExceptionsHaveShape' /\ InsertPending' /\ AbortPending'
    BY <1>1
    DEF HttpInv, StatusMeans, ExceptionsHaveShape, InsertPending, AbortPending
  <1>5. BodyAccounted' /\ TailAccounted'
    BY <1>1, <1>2 DEF HttpInv, BodyAccounted, TailAccounted
  <1>6. StagesMean'
    BY <1>1 DEF HttpInv, StagesMean, Decodes, PumpError
  <1>7. NoSilentTruncation' /\ LateExceptionReported' /\ AbortedIsKilled' /\ InsertAccounted'
    BY <1>1 DEF HttpInv, NoSilentTruncation, LateExceptionReported, AbortedIsKilled,
                InsertAccounted, Decodes
  <1> QED BY <1>3, <1>4, <1>5, <1>6, <1>7 DEF HttpInv

(* Every step keeps the invariant. *)
LEMMA HttpStepSafe == HttpInv /\ [Next]_vars => HttpInv'
  <1> SUFFICES ASSUME HttpInv, [Next]_vars PROVE HttpInv'
    OBVIOUS
  <1>1. CASE \E k \in {"query", "describe"} : StartStatement(k)
    BY <1>1, StartStatementSafe
  <1>2. CASE CancelRequest
    BY <1>2, CancelRequestSafe
  <1>3. CASE Pump
    BY <1>3, PumpChunkSafe, TransferEndsSafe DEF Pump
  <1>4. CASE Read
    BY <1>4, TakeChunkSafe, NextChunkSafe, NextPumpedSafe, EndOfBodySafe,
       EndDescribeSafe, ReadCanceledSafe, ReadErrorCanceledSafe, DrainSafe,
       RaiseReadErrorSafe DEF Read
  <1>5. CASE Request
    BY <1>5, ReadErrorBodySafe, RetrySafe, OpenCursorSafe, ReportFailureSafe,
       KillDoneSafe, PostedSafe DEF Request
  <1>6. CASE CloseEarly
    BY <1>6, CloseEarlySafe
  <1>7. CASE PostRows
    BY <1>7, PostRowsSafe
  <1>8. CASE \E o \in {"ok", "error"} : EndInsert(o)
    BY <1>8, EndInsertSafe
  <1>9. CASE Done \/ UNCHANGED vars
    BY <1>9, HttpStutter DEF Done
  <1> QED BY <1>1, <1>2, <1>3, <1>4, <1>5, <1>6, <1>7, <1>8, <1>9 DEF Next

(* The inductive invariant holds: through chunks of any size, pauses, retries,
   cancellations, cut transfers and late exceptions, every unit of a response is
   accounted for. *)
THEOREM HttpInvariant == Spec => []HttpInv
  BY HttpInitSafe, HttpStepSafe, PTL DEF Spec

(* The stream, its tail within its size, the attempts and the stages keep their
   types. *)
THEOREM HttpTypeCorrect == Spec => []TypeOK
  <1>1. HttpInv => TypeOK
    BY DEF HttpInv, HttpTypes
  <1> QED BY <1>1, HttpInvariant, PTL

(* The decoder is given the body of one response from its start, in order and
   without loss or repetition, however long it is and however curl cuts it. *)
THEOREM DecoderGetsThePrefix == Spec => []GivenInOrder
  <1>1. HttpInv => GivenInOrder
    <2> SUFFICES ASSUME HttpInv, pc # "idle", kind # "insert"
                 PROVE  /\ Len(given) <= Len(body.todo)
                        /\ given = SubSeq(body.todo, 1, Len(given))
      BY DEF GivenInOrder
    <2>1. Within(body.todo, 0, given)
      BY DEF HttpInv, BodyAccounted
    <2> QED BY <2>1, Known, WithinIsPrefix
  <1> QED BY <1>1, HttpInvariant, PTL

(* A query that ends without an error was given its whole result: a cut
   connection, a cancellation or a late exception is never taken for the end. *)
THEOREM ResultsAreComplete == Spec => []NoSilentTruncation
  <1>1. HttpInv => NoSilentTruncation
    BY DEF HttpInv
  <1> QED BY <1>1, HttpInvariant, PTL

(* An exception that comes after the first rows, at which the decoder stopped,
   is reported as that exception for any chunking and any size of the tail that
   its text fits. *)
THEOREM LateExceptionsAreReported == Spec => []LateExceptionReported
  <1>1. HttpInv => LateExceptionReported
    BY DEF HttpInv
  <1> QED BY <1>1, HttpInvariant, PTL

(* An aborted transfer is followed by KILL QUERY and reported as cancelled. *)
THEOREM AbortsAreKilled == Spec => []AbortedIsKilled
  <1>1. HttpInv => AbortedIsKilled
    BY DEF HttpInv
  <1> QED BY <1>1, HttpInvariant, PTL

(* An INSERT inserts each buffer of rows at most once and in order, and one that
   is reported as done completely. *)
THEOREM InsertsAreAccounted == Spec => []InsertAccounted
  <1>1. HttpInv => InsertAccounted
    BY DEF HttpInv
  <1> QED BY <1>1, HttpInvariant, PTL
=============================================================================
