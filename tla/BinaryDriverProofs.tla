------------------------- MODULE BinaryDriverProofs -------------------------
(***************************************************************************)
(* Proofs about one connection of the binary driver, for any number of     *)
(* statements, blocks and packets under way.                               *)
(***************************************************************************)
EXTENDS BinaryDriver, Integers, SequenceTheorems, TLAPS

(***************************************************************************)
(* Queues of packets.                                                      *)
(***************************************************************************)
(* The first packet is read. *)
LEMMA TailFacts ==
  ASSUME NEW S, NEW s \in Seq(S), s # <<>>
  PROVE  /\ Tail(s) \in Seq(S) /\ Len(s) \in Nat /\ Len(s) >= 1
         /\ Len(Tail(s)) = Len(s) - 1 /\ Head(s) = s[1] /\ Head(s) \in S
         /\ \A i \in 1 .. Len(Tail(s)) : Tail(s)[i] = s[i + 1]
  OBVIOUS

(* What reading the first packet does to the kinds of a queue. *)
LEMMA TailKinds ==
  ASSUME NEW S, NEW s \in Seq(S), s # <<>>, NEW K
  PROVE  /\ KindsIn(s, K) => KindsIn(Tail(s), K) /\ Head(s).kind \in K
         /\ NoKind(s, K) => NoKind(Tail(s), K) /\ Head(s).kind \notin K
         /\ NoKind(Tail(s), K) /\ Head(s).kind \notin K => NoKind(s, K)
         /\ LastOnly(s, K) => LastOnly(Tail(s), K) /\ (Head(s).kind \in K => Tail(s) = <<>>)
         /\ Once(s, K) => Once(Tail(s), K) /\ (Head(s).kind \in K => NoKind(Tail(s), K))
         /\ LastOnly(s, K) => Once(s, K)
  <1>1. PICK n \in Nat : n = Len(s) /\ n >= 1 /\ Len(Tail(s)) = n - 1
    BY TailFacts
  <1>2. Head(s) = s[1] /\ \A i \in 1 .. n - 1 : Tail(s)[i] = s[i + 1]
    BY <1>1, TailFacts
  <1>3. \A i \in 1 .. n - 1 : i + 1 \in 1 .. n
    BY <1>1
  <1>4. KindsIn(s, K) => KindsIn(Tail(s), K) /\ Head(s).kind \in K
    BY <1>1, <1>2, <1>3 DEF KindsIn
  <1>5. NoKind(s, K) => NoKind(Tail(s), K) /\ Head(s).kind \notin K
    BY <1>1, <1>2, <1>3 DEF NoKind
  <1>6. NoKind(Tail(s), K) /\ Head(s).kind \notin K => NoKind(s, K)
    <2>1. \A i \in 1 .. n : i = 1 \/ (i - 1 \in 1 .. n - 1 /\ s[i] = Tail(s)[i - 1])
      BY <1>1, <1>2
    <2> QED BY <1>1, <1>2, <2>1 DEF NoKind
  <1>7. ASSUME LastOnly(s, K)
        PROVE  LastOnly(Tail(s), K) /\ (Head(s).kind \in K => Tail(s) = <<>>)
    <2>1. LastOnly(Tail(s), K)
      BY <1>1, <1>2, <1>3, <1>7 DEF LastOnly
    <2>2. Head(s).kind \in K => n = 1
      BY <1>1, <1>2, <1>7 DEF LastOnly
    <2>3. Tail(s) \in Seq(S)
      BY TailFacts
    <2>4. n = 1 => Len(Tail(s)) = 0
      BY <1>1
    <2>5. n = 1 => Tail(s) = <<>>
      BY <2>3, <2>4, EmptySeq
    <2> QED BY <2>1, <2>2, <2>5
  <1>8. ASSUME Once(s, K)
        PROVE  Once(Tail(s), K) /\ (Head(s).kind \in K => NoKind(Tail(s), K))
    <2>1. Once(Tail(s), K)
      <3> SUFFICES ASSUME NEW i \in 1 .. n - 1, NEW j \in 1 .. n - 1,
                          Tail(s)[i].kind \in K, Tail(s)[j].kind \in K
                   PROVE  i = j
        BY <1>1 DEF Once
      <3>1. s[i + 1].kind \in K /\ s[j + 1].kind \in K /\ i + 1 \in 1 .. n /\ j + 1 \in 1 .. n
        BY <1>2, <1>3
      <3>2. i + 1 = j + 1
        BY <1>1, <1>8, <3>1 DEF Once
      <3> QED BY <3>2
    <2>2. ASSUME Head(s).kind \in K, NEW i \in 1 .. n - 1 PROVE Tail(s)[i].kind \notin K
      <3>1. i + 1 \in 1 .. n /\ 1 \in 1 .. n /\ i + 1 # 1
        BY <1>1
      <3> QED BY <1>1, <1>2, <1>8, <2>2, <3>1 DEF Once
    <2> QED BY <1>1, <2>1, <2>2 DEF NoKind
  <1>9. LastOnly(s, K) => Once(s, K)
    BY DEF LastOnly, Once
  <1> QED BY <1>4, <1>5, <1>6, <1>7, <1>8, <1>9

(* A packet is sent. *)
LEMMA AppendFacts ==
  ASSUME NEW S, NEW s \in Seq(S), NEW p \in S
  PROVE  /\ Append(s, p) \in Seq(S) /\ Len(s) \in Nat
         /\ Len(Append(s, p)) = Len(s) + 1 /\ Append(s, p)[Len(s) + 1] = p
         /\ \A i \in 1 .. Len(s) : Append(s, p)[i] = s[i]
         /\ Append(s, p) # <<>>
  OBVIOUS

(* What sending a packet does to them. *)
LEMMA AppendKinds ==
  ASSUME NEW S, NEW s \in Seq(S), NEW p \in S, NEW K
  PROVE  /\ KindsIn(s, K) /\ p.kind \in K => KindsIn(Append(s, p), K)
         /\ NoKind(s, K) /\ p.kind \notin K => NoKind(Append(s, p), K)
         /\ NoKind(Append(s, p), K) => NoKind(s, K) /\ p.kind \notin K
         /\ NoKind(s, K) => LastOnly(Append(s, p), K) /\ Once(Append(s, p), K)
         /\ Once(s, K) /\ p.kind \notin K => Once(Append(s, p), K)
  <1>1. PICK n \in Nat : n = Len(s) /\ Len(Append(s, p)) = n + 1
    BY AppendFacts
  <1>2. /\ \A i \in 1 .. n : Append(s, p)[i] = s[i] /\ i \in 1 .. n + 1
        /\ Append(s, p)[n + 1] = p /\ n + 1 \in 1 .. n + 1
        /\ \A i \in 1 .. n + 1 : i \in 1 .. n \/ i = n + 1
    BY <1>1, AppendFacts
  <1> HIDE DEF KindsIn, NoKind, LastOnly, Once
  <1>3. KindsIn(s, K) /\ p.kind \in K => KindsIn(Append(s, p), K)
    BY <1>1, <1>2 DEF KindsIn
  <1>4. NoKind(s, K) /\ p.kind \notin K => NoKind(Append(s, p), K)
    BY <1>1, <1>2 DEF NoKind
  <1>5. NoKind(Append(s, p), K) => NoKind(s, K) /\ p.kind \notin K
    BY <1>1, <1>2 DEF NoKind
  <1>6. NoKind(s, K) => LastOnly(Append(s, p), K) /\ Once(Append(s, p), K)
    BY <1>1, <1>2 DEF NoKind, LastOnly, Once
  <1>7. Once(s, K) /\ p.kind \notin K => Once(Append(s, p), K)
    BY <1>1, <1>2 DEF Once
  <1> QED BY <1>3, <1>4, <1>5, <1>6, <1>7

(* The socket drops, with a part of the queue still to be read. *)
LEMMA PrefixFacts ==
  ASSUME NEW S, NEW s \in Seq(S), NEW m \in 0 .. Len(s)
  PROVE  /\ SubSeq(s, 1, m) \in Seq(S) /\ Len(s) \in Nat
         /\ Len(SubSeq(s, 1, m)) = m
         /\ \A i \in 1 .. m : SubSeq(s, 1, m)[i] = s[i]
         /\ m = Len(s) => SubSeq(s, 1, m) = s
  <1>1. Len(s) \in Nat /\ m \in Int /\ m <= Len(s)
    OBVIOUS
  <1>2. SubSeq(s, 1, m) \in Seq(S) /\ Len(SubSeq(s, 1, m)) = m
        /\ \A i \in 1 .. m : SubSeq(s, 1, m)[i] = s[i]
    BY SubSeqProperties
  <1>3. m = Len(s) => SubSeq(s, 1, m) = s
    BY <1>1, <1>2, SeqEqual
  <1> QED BY <1>1, <1>2, <1>3

(* What cutting the queue off does to them. *)
LEMMA PrefixKinds ==
  ASSUME NEW S, NEW s \in Seq(S), NEW m \in 0 .. Len(s), NEW K
  PROVE  /\ NoKind(s, K) => NoKind(SubSeq(s, 1, m), K)
         /\ LastOnly(s, K) => LastOnly(SubSeq(s, 1, m), K)
                /\ (m # Len(s) => NoKind(SubSeq(s, 1, m), K))
  <1>1. PICK n \in Nat : n = Len(s) /\ m \in 0 .. n
    BY PrefixFacts
  <1>2. Len(SubSeq(s, 1, m)) = m /\ \A i \in 1 .. m : SubSeq(s, 1, m)[i] = s[i] /\ i \in 1 .. n
    BY <1>1, PrefixFacts
  <1>3. NoKind(s, K) => NoKind(SubSeq(s, 1, m), K)
    BY <1>1, <1>2 DEF NoKind
  <1>4. LastOnly(s, K) => LastOnly(SubSeq(s, 1, m), K)
    BY <1>1, <1>2 DEF LastOnly
  <1>5. LastOnly(s, K) /\ m # Len(s) => NoKind(SubSeq(s, 1, m), K)
    BY <1>1, <1>2 DEF LastOnly, NoKind
  <1> QED BY <1>3, <1>4, <1>5

(* Blocks in order. *)
LEMMA NumberedEmpty ==
  ASSUME NEW a \in Nat, NEW b \in Nat
  PROVE  Numbered(<<>>, a, b) <=> a = b
  <1>1. ASSUME Numbered(<<>>, a, b) PROVE a = b
    BY <1>1 DEF Numbered
  <1>2. Numbered(<<>>, a, a)
    <2> DEFINE f == [i \in 1 .. 1 |-> a]
    <2>1. f \in [1 .. Len(<<>>) + 1 -> Nat] /\ f[1] = a /\ f[Len(<<>>) + 1] = a
      OBVIOUS
    <2>2. \A i \in 1 .. Len(<<>>) : FALSE
      OBVIOUS
    <2> HIDE DEF f
    <2> QED BY <2>1, <2>2 DEF Numbered
  <1> QED BY <1>1, <1>2

(* The first packet of a numbered queue is read. *)
LEMMA NumberedTail ==
  ASSUME NEW S, NEW s \in Seq(S), s # <<>>, NEW a \in Nat, NEW b \in Nat, Numbered(s, a, b)
  PROVE  /\ Head(s).kind = "Data" => Head(s).n = a /\ Numbered(Tail(s), a + 1, b)
         /\ Head(s).kind # "Data" => Numbered(Tail(s), a, b)
  <1>1. PICK n \in Nat : n = Len(s) /\ n >= 1 /\ Len(Tail(s)) = n - 1
    BY TailFacts
  <1>2. Head(s) = s[1] /\ \A i \in 1 .. n - 1 : Tail(s)[i] = s[i + 1]
    BY <1>1, TailFacts
  <1>3. PICK f \in [1 .. n + 1 -> Nat] :
          /\ f[1] = a /\ f[n + 1] = b
          /\ \A i \in 1 .. n :
              IF s[i].kind = "Data" THEN s[i].n = f[i] /\ f[i + 1] = f[i] + 1
                                    ELSE f[i + 1] = f[i]
    BY <1>1 DEF Numbered
  <1> DEFINE g == [i \in 1 .. n |-> f[i + 1]]
  <1>4. g \in [1 .. (n - 1) + 1 -> Nat] /\ g[1] = f[2] /\ g[(n - 1) + 1] = b
    BY <1>1, <1>3
  <1>5. \A i \in 1 .. n - 1 :
          IF Tail(s)[i].kind = "Data" THEN Tail(s)[i].n = g[i] /\ g[i + 1] = g[i] + 1
                                      ELSE g[i + 1] = g[i]
    <2> TAKE i \in 1 .. n - 1
    <2>1. i + 1 \in 1 .. n /\ g[i] = f[i + 1] /\ g[i + 1] = f[(i + 1) + 1]
      BY <1>1
    <2> QED BY <1>2, <1>3, <2>1
  <1> HIDE DEF g
  <1>6. Numbered(Tail(s), f[2], b)
    BY <1>1, <1>4, <1>5 DEF Numbered
  <1>7. 1 \in 1 .. n /\ 1 + 1 = 2
    BY <1>1
  <1> QED BY <1>2, <1>3, <1>6, <1>7

(* The next block, or a packet without one, is added. *)
LEMMA NumberedAppend ==
  ASSUME NEW S, NEW s \in Seq(S), NEW p \in S, NEW a \in Nat, NEW b \in Nat, Numbered(s, a, b)
  PROVE  /\ p.kind = "Data" /\ p.n = b => Numbered(Append(s, p), a, b + 1)
         /\ p.kind # "Data" => Numbered(Append(s, p), a, b)
  <1>1. PICK n \in Nat : n = Len(s) /\ Len(Append(s, p)) = n + 1
    BY AppendFacts
  <1>2. /\ \A i \in 1 .. n : Append(s, p)[i] = s[i]
        /\ Append(s, p)[n + 1] = p
    BY <1>1, AppendFacts
  <1>3. PICK f \in [1 .. n + 1 -> Nat] :
          /\ f[1] = a /\ f[n + 1] = b
          /\ \A i \in 1 .. n :
              IF s[i].kind = "Data" THEN s[i].n = f[i] /\ f[i + 1] = f[i] + 1
                                    ELSE f[i + 1] = f[i]
    BY <1>1 DEF Numbered
  <1>4. ASSUME NEW c \in Nat, IF p.kind = "Data" THEN p.n = b /\ c = b + 1 ELSE c = b
        PROVE  Numbered(Append(s, p), a, c)
    <2> DEFINE g == [i \in 1 .. n + 2 |-> IF i = n + 2 THEN c ELSE f[i]]
    <2>1. g \in [1 .. (n + 1) + 1 -> Nat] /\ g[1] = a /\ g[(n + 1) + 1] = c /\ g[n + 1] = b
      BY <1>1, <1>3
    <2>2. \A i \in 1 .. n : g[i] = f[i] /\ g[i + 1] = f[i + 1]
      BY <1>1
    <2> HIDE DEF g
    <2>3. \A i \in 1 .. n + 1 : i \in 1 .. n \/ i = n + 1
      BY <1>1
    <2>4. \A i \in 1 .. n + 1 :
            IF Append(s, p)[i].kind = "Data"
            THEN Append(s, p)[i].n = g[i] /\ g[i + 1] = g[i] + 1 ELSE g[i + 1] = g[i]
      <3> TAKE i \in 1 .. n + 1
      <3>1. CASE i \in 1 .. n
        BY <1>2, <1>3, <2>2, <3>1
      <3>2. CASE i = n + 1
        BY <1>2, <1>4, <2>1, <3>2
      <3> QED BY <2>3, <3>1, <3>2
    <2> QED BY <1>1, <2>1, <2>4 DEF Numbered
  <1>5. ASSUME p.kind = "Data", p.n = b PROVE Numbered(Append(s, p), a, b + 1)
    <2>1. PICK c \in Nat : c = b + 1
      OBVIOUS
    <2>2. IF p.kind = "Data" THEN p.n = b /\ c = b + 1 ELSE c = b
      BY <1>5, <2>1
    <2>3. Numbered(Append(s, p), a, c)
      BY <1>4, <2>2
    <2> QED BY <2>1, <2>3
  <1>6. ASSUME p.kind # "Data" PROVE Numbered(Append(s, p), a, b)
    BY <1>4, <1>6
  <1> QED BY <1>5, <1>6

(* A queue that is cut off is still in order. *)
LEMMA NumberedPrefix ==
  ASSUME NEW S, NEW s \in Seq(S), NEW m \in 0 .. Len(s), NEW a \in Nat, NEW b \in Nat,
         Numbered(s, a, b)
  PROVE  \E c \in Nat : Numbered(SubSeq(s, 1, m), a, c)
  <1>1. PICK n \in Nat : n = Len(s) /\ m \in 0 .. n
    BY PrefixFacts
  <1>2. Len(SubSeq(s, 1, m)) = m /\ \A i \in 1 .. m : SubSeq(s, 1, m)[i] = s[i] /\ i \in 1 .. n
    BY <1>1, PrefixFacts
  <1>3. PICK f \in [1 .. n + 1 -> Nat] :
          /\ f[1] = a /\ f[n + 1] = b
          /\ \A i \in 1 .. n :
              IF s[i].kind = "Data" THEN s[i].n = f[i] /\ f[i + 1] = f[i] + 1
                                    ELSE f[i + 1] = f[i]
    BY <1>1 DEF Numbered
  <1>a. m \in Nat /\ \A i \in 1 .. m + 1 : i \in 1 .. n + 1
    BY <1>1
  <1>b. \A i \in 1 .. m : i \in 1 .. m + 1 /\ i + 1 \in 1 .. m + 1
    BY <1>a
  <1>c. 1 \in 1 .. m + 1 /\ m + 1 \in 1 .. m + 1
    BY <1>a
  <1> DEFINE g == [i \in 1 .. m + 1 |-> f[i]]
  <1>4. g \in [1 .. m + 1 -> Nat] /\ g[1] = a /\ g[m + 1] = f[m + 1] /\ f[m + 1] \in Nat
    BY <1>3, <1>a, <1>c
  <1>5. \A i \in 1 .. m : g[i] = f[i] /\ g[i + 1] = f[i + 1]
    BY <1>b
  <1> HIDE DEF g
  <1>6. \A i \in 1 .. m :
          IF SubSeq(s, 1, m)[i].kind = "Data"
          THEN SubSeq(s, 1, m)[i].n = g[i] /\ g[i + 1] = g[i] + 1 ELSE g[i + 1] = g[i]
    BY <1>2, <1>3, <1>5
  <1>7. PICK c \in Nat : c = g[m + 1]
    BY <1>4
  <1>8. PICK u : u = SubSeq(s, 1, m)
    OBVIOUS
  <1>9. Len(u) = m /\ \A i \in 1 .. m :
          IF u[i].kind = "Data" THEN u[i].n = g[i] /\ g[i + 1] = g[i] + 1
                                ELSE g[i + 1] = g[i]
    BY <1>2, <1>6, <1>8
  <1>10. Numbered(u, a, c)
    BY <1>4, <1>7, <1>9, <1>a DEF Numbered
  <1> QED BY <1>8, <1>10

(***************************************************************************)
(* Steps and the history.                                                  *)
(***************************************************************************)
(* What a statement was told and what the server did for it stay the same, and
   it does not end well now. *)
SameBut(q) ==
    /\ query'[q].kind = query[q].kind /\ query'[q].sound = query[q].sound
    /\ query'[q].given = query[q].given /\ query'[q].flushed = query[q].flushed
    /\ result'[q] = result[q]
    /\ query'[q].outcome = "ok" => query[q].outcome = "ok"

(* The history is kept by a step that changes no record of it. *)
LEMMA HistoryKept ==
  ASSUME BinInv, \A q \in Queries : SameBut(q)
  PROVE  History'
  <1>1. OwnBlocksInOrder'
    BY DEF BinInv, History, SameBut, OwnBlocksInOrder
  <1>2. NoSilentTruncation'
    BY DEF BinInv, History, SameBut, NoSilentTruncation
  <1>3. InsertAcknowledged'
    BY DEF BinInv, History, SameBut, InsertAcknowledged
  <1>4. InsertsAreSound'
    BY DEF BinInv, History, SameBut, InsertsAreSound
  <1> QED BY <1>1, <1>2, <1>3, <1>4 DEF History

(* No step but a new request gives the server more to do. *)
LEMMA OverKept ==
  ASSUME BinInv, \A q \in Queries : SameBut(q), server' = server \/ server' = Idle,
         toServer' = toServer \/ toServer' = <<>>
  PROVE  DoneIsOver'
  <1> SUFFICES ASSUME NEW q \in Queries, (query[q].outcome = "ok" /\ query[q].sound)'
               PROVE  /\ (server.q # q)'
                      /\ \A i \in 1 .. Len(toServer') :
                            toServer'[i].kind \in Requests => toServer'[i].q # q
    BY DEF DoneIsOver
  <1>1. query[q].outcome = "ok" /\ query[q].sound
    BY DEF SameBut
  <1>2. server.q # q /\ \A i \in 1 .. Len(toServer) :
            toServer[i].kind \in Requests => toServer[i].q # q
    BY <1>1 DEF BinInv, DoneIsOver
  <1>3. server'.q # q
    BY <1>2, BoundAssumption DEF Idle, Queries
  <1> QED BY <1>2, <1>3

(* A statement fails. *)
LEMMA FailsFacts ==
  ASSUME ClientTypes, NEW q \in Queries, Fails(q), result' = result
  PROVE  /\ query' \in [Queries -> QueryRecs] /\ \A r \in Queries : SameBut(r)
         /\ \A r \in Queries : r # q => query'[r] = query[r]
  <1>1. query \in [Queries -> QueryRecs]
    BY DEF ClientTypes
  <1>2. query' = [query EXCEPT ![q] = [query[q] EXCEPT !.outcome = "error"]]
    BY DEF Fails
  <1>3. [query[q] EXCEPT !.outcome = "error"] \in QueryRecs
    BY <1>1 DEF QueryRecs
  <1>4. query' \in [Queries -> QueryRecs]
    BY <1>1, <1>2, <1>3
  <1>5. ASSUME NEW r \in Queries PROVE SameBut(r)
    <2>1. CASE r # q
      <3>1. query'[r] = query[r]
        BY <1>1, <1>2, <2>1
      <3> QED BY <3>1 DEF SameBut
    <2>2. CASE r = q
      <3>1. query'[r] = [query[q] EXCEPT !.outcome = "error"]
        BY <1>1, <1>2, <2>2
      <3>2. query[q] \in QueryRecs
        BY <1>1
      <3> QED BY <2>2, <3>1, <3>2 DEF SameBut, QueryRecs
    <2> QED BY <2>1, <2>2
  <1>6. \A r \in Queries : r # q => query'[r] = query[r]
    BY <1>1, <1>2
  <1> QED BY <1>4, <1>5, <1>6

(* The packets under way. *)
LEMMA Packets ==
  ASSUME BinInv
  PROVE  /\ toServer \in Seq(ToServer) /\ toClient \in Seq(ToClient)
         /\ \A i \in 1 .. Len(toServer) : toServer[i] \in ToServer /\ toServer[i].q \in Nat
         /\ \A i \in 1 .. Len(toClient) : toClient[i] \in ToClient /\ toClient[i].q \in Nat
  <1>1. toServer \in Seq(ToServer) /\ toClient \in Seq(ToClient)
    BY DEF BinInv, NetTypes
  <1>2. /\ \A i \in 1 .. Len(toServer) : toServer[i] \in ToServer
        /\ \A i \in 1 .. Len(toClient) : toClient[i] \in ToClient
    BY <1>1
  <1>3. (\A p \in ToServer : p.q \in Nat) /\ \A p \in ToClient : p.q \in Nat
    BY BoundAssumption DEF ToServer, ToClient, Queries
  <1> QED BY <1>1, <1>2, <1>3

(* Statements to come are not touched. *)
LEMMA FreshKept ==
  ASSUME BinInv, asked' \in Queries \cup {0}, asked <= asked',
         \A r \in Queries : r > asked' => query'[r] = query[r],
         result' = result, server' = server \/ server' = Idle,
         toServer' = toServer \/ toServer' = <<>>
  PROVE  ToComeIsFresh'
  <1>1. asked \in Nat /\ asked' \in Nat /\ server.q \in Nat
    BY BoundAssumption DEF BinInv, ClientTypes, NetTypes, Tasks, Queries
  <1>2. \A i \in 1 .. Len(toServer) : toServer[i].q \in Nat /\ toServer[i].q <= asked
    BY Packets DEF BinInv, ToComeIsFresh
  <1>3. \A i \in 1 .. Len(toServer') : toServer'[i].q <= asked'
    BY <1>1, <1>2
  <1>4. server'.q <= asked'
    <2>1. server.q <= asked
      BY DEF BinInv, ToComeIsFresh
    <2>2. server'.q = server.q \/ server'.q = 0
      BY DEF Idle
    <2> QED BY <1>1, <2>1, <2>2
  <1>5. \A r \in Queries : r > asked' => r > asked
    BY <1>1 DEF Queries
  <1> QED BY <1>3, <1>4, <1>5 DEF BinInv, ToComeIsFresh

(* The record of the last statement. *)
LEMMA FlushedType ==
  ASSUME BinInv, asked # 0
  PROVE  asked \in Queries /\ query[asked] \in QueryRecs /\ query[asked].flushed + 1 \in Nat
  <1>1. asked \in Queries /\ query[asked] \in QueryRecs
    BY DEF BinInv, ClientTypes
  <1> QED BY <1>1, BoundAssumption DEF QueryRecs

(* Between statements only the wire matters. *)
LEMMA AtRest ==
  ASSUME (ClientTypes /\ NetTypes /\ ToComeIsFresh)', pc' \in {"idle", "leased"},
         resp' = NoResp, polls' = FALSE, deadline' = FALSE,
         RestIsQuiet', BrokenWire', DoneIsOver', History'
  PROVE  BinInv'
  <1>1. pc' \notin ScanStages /\ pc' \notin InsertStages /\ pc' \notin {"starting", "open"}
    BY DEF ScanStages, InsertStages
  <1>2. StagesMean'
    BY <1>1 DEF StagesMean, NoResp
  <1>3. ReplyIsOwn' /\ BlocksInOrder' /\ ScanReply' /\ InsertReply' /\ ScanResult'
    BY <1>1 DEF ReplyIsOwn, BlocksInOrder, ScanReply, InsertReply, ScanResult, Current
  <1> QED BY <1>2, <1>3 DEF BinInv, WireInv

(* A statement without a response is given up and the connection marked. *)
LEMMA GiveUpSafe ==
  ASSUME BinInv, pc \notin ScanStages, NEW q \in Queries, Fails(q),
         broken' = TRUE, pc' = "idle", canceled' = FALSE,
         UNCHANGED <<polls, deadline, resp, up, toServer, server, result>>,
         toClient' \in Seq(ToClient), HasBlocks(toClient'),
         asked' \in Queries \cup {0}, q <= asked', asked <= asked',
         up => (\/ pc \in InsertStages \ {"preparing"}
                \/ server = Idle /\ NoKind(toServer, Requests))
  PROVE  BinInv'
  <1>1. query' \in [Queries -> QueryRecs] /\ \A r \in Queries : SameBut(r)
    BY FailsFacts DEF BinInv
  <1>2. (ClientTypes /\ NetTypes)'
    BY <1>1 DEF BinInv, ClientTypes, NetTypes, Stages
  <1>3. ToComeIsFresh'
    <2>1. \A r \in Queries : r # q => query'[r] = query[r]
      BY FailsFacts DEF BinInv
    <2>2. \A r \in Queries : r > asked' => r # q
      BY BoundAssumption DEF Queries
    <2>3. \A r \in Queries : r > asked' => query'[r] = query[r]
      BY <2>1, <2>2
    <2> QED BY <2>3, FreshKept
  <1>4. resp' = NoResp /\ polls' = FALSE /\ deadline' = FALSE
    BY DEF BinInv, StagesMean
  <1>5. RestIsQuiet'
    BY DEF RestIsQuiet
  <1>6. BrokenWire'
    <2> SUFFICES ASSUME up PROVE /\ server.mode # "insert" /\ NoKind(toServer, {"Insert"})
                                 /\ server.mode = "accept" => \E b \in Nat : InputIs(b)
      BY DEF BrokenWire, InputIs
    <2>1. CASE pc \in InsertStages \ {"preparing"}
      <3>1. /\ server.mode # "insert" /\ NoKind(toServer, Requests)
            /\ server.mode = "accept" => InputIs(query[asked].flushed + 1)
        BY <2>1 DEF BinInv, WireInv, InsertReply
      <3>2. NoKind(toServer, {"Insert"})
        BY <3>1 DEF NoKind, Requests
      <3>3. query[asked].flushed + 1 \in Nat
        BY <2>1, FlushedType DEF BinInv, StagesMean
      <3>4. server.mode = "accept" => \E b \in Nat : InputIs(b)
        BY <3>1, <3>3
      <3> QED BY <3>1, <3>2, <3>4
    <2>2. CASE server = Idle /\ NoKind(toServer, Requests)
      BY <2>2 DEF NoKind, Requests, Idle
    <2> QED BY <2>1, <2>2
  <1>7. DoneIsOver' /\ History'
    BY <1>1, HistoryKept, OverKept
  <1> QED BY <1>2, <1>3, <1>4, <1>5, <1>6, <1>7, AtRest

(***************************************************************************)
(* Steps between statements, and failures.                                 *)
(***************************************************************************)
(* A broken connection is replaced. *)
LEMMA ReconnectSafe == ASSUME BinInv, Reconnect PROVE BinInv'
  <1>1. pc' = "idle" /\ resp' = NoResp /\ polls' = FALSE /\ deadline' = FALSE
    BY DEF Reconnect, BinInv, StagesMean, ScanStages
  <1>2. \A q \in Queries : SameBut(q)
    BY DEF Reconnect, SameBut
  <1>3. toServer' \in Seq(ToServer) /\ toClient' \in Seq(ToClient)
        /\ HasBlocks(toServer') /\ HasBlocks(toClient')
    BY DEF Reconnect, HasBlocks
  <1>4. server' \in Tasks /\ (server'.mode = "idle" <=> server'.q = 0)
    BY DEF Reconnect, Tasks, Idle
  <1>5. (ClientTypes /\ NetTypes)'
    BY <1>3, <1>4 DEF Reconnect, BinInv, ClientTypes, NetTypes
  <1>6. ToComeIsFresh'
    BY FreshKept, BoundAssumption DEF Reconnect, BinInv, ClientTypes, Queries
  <1>7. KindsIn(<<>>, {"Cancel"})
    BY DEF KindsIn
  <1>8. RestIsQuiet' /\ BrokenWire'
    BY <1>7 DEF Reconnect, RestIsQuiet, BrokenWire
  <1>9. DoneIsOver' /\ History'
    BY <1>2, HistoryKept, OverKept DEF Reconnect
  <1> QED BY <1>1, <1>5, <1>6, <1>8, <1>9, AtRest

(* A scan takes the connection, or gives it back. *)
LEMMA LeaseSafe == ASSUME BinInv, LeaseForScan \/ EndScan PROVE BinInv'
  <1>0. /\ pc' \in {"idle", "leased"} /\ pc \in {"idle", "leased"}
        /\ pc' = "leased" => ~broken
        /\ UNCHANGED <<connVars, resp, netVars, asked, query, result>>
        /\ canceled' = canceled \/ canceled' = FALSE
    BY DEF LeaseForScan, EndScan, Over
  <1>a. UNCHANGED <<broken, polls, deadline, resp, up, toServer, toClient, server, asked, query, result>>
    BY <1>0 DEF connVars, netVars
  <1>1. resp' = NoResp /\ polls' = FALSE /\ deadline' = FALSE
    BY <1>0, <1>a DEF BinInv, StagesMean, ScanStages
  <1>2. \A q \in Queries : SameBut(q)
    BY <1>a DEF SameBut
  <1>5. (ClientTypes /\ NetTypes)'
    BY <1>0, <1>a DEF BinInv, ClientTypes, NetTypes, Stages
  <1>6. ToComeIsFresh'
    BY <1>a DEF BinInv, ToComeIsFresh
  <1>8. RestIsQuiet' /\ BrokenWire'
    BY <1>0, <1>a DEF BinInv, WireInv, RestIsQuiet, BrokenWire, Current, ScanStages,
                      InsertStages, InputIs
  <1>9. DoneIsOver' /\ History'
    BY <1>2, <1>a, HistoryKept, OverKept
  <1> QED BY <1>0, <1>1, <1>5, <1>6, <1>8, <1>9, AtRest

(* A cancellation comes in, or nothing happens. *)
LEMMA CancelSafe == ASSUME BinInv, CancelRequest \/ UNCHANGED vars PROVE BinInv'
  <1>1. /\ UNCHANGED <<broken, polls, deadline, resp, pc, up, toServer, toClient, server,
                       asked, query, result>>
        /\ canceled' \in BOOLEAN
    BY DEF CancelRequest, vars, connVars, netVars, BinInv, ClientTypes
  <1>2. (ClientTypes /\ NetTypes /\ ToComeIsFresh /\ StagesMean)'
    BY <1>1 DEF BinInv, ClientTypes, NetTypes, ToComeIsFresh, StagesMean
  <1>3. Current' = Current
    BY <1>1 DEF Current
  <1>4. (RestIsQuiet /\ ReplyIsOwn /\ BlocksInOrder)'
    BY <1>1, <1>3 DEF BinInv, WireInv, RestIsQuiet, ReplyIsOwn, BlocksInOrder, Received
  <1>5. (ScanReply /\ InsertReply /\ BrokenWire)'
    BY <1>1, <1>3 DEF BinInv, WireInv, ScanReply, InsertReply, BrokenWire, InputIs
  <1>6. (ScanResult /\ DoneIsOver)'
    BY <1>1 DEF BinInv, ScanResult, Received, DoneIsOver
  <1>7. \A q \in Queries : SameBut(q)
    BY <1>1 DEF SameBut
  <1> QED BY <1>2, <1>4, <1>5, <1>6, <1>7, HistoryKept DEF BinInv, WireInv

(* asked + 1 is the number of a query. *)
LEMMA NextQuery ==
  ASSUME BinInv, asked < MaxQueries
  PROVE  asked + 1 \in Queries /\ asked + 1 # 0 /\ asked <= asked + 1 /\ asked \in Nat
  BY BoundAssumption DEF BinInv, ClientTypes, Queries

(* A request cannot be sent. *)
LEMMA SendFailsSafe == ASSUME BinInv, SendQueryFails \/ BeginInsertFails PROVE BinInv'
  <1>1. /\ pc \in {"idle", "leased"} /\ asked < MaxQueries /\ asked' = asked + 1
        /\ SendFails /\ broken' = TRUE /\ Fails(asked + 1) /\ Over
        /\ UNCHANGED <<polls, deadline, resp, up, toClient, server, result>>
    BY DEF SendQueryFails, BeginInsertFails
  <1>2. asked + 1 \in Queries /\ asked <= asked + 1 /\ asked' <= asked'
    BY <1>1, NextQuery
  <1>3. pc \notin ScanStages
    BY <1>1 DEF ScanStages
  <1>4. toClient' \in Seq(ToClient) /\ HasBlocks(toClient')
    BY <1>1 DEF BinInv, NetTypes
  <1> QED BY <1>1, <1>2, <1>3, <1>4, GiveUpSafe DEF SendFails, Over

(* An INSERT is given up. *)
LEMMA GiveUpInsert ==
  ASSUME BinInv, pc \in InsertStages, Fails(asked), broken' = TRUE, Over,
         UNCHANGED <<polls, deadline, resp, up, toServer, server, asked, result>>,
         toClient' \in Seq(ToClient), HasBlocks(toClient'),
         up /\ pc = "preparing" => server = Idle /\ NoKind(toServer, Requests)
  PROVE  BinInv'
  <1>1. asked \in Queries
    BY FlushedType DEF BinInv, StagesMean
  <1>2. pc \notin ScanStages
    BY DEF ScanStages, InsertStages
  <1>3. asked' \in Queries \cup {0} /\ asked <= asked' /\ asked <= asked
    BY <1>1, BoundAssumption DEF Queries
  <1> QED BY <1>1, <1>2, <1>3, GiveUpSafe DEF Over

(* The schema of an INSERT does not come. *)
LEMMA PrepareFailsSafe == ASSUME BinInv, PrepareFails PROVE BinInv'
  <1>1. pc \in InsertStages /\ pc \notin ScanStages
    BY DEF PrepareFails, InsertStages, ScanStages
  <1>2. ~up
    BY <1>1 DEF PrepareFails, Interrupted, BinInv, StagesMean
  <1>3. /\ Fails(asked) /\ broken' = TRUE /\ Over
        /\ UNCHANGED <<polls, deadline, resp, up, toServer, toClient, server, asked, result>>
    BY DEF PrepareFails, netVars
  <1>4. toClient' \in Seq(ToClient) /\ HasBlocks(toClient')
    BY <1>3 DEF BinInv, NetTypes
  <1> QED BY <1>1, <1>2, <1>3, <1>4, GiveUpInsert

(* An INSERT is given up half way. *)
LEMMA ReleaseSafe == ASSUME BinInv, ch_binary_release_insert PROVE BinInv'
  <1>1. pc \in InsertStages /\ pc = "inserting"
    BY DEF ch_binary_release_insert, InsertStages
  <1>3. /\ Fails(asked) /\ broken' = TRUE /\ Over
        /\ UNCHANGED <<polls, deadline, resp, up, toServer, toClient, server, asked, result>>
    BY DEF ch_binary_release_insert, netVars, ReleaseBreaks
  <1>4. toClient' \in Seq(ToClient) /\ HasBlocks(toClient')
    BY <1>3 DEF BinInv, NetTypes
  <1> QED BY <1>1, <1>3, <1>4, GiveUpInsert

(***************************************************************************)
(* Freeing a response, and the drain.                                      *)
(***************************************************************************)
(* No INSERT is under way while a scan holds the connection. *)
LEMMA ScanWire ==
  ASSUME BinInv, pc \in ScanStages, up
  PROVE  server.mode \notin {"insert", "accept"} /\ NoKind(toServer, {"Insert"})
  <1>0. pc # "idle" /\ pc \notin InsertStages
    BY DEF ScanStages, InsertStages
  <1>1. CASE broken
    BY <1>0, <1>1 DEF BinInv, WireInv, BrokenWire
  <1>2. CASE ~broken /\ Current
    <2>1. server.mode \in {"idle", "select"} /\ KindsIn(toServer, {"Query", "Cancel"})
      BY <1>2 DEF BinInv, WireInv, ScanReply
    <2> QED BY <2>1 DEF KindsIn, NoKind
  <1>3. CASE ~broken /\ ~Current
    <2>1. server = Idle /\ KindsIn(toServer, {"Cancel"})
      BY <1>3 DEF BinInv, WireInv, RestIsQuiet
    <2> QED BY <2>1 DEF KindsIn, NoKind, Idle
  <1> QED BY <1>1, <1>2, <1>3

(* A response with an error makes the scan fail. *)
LEMMA OutcomeFacts ==
  ASSUME BinInv, pc \in ScanStages, Outcome \/ query' = query, result' = result
  PROVE  /\ query' \in [Queries -> QueryRecs] /\ \A r \in Queries : SameBut(r)
         /\ \A r \in Queries : r # asked => query'[r] = query[r]
  <1>1. resp.q = asked /\ asked \in Queries
    BY FlushedType DEF BinInv, StagesMean
  <1>2. CASE query' = query
    BY <1>2 DEF BinInv, ClientTypes, SameBut
  <1>3. CASE Fails(asked)
    BY <1>1, <1>3, FailsFacts DEF BinInv
  <1> QED BY <1>1, <1>2, <1>3 DEF Outcome

(* The response is freed. *)
LEMMA FreedSafe ==
  ASSUME BinInv, pc \in ScanStages, Freed, Outcome \/ query' = query,
         UNCHANGED <<up, toServer, server, asked, result>>, broken' \in BOOLEAN,
         toClient' \in Seq(ToClient), HasBlocks(toClient'), RestIsQuiet'
  PROVE  BinInv'
  <1>1. /\ query' \in [Queries -> QueryRecs] /\ \A r \in Queries : SameBut(r)
        /\ \A r \in Queries : r # asked => query'[r] = query[r]
    BY OutcomeFacts
  <1>2. pc' \in {"idle", "leased"} /\ resp' = NoResp /\ polls' = FALSE /\ deadline' = FALSE
        /\ canceled' \in BOOLEAN
    BY DEF Freed, Over, BinInv, ClientTypes
  <1>3. resp' \in Responses /\ pc' \in Stages
    BY <1>2 DEF NoResp, Responses, Stages
  <1>4. (ClientTypes /\ NetTypes)'
    BY <1>1, <1>2, <1>3 DEF BinInv, ClientTypes, NetTypes
  <1>5. ToComeIsFresh'
    <2>1. asked \in Nat /\ asked' \in Queries \cup {0} /\ asked <= asked'
      BY BoundAssumption DEF BinInv, ClientTypes, Queries
    <2>2. \A r \in Queries : r > asked' => query'[r] = query[r]
      BY <1>1, <2>1 DEF Queries
    <2> QED BY <2>1, <2>2, FreshKept
  <1>6. BrokenWire'
    BY ScanWire DEF BrokenWire
  <1>7. DoneIsOver' /\ History'
    BY <1>1, HistoryKept, OverKept
  <1> QED BY <1>2, <1>4, <1>5, <1>6, <1>7, AtRest

(* A response that was read to its end is freed. *)
LEMMA FreeAtEndSafe == ASSUME BinInv, FreeAtEnd PROVE BinInv'
  <1>1. /\ pc \in ScanStages /\ pc \notin InsertStages /\ resp.eos /\ Outcome /\ Freed
        /\ UNCHANGED <<broken, up, toServer, toClient, server, asked, result>>
    BY DEF FreeAtEnd, Freeing, ScanStages, InsertStages, netVars
  <1>2. ~Current
    BY <1>1 DEF Current
  <1>3. RestIsQuiet'
    BY <1>1, <1>2 DEF BinInv, WireInv, RestIsQuiet
  <1>4. toClient' \in Seq(ToClient) /\ HasBlocks(toClient') /\ broken' \in BOOLEAN
    BY <1>1 DEF BinInv, NetTypes, ClientTypes
  <1> QED BY <1>1, <1>3, <1>4, FreedSafe

(* One that was not, when Cancel cannot be sent. *)
LEMMA FreeUnsentSafe == ASSUME BinInv, FreeUnsent PROVE BinInv'
  <1>1. /\ pc \in ScanStages /\ Outcome /\ Freed /\ broken' = TRUE
        /\ UNCHANGED <<up, toServer, toClient, server, asked, result>>
    BY DEF FreeUnsent, Freeing, ScanStages, SendFails
  <1>3. RestIsQuiet'
    BY <1>1 DEF RestIsQuiet
  <1>4. toClient' \in Seq(ToClient) /\ HasBlocks(toClient') /\ broken' \in BOOLEAN
    BY <1>1 DEF BinInv, NetTypes
  <1> QED BY <1>1, <1>3, <1>4, FreedSafe

(* The first packet is read. *)
LEMMA ReadFacts ==
  ASSUME BinInv, Receives
  PROVE  /\ toClient # <<>> /\ toClient \in Seq(ToClient) /\ toClient' = Tail(toClient)
         /\ toClient' \in Seq(ToClient) /\ HasBlocks(toClient')
         /\ Head(toClient) \in ToClient /\ Head(toClient) = toClient[1]
         /\ Head(toClient).kind = "Data" => Head(toClient).n \in 0 .. MaxBlocks
         /\ \A i \in 1 .. Len(toClient') : \E j \in 1 .. Len(toClient) : toClient'[i] = toClient[j]
  <1>1. toClient # <<>> /\ toClient \in Seq(ToClient) /\ toClient' = Tail(toClient)
        /\ HasBlocks(toClient)
    BY DEF Receives, BinInv, NetTypes
  <1>2. PICK n \in Nat : n = Len(toClient) /\ n >= 1 /\ Len(toClient') = n - 1
    BY <1>1, TailFacts
  <1>3. /\ toClient' \in Seq(ToClient) /\ Head(toClient) \in ToClient /\ Head(toClient) = toClient[1]
        /\ \A i \in 1 .. n - 1 : toClient'[i] = toClient[i + 1] /\ i + 1 \in 1 .. n
    BY <1>1, <1>2, TailFacts
  <1>4. HasBlocks(toClient')
    BY <1>1, <1>2, <1>3 DEF HasBlocks
  <1>5. Head(toClient).kind = "Data" => Head(toClient).n <= MaxBlocks
    BY <1>1, <1>2, <1>3 DEF HasBlocks
  <1>6. Head(toClient).n \in Nat
    BY <1>3, BoundAssumption DEF ToClient, NoNumber
  <1>7. Head(toClient).kind = "Data" => Head(toClient).n \in 0 .. MaxBlocks
    BY <1>5, <1>6, BoundAssumption
  <1>8. \A i \in 1 .. Len(toClient') : \E j \in 1 .. Len(toClient) : toClient'[i] = toClient[j]
    BY <1>2, <1>3
  <1> QED BY <1>1, <1>3, <1>4, <1>7, <1>8

(* The packet that ends the reply is the last one. *)
LEMMA LastIsRead ==
  ASSUME BinInv, Receives, Current, Head(toClient).kind \in Ends
  PROVE  toClient' = <<>> /\ server = Idle /\ NoKind(toServer, Requests)
         /\ ~NoKind(toClient, {Head(toClient).kind})
  <1>1. toClient # <<>> /\ toClient \in Seq(ToClient) /\ toClient' = Tail(toClient)
    BY ReadFacts
  <1>2. LastOnly(toClient, Ends)
    BY DEF BinInv, WireInv, ReplyIsOwn
  <1>3. toClient' = <<>>
    BY <1>1, <1>2, TailKinds
  <1>4. ~NoKind(toClient, Ends) /\ ~NoKind(toClient, {Head(toClient).kind})
    BY <1>1, TailKinds
  <1> QED BY <1>3, <1>4 DEF BinInv, WireInv, ReplyIsOwn

(* The drain is interrupted. *)
LEMMA DrainFailsSafe == ASSUME BinInv, DrainFails PROVE BinInv'
  <1>1. /\ Draining /\ Interrupted /\ broken' = TRUE /\ Drained(FALSE)
        /\ UNCHANGED <<up, toServer, toClient, server, asked, result>>
    BY DEF DrainFails, netVars
  <1>2. toClient' \in Seq(ToClient) /\ HasBlocks(toClient') /\ broken' \in BOOLEAN
    BY <1>1 DEF BinInv, NetTypes
  <1>3. CASE pc = "draining"
    <2>1. RestIsQuiet'
      BY <1>1 DEF RestIsQuiet
    <2>2. Freed /\ query' = query /\ pc \in ScanStages
      BY <1>1, <1>3 DEF Drained, ScanStages
    <2> QED BY <1>1, <1>2, <2>1, <2>2, FreedSafe
  <1>4. CASE pc # "draining"
    <2>1. pc \in InsertStages /\ pc # "preparing" /\ Fails(asked) /\ Over
          /\ UNCHANGED <<resp, polls, deadline>>
      BY <1>1, <1>4 DEF Drained, Draining, InsertStages, Fails
    <2> QED BY <1>1, <1>2, <2>1, GiveUpInsert
  <1> QED BY <1>3, <1>4

(* ch_binary_drain at the end of a reply to a query, *)
LEMMA DrainScanEnd ==
  ASSUME BinInv, ch_binary_drain, pc = "draining", EndsDrain(Head(toClient))
  PROVE  BinInv'
  <1>1. /\ Receives /\ Freed /\ query' = query /\ pc \in ScanStages /\ pc \notin InsertStages
        /\ broken' = (broken \/ Head(toClient).kind = "Exception")
        /\ UNCHANGED <<up, toServer, server, asked, result>>
    BY DEF ch_binary_drain, Drained, ScanStages, InsertStages, BreaksDrain
  <1>2. toClient' \in Seq(ToClient) /\ HasBlocks(toClient') /\ broken' \in BOOLEAN
    BY <1>1, ReadFacts DEF BinInv, ClientTypes
  <1>3. RestIsQuiet'
    <2> SUFFICES ASSUME ~broken'
                 PROVE  toClient' = <<>> /\ server = Idle /\ KindsIn(toServer, {"Cancel"})
      BY <1>1 DEF RestIsQuiet
    <2>1. Current /\ Head(toClient).kind \in Ends
      BY <1>1 DEF Current, BinInv, StagesMean, EndsDrain, Ends
    <2>2. toClient' = <<>> /\ server = Idle /\ NoKind(toServer, Requests)
      BY <1>1, <2>1, LastIsRead
    <2>3. KindsIn(toServer, {"Query", "Cancel"})
      BY <1>1, <2>1 DEF BinInv, WireInv, ScanReply
    <2>4. KindsIn(toServer, {"Cancel"})
      BY <2>2, <2>3 DEF KindsIn, NoKind, Requests
    <2> QED BY <2>2, <2>4
  <1> QED BY <1>1, <1>2, <1>3, FreedSafe

(* to an INSERT, *)
LEMMA DrainInsertEnd ==
  ASSUME BinInv, ch_binary_drain, pc # "draining", EndsDrain(Head(toClient))
  PROVE  BinInv'
  <1> DEFINE p == Head(toClient)
             o == IF p.kind # "Exception" /\ pc = "finalizing" THEN "ok" ELSE "error"
  <1>1. /\ Receives /\ pc \in {"undoing", "finalizing"} /\ pc \in InsertStages
        /\ broken' = (broken \/ p.kind = "Exception") /\ pc' = "idle" /\ canceled' = FALSE
        /\ query' = [query EXCEPT ![asked] = [query[asked] EXCEPT !.outcome = o]]
        /\ UNCHANGED <<resp, polls, deadline, up, toServer, server, asked, result>>
    BY DEF ch_binary_drain, Drained, Draining, InsertStages, BreaksDrain, Over
  <1>2. toClient' \in Seq(ToClient) /\ HasBlocks(toClient')
    BY <1>1, ReadFacts
  <1>3. p.kind \in Ends /\ Current
    BY <1>1 DEF EndsDrain, Ends, Current
  <1>4. toClient' = <<>> /\ server = Idle /\ ~NoKind(toClient, {p.kind})
    BY <1>1, <1>3, LastIsRead
  <1>5. CASE p.kind = "Exception"
    <2>1. Fails(asked) /\ Over /\ broken' = TRUE
      BY <1>1, <1>5 DEF Fails, Over
    <2> QED BY <1>1, <1>2, <2>1, GiveUpInsert
  <1>6. CASE p.kind = "EndOfStream"
    <2>1. /\ toServer = <<>> /\ result[asked].complete
          /\ Len(result[asked].applied) = query[asked].flushed
      BY <1>1, <1>4, <1>6 DEF BinInv, WireInv, InsertReply
    <2>2. /\ asked \in Queries /\ query[asked] \in QueryRecs
          /\ query[asked].kind = "insert" /\ query[asked].sound /\ ~broken
      BY <1>1, FlushedType DEF BinInv, StagesMean
    <2>3. [query[asked] EXCEPT !.outcome = o] \in QueryRecs
      BY <2>2 DEF QueryRecs
    <2>4. query \in [Queries -> QueryRecs]
      BY DEF BinInv, ClientTypes
    <2>5. /\ query' \in [Queries -> QueryRecs]
          /\ \A r \in Queries : r # asked => query'[r] = query[r]
          /\ query'[asked] = [query[asked] EXCEPT !.outcome = o]
      BY <1>1, <2>2, <2>3, <2>4
    <2>6. /\ query'[asked].kind = "insert" /\ query'[asked].sound
          /\ query'[asked].given = query[asked].given
          /\ query'[asked].flushed = query[asked].flushed
      BY <2>2, <2>5 DEF QueryRecs
    <2>7. ~broken'
      BY <1>1, <1>6, <2>2
    <2>8. (ClientTypes /\ NetTypes)'
      BY <1>1, <1>2, <2>5, <2>7 DEF BinInv, ClientTypes, NetTypes, Stages
    <2>9. ToComeIsFresh'
      <3>1. asked \in Nat /\ asked' \in Queries \cup {0} /\ asked <= asked'
        BY <1>1, BoundAssumption DEF BinInv, ClientTypes, Queries
      <3>2. \A r \in Queries : r > asked' => query'[r] = query[r]
        BY <1>1, <2>5, <3>1 DEF Queries
      <3> QED BY <1>1, <3>1, <3>2, FreshKept
    <2>10. resp' = NoResp /\ polls' = FALSE /\ deadline' = FALSE
      BY <1>1 DEF BinInv, StagesMean, ScanStages
    <2>11. RestIsQuiet' /\ BrokenWire'
      BY <1>1, <1>4, <2>1, <2>7 DEF RestIsQuiet, BrokenWire, KindsIn
    <2>12. DoneIsOver'
      BY <1>1, <1>4, <2>1, BoundAssumption DEF DoneIsOver, Idle, Queries
    <2>13. OwnBlocksInOrder'
      <3>1. \A r \in Queries : /\ query'[r].given = query[r].given
                               /\ query'[r].sound => query[r].sound
        BY <2>2, <2>5, <2>6
      <3> QED BY <3>1 DEF BinInv, History, OwnBlocksInOrder
    <2>14. NoSilentTruncation'
      BY <1>1, <2>5, <2>6 DEF BinInv, History, NoSilentTruncation
    <2>15. InsertAcknowledged'
      BY <1>1, <2>1, <2>2, <2>5, <2>6 DEF BinInv, History, InsertAcknowledged
    <2>16. InsertsAreSound'
      BY <2>5, <2>6 DEF BinInv, History, InsertsAreSound
    <2>17. History'
      BY <2>13, <2>14, <2>15, <2>16 DEF History
    <2> QED BY <1>1, <2>8, <2>9, <2>10, <2>11, <2>12, <2>17, AtRest
  <1> QED BY <1>3, <1>5, <1>6 DEF Ends

(* A packet is read that does not end the reply, and nothing else changes for the
   queries and the server. *)
LEMMA ReadOn ==
  ASSUME BinInv, Receives, Head(toClient).kind \notin Ends, Current,
         UNCHANGED <<toServer, server, asked, result>>
  PROVE  ReplyIsOwn'
         /\ (NoKind(toClient, Ends) <=> NoKind(toClient', Ends))
         /\ (NoKind(toClient, {"EndOfStream"}) <=> NoKind(toClient', {"EndOfStream"}))
  <1>1. toClient # <<>> /\ toClient \in Seq(ToClient) /\ toClient' = Tail(toClient)
    BY ReadFacts
  <1>2. (NoKind(toClient, Ends) <=> NoKind(toClient', Ends))
        /\ (NoKind(toClient, {"EndOfStream"}) <=> NoKind(toClient', {"EndOfStream"}))
    <2>1. Head(toClient).kind \notin {"EndOfStream"}
      BY DEF Ends
    <2> QED BY <1>1, <2>1, TailKinds
  <1>3. LastOnly(toClient, Ends) => LastOnly(toClient', Ends)
    BY <1>1, TailKinds
  <1>4. \A i \in 1 .. Len(toClient') : \E j \in 1 .. Len(toClient) : toClient'[i] = toClient[j]
    BY ReadFacts
  <1>5. NoKind(toServer, Requests)
    BY <1>1 DEF BinInv, WireInv, ReplyIsOwn
  <1>6. /\ \A i \in 1 .. Len(toClient) : toClient[i].q = asked
        /\ LastOnly(toClient, Ends) /\ Once(toServer, Requests)
        /\ ~NoKind(toClient, Ends) => server = Idle
        /\ server # Idle => server.q = asked
        /\ \A i \in 1 .. Len(toServer) : toServer[i].kind \in Requests => toServer[i].q = asked
    BY DEF BinInv, WireInv, ReplyIsOwn
  <1>7. ReplyIsOwn'
    <2>1. \A i \in 1 .. Len(toClient') : toClient'[i].q = asked
      BY <1>4, <1>6
    <2> QED BY <1>2, <1>3, <1>5, <1>6, <2>1 DEF ReplyIsOwn
  <1> QED BY <1>2, <1>7

(* and before it. *)
LEMMA DrainOn ==
  ASSUME BinInv, ch_binary_drain, ~EndsDrain(Head(toClient))
  PROVE  BinInv'
  <1> DEFINE p == Head(toClient)
  <1>1. /\ Receives /\ Draining /\ p.kind \notin Ends /\ broken' = broken
        /\ UNCHANGED <<polls, deadline, resp, pc, canceled, query, up, toServer, server, asked, result>>
    <2>1. broken \in BOOLEAN
      BY DEF BinInv, ClientTypes
    <2> QED BY <2>1 DEF ch_binary_drain, EndsDrain, BreaksDrain, Ends
  <1>2. toClient' \in Seq(ToClient) /\ HasBlocks(toClient') /\ toClient # <<>>
    BY <1>1, ReadFacts
  <1>3. (ClientTypes /\ NetTypes /\ ToComeIsFresh /\ StagesMean)'
    BY <1>1, <1>2 DEF BinInv, ClientTypes, NetTypes, ToComeIsFresh, StagesMean
  <1>4. Current' = Current /\ pc \notin {"starting", "open"} /\ pc \notin {"idle", "preparing"}
    BY <1>1 DEF Current, Draining
  <1>5. RestIsQuiet' /\ ReplyIsOwn'
    BY <1>1, <1>2, <1>4, ReadOn DEF BinInv, WireInv, RestIsQuiet, ReplyIsOwn
  <1>6. BlocksInOrder' /\ ScanResult'
    BY <1>1, <1>4 DEF BlocksInOrder, ScanResult
  <1>7. ScanReply'
    BY <1>1, <1>4 DEF BinInv, WireInv, ScanReply, ScanStages, Draining
  <1>8. InsertReply'
    <2> SUFFICES ASSUME pc \in InsertStages PROVE InsertReply'
      BY <1>1 DEF InsertReply
    <2>1. NoKind(toClient, {"EndOfStream"}) <=> NoKind(toClient', {"EndOfStream"})
      BY <1>1, ReadOn DEF Current
    <2> QED BY <1>1, <1>4, <2>1 DEF BinInv, WireInv, InsertReply, InputIs
  <1>9. BrokenWire' /\ DoneIsOver'
    BY <1>1 DEF BinInv, WireInv, BrokenWire, DoneIsOver, InputIs
  <1>10. \A q \in Queries : SameBut(q)
    BY <1>1 DEF SameBut
  <1> QED BY <1>3, <1>5, <1>6, <1>7, <1>8, <1>9, <1>10, HistoryKept DEF BinInv, WireInv

(***************************************************************************)
(* Requests.                                                               *)
(***************************************************************************)
(* A packet is sent, or lost on a socket that is down. *)
LEMMA SendFacts ==
  ASSUME BinInv, NEW p \in ToServer, Send(p)
  PROVE  /\ toServer \in Seq(ToServer) /\ toServer' \in Seq(ToServer)
         /\ toServer' = toServer \/ (up /\ toServer' = Append(toServer, p))
         /\ up => toServer' = Append(toServer, p)
         /\ \A i \in 1 .. Len(toServer') :
                toServer'[i] = p \/ \E j \in 1 .. Len(toServer) : toServer'[i] = toServer[j]
         /\ (p.kind = "Data" => p.n <= MaxBlocks) => HasBlocks(toServer')
  <1>1. toServer \in Seq(ToServer) /\ HasBlocks(toServer) /\ up \in BOOLEAN
    BY DEF BinInv, NetTypes
  <1>2. CASE ~up
    BY <1>1, <1>2 DEF Send
  <1>3. CASE up
    <2>0. toServer' = Append(toServer, p)
      BY <1>3 DEF Send
    <2>1. PICK n \in Nat : n = Len(toServer) /\ Len(toServer') = n + 1
      BY <1>1, <2>0, AppendFacts
    <2>2. /\ toServer' \in Seq(ToServer) /\ toServer'[n + 1] = p
          /\ \A i \in 1 .. n : toServer'[i] = toServer[i]
      BY <1>1, <2>0, <2>1, AppendFacts
    <2>3. \A i \in 1 .. n + 1 : i \in 1 .. n \/ i = n + 1
      BY <2>1
    <2>4. \A i \in 1 .. Len(toServer') :
            toServer'[i] = p \/ \E j \in 1 .. Len(toServer) : toServer'[i] = toServer[j]
      BY <2>1, <2>2, <2>3
    <2>5. (p.kind = "Data" => p.n <= MaxBlocks) => HasBlocks(toServer')
      BY <1>1, <2>4 DEF HasBlocks
    <2> QED BY <1>1, <1>3, <2>0, <2>2, <2>4, <2>5
  <1> QED BY <1>1, <1>2, <1>3

(* No block has been given yet. *)
LEMMA NothingGiven == ASSUME NEW r PROVE <<>> = [i \in 1 .. Len(<<>>) |-> <<r, i - 1>>]
  OBVIOUS

(* The session asks for something new. *)
LEMMA NewRequest ==
  ASSUME BinInv, pc \in {"idle", "leased"}, asked < MaxQueries, asked' = asked + 1,
         NEW req \in Requests, Send(Packet(req, asked + 1, 0)),
         NEW k \in {"select", "insert"}, NEW snd \in BOOLEAN, k = "insert" => snd,
         query' = [query EXCEPT ![asked + 1].kind = k, ![asked + 1].sound = snd],
         UNCHANGED <<up, toClient, server, result>>
  PROVE  /\ NetTypes' /\ query' \in [Queries -> QueryRecs]
         /\ ToComeIsFresh' /\ DoneIsOver' /\ History'
         /\ asked' \in Queries /\ asked' # 0
         /\ query'[asked'].kind = k /\ query'[asked'].sound = snd
         /\ query'[asked'].given = <<>> /\ query'[asked'].flushed = 0
         /\ query'[asked'].outcome = "none"
         /\ result[asked'].sent = 0 /\ result[asked'].applied = <<>>
         /\ KindsIn(toServer, {"Cancel"}) =>
                /\ KindsIn(toServer', {req, "Cancel"})
                /\ LastOnly(toServer', Requests) /\ Once(toServer', Requests)
                /\ \A i \in 1 .. Len(toServer') :
                        toServer'[i].kind \in Requests => toServer'[i].q = asked'
         /\ \A K : NoKind(toServer, K) /\ req \notin K => NoKind(toServer', K)
  <1> DEFINE q == asked + 1
             p == Packet(req, q, 0)
             new == [query[q] EXCEPT !.kind = k, !.sound = snd]
  <1>1. q \in Queries /\ q # 0 /\ asked <= q /\ asked \in Nat
    BY NextQuery
  <1>2. query \in [Queries -> QueryRecs] /\ query[q] \in QueryRecs /\ result[q] \in ResultRecs
    BY <1>1 DEF BinInv, ClientTypes, NetTypes
  <1>3. new \in QueryRecs /\ new.kind = k /\ new.sound = snd /\ new.given = query[q].given
        /\ new.flushed = query[q].flushed /\ new.outcome = query[q].outcome
    BY <1>2 DEF QueryRecs
  <1>4. query' = [query EXCEPT ![q] = new]
    BY <1>2 DEF QueryRecs
  <1> HIDE DEF new
  <1>5. query' \in [Queries -> QueryRecs] /\ query'[q] = new
        /\ \A r \in Queries : r # q => query'[r] = query[r]
    BY <1>1, <1>2, <1>3, <1>4
  <1>6. query[q].given = <<>> /\ query[q].flushed = 0 /\ query[q].outcome = "none"
        /\ result[q].sent = 0 /\ result[q].applied = <<>>
    BY <1>1 DEF BinInv, ToComeIsFresh
  <1>7. p \in ToServer /\ p.kind = req /\ p.q = q /\ p.kind # "Data"
    BY <1>1, BoundAssumption DEF Packet, ToServer, Requests, NoNumber
  <1> HIDE DEF p
  <1>8. /\ toServer \in Seq(ToServer) /\ toServer' \in Seq(ToServer) /\ HasBlocks(toServer')
        /\ toServer' = toServer \/ toServer' = Append(toServer, p)
        /\ \A i \in 1 .. Len(toServer') :
                toServer'[i] = p \/ \E j \in 1 .. Len(toServer) : toServer'[i] = toServer[j]
    BY <1>7, SendFacts DEF p
  <1>9. NetTypes'
    BY <1>8 DEF BinInv, NetTypes
  <1>10. ToComeIsFresh'
    <2>1. \A i \in 1 .. Len(toServer) : toServer[i].q \in Nat /\ toServer[i].q <= asked
      BY Packets DEF BinInv, ToComeIsFresh
    <2>2. \A i \in 1 .. Len(toServer') : toServer'[i].q <= asked'
      BY <1>1, <1>7, <1>8, <2>1
    <2>3. server.q <= asked /\ server.q \in Nat
      BY BoundAssumption DEF BinInv, ToComeIsFresh, NetTypes, Tasks, Queries
    <2>4. \A r \in Queries : r > asked' => r > asked /\ r # q
      BY <1>1 DEF Queries
    <2>5. server'.q <= asked'
      BY <1>1, <2>3
    <2> QED BY <1>5, <2>2, <2>4, <2>5 DEF BinInv, ToComeIsFresh
  <1>11. DoneIsOver'
    <2> SUFFICES ASSUME NEW r \in Queries, query'[r].outcome = "ok", query'[r].sound
                 PROVE  /\ server.q # r
                        /\ \A i \in 1 .. Len(toServer') :
                            toServer'[i].kind \in Requests => toServer'[i].q # r
      BY DEF DoneIsOver
    <2>1. r # q /\ query[r].outcome = "ok" /\ query[r].sound
      BY <1>3, <1>5, <1>6
    <2> QED BY <1>7, <1>8, <2>1 DEF BinInv, DoneIsOver
  <1>12. History'
    <2>1. OwnBlocksInOrder'
      <3> SUFFICES ASSUME NEW r \in Queries, query'[r].sound
                   PROVE  query'[r].given = [i \in 1 .. Len(query'[r].given) |-> <<r, i - 1>>]
        BY DEF OwnBlocksInOrder
      <3>1. CASE r # q
        BY <1>5, <3>1 DEF BinInv, History, OwnBlocksInOrder
      <3>2. CASE r = q
        <4>1. query'[r].given = <<>>
          BY <1>3, <1>5, <1>6, <3>2
        <4> QED BY <4>1, NothingGiven
      <3> QED BY <3>1, <3>2
    <2>2. NoSilentTruncation'
      BY <1>3, <1>5, <1>6 DEF BinInv, History, NoSilentTruncation
    <2>3. InsertAcknowledged'
      BY <1>3, <1>5, <1>6 DEF BinInv, History, InsertAcknowledged
    <2>4. InsertsAreSound'
      BY <1>3, <1>5 DEF BinInv, History, InsertsAreSound
    <2> QED BY <2>1, <2>2, <2>3, <2>4 DEF History
  <1>13. ASSUME KindsIn(toServer, {"Cancel"})
         PROVE  /\ KindsIn(toServer', {req, "Cancel"})
                /\ LastOnly(toServer', Requests) /\ Once(toServer', Requests)
                /\ \A i \in 1 .. Len(toServer') :
                        toServer'[i].kind \in Requests => toServer'[i].q = asked'
    <2>1. NoKind(toServer, Requests) /\ KindsIn(toServer, {req, "Cancel"})
      BY <1>13 DEF NoKind, KindsIn, Requests
    <2>2. CASE toServer' = toServer
      BY <2>1, <2>2 DEF NoKind, LastOnly, Once
    <2>3. CASE toServer' = Append(toServer, p)
      <3>1. KindsIn(toServer', {req, "Cancel"}) /\ LastOnly(toServer', Requests)
            /\ Once(toServer', Requests)
        BY <1>7, <1>8, <2>1, <2>3, AppendKinds
      <3>2. \A j \in 1 .. Len(toServer) : toServer[j].kind \notin Requests
        BY <2>1 DEF NoKind
      <3> QED BY <1>7, <1>8, <3>1, <3>2
    <2> QED BY <1>8, <2>2, <2>3
  <1>14. ASSUME NEW K, NoKind(toServer, K), req \notin K PROVE NoKind(toServer', K)
    BY <1>7, <1>8, <1>14 DEF NoKind
  <1> QED BY <1>1, <1>3, <1>5, <1>6, <1>9, <1>10, <1>11, <1>12, <1>13, <1>14

(* A query is sent. *)
LEMMA SendQuerySafe == ASSUME BinInv, SendQuery PROVE BinInv'
  <1>0. /\ pc = "leased" /\ asked < MaxQueries /\ asked' = asked + 1
        /\ Send(Packet("Query", asked + 1, 0))
        /\ resp' = [q |-> asked + 1, error |-> FALSE, eos |-> FALSE, staged |-> NoBlock]
        /\ query' = [query EXCEPT ![asked + 1].kind = "select", ![asked + 1].sound = ~broken]
        /\ polls' \in BOOLEAN /\ pc' = "starting"
        /\ UNCHANGED <<broken, deadline, canceled, up, toClient, server, result>>
    BY DEF SendQuery, CancelCheck
  <1>1. "Query" \in Requests /\ "select" \in {"select", "insert"}
        /\ pc \in {"idle", "leased"}
    BY <1>0 DEF Requests
  <1>2. PICK snd \in BOOLEAN : snd <=> ~broken
    OBVIOUS
  <1>3. query' = [query EXCEPT ![asked + 1].kind = "select", ![asked + 1].sound = snd]
    BY <1>0, <1>2 DEF BinInv, ClientTypes
  <1>4. /\ NetTypes' /\ query' \in [Queries -> QueryRecs]
        /\ ToComeIsFresh' /\ DoneIsOver' /\ History'
        /\ asked' \in Queries /\ asked' # 0
        /\ query'[asked'].kind = "select" /\ query'[asked'].sound = snd
        /\ query'[asked'].given = <<>> /\ query'[asked'].flushed = 0
        /\ query'[asked'].outcome = "none"
        /\ result[asked'].sent = 0 /\ result[asked'].applied = <<>>
        /\ KindsIn(toServer, {"Cancel"}) =>
                /\ KindsIn(toServer', {"Query", "Cancel"})
                /\ LastOnly(toServer', Requests) /\ Once(toServer', Requests)
                /\ \A i \in 1 .. Len(toServer') :
                        toServer'[i].kind \in Requests => toServer'[i].q = asked'
        /\ \A K : NoKind(toServer, K) /\ "Query" \notin K => NoKind(toServer', K)
    <2>1. "select" = "insert" => snd
      OBVIOUS
    <2> QED BY <1>0, <1>1, <1>3, <2>1, NewRequest
  <1>5. resp' \in Responses /\ resp'.q = asked' /\ ~resp'.error /\ ~resp'.eos
        /\ resp'.staged = NoBlock
    BY <1>0, <1>4 DEF Responses
  <1>6. ClientTypes'
    BY <1>0, <1>4, <1>5 DEF BinInv, ClientTypes, Stages
  <1>7. StagesMean'
    BY <1>0, <1>2, <1>4, <1>5 DEF StagesMean, ScanStages, InsertStages
  <1>8. ~Current /\ (Current' <=> ~broken)
    BY <1>0, <1>5 DEF Current, ScanStages, InsertStages
  <1>9. ~broken => toClient = <<>> /\ server = Idle /\ KindsIn(toServer, {"Cancel"})
    BY <1>8 DEF BinInv, WireInv, RestIsQuiet
  <1>10. RestIsQuiet'
    BY <1>0, <1>8 DEF RestIsQuiet
  <1>11. ReplyIsOwn'
    <2>1. LastOnly(<<>>, Ends) /\ NoKind(<<>>, Ends)
      BY DEF LastOnly, NoKind
    <2> QED BY <1>0, <1>4, <1>8, <1>9, <2>1 DEF ReplyIsOwn
  <1>12. BlocksInOrder'
    <2> SUFFICES ASSUME ~broken
                 PROVE  Numbered(toClient', Received', 0) /\ 0 = result'[asked'].sent
      BY <1>0, <1>8 DEF BlocksInOrder
    <2>1. Received' = 0
      BY <1>4, <1>5 DEF Received
    <2>2. Numbered(<<>>, 0, 0)
      BY NumberedEmpty
    <2> QED BY <1>0, <1>4, <1>9, <2>1, <2>2
  <1>13. ScanReply'
    <2>1. NoKind(<<>>, {"EndOfStream"})
      BY DEF NoKind
    <2> QED BY <1>0, <1>4, <1>8, <1>9, <2>1 DEF ScanReply, Idle
  <1>14. InsertReply' /\ BrokenWire'
    <2>1. pc' \notin InsertStages /\ pc # "idle"
      BY <1>0 DEF InsertStages
    <2> QED BY <1>0, <1>4, <2>1 DEF BinInv, WireInv, InsertReply, BrokenWire
  <1>15. ScanResult'
    BY <1>0, <1>4, <1>5 DEF ScanResult
  <1> QED BY <1>4, <1>6, <1>7, <1>10, <1>11, <1>12, <1>13, <1>14, <1>15 DEF BinInv, WireInv

(* An INSERT is sent. *)
LEMMA BeginInsertSafe == ASSUME BinInv, BeginInsert PROVE BinInv'
  <1>0. /\ pc = "idle" /\ ~broken /\ asked < MaxQueries /\ asked' = asked + 1
        /\ Send(Packet("Insert", asked + 1, 0))
        /\ query' = [query EXCEPT ![asked + 1].kind = "insert", ![asked + 1].sound = TRUE]
        /\ pc' = "preparing"
        /\ UNCHANGED <<broken, polls, deadline, resp, canceled, up, toClient, server, result>>
    BY DEF BeginInsert, connVars
  <1>1. "Insert" \in Requests /\ TRUE \in BOOLEAN /\ "insert" \in {"select", "insert"}
        /\ pc \in {"idle", "leased"}
    BY <1>0 DEF Requests
  <1>4. /\ NetTypes' /\ query' \in [Queries -> QueryRecs]
        /\ ToComeIsFresh' /\ DoneIsOver' /\ History'
        /\ asked' \in Queries /\ asked' # 0
        /\ query'[asked'].kind = "insert" /\ query'[asked'].sound = TRUE
        /\ query'[asked'].given = <<>> /\ query'[asked'].flushed = 0
        /\ query'[asked'].outcome = "none"
        /\ result[asked'].sent = 0 /\ result[asked'].applied = <<>>
        /\ KindsIn(toServer, {"Cancel"}) =>
                /\ KindsIn(toServer', {"Insert", "Cancel"})
                /\ LastOnly(toServer', Requests) /\ Once(toServer', Requests)
                /\ \A i \in 1 .. Len(toServer') :
                        toServer'[i].kind \in Requests => toServer'[i].q = asked'
    BY <1>0, <1>1, NewRequest
  <1>6. ClientTypes'
    BY <1>0, <1>4 DEF BinInv, ClientTypes, Stages
  <1>7. StagesMean'
    BY <1>0, <1>4 DEF BinInv, StagesMean, ScanStages, InsertStages
  <1>8. ~Current /\ Current'
    BY <1>0 DEF Current, ScanStages, InsertStages
  <1>9. toClient = <<>> /\ server = Idle /\ KindsIn(toServer, {"Cancel"})
    BY <1>0, <1>8 DEF BinInv, WireInv, RestIsQuiet
  <1>10. RestIsQuiet' /\ BrokenWire'
    BY <1>0, <1>8 DEF RestIsQuiet, BrokenWire
  <1>11. ReplyIsOwn'
    <2>1. LastOnly(<<>>, Ends) /\ NoKind(<<>>, Ends)
      BY DEF LastOnly, NoKind
    <2> QED BY <1>0, <1>4, <1>8, <1>9, <2>1 DEF ReplyIsOwn
  <1>12. BlocksInOrder' /\ ScanReply' /\ ScanResult'
    BY <1>0 DEF BlocksInOrder, ScanReply, ScanResult, ScanStages
  <1>14. InsertReply'
    <2>1. NoKind(<<>>, {"EndOfStream"})
      BY DEF NoKind
    <2>2. server'.mode = "idle"
      BY <1>0, <1>9 DEF Idle
    <2>3. NoKind(toServer', {"Query"})
      BY <1>4, <1>9 DEF KindsIn, NoKind
    <2> QED BY <1>0, <1>4, <1>9, <2>1, <2>2, <2>3 DEF InsertReply
  <1> QED BY <1>4, <1>6, <1>7, <1>10, <1>11, <1>12, <1>14 DEF BinInv, WireInv

(***************************************************************************)
(* Scans.                                                                  *)
(***************************************************************************)
(* A scan stops early: Cancel is sent and the drain begins. *)
LEMMA FreeEarlySafe == ASSUME BinInv, FreeEarly PROVE BinInv'
  <1> DEFINE p == Packet("Cancel", resp.q, 0)
  <1>0. /\ pc \in {"starting", "open"} /\ pc \in ScanStages /\ ~resp.eos /\ Outcome /\ Send(p)
        /\ polls' = FALSE /\ deadline' \in BOOLEAN /\ pc' = "draining"
        /\ UNCHANGED <<broken, resp, canceled, up, toClient, server, asked, result>>
    BY DEF FreeEarly, Freeing, DrainDeadline, ScanStages
  <1>1. /\ resp.q = asked /\ asked # 0 /\ asked \in Queries /\ query[asked].kind = "select"
        /\ ~broken => query[asked].sound
        /\ query[asked].sound => ~broken
    BY <1>0, FlushedType DEF BinInv, StagesMean
  <1>2. /\ query' \in [Queries -> QueryRecs] /\ \A r \in Queries : SameBut(r)
        /\ \A r \in Queries : r # asked => query'[r] = query[r]
    BY <1>0, OutcomeFacts
  <1>3. p \in ToServer /\ p.kind = "Cancel" /\ p.q = asked
    BY <1>1, BoundAssumption DEF Packet, ToServer, NoNumber
  <1> HIDE DEF p
  <1>4. /\ toServer \in Seq(ToServer) /\ toServer' \in Seq(ToServer) /\ HasBlocks(toServer')
        /\ toServer' = toServer \/ toServer' = Append(toServer, p)
        /\ \A i \in 1 .. Len(toServer') :
                toServer'[i] = p \/ \E j \in 1 .. Len(toServer) : toServer'[i] = toServer[j]
    BY <1>0, <1>3, SendFacts
  <1>5. /\ \A K : "Cancel" \notin K => (NoKind(toServer, K) <=> NoKind(toServer', K))
        /\ Once(toServer, Requests) => Once(toServer', Requests)
        /\ KindsIn(toServer, {"Query", "Cancel"}) => KindsIn(toServer', {"Query", "Cancel"})
    <2>1. ASSUME NEW K, "Cancel" \notin K PROVE NoKind(toServer, K) <=> NoKind(toServer', K)
      BY <1>3, <1>4, <2>1, AppendKinds
    <2>2. Once(toServer, Requests) => Once(toServer', Requests)
      <3>1. p.kind \notin Requests
        BY <1>3 DEF Requests
      <3> QED BY <1>3, <1>4, <3>1, AppendKinds
    <2>3. KindsIn(toServer, {"Query", "Cancel"}) => KindsIn(toServer', {"Query", "Cancel"})
      BY <1>3, <1>4, AppendKinds
    <2> QED BY <2>1, <2>2, <2>3
  <1>6. (ClientTypes /\ NetTypes)'
    BY <1>0, <1>2, <1>4 DEF BinInv, ClientTypes, NetTypes, Stages
  <1>7. ToComeIsFresh'
    <2>1. \A i \in 1 .. Len(toServer') : toServer'[i].q <= asked'
      <3>1. asked \in Nat /\ asked <= asked
        BY <1>1 DEF Queries
      <3> QED BY <1>0, <1>3, <1>4, <3>1 DEF BinInv, ToComeIsFresh
    <2>2. \A r \in Queries : r > asked => r # asked
      BY <1>1 DEF Queries
    <2> QED BY <1>0, <1>2, <2>1, <2>2 DEF BinInv, ToComeIsFresh
  <1>8. StagesMean'
    BY <1>0, <1>1, <1>2 DEF StagesMean, ScanStages, InsertStages, SameBut
  <1>9. Current' = Current /\ (Current <=> ~broken)
    BY <1>0 DEF Current, ScanStages, InsertStages
  <1>10. RestIsQuiet' /\ BlocksInOrder' /\ ScanResult' /\ InsertReply'
    BY <1>0, <1>9 DEF RestIsQuiet, BlocksInOrder, ScanResult, InsertReply, InsertStages
  <1>11. ReplyIsOwn'
    <2>1. "Cancel" \notin Requests
      BY DEF Requests
    <2>2. NoKind(toServer, Requests) <=> NoKind(toServer', Requests)
      BY <1>5, <2>1
    <2>3. Current => \A i \in 1 .. Len(toServer') :
                        toServer'[i].kind \in Requests => toServer'[i].q = asked
      BY <1>3, <1>4 DEF BinInv, WireInv, ReplyIsOwn
    <2> QED BY <1>0, <1>5, <1>9, <2>2, <2>3 DEF BinInv, WireInv, ReplyIsOwn
  <1>12. ScanReply'
    BY <1>0, <1>5, <1>9 DEF BinInv, WireInv, ScanReply
  <1>13. BrokenWire'
    BY <1>0, <1>5, ScanWire DEF BrokenWire
  <1>14. DoneIsOver'
    <2> SUFFICES ASSUME NEW r \in Queries, query'[r].outcome = "ok", query'[r].sound
                 PROVE  /\ server.q # r
                        /\ \A i \in 1 .. Len(toServer') :
                            toServer'[i].kind \in Requests => toServer'[i].q # r
      BY <1>0 DEF DoneIsOver
    <2>1. query[r].outcome = "ok" /\ query[r].sound
      BY <1>2 DEF SameBut
    <2>2. p.kind \notin Requests
      BY <1>3 DEF Requests
    <2> QED BY <1>4, <2>1, <2>2 DEF BinInv, DoneIsOver
  <1> QED BY <1>2, <1>6, <1>7, <1>8, <1>10, <1>11, <1>12, <1>13, <1>14, HistoryKept
          DEF BinInv, WireInv

(* The wait for a packet is interrupted. *)
LEMMA PumpFailsSafe == ASSUME BinInv, PumpFails PROVE BinInv'
  <1>0. /\ pc \in {"starting", "open"} /\ pc \in ScanStages /\ pc \notin InsertStages
        /\ resp.staged = NoBlock /\ ~resp.eos
        /\ resp' = [resp EXCEPT !.error = TRUE, !.eos = TRUE] /\ broken' = TRUE
        /\ UNCHANGED <<polls, deadline, pc, canceled, up, toServer, toClient, server, asked,
                       query, result>>
    BY DEF PumpFails, Pumping, ScanStages, InsertStages, netVars
  <1>1. resp \in Responses
    BY DEF BinInv, ClientTypes
  <1>2. resp' \in Responses /\ resp'.q = resp.q /\ resp'.error /\ resp'.eos
        /\ resp'.staged = NoBlock
    BY <1>0, <1>1 DEF Responses
  <1>3. (ClientTypes /\ NetTypes /\ ToComeIsFresh)'
    BY <1>0, <1>2 DEF BinInv, ClientTypes, NetTypes, ToComeIsFresh
  <1>4. StagesMean'
    BY <1>0, <1>2 DEF BinInv, StagesMean
  <1>5. ~Current'
    BY <1>0 DEF Current
  <1>6. RestIsQuiet' /\ ReplyIsOwn' /\ BlocksInOrder' /\ ScanReply' /\ InsertReply'
    BY <1>0, <1>5 DEF RestIsQuiet, ReplyIsOwn, BlocksInOrder, ScanReply, InsertReply
  <1>7. BrokenWire'
    BY <1>0, ScanWire DEF BrokenWire
  <1>8. ScanResult'
    BY <1>0, <1>2 DEF BinInv, ScanResult
  <1>9. \A q \in Queries : SameBut(q)
    BY <1>0 DEF SameBut
  <1>10. DoneIsOver' /\ History'
    BY <1>0, <1>9, HistoryKept, OverKept
  <1> QED BY <1>3, <1>4, <1>6, <1>7, <1>8, <1>10 DEF BinInv, WireInv

(* The cursor is opened. *)
LEMMA OpenCursorSafe == ASSUME BinInv, OpenCursor PROVE BinInv'
  <1>0. /\ pc = "starting" /\ pc' = "open" /\ pc \in ScanStages /\ pc' \in ScanStages
        /\ pc' \notin InsertStages
        /\ UNCHANGED <<broken, polls, deadline, resp, canceled, up, toServer, toClient, server,
                       asked, query, result>>
    BY DEF OpenCursor, ScanStages, InsertStages, netVars, connVars
  <1>1. (ClientTypes /\ NetTypes /\ ToComeIsFresh)'
    BY <1>0 DEF BinInv, ClientTypes, NetTypes, ToComeIsFresh, Stages
  <1>2. StagesMean' /\ Current' = Current
    BY <1>0 DEF BinInv, StagesMean, Current, InsertStages
  <1>3. RestIsQuiet' /\ ReplyIsOwn' /\ BlocksInOrder'
    BY <1>0, <1>2 DEF BinInv, WireInv, RestIsQuiet, ReplyIsOwn, BlocksInOrder, Received
  <1>4. ScanReply' /\ InsertReply'
    BY <1>0, <1>2 DEF BinInv, WireInv, ScanReply, InsertReply
  <1>5. BrokenWire'
    BY <1>0, ScanWire DEF BrokenWire
  <1>6. ScanResult'
    BY <1>0 DEF BinInv, ScanResult, Received
  <1>7. \A q \in Queries : SameBut(q)
    BY <1>0 DEF SameBut
  <1>8. DoneIsOver' /\ History'
    BY <1>0, <1>7, HistoryKept, OverKept
  <1> QED BY <1>1, <1>2, <1>3, <1>4, <1>5, <1>6, <1>8 DEF BinInv, WireInv

(* A packet is pumped. *)
LEMMA PumpSafe == ASSUME BinInv, NEW bad \in BOOLEAN, pump_one(bad) PROVE BinInv'
  <1> DEFINE p == Head(toClient)
  <1>0. /\ pc \in {"starting", "open"} /\ pc \in ScanStages /\ pc \notin InsertStages
        /\ resp.staged = NoBlock /\ ~resp.eos /\ Receives
        /\ bad => p.kind = "Data"
        /\ resp' = Fold(p, bad)
        /\ broken' = (broken \/ bad \/ p.kind = "Exception")
        /\ UNCHANGED <<polls, deadline, pc, canceled, up, toServer, server, asked, query, result>>
    BY DEF pump_one, Pumping, ScanStages, InsertStages
  <1>1. /\ toClient # <<>> /\ toClient \in Seq(ToClient) /\ toClient' = Tail(toClient)
        /\ toClient' \in Seq(ToClient) /\ HasBlocks(toClient')
        /\ p \in ToClient /\ p = toClient[1]
        /\ p.kind = "Data" => p.n \in 0 .. MaxBlocks
    BY <1>0, ReadFacts
  <1>2. /\ asked # 0 /\ asked \in Queries /\ resp.q = asked /\ query[asked].kind = "select"
        /\ ~broken => query[asked].sound
        /\ query[asked].sound => ~broken
        /\ query[asked].given \in Seq(Blocks)
        /\ query[asked].outcome = "ok" => ~query[asked].sound
    BY <1>0, FlushedType DEF BinInv, StagesMean, ScanResult, QueryRecs
  <1>3. /\ p.kind \in {"Data", "Progress", "EndOfStream", "Exception"} /\ p.q \in Queries
        /\ p.kind = "Data" => <<p.q, p.n>> \in Blocks /\ <<p.q, p.n>> # NoBlock
    BY <1>1, BoundAssumption DEF ToClient, Blocks, NoBlock, Queries
  <1>4. resp \in Responses
    BY DEF BinInv, ClientTypes
  <1>5. /\ resp' \in Responses /\ resp'.q = asked
        /\ resp'.eos <=> (p.kind \in Ends \/ bad)
        /\ p.kind = "Exception" \/ bad => resp'.error
        /\ p.kind = "Data" /\ ~bad => resp'.staged = <<p.q, p.n>>
        /\ ~(p.kind = "Data" /\ ~bad) => resp'.staged = NoBlock
    BY <1>0, <1>2, <1>3, <1>4 DEF Fold, Responses, Ends
  <1> HIDE DEF p
  <1>6. (ClientTypes /\ NetTypes /\ ToComeIsFresh)'
    BY <1>0, <1>1, <1>5 DEF BinInv, ClientTypes, NetTypes, ToComeIsFresh
  <1>7. StagesMean'
    BY <1>0, <1>2, <1>5 DEF StagesMean, Ends
  <1>8. Current <=> ~broken
    BY <1>0 DEF Current
  <1>9. Current' <=> ~broken /\ ~bad /\ p.kind \in {"Data", "Progress"}
    BY <1>0, <1>3, <1>5 DEF Current, Ends
  <1>10. ASSUME ~broken, p.kind = "EndOfStream"
         PROVE  toClient' = <<>> /\ server = Idle /\ NoKind(toServer, Requests)
                /\ ~NoKind(toClient, Ends) /\ ~NoKind(toClient, {"EndOfStream"})
    <2>1. p.kind \in Ends
      BY <1>10 DEF Ends
    <2>2. toClient' = <<>> /\ server = Idle /\ NoKind(toServer, Requests)
      BY <1>0, <1>8, <1>10, <2>1, LastIsRead DEF p
    <2>3. ~NoKind(toClient, Ends) /\ ~NoKind(toClient, {"EndOfStream"})
      BY <1>1, <1>10, <2>1, TailKinds DEF p
    <2> QED BY <2>2, <2>3
  <1>11. RestIsQuiet'
    <2> SUFFICES ASSUME ~broken', ~Current'
                 PROVE  toClient' = <<>> /\ server = Idle /\ KindsIn(toServer, {"Cancel"})
      BY <1>0 DEF RestIsQuiet
    <2>1. ~broken /\ p.kind = "EndOfStream"
      BY <1>0, <1>3, <1>9
    <2>2. KindsIn(toServer, {"Query", "Cancel"})
      BY <1>0, <1>8, <2>1 DEF BinInv, WireInv, ScanReply
    <2>3. KindsIn(toServer, {"Cancel"})
      BY <1>10, <2>1, <2>2 DEF KindsIn, NoKind, Requests
    <2> QED BY <1>10, <2>1, <2>3
  <1>12. ASSUME Current'
         PROVE  /\ ReplyIsOwn' /\ (NoKind(toClient, Ends) <=> NoKind(toClient', Ends))
                /\ (NoKind(toClient, {"EndOfStream"}) <=> NoKind(toClient', {"EndOfStream"}))
    <2>1. p.kind \notin Ends /\ Current
      BY <1>8, <1>9, <1>12 DEF Ends
    <2> QED BY <1>0, <2>1, ReadOn DEF p
  <1>13. ReplyIsOwn'
    BY <1>12 DEF ReplyIsOwn
  <1>14. ASSUME ~broken
         PROVE  \E b \in Nat :
                  /\ Numbered(toClient, Len(query[asked].given), b)
                  /\ up \/ ~NoKind(toClient, Ends) => b = result[asked].sent
    BY <1>0, <1>8, <1>14 DEF BinInv, WireInv, BlocksInOrder, Received
  <1>15. Len(query[asked].given) \in Nat
    BY <1>2
  <1>16. PICK l \in Nat : l = Len(query[asked].given)
    BY <1>15
  <1>17. /\ p.kind = "Data" /\ ~bad => Received' = l + 1
         /\ ~(p.kind = "Data" /\ ~bad) => Received' = l
    <2>1. Received' = l + IF resp'.staged = NoBlock THEN 0 ELSE 1
      BY <1>0, <1>16 DEF Received
    <2>2. p.kind = "Data" /\ ~bad => resp'.staged # NoBlock
      BY <1>3, <1>5
    <2>3. ~(p.kind = "Data" /\ ~bad) => resp'.staged = NoBlock
      BY <1>5
    <2> QED BY <2>1, <2>2, <2>3
  <1>18. BlocksInOrder'
    <2> SUFFICES ASSUME Current'
                 PROVE  \E b \in Nat : /\ Numbered(toClient', Received', b)
                                       /\ up \/ ~NoKind(toClient', Ends) => b = result[asked].sent
      BY <1>0 DEF BlocksInOrder
    <2>1. ~broken /\ ~bad
      BY <1>9
    <2>2. PICK b \in Nat : /\ Numbered(toClient, l, b)
                           /\ up \/ ~NoKind(toClient, Ends) => b = result[asked].sent
      BY <1>14, <1>16, <2>1
    <2>3. /\ p.kind = "Data" => Numbered(toClient', l + 1, b)
          /\ p.kind # "Data" => Numbered(toClient', l, b)
      BY <1>1, <2>2, NumberedTail DEF p
    <2>4. Numbered(toClient', Received', b)
      BY <1>17, <2>1, <2>3
    <2> QED BY <1>12, <2>2, <2>4
  <1>19. ScanReply' /\ InsertReply'
    BY <1>0, <1>8, <1>9, <1>12 DEF BinInv, WireInv, ScanReply, InsertReply
  <1>20. BrokenWire'
    BY <1>0, ScanWire DEF BrokenWire
  <1>21. ScanResult'
    <2> SUFFICES ASSUME query[asked].sound
                 PROVE  /\ resp'.staged # NoBlock => resp'.staged = <<asked, l>>
                        /\ resp'.eos /\ ~resp'.error =>
                              result[asked].complete /\ Received' = result[asked].sent
                        /\ query[asked].outcome # "ok"
      BY <1>0, <1>16 DEF ScanResult
    <2>1. ~broken /\ query[asked].outcome # "ok" /\ Current
      BY <1>2, <1>8
    <2>2. PICK b \in Nat : /\ Numbered(toClient, l, b)
                           /\ up \/ ~NoKind(toClient, Ends) => b = result[asked].sent
      BY <1>14, <1>16, <2>1
    <2>3. ASSUME resp'.staged # NoBlock PROVE resp'.staged = <<asked, l>>
      <3>1. p.kind = "Data" /\ ~bad /\ resp'.staged = <<p.q, p.n>>
        BY <1>5, <2>3
      <3>2. p.n = l
        BY <1>1, <2>2, <3>1, NumberedTail DEF p
      <3>3. p.q = asked
        <4>1. 1 \in 1 .. Len(toClient)
          BY <1>1, TailFacts
        <4> QED BY <1>1, <2>1, <4>1 DEF BinInv, WireInv, ReplyIsOwn
      <3> QED BY <3>1, <3>2, <3>3
    <2>4. ASSUME resp'.eos, ~resp'.error
          PROVE  result[asked].complete /\ Received' = result[asked].sent
      <3>1. p.kind = "EndOfStream"
        BY <1>3, <1>5, <2>4 DEF Ends
      <3>2. result[asked].complete
        BY <1>0, <1>10, <2>1, <3>1 DEF BinInv, WireInv, ScanReply
      <3>3. Numbered(<<>>, l, b)
        <4>1. Numbered(toClient', l, b)
          BY <1>1, <2>2, <3>1, NumberedTail DEF p
        <4> QED BY <1>10, <2>1, <3>1, <4>1
      <3>4. l = b /\ b = result[asked].sent
        BY <1>10, <2>1, <2>2, <3>1, <3>3, NumberedEmpty
      <3> QED BY <1>17, <3>1, <3>2, <3>4
    <2> QED BY <2>1, <2>3, <2>4
  <1>22. \A q \in Queries : SameBut(q)
    BY <1>0 DEF SameBut
  <1>23. DoneIsOver' /\ History'
    BY <1>0, <1>22, HistoryKept, OverKept
  <1> QED BY <1>6, <1>7, <1>11, <1>13, <1>18, <1>19, <1>20, <1>21, <1>23 DEF BinInv, WireInv

(* One more block in order. *)
LEMMA OneMoreGiven ==
  ASSUME NEW q, NEW S, NEW s \in Seq(S), NEW b \in S, b = <<q, Len(s)>>,
         s = [i \in 1 .. Len(s) |-> <<q, i - 1>>]
  PROVE  Append(s, b) = [i \in 1 .. Len(Append(s, b)) |-> <<q, i - 1>>]
  <1>1. PICK n \in Nat : n = Len(s) /\ Len(Append(s, b)) = n + 1
    BY AppendFacts
  <1>2. Append(s, b) \in Seq(S) /\ Append(s, b)[n + 1] = b
        /\ \A i \in 1 .. n : Append(s, b)[i] = s[i]
    BY <1>1, AppendFacts
  <1>3. \A i \in 1 .. n : s[i] = <<q, i - 1>>
    BY <1>1
  <1>4. \A i \in 1 .. n + 1 : Append(s, b)[i] = <<q, i - 1>>
    <2> TAKE i \in 1 .. n + 1
    <2>1. CASE i \in 1 .. n
      BY <1>2, <1>3, <2>1
    <2>2. CASE i = n + 1
      <3>1. i - 1 = n
        BY <2>2
      <3> QED BY <1>1, <1>2, <2>2, <3>1
    <2> QED BY <1>1, <2>1, <2>2
  <1>5. Append(s, b) = [i \in 1 .. n + 1 |-> Append(s, b)[i]]
    BY <1>1, <1>2
  <1> QED BY <1>1, <1>4, <1>5

(* The reader takes the staged block. *)
LEMMA TakeBlockSafe == ASSUME BinInv, TakeBlock PROVE BinInv'
  <1> DEFINE new == [query[asked] EXCEPT !.given = Append(query[asked].given, resp.staged)]
  <1>0. /\ pc = "open" /\ pc \in ScanStages /\ pc \notin InsertStages /\ resp.staged # NoBlock
        /\ resp' = [resp EXCEPT !.staged = NoBlock]
        /\ UNCHANGED <<broken, polls, deadline, pc, canceled, up, toServer, toClient, server,
                       asked, result>>
    BY DEF TakeBlock, ScanStages, InsertStages, netVars, connVars
  <1>1. /\ asked # 0 /\ asked \in Queries /\ resp.q = asked /\ query[asked] \in QueryRecs
        /\ query[asked].given \in Seq(Blocks)
        /\ query[asked].kind = "select"
    BY <1>0, FlushedType DEF BinInv, StagesMean, QueryRecs
  <1>2. query \in [Queries -> QueryRecs] /\ resp \in Responses
    BY DEF BinInv, ClientTypes
  <1>3. resp.staged \in Blocks
    BY <1>0, <1>2 DEF Responses
  <1>4. /\ resp' \in Responses /\ resp'.q = resp.q /\ resp'.error = resp.error
        /\ resp'.eos = resp.eos /\ resp'.staged = NoBlock
    BY <1>0, <1>2 DEF Responses
  <1>5. Append(query[asked].given, resp.staged) \in Seq(Blocks)
    BY <1>1, <1>3, AppendFacts
  <1>6. /\ new \in QueryRecs /\ new.kind = "select" /\ new.sound = query[asked].sound
        /\ new.given = Append(query[asked].given, resp.staged)
        /\ new.outcome = query[asked].outcome
    BY <1>1, <1>5 DEF QueryRecs
  <1>7. query' = [query EXCEPT ![asked] = new]
    BY <1>1 DEF TakeBlock
  <1> HIDE DEF new
  <1>8. query' \in [Queries -> QueryRecs] /\ query'[asked] = new
        /\ \A r \in Queries : r # asked => query'[r] = query[r]
    BY <1>1, <1>2, <1>6, <1>7
  <1>9. (ClientTypes /\ NetTypes)'
    BY <1>0, <1>4, <1>8 DEF BinInv, ClientTypes, NetTypes
  <1>10. ToComeIsFresh'
    <2>1. \A r \in Queries : r > asked => r # asked
      BY <1>1 DEF Queries
    <2> QED BY <1>0, <1>8, <2>1 DEF BinInv, ToComeIsFresh
  <1>11. StagesMean'
    BY <1>0, <1>4, <1>6, <1>8 DEF BinInv, StagesMean
  <1>12. Current' = Current
    BY <1>0, <1>4 DEF Current
  <1>13. PICK l \in Nat : l = Len(query[asked].given) /\ Len(new.given) = l + 1
    BY <1>1, <1>3, <1>6, AppendFacts
  <1>14. Received' = l + 1 /\ Received = l + 1
    BY <1>0, <1>4, <1>8, <1>13 DEF Received
  <1>15. RestIsQuiet' /\ ReplyIsOwn' /\ BlocksInOrder'
    BY <1>0, <1>12, <1>14 DEF BinInv, WireInv, RestIsQuiet, ReplyIsOwn, BlocksInOrder
  <1>16. ScanReply' /\ InsertReply'
    BY <1>0, <1>12 DEF BinInv, WireInv, ScanReply, InsertReply
  <1>17. BrokenWire'
    BY <1>0, ScanWire DEF BrokenWire
  <1>18. query[asked].sound => query[asked].outcome # "ok" /\ resp.staged = <<asked, l>>
    BY <1>0, <1>13 DEF BinInv, ScanResult
  <1>19. ScanResult'
    BY <1>0, <1>4, <1>6, <1>8, <1>14, <1>18 DEF BinInv, ScanResult
  <1>20. \A r \in Queries : query'[r].outcome = query[r].outcome
                            /\ query'[r].sound = query[r].sound
                            /\ query'[r].kind = query[r].kind
    BY <1>1, <1>6, <1>8
  <1>21. DoneIsOver'
    BY <1>0, <1>20 DEF BinInv, DoneIsOver
  <1>22. OwnBlocksInOrder'
    <2> SUFFICES ASSUME NEW r \in Queries, query[r].sound
                 PROVE  query'[r].given = [i \in 1 .. Len(query'[r].given) |-> <<r, i - 1>>]
      BY <1>20 DEF OwnBlocksInOrder
    <2>0. query[r].given = [i \in 1 .. Len(query[r].given) |-> <<r, i - 1>>]
      BY DEF BinInv, History, OwnBlocksInOrder
    <2>1. CASE r # asked
      BY <1>8, <2>0, <2>1
    <2>2. CASE r = asked
      <3>1. resp.staged = <<r, Len(query[r].given)>>
        BY <1>13, <1>18, <2>2
      <3>2. Append(query[r].given, resp.staged) =
              [i \in 1 .. Len(Append(query[r].given, resp.staged)) |-> <<r, i - 1>>]
        <4>1. PICK s \in Seq(Blocks) : s = query[r].given
          BY <1>1, <2>2
        <4>2. s = [i \in 1 .. Len(s) |-> <<r, i - 1>>]
          BY <2>0, <4>1
        <4>3. resp.staged = <<r, Len(s)>>
          BY <3>1, <4>1
        <4>4. Append(s, resp.staged) = [i \in 1 .. Len(Append(s, resp.staged)) |-> <<r, i - 1>>]
          BY <1>3, <4>2, <4>3, OneMoreGiven
        <4> QED BY <4>1, <4>4
      <3> QED BY <1>6, <1>8, <2>2, <3>2
    <2> QED BY <2>1, <2>2
  <1>23. NoSilentTruncation'
    <2> SUFFICES ASSUME NEW r \in Queries, query'[r].kind = "select", query'[r].sound,
                        query'[r].outcome = "ok"
                 PROVE  result[r].complete /\ Len(query'[r].given) = result[r].sent
      BY <1>0 DEF NoSilentTruncation
    <2>1. r # asked
      BY <1>18, <1>20
    <2> QED BY <1>8, <2>1 DEF BinInv, History, NoSilentTruncation
  <1>24. InsertAcknowledged'
    <2> SUFFICES ASSUME NEW r \in Queries
                 PROVE  /\ \A i \in 1 .. Len(result[r].applied) : result[r].applied[i] = i
                        /\ query'[r].kind = "insert" /\ query'[r].outcome = "ok" =>
                            /\ result[r].complete
                            /\ Len(result[r].applied) = query'[r].flushed
      BY <1>0 DEF InsertAcknowledged
    <2>1. r # asked \/ query'[r].kind # "insert"
      BY <1>6, <1>8
    <2> QED BY <1>8, <2>1 DEF BinInv, History, InsertAcknowledged
  <1>25. History'
    BY <1>20, <1>22, <1>23, <1>24 DEF BinInv, History, InsertsAreSound
  <1> QED BY <1>9, <1>10, <1>11, <1>15, <1>16, <1>17, <1>19, <1>21, <1>25 DEF BinInv, WireInv

(* A scan has seen its last row. *)
LEMMA EndOfStreamSafe == ASSUME BinInv, EndOfStream PROVE BinInv'
  <1> DEFINE new == [query[asked] EXCEPT !.outcome = "ok"]
  <1>0. /\ pc = "open" /\ pc \in ScanStages /\ pc \notin InsertStages /\ resp.staged = NoBlock
        /\ resp.eos /\ ~resp.error
        /\ UNCHANGED <<broken, polls, deadline, resp, pc, canceled, up, toServer, toClient,
                       server, asked, result>>
    BY DEF EndOfStream, ScanStages, InsertStages, netVars, connVars
  <1>1. /\ asked # 0 /\ asked \in Queries /\ resp.q = asked /\ query[asked] \in QueryRecs
        /\ query[asked].kind = "select" /\ query[asked].given \in Seq(Blocks)
        /\ query[asked].sound => ~broken
    BY <1>0, FlushedType DEF BinInv, StagesMean, QueryRecs
  <1>2. query \in [Queries -> QueryRecs]
    BY DEF BinInv, ClientTypes
  <1>6. /\ new \in QueryRecs /\ new.kind = "select" /\ new.sound = query[asked].sound
        /\ new.given = query[asked].given
        /\ new.outcome = "ok"
    BY <1>1 DEF QueryRecs
  <1>7. query' = [query EXCEPT ![asked] = new]
    BY <1>1 DEF EndOfStream
  <1> HIDE DEF new
  <1>8. query' \in [Queries -> QueryRecs] /\ query'[asked] = new
        /\ \A r \in Queries : r # asked => query'[r] = query[r]
    BY <1>1, <1>2, <1>6, <1>7
  <1>9. (ClientTypes /\ NetTypes)'
    BY <1>0, <1>8 DEF BinInv, ClientTypes, NetTypes
  <1>10. ToComeIsFresh'
    <2>1. \A r \in Queries : r > asked => r # asked
      BY <1>1 DEF Queries
    <2> QED BY <1>0, <1>8, <2>1 DEF BinInv, ToComeIsFresh
  <1>11. StagesMean'
    BY <1>0, <1>6, <1>8 DEF BinInv, StagesMean
  <1>12. ~Current' /\ ~Current
    BY <1>0 DEF Current
  <1>13. RestIsQuiet' /\ ReplyIsOwn' /\ BlocksInOrder' /\ ScanReply' /\ InsertReply'
    BY <1>0, <1>12 DEF BinInv, WireInv, RestIsQuiet, ReplyIsOwn, BlocksInOrder, ScanReply,
                       InsertReply
  <1>14. BrokenWire'
    BY <1>0, ScanWire DEF BrokenWire
  <1>15. Received' = Received
    BY <1>0, <1>6, <1>8 DEF Received
  <1>16. ScanResult'
    BY <1>0, <1>6, <1>8, <1>15 DEF BinInv, ScanResult
  <1>17. query[asked].sound => server = Idle /\ KindsIn(toServer, {"Cancel"})
    BY <1>1, <1>12 DEF BinInv, WireInv, RestIsQuiet
  <1>18. DoneIsOver'
    <2> SUFFICES ASSUME NEW r \in Queries, query'[r].outcome = "ok", query'[r].sound
                 PROVE  /\ server.q # r
                        /\ \A i \in 1 .. Len(toServer) :
                            toServer[i].kind \in Requests => toServer[i].q # r
      BY <1>0 DEF DoneIsOver
    <2>1. CASE r # asked
      BY <1>8, <2>1 DEF BinInv, DoneIsOver
    <2>2. CASE r = asked
      <3>1. server = Idle /\ KindsIn(toServer, {"Cancel"})
        BY <1>6, <1>8, <1>17, <2>2
      <3> QED BY <3>1, BoundAssumption DEF Idle, KindsIn, Requests, Queries
    <2> QED BY <2>1, <2>2
  <1>19. \A r \in Queries : query'[r].given = query[r].given
                            /\ query'[r].sound = query[r].sound
                            /\ query'[r].kind = query[r].kind
    BY <1>1, <1>6, <1>8
  <1>20. OwnBlocksInOrder' /\ InsertsAreSound'
    BY <1>19 DEF BinInv, History, OwnBlocksInOrder, InsertsAreSound
  <1>21. NoSilentTruncation'
    <2> SUFFICES ASSUME NEW r \in Queries, query'[r].kind = "select", query'[r].sound,
                        query'[r].outcome = "ok"
                 PROVE  result[r].complete /\ Len(query[r].given) = result[r].sent
      BY <1>0, <1>19 DEF NoSilentTruncation
    <2>1. CASE r # asked
      BY <1>8, <2>1 DEF BinInv, History, NoSilentTruncation
    <2>2. CASE r = asked
      <3>1. result[r].complete /\ Received = result[r].sent
        BY <1>0, <1>19, <2>2 DEF BinInv, ScanResult
      <3>2. Received = Len(query[r].given)
        BY <1>0, <1>1, <2>2 DEF Received
      <3> QED BY <3>1, <3>2
    <2> QED BY <2>1, <2>2
  <1>22. InsertAcknowledged'
    <2> SUFFICES ASSUME NEW r \in Queries
                 PROVE  /\ \A i \in 1 .. Len(result[r].applied) : result[r].applied[i] = i
                        /\ query'[r].kind = "insert" /\ query'[r].outcome = "ok" =>
                            /\ result[r].complete
                            /\ Len(result[r].applied) = query'[r].flushed
      BY <1>0 DEF InsertAcknowledged
    <2>1. r # asked \/ query'[r].kind # "insert"
      BY <1>6, <1>8
    <2> QED BY <1>8, <2>1 DEF BinInv, History, InsertAcknowledged
  <1>23. History'
    BY <1>20, <1>21, <1>22 DEF History
  <1> QED BY <1>9, <1>10, <1>11, <1>13, <1>14, <1>16, <1>18, <1>23 DEF BinInv, WireInv

(***************************************************************************)
(* INSERTs.                                                                *)
(***************************************************************************)
(* A packet is read while the INSERT is prepared. *)
LEMMA RecvInitialSafe == ASSUME BinInv, recv_initial_block PROVE BinInv'
  <1> DEFINE p == Head(toClient)
  <1>0. /\ pc = "preparing" /\ pc \in InsertStages /\ pc \notin ScanStages /\ Receives
        /\ UNCHANGED <<polls, deadline, resp, up, toServer, server, asked, result>>
    BY DEF recv_initial_block, InsertStages, ScanStages
  <1>1. /\ toClient # <<>> /\ toClient \in Seq(ToClient) /\ toClient' = Tail(toClient)
        /\ toClient' \in Seq(ToClient) /\ HasBlocks(toClient') /\ p \in ToClient
    BY <1>0, ReadFacts
  <1>2. Current
    BY <1>0 DEF Current
  <1>3. NoKind(toClient, {"EndOfStream"}) /\ p.kind # "EndOfStream"
        /\ NoKind(toClient', {"EndOfStream"})
    <2>1. NoKind(toClient, {"EndOfStream"})
      BY <1>0 DEF BinInv, WireInv, InsertReply
    <2> QED BY <1>1, <2>1, TailKinds
  <1>4. CASE p.kind = "Exception"
    <2>1. broken' = TRUE /\ Fails(asked) /\ Over
      BY <1>4 DEF recv_initial_block
    <2>2. server = Idle /\ NoKind(toServer, Requests)
      BY <1>0, <1>2, <1>4, LastIsRead DEF Ends
    <2> QED BY <1>0, <1>1, <2>1, <2>2, GiveUpInsert
  <1>5. CASE p.kind \in {"Data", "Progress"}
    <2>0. /\ UNCHANGED <<broken, canceled, query>>
          /\ pc' = IF p.kind = "Data" THEN "inserting" ELSE "preparing"
      BY <1>0, <1>5 DEF recv_initial_block
    <2>1. pc' \in InsertStages /\ pc' \in {"inserting", "preparing"} /\ pc' \notin ScanStages
          /\ Current' /\ p.kind \notin Ends
      BY <1>5, <2>0 DEF InsertStages, ScanStages, Current, Ends
    <2>2. (ClientTypes /\ NetTypes /\ ToComeIsFresh)'
      BY <1>0, <1>1, <2>0, <2>1 DEF BinInv, ClientTypes, NetTypes, ToComeIsFresh, Stages
    <2>3. StagesMean'
      BY <1>0, <2>0, <2>1 DEF BinInv, StagesMean
    <2>4. RestIsQuiet'
      BY <2>1 DEF RestIsQuiet
    <2>5. ReplyIsOwn'
      BY <1>0, <1>2, <2>1, ReadOn
    <2>6. BlocksInOrder' /\ ScanReply' /\ ScanResult'
      BY <2>1 DEF BlocksInOrder, ScanReply, ScanResult, ScanStages
    <2>7. BrokenWire'
      BY <1>0, <2>0 DEF BinInv, StagesMean, BrokenWire
    <2>8. /\ server.mode # "select" /\ NoKind(toServer, {"Query"})
          /\ query[asked].flushed = 0 /\ result[asked].applied = <<>>
          /\ KindsIn(toServer, {"Insert", "Cancel"}) /\ LastOnly(toServer, Requests)
          /\ server # Idle => toServer = <<>>
          /\ server.mode = "insert" => NoKind(toClient, {"Data"})
      BY <1>0 DEF BinInv, WireInv, InsertReply
    <2>9. NoKind(toServer, Requests) /\ (server # Idle => server.q = asked)
      BY <1>1, <1>2 DEF BinInv, WireInv, ReplyIsOwn
    <2>10. server.mode = "insert" => p.kind # "Data" /\ NoKind(toClient', {"Data"})
      BY <1>1, <2>8, TailKinds
    <2>11. InsertReply'
      <3>1. CASE p.kind # "Data"
        <4>1. pc' = "preparing"
          BY <2>0, <3>1
        <4>2. up /\ server.mode = "accept" =>
                InputIs(query[asked].flushed + 1)' /\ LastOnly(toServer, {"EndOfData"})
          BY <1>0, <2>0 DEF BinInv, WireInv, InsertReply, InputIs
        <4> QED BY <1>0, <1>3, <2>0, <2>8, <2>10, <4>1, <4>2 DEF InsertReply
      <3>2. CASE p.kind = "Data"
        <4>1. pc' = "inserting" /\ server.mode # "insert"
          BY <2>0, <2>10, <3>2
        <4>2. ASSUME server.mode = "accept"
              PROVE  /\ InputIs(query[asked].flushed + 1)' /\ KindsIn(toServer', {"Data"})
                     /\ LastOnly(toServer', {"EndOfData"})
          <5>1. server # Idle
            BY <4>2 DEF Idle
          <5>2. toServer' = <<>> /\ result'[server'.q].applied = <<>>
                /\ query'[asked'].flushed = 0
            BY <1>0, <2>0, <2>8, <2>9, <5>1
          <5>3. Len(result'[server'.q].applied) + 1 = 1 /\ query'[asked'].flushed + 1 = 1
            BY <5>2
          <5>4. Numbered(<<>>, 1, 1)
            BY NumberedEmpty
          <5>5. Numbered(toServer', Len(result'[server'.q].applied) + 1, query'[asked'].flushed + 1)
            BY <5>2, <5>3, <5>4
          <5> QED BY <5>2, <5>5 DEF InputIs, KindsIn, LastOnly
        <4> QED BY <1>0, <1>3, <2>0, <2>8, <2>9, <4>1, <4>2 DEF InsertReply
      <3> QED BY <3>1, <3>2
    <2>12. \A q \in Queries : SameBut(q)
      BY <1>0, <2>0 DEF SameBut
    <2>13. DoneIsOver' /\ History'
      BY <1>0, <2>12, HistoryKept, OverKept
    <2> QED BY <2>2, <2>3, <2>4, <2>5, <2>6, <2>7, <2>11, <2>13 DEF BinInv, WireInv
  <1> QED BY <1>1, <1>3, <1>4, <1>5 DEF ToClient

(* Data, or its end, is sent to the server. *)
LEMMA SendDataSafe ==
  ASSUME BinInv, pc = "inserting", NEW p \in ToServer, p.q = asked, Send(p),
         p.kind \in {"Data", "EndOfData"},
         p.kind = "Data" => p.n = query[asked].flushed + 1 /\ p.n <= MaxBlocks
                            /\ pc' = "inserting" /\ query'[asked].flushed = p.n,
         p.kind = "EndOfData" => pc' \in {"undoing", "finalizing"} /\ query' = query,
         query' \in [Queries -> QueryRecs],
         \A r \in Queries : r # asked => query'[r] = query[r],
         \A r \in Queries : /\ query'[r].kind = query[r].kind /\ query'[r].sound = query[r].sound
                            /\ query'[r].given = query[r].given
                            /\ query'[r].outcome = query[r].outcome,
         UNCHANGED <<broken, polls, deadline, resp, canceled, up, toClient, server, asked, result>>
  PROVE  BinInv'
  <1>1. /\ pc \in InsertStages /\ pc' \in InsertStages /\ pc' \notin ScanStages
        /\ pc' \notin {"idle", "leased", "starting", "open", "preparing"} /\ pc' \in Stages
    BY DEF InsertStages, ScanStages, Stages
  <1>2. /\ asked # 0 /\ asked \in Queries /\ query[asked] \in QueryRecs
        /\ query[asked].outcome = "none" /\ ~broken
    BY <1>1, FlushedType DEF BinInv, StagesMean
  <1>3. PICK f \in Nat : f = query[asked].flushed
    BY <1>2, BoundAssumption DEF QueryRecs
  <1>4. /\ toServer \in Seq(ToServer) /\ toServer' \in Seq(ToServer) /\ HasBlocks(toServer')
        /\ toServer' = toServer \/ toServer' = Append(toServer, p)
        /\ up => toServer' = Append(toServer, p)
        /\ \A i \in 1 .. Len(toServer') :
                toServer'[i] = p \/ \E j \in 1 .. Len(toServer) : toServer'[i] = toServer[j]
    BY SendFacts
  <1>5. (ClientTypes /\ NetTypes)'
    BY <1>1, <1>4 DEF BinInv, ClientTypes, NetTypes
  <1>6. ToComeIsFresh'
    <2>1. \A i \in 1 .. Len(toServer') : toServer'[i].q <= asked'
      <3>1. asked \in Nat /\ asked <= asked
        BY <1>2 DEF Queries
      <3> QED BY <1>4, <3>1 DEF BinInv, ToComeIsFresh
    <2>2. \A r \in Queries : r > asked => r # asked
      BY <1>2 DEF Queries
    <2> QED BY <2>1, <2>2 DEF BinInv, ToComeIsFresh
  <1>7. StagesMean'
    BY <1>1, <1>2 DEF BinInv, StagesMean
  <1>8. Current' /\ Current
    BY <1>1 DEF Current
  <1>9. RestIsQuiet' /\ BlocksInOrder' /\ ScanReply' /\ ScanResult' /\ BrokenWire'
    BY <1>1, <1>2, <1>8 DEF RestIsQuiet, BlocksInOrder, ScanReply, ScanResult, BrokenWire
  <1>10. /\ server.mode # "select" /\ server.mode # "insert" /\ NoKind(toServer, Requests)
         /\ NoKind(toServer, {"Query"}) /\ NoKind(toClient, {"EndOfStream"})
         /\ up /\ server.mode = "accept" => InputIs(f + 1) /\ KindsIn(toServer, {"Data"})
    BY <1>1, <1>3 DEF BinInv, WireInv, InsertReply
  <1>11. p.kind \notin Requests
    BY DEF Requests
  <1>12. NoKind(toServer', Requests) /\ NoKind(toServer', {"Query"})
    <2>1. p.kind \notin {"Query"}
      OBVIOUS
    <2>2. NoKind(toServer', Requests)
      BY <1>4, <1>10, <1>11 DEF NoKind
    <2>3. NoKind(toServer', {"Query"})
      BY <1>4, <1>10, <2>1 DEF NoKind
    <2> QED BY <2>2, <2>3
  <1>13. ReplyIsOwn'
    <2>1. Once(toServer', Requests)
          /\ \A i \in 1 .. Len(toServer') : toServer'[i].kind \in Requests => toServer'[i].q = asked
      BY <1>12 DEF NoKind, Once
    <2> QED BY <1>8, <1>12, <2>1 DEF BinInv, WireInv, ReplyIsOwn
  <1>14. ASSUME up, server.mode = "accept"
         PROVE  /\ InputIs(query[asked].flushed + 1)'
                /\ pc' = "inserting" => KindsIn(toServer', {"Data"})
                /\ LastOnly(toServer', {"EndOfData"})
    <2>0. toServer' = Append(toServer, p)
      BY <1>4, <1>14
    <2>1. NoKind(toServer, {"EndOfData"}) /\ KindsIn(toServer, {"Data"})
      BY <1>10, <1>14 DEF KindsIn, NoKind
    <2>2. LastOnly(toServer', {"EndOfData"}) /\ (p.kind = "Data" => KindsIn(toServer', {"Data"}))
      BY <1>4, <2>0, <2>1, AppendKinds
    <2>3. server.q \in Queries
      BY <1>14, BoundAssumption DEF BinInv, NetTypes, Tasks
    <2>4. PICK a \in Nat : a = Len(result[server.q].applied) + 1
      <3>1. result[server.q].applied \in Seq(0 .. MaxBlocks)
        BY <2>3 DEF BinInv, NetTypes, ResultRecs
      <3>2. Len(result[server.q].applied) \in Nat
        BY <3>1
      <3> QED BY <3>2
    <2>5. PICK g \in Nat : g = f + 1
      BY <1>3
    <2>6. Numbered(toServer, a, g)
      BY <1>10, <1>14, <2>4, <2>5 DEF InputIs
    <2>7. /\ p.kind = "Data" => Numbered(toServer', a, g + 1)
          /\ p.kind # "Data" => Numbered(toServer', a, g)
      BY <1>3, <1>4, <2>0, <2>5, <2>6, NumberedAppend
    <2>8. /\ p.kind = "Data" => query'[asked].flushed + 1 = g + 1
          /\ p.kind # "Data" => query'[asked].flushed + 1 = g
      BY <1>3, <2>5
    <2>9. Numbered(toServer', a, query'[asked].flushed + 1)
      BY <2>7, <2>8
    <2>10. InputIs(query[asked].flushed + 1)'
      BY <2>4, <2>9 DEF InputIs
    <2> QED BY <2>2, <2>10
  <1>15. InsertReply'
    BY <1>1, <1>10, <1>12, <1>14 DEF InsertReply
  <1>16. DoneIsOver'
    <2> SUFFICES ASSUME NEW r \in Queries, query[r].outcome = "ok", query[r].sound
                 PROVE  /\ server.q # r
                        /\ \A i \in 1 .. Len(toServer') :
                            toServer'[i].kind \in Requests => toServer'[i].q # r
      BY DEF DoneIsOver
    <2> QED BY <1>12 DEF BinInv, DoneIsOver, NoKind
  <1>17. OwnBlocksInOrder' /\ InsertsAreSound'
    BY DEF BinInv, History, OwnBlocksInOrder, InsertsAreSound
  <1>18. NoSilentTruncation'
    BY DEF BinInv, History, NoSilentTruncation
  <1>19. InsertAcknowledged'
    <2> SUFFICES ASSUME NEW r \in Queries
                 PROVE  /\ \A i \in 1 .. Len(result[r].applied) : result[r].applied[i] = i
                        /\ query'[r].kind = "insert" /\ query'[r].outcome = "ok" =>
                            /\ result[r].complete
                            /\ Len(result[r].applied) = query'[r].flushed
      BY DEF InsertAcknowledged
    <2>1. query'[r].outcome = "ok" => r # asked
      BY <1>2
    <2> QED BY <2>1 DEF BinInv, History, InsertAcknowledged
  <1>20. History'
    BY <1>17, <1>18, <1>19 DEF History
  <1> QED BY <1>5, <1>6, <1>7, <1>9, <1>13, <1>15, <1>16, <1>20 DEF BinInv, WireInv

(* The INSERT cannot be sent on. *)
LEMMA SendDataFails ==
  ASSUME BinInv, pc = "inserting", SendFails, broken' = TRUE, Fails(asked), Over,
         UNCHANGED <<polls, deadline, resp, up, toClient, server, asked, result>>
  PROVE  BinInv'
  <1>1. pc \in InsertStages /\ pc # "preparing" /\ toServer' = toServer
    BY DEF InsertStages, SendFails
  <1>2. toClient' \in Seq(ToClient) /\ HasBlocks(toClient')
    BY DEF BinInv, NetTypes
  <1> QED BY <1>1, <1>2, GiveUpInsert

(* The end of the data is sent, *)
LEMMA EndDataSafe ==
  ASSUME BinInv, pc = "inserting", Send(Packet("EndOfData", asked, 0)),
         pc' \in {"undoing", "finalizing"},
         UNCHANGED <<broken, polls, deadline, resp, canceled, up, toClient, server, asked, query,
                     result>>
  PROVE  BinInv'
  <1> DEFINE p == Packet("EndOfData", asked, 0)
  <1>1. asked \in Queries /\ query \in [Queries -> QueryRecs]
    BY FlushedType DEF BinInv, StagesMean, InsertStages, ClientTypes
  <1>2. p \in ToServer /\ p.kind = "EndOfData" /\ p.q = asked
    BY <1>1, BoundAssumption DEF Packet, ToServer, NoNumber
  <1>3. Send(p)
    OBVIOUS
  <1> HIDE DEF p
  <1>4. p.kind = "Data" => p.n = query[asked].flushed + 1 /\ p.n <= MaxBlocks
                            /\ pc' = "inserting" /\ query'[asked].flushed = p.n
    BY <1>2
  <1>5. /\ p.kind \in {"Data", "EndOfData"}
        /\ (p.kind = "EndOfData" => pc' \in {"undoing", "finalizing"} /\ query' = query)
        /\ query' \in [Queries -> QueryRecs]
        /\ \A r \in Queries : r # asked => query'[r] = query[r]
        /\ \A r \in Queries : /\ query'[r].kind = query[r].kind /\ query'[r].sound = query[r].sound
                              /\ query'[r].given = query[r].given
                              /\ query'[r].outcome = query[r].outcome
    BY <1>1, <1>2
  <1> QED BY <1>2, <1>3, <1>4, <1>5, SendDataSafe

(* to undo an INSERT that could not be prepared, *)
LEMMA AbortInsertSafe == ASSUME BinInv, drain_aborted_insert PROVE BinInv'
  <1>1. CASE SendFails /\ broken' = TRUE /\ Fails(asked) /\ Over
    BY <1>1, SendDataFails DEF drain_aborted_insert
  <1>2. CASE Send(Packet("EndOfData", asked, 0)) /\ pc' = "undoing"
             /\ UNCHANGED <<broken, canceled, query>>
    BY <1>2, EndDataSafe DEF drain_aborted_insert
  <1> QED BY <1>1, <1>2 DEF drain_aborted_insert

(* or to finish one. *)
LEMMA FinalizeSafe == ASSUME BinInv, ch_binary_finalize_insert PROVE BinInv'
  <1>1. CASE SendFails /\ broken' = TRUE /\ Fails(asked) /\ Over
    BY <1>1, SendDataFails DEF ch_binary_finalize_insert
  <1>2. CASE Send(Packet("EndOfData", asked, 0)) /\ pc' = "finalizing"
             /\ UNCHANGED <<broken, canceled, query>>
    BY <1>2, EndDataSafe DEF ch_binary_finalize_insert
  <1> QED BY <1>1, <1>2 DEF ch_binary_finalize_insert

(* A block of rows is sent. *)
LEMMA FlushSafe == ASSUME BinInv, ch_binary_flush_block PROVE BinInv'
  <1> DEFINE n == query[asked].flushed + 1
             p == Packet("Data", asked, n)
             new == [query[asked] EXCEPT !.flushed = n]
  <1>0. pc = "inserting" /\ n <= MaxBlocks
        /\ UNCHANGED <<polls, deadline, resp, up, toClient, server, asked, result>>
    BY DEF ch_binary_flush_block
  <1>1. CASE SendFails /\ broken' = TRUE /\ Fails(asked) /\ Over
    BY <1>0, <1>1, SendDataFails
  <1>2. CASE Send(p) /\ query' = [query EXCEPT ![asked].flushed = n]
             /\ UNCHANGED <<broken, pc, canceled>>
    <2>1. /\ asked \in Queries /\ query \in [Queries -> QueryRecs] /\ query[asked] \in QueryRecs
          /\ n \in Nat
      BY <1>0, FlushedType DEF BinInv, StagesMean, InsertStages, ClientTypes
    <2>2. n \in 0 .. MaxBlocks /\ n \in 0 .. NoNumber
      BY <1>0, <2>1, BoundAssumption DEF NoNumber
    <2>3. p \in ToServer /\ p.kind = "Data" /\ p.q = asked /\ p.n = n
      BY <2>1, <2>2 DEF Packet, ToServer
    <2>4. /\ new \in QueryRecs /\ new.flushed = n /\ new.kind = query[asked].kind
          /\ new.sound = query[asked].sound /\ new.given = query[asked].given
          /\ new.outcome = query[asked].outcome
      BY <2>1, <2>2 DEF QueryRecs
    <2>5. query' = [query EXCEPT ![asked] = new]
      BY <1>2
    <2> HIDE DEF new, p
    <2>6. /\ query' \in [Queries -> QueryRecs] /\ query'[asked] = new
          /\ \A r \in Queries : r # asked => query'[r] = query[r]
      BY <2>1, <2>4, <2>5
    <2>7. \A r \in Queries : /\ query'[r].kind = query[r].kind /\ query'[r].sound = query[r].sound
                             /\ query'[r].given = query[r].given
                             /\ query'[r].outcome = query[r].outcome
      BY <2>4, <2>6
    <2>8. p.n = query[asked].flushed + 1 /\ p.n <= MaxBlocks /\ pc' = "inserting"
          /\ query'[asked].flushed = p.n
      BY <1>0, <1>2, <2>3, <2>4, <2>6
    <2>9. p.kind \in {"Data", "EndOfData"} /\ p.kind # "EndOfData"
      BY <2>3
    <2> QED BY <1>0, <1>2, <2>3, <2>6, <2>7, <2>8, <2>9, SendDataSafe
  <1> QED BY <1>1, <1>2 DEF ch_binary_flush_block

(***************************************************************************)
(* The server and the network.                                             *)
(***************************************************************************)
(* Every packet of s is one of t. *)
Subqueue(s, t) == \A i \in 1 .. Len(s) : \E j \in 1 .. Len(t) : s[i] = t[j]

(* A step of the server is none of the session. *)
LEMMA ServerFrame ==
  ASSUME BinInv, UNCHANGED serverUnchanged
  PROVE  /\ UNCHANGED <<broken, polls, deadline, resp, pc, canceled, asked, query>>
         /\ ClientTypes' /\ StagesMean' /\ Current' = Current
  <1>1. UNCHANGED <<broken, polls, deadline, resp, pc, canceled, asked, query>>
    BY DEF serverUnchanged, connVars
  <1> QED BY <1>1 DEF BinInv, ClientTypes, StagesMean, Current

(* It works for the statement under way, or on a broken connection. *)
LEMMA ServerWorks ==
  ASSUME BinInv, server.mode # "idle"
  PROVE  /\ server \in Tasks /\ server.q \in Queries /\ server # Idle /\ (Current \/ broken)
         /\ Current => /\ server.q = asked /\ NoKind(toServer, Requests)
                       /\ NoKind(toClient, Ends) /\ NoKind(toClient, {"EndOfStream"})
  <1>1. server \in Tasks /\ server.q # 0 /\ server # Idle
    BY DEF BinInv, NetTypes, Idle
  <1>2. server.q \in Queries
    BY <1>1 DEF Tasks
  <1>3. Current \/ broken
    BY <1>1 DEF BinInv, WireInv, RestIsQuiet
  <1>4. Current => server.q = asked /\ NoKind(toServer, Requests) /\ NoKind(toClient, Ends)
    BY <1>1 DEF BinInv, WireInv, ReplyIsOwn
  <1>5. NoKind(toClient, Ends) => NoKind(toClient, {"EndOfStream"})
    BY DEF NoKind, Ends
  <1> QED BY <1>1, <1>2, <1>3, <1>4, <1>5

(* What is left of the invariant when a server at work goes on. *)
LEMMA ServerPast ==
  ASSUME BinInv, server.mode # "idle", UNCHANGED serverUnchanged,
         result' \in [Queries -> ResultRecs],
         \A r \in Queries : r # server.q => result'[r] = result[r],
         server' = Idle \/ server'.q = server.q, Subqueue(toServer', toServer),
         \A i \in 1 .. Len(result'[server.q].applied) : result'[server.q].applied[i] = i
  PROVE  ToComeIsFresh' /\ DoneIsOver' /\ ScanResult' /\ RestIsQuiet' /\ History'
  <1>0. /\ UNCHANGED <<broken, polls, deadline, resp, pc, canceled, asked, query>>
        /\ Current' = Current
    BY ServerFrame
  <1>1. server.q \in Queries /\ server # Idle /\ (Current \/ broken)
    BY ServerWorks
  <1>2. asked \in Nat /\ server.q \in Nat /\ server.q <= asked
    BY <1>1, BoundAssumption DEF BinInv, ClientTypes, ToComeIsFresh, Queries
  <1>3. ToComeIsFresh'
    <2>1. server'.q <= asked
      BY <1>2 DEF Idle
    <2>2. \A i \in 1 .. Len(toServer') : toServer'[i].q <= asked
      BY DEF Subqueue, BinInv, ToComeIsFresh
    <2>3. \A r \in Queries : r > asked => r # server.q
      BY <1>2 DEF Queries
    <2> QED BY <1>0, <2>1, <2>2, <2>3 DEF BinInv, ToComeIsFresh
  <1>4. DoneIsOver'
    <2> SUFFICES ASSUME NEW r \in Queries, query[r].outcome = "ok", query[r].sound
                 PROVE  /\ server'.q # r
                        /\ \A i \in 1 .. Len(toServer') :
                            toServer'[i].kind \in Requests => toServer'[i].q # r
      BY <1>0 DEF DoneIsOver
    <2>1. server.q # r /\ \A i \in 1 .. Len(toServer) :
                            toServer[i].kind \in Requests => toServer[i].q # r
      BY DEF BinInv, DoneIsOver
    <2>2. r # 0
      BY BoundAssumption DEF Queries
    <2> QED BY <2>1, <2>2 DEF Subqueue, Idle
  <1>5. ScanResult'
    <2> SUFFICES ASSUME pc \in {"starting", "open"}, query[asked].sound PROVE ScanResult'
      BY <1>0 DEF ScanResult
    <2>1. pc \in ScanStages /\ pc # "draining" /\ pc \notin InsertStages
      BY DEF ScanStages, InsertStages
    <2>2. ~(resp.eos /\ ~resp.error)
      BY <1>1, <2>1 DEF BinInv, StagesMean, Current
    <2> QED BY <1>0, <2>2 DEF BinInv, ScanResult
  <1>6. RestIsQuiet'
    BY <1>0, <1>1 DEF RestIsQuiet
  <1>7. \A r \in Queries : query[r].outcome = "ok" /\ query[r].sound => result'[r] = result[r]
    BY DEF BinInv, DoneIsOver
  <1>8. OwnBlocksInOrder' /\ InsertsAreSound'
    BY <1>0 DEF BinInv, History, OwnBlocksInOrder, InsertsAreSound
  <1>9. NoSilentTruncation'
    BY <1>0, <1>7 DEF BinInv, History, NoSilentTruncation
  <1>10. InsertAcknowledged'
    <2> SUFFICES ASSUME NEW r \in Queries
                 PROVE  /\ \A i \in 1 .. Len(result'[r].applied) : result'[r].applied[i] = i
                        /\ query[r].kind = "insert" /\ query[r].outcome = "ok" =>
                            /\ result'[r].complete
                            /\ Len(result'[r].applied) = query[r].flushed
      BY <1>0 DEF InsertAcknowledged
    <2>1. \A i \in 1 .. Len(result'[r].applied) : result'[r].applied[i] = i
      BY DEF BinInv, History, InsertAcknowledged
    <2>2. query[r].kind = "insert" /\ query[r].outcome = "ok" => result'[r] = result[r]
      BY <1>7 DEF BinInv, History, InsertsAreSound
    <2> QED BY <2>1, <2>2 DEF BinInv, History, InsertAcknowledged
  <1> QED BY <1>3, <1>4, <1>5, <1>6, <1>8, <1>9, <1>10 DEF History

(* A packet of a reply. *)
LEMMA ReplyFacts ==
  ASSUME BinInv, server.mode # "idle",
         NEW kind \in {"Data", "Progress", "EndOfStream", "Exception"}, NEW n \in 0 .. NoNumber,
         kind = "Data" => n <= MaxBlocks, Reply(kind, n)
  PROVE  /\ toClient' \in Seq(ToClient) /\ HasBlocks(toClient')
         /\ Current =>
              /\ \A i \in 1 .. Len(toClient') : toClient'[i].q = asked
              /\ LastOnly(toClient', Ends)
              /\ kind \notin Ends => NoKind(toClient', Ends)
              /\ kind # "EndOfStream" => NoKind(toClient', {"EndOfStream"})
              /\ kind # "Data" /\ NoKind(toClient, {"Data"}) => NoKind(toClient', {"Data"})
         /\ \A a, b \in Nat : Numbered(toClient, a, b) =>
              /\ kind = "Data" /\ n = b => Numbered(toClient', a, b + 1)
              /\ kind # "Data" => Numbered(toClient', a, b)
  <1> DEFINE p == Packet(kind, server.q, n)
  <1>1. /\ server.q \in Queries
        /\ Current => /\ server.q = asked
                      /\ NoKind(toClient, Ends) /\ NoKind(toClient, {"EndOfStream"})
    BY ServerWorks
  <1>2. p \in ToClient /\ p.kind = kind /\ p.q = server.q /\ p.n = n
    BY <1>1 DEF Packet, ToClient
  <1>3. toClient' = Append(toClient, p) /\ toClient \in Seq(ToClient) /\ HasBlocks(toClient)
    BY DEF Reply, BinInv, NetTypes
  <1> HIDE DEF p
  <1>4. PICK m \in Nat : m = Len(toClient) /\ Len(toClient') = m + 1
    BY <1>2, <1>3, AppendFacts
  <1>5. /\ toClient' \in Seq(ToClient) /\ toClient'[m + 1] = p
        /\ \A i \in 1 .. m : toClient'[i] = toClient[i]
    BY <1>2, <1>3, <1>4, AppendFacts
  <1>6. \A i \in 1 .. m + 1 : i \in 1 .. m \/ i = m + 1
    BY <1>4
  <1>7. HasBlocks(toClient')
    BY <1>2, <1>3, <1>4, <1>5, <1>6 DEF HasBlocks
  <1>8. ASSUME Current
        PROVE  /\ \A i \in 1 .. Len(toClient') : toClient'[i].q = asked
               /\ LastOnly(toClient', Ends)
               /\ kind \notin Ends => NoKind(toClient', Ends)
               /\ kind # "EndOfStream" => NoKind(toClient', {"EndOfStream"})
               /\ kind # "Data" /\ NoKind(toClient, {"Data"}) => NoKind(toClient', {"Data"})
    <2>1. \A i \in 1 .. m : toClient[i].q = asked
      BY <1>4, <1>8 DEF BinInv, WireInv, ReplyIsOwn
    <2>2. \A i \in 1 .. Len(toClient') : toClient'[i].q = asked
      BY <1>1, <1>2, <1>4, <1>5, <1>6, <1>8, <2>1
    <2>3. LastOnly(toClient', Ends) /\ (kind \notin Ends => NoKind(toClient', Ends))
      BY <1>1, <1>2, <1>3, <1>8, AppendKinds
    <2>4. kind # "EndOfStream" => NoKind(toClient', {"EndOfStream"})
      <3>1. kind # "EndOfStream" => kind \notin {"EndOfStream"}
        OBVIOUS
      <3> QED BY <1>1, <1>2, <1>3, <1>8, <3>1, AppendKinds
    <2>5. kind # "Data" /\ NoKind(toClient, {"Data"}) => NoKind(toClient', {"Data"})
      <3>1. kind # "Data" => kind \notin {"Data"}
        OBVIOUS
      <3> QED BY <1>2, <1>3, <3>1, AppendKinds
    <2> QED BY <2>2, <2>3, <2>4, <2>5
  <1>9. ASSUME NEW a \in Nat, NEW b \in Nat, Numbered(toClient, a, b)
        PROVE  /\ kind = "Data" /\ n = b => Numbered(toClient', a, b + 1)
               /\ kind # "Data" => Numbered(toClient', a, b)
    BY <1>2, <1>3, <1>9, NumberedAppend
  <1> QED BY <1>5, <1>7, <1>8, <1>9

(* The parts of the invariant about a reply that goes on. *)
LEMMA ReplyGoesOn ==
  ASSUME BinInv, server.mode # "idle", up, UNCHANGED serverUnchanged,
         toClient' \in Seq(ToClient), Current => LastOnly(toClient', Ends),
         Current => \A i \in 1 .. Len(toClient') : toClient'[i].q = asked,
         Subqueue(toServer', toServer),
         server' # Idle => server'.q = server.q /\ NoKind(toClient', Ends)
  PROVE  ReplyIsOwn' /\ (Current => NoKind(toServer', Requests))
  <1>0. Current' = Current /\ asked' = asked
    BY ServerFrame
  <1>1. Current => server.q = asked /\ NoKind(toServer, Requests)
    BY ServerWorks
  <1>2. Current => NoKind(toServer', Requests)
    BY <1>1 DEF Subqueue, NoKind
  <1>3. Current => Once(toServer', Requests) /\ \A i \in 1 .. Len(toServer') :
                        toServer'[i].kind \in Requests => toServer'[i].q = asked
    BY <1>2 DEF NoKind, Once
  <1> QED BY <1>0, <1>1, <1>2, <1>3 DEF ReplyIsOwn

(* A queue is a part of itself. *)
LEMMA SameSubqueue == Subqueue(toServer, toServer)
  BY DEF Subqueue

(* The numbers of the blocks that have been applied. *)
LEMMA AppliedInOrder ==
  ASSUME BinInv, NEW r \in Queries
  PROVE  /\ \A i \in 1 .. Len(result[r].applied) : result[r].applied[i] = i
         /\ result[r] \in ResultRecs /\ result[r].applied \in Seq(0 .. MaxBlocks)
         /\ result[r].sent \in 0 .. MaxBlocks + 1
  BY DEF BinInv, History, InsertAcknowledged, NetTypes, ResultRecs

(* The number of blocks received. *)
LEMMA ReceivedType == ASSUME BinInv, pc \in {"starting", "open"} PROVE Received \in Nat
  <1>1. query[asked] \in QueryRecs
    BY FlushedType DEF BinInv, StagesMean, ScanStages
  <1>2. PICK s \in Seq(Blocks) : s = query[asked].given
    BY <1>1 DEF QueryRecs
  <1>3. PICK l \in Nat : l = Len(s)
    BY <1>2, LenProperties
  <1>4. Received = l + IF resp.staged = NoBlock THEN 0 ELSE 1
    BY <1>2, <1>3 DEF Received
  <1>5. Received = l \/ Received = l + 1
    BY <1>4
  <1> QED BY <1>5

(* The server sends the next block of a result. *)
LEMMA SendsBlockSafe == ASSUME BinInv, ServerSendsBlock PROVE BinInv'
  <1> DEFINE n == result[server.q].sent
             new == [result[server.q] EXCEPT !.sent = n + 1]
  <1>0. /\ up /\ server.mode = "select" /\ server.mode # "idle" /\ n <= MaxBlocks
        /\ Reply("Data", n) /\ UNCHANGED <<serverUnchanged, up, toServer, server>>
        /\ UNCHANGED serverUnchanged
    BY DEF ServerSendsBlock
  <1>1. /\ UNCHANGED <<broken, polls, deadline, resp, pc, canceled, asked, query>>
        /\ ClientTypes' /\ StagesMean' /\ Current' = Current
    BY <1>0, ServerFrame
  <1>2. /\ server.q \in Queries /\ server # Idle /\ (Current \/ broken)
        /\ Current => server.q = asked /\ NoKind(toServer, Requests) /\ NoKind(toClient, Ends)
    BY <1>0, ServerWorks
  <1>3. /\ result[server.q] \in ResultRecs /\ n \in Nat
        /\ \A i \in 1 .. Len(result[server.q].applied) : result[server.q].applied[i] = i
    BY <1>2, AppliedInOrder, BoundAssumption
  <1>4. n + 1 \in 0 .. MaxBlocks + 1 /\ n \in 0 .. NoNumber
    BY <1>0, <1>3, BoundAssumption DEF NoNumber
  <1>5. /\ new \in ResultRecs /\ new.sent = n + 1 /\ new.applied = result[server.q].applied
        /\ new.complete = result[server.q].complete
    BY <1>3, <1>4 DEF ResultRecs
  <1>6. result' = [result EXCEPT ![server.q] = new] /\ result \in [Queries -> ResultRecs]
    BY DEF ServerSendsBlock, BinInv, NetTypes
  <1>a. PICK m \in Nat : m = n
    BY <1>3
  <1> HIDE DEF new
  <1>7. /\ result' \in [Queries -> ResultRecs] /\ result'[server.q] = new
        /\ \A r \in Queries : r # server.q => result'[r] = result[r]
    BY <1>2, <1>5, <1>6
  <1>8. \A i \in 1 .. Len(result'[server.q].applied) : result'[server.q].applied[i] = i
    BY <1>3, <1>5, <1>7
  <1>9. Subqueue(toServer', toServer)
    BY <1>0, SameSubqueue
  <1>10. ToComeIsFresh' /\ DoneIsOver' /\ ScanResult' /\ RestIsQuiet' /\ History'
    BY <1>0, <1>7, <1>8, <1>9, ServerPast
  <1>11. /\ toClient' \in Seq(ToClient) /\ HasBlocks(toClient')
         /\ Current => /\ \A i \in 1 .. Len(toClient') : toClient'[i].q = asked
                       /\ LastOnly(toClient', Ends) /\ NoKind(toClient', Ends)
                       /\ NoKind(toClient', {"EndOfStream"})
         /\ \A a, b \in Nat : Numbered(toClient, a, b) /\ n = b => Numbered(toClient', a, b + 1)
    <2>1. "Data" \in {"Data", "Progress", "EndOfStream", "Exception"} /\ "Data" \notin Ends
      BY DEF Ends
    <2> QED BY <1>0, <1>4, <2>1, ReplyFacts
  <1>12. NetTypes'
    BY <1>0, <1>7, <1>11 DEF BinInv, NetTypes
  <1>13. ReplyIsOwn'
    <2> SUFFICES ASSUME Current PROVE ReplyIsOwn'
      BY <1>1 DEF ReplyIsOwn
    <2> QED BY <1>0, <1>9, <1>11, ReplyGoesOn
  <1>14. BlocksInOrder'
    <2> SUFFICES ASSUME pc \in {"starting", "open"}, Current PROVE BlocksInOrder'
      BY <1>1 DEF BlocksInOrder
    <2>1. PICK b \in Nat : Numbered(toClient, Received, b) /\ b = result[asked].sent
      BY <1>0 DEF BinInv, WireInv, BlocksInOrder
    <2>2. Received \in Nat
      BY ReceivedType
    <2>3. PICK c \in Nat : c = b + 1
      OBVIOUS
    <2>4. Numbered(toClient', Received, b + 1)
      BY <1>2, <1>11, <2>1, <2>2
    <2>5. result'[asked].sent = c
      BY <1>2, <1>5, <1>7, <2>1, <2>3
    <2>6. Numbered(toClient', Received, c)
      BY <2>3, <2>4
    <2>7. Received' = Received
      BY <1>1 DEF Received
    <2> QED BY <1>1, <2>5, <2>6, <2>7 DEF BlocksInOrder
  <1>15. ScanReply'
    BY <1>0, <1>1, <1>11 DEF BinInv, WireInv, ScanReply
  <1>16. InsertReply' /\ BrokenWire'
    BY <1>0, <1>1 DEF BinInv, WireInv, InsertReply, BrokenWire
  <1> QED BY <1>1, <1>10, <1>12, <1>13, <1>14, <1>15, <1>16 DEF BinInv, WireInv

(* It sends a packet without a block. *)
LEMMA SendsProgressSafe == ASSUME BinInv, ServerSendsProgress PROVE BinInv'
  <1>0. /\ up /\ server.mode # "idle" /\ Reply("Progress", NoNumber)
        /\ UNCHANGED serverUnchanged /\ UNCHANGED <<up, toServer, server, result>>
    BY DEF ServerSendsProgress
  <1>1. /\ UNCHANGED <<broken, polls, deadline, resp, pc, canceled, asked, query>>
        /\ ClientTypes' /\ StagesMean' /\ Current' = Current
    BY <1>0, ServerFrame
  <1>2. server.q \in Queries
    BY <1>0, ServerWorks
  <1>3. result' \in [Queries -> ResultRecs] /\ Subqueue(toServer', toServer)
        /\ \A i \in 1 .. Len(result'[server.q].applied) : result'[server.q].applied[i] = i
    BY <1>0, <1>2, AppliedInOrder, SameSubqueue DEF BinInv, NetTypes
  <1>4. ToComeIsFresh' /\ DoneIsOver' /\ ScanResult' /\ RestIsQuiet' /\ History'
    BY <1>0, <1>3, ServerPast
  <1>5. /\ toClient' \in Seq(ToClient) /\ HasBlocks(toClient')
        /\ Current => /\ \A i \in 1 .. Len(toClient') : toClient'[i].q = asked
                      /\ LastOnly(toClient', Ends) /\ NoKind(toClient', Ends)
                      /\ NoKind(toClient', {"EndOfStream"})
                      /\ NoKind(toClient, {"Data"}) => NoKind(toClient', {"Data"})
        /\ \A a, b \in Nat : Numbered(toClient, a, b) => Numbered(toClient', a, b)
    <2>1. /\ "Progress" \in {"Data", "Progress", "EndOfStream", "Exception"}
          /\ "Progress" \notin Ends /\ "Progress" # "Data" /\ "Progress" # "EndOfStream"
          /\ NoNumber \in 0 .. NoNumber
      BY BoundAssumption DEF Ends, NoNumber
    <2> QED BY <1>0, <2>1, ReplyFacts
  <1>6. NetTypes'
    BY <1>0, <1>3, <1>5 DEF BinInv, NetTypes
  <1>7. ReplyIsOwn'
    <2> SUFFICES ASSUME Current PROVE ReplyIsOwn'
      BY <1>1 DEF ReplyIsOwn
    <2> QED BY <1>0, <1>3, <1>5, ReplyGoesOn
  <1>8. BlocksInOrder'
    <2> SUFFICES ASSUME pc \in {"starting", "open"}, Current PROVE BlocksInOrder'
      BY <1>1 DEF BlocksInOrder
    <2>1. PICK b \in Nat : Numbered(toClient, Received, b) /\ b = result[asked].sent
      BY <1>0 DEF BinInv, WireInv, BlocksInOrder
    <2>2. Received \in Nat /\ Received' = Received
      BY <1>1, ReceivedType DEF Received
    <2>3. Numbered(toClient', Received', b)
      BY <1>5, <2>1, <2>2
    <2> QED BY <1>0, <1>1, <2>1, <2>3 DEF BlocksInOrder
  <1>9. ScanReply' /\ BrokenWire'
    BY <1>0, <1>1, <1>5 DEF BinInv, WireInv, ScanReply, BrokenWire, InputIs
  <1>10. InsertReply'
    <2> SUFFICES ASSUME pc \in InsertStages PROVE InsertReply'
      BY <1>1 DEF InsertReply
    <2>1. Current
      BY DEF Current
    <2> QED BY <1>0, <1>1, <1>5, <2>1 DEF BinInv, WireInv, InsertReply, InputIs
  <1> QED BY <1>1, <1>4, <1>6, <1>7, <1>8, <1>9, <1>10 DEF BinInv, WireInv

(* The result of a query is complete. *)
LEMMA CompleteFacts ==
  ASSUME BinInv, server.mode # "idle",
         result' = [result EXCEPT ![server.q].complete = TRUE]
  PROVE  /\ result' \in [Queries -> ResultRecs] /\ result'[server.q].complete
         /\ \A r \in Queries : r # server.q => result'[r] = result[r]
         /\ \A r \in Queries : /\ result'[r].sent = result[r].sent
                               /\ result'[r].applied = result[r].applied
         /\ \A i \in 1 .. Len(result'[server.q].applied) : result'[server.q].applied[i] = i
  <1> DEFINE new == [result[server.q] EXCEPT !.complete = TRUE]
  <1>1. server.q \in Queries
    BY ServerWorks
  <1>2. /\ result[server.q] \in ResultRecs
        /\ \A i \in 1 .. Len(result[server.q].applied) : result[server.q].applied[i] = i
    BY <1>1, AppliedInOrder
  <1>3. /\ new \in ResultRecs /\ new.complete /\ new.sent = result[server.q].sent
        /\ new.applied = result[server.q].applied
    BY <1>2 DEF ResultRecs
  <1>4. result' = [result EXCEPT ![server.q] = new] /\ result \in [Queries -> ResultRecs]
    BY DEF BinInv, NetTypes
  <1> HIDE DEF new
  <1>5. /\ result' \in [Queries -> ResultRecs] /\ result'[server.q] = new
        /\ \A r \in Queries : r # server.q => result'[r] = result[r]
    BY <1>1, <1>3, <1>4
  <1>6. \A r \in Queries : /\ result'[r].sent = result[r].sent
                           /\ result'[r].applied = result[r].applied
    BY <1>3, <1>5
  <1> QED BY <1>2, <1>3, <1>5, <1>6

(* It ends the result. *)
LEMMA FinishesSafe == ASSUME BinInv, ServerFinishes PROVE BinInv'
  <1>0. /\ up /\ server.mode = "select" /\ server.mode # "idle" /\ Reply("EndOfStream", 0)
        /\ result' = [result EXCEPT ![server.q].complete = TRUE] /\ server' = Idle
        /\ UNCHANGED serverUnchanged /\ UNCHANGED <<up, toServer>>
    BY DEF ServerFinishes
  <1>1. /\ UNCHANGED <<broken, polls, deadline, resp, pc, canceled, asked, query>>
        /\ ClientTypes' /\ StagesMean' /\ Current' = Current
    BY <1>0, ServerFrame
  <1>2. /\ server.q \in Queries
        /\ Current => server.q = asked /\ NoKind(toServer, Requests) /\ NoKind(toClient, Ends)
    BY <1>0, ServerWorks
  <1>3. Subqueue(toServer', toServer)
    BY <1>0, SameSubqueue
  <1>4. /\ result' \in [Queries -> ResultRecs] /\ result'[server.q].complete
        /\ \A r \in Queries : r # server.q => result'[r] = result[r]
        /\ \A r \in Queries : /\ result'[r].sent = result[r].sent
                              /\ result'[r].applied = result[r].applied
        /\ \A i \in 1 .. Len(result'[server.q].applied) : result'[server.q].applied[i] = i
    BY <1>0, CompleteFacts
  <1>5. ToComeIsFresh' /\ DoneIsOver' /\ ScanResult' /\ RestIsQuiet' /\ History'
    BY <1>0, <1>3, <1>4, ServerPast
  <1>6. /\ toClient' \in Seq(ToClient) /\ HasBlocks(toClient')
        /\ Current => /\ \A i \in 1 .. Len(toClient') : toClient'[i].q = asked
                      /\ LastOnly(toClient', Ends)
        /\ \A a, b \in Nat : Numbered(toClient, a, b) => Numbered(toClient', a, b)
    <2>1. /\ "EndOfStream" \in {"Data", "Progress", "EndOfStream", "Exception"}
          /\ "EndOfStream" # "Data" /\ 0 \in 0 .. NoNumber
      BY BoundAssumption DEF NoNumber
    <2> QED BY <1>0, <2>1, ReplyFacts
  <1>7. NetTypes'
    BY <1>0, <1>4, <1>6 DEF BinInv, NetTypes, Idle, Tasks
  <1>8. ReplyIsOwn'
    <2> SUFFICES ASSUME Current PROVE ReplyIsOwn'
      BY <1>1 DEF ReplyIsOwn
    <2> QED BY <1>0, <1>3, <1>6, ReplyGoesOn
  <1>9. BlocksInOrder'
    <2> SUFFICES ASSUME pc \in {"starting", "open"}, Current PROVE BlocksInOrder'
      BY <1>1 DEF BlocksInOrder
    <2>1. PICK b \in Nat : Numbered(toClient, Received, b) /\ b = result[asked].sent
      BY <1>0 DEF BinInv, WireInv, BlocksInOrder
    <2>2. Received \in Nat /\ Received' = Received
      BY <1>1, ReceivedType DEF Received
    <2>3. Numbered(toClient', Received', b)
      BY <1>6, <2>1, <2>2
    <2>4. result'[asked].sent = b
      BY <1>2, <1>4, <2>1
    <2> QED BY <1>0, <1>1, <2>3, <2>4 DEF BlocksInOrder
  <1>10. ScanReply'
    BY <1>0, <1>1, <1>2, <1>4 DEF BinInv, WireInv, ScanReply, Idle
  <1>11. InsertReply' /\ BrokenWire'
    BY <1>0, <1>1 DEF BinInv, WireInv, InsertReply, BrokenWire, Idle
  <1> QED BY <1>1, <1>5, <1>7, <1>8, <1>9, <1>10, <1>11 DEF BinInv, WireInv

(* The server reads a packet. *)
LEMMA ServerReadFacts ==
  ASSUME BinInv, NEW kind, ServerReads(kind)
  PROVE  /\ up /\ toServer # <<>> /\ toServer \in Seq(ToServer) /\ toServer' = Tail(toServer)
         /\ toServer' \in Seq(ToServer) /\ HasBlocks(toServer') /\ Subqueue(toServer', toServer)
         /\ Head(toServer) \in ToServer /\ Head(toServer).kind = kind
         /\ Head(toServer) = toServer[1] /\ 1 \in 1 .. Len(toServer)
         /\ kind = "Data" => Head(toServer).n \in 0 .. MaxBlocks
  <1>1. /\ up /\ toServer # <<>> /\ toServer \in Seq(ToServer) /\ toServer' = Tail(toServer)
        /\ HasBlocks(toServer) /\ Head(toServer).kind = kind
    BY DEF ServerReads, BinInv, NetTypes
  <1>2. PICK n \in Nat : n = Len(toServer) /\ n >= 1 /\ Len(toServer') = n - 1
    BY <1>1, TailFacts
  <1>3. /\ toServer' \in Seq(ToServer) /\ Head(toServer) \in ToServer /\ Head(toServer) = toServer[1]
        /\ \A i \in 1 .. n - 1 : toServer'[i] = toServer[i + 1] /\ i + 1 \in 1 .. n
    BY <1>1, <1>2, TailFacts
  <1>4. HasBlocks(toServer')
    BY <1>1, <1>2, <1>3 DEF HasBlocks
  <1>5. kind = "Data" => Head(toServer).n <= MaxBlocks
    BY <1>1, <1>2, <1>3 DEF HasBlocks
  <1>6. Head(toServer).n \in Nat
    BY <1>3, BoundAssumption DEF ToServer, NoNumber
  <1>7. kind = "Data" => Head(toServer).n \in 0 .. MaxBlocks
    BY <1>5, <1>6, BoundAssumption
  <1>8. Subqueue(toServer', toServer)
    BY <1>2, <1>3 DEF Subqueue
  <1>9. 1 \in 1 .. Len(toServer)
    BY <1>2
  <1> QED BY <1>1, <1>3, <1>4, <1>7, <1>8, <1>9

(* It ends the result early, on Cancel. *)
LEMMA CanceledSafe == ASSUME BinInv, ServerIsCanceled PROVE BinInv'
  <1>0. /\ server.mode = "select" /\ server.mode # "idle" /\ Reply("EndOfStream", 0)
        /\ ServerReads("Cancel") /\ server' = Idle
        /\ UNCHANGED serverUnchanged /\ UNCHANGED <<up, result>>
    BY DEF ServerIsCanceled
  <1>1. /\ UNCHANGED <<broken, polls, deadline, resp, pc, canceled, asked, query>>
        /\ ClientTypes' /\ StagesMean' /\ Current' = Current
    BY <1>0, ServerFrame
  <1>2. server.q \in Queries
    BY <1>0, ServerWorks
  <1>3. /\ up /\ toServer # <<>> /\ toServer \in Seq(ToServer) /\ toServer' = Tail(toServer)
        /\ toServer' \in Seq(ToServer) /\ HasBlocks(toServer') /\ Subqueue(toServer', toServer)
    BY <1>0, ServerReadFacts
  <1>4. result' \in [Queries -> ResultRecs]
        /\ \A i \in 1 .. Len(result'[server.q].applied) : result'[server.q].applied[i] = i
    BY <1>0, <1>2, AppliedInOrder DEF BinInv, NetTypes
  <1>5. ToComeIsFresh' /\ DoneIsOver' /\ ScanResult' /\ RestIsQuiet' /\ History'
    BY <1>0, <1>3, <1>4, ServerPast
  <1>6. /\ toClient' \in Seq(ToClient) /\ HasBlocks(toClient')
        /\ Current => /\ \A i \in 1 .. Len(toClient') : toClient'[i].q = asked
                      /\ LastOnly(toClient', Ends)
    <2>1. /\ "EndOfStream" \in {"Data", "Progress", "EndOfStream", "Exception"}
          /\ "EndOfStream" # "Data" /\ 0 \in 0 .. NoNumber
      BY BoundAssumption DEF NoNumber
    <2> QED BY <1>0, <2>1, ReplyFacts
  <1>7. NetTypes'
    BY <1>0, <1>3, <1>4, <1>6 DEF BinInv, NetTypes, Idle, Tasks
  <1>8. ReplyIsOwn'
    <2> SUFFICES ASSUME Current PROVE ReplyIsOwn'
      BY <1>1 DEF ReplyIsOwn
    <2> QED BY <1>0, <1>3, <1>6, ReplyGoesOn
  (* Only a scan that is being freed has sent a Cancel. *)
  <1>9. pc \in ScanStages /\ Current => pc = "draining"
    BY <1>0, <1>3 DEF BinInv, WireInv, ScanReply
  <1>10. BlocksInOrder'
    BY <1>1, <1>9 DEF BlocksInOrder, ScanStages
  <1>11. ScanReply'
    <2> SUFFICES ASSUME pc \in ScanStages, Current PROVE ScanReply'
      BY <1>1 DEF ScanReply
    <2>1. KindsIn(toServer, {"Query", "Cancel"})
      BY DEF BinInv, WireInv, ScanReply
    <2>2. KindsIn(toServer', {"Query", "Cancel"})
      BY <1>3, <2>1, TailKinds
    <2> QED BY <1>0, <1>1, <1>9, <2>2 DEF ScanReply, Idle
  <1>12. InsertReply'
    BY <1>0, <1>1 DEF BinInv, WireInv, InsertReply
  <1>13. BrokenWire'
    <2>1. broken => NoKind(toServer, {"Insert"})
      BY <1>3 DEF BinInv, WireInv, BrokenWire
    <2>2. broken => NoKind(toServer', {"Insert"})
      BY <1>3, <2>1, TailKinds
    <2> QED BY <1>0, <1>1, <2>2 DEF BrokenWire, Idle
  <1> QED BY <1>1, <1>5, <1>7, <1>8, <1>10, <1>11, <1>12, <1>13 DEF BinInv, WireInv

(* Nothing is left of a queue when the server hangs up. *)
LEMMA EmptyQueue ==
  ASSUME NEW K
  PROVE  /\ KindsIn(<<>>, K) /\ NoKind(<<>>, K) /\ LastOnly(<<>>, K) /\ Once(<<>>, K)
         /\ HasBlocks(<<>>) /\ Subqueue(<<>>, toServer)
  BY DEF KindsIn, NoKind, LastOnly, Once, HasBlocks, Subqueue

(* It raises an exception, and may hang up. *)
LEMMA RaisesSafe == ASSUME BinInv, ServerRaises PROVE BinInv'
  <1>0. /\ up /\ server.mode # "idle" /\ Reply("Exception", 0) /\ server' = Idle
        /\ up' \in BOOLEAN /\ (toServer' = toServer \/ toServer' = <<>>)
        /\ UNCHANGED serverUnchanged /\ result' = result
    BY DEF ServerRaises
  <1>1. /\ UNCHANGED <<broken, polls, deadline, resp, pc, canceled, asked, query>>
        /\ ClientTypes' /\ StagesMean' /\ Current' = Current
    BY <1>0, ServerFrame
  <1>2. server.q \in Queries
    BY <1>0, ServerWorks
  <1>3. toServer' \in Seq(ToServer) /\ HasBlocks(toServer') /\ Subqueue(toServer', toServer)
    <2>1. CASE toServer' = toServer
      BY <2>1, SameSubqueue DEF BinInv, NetTypes
    <2>2. CASE toServer' = <<>>
      <3>1. <<>> \in Seq(ToServer) /\ HasBlocks(<<>>) /\ Subqueue(<<>>, toServer)
        BY EmptyQueue
      <3> QED BY <2>2, <3>1
    <2> QED BY <1>0, <2>1, <2>2
  <1>4. result' \in [Queries -> ResultRecs]
        /\ \A i \in 1 .. Len(result'[server.q].applied) : result'[server.q].applied[i] = i
    BY <1>0, <1>2, AppliedInOrder DEF BinInv, NetTypes
  <1>5. ToComeIsFresh' /\ DoneIsOver' /\ ScanResult' /\ RestIsQuiet' /\ History'
    BY <1>0, <1>3, <1>4, ServerPast
  <1>6. /\ toClient' \in Seq(ToClient) /\ HasBlocks(toClient')
        /\ Current => /\ \A i \in 1 .. Len(toClient') : toClient'[i].q = asked
                      /\ LastOnly(toClient', Ends) /\ NoKind(toClient', {"EndOfStream"})
        /\ \A a, b \in Nat : Numbered(toClient, a, b) => Numbered(toClient', a, b)
    <2>1. /\ "Exception" \in {"Data", "Progress", "EndOfStream", "Exception"}
          /\ "Exception" # "Data" /\ "Exception" # "EndOfStream" /\ 0 \in 0 .. NoNumber
      BY BoundAssumption DEF NoNumber
    <2> QED BY <1>0, <2>1, ReplyFacts
  <1>7. NetTypes'
    BY <1>0, <1>3, <1>4, <1>6 DEF BinInv, NetTypes, Idle, Tasks
  <1>8. ReplyIsOwn'
    <2> SUFFICES ASSUME Current PROVE ReplyIsOwn'
      BY <1>1 DEF ReplyIsOwn
    <2> QED BY <1>0, <1>3, <1>6, ReplyGoesOn
  <1>9. BlocksInOrder'
    <2> SUFFICES ASSUME pc \in {"starting", "open"}, Current PROVE BlocksInOrder'
      BY <1>1 DEF BlocksInOrder
    <2>1. PICK b \in Nat : Numbered(toClient, Received, b) /\ b = result[asked].sent
      BY <1>0 DEF BinInv, WireInv, BlocksInOrder
    <2>2. Received \in Nat /\ Received' = Received
      BY <1>1, ReceivedType DEF Received
    <2>3. Numbered(toClient', Received', b)
      BY <1>6, <2>1, <2>2
    <2> QED BY <1>0, <1>1, <2>1, <2>3 DEF BlocksInOrder
  <1>10. ScanReply'
    <2> SUFFICES ASSUME pc \in ScanStages, Current PROVE ScanReply'
      BY <1>1 DEF ScanReply
    <2>1. KindsIn(toServer', {"Query", "Cancel"})
          /\ (pc # "draining" => LastOnly(toServer', Requests))
      BY <1>0, EmptyQueue DEF BinInv, WireInv, ScanReply
    <2> QED BY <1>0, <1>1, <1>6, <2>1 DEF ScanReply, Idle
  <1>11. InsertReply'
    <2> SUFFICES ASSUME pc \in InsertStages PROVE InsertReply'
      BY <1>1 DEF InsertReply
    <2>1. Current
      BY DEF Current
    <2>2. /\ NoKind(toServer', {"Query"})
          /\ pc = "preparing" => KindsIn(toServer', {"Insert", "Cancel"}) /\ LastOnly(toServer', Requests)
          /\ pc # "preparing" => NoKind(toServer', Requests)
      BY <1>0, EmptyQueue DEF BinInv, WireInv, InsertReply
    <2>3. pc = "preparing" => query[asked].flushed = 0 /\ result[asked].applied = <<>>
      BY DEF BinInv, WireInv, InsertReply
    <2> QED BY <1>0, <1>1, <1>6, <2>1, <2>2, <2>3 DEF InsertReply, Idle
  <1>12. BrokenWire'
    <2>1. broken => NoKind(toServer', {"Insert"})
      BY <1>0, EmptyQueue DEF BinInv, WireInv, BrokenWire
    <2> QED BY <1>0, <1>1, <2>1 DEF BrokenWire, Idle
  <1> QED BY <1>1, <1>5, <1>7, <1>8, <1>9, <1>10, <1>11, <1>12 DEF BinInv, WireInv

(* It sends the schema for an INSERT. *)
LEMMA SendsSchemaSafe == ASSUME BinInv, ServerSendsSchema PROVE BinInv'
  <1>0. /\ up /\ server.mode = "insert" /\ server.mode # "idle" /\ Reply("Data", 0)
        /\ server' = [server EXCEPT !.mode = "accept"]
        /\ UNCHANGED serverUnchanged /\ UNCHANGED <<up, toServer, result>>
    BY DEF ServerSendsSchema
  <1>1. /\ UNCHANGED <<broken, polls, deadline, resp, pc, canceled, asked, query>>
        /\ ClientTypes' /\ StagesMean' /\ Current' = Current
    BY <1>0, ServerFrame
  <1>2. server \in Tasks /\ server.q \in Queries /\ server # Idle /\ (Current \/ broken)
    BY <1>0, ServerWorks
  <1>3. server' \in Tasks /\ server'.mode = "accept" /\ server'.q = server.q /\ server'.q # 0
    <2>1. server.q # 0
      BY <1>2, BoundAssumption DEF Queries
    <2> QED BY <1>0, <1>2, <2>1 DEF Tasks
  (* The INSERT is being prepared. *)
  <1>4. ~broken /\ Current /\ pc = "preparing" /\ toServer = <<>> /\ server.q = asked
    <2>1. ~broken /\ Current
      BY <1>0, <1>2 DEF BinInv, WireInv, BrokenWire
    <2>2. pc \in InsertStages
      BY <1>0, <2>1 DEF BinInv, WireInv, ScanReply, Current
    <2>3. pc = "preparing" /\ toServer = <<>>
      BY <1>0, <1>2, <2>2 DEF BinInv, WireInv, InsertReply
    <2> QED BY <1>0, <2>1, <2>3, ServerWorks
  <1>5. pc \in InsertStages /\ pc \notin ScanStages /\ pc \notin {"starting", "open"}
    BY <1>4 DEF InsertStages, ScanStages
  <1>6. Subqueue(toServer', toServer)
    BY <1>0, SameSubqueue
  <1>7. result' \in [Queries -> ResultRecs]
        /\ \A i \in 1 .. Len(result'[server.q].applied) : result'[server.q].applied[i] = i
    BY <1>0, <1>2, AppliedInOrder DEF BinInv, NetTypes
  <1>8. ToComeIsFresh' /\ DoneIsOver' /\ ScanResult' /\ RestIsQuiet' /\ History'
    BY <1>0, <1>3, <1>6, <1>7, ServerPast
  <1>9. /\ toClient' \in Seq(ToClient) /\ HasBlocks(toClient')
        /\ \A i \in 1 .. Len(toClient') : toClient'[i].q = asked
        /\ LastOnly(toClient', Ends) /\ NoKind(toClient', Ends)
        /\ NoKind(toClient', {"EndOfStream"})
    <2>1. /\ "Data" \in {"Data", "Progress", "EndOfStream", "Exception"}
          /\ "Data" \notin Ends /\ "Data" # "EndOfStream" /\ 0 \in 0 .. NoNumber /\ 0 <= MaxBlocks
      BY BoundAssumption DEF NoNumber, Ends
    <2> QED BY <1>0, <1>4, <2>1, ReplyFacts
  <1>10. NetTypes'
    BY <1>0, <1>3, <1>7, <1>9 DEF BinInv, NetTypes
  <1>11. ReplyIsOwn'
    BY <1>0, <1>3, <1>6, <1>9, ReplyGoesOn
  <1>12. BlocksInOrder' /\ ScanReply' /\ BrokenWire'
    BY <1>1, <1>4, <1>5 DEF BlocksInOrder, ScanReply, BrokenWire
  <1>13. InsertReply'
    <2>1. query[asked].flushed = 0 /\ result[asked].applied = <<>>
      BY <1>4, <1>5 DEF BinInv, WireInv, InsertReply
    <2>2. Numbered(<<>>, 1, 1)
      BY NumberedEmpty
    <2>3. Len(result'[server'.q].applied) + 1 = 1 /\ query'[asked'].flushed + 1 = 1
      BY <1>0, <1>1, <1>3, <1>4, <2>1
    <2>4. Numbered(toServer', Len(result'[server'.q].applied) + 1, query'[asked'].flushed + 1)
      BY <1>0, <1>4, <2>2, <2>3
    <2>5. toServer' = <<>>
      BY <1>0, <1>4
    <2>6. \A K : KindsIn(toServer', K) /\ NoKind(toServer', K) /\ LastOnly(toServer', K)
      BY <2>5, EmptyQueue
    <2> QED BY <1>0, <1>1, <1>3, <1>4, <1>9, <2>1, <2>4, <2>5, <2>6 DEF InsertReply, InputIs
  <1> QED BY <1>1, <1>8, <1>10, <1>11, <1>12, <1>13 DEF BinInv, WireInv

(* An INSERT that is accepted gets its blocks in order, given up or not. *)
LEMMA InputInOrder ==
  ASSUME BinInv, up, server.mode = "accept"
  PROVE  /\ server.q \in Queries /\ server # Idle
         /\ \E b \in Nat : InputIs(b) /\ (Current => b = query[asked].flushed + 1)
         /\ ~Current => broken /\ pc = "idle"
         /\ Current => /\ pc \in InsertStages /\ server.q = asked
                       /\ NoKind(toClient, {"EndOfStream"})
                       /\ pc = "preparing" => toServer = <<>>
                       /\ pc # "preparing" => NoKind(toServer, Requests)
         /\ pc \notin {"starting", "open"} \/ ~Current
         /\ pc \notin ScanStages \/ ~Current
  <1>1. /\ server.q \in Queries /\ server # Idle /\ (Current \/ broken)
        /\ Current => server.q = asked /\ NoKind(toClient, {"EndOfStream"})
    BY ServerWorks
  <1>2. CASE ~Current
    BY <1>1, <1>2 DEF BinInv, WireInv, BrokenWire
  <1>3. CASE Current
    <2>1. pc \in InsertStages /\ pc \notin ScanStages
      BY <1>3 DEF BinInv, WireInv, ScanReply, Current
    <2>2. /\ InputIs(query[asked].flushed + 1)
          /\ pc = "preparing" => toServer = <<>>
          /\ pc # "preparing" => NoKind(toServer, Requests)
      BY <1>1, <2>1 DEF BinInv, WireInv, InsertReply
    <2>3. query[asked].flushed + 1 \in Nat
      BY <2>1, FlushedType DEF BinInv, StagesMean
    <2>4. pc \notin {"starting", "open"}
      BY <2>1 DEF ScanStages
    <2>5. \E b \in Nat : InputIs(b) /\ (Current => b = query[asked].flushed + 1)
      BY <2>2, <2>3
    <2> QED BY <1>1, <1>3, <2>1, <2>2, <2>4, <2>5
  <1> QED BY <1>2, <1>3

(* The packets of a reply to which nothing is added. *)
LEMMA ReplyStays ==
  ASSUME BinInv, server.mode # "idle", toClient' = toClient
  PROVE  /\ toClient' \in Seq(ToClient) /\ HasBlocks(toClient')
         /\ Current => /\ \A i \in 1 .. Len(toClient') : toClient'[i].q = asked
                       /\ LastOnly(toClient', Ends) /\ NoKind(toClient', Ends)
  <1>1. Current => NoKind(toClient, Ends)
    BY ServerWorks
  <1> QED BY <1>1 DEF BinInv, NetTypes, WireInv, ReplyIsOwn

(* It takes a block of an INSERT. *)
LEMMA AcceptsSafe == ASSUME BinInv, ServerAccepts PROVE BinInv'
  <1> DEFINE p == Head(toServer)
             old == result[server.q].applied
             new == [result[server.q] EXCEPT !.applied = Append(old, p.n)]
  <1>0. /\ server.mode = "accept" /\ server.mode # "idle" /\ ServerReads("Data")
        /\ UNCHANGED serverUnchanged /\ UNCHANGED <<up, toClient, server>>
        /\ result' = [result EXCEPT ![server.q] = new]
    BY DEF ServerAccepts
  <1>1. /\ UNCHANGED <<broken, polls, deadline, resp, pc, canceled, asked, query>>
        /\ ClientTypes' /\ StagesMean' /\ Current' = Current
    BY <1>0, ServerFrame
  <1>2. /\ up /\ toServer # <<>> /\ toServer \in Seq(ToServer) /\ toServer' = Tail(toServer)
        /\ toServer' \in Seq(ToServer) /\ HasBlocks(toServer') /\ Subqueue(toServer', toServer)
        /\ p.kind = "Data" /\ p.n \in 0 .. MaxBlocks
    BY <1>0, ServerReadFacts
  <1>3. /\ server.q \in Queries /\ server # Idle
        /\ \E b \in Nat : InputIs(b) /\ (Current => b = query[asked].flushed + 1)
        /\ ~Current => broken /\ pc = "idle"
        /\ Current => /\ pc \in InsertStages /\ server.q = asked /\ pc # "preparing"
                      /\ NoKind(toClient, {"EndOfStream"}) /\ NoKind(toServer, Requests)
        /\ pc \notin {"starting", "open"} \/ ~Current
        /\ pc \notin ScanStages \/ ~Current
    BY <1>0, <1>2, InputInOrder
  <1>4. PICK b \in Nat : InputIs(b) /\ (Current => b = query[asked].flushed + 1)
    BY <1>3
  <1>5. /\ result[server.q] \in ResultRecs /\ old \in Seq(0 .. MaxBlocks)
        /\ \A i \in 1 .. Len(old) : old[i] = i
    BY <1>3, AppliedInOrder
  <1> HIDE DEF p, old
  <1>6. PICK l \in Nat : l = Len(old)
    BY <1>5, LenProperties
  <1>7. PICK a \in Nat : a = l + 1
    BY <1>6
  <1>8. Numbered(toServer, a, b)
    BY <1>4, <1>6, <1>7 DEF InputIs, old
  <1>9. p.n = a /\ Numbered(toServer', a + 1, b)
    BY <1>2, <1>8, NumberedTail DEF p
  <1>10. /\ Append(old, p.n) \in Seq(0 .. MaxBlocks) /\ Len(Append(old, p.n)) = a
         /\ \A i \in 1 .. Len(Append(old, p.n)) : Append(old, p.n)[i] = i
    <2>1. /\ Append(old, p.n) \in Seq(0 .. MaxBlocks) /\ Len(Append(old, p.n)) = l + 1
          /\ Append(old, p.n)[l + 1] = p.n
          /\ \A i \in 1 .. l : Append(old, p.n)[i] = old[i]
      BY <1>2, <1>5, <1>6, AppendFacts
    <2>2. \A i \in 1 .. l + 1 : i \in 1 .. l \/ i = l + 1
      BY <1>6
    <2>3. \A i \in 1 .. l : Append(old, p.n)[i] = i
      BY <1>5, <1>6, <2>1
    <2> QED BY <1>7, <1>9, <2>1, <2>2, <2>3
  <1>11. new \in ResultRecs /\ new.applied = Append(old, p.n)
    BY <1>5, <1>10 DEF ResultRecs
  <1> HIDE DEF new
  <1>12. result \in [Queries -> ResultRecs]
    BY DEF BinInv, NetTypes
  <1>13. /\ result' \in [Queries -> ResultRecs] /\ result'[server.q] = new
         /\ \A r \in Queries : r # server.q => result'[r] = result[r]
    BY <1>0, <1>3, <1>11, <1>12
  <1>14. /\ \A i \in 1 .. Len(result'[server.q].applied) : result'[server.q].applied[i] = i
         /\ Len(result'[server.q].applied) = a
    BY <1>10, <1>11, <1>13
  <1>15. ToComeIsFresh' /\ DoneIsOver' /\ ScanResult' /\ RestIsQuiet' /\ History'
    BY <1>0, <1>2, <1>13, <1>14, ServerPast
  <1>16. /\ toClient' \in Seq(ToClient) /\ HasBlocks(toClient')
         /\ Current => /\ \A i \in 1 .. Len(toClient') : toClient'[i].q = asked
                       /\ LastOnly(toClient', Ends) /\ NoKind(toClient', Ends)
    BY <1>0, ReplyStays
  <1>17. NetTypes'
    BY <1>0, <1>2, <1>13, <1>16 DEF BinInv, NetTypes
  <1>18. ReplyIsOwn'
    <2> SUFFICES ASSUME Current PROVE ReplyIsOwn'
      BY <1>1 DEF ReplyIsOwn
    <2> QED BY <1>0, <1>2, <1>16, ReplyGoesOn
  <1>19. BlocksInOrder' /\ ScanReply'
    BY <1>1, <1>3 DEF BlocksInOrder, ScanReply
  <1>20. InputIs(b)'
    <2>1. toServer' = Tail(toServer) /\ server' = server
      BY <1>0, <1>2
    <2> QED BY <1>9, <1>14, <2>1 DEF InputIs
  <1>21. InsertReply'
    <2> SUFFICES ASSUME pc \in InsertStages PROVE InsertReply'
      BY <1>1 DEF InsertReply
    <2>0. Current
      BY DEF Current
    <2>1. /\ NoKind(toServer, {"Query"}) /\ NoKind(toServer, Requests)
          /\ pc = "inserting" => KindsIn(toServer, {"Data"})
          /\ LastOnly(toServer, {"EndOfData"})
      BY <1>0, <1>2, <1>3, <2>0 DEF BinInv, WireInv, InsertReply
    <2>2. /\ NoKind(toServer', {"Query"}) /\ NoKind(toServer', Requests)
          /\ pc = "inserting" => KindsIn(toServer', {"Data"})
          /\ LastOnly(toServer', {"EndOfData"})
      BY <1>2, <2>1, TailKinds
    <2>3. InputIs(query[asked].flushed + 1)'
      BY <1>1, <1>4, <1>20, <2>0 DEF InputIs
    <2> QED BY <1>0, <1>1, <1>3, <2>0, <2>2, <2>3 DEF InsertReply
  <1>22. BrokenWire'
    <2> SUFFICES ASSUME broken PROVE BrokenWire'
      BY <1>1 DEF BrokenWire
    <2>1. NoKind(toServer, {"Insert"}) /\ pc = "idle"
      BY <1>0, <1>2 DEF BinInv, WireInv, BrokenWire
    <2>2. NoKind(toServer', {"Insert"})
      BY <1>2, <2>1, TailKinds
    <2> QED BY <1>0, <1>1, <1>20, <2>1, <2>2 DEF BrokenWire
  <1> QED BY <1>1, <1>15, <1>17, <1>18, <1>19, <1>21, <1>22 DEF BinInv, WireInv

(* It acknowledges an INSERT at the end of the data. *)
LEMMA AcknowledgesSafe == ASSUME BinInv, ServerAcknowledges PROVE BinInv'
  <1>0. /\ server.mode = "accept" /\ server.mode # "idle" /\ ServerReads("EndOfData")
        /\ Reply("EndOfStream", 0) /\ server' = Idle
        /\ result' = [result EXCEPT ![server.q].complete = TRUE]
        /\ UNCHANGED serverUnchanged /\ up' = up
    BY DEF ServerAcknowledges
  <1>1. /\ UNCHANGED <<broken, polls, deadline, resp, pc, canceled, asked, query>>
        /\ ClientTypes' /\ StagesMean' /\ Current' = Current
    BY <1>0, ServerFrame
  <1>2. /\ up /\ toServer # <<>> /\ toServer \in Seq(ToServer) /\ toServer' = Tail(toServer)
        /\ toServer' \in Seq(ToServer) /\ HasBlocks(toServer') /\ Subqueue(toServer', toServer)
        /\ Head(toServer).kind = "EndOfData"
    BY <1>0, ServerReadFacts
  <1>3. /\ server.q \in Queries /\ server # Idle
        /\ \E b \in Nat : InputIs(b) /\ (Current => b = query[asked].flushed + 1)
        /\ ~Current => broken /\ pc = "idle"
        /\ Current => /\ pc \in InsertStages /\ server.q = asked /\ pc # "preparing"
                      /\ NoKind(toServer, Requests)
        /\ pc \notin {"starting", "open"} \/ ~Current
        /\ pc \notin ScanStages \/ ~Current
    BY <1>0, <1>2, InputInOrder
  <1>4. /\ result' \in [Queries -> ResultRecs] /\ result'[server.q].complete
        /\ \A r \in Queries : r # server.q => result'[r] = result[r]
        /\ \A r \in Queries : /\ result'[r].sent = result[r].sent
                              /\ result'[r].applied = result[r].applied
        /\ \A i \in 1 .. Len(result'[server.q].applied) : result'[server.q].applied[i] = i
    BY <1>0, CompleteFacts
  <1>5. ToComeIsFresh' /\ DoneIsOver' /\ ScanResult' /\ RestIsQuiet' /\ History'
    BY <1>0, <1>2, <1>4, ServerPast
  <1>6. /\ toClient' \in Seq(ToClient) /\ HasBlocks(toClient')
        /\ Current => /\ \A i \in 1 .. Len(toClient') : toClient'[i].q = asked
                      /\ LastOnly(toClient', Ends)
    <2>1. /\ "EndOfStream" \in {"Data", "Progress", "EndOfStream", "Exception"}
          /\ "EndOfStream" # "Data" /\ 0 \in 0 .. NoNumber
      BY BoundAssumption DEF NoNumber
    <2> QED BY <1>0, <2>1, ReplyFacts
  <1>7. NetTypes'
    BY <1>0, <1>2, <1>4, <1>6 DEF BinInv, NetTypes, Idle, Tasks
  <1>8. ReplyIsOwn'
    <2> SUFFICES ASSUME Current PROVE ReplyIsOwn'
      BY <1>1 DEF ReplyIsOwn
    <2> QED BY <1>0, <1>2, <1>6, ReplyGoesOn
  <1>9. BlocksInOrder' /\ ScanReply'
    BY <1>1, <1>3 DEF BlocksInOrder, ScanReply
  <1>10. InsertReply'
    <2> SUFFICES ASSUME pc \in InsertStages PROVE InsertReply'
      BY <1>1 DEF InsertReply
    <2>0. Current
      BY DEF Current
    <2>1. /\ pc = "inserting" => KindsIn(toServer, {"Data"})
          /\ LastOnly(toServer, {"EndOfData"})
          /\ InputIs(query[asked].flushed + 1)
      BY <1>0, <1>2 DEF BinInv, WireInv, InsertReply
    (* The end of the data was the last packet, *)
    <2>2. toServer' = <<>> /\ pc # "inserting"
      <3>1. "EndOfData" \notin {"Data"} /\ "EndOfData" \in {"EndOfData"}
        OBVIOUS
      <3>2. KindsIn(toServer, {"Data"}) => Head(toServer).kind \in {"Data"}
        BY <1>2, TailKinds
      <3>3. Tail(toServer) = <<>>
        BY <1>2, <2>1, <3>1, TailKinds
      <3> QED BY <1>2, <2>1, <3>1, <3>2, <3>3
    (* and every block was applied. *)
    <2>3. Len(result[asked].applied) = query[asked].flushed
      <3>1. asked \in Queries /\ query[asked] \in QueryRecs
        BY <2>0, FlushedType DEF BinInv, StagesMean
      <3>2. PICK f \in Nat : f = query[asked].flushed
        BY <3>1, BoundAssumption DEF QueryRecs
      <3>3. result[asked].applied \in Seq(0 .. MaxBlocks)
        BY <3>1, AppliedInOrder
      <3>4. PICK l \in Nat : l = Len(result[asked].applied)
        BY <3>3, LenProperties
      <3>5. PICK a \in Nat : a = l + 1
        BY <3>4
      <3>6. PICK b \in Nat : b = f + 1
        BY <3>2
      <3>7. Numbered(toServer, a, b)
        BY <1>3, <2>0, <2>1, <3>2, <3>4, <3>5, <3>6 DEF InputIs
      <3>8. Numbered(<<>>, a, b)
        BY <1>2, <2>2, <3>7, NumberedTail
      <3>9. a = b
        BY <3>8, NumberedEmpty
      <3> QED BY <3>2, <3>4, <3>5, <3>6, <3>9
    <2>4. \A K : NoKind(toServer', K)
      BY <2>2, EmptyQueue
    <2>5. pc \in {"undoing", "finalizing"}
      BY <1>3, <2>0, <2>2 DEF InsertStages
    <2>6. /\ result'[asked].complete /\ Len(result'[asked].applied) = query[asked].flushed
      BY <1>3, <1>4, <2>0, <2>3
    <2> QED BY <1>0, <1>1, <2>2, <2>4, <2>5, <2>6 DEF InsertReply, Idle
  <1>11. BrokenWire'
    <2> SUFFICES ASSUME broken PROVE BrokenWire'
      BY <1>1 DEF BrokenWire
    <2>1. NoKind(toServer, {"Insert"})
      BY <1>0, <1>2 DEF BinInv, WireInv, BrokenWire
    <2>2. NoKind(toServer', {"Insert"})
      BY <1>2, <2>1, TailKinds
    <2> QED BY <1>0, <1>1, <2>2 DEF BrokenWire, Idle
  <1> QED BY <1>1, <1>5, <1>7, <1>8, <1>9, <1>10, <1>11 DEF BinInv, WireInv

(* An idle server reads a packet: it starts with a request, and has nothing to do
   for any other. *)
LEMMA IdleReads ==
  ASSUME BinInv, server.mode = "idle", NEW kind, ServerReads(kind),
         UNCHANGED serverUnchanged, UNCHANGED <<toClient, result>>,
         \/ server' = server
         \/ /\ kind \in Requests /\ server'.q = Head(toServer).q
            /\ server'.mode \in {"select", "insert"} /\ server' \in Tasks
  PROVE  /\ server = Idle /\ Head(toServer).q \in Queries
         /\ ToComeIsFresh' /\ DoneIsOver' /\ ScanResult' /\ History' /\ ReplyIsOwn'
         /\ kind \in Requests /\ Current => Head(toServer).q = asked /\ toClient = <<>>
  <1>0. /\ UNCHANGED <<broken, polls, deadline, resp, pc, canceled, asked, query>>
        /\ Current' = Current
    BY ServerFrame
  <1>1. server = Idle
    BY DEF BinInv, NetTypes, Tasks, Idle
  <1>2. /\ toServer # <<>> /\ toServer \in Seq(ToServer) /\ toServer' = Tail(toServer)
        /\ Subqueue(toServer', toServer) /\ Head(toServer).kind = kind
        /\ Head(toServer) = toServer[1] /\ 1 \in 1 .. Len(toServer)
        /\ Head(toServer) \in ToServer
    BY ServerReadFacts
  <1>3. Head(toServer).q \in Queries
    BY <1>2 DEF ToServer
  <1>4. ToComeIsFresh'
    <2>1. /\ server.q <= asked
          /\ \A i \in 1 .. Len(toServer) : toServer[i].q <= asked
      BY DEF BinInv, ToComeIsFresh
    <2>2. server'.q <= asked
      BY <1>2, <2>1
    <2>3. \A i \in 1 .. Len(toServer') : toServer'[i].q <= asked
      BY <1>2, <2>1 DEF Subqueue
    <2> QED BY <1>0, <2>2, <2>3 DEF BinInv, ToComeIsFresh
  <1>5. DoneIsOver'
    <2> SUFFICES ASSUME NEW r \in Queries, query[r].outcome = "ok", query[r].sound
                 PROVE  /\ server'.q # r
                        /\ \A i \in 1 .. Len(toServer') :
                            toServer'[i].kind \in Requests => toServer'[i].q # r
      BY <1>0 DEF DoneIsOver
    <2>1. server.q # r /\ \A i \in 1 .. Len(toServer) :
                            toServer[i].kind \in Requests => toServer[i].q # r
      BY DEF BinInv, DoneIsOver
    <2>2. server'.q # r
      BY <1>2, <2>1
    <2> QED BY <1>2, <2>1, <2>2 DEF Subqueue
  <1>6. ScanResult'
    BY <1>0 DEF BinInv, ScanResult, Received
  <1>7. History'
    <2>1. \A r \in Queries : SameBut(r)
      BY <1>0 DEF SameBut
    <2> QED BY <2>1, HistoryKept
  <1>8. kind \in Requests /\ Current => Head(toServer).q = asked /\ toClient = <<>>
    <2> SUFFICES ASSUME kind \in Requests, Current
                 PROVE  Head(toServer).q = asked /\ toClient = <<>>
      OBVIOUS
    <2>1. ~NoKind(toServer, Requests)
      BY <1>2 DEF NoKind
    <2> QED BY <1>2, <2>1 DEF BinInv, WireInv, ReplyIsOwn
  <1>9. ReplyIsOwn'
    <2> SUFFICES ASSUME Current PROVE ReplyIsOwn'
      BY <1>0 DEF ReplyIsOwn
    <2>1. /\ \A i \in 1 .. Len(toClient) : toClient[i].q = asked
          /\ LastOnly(toClient, Ends) /\ Once(toServer, Requests)
          /\ ~NoKind(toClient, Ends) => NoKind(toServer, Requests)
          /\ ~NoKind(toServer, Requests) => toClient = <<>>
                /\ result[asked].sent = 0 /\ result[asked].applied = <<>>
          /\ \A i \in 1 .. Len(toServer) : toServer[i].kind \in Requests => toServer[i].q = asked
      BY DEF BinInv, WireInv, ReplyIsOwn
    <2>2. /\ Once(toServer', Requests) /\ (kind \in Requests => NoKind(toServer', Requests))
          /\ NoKind(toServer, Requests) => NoKind(toServer', Requests)
      BY <1>2, <2>1, TailKinds
    <2>3. \A i \in 1 .. Len(toServer') : toServer'[i].kind \in Requests => toServer'[i].q = asked
      BY <1>2, <2>1 DEF Subqueue
    <2>4. CASE server' = server
      BY <1>0, <1>1, <2>1, <2>2, <2>3, <2>4 DEF ReplyIsOwn
    <2>5. CASE server' # server
      <3>1. kind \in Requests /\ server'.q = asked /\ toClient = <<>> /\ NoKind(toServer', Requests)
        BY <1>8, <2>2, <2>5
      <3>2. NoKind(toClient, Ends) /\ toClient' = toClient
        BY <3>1, EmptyQueue
      <3> QED BY <1>0, <2>1, <2>2, <2>3, <3>1, <3>2 DEF ReplyIsOwn
    <2> QED BY <2>4, <2>5
  <1> QED BY <1>1, <1>3, <1>4, <1>5, <1>6, <1>7, <1>8, <1>9

(* A Cancel that came too late. *)
LEMMA LateCancelSafe ==
  ASSUME BinInv, server.mode = "idle", ServerReads("Cancel"), server' = server,
         UNCHANGED serverUnchanged, UNCHANGED <<up, toClient, result>>
  PROVE  BinInv'
  <1>1. /\ UNCHANGED <<broken, polls, deadline, resp, pc, canceled, asked, query>>
        /\ ClientTypes' /\ StagesMean' /\ Current' = Current
    BY ServerFrame
  <1>2. /\ toServer # <<>> /\ toServer \in Seq(ToServer) /\ toServer' = Tail(toServer)
        /\ toServer' \in Seq(ToServer) /\ HasBlocks(toServer')
    BY ServerReadFacts
  <1>3. server = Idle /\ ToComeIsFresh' /\ DoneIsOver' /\ ScanResult' /\ History' /\ ReplyIsOwn'
    BY IdleReads
  <1>4. NetTypes'
    BY <1>2 DEF BinInv, NetTypes
  <1>5. \A K : /\ KindsIn(toServer, K) => KindsIn(toServer', K)
               /\ NoKind(toServer, K) => NoKind(toServer', K)
               /\ LastOnly(toServer, K) => LastOnly(toServer', K)
    BY <1>2, TailKinds
  <1>6. RestIsQuiet' /\ BlocksInOrder'
    BY <1>1, <1>5 DEF BinInv, WireInv, RestIsQuiet, BlocksInOrder, Received
  <1>7. ScanReply' /\ BrokenWire'
    BY <1>1, <1>3, <1>5 DEF BinInv, WireInv, ScanReply, BrokenWire, Idle
  <1>8. InsertReply'
    <2> SUFFICES ASSUME pc \in InsertStages PROVE InsertReply'
      BY <1>1 DEF InsertReply
    <2> QED BY <1>1, <1>2, <1>3, <1>5 DEF BinInv, WireInv, InsertReply, Idle
  <1> QED BY <1>1, <1>3, <1>4, <1>6, <1>7, <1>8 DEF BinInv, WireInv

(* The server starts with a request. *)
LEMMA RequestReadSafe ==
  ASSUME BinInv, server.mode = "idle", NEW kind \in Requests, ServerReads(kind),
         server' = [mode |-> IF kind = "Query" THEN "select" ELSE "insert",
                    q |-> Head(toServer).q],
         UNCHANGED serverUnchanged, UNCHANGED <<up, toClient, result>>
  PROVE  BinInv'
  <1>1. /\ UNCHANGED <<broken, polls, deadline, resp, pc, canceled, asked, query>>
        /\ ClientTypes' /\ StagesMean' /\ Current' = Current
    BY ServerFrame
  <1>2. /\ up /\ toServer # <<>> /\ toServer \in Seq(ToServer) /\ toServer' = Tail(toServer)
        /\ toServer' \in Seq(ToServer) /\ HasBlocks(toServer') /\ Head(toServer).kind = kind
        /\ Head(toServer) \in ToServer
    BY ServerReadFacts
  <1>3. /\ server'.q = Head(toServer).q /\ server'.mode \in {"select", "insert"}
        /\ (kind = "Query" => server'.mode = "select") /\ (kind # "Query" => server'.mode = "insert")
        /\ server' \in Tasks /\ server'.q # 0
    <2>1. Head(toServer).q \in Queries /\ Head(toServer).q # 0
      BY <1>2, BoundAssumption DEF ToServer, Queries
    <2> QED BY <2>1 DEF Tasks
  <1>4. /\ server = Idle
        /\ ToComeIsFresh' /\ DoneIsOver' /\ ScanResult' /\ History' /\ ReplyIsOwn'
        /\ Current => Head(toServer).q = asked /\ toClient = <<>>
    BY <1>3, IdleReads
  <1>5. NetTypes'
    BY <1>2, <1>3 DEF BinInv, NetTypes
  <1>6. \A K : /\ KindsIn(toServer, K) => KindsIn(toServer', K) /\ kind \in K
               /\ NoKind(toServer, K) => NoKind(toServer', K) /\ kind \notin K
               /\ LastOnly(toServer, K) => LastOnly(toServer', K) /\ (kind \in K => toServer' = <<>>)
    BY <1>2, TailKinds
  <1>7. Current \/ broken
    <2>1. kind \notin {"Cancel"}
      BY DEF Requests
    <2> QED BY <1>6, <2>1 DEF BinInv, WireInv, RestIsQuiet
  <1>8. RestIsQuiet'
    BY <1>1, <1>7 DEF RestIsQuiet
  <1>9. BlocksInOrder'
    BY <1>1 DEF BinInv, WireInv, BlocksInOrder, Received
  <1>10. ScanReply'
    <2> SUFFICES ASSUME pc \in ScanStages, Current PROVE ScanReply'
      BY <1>1 DEF ScanReply
    <2>1. KindsIn(toServer', {"Query", "Cancel"}) /\ kind \in {"Query", "Cancel"}
      BY <1>6 DEF BinInv, WireInv, ScanReply
    <2>2. server'.mode = "select"
      BY <1>3, <2>1 DEF Requests
    <2>3. pc # "draining" => toServer' = <<>> /\ LastOnly(toServer', Requests)
      BY <1>6 DEF BinInv, WireInv, ScanReply
    <2>4. NoKind(toClient', {"EndOfStream"})
      BY <1>4, EmptyQueue
    <2> QED BY <1>1, <2>1, <2>2, <2>3, <2>4 DEF ScanReply
  <1>11. InsertReply'
    <2> SUFFICES ASSUME pc \in InsertStages PROVE InsertReply'
      BY <1>1 DEF InsertReply
    <2>0. Current
      BY DEF Current
    <2>1. NoKind(toServer', {"Query"}) /\ kind \notin {"Query"}
      BY <1>6 DEF BinInv, WireInv, InsertReply
    <2>2. server'.mode = "insert"
      BY <1>3, <2>1
    <2>3. pc = "preparing"
      BY <1>6 DEF BinInv, WireInv, InsertReply
    <2>4. /\ query[asked].flushed = 0 /\ result[asked].applied = <<>>
          /\ LastOnly(toServer, Requests)
      BY <2>3 DEF BinInv, WireInv, InsertReply
    <2>5. toServer' = <<>>
      BY <1>6, <2>4
    <2>6. \A K : KindsIn(toServer', K) /\ NoKind(toServer', K) /\ LastOnly(toServer', K)
      BY <2>5, EmptyQueue
    <2>7. \A K : NoKind(toClient', K)
      BY <1>4, <2>0, EmptyQueue
    <2> QED BY <1>1, <2>2, <2>3, <2>4, <2>5, <2>6, <2>7 DEF InsertReply
  <1>12. BrokenWire'
    <2> SUFFICES ASSUME broken PROVE BrokenWire'
      BY <1>1 DEF BrokenWire
    <2>1. NoKind(toServer', {"Insert"}) /\ kind \notin {"Insert"}
      BY <1>2, <1>6 DEF BinInv, WireInv, BrokenWire
    <2>2. server'.mode = "select"
      BY <1>3, <2>1 DEF Requests
    <2> QED BY <2>1, <2>2 DEF BrokenWire
  <1> QED BY <1>1, <1>4, <1>5, <1>8, <1>9, <1>10, <1>11, <1>12 DEF BinInv, WireInv

(* An idle server reads a request or a late Cancel. *)
LEMMA StartsSafe == ASSUME BinInv, ServerStarts PROVE BinInv'
  <1>1. /\ server.mode = "idle" /\ UNCHANGED serverUnchanged
        /\ UNCHANGED <<up, toClient, result>>
    BY DEF ServerStarts
  <1>2. CASE ServerReads("Query") /\ server' = [mode |-> "select", q |-> Head(toServer).q]
    <2>1. "Query" \in Requests
      BY DEF Requests
    <2> QED BY <1>1, <1>2, <2>1, RequestReadSafe
  <1>3. CASE ServerReads("Insert") /\ server' = [mode |-> "insert", q |-> Head(toServer).q]
    <2>1. "Insert" \in Requests /\ "Insert" # "Query"
      BY DEF Requests
    <2> QED BY <1>1, <1>3, <2>1, RequestReadSafe
  <1>4. CASE ServerReads("Cancel") /\ UNCHANGED server
    BY <1>1, <1>4, LateCancelSafe
  <1> QED BY <1>2, <1>3, <1>4 DEF ServerStarts

(* It hangs up on data it does not expect. *)
LEMMA RefusesSafe == ASSUME BinInv, ServerRefuses PROVE BinInv'
  <1>0. /\ server.mode = "idle" /\ up' = FALSE /\ UNCHANGED serverUnchanged
        /\ UNCHANGED <<toClient, server, result>>
    BY DEF ServerRefuses
  <1>1. PICK kind \in {"Data", "EndOfData"} : ServerReads(kind)
    BY DEF ServerRefuses
  <1>2. /\ UNCHANGED <<broken, polls, deadline, resp, pc, canceled, asked, query>>
        /\ ClientTypes' /\ StagesMean' /\ Current' = Current
    BY <1>0, ServerFrame
  <1>3. /\ toServer # <<>> /\ toServer \in Seq(ToServer) /\ toServer' = Tail(toServer)
        /\ toServer' \in Seq(ToServer) /\ HasBlocks(toServer') /\ Head(toServer).kind = kind
    BY <1>1, ServerReadFacts
  <1>4. server = Idle /\ ToComeIsFresh' /\ DoneIsOver' /\ ScanResult' /\ History' /\ ReplyIsOwn'
    BY <1>0, <1>1, IdleReads
  <1>5. NetTypes'
    BY <1>0, <1>3 DEF BinInv, NetTypes
  <1>6. \A K : /\ KindsIn(toServer, K) => kind \in K
               /\ NoKind(toServer, K) => NoKind(toServer', K)
    BY <1>3, TailKinds
  (* Only an INSERT past its preparation sends data. *)
  <1>7. /\ Current \/ broken
        /\ ~(pc \in ScanStages /\ Current) /\ pc # "preparing"
    <2>1. kind \notin {"Cancel"} /\ kind \notin {"Query", "Cancel"} /\ kind \notin {"Insert", "Cancel"}
      OBVIOUS
    <2>2. Current \/ broken
      BY <1>6, <2>1 DEF BinInv, WireInv, RestIsQuiet
    <2>3. ~(pc \in ScanStages /\ Current)
      BY <1>6, <2>1 DEF BinInv, WireInv, ScanReply
    <2>4. pc # "preparing"
      BY <1>6, <2>1 DEF BinInv, WireInv, InsertReply, InsertStages
    <2> QED BY <2>2, <2>3, <2>4
  <1>8. RestIsQuiet' /\ BlocksInOrder' /\ ScanReply' /\ BrokenWire'
    BY <1>0, <1>2, <1>7 DEF RestIsQuiet, BlocksInOrder, ScanReply, BrokenWire, ScanStages
  <1>9. InsertReply'
    <2> SUFFICES ASSUME pc \in InsertStages PROVE InsertReply'
      BY <1>2 DEF InsertReply
    <2>1. NoKind(toServer', {"Query"}) /\ NoKind(toServer', Requests)
      BY <1>6, <1>7 DEF BinInv, WireInv, InsertReply
    <2>2. NoKind(toClient, {"EndOfStream"})
      BY <1>3 DEF BinInv, WireInv, InsertReply
    <2> QED BY <1>0, <1>2, <1>4, <1>7, <2>1, <2>2 DEF InsertReply, Idle
  <1> QED BY <1>2, <1>4, <1>5, <1>8, <1>9 DEF BinInv, WireInv

(* The connection is lost. *)
LEMMA DropsSafe == ASSUME BinInv, SocketDrops PROVE BinInv'
  <1>0. /\ up /\ up' = FALSE /\ toServer' = <<>> /\ UNCHANGED serverUnchanged
        /\ UNCHANGED <<server, result>>
    BY DEF SocketDrops
  <1>1. PICK m \in 0 .. Len(toClient) : toClient' = SubSeq(toClient, 1, m)
    BY DEF SocketDrops
  <1>2. /\ UNCHANGED <<broken, polls, deadline, resp, pc, canceled, asked, query>>
        /\ ClientTypes' /\ StagesMean' /\ Current' = Current
    BY <1>0, ServerFrame
  <1>3. toClient \in Seq(ToClient) /\ HasBlocks(toClient)
    BY DEF BinInv, NetTypes
  <1>4. PICK l \in Nat : l = Len(toClient) /\ m \in 0 .. l
    BY <1>1, <1>3, PrefixFacts
  <1>5. /\ toClient' \in Seq(ToClient) /\ Len(toClient') = m
        /\ \A i \in 1 .. m : toClient'[i] = toClient[i] /\ i \in 1 .. l
        /\ m = l => toClient' = toClient
    BY <1>1, <1>3, <1>4, PrefixFacts
  <1>6. HasBlocks(toClient')
    BY <1>3, <1>4, <1>5 DEF HasBlocks
  <1>7. \A K : /\ NoKind(toClient, K) => NoKind(toClient', K)
               /\ LastOnly(toClient, K) => LastOnly(toClient', K) /\ (m # l => NoKind(toClient', K))
    BY <1>1, <1>3, <1>4, PrefixKinds
  <1>8. \A K : /\ KindsIn(toServer', K) /\ NoKind(toServer', K)
               /\ LastOnly(toServer', K) /\ Once(toServer', K)
    BY <1>0, EmptyQueue
  <1>9. NetTypes'
    <2>1. toServer' \in Seq(ToServer) /\ HasBlocks(toServer')
      BY <1>0 DEF HasBlocks
    <2> QED BY <1>0, <1>5, <1>6, <2>1 DEF BinInv, NetTypes
  <1>10. ToComeIsFresh' /\ DoneIsOver' /\ History'
    <2>1. \A r \in Queries : SameBut(r)
      BY <1>0, <1>2 DEF SameBut
    <2>2. asked' \in Queries \cup {0} /\ asked <= asked'
      BY <1>2, BoundAssumption DEF BinInv, ClientTypes, Queries
    <2>3. ToComeIsFresh'
      BY <1>0, <1>2, <2>2, FreshKept
    <2> QED BY <1>0, <2>1, <2>3, OverKept, HistoryKept
  <1>11. ScanResult' /\ BrokenWire'
    BY <1>0, <1>2 DEF BinInv, ScanResult, Received, BrokenWire
  <1>12. RestIsQuiet'
    <2> SUFFICES ASSUME ~broken, ~Current PROVE RestIsQuiet'
      BY <1>2 DEF RestIsQuiet
    <2>1. toClient = <<>> /\ server = Idle
      BY DEF BinInv, WireInv, RestIsQuiet
    <2>2. m = l
      BY <1>4, <2>1
    <2> QED BY <1>0, <1>5, <1>8, <2>1, <2>2 DEF RestIsQuiet
  <1>13. ReplyIsOwn'
    <2> SUFFICES ASSUME Current PROVE ReplyIsOwn'
      BY <1>2 DEF ReplyIsOwn
    <2>1. /\ \A i \in 1 .. l : toClient[i].q = asked
          /\ LastOnly(toClient, Ends)
          /\ ~NoKind(toClient, Ends) => server = Idle
          /\ server # Idle => server.q = asked
      BY <1>4 DEF BinInv, WireInv, ReplyIsOwn
    <2>2. \A i \in 1 .. Len(toClient') : toClient'[i].q = asked
      BY <1>5, <2>1
    <2>3. \A i \in 1 .. Len(toServer') : FALSE
      BY <1>0
    <2> QED BY <1>0, <1>2, <1>7, <1>8, <2>1, <2>2, <2>3 DEF ReplyIsOwn
  <1>14. BlocksInOrder'
    <2> SUFFICES ASSUME pc \in {"starting", "open"}, Current PROVE BlocksInOrder'
      BY <1>2 DEF BlocksInOrder
    <2>1. PICK b \in Nat : Numbered(toClient, Received, b) /\ b = result[asked].sent
      BY <1>0 DEF BinInv, WireInv, BlocksInOrder
    <2>2. Received \in Nat /\ Received' = Received
      BY <1>2, ReceivedType DEF Received
    <2>3. CASE m = l
      <3>1. Numbered(toClient', Received', b)
        BY <1>5, <2>1, <2>2, <2>3
      <3> QED BY <1>0, <1>2, <2>1, <3>1 DEF BlocksInOrder
    <2>4. CASE m # l
      <3>1. NoKind(toClient', Ends)
        BY <1>7, <2>4 DEF BinInv, WireInv, ReplyIsOwn
      <3>2. PICK c \in Nat : Numbered(toClient', Received', c)
        BY <1>1, <1>3, <2>1, <2>2, NumberedPrefix
      <3> QED BY <1>0, <1>2, <3>1, <3>2 DEF BlocksInOrder
    <2> QED BY <2>3, <2>4
  <1>15. ScanReply'
    <2> SUFFICES ASSUME pc \in ScanStages, Current PROVE ScanReply'
      BY <1>2 DEF ScanReply
    <2> QED BY <1>0, <1>2, <1>7, <1>8 DEF BinInv, WireInv, ScanReply
  <1>16. InsertReply'
    <2> SUFFICES ASSUME pc \in InsertStages PROVE InsertReply'
      BY <1>2 DEF InsertReply
    <2> QED BY <1>0, <1>2, <1>7, <1>8 DEF BinInv, WireInv, InsertReply
  <1> QED BY <1>2, <1>9, <1>10, <1>11, <1>12, <1>13, <1>14, <1>15, <1>16 DEF BinInv, WireInv

(***************************************************************************)
(* The theorems.                                                           *)
(***************************************************************************)
(* The invariant holds at the start, *)
LEMMA BinInitSafe == ASSUME Init PROVE BinInv
  <1> USE BoundAssumption
  <1>1. /\ broken = FALSE /\ polls = FALSE /\ deadline = FALSE /\ resp = NoResp /\ pc = "idle"
        /\ canceled = FALSE /\ up = TRUE /\ toServer = <<>> /\ toClient = <<>> /\ server = Idle
        /\ asked = 0
    BY DEF Init
  <1>2. \A q \in Queries : query[q] = [kind |-> "none", sound |-> FALSE, given |-> <<>>,
                                       flushed |-> 0, outcome |-> "none"]
    BY DEF Init
  <1>3. \A q \in Queries : result[q] = [sent |-> 0, complete |-> FALSE, applied |-> <<>>]
    BY DEF Init
  <1>4. \A q \in Queries : /\ query[q].given = <<>> /\ query[q].flushed = 0 /\ ~query[q].sound
                           /\ query[q].outcome = "none" /\ query[q].kind = "none"
                           /\ result[q].sent = 0 /\ result[q].applied = <<>>
    BY <1>2, <1>3
  <1>5. query \in [Queries -> QueryRecs]
    <2>1. [kind |-> "none", sound |-> FALSE, given |-> <<>>, flushed |-> 0,
           outcome |-> "none"] \in QueryRecs
      BY DEF QueryRecs
    <2> QED BY <2>1 DEF Init
  <1>6. result \in [Queries -> ResultRecs]
    <2>1. [sent |-> 0, complete |-> FALSE, applied |-> <<>>] \in ResultRecs
      BY DEF ResultRecs
    <2> QED BY <2>1 DEF Init
  <1>7. NoResp \in Responses /\ Idle \in Tasks /\ Idle.mode = "idle" /\ Idle.q = 0
    BY DEF NoResp, Responses, Idle, Tasks
  <1>8. ClientTypes
    BY <1>1, <1>5, <1>7 DEF ClientTypes, Stages
  <1>9. NetTypes
    BY <1>1, <1>6, <1>7 DEF NetTypes, HasBlocks
  <1>10. ToComeIsFresh
    BY <1>1, <1>4, <1>7 DEF ToComeIsFresh
  <1>11. pc \notin ScanStages /\ pc \notin InsertStages /\ pc \notin {"starting", "open"}
    BY <1>1 DEF ScanStages, InsertStages
  <1>12. StagesMean
    BY <1>1, <1>11 DEF StagesMean
  <1>13. WireInv
    BY <1>1, <1>11 DEF WireInv, RestIsQuiet, ReplyIsOwn, BlocksInOrder, ScanReply, InsertReply,
                       BrokenWire, Current, KindsIn
  <1>14. ScanResult /\ DoneIsOver
    BY <1>4, <1>11 DEF ScanResult, DoneIsOver
  <1>15. History
    BY <1>4 DEF History, OwnBlocksInOrder, NoSilentTruncation, InsertAcknowledged, InsertsAreSound
  <1> QED BY <1>8, <1>9, <1>10, <1>12, <1>13, <1>14, <1>15 DEF BinInv

(* every step of the session keeps it, *)
LEMMA ClientStepSafe == ASSUME BinInv, Client PROVE BinInv'
  <1>1. CASE Reconnect BY <1>1, ReconnectSafe
  <1>2. CASE LeaseForScan \/ EndScan BY <1>2, LeaseSafe
  <1>3. CASE SendQuery BY <1>3, SendQuerySafe
  <1>4. CASE SendQueryFails \/ BeginInsertFails BY <1>4, SendFailsSafe
  <1>5. CASE Pump BY <1>5, PumpSafe, PumpFailsSafe DEF Pump
  <1>6. CASE OpenCursor BY <1>6, OpenCursorSafe
  <1>7. CASE TakeBlock BY <1>7, TakeBlockSafe
  <1>8. CASE EndOfStream BY <1>8, EndOfStreamSafe
  <1>9. CASE Free BY <1>9, FreeAtEndSafe, FreeEarlySafe, FreeUnsentSafe DEF Free
  <1>10. CASE Drain
    <2>1. CASE DrainFails BY <2>1, DrainFailsSafe
    <2>2. CASE ch_binary_drain BY <2>2, DrainScanEnd, DrainInsertEnd, DrainOn
    <2> QED BY <1>10, <2>1, <2>2 DEF Drain
  <1>11. CASE BeginInsert BY <1>11, BeginInsertSafe
  <1>12. CASE recv_initial_block BY <1>12, RecvInitialSafe
  <1>13. CASE PrepareFails BY <1>13, PrepareFailsSafe
  <1>14. CASE drain_aborted_insert BY <1>14, AbortInsertSafe
  <1>15. CASE ch_binary_flush_block BY <1>15, FlushSafe
  <1>16. CASE ch_binary_finalize_insert BY <1>16, FinalizeSafe
  <1>17. CASE ch_binary_release_insert BY <1>17, ReleaseSafe
  <1> QED BY <1>1, <1>2, <1>3, <1>4, <1>5, <1>6, <1>7, <1>8, <1>9, <1>10, <1>11, <1>12, <1>13,
             <1>14, <1>15, <1>16, <1>17 DEF Client

(* every step of the server, *)
LEMMA ServerStepSafe == ASSUME BinInv, Server PROVE BinInv'
  <1>1. CASE ServerStarts BY <1>1, StartsSafe
  <1>2. CASE ServerRefuses BY <1>2, RefusesSafe
  <1>3. CASE ServerSendsBlock BY <1>3, SendsBlockSafe
  <1>4. CASE ServerSendsProgress BY <1>4, SendsProgressSafe
  <1>5. CASE ServerFinishes BY <1>5, FinishesSafe
  <1>6. CASE ServerIsCanceled BY <1>6, CanceledSafe
  <1>7. CASE ServerRaises BY <1>7, RaisesSafe
  <1>8. CASE ServerSendsSchema BY <1>8, SendsSchemaSafe
  <1>9. CASE ServerAccepts BY <1>9, AcceptsSafe
  <1>10. CASE ServerAcknowledges BY <1>10, AcknowledgesSafe
  <1> QED BY <1>1, <1>2, <1>3, <1>4, <1>5, <1>6, <1>7, <1>8, <1>9, <1>10 DEF Server

(* and every step there is. *)
LEMMA BinStepSafe == ASSUME BinInv, [Next]_vars PROVE BinInv'
  <1>1. CASE Client BY <1>1, ClientStepSafe
  <1>2. CASE Server BY <1>2, ServerStepSafe
  <1>3. CASE CancelRequest \/ UNCHANGED vars BY <1>3, CancelSafe
  <1>4. CASE SocketDrops BY <1>4, DropsSafe
  <1> QED BY <1>1, <1>2, <1>3, <1>4 DEF Next, Done

(* The inductive invariant of the driver, the wire and the server: what is under
   way belongs to the statement that waits for it, in order, and a connection on
   which nothing is waited for is quiet or marked broken. *)
THEOREM BinInvariant == Spec => []BinInv
  <1>1. Init => BinInv
    BY BinInitSafe
  <1>2. BinInv /\ [Next]_vars => BinInv'
    BY BinStepSafe
  <1> QED BY <1>1, <1>2, PTL DEF Spec

(* The state of the connection, the response and the history of every statement
   have their types (binary.h, ch_binary_response_t). *)
THEOREM BinaryTypeCorrect == Spec => []TypeOK
  <1>1. BinInv => TypeOK
    <2> SUFFICES ASSUME BinInv PROVE TypeOK
      OBVIOUS
    <2>1. ClientTypes /\ NetTypes
      BY DEF BinInv
    <2>2. \A q \in Queries : query[q] \in QueryRecs /\ result[q] \in ResultRecs
      BY <2>1 DEF ClientTypes, NetTypes
    <2>3. \A q \in Queries :
            /\ query[q].kind \in {"none", "select", "insert"}
            /\ query[q].sound \in BOOLEAN
            /\ query[q].given \in Seq(Blocks)
            /\ query[q].flushed \in 0 .. MaxBlocks
            /\ query[q].outcome \in {"none", "ok", "error"}
            /\ result[q].sent \in 0 .. MaxBlocks + 1
            /\ result[q].complete \in BOOLEAN
            /\ result[q].applied \in Seq(0 .. MaxBlocks)
      BY <2>2 DEF QueryRecs, ResultRecs
    <2> QED BY <2>1, <2>3 DEF TypeOK, ClientTypes, NetTypes, Responses, Tasks
  <1> QED BY <1>1, BinInvariant, PTL

(* A scan on a connection not marked broken is given the blocks of its own query,
   in order and without a gap, whatever earlier statements left behind (pump_one,
   ch_binary_response_fetch_next_block, ch_binary_drain). *)
THEOREM BlocksAreOwn == Spec => []OwnBlocksInOrder
  <1>1. BinInv => OwnBlocksInOrder
    BY DEF BinInv, History
  <1> QED BY <1>1, BinInvariant, PTL

(* A scan that ends without an error has seen the whole result: neither a
   cancellation nor an exception, a hang-up or a bad block passes for the end of
   the data (pump_one, ch_binary_response_fetch_next_block). *)
THEOREM ScansAreComplete == Spec => []NoSilentTruncation
  <1>1. BinInv => NoSilentTruncation
    BY DEF BinInv, History
  <1> QED BY <1>1, BinInvariant, PTL

(* A connection that is not marked broken is clean when a statement starts on it:
   nothing to read, no server at work, at most late Cancels under way
   (drain_until_eos, ch_binary_finalize_insert, ch_binary_release_insert). *)
THEOREM ConnectionsAreClean == Spec => []CleanForReuse
  <1>1. BinInv => CleanForReuse
    <2> SUFFICES ASSUME BinInv, pc \in {"idle", "leased"}, ~broken
                 PROVE  /\ toClient = <<>> /\ server = Idle
                        /\ \A i \in 1 .. Len(toServer) : toServer[i].kind = "Cancel"
      BY DEF CleanForReuse
    <2>1. ~Current
      BY DEF Current, ScanStages, InsertStages
    <2> QED BY <2>1 DEF BinInv, WireInv, RestIsQuiet, KindsIn
  <1> QED BY <1>1, BinInvariant, PTL

(* An INSERT that is reported as done was acknowledged, and the server has taken
   exactly the blocks that were flushed, once and in order
   (ch_binary_flush_block, ch_binary_finalize_insert). *)
THEOREM InsertsAreAcknowledged == Spec => []InsertAcknowledged
  <1>1. BinInv => InsertAcknowledged
    BY DEF BinInv, History
  <1> QED BY <1>1, BinInvariant, PTL
=============================================================================
