------------------------- MODULE VectorSearchProofs -------------------------
(***************************************************************************)
(* Proofs about the vector index metadata, for any tables, clock, times to *)
(* live and number of scans, where the connection is binary and LIMIT plus *)
(* OFFSET fits its integer.                                                *)
(***************************************************************************)
EXTENDS VectorSearch, TLAPS

(* What the passing run assumes of the constants. *)
Binary == "http" \notin Drivers
Fits   == \A l \in Limits : l + 1 < TopBit

(* The time to live that counts, at least a second. *)
LEMMA Horizon ==
  ASSUME NEW n \in Nat
  PROVE  /\ Max({n, 1}) \in Nat /\ Max({n, 1}) >= 1
         /\ n > 0 => Max({n, 1}) = n
  <1>1. \E x \in {n, 1} : \A y \in {n, 1} : x >= y
    <2>1. CASE n >= 1
      BY <2>1
    <2>2. CASE ~(n >= 1)
      BY <2>2
    <2> QED BY <2>1, <2>2
  <1>2. Max({n, 1}) \in {n, 1} /\ \A y \in {n, 1} : Max({n, 1}) >= y
    BY <1>1 DEF Max
  <1> QED BY <1>2

(* What is recorded as held stays so, and later. *)
HeldGrows ==
    \A t \in Tables, m \in Metas :
        held[t][m] # Never => held'[t][m] # Never /\ held'[t][m] >= held[t][m]

(* What a fetch can find. *)
LEMMA MetaTypes ==
  /\ NoIndex \in Metas /\ NoIndex.metric = "none"
  /\ \A c \in Caps : Meta("L2", c) \in Metas /\ Meta("cosine", c) \in Metas
  /\ \A m \in Metas :
        /\ m.metric \in Indexes
        /\ m.metric = "none" => m = NoIndex
        /\ m.metric = "L2" => m.cap \in Caps /\ m = Meta("L2", m.cap)
        /\ m.metric = "cosine" => m.cap \in Caps /\ m = Meta("cosine", m.cap)
  <1>1. NoIndex \in Metas /\ NoIndex.metric = "none"
    BY DEF Metas, NoIndex, Meta
  <1>2. ASSUME NEW c \in Caps
        PROVE  Meta("L2", c) \in Metas /\ Meta("cosine", c) \in Metas
    BY DEF Metas
  <1>3. ASSUME NEW m \in Metas
        PROVE  /\ m.metric \in Indexes
               /\ m.metric = "none" => m = NoIndex
               /\ m.metric = "L2" => m.cap \in Caps /\ m = Meta("L2", m.cap)
               /\ m.metric = "cosine" => m.cap \in Caps /\ m = Meta("cosine", m.cap)
    <2>1. CASE m = NoIndex
      BY <2>1, <1>1 DEF Indexes
    <2>2. ASSUME NEW k \in {"L2", "cosine"}, NEW c \in Caps, m = Meta(k, c)
          PROVE  m.metric = k /\ m.cap = c /\ k \in Indexes /\ k # "none"
      BY <2>2 DEF Meta, Indexes
    <2>3. m = NoIndex \/ \E k \in {"L2", "cosine"}, c \in Caps : m = Meta(k, c)
      BY DEF Metas
    <2> QED BY <2>1, <2>2, <2>3
  <1> QED BY <1>1, <1>2, <1>3

(* So is what it finds now. *)
LEMMA MetaOfType ==
  ASSUME index \in [Tables -> Indexes], cap \in Caps, NEW t \in Tables
  PROVE  MetaOf(t) \in Metas
  <1>1. index[t] \in {"none", "L2", "cosine"}
    BY DEF Indexes
  <1> QED BY <1>1, MetaTypes DEF MetaOf

(* Entries that a step keeps as they are stay true. *)
LEMMA KeptTrue ==
  ASSUME VectorTypes, HeldGrows, held' \in [Tables -> [Metas -> Nat \cup {Never}]],
         NEW u \in Tables, EntryTrue(u), cache'[u] = cache[u]
  PROVE  EntryTrue(u)'
  <1>1. held[u][cache[u].meta] \in Nat /\ held'[u][cache[u].meta] \in Nat
    BY DEF EntryTrue, VectorTypes, HeldGrows, Never
  <1> QED BY <1>1 DEF EntryTrue, HeldGrows, VectorTypes

(* What held within the time to live still did, after a step of a planned scan. *)
LEMMA StillHeld ==
  ASSUME VectorTypes, HeldGrows, held' \in [Tables -> [Metas -> Nat \cup {Never}]],
         scan'.t = scan.t, scan'.started = scan.started, ttl' = ttl,
         VectorConstants, scan.t \in Tables, NEW m \in Metas, Held(m)
  PROVE  Held(m)'
  <1>1. PICK h \in Nat : h = Max({ttl, 1})
    BY Horizon DEF VectorTypes, VectorConstants
  <1>2. scan.started \in Nat
    BY DEF VectorTypes, Scans
  <1>3. held[scan.t][m] \in Nat /\ held'[scan.t][m] \in Nat
    BY DEF Held, VectorTypes, Scans, HeldGrows, Never
  <1> QED BY <1>1, <1>2, <1>3 DEF Held, HeldGrows

(* A scan that is idle, or was in error. *)
LEMMA IdleTypes ==
  /\ Idle \in Scans /\ Idle.pc = "idle" /\ Idle.started = 0
  /\ \A t \in Tables : /\ [Idle EXCEPT !.pc = "lookup", !.t = t] \in Scans
                       /\ [Idle EXCEPT !.pc = "lookup", !.t = t].pc = "lookup"
                       /\ [Idle EXCEPT !.pc = "lookup", !.t = t].t = t
                       /\ [Idle EXCEPT !.pc = "lookup", !.t = t].started = 0
  /\ [Idle EXCEPT !.pc = "error"] \in Scans
  /\ [Idle EXCEPT !.pc = "error"].pc = "error" /\ [Idle EXCEPT !.pc = "error"].started = 0
  BY MetaTypes DEF Idle, Scans, Pcs, Reasons

(* Nothing is claimed of a scan that is not planned. *)
LEMMA NotPlanned == ASSUME scan'.pc # "planned" PROVE ReasonTrue'
  BY DEF ReasonTrue

(***************************************************************************)
(* Steps that leave the entries and the contexts alone.                    *)
(***************************************************************************)
LEMMA SameFilled ==
  ASSUME cache' = cache, live' = live, scan'.cxt = scan.cxt, scan'.t = scan.t, 
         scan'.found = scan.found, Fetching' = Fetching, EntriesTrue, VectorTypes,
         held' \in [Tables -> [Metas -> Nat \cup {Never}]], HeldGrows
  PROVE  Filled' = Filled /\ EntriesTrue'
  <1>1. Filled' = Filled
    BY DEF Filled, Fetching
  <1>2. \A u \in Filled : EntryTrue(u)'
    BY KeptTrue DEF EntriesTrue, Filled, VectorTypes
  <1> QED BY <1>1, <1>2 DEF EntriesTrue

(* The planned scan's answer stays true when what it was given does. *)
LEMMA ReasonKept ==
  ASSUME VectorTypes, VectorConstants, HeldGrows, ReasonTrue,
         held' \in [Tables -> [Metas -> Nat \cup {Never}]],
         scan' = scan, ttl' = ttl, server' = server
  PROVE  ReasonTrue'
  <1> SUFFICES ASSUME scan.pc = "planned" PROVE ReasonTrue'
    BY DEF ReasonTrue
  <1>1. scan.t \in Tables
    BY DEF VectorTypes
  <1>2. \A m \in Metas : Held(m) => Held(m)'
    BY <1>1, StillHeld
  <1>3. \A c \in Caps : (Within(c)' <=> Within(c)) /\ (Beyond(c)' <=> Beyond(c))
    BY DEF Within, Beyond
  <1>4. scan'.pc = scan.pc /\ scan'.reason = scan.reason /\ scan'.count = scan.count
    OBVIOUS
  <1>5. CASE scan.reason = "index"
    <2>1. PICK c \in Caps : Held(Meta("L2", c)) /\ (scan.count \in Nat => Within(c))
      BY <1>5 DEF ReasonTrue
    <2>2. Held(Meta("L2", c))'
      BY <1>2, <2>1, MetaTypes
    <2>3. scan'.count \in Nat => Within(c)'
      BY <1>3, <1>4, <2>1
    <2> QED BY <1>4, <1>5, <2>2, <2>3 DEF ReasonTrue
  <1>6. CASE scan.reason = "limit"
    <2>1. PICK c \in Caps : Held(Meta("L2", c)) /\ Beyond(c)
      BY <1>6 DEF ReasonTrue
    <2>2. Held(Meta("L2", c))'
      BY <1>2, <2>1, MetaTypes
    <2>3. Beyond(c)'
      BY <1>3, <2>1
    <2> QED BY <1>4, <1>6, <2>2, <2>3 DEF ReasonTrue
  <1>7. CASE scan.reason = "other metric"
    <2>1. PICK c \in Caps : Held(Meta("cosine", c))
      BY <1>7 DEF ReasonTrue
    <2>2. Held(Meta("cosine", c))'
      BY <1>2, <2>1, MetaTypes
    <2> QED BY <1>4, <1>7, <2>2 DEF ReasonTrue
  <1>8. CASE scan.reason \notin {"index", "limit", "other metric"}
    BY <1>2, <1>4, <1>8, MetaTypes DEF ReasonTrue
  <1> QED BY <1>5, <1>6, <1>7, <1>8

(* So does what it was given, before it is planned. *)
LEMMA GivenKept ==
  ASSUME VectorTypes, VectorConstants, HeldGrows, GivenTrue,
         held' \in [Tables -> [Metas -> Nat \cup {Never}]],
         scan'.pc \in {"version", "classify"} => scan.pc \in {"version", "classify"},
         scan'.t = scan.t, scan'.started = scan.started, scan'.meta = scan.meta, ttl' = ttl
  PROVE  GivenTrue'
  <1> SUFFICES ASSUME scan.pc \in {"version", "classify"} PROVE Held(scan.meta)'
    BY DEF GivenTrue, Held
  <1>1. scan.t \in Tables /\ scan.meta \in Metas
    BY DEF VectorTypes, Scans
  <1> QED BY <1>1, StillHeld DEF GivenTrue

(* ContextsApart reads nothing but the cache, its contexts and the scan. *)
LEMMA SameContexts ==
  ASSUME ContextsApart, cache' = cache, live' = live, scan'.cxt = scan.cxt,
         scan'.t = scan.t, Filled' = Filled, Fetching' = Fetching, plans' = plans,
         scan'.pc = "lookup" => scan.pc = "lookup"
  PROVE  ContextsApart'
  <1>1. scan.pc \in {"subxact", "fetch"} => Fetching
    BY DEF Fetching
  <1>2. scan'.pc \in {"subxact", "fetch"} => Fetching'
    BY DEF Fetching
  <1>3. scan'.pc \in {"lookup", "subxact", "fetch"} => scan.pc \in {"lookup", "subxact", "fetch"}
    BY <1>2 DEF Fetching
  <1> QED BY <1>3 DEF ContextsApart

(* NetworkChanges, Cancel, DropConnection: the connection changes, no more. *)
LEMMA ConnectionSafe ==
  ASSUME VectorConstants, VectorInv, VersionTrue', driver' = driver, server' = server,
         now' = now, ttl' = ttl, index' = index, cap' = cap, changes' = changes,
         held' = held, cache' = cache, live' = live, scan' = scan, plans' = plans
  PROVE  VectorInv'
  <1>1. HeldGrows /\ held' \in [Tables -> [Metas -> Nat \cup {Never}]]
    <2>1. held \in [Tables -> [Metas -> Nat \cup {Never}]]
      BY DEF VectorInv, VectorTypes
    <2>2. \A t \in Tables, m \in Metas : held[t][m] # Never => held[t][m] >= held[t][m]
      BY <2>1
    <2> QED BY <2>1, <2>2 DEF HeldGrows
  <1>2. VectorTypes'
    BY DEF VectorInv, VectorTypes
  <1>3. HeldNow' /\ StartsByNow' /\ Fetching' = Fetching
    BY DEF VectorInv, HeldNow, MetaOf, StartsByNow, Fetching
  <1>4. Filled' = Filled /\ EntriesTrue'
    BY <1>1, <1>3, SameFilled DEF VectorInv
  <1>5. GivenTrue' /\ ReasonTrue'
    BY <1>1, GivenKept, ReasonKept DEF VectorInv
  <1>6. ContextsApart'
    BY <1>3, <1>4, SameContexts DEF VectorInv
  <1> QED BY <1>2, <1>3, <1>4, <1>5, <1>6 DEF VectorInv

(* Time passes, or the table or the cap changes in ClickHouse: what held goes
   on having held. *)
LEMMA ClockSafe ==
  ASSUME VectorConstants, VectorInv, Tick \/ AlterIndex \/ ChangeCap
  PROVE  VectorInv'
  <1>1. /\ driver' = driver /\ server' = server /\ ttl' = ttl /\ cache' = cache
        /\ live' = live /\ version' = version /\ scan' = scan /\ plans' = plans
    BY DEF Tick, AlterIndex, ChangeCap
  <1>2. VectorTypes /\ HeldNow
    BY DEF VectorInv
  <1>3. /\ now' \in Nat /\ now' >= now /\ index' \in [Tables -> Indexes]
        /\ cap' \in Caps /\ changes' \in Nat /\ RecordHeld
    <2>1. CASE Tick
      BY <1>2, <2>1 DEF Tick, VectorTypes
    <2>2. CASE AlterIndex
      BY <1>2, <2>2 DEF AlterIndex, VectorTypes, VectorConstants
    <2>3. CASE ChangeCap
      BY <1>2, <2>3 DEF ChangeCap, VectorTypes
    <2> QED BY <2>1, <2>2, <2>3
  <1>4. /\ held' \in [Tables -> [Metas -> Nat \cup {Never}]]
        /\ HeldGrows /\ HeldNow'
    <2>1. \A t \in Tables : MetaOf(t)' \in Metas
      <3>1. \A t \in Tables : index'[t] \in {"none", "L2", "cosine"}
        BY <1>3 DEF Indexes
      <3> QED BY <1>3, <3>1, MetaTypes DEF MetaOf
    <2>2. /\ held \in [Tables -> [Metas -> Nat \cup {Never}]] /\ now \in Nat
          /\ \A t \in Tables, m \in Metas : held[t][m] <= now
      BY <1>2 DEF VectorTypes, HeldNow
    <2>3. \A t \in Tables : held'[t] = [held[t] EXCEPT ![MetaOf(t)'] = now']
      BY <1>3 DEF RecordHeld
    <2>4. held' \in [Tables -> [Metas -> Nat \cup {Never}]]
      BY <1>3, <2>2, <2>3 DEF RecordHeld
    <2>5. \A t \in Tables, m \in Metas :
            held'[t][m] = IF m = MetaOf(t)' THEN now' ELSE held[t][m]
      <3> TAKE t \in Tables, m \in Metas
      <3>1. held[t] \in [Metas -> Nat \cup {Never}]
        BY <2>2
      <3> QED BY <2>3, <3>1
    <2>6. HeldGrows
      BY <1>3, <2>2, <2>5 DEF HeldGrows, Never
    <2>7. HeldNow'
      BY <1>3, <2>1, <2>2, <2>5 DEF HeldNow, Never
    <2> QED BY <2>4, <2>6, <2>7
  <1>5. VectorTypes'
    BY <1>1, <1>2, <1>3, <1>4 DEF VectorTypes
  <1>6. StartsByNow'
    BY <1>1, <1>2, <1>3 DEF VectorInv, StartsByNow, VectorTypes, Scans
  <1>7. Fetching' = Fetching
    BY <1>1 DEF Fetching
  <1>8. Filled' = Filled /\ EntriesTrue'
    BY <1>1, <1>4, <1>7, SameFilled DEF VectorInv
  <1>9. GivenTrue' /\ ReasonTrue'
    BY <1>1, <1>4, GivenKept, ReasonKept DEF VectorInv
  <1>10. ContextsApart' /\ VersionTrue'
    BY <1>1, <1>7, <1>8, SameContexts DEF VectorInv, VersionTrue
  <1> QED BY <1>4, <1>5, <1>6, <1>8, <1>9, <1>10 DEF VectorInv

(***************************************************************************)
(* Steps of the scan that leave the entries alone.                         *)
(***************************************************************************)
(* What these steps share: the world rests, and the scan fetches nothing, as
   before. *)
ScanOnly ==
    /\ driver' = driver /\ server' = server /\ now' = now /\ index' = index
    /\ cap' = cap /\ changes' = changes /\ held' = held /\ cache' = cache /\ live' = live
    /\ Fetching' = Fetching
    /\ Fetching => scan'.t = scan.t /\ scan'.found = scan.found /\ scan'.cxt = scan.cxt

(* A step that changes only the plan under way. *)
LEMMA ScanOnlySafe ==
  ASSUME VectorConstants, VectorInv, ScanOnly
  PROVE  /\ Filled' = Filled /\ HeldNow' /\ EntriesTrue' /\ HeldGrows
         /\ held' \in [Tables -> [Metas -> Nat \cup {Never}]]
         /\ (plans' = plans /\ (scan'.pc = "lookup" => scan.pc = "lookup")) => ContextsApart'
  <1>1. HeldGrows /\ held' \in [Tables -> [Metas -> Nat \cup {Never}]]
    <2>1. held \in [Tables -> [Metas -> Nat \cup {Never}]] /\ held' = held
      BY DEF VectorInv, VectorTypes, ScanOnly
    <2>2. \A t \in Tables, m \in Metas : held[t][m] # Never => held[t][m] >= held[t][m]
      BY <2>1
    <2> QED BY <2>1, <2>2 DEF HeldGrows
  <1>2. HeldNow'
    BY DEF VectorInv, HeldNow, MetaOf, ScanOnly
  <1>3. Filled' = Filled
    <2>1. CASE Fetching
      BY <2>1 DEF Filled, ScanOnly
    <2>2. CASE ~Fetching
      BY <2>2 DEF Filled, ScanOnly
    <2> QED BY <2>1, <2>2
  <1>4. EntriesTrue'
    BY <1>1, <1>3, KeptTrue DEF VectorInv, EntriesTrue, Filled, VectorTypes, ScanOnly
  <1>5. ASSUME plans' = plans, scan'.pc = "lookup" => scan.pc = "lookup"
        PROVE  ContextsApart'
    <2>1. scan'.pc \in {"subxact", "fetch"} <=> scan.pc \in {"subxact", "fetch"}
      BY DEF Fetching, ScanOnly
    <2>2. scan'.pc \in {"lookup", "subxact", "fetch"} => scan.pc \in {"lookup", "subxact", "fetch"}
      BY <1>5, <2>1
    <2>3. CASE Fetching
      BY <1>3, <1>5, <2>2, <2>3 DEF ScanOnly, VectorInv, ContextsApart
    <2>4. CASE ~Fetching
      BY <1>3, <1>5, <2>2, <2>4 DEF ScanOnly, VectorInv, ContextsApart
    <2> QED BY <2>3, <2>4
  <1> QED BY <1>1, <1>2, <1>3, <1>4, <1>5

(* PlanScan, EndQuery, SetTtl: between lookups. *)
LEMMA BetweenSafe ==
  ASSUME VectorConstants, VectorInv, PlanScan \/ EndQuery \/ SetTtl
  PROVE  VectorInv'
  <1>1. VectorTypes
    BY DEF VectorInv
  <1>2. ScanOnly
    <2>1. ~Fetching /\ ~Fetching'
      <3>1. scan'.pc \in {"idle", "lookup"} /\ scan.pc \in {"idle", "planned", "error"}
        <4>1. CASE PlanScan
          <5>1. PICK t \in Tables : scan' = [Idle EXCEPT !.pc = "lookup", !.t = t]
            BY <4>1 DEF PlanScan
          <5> QED BY <4>1, <5>1, IdleTypes DEF PlanScan
        <4>2. CASE EndQuery \/ SetTtl
          BY <4>2, IdleTypes DEF EndQuery, SetTtl
        <4> QED BY <4>1, <4>2
      <3> QED BY <3>1 DEF Fetching
    <2>2. (Fetching' = Fetching) /\ ~Fetching
      BY <2>1 DEF Fetching
    <2>3. /\ driver' = driver /\ server' = server /\ now' = now /\ index' = index
          /\ cap' = cap /\ changes' = changes /\ held' = held /\ cache' = cache
          /\ live' = live
      BY DEF PlanScan, EndQuery, SetTtl
    <2> QED BY <2>2, <2>3 DEF ScanOnly
  <1>3. Idle \in Scans
    BY IdleTypes
  <1>4. VectorTypes' /\ scan'.started <= now /\ scan'.pc \in {"idle", "lookup"} /\ version' = version
    <2>1. CASE PlanScan
      <3>1. PICK t \in Tables : scan' = [Idle EXCEPT !.pc = "lookup", !.t = t]
        BY <2>1 DEF PlanScan
      <3>2. /\ scan' \in Scans /\ scan'.pc = "lookup" /\ scan'.t \in Tables
            /\ scan'.started = 0
        BY <3>1, IdleTypes
      <3>3. plans' = plans + 1 /\ ttl' = ttl /\ version' = version
        BY <2>1 DEF PlanScan
      <3> QED BY <1>1, <1>2, <3>2, <3>3 DEF ScanOnly, VectorTypes
    <2>2. CASE EndQuery
      <3>1. scan' \in Scans /\ scan'.pc = "idle" /\ scan'.started = 0
        BY <2>2, IdleTypes DEF EndQuery
      <3> QED BY <1>1, <1>2, <2>2, <3>1 DEF EndQuery, ScanOnly, VectorTypes
    <2>3. CASE SetTtl
      BY <1>1, <1>2, <2>3 DEF SetTtl, ScanOnly, VectorTypes, VectorInv, StartsByNow
    <2> QED BY <2>1, <2>2, <2>3
  <1>5. StartsByNow' /\ GivenTrue' /\ ReasonTrue' /\ VersionTrue'
    BY <1>2, <1>4, NotPlanned DEF StartsByNow, GivenTrue, VersionTrue, VectorInv, ScanOnly
  <1>6. HeldNow' /\ EntriesTrue' /\ Filled' = Filled
    BY <1>2, ScanOnlySafe
  <1>7. ContextsApart'
    <2>1. CASE PlanScan
      <3>1. /\ plans' = plans + 1 /\ plans \in Nat /\ ~Fetching /\ ~Fetching'
            /\ live' = live /\ cache' = cache
        BY <2>1, <1>1, <1>2 DEF PlanScan, VectorTypes, Fetching, ScanOnly
      <3>2. \A u \in Filled : cache[u].cxt \in Nat
        BY DEF VectorInv, EntriesTrue, EntryTrue
      <3>3. \A u \in Filled : cache[u].cxt <= plans
        BY DEF VectorInv, ContextsApart
      <3>4. \A u \in Filled : cache[u].cxt < plans + 1 /\ cache[u].cxt <= plans + 1
        BY <3>1, <3>2, <3>3
      <3> QED BY <3>1, <3>4, <1>6 DEF VectorInv, ContextsApart
    <2>2. CASE EndQuery \/ SetTtl
      <3>1. plans' = plans /\ (scan'.pc = "lookup" => scan.pc = "lookup")
        BY <2>2, IdleTypes DEF EndQuery, SetTtl
      <3> QED BY <3>1, <1>2, ScanOnlySafe
    <2> QED BY <2>1, <2>2
  <1> QED BY <1>4, <1>5, <1>6, <1>7 DEF VectorInv

(* chfdw_vector_table_meta answers from an entry within its time to live. *)
LEMMA HitSafe ==
  ASSUME VectorConstants, VectorInv, LookupHit
  PROVE  VectorInv'
  <1>1. VectorTypes
    BY DEF VectorInv
  <1>2. /\ scan.pc = "lookup" /\ scan.t \in Filled
        /\ scan.t \in Tables /\ Fresh(cache[scan.t], now)
    BY <1>1 DEF LookupHit, Filled, Fetching, VectorTypes, Scans
  <1>3. EntryTrue(scan.t)
    BY <1>2 DEF VectorInv, EntriesTrue
  <1>4. ScanOnly /\ plans' = plans /\ ttl' = ttl /\ version' = version
    BY <1>1 DEF LookupHit, ScanOnly, Fetching, VectorTypes, Scans
  <1>5. /\ scan' = [scan EXCEPT !.pc = "version", !.started = now, !.meta = cache[scan.t].meta]
        /\ cache[scan.t].meta \in Metas /\ now \in Nat
    BY <1>1, <1>3 DEF LookupHit, VectorTypes, EntryTrue
  <1>6. /\ VectorTypes' /\ scan'.pc = "version" /\ scan'.started = now
        /\ scan'.t = scan.t /\ scan'.meta = cache[scan.t].meta
    BY <1>1, <1>4, <1>5, <1>2 DEF VectorTypes, ScanOnly, Scans, Pcs
  <1>7. StartsByNow' /\ ReasonTrue' /\ VersionTrue'
    BY <1>1, <1>4, <1>6, NotPlanned DEF StartsByNow, VersionTrue, VectorInv, ScanOnly, VectorTypes
  <1>8. GivenTrue'
    <2>1. PICK h \in Int : h = held[scan.t][cache[scan.t].meta]
      BY <1>1, <1>2, <1>3 DEF VectorTypes, EntryTrue, Never
    <2>2. PICK a \in Nat : a = cache[scan.t].at
      BY <1>3 DEF EntryTrue
    <2>3. ttl \in Nat /\ ttl > 0 /\ now - a < ttl
      BY <1>1, <1>2, <2>2 DEF Fresh, VectorTypes, VectorConstants
    <2>4. h # Never /\ h >= a
      BY <1>3, <2>1, <2>2 DEF EntryTrue
    <2>5. Max({ttl, 1}) = ttl
      BY <2>3, Horizon
    <2>6. h > now - ttl
      BY <2>2, <2>3, <2>4, <1>5
    <2> QED BY <2>1, <2>4, <2>5, <2>6, <1>4, <1>6 DEF GivenTrue, Held, ScanOnly
  <1>9. HeldNow' /\ EntriesTrue' /\ ContextsApart'
    BY <1>4, <1>6, ScanOnlySafe
  <1> QED BY <1>6, <1>7, <1>8, <1>9 DEF VectorInv

(* BeginSubTransaction: the fetch starts. *)
LEMMA SubTransactionSafe ==
  ASSUME VectorConstants, VectorInv, BeginSubTransaction
  PROVE  VectorInv'
  <1>1. VectorTypes
    BY DEF VectorInv
  <1>2. ScanOnly /\ plans' = plans /\ ttl' = ttl /\ version' = version
    BY <1>1 DEF BeginSubTransaction, ScanOnly, Fetching, VectorTypes, Scans
  <1>3. VectorTypes' /\ scan'.pc = "fetch" /\ scan'.started = scan.started
    BY <1>1, <1>2 DEF BeginSubTransaction, VectorTypes, ScanOnly, Scans, Pcs
  <1>4. StartsByNow' /\ ReasonTrue' /\ VersionTrue' /\ GivenTrue'
    BY <1>2, <1>3, NotPlanned DEF StartsByNow, VersionTrue, GivenTrue, VectorInv, ScanOnly
  <1>5. HeldNow' /\ EntriesTrue' /\ ContextsApart'
    BY <1>2, <1>3, ScanOnlySafe
  <1> QED BY <1>3, <1>4, <1>5 DEF VectorInv

(* chfdw_get_server_version over a binary connection. *)
LEMMA VersionSafe ==
  ASSUME VectorConstants, Binary, VectorInv, GetServerVersion
  PROVE  VectorInv'
  <1>1. VectorTypes
    BY DEF VectorInv
  <1>2. ScanOnly /\ plans' = plans /\ ttl' = ttl
    <2>0. scan' = [scan EXCEPT !.pc = "classify"] \/ scan' = [Idle EXCEPT !.pc = "error"]
      BY DEF GetServerVersion
    <2>1. scan.pc = "version" /\ scan'.pc \in {"classify", "error"}
      <3>1. scan' = [scan EXCEPT !.pc = "classify"] => scan'.pc = "classify"
        BY <1>1 DEF VectorTypes, Scans
      <3>2. scan' = [Idle EXCEPT !.pc = "error"] => scan'.pc = "error"
        BY IdleTypes
      <3> QED BY <2>0, <3>1, <3>2 DEF GetServerVersion
    <2>2. (Fetching' = Fetching) /\ ~Fetching
      BY <2>1 DEF Fetching
    <2> QED BY <2>2 DEF GetServerVersion, ScanOnly
  <1>3. driver = "binary"
    BY <1>1 DEF Binary, VectorConstants, VectorTypes
  <1>4. CASE scan' = [scan EXCEPT !.pc = "classify"]
    <2>1. /\ VectorTypes' /\ scan'.pc = "classify" /\ scan'.started = scan.started
          /\ scan'.t = scan.t /\ scan'.meta = scan.meta /\ scan.pc = "version"
      BY <1>1, <1>2, <1>4 DEF VectorTypes, ScanOnly, Scans, Pcs, GetServerVersion
    <2>2. version' = server
      <3>1. scan'.pc # "error"
        BY <2>1
      <3>2. version' = CASE version # "unknown" -> version
                         [] version = "unknown" /\ (up \/ driver = "binary") -> server
                         [] OTHER -> "zero"
        BY <3>1 DEF GetServerVersion, Idle
      <3>3. version \in {"unknown", server}
        BY DEF VectorInv, VersionTrue
      <3> QED BY <3>2, <3>3, <1>3
    <2>3. StartsByNow' /\ ReasonTrue' /\ VersionTrue'
      BY <1>2, <2>1, <2>2, NotPlanned DEF StartsByNow, VersionTrue, VectorInv, ScanOnly
    <2>4. HeldNow' /\ EntriesTrue' /\ ContextsApart' /\ HeldGrows
          /\ held' \in [Tables -> [Metas -> Nat \cup {Never}]]
      BY <1>2, <2>1, ScanOnlySafe
    <2>5. GivenTrue'
      BY <1>1, <1>2, <2>1, <2>4, GivenKept DEF VectorInv
    <2> QED BY <2>1, <2>3, <2>4, <2>5 DEF VectorInv
  <1>5. CASE scan' = [Idle EXCEPT !.pc = "error"] /\ version' = version
    <2>1. VectorTypes' /\ scan'.pc = "error" /\ scan'.started = 0
      BY <1>1, <1>2, <1>5, IdleTypes DEF VectorTypes, ScanOnly
    <2>2. StartsByNow' /\ ReasonTrue' /\ VersionTrue' /\ GivenTrue'
      BY <1>1, <1>2, <1>5, <2>1, NotPlanned
      DEF StartsByNow, VersionTrue, GivenTrue, VectorInv, ScanOnly, VectorTypes
    <2>3. HeldNow' /\ EntriesTrue' /\ ContextsApart'
      BY <1>2, <2>1, ScanOnlySafe
    <2> QED BY <2>1, <2>2, <2>3 DEF VectorInv
  <1> QED BY <1>4, <1>5 DEF GetServerVersion

(* What the comparison with the cap tells of a count that fits the integer:
   it finds every constant count too large, and no count that is not. *)
LEMMA OverCapCounts ==
  ASSUME VectorConstants, Fits, NEW limit \in Clauses(Limits), NEW offset \in Clauses({0, 1}),
         NEW c \in Caps
  PROVE  LET n == Asked(limit, offset)
             over == OverCap(c, const_count(limit), const_count(offset))
         IN  /\ over => c # NoCap /\ (n = Unlimited \/ n > c)
             /\ ~over /\ n \in Nat => c = NoCap \/ n <= c
  <1>1. c \in Nat \/ c = NoCap
    BY DEF VectorConstants
  <1>2. limit.kind \in {"none", "all", "expr"} \/ (limit.kind = "const" /\ limit.n \in Limits)
    BY DEF Clauses, Clause
  <1>3. offset.kind \in {"none", "all", "expr"} \/ (offset.kind = "const" /\ offset.n \in {0, 1})
    BY DEF Clauses, Clause
  <1>4. \A k \in Limits : k \in Nat /\ k + 1 < TopBit
    BY DEF VectorConstants, Fits
  <1>5. \A k \in Nat : k < TopBit => Wrap(k) = k
    BY DEF Wrap, TopBit
  <1>6. CASE limit.kind \in {"all", "expr"} \/ offset.kind \in {"all", "expr"}
    BY <1>2, <1>3, <1>6 DEF OverCap, const_count, Asked, Unknown, Unlimited
  <1>7. CASE limit.kind = "const" /\ offset.kind \in {"none", "const"}
    <2>1. /\ const_count(limit) = limit.n /\ const_count(offset) \in {0, 1}
          /\ limit.n \in Nat /\ limit.n + 1 < TopBit
      BY <1>2, <1>3, <1>4, <1>7 DEF const_count
    <2>2. Wrap(const_count(limit) + const_count(offset))
            = const_count(limit) + const_count(offset)
      BY <1>5, <2>1 DEF TopBit
    <2>3. offset.kind = "none" => offset.n = 0
      BY DEF Clauses, Clause
    <2>4. Asked(limit, offset) = const_count(limit) + const_count(offset)
      BY <1>7, <2>3 DEF Asked, const_count
    <2> QED BY <1>1, <2>1, <2>2, <2>4 DEF OverCap, NoCap
  <1>8. CASE limit.kind = "none" /\ offset.kind \in {"none", "const"}
    <2>1. Asked(limit, offset) = Unlimited /\ Unlimited \notin Nat
      BY <1>8 DEF Asked, Unlimited
    <2> QED BY <1>1, <2>1 DEF OverCap, NoCap
  <1> QED BY <1>2, <1>3, <1>6, <1>7, <1>8

(* fallback_reason, from what the scan was given and the version. *)
LEMMA ClassifySafe ==
  ASSUME VectorConstants, Fits, VectorInv, Classify
  PROVE  VectorInv'
  <1>1. VectorTypes
    BY DEF VectorInv
  <1>2. ScanOnly /\ plans' = plans /\ ttl' = ttl /\ version' = version
    BY <1>1 DEF Classify, ScanOnly, Fetching, VectorTypes, Scans
  <1>3. PICK limit \in Clauses(Limits), offset \in Clauses({0, 1}), p \in BOOLEAN :
          scan' = [scan EXCEPT !.pc = "planned", !.meta = NoIndex,
                               !.count = Asked(limit, offset),
                               !.reason = FallbackReason(scan.meta,
                                              p /\ LimitNeeded(limit, offset),
                                              limit, offset)]
    BY DEF Classify
  <1>4. PICK n \in Nat \cup {Unknown, Unlimited} : n = Asked(limit, offset)
    BY DEF Asked, Clauses, Clause, VectorConstants
  <1>5. PICK r \in Reasons :
          r = FallbackReason(scan.meta, p /\ LimitNeeded(limit, offset), limit, offset)
    BY DEF FallbackReason, Reasons
  <1>6. \A c \in Caps :
          LET over == OverCap(c, const_count(limit), const_count(offset))
          IN  /\ over => c # NoCap /\ (n = Unlimited \/ n > c)
              /\ ~over /\ n \in Nat => c = NoCap \/ n <= c
    BY <1>4, OverCapCounts
  <1>7. scan' = [scan EXCEPT !.pc = "planned", !.meta = NoIndex, !.count = n,
                               !.reason = r]
    BY <1>3, <1>4, <1>5
  <1>8. /\ VectorTypes' /\ scan'.pc = "planned" /\ scan'.count = n /\ scan'.reason = r
        /\ scan'.t = scan.t /\ scan'.started = scan.started
    <2>1. NoIndex \in Metas
      BY DEF Metas
    <2> QED BY <1>1, <1>2, <1>7, <2>1 DEF VectorTypes, ScanOnly, Scans, Pcs, Classify
  <1>9. Held(scan.meta) /\ version = server /\ scan.meta \in Metas /\ scan.t \in Tables
    BY <1>1 DEF Classify, VectorInv, GivenTrue, VersionTrue, VectorTypes, Scans
  <1>10. \A m \in Metas : Held(m)' <=> Held(m)
    BY <1>2, <1>8 DEF Held, ScanOnly
  <1>11. ReasonTrue'
    <2>1. server \in {"new", "old"} /\ server' = server
      BY <1>1, <1>2 DEF VectorTypes, VectorConstants, ScanOnly
    <2>2. /\ r = "old" => server = "old"
          /\ r = "no index" => scan.meta.metric = "none"
          /\ r = "other metric" => scan.meta.metric \notin {"none", "L2"}
          /\ r = "limit" => /\ scan.meta.metric = "L2"
                            /\ OverCap(scan.meta.cap, const_count(limit), const_count(offset))
          /\ r = "index" => /\ scan.meta.metric = "L2"
                            /\ ~OverCap(scan.meta.cap, const_count(limit), const_count(offset))
      BY <1>5, <1>9, <2>1 DEF FallbackReason
    <2>3. CASE r = "index"
      <3>1. PICK c \in Caps : scan.meta = Meta("L2", c) /\ scan.meta.cap = c
        BY <1>9, <2>2, <2>3, MetaTypes
      <3>2. Held(Meta("L2", c))'
        BY <1>9, <1>10, <3>1
      <3>3. n \in Nat => c = NoCap \/ n <= c
        BY <1>6, <2>2, <2>3, <3>1
      <3>4. scan'.count \in Nat => Within(c)'
        BY <1>8, <3>3 DEF Within
      <3> QED BY <1>8, <2>3, <3>2, <3>4 DEF ReasonTrue
    <2>4. CASE r = "limit"
      <3>1. PICK c \in Caps : scan.meta = Meta("L2", c) /\ scan.meta.cap = c
        BY <1>9, <2>2, <2>4, MetaTypes
      <3>2. Held(Meta("L2", c))'
        BY <1>9, <1>10, <3>1
      <3>3. Beyond(c)'
        BY <1>6, <1>8, <2>2, <2>4, <3>1 DEF Beyond
      <3> QED BY <1>8, <2>4, <3>2, <3>3 DEF ReasonTrue
    <2>5. CASE r = "other metric"
      <3>1. scan.meta.metric \in {"none", "L2", "cosine"}
        BY <1>9, MetaTypes DEF Indexes
      <3>2. PICK c \in Caps : scan.meta = Meta("cosine", c)
        BY <1>9, <2>2, <2>5, <3>1, MetaTypes
      <3> QED BY <1>8, <1>9, <1>10, <2>5, <3>2 DEF ReasonTrue
    <2>6. CASE r = "no index"
      <3>1. scan.meta = NoIndex
        BY <1>9, <2>2, <2>6, MetaTypes
      <3> QED BY <1>8, <1>9, <1>10, <2>6, <3>1 DEF ReasonTrue
    <2>7. CASE r \notin {"index", "limit", "other metric", "no index"}
      BY <1>8, <2>1, <2>2, <2>7 DEF ReasonTrue
    <2> QED BY <2>3, <2>4, <2>5, <2>6, <2>7
  <1>12. StartsByNow' /\ VersionTrue' /\ GivenTrue'
    BY <1>2, <1>8 DEF StartsByNow, VersionTrue, GivenTrue, VectorInv, ScanOnly
  <1>13. HeldNow' /\ EntriesTrue' /\ ContextsApart'
    BY <1>2, <1>8, ScanOnlySafe
  <1> QED BY <1>8, <1>11, <1>12, <1>13 DEF VectorInv

(***************************************************************************)
(* Steps that change the entries.                                          *)
(***************************************************************************)
(* With and Without change one entry, or drop some, and leave the others. *)
LEMMA Tables1 ==
  ASSUME NEW c, NEW ts, NEW t, NEW e
  PROVE  /\ DOMAIN Without(c, ts) = DOMAIN c \ ts
         /\ \A u \in DOMAIN c \ ts : Without(c, ts)[u] = c[u]
         /\ DOMAIN With(c, t, e) = DOMAIN c \cup {t}
         /\ With(c, t, e)[t] = e
         /\ \A u \in DOMAIN c \ {t} : With(c, t, e)[u] = c[u]
  BY DEF Without, With

(* The world rests while the entries change. *)
EntriesOnly ==
    /\ driver' = driver /\ server' = server /\ now' = now /\ ttl' = ttl /\ index' = index
    /\ cap' = cap /\ changes' = changes /\ held' = held /\ version' = version
    /\ plans' = plans

(* A step that changes only the cached entries. *)
LEMMA EntriesOnlySafe ==
  ASSUME VectorInv, EntriesOnly
  PROVE  HeldNow' /\ HeldGrows /\ held' \in [Tables -> [Metas -> Nat \cup {Never}]]
  <1>1. held \in [Tables -> [Metas -> Nat \cup {Never}]] /\ held' = held
    BY DEF VectorInv, VectorTypes, EntriesOnly
  <1>2. \A t \in Tables, m \in Metas : held[t][m] # Never => held[t][m] >= held[t][m]
    BY <1>1
  <1> QED BY <1>1, <1>2 DEF HeldGrows, VectorInv, HeldNow, MetaOf, EntriesOnly

(* A miss evicts the other entries that have expired, with their contexts, and
   adds the context of the fetch. *)
LEMMA MissSafe ==
  ASSUME VectorConstants, VectorInv, LookupMiss
  PROVE  VectorInv'
  <1> DEFINE t == scan.t
             S == Stale(t, now)
             found == t \in DOMAIN cache
             kept == Without(cache, S)
  <1>1. VectorTypes /\ scan.pc = "lookup" /\ t \in Tables
    BY DEF VectorInv, VectorTypes, LookupMiss
  <1>2. EntriesOnly
    BY DEF LookupMiss, EntriesOnly
  <1>3. /\ cache' = IF found THEN kept ELSE With(kept, t, Entry(Garbage, now, 0))
        /\ live' = (live \ {cache[u].cxt : u \in S}) \cup {plans}
        /\ scan' = [scan EXCEPT !.pc = "subxact", !.started = now, !.found = found,
                                !.cxt = plans]
    BY DEF LookupMiss
  <1>4. /\ scan' \in Scans /\ scan'.pc = "subxact" /\ scan'.started = now
        /\ scan'.found = found /\ scan'.cxt = plans /\ scan'.t = t
    <2>1. found \in BOOLEAN
      OBVIOUS
    <2>2. PICK b \in BOOLEAN : b = found
      BY <2>1
    <2>3. scan' = [scan EXCEPT !.pc = "subxact", !.started = now, !.found = b, !.cxt = plans]
      BY <1>3, <2>2
    <2>4. /\ scan' \in Scans /\ scan'.pc = "subxact" /\ scan'.started = now
          /\ scan'.found = b /\ scan'.cxt = plans /\ scan'.t = t
      BY <1>1, <2>2, <2>3 DEF VectorTypes, Scans, Pcs
    <2> QED BY <2>2, <2>4
  <1>5. S \subseteq DOMAIN cache \ {t}
    BY DEF Stale
  <1>6. Filled = DOMAIN cache /\ ~Fetching /\ Fetching'
    BY <1>1, <1>4 DEF Filled, Fetching
  <1>7. /\ DOMAIN cache' = (DOMAIN cache \ S) \cup {t}
        /\ \A u \in DOMAIN cache \ S : cache'[u] = cache[u]
    <2>1. DOMAIN kept = DOMAIN cache \ S /\ \A u \in DOMAIN cache \ S : kept[u] = cache[u]
      BY Tables1
    <2>2. CASE found
      BY <1>3, <1>5, <2>1, <2>2
    <2>3. CASE ~found
      <3> HIDE DEF kept, t
      <3>1. /\ DOMAIN With(kept, t, Entry(Garbage, now, 0)) = DOMAIN kept \cup {t}
            /\ \A u \in DOMAIN kept \ {t} : With(kept, t, Entry(Garbage, now, 0))[u] = kept[u]
        BY DEF With
      <3> QED BY <1>3, <2>1, <2>3, <3>1
    <2> QED BY <2>2, <2>3
  <1>8. Filled' = DOMAIN cache \ S
    <2>1. Filled' = {u \in DOMAIN cache' : ~(~found /\ u = t)}
      BY <1>4, <1>6 DEF Filled
    <2> HIDE DEF S
    <2> QED BY <1>5, <1>7, <2>1
  <1>9. VectorTypes'
    <2>1. DOMAIN cache' \subseteq Tables
      BY <1>1, <1>7 DEF VectorTypes
    <2> QED BY <1>1, <1>2, <1>4, <2>1 DEF VectorTypes, EntriesOnly
  <1>10. HeldNow'
    BY <1>2, EntriesOnlySafe
  <1>11. EntriesTrue'
    <2> SUFFICES ASSUME NEW u \in DOMAIN cache \ S PROVE EntryTrue(u)'
      BY <1>8 DEF EntriesTrue
    <2>1. EntryTrue(u) /\ u \in Tables /\ cache'[u] = cache[u]
      BY <1>1, <1>6, <1>7 DEF VectorInv, EntriesTrue, VectorTypes
    <2> QED BY <1>1, <1>2, <2>1, EntriesOnlySafe, KeptTrue
  <1>12. StartsByNow' /\ GivenTrue' /\ VersionTrue' /\ ReasonTrue'
    BY <1>1, <1>2, <1>4, NotPlanned
    DEF StartsByNow, GivenTrue, VersionTrue, VectorInv, EntriesOnly, VectorTypes
  <1>13. ContextsApart'
    <2>1. /\ \A u, v \in DOMAIN cache : cache[u].cxt = cache[v].cxt => u = v
          /\ \A u \in DOMAIN cache : cache[u].cxt < plans /\ cache[u].cxt <= plans
          /\ live = {cache[u].cxt : u \in DOMAIN cache}
      BY <1>1, <1>6 DEF VectorInv, ContextsApart
    <2>2. plans' = plans
      BY <1>2 DEF EntriesOnly
    <2>3. /\ \A u, v \in Filled' : cache'[u].cxt = cache'[v].cxt => u = v
          /\ \A u \in Filled' : cache'[u].cxt <= plans' /\ cache'[u].cxt < plans'
      BY <1>7, <1>8, <2>1, <2>2
    <2>4. live' = {cache'[u].cxt : u \in Filled'} \cup {plans}
      <3>1. live \ {cache[u].cxt : u \in S} = {cache[u].cxt : u \in DOMAIN cache \ S}
        <4> HIDE DEF S
        <4> QED BY <1>5, <2>1
      <3>2. {cache'[u].cxt : u \in Filled'} = {cache[u].cxt : u \in DOMAIN cache \ S}
        BY <1>7, <1>8
      <3> QED BY <1>3, <3>1, <3>2
    <2> QED BY <1>4, <1>6, <1>7, <2>2, <2>3, <2>4 DEF ContextsApart
  <1> QED BY <1>9, <1>10, <1>11, <1>12, <1>13 DEF VectorInv

(* Entries and contexts of a lookup that runs: all but its own. *)
LEMMA FetchContexts ==
  ASSUME VectorInv, scan.pc = "fetch"
  PROVE  /\ Fetching /\ scan.t \in DOMAIN cache /\ scan.t \in Tables /\ scan.cxt = plans
         /\ DOMAIN cache \ {scan.t} \subseteq Filled
         /\ scan.found => scan.t \in Filled
         /\ \A u, v \in DOMAIN cache \ {scan.t} : cache[u].cxt = cache[v].cxt => u = v
         /\ \A u \in DOMAIN cache \ {scan.t} : cache[u].cxt # plans /\ cache[u].cxt <= plans
         /\ live \ ({plans} \cup IF scan.found THEN {cache[scan.t].cxt} ELSE {})
                = {cache[u].cxt : u \in DOMAIN cache \ {scan.t}}
         /\ live \ (IF scan.found THEN {cache[scan.t].cxt} ELSE {})
                = {cache[u].cxt : u \in DOMAIN cache \ {scan.t}} \cup {plans}
  <1>1. VectorTypes /\ ContextsApart /\ EntriesTrue
    BY DEF VectorInv
  <1>2. Fetching /\ scan.t \in DOMAIN cache /\ scan.t \in Tables /\ scan.cxt = plans
    BY <1>1 DEF Fetching, ContextsApart, VectorTypes
  <1>3. /\ DOMAIN cache \ {scan.t} \subseteq Filled
        /\ scan.found => scan.t \in Filled
        /\ ~scan.found => scan.t \notin Filled
        /\ Filled \subseteq DOMAIN cache
    BY <1>2 DEF Filled
  <1>4. \A u \in Filled : cache[u].cxt \in Nat /\ cache[u].cxt < plans /\ cache[u].cxt <= plans
    BY <1>1 DEF ContextsApart, EntriesTrue, EntryTrue
  <1>5. plans \in Nat
    BY <1>1 DEF VectorTypes
  <1>6. \A u \in Filled : cache[u].cxt # plans
    BY <1>4, <1>5
  <1>7. \A u, v \in Filled : cache[u].cxt = cache[v].cxt => u = v
    BY <1>1 DEF ContextsApart
  <1>8. live = {cache[u].cxt : u \in Filled} \cup {plans}
    BY <1>1, <1>2 DEF ContextsApart
  <1>9. CASE scan.found
    <2>1. Filled = DOMAIN cache
      BY <1>3, <1>9
    <2>2. /\ live \ ({plans} \cup {cache[scan.t].cxt})
                = {cache[u].cxt : u \in DOMAIN cache \ {scan.t}}
          /\ live \ {cache[scan.t].cxt}
                = {cache[u].cxt : u \in DOMAIN cache \ {scan.t}} \cup {plans}
      BY <1>2, <1>6, <1>7, <1>8, <2>1
    <2> QED BY <1>2, <1>3, <1>4, <1>6, <1>7, <1>9, <2>1, <2>2
  <1>10. CASE ~scan.found
    <2>1. Filled = DOMAIN cache \ {scan.t}
      BY <1>3, <1>10
    <2>2. /\ live \ {plans} = {cache[u].cxt : u \in DOMAIN cache \ {scan.t}}
          /\ live = {cache[u].cxt : u \in DOMAIN cache \ {scan.t}} \cup {plans}
      BY <1>6, <1>8, <2>1
    <2> QED BY <1>2, <1>3, <1>4, <1>6, <1>7, <1>10, <2>1, <2>2
  <1> QED BY <1>9, <1>10

(* fetch_meta: the entry is true from now, and the context it had before is
   deleted. *)
LEMMA FetchSafe ==
  ASSUME VectorConstants, VectorInv, FetchMeta
  PROVE  VectorInv'
  <1> DEFINE t == scan.t
             e == Entry(MetaOf(scan.t), scan.started, scan.cxt)
  <1>1. VectorTypes /\ scan.pc = "fetch" /\ HeldNow
    BY DEF VectorInv, FetchMeta
  <1>2. EntriesOnly /\ cache' = With(cache, t, e)
    BY DEF FetchMeta, EntriesOnly
  <1>3. /\ Fetching /\ t \in DOMAIN cache /\ t \in Tables /\ scan.cxt = plans
        /\ DOMAIN cache \ {t} \subseteq Filled
        /\ \A u, v \in DOMAIN cache \ {t} : cache[u].cxt = cache[v].cxt => u = v
        /\ \A u \in DOMAIN cache \ {t} : cache[u].cxt # plans /\ cache[u].cxt <= plans
    BY <1>1, FetchContexts
  <1>4. live' = {cache[u].cxt : u \in DOMAIN cache \ {t}} \cup {plans}
    BY <1>1, FetchContexts DEF FetchMeta
  <1>5. /\ DOMAIN cache' = DOMAIN cache /\ cache'[t] = e
        /\ \A u \in DOMAIN cache \ {t} : cache'[u] = cache[u]
    BY <1>2, <1>3 DEF With
  <1>6. MetaOf(t) \in Metas /\ now \in Nat /\ plans \in Nat /\ scan.started \in Nat
    BY <1>1, <1>3, MetaOfType DEF VectorTypes, Scans
  <1>7. /\ scan' \in Scans /\ scan'.pc = "version" /\ scan'.started = scan.started
        /\ scan'.meta = MetaOf(t) /\ scan'.t = t
    BY <1>1, <1>6 DEF FetchMeta, VectorTypes, Scans, Pcs
  <1>8. ~Fetching' /\ Filled' = DOMAIN cache
    BY <1>5, <1>7 DEF Fetching, Filled
  <1>9. VectorTypes'
    BY <1>1, <1>2, <1>3, <1>5, <1>7 DEF VectorTypes, EntriesOnly
  <1>10. held[t][MetaOf(t)] = now /\ scan.started <= now /\ held' = held /\ ttl' = ttl
    BY <1>1, <1>2, <1>3 DEF HeldNow, VectorInv, StartsByNow, EntriesOnly
  <1>11. EntriesTrue'
    <2>1. ASSUME NEW u \in DOMAIN cache \ {t} PROVE EntryTrue(u)'
      <3>1. EntryTrue(u) /\ u \in Tables /\ cache'[u] = cache[u]
        BY <1>1, <1>3, <1>5 DEF VectorInv, EntriesTrue, VectorTypes
      <3> QED BY <1>1, <1>2, <3>1, EntriesOnlySafe, KeptTrue
    <2>2. ASSUME NEW u \in DOMAIN cache, u = t PROVE EntryTrue(u)'
      <3>1. e.meta = MetaOf(t) /\ e.at = scan.started /\ e.cxt = plans
        BY <1>3 DEF Entry
      <3>2. now # Never /\ now >= scan.started
        BY <1>6, <1>10 DEF Never
      <3>3. cache'[u] = e /\ held'[u][e.meta] = now
        BY <1>5, <1>10, <2>2, <3>1
      <3> HIDE DEF e
      <3> QED BY <1>6, <2>2, <3>1, <3>2, <3>3 DEF EntryTrue
    <2> QED BY <1>8, <2>1, <2>2 DEF EntriesTrue
  <1>12. GivenTrue'
    <2>1. PICK h \in Nat : h = Max({ttl, 1}) /\ h >= 1
      BY <1>1, Horizon DEF VectorTypes, VectorConstants
    <2>2. now # Never /\ now > scan.started - h
      BY <1>6, <1>10, <2>1 DEF Never
    <2> QED BY <1>7, <1>10, <2>1, <2>2 DEF GivenTrue, Held
  <1>13. HeldNow'
    BY <1>2, EntriesOnlySafe
  <1>14. StartsByNow' /\ VersionTrue' /\ ReasonTrue'
    BY <1>2, <1>7, <1>10, NotPlanned DEF StartsByNow, VersionTrue, VectorInv, EntriesOnly
  <1>15. ContextsApart'
    <2>1. e.cxt = plans
      BY <1>3 DEF Entry
    <2>2. plans' = plans /\ plans <= plans
      BY <1>2, <1>6 DEF EntriesOnly
    <2> HIDE DEF e, t
    <2>3. /\ \A u, v \in DOMAIN cache : cache'[u].cxt = cache'[v].cxt => u = v
          /\ \A u \in DOMAIN cache : cache'[u].cxt <= plans
      BY <1>3, <1>5, <2>1, <2>2
    <2>4. live' = {cache'[u].cxt : u \in DOMAIN cache}
      BY <1>3, <1>4, <1>5, <2>1
    <2> QED BY <1>7, <1>8, <2>2, <2>3, <2>4 DEF ContextsApart
  <1> QED BY <1>9, <1>11, <1>12, <1>13, <1>14, <1>15 DEF VectorInv

(* PG_CATCH: the entry goes, and both contexts. *)
LEMMA FailSafe ==
  ASSUME VectorConstants, VectorInv, FetchFails
  PROVE  VectorInv'
  <1> DEFINE t == scan.t
  <1>1. VectorTypes /\ scan.pc = "fetch"
    BY DEF VectorInv, FetchFails
  <1>2. EntriesOnly /\ cache' = Without(cache, {t})
    BY DEF FetchFails, EntriesOnly, EntryRemoved
  <1>3. /\ scan.cxt = plans /\ DOMAIN cache \ {t} \subseteq Filled
        /\ t \in Tables
        /\ \A u, v \in DOMAIN cache \ {t} : cache[u].cxt = cache[v].cxt => u = v
        /\ \A u \in DOMAIN cache \ {t} : cache[u].cxt # plans /\ cache[u].cxt <= plans
    BY <1>1, FetchContexts
  <1>4. live' = {cache[u].cxt : u \in DOMAIN cache \ {t}}
    BY <1>1, <1>3, FetchContexts DEF FetchFails
  <1>5. /\ DOMAIN cache' = DOMAIN cache \ {t}
        /\ \A u \in DOMAIN cache \ {t} : cache'[u] = cache[u]
    BY <1>2 DEF Without
  <1>6. /\ scan' \in Scans /\ scan'.pc = "planned" /\ scan'.started = scan.started
        /\ scan'.reason = "unknown" /\ scan'.t = t
    BY <1>1, MetaTypes DEF FetchFails, VectorTypes, Scans, Pcs, Reasons
  <1>7. ~Fetching' /\ Filled' = DOMAIN cache \ {t}
    BY <1>5, <1>6 DEF Fetching, Filled
  <1>8. VectorTypes'
    BY <1>1, <1>2, <1>3, <1>5, <1>6 DEF VectorTypes, EntriesOnly
  <1>9. EntriesTrue'
    <2> SUFFICES ASSUME NEW u \in DOMAIN cache \ {t} PROVE EntryTrue(u)'
      BY <1>7 DEF EntriesTrue
    <2>1. EntryTrue(u) /\ u \in Tables /\ cache'[u] = cache[u]
      BY <1>1, <1>3, <1>5 DEF VectorInv, EntriesTrue, VectorTypes
    <2> QED BY <1>1, <1>2, <2>1, EntriesOnlySafe, KeptTrue
  <1>10. HeldNow'
    BY <1>2, EntriesOnlySafe
  <1>11. StartsByNow' /\ VersionTrue' /\ GivenTrue'
    BY <1>2, <1>6 DEF StartsByNow, VersionTrue, GivenTrue, VectorInv, EntriesOnly
  <1>12. ReasonTrue'
    BY <1>6 DEF ReasonTrue
  <1>13. ContextsApart'
    <2>1. plans' = plans
      BY <1>2 DEF EntriesOnly
    <2>2. /\ \A u, v \in DOMAIN cache \ {t} : cache'[u].cxt = cache'[v].cxt => u = v
          /\ \A u \in DOMAIN cache \ {t} : cache'[u].cxt <= plans
      BY <1>3, <1>5
    <2>3. live' = {cache'[u].cxt : u \in DOMAIN cache \ {t}}
      BY <1>4, <1>5
    <2> QED BY <1>6, <1>7, <2>1, <2>2, <2>3 DEF ContextsApart
  <1> QED BY <1>8, <1>9, <1>10, <1>11, <1>12, <1>13 DEF VectorInv

(* clickhouse_refresh_vector_metadata empties the cache. *)
LEMMA RefreshSafe ==
  ASSUME VectorConstants, VectorInv, RefreshVectorMetadata
  PROVE  VectorInv'
  <1>1. VectorTypes /\ scan.pc = "idle" /\ scan' = scan
    BY DEF VectorInv, RefreshVectorMetadata
  <1>2. cache' = << >> /\ live' = {}
    BY DEF RefreshVectorMetadata, InvalidateAll
  <1>3. DOMAIN cache' = {} /\ Filled' = {} /\ ~Fetching'
    BY <1>1, <1>2 DEF Filled, Fetching
  <1>4. /\ held' \in [Tables -> [Metas -> Nat \cup {Never}]]
        /\ \A t \in Tables, m \in Metas : held'[t][m] = IF m = MetaOf(t) THEN now ELSE Never
    BY <1>1 DEF RefreshVectorMetadata, VectorTypes
  <1>5. VectorTypes'
    BY <1>1, <1>3, <1>4 DEF RefreshVectorMetadata, VectorTypes
  <1>6. HeldNow'
    <2>1. now' = now /\ now \in Nat /\ \A t \in Tables : MetaOf(t)' = MetaOf(t)
      BY <1>1 DEF RefreshVectorMetadata, VectorTypes, MetaOf
    <2>2. \A t \in Tables : MetaOf(t) \in Metas
      BY <1>1, MetaOfType DEF VectorTypes
    <2> QED BY <1>4, <2>1, <2>2 DEF HeldNow, Never
  <1>7. EntriesTrue' /\ ContextsApart'
    BY <1>1, <1>2, <1>3 DEF EntriesTrue, ContextsApart
  <1>8. StartsByNow' /\ VersionTrue' /\ GivenTrue' /\ ReasonTrue'
    BY <1>1, NotPlanned DEF RefreshVectorMetadata, StartsByNow, VersionTrue, GivenTrue, VectorInv
  <1> QED BY <1>5, <1>6, <1>7, <1>8 DEF VectorInv

(***************************************************************************)
(* The theorems.                                                           *)
(***************************************************************************)
LEMMA VectorInitSafe == ASSUME VectorConstants, Init PROVE VectorInv
  <1>0. cache = << >> /\ scan = Idle /\ scan.pc = "idle" /\ scan.started = 0
    BY IdleTypes DEF Init
  <1>1. DOMAIN cache = {} /\ Filled = {} /\ ~Fetching /\ scan = Idle
    BY <1>0 DEF Filled, Fetching
  <1>2. /\ held \in [Tables -> [Metas -> Nat \cup {Never}]]
        /\ index \in [Tables -> Indexes]
        /\ \A t \in Tables : MetaOf(t) = NoIndex
        /\ \A t \in Tables, m \in Metas : held[t][m] = IF m = NoIndex THEN 0 ELSE Never
    BY DEF Init, Indexes, MetaOf
  <1>3. VectorTypes
    BY <1>1, <1>2, IdleTypes DEF Init, VectorTypes
  <1>4. HeldNow
    BY <1>2, MetaTypes DEF Init, HeldNow, Never
  <1>5. EntriesTrue /\ ContextsApart
    BY <1>1, IdleTypes DEF EntriesTrue, ContextsApart, Init
  <1>6. StartsByNow /\ VersionTrue /\ GivenTrue /\ ReasonTrue
    BY <1>0 DEF Init, StartsByNow, VersionTrue, GivenTrue, ReasonTrue
  <1> QED BY <1>3, <1>4, <1>5, <1>6 DEF VectorInv

(* Every step keeps the invariant. *)
LEMMA VectorStepSafe ==
  ASSUME VectorConstants, Binary, Fits, VectorInv, [Next]_vars
  PROVE  VectorInv'
  <1>1. CASE PlanScan \/ EndQuery \/ SetTtl
    BY <1>1, BetweenSafe
  <1>2. CASE LookupHit
    BY <1>2, HitSafe
  <1>3. CASE LookupMiss
    BY <1>3, MissSafe
  <1>4. CASE BeginSubTransaction
    BY <1>4, SubTransactionSafe
  <1>5. CASE FetchMeta
    BY <1>5, FetchSafe
  <1>6. CASE FetchFails
    BY <1>6, FailSafe
  <1>7. CASE GetServerVersion
    BY <1>7, VersionSafe
  <1>8. CASE Classify
    BY <1>8, ClassifySafe
  <1>9. CASE RefreshVectorMetadata
    BY <1>9, RefreshSafe
  <1>10. CASE Tick \/ AlterIndex \/ ChangeCap
    BY <1>10, ClockSafe
  <1>11. CASE DropConnection \/ NetworkChanges \/ Cancel \/ UNCHANGED vars
    <2>1. /\ driver' = driver /\ server' = server /\ now' = now /\ ttl' = ttl
          /\ index' = index /\ cap' = cap /\ changes' = changes /\ held' = held
          /\ cache' = cache /\ live' = live /\ scan' = scan /\ plans' = plans
      BY <1>11 DEF DropConnection, NetworkChanges, Cancel, vars
    <2>2. VersionTrue'
      BY <1>11, <2>1 DEF DropConnection, NetworkChanges, Cancel, vars, VersionTrue, VectorInv
    <2> QED BY <2>1, <2>2, ConnectionSafe
  <1> QED BY <1>1, <1>2, <1>3, <1>4, <1>5, <1>6, <1>7, <1>8, <1>9, <1>10, <1>11 DEF Next

(* Between queries, the invariant gives ContextsOwned. *)
LEMMA VectorInvOwns == ASSUME VectorInv PROVE ContextsOwned
  <1> SUFFICES ASSUME scan.pc = "idle" PROVE live = Contexts(cache)
    BY DEF ContextsOwned
  <1>1. ~Fetching /\ Filled = DOMAIN cache
    BY DEF Fetching, Filled
  <1> QED BY <1>1 DEF VectorInv, ContextsApart, Contexts

(* The invariant holds over a binary connection, for limits that fit. *)
THEOREM VectorInvariant ==
  ASSUME VectorConstants, Binary, Fits
  PROVE  Spec => []VectorInv
  <1>1. Init => VectorInv
    BY VectorInitSafe
  <1>2. VectorInv /\ [Next]_vars => VectorInv'
    BY VectorStepSafe
  <1> QED BY <1>1, <1>2, PTL DEF Spec
=============================================================================
