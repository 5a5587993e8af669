------------------------ MODULE ScanLifecycleProofs ------------------------
(***************************************************************************)
(* Proofs about the connection manager (ConnCache) and about statements on *)
(* top of it (ScanLifecycle), for any number of user mappings, connection  *)
(* addresses, transactions and catalog changes and any number and mix of   *)
(* holders.                                                                *)
(*                                                                         *)
(* The first part is about the manager alone: its inductive invariant, the *)
(* freshness of what it hands out, and that it implements ExclusiveLease.  *)
(* The second builds on it.  Steps of the manager keep its own invariant   *)
(* and close no connection under its holder; what they do to responses,    *)
(* INSERTs and the wire is ManagedSafe.  Steps of the driver leave the     *)
(* manager alone, and what they do to the wire is DriverSafe.              *)
(***************************************************************************)
EXTENDS ScanLifecycle, FiniteSetTheorems, SequenceTheorems, TLAPS

(***************************************************************************)
(* Type correctness.                                                       *)
(***************************************************************************)
(* The initial state has the right types, whatever memory hash_search leaves
   in "invalidated". *)
LEMMA InitType == Init => TypeOK
  BY ConstantAssumption
  DEF Init, TypeOK, Entry, Lease, UserMapping, NoLease, NoUser, Options, Versions

(* clickhouse_connect keeps the types of the state it changes. *)
LEMMA ConnectType ==
  ASSUME TypeOK, NEW c \in Conns, NEW dropped \in SUBSET Conns,
         NEW m \in Mappings, NEW o \in Versions,
         clickhouse_connect(c, dropped, m, o)
  PROVE  /\ open' \subseteq Conns
         /\ broken' \subseteq Conns
         /\ built' \in [Conns -> [server : Versions, mapping : Versions]]
         /\ closed' \subseteq Conns
  BY ConstantAssumption DEF TypeOK, clickhouse_connect, Options

(* So does get_connection_entry, whether it connects or reuses. *)
LEMMA EntryType ==
  ASSUME TypeOK, NEW c \in Conns, NEW m \in Mappings, NEW o \in Versions,
         get_connection_entry(c, m, o)
  PROVE  /\ open' \subseteq Conns
         /\ broken' \subseteq Conns
         /\ built' \in [Conns -> [server : Versions, mapping : Versions]]
         /\ closed' \subseteq Conns
  <1>1. Discarded(m) \subseteq Conns
    BY DEF Discarded, Discards, TypeOK, Entry
  <1>2. CASE Connects(m)
    BY <1>1, <1>2, ConnectType DEF get_connection_entry
  <1>3. CASE ~Connects(m)
    BY <1>3 DEF get_connection_entry, TypeOK, heapVars
  <1> QED BY <1>2, <1>3

(* The structs that the actions build are of their declared types. *)
LEMMA NewTypes ==
  ASSUME TypeOK
  PROVE  /\ \A m \in Mappings, c \in Conns \cup {None}, b \in BOOLEAN :
                EntryAfter(m, c, b) \in Entry
         /\ \A e \in Mappings \cup {None}, c \in Conns : NewLease(e, c) \in Lease
         /\ NoUser \in UserMapping
         /\ NoLease \in Lease
         /\ Expired \subseteq Conns
         /\ \A m \in Mappings : EntryAtXactEnd(m) \in Entry
  <1>1. ASSUME NEW m \in Mappings, NEW c \in Conns \cup {None}, NEW b \in BOOLEAN
        PROVE  EntryAfter(m, c, b) \in Entry
    <2>1. (~Connects(m) /\ ConnectionHash[m].invalidated) \in BOOLEAN
      OBVIOUS
    <2> QED BY <2>1 DEF EntryAfter, Entry
  <1>2. \A e \in Mappings \cup {None}, c \in Conns : NewLease(e, c) \in Lease
    BY DEF TypeOK, NewLease, Lease
  <1>3. NoUser \in UserMapping /\ NoLease \in Lease
    BY ConstantAssumption DEF NoUser, UserMapping, NoLease, Lease, Versions
  <1>4. Expired \subseteq Conns
    BY DEF TypeOK, Expired, Entry
  <1>5. \A m \in Mappings : EntryAtXactEnd(m) \in Entry
    BY DEF TypeOK, EntryAtXactEnd, Entry
  <1> QED BY <1>1, <1>2, <1>3, <1>4, <1>5

(* chfdw_release_scan_connection keeps the types of the state it changes. *)
LEMMA ReleaseType ==
  ASSUME TypeOK, NEW h \in Holders, chfdw_release_scan_connection(lease[h])
  PROVE  /\ ConnectionHash' \in [Mappings -> Entry]
         /\ PrivateConnections' \subseteq Conns
         /\ lease_generation' \in Nat
         /\ open' \subseteq Conns
         /\ broken' \subseteq Conns
         /\ built' = built
         /\ closed' \subseteq Conns
  <1>1. lease[h] \in Lease
    BY DEF TypeOK
  <1>2. ConnectionHash' \in [Mappings -> Entry]
    <2>1. \A m \in Mappings : [ConnectionHash[m] EXCEPT !.busy = FALSE] \in Entry
      BY DEF TypeOK, Entry
    <2>2. lease[h].entry # None => lease[h].entry \in Mappings
      BY <1>1 DEF Lease
    <2> QED BY <2>1, <2>2 DEF TypeOK, chfdw_release_scan_connection
  <1> QED BY <1>2 DEF TypeOK, chfdw_release_scan_connection

(* Every step of the connection manager keeps the type invariant. *)
LEMMA StepType == TypeOK /\ [Next]_vars => TypeOK'
  <1> SUFFICES ASSUME TypeOK, [Next]_vars PROVE TypeOK'
    OBVIOUS
  <1>1. ASSUME NEW h \in Holders, NEW m \in Mappings, GetUserMapping(h, m)
        PROVE  TypeOK'
    BY <1>1 DEF GetUserMapping, TypeOK, cacheVars, heapVars, catVars,
                UserMapping, Options
  <1>2. ASSUME NEW h \in Holders, LeaseCached(h) PROVE TypeOK'
    <2> DEFINE m == user[h].umid
    <2>1. m \in Mappings /\ user[h].options \in Versions
      BY <1>2 DEF LeaseCached, TypeOK, UserMapping
    <2>2. PICK c \in Conns :
            /\ get_connection_entry(c, m, user[h].options)
            /\ ConnectionHash' = [ConnectionHash EXCEPT ![m] = EntryAfter(m, c, TRUE)]
            /\ lease' = [lease EXCEPT ![h] = NewLease(m, c)]
      BY <1>2 DEF LeaseCached
    <2> QED BY <1>2, <2>1, <2>2, EntryType, NewTypes
            DEF LeaseCached, TypeOK, catVars
  <1>3. ASSUME NEW h \in Holders, LeasePrivate(h) PROVE TypeOK'
    <2> DEFINE m == user[h].umid
    <2>1. m \in Mappings /\ user[h].options \in Versions
      BY <1>3 DEF LeasePrivate, TypeOK, UserMapping
    <2>2. PICK c \in Conns :
            /\ clickhouse_connect(c, {}, m, user[h].options)
            /\ PrivateConnections' = PrivateConnections \cup {c}
            /\ lease' = [lease EXCEPT ![h] = NewLease(None, c)]
      BY <1>3 DEF LeasePrivate, TrackPrivate
    <2> QED BY <1>3, <2>1, <2>2, ConnectType, NewTypes
            DEF LeasePrivate, TypeOK, catVars
  <1>4. ASSUME NEW h \in Holders, ConnectFails(h) PROVE TypeOK'
    <2> DEFINE m == user[h].umid
    <2>1. m \in Mappings
      BY <1>4 DEF ConnectFails, TypeOK, UserMapping
    <2>2. /\ Discarded(m) \subseteq Conns
          /\ ConnectionHash[m] \in Entry
          /\ ConnectionHash[m].busy \in BOOLEAN
      BY <2>1 DEF Discarded, Discards, TypeOK, Entry
    <2>3. ConnectionHash' \in [Mappings -> Entry]
      BY <1>4, <2>1, <2>2, NewTypes DEF ConnectFails, TypeOK
    <2> QED BY <1>4, <2>2, <2>3, NewTypes DEF ConnectFails, TypeOK, catVars
  <1>5. ASSUME NEW h \in Holders, chfdw_get_server_version(h) PROVE TypeOK'
    <2> DEFINE m == user[h].umid
    <2>1. /\ m \in Mappings /\ user[h].options \in Versions
          /\ ConnectionHash[m].busy \in BOOLEAN
      BY <1>5 DEF chfdw_get_server_version, TypeOK, UserMapping, Entry
    <2>2. PICK c \in Conns :
            /\ get_connection_entry(c, m, user[h].options)
            /\ ConnectionHash' = [ConnectionHash EXCEPT
                                    ![m] = EntryAfter(m, c, @.busy)]
      BY <1>5 DEF chfdw_get_server_version
    <2> QED BY <1>5, <2>1, <2>2, EntryType, NewTypes
            DEF chfdw_get_server_version, TypeOK, catVars
  <1>6. ASSUME NEW h \in Holders, Release(h) PROVE TypeOK'
    <2>1. [lease[h] EXCEPT !.released = TRUE] \in Lease
      BY DEF TypeOK, Lease
    <2> QED BY <1>6, <2>1, ReleaseType DEF Release, TypeOK, catVars
  <1>7. ASSUME NEW h \in Holders, release_lease(h) PROVE TypeOK'
    <2>1. CASE OfThisTransaction(h)
      BY <1>7, <2>1, ReleaseType, NewTypes DEF release_lease, TypeOK, catVars
    <2>2. CASE ~OfThisTransaction(h)
      BY <1>7, <2>2, NewTypes
      DEF release_lease, TypeOK, catVars, cacheVars, heapVars
    <2> QED BY <2>1, <2>2
  <1>8. ASSUME NEW s \in Servers, AlterServer(s) PROVE TypeOK'
    BY <1>8, ConstantAssumption
    DEF AlterServer, TypeOK, cacheVars, heapVars, Options, Versions
  <1>9. ASSUME NEW m \in Mappings, AlterUserMapping(m) PROVE TypeOK'
    <2>1. [catalog.mapping EXCEPT ![m] = @ + 1] \in [Mappings -> Versions]
      BY <1>9, ConstantAssumption DEF AlterUserMapping, TypeOK, Options, Versions
    <2>2. catalog' \in Options
      BY <1>9, <2>1 DEF AlterUserMapping, TypeOK, Options
    <2> QED BY <1>9, <2>2 DEF AlterUserMapping, TypeOK, cacheVars, heapVars
  <1>10. ASSUME NEW reset \in BOOLEAN, chfdw_inval_callback(reset) PROVE TypeOK'
    BY <1>10 DEF chfdw_inval_callback, TypeOK, heapVars, Entry
  <1>11. CASE chfdw_xact_callback
    BY <1>11, NewTypes DEF chfdw_xact_callback, TypeOK, catVars
  <1>12. ASSUME NEW c \in Conns, MarkBroken(c) PROVE TypeOK'
    BY <1>12 DEF MarkBroken, TypeOK, cacheVars, catVars
  <1>13. CASE UNCHANGED vars
    BY <1>13 DEF vars, TypeOK
  <1> QED BY <1>1, <1>2, <1>3, <1>4, <1>5, <1>6, <1>7, <1>8, <1>9, <1>10,
             <1>11, <1>12, <1>13 DEF Next

(* The state of the connection manager always has the types its structs
   declare. *)
THEOREM TypeCorrect == Spec => []TypeOK
  <1>1. Init => TypeOK
    BY InitType
  <1>2. TypeOK /\ [Next]_vars => TypeOK'
    BY StepType
  <1> QED BY <1>1, <1>2, PTL DEF Spec

(***************************************************************************)
(* The inductive invariant.                                                *)
(***************************************************************************)
(* The cache starts with no connection and no lease, which is safe. *)
LEMMA InitSafe == Init => IInv
  <1> SUFFICES ASSUME Init PROVE IInv
    OBVIOUS
  <1>1. \A h \in Holders : ~Held(h) /\ lease[h].generation = 0
    BY DEF Init, Held, NoLease
  <1>2. \A m \in Mappings : ConnectionHash[m].conn = None /\ ~ConnectionHash[m].busy
    BY DEF Init, Entry
  <1>3. GenerationsPast /\ LeaseOpen /\ LeaseExclusive
    BY <1>1 DEF GenerationsPast, LeaseOpen, LeaseExclusive, Init
  <1>4. BusyIffLeased /\ NoLeak
    BY <1>1, <1>2 DEF BusyIffLeased, NoLeak, Cached, Init
  <1> QED BY <1>3, <1>4, InitType DEF IInv

(* Steps that touch neither leases, nor lists, nor the connection and the busy
   flag of an entry. *)
LEMMA Frame ==
  ASSUME IInv, TypeOK', lease' = lease, lease_generation' = lease_generation,
         PrivateConnections' = PrivateConnections, open' = open,
         \A m \in Mappings :
            /\ ConnectionHash'[m].conn = ConnectionHash[m].conn
            /\ ConnectionHash'[m].busy = ConnectionHash[m].busy
  PROVE  IInv'
  <1>1. \A h \in Holders : Held(h)' <=> Held(h)
    BY DEF Held
  <1>2. Cached' = Cached
    BY DEF Cached
  <1>3. GenerationsPast' /\ LeaseExclusive'
    BY <1>1 DEF IInv, GenerationsPast, LeaseExclusive
  <1>4. LeaseOpen'
    BY <1>1 DEF IInv, LeaseOpen, TypeOK, Lease
  <1>5. BusyIffLeased'
    BY <1>1 DEF IInv, BusyIffLeased
  <1>6. NoLeak'
    BY <1>1, <1>2 DEF IInv, NoLeak
  <1> QED BY <1>3, <1>4, <1>5, <1>6 DEF IInv

(* get_connection_entry yields the entry's connection if it is in use, and in
   any case one that nothing else in the cache refers to. *)
LEMMA EntryConnection ==
  ASSUME IInv, NEW c \in Conns, NEW m \in Mappings, NEW o \in Versions,
         get_connection_entry(c, m, o)
  PROVE  /\ open' = (open \ {ConnectionHash[m].conn}) \cup {c}
         /\ ConnectionHash[m].busy => c = ConnectionHash[m].conn
         /\ c \notin PrivateConnections
         /\ \A n \in Mappings : n # m => ConnectionHash[n].conn # c
  <1>1. /\ open = Cached \cup PrivateConnections
        /\ Cached \cap PrivateConnections = {}
        /\ \A n \in Mappings : n # m /\ ConnectionHash[n].conn # None
                                => ConnectionHash[n].conn # ConnectionHash[m].conn
        /\ \A n \in Mappings : ConnectionHash[n].conn # None
                                => ConnectionHash[n].conn \in Cached
        /\ None \notin open
    BY ConstantAssumption DEF IInv, NoLeak, Cached, TypeOK
  <1>2. CASE Connects(m)
    <2>1. c \notin open \ {ConnectionHash[m].conn}
          /\ open' = (open \ {ConnectionHash[m].conn}) \cup {c}
      BY <1>1, <1>2
      DEF get_connection_entry, clickhouse_connect, Discarded, Connects
    <2>2. ~ConnectionHash[m].busy
      BY <1>2 DEF Connects, Discards, IInv, BusyIffLeased
    <2>3. c \notin PrivateConnections
      BY <1>1, <2>1, ConstantAssumption DEF Cached
    <2>4. \A n \in Mappings : n # m => ConnectionHash[n].conn # c
      BY <1>1, <2>1, ConstantAssumption
    <2> QED BY <2>1, <2>2, <2>3, <2>4
  <1>3. CASE ~Connects(m)
    <2>1. c = ConnectionHash[m].conn /\ open' = open
      BY <1>3 DEF get_connection_entry, heapVars
    <2>2. c # None /\ c \in Cached
      BY <2>1, <1>1, ConstantAssumption
    <2> QED BY <1>1, <2>1, <2>2
  <1> QED BY <1>2, <1>3

(* The entry of m gets connection c and nothing else in the cache changes. *)
LEMMA CachedAfter ==
  ASSUME IInv, TypeOK', NEW c \in Conns, NEW m \in Mappings,
         PrivateConnections' = PrivateConnections,
         open' = (open \ {ConnectionHash[m].conn}) \cup {c},
         c \notin PrivateConnections,
         \A n \in Mappings : n # m => ConnectionHash[n].conn # c,
         ConnectionHash'[m].conn = c,
         \A n \in Mappings : n # m => ConnectionHash'[n] = ConnectionHash[n]
  PROVE  /\ open' = Cached' \cup PrivateConnections'
         /\ Cached' \cap PrivateConnections' = {}
         /\ \A k, n \in Mappings :
              ConnectionHash'[k].conn = ConnectionHash'[n].conn
                /\ ConnectionHash'[k].conn # None => k = n
  <1>1. /\ open = Cached \cup PrivateConnections
        /\ Cached \cap PrivateConnections = {}
        /\ \A k, n \in Mappings :
              ConnectionHash[k].conn = ConnectionHash[n].conn
                /\ ConnectionHash[k].conn # None => k = n
    BY DEF IInv, NoLeak
  <1>2. Cached' = (Cached \ {ConnectionHash[m].conn}) \cup {c}
    <2>1. ASSUME NEW x PROVE x \in Cached' <=> \E n \in Mappings : x = ConnectionHash'[n].conn /\ x # None
      BY DEF Cached
    <2>2. ASSUME NEW x PROVE x \in Cached <=> \E n \in Mappings : x = ConnectionHash[n].conn /\ x # None
      BY DEF Cached
    <2>3. c # None
      BY ConstantAssumption
    <2> QED BY <1>1, <2>1, <2>2, <2>3
  <1>3. ConnectionHash[m].conn \notin PrivateConnections
    <2>1. CASE ConnectionHash[m].conn = None
      BY <2>1, ConstantAssumption DEF IInv, TypeOK
    <2>2. CASE ConnectionHash[m].conn # None
      BY <1>1, <2>2 DEF Cached
    <2> QED BY <2>1, <2>2
  <1> QED BY <1>1, <1>2, <1>3

(* chfdw_get_server_version never takes a leased connection away: the entry is
   remade only when nobody holds it. *)
LEMMA VersionSafe ==
  ASSUME IInv, TypeOK', NEW h \in Holders, chfdw_get_server_version(h)
  PROVE  IInv'
  <1> DEFINE m == user[h].umid
  <1>1. m \in Mappings /\ user[h].options \in Versions
    BY DEF chfdw_get_server_version, IInv, TypeOK, UserMapping
  <1>2. PICK c \in Conns :
          /\ get_connection_entry(c, m, user[h].options)
          /\ ConnectionHash' = [ConnectionHash EXCEPT ![m] = EntryAfter(m, c, @.busy)]
    BY DEF chfdw_get_server_version
  <1>3. /\ open' = (open \ {ConnectionHash[m].conn}) \cup {c}
        /\ ConnectionHash[m].busy => c = ConnectionHash[m].conn
        /\ c \notin PrivateConnections
        /\ \A n \in Mappings : n # m => ConnectionHash[n].conn # c
    BY <1>1, <1>2, EntryConnection
  <1>4. /\ ConnectionHash'[m].conn = c
        /\ ConnectionHash'[m].busy = ConnectionHash[m].busy
        /\ \A n \in Mappings : n # m => ConnectionHash'[n] = ConnectionHash[n]
    BY <1>1, <1>2 DEF EntryAfter, IInv, TypeOK
  <1>5. /\ PrivateConnections' = PrivateConnections
        /\ lease' = lease /\ lease_generation' = lease_generation
    BY DEF chfdw_get_server_version
  <1>6. \A g \in Holders : Held(g)' <=> Held(g)
    BY <1>5 DEF Held
  <1>7. GenerationsPast' /\ LeaseExclusive'
    BY <1>5, <1>6 DEF IInv, GenerationsPast, LeaseExclusive
  <1>8. LeaseOpen'
    <2> SUFFICES ASSUME NEW g \in Holders, Held(g)
                 PROVE  /\ lease[g].conn \in open'
                        /\ IF lease[g].entry = None
                           THEN lease[g].conn \in PrivateConnections
                           ELSE lease[g].conn = ConnectionHash'[lease[g].entry].conn
      BY <1>5, <1>6 DEF LeaseOpen
    <2>1. lease[g].entry # None => lease[g].entry \in Mappings
      BY DEF IInv, TypeOK, Lease
    <2>2. CASE lease[g].entry = m
      BY <1>1, <1>3, <1>4, <2>2, ConstantAssumption DEF IInv, LeaseOpen, BusyIffLeased
    <2>3. CASE lease[g].entry # m /\ lease[g].entry # None
      <3>1. lease[g].conn = ConnectionHash[lease[g].entry].conn /\ lease[g].conn \in open
        BY <2>3 DEF IInv, LeaseOpen
      <3>2. lease[g].conn # None
        BY <3>1, ConstantAssumption DEF IInv, TypeOK
      <3>3. lease[g].conn # ConnectionHash[m].conn
        BY <1>1, <2>1, <2>3, <3>1, <3>2 DEF IInv, NoLeak
      <3> QED BY <1>3, <1>4, <2>1, <2>3, <3>1, <3>3
    <2>4. CASE lease[g].entry = None
      <3>1. lease[g].conn \in PrivateConnections /\ lease[g].conn \in open
        BY <2>4 DEF IInv, LeaseOpen
      <3>2. lease[g].conn # ConnectionHash[m].conn
        BY <1>1, <3>1, ConstantAssumption DEF IInv, NoLeak, Cached, TypeOK
      <3> QED BY <1>3, <2>4, <3>1, <3>2
    <2> QED BY <2>2, <2>3, <2>4
  <1>9. BusyIffLeased'
    <2>1. ConnectionHash'[m].conn # None
      BY <1>4, ConstantAssumption
    <2> QED BY <1>1, <1>4, <1>5, <1>6, <2>1 DEF IInv, BusyIffLeased
  <1>10. NoLeak'
    BY <1>1, <1>3, <1>4, <1>5, <1>6, CachedAfter DEF IInv, NoLeak
  <1> QED BY <1>7, <1>8, <1>9, <1>10 DEF IInv

(* Leasing a free entry: its connection, new or old, has no other holder. *)
LEMMA LeaseCachedSafe ==
  ASSUME IInv, TypeOK', NEW h \in Holders, LeaseCached(h)
  PROVE  IInv'
  <1> DEFINE m == user[h].umid
  <1>1. m \in Mappings /\ user[h].options \in Versions /\ m # None
    BY DEF LeaseCached, IInv, TypeOK, UserMapping
  <1>2. PICK c \in Conns :
          /\ get_connection_entry(c, m, user[h].options)
          /\ ConnectionHash' = [ConnectionHash EXCEPT ![m] = EntryAfter(m, c, TRUE)]
          /\ lease' = [lease EXCEPT ![h] = NewLease(m, c)]
    BY DEF LeaseCached
  <1>3. /\ open' = (open \ {ConnectionHash[m].conn}) \cup {c}
        /\ c \notin PrivateConnections
        /\ \A n \in Mappings : n # m => ConnectionHash[n].conn # c
    BY <1>1, <1>2, EntryConnection
  <1>4. /\ ConnectionHash'[m].conn = c
        /\ ConnectionHash'[m].busy
        /\ \A n \in Mappings : n # m => ConnectionHash'[n] = ConnectionHash[n]
    BY <1>1, <1>2 DEF EntryAfter, IInv, TypeOK
  <1>5. /\ PrivateConnections' = PrivateConnections
        /\ lease_generation' = lease_generation
        /\ ~ConnectionHash[m].busy /\ ~lease[h].live
    BY DEF LeaseCached
  <1>6. /\ lease'[h] = NewLease(m, c)
        /\ \A g \in Holders : g # h => lease'[g] = lease[g]
    BY <1>2 DEF IInv, TypeOK
  <1>7. /\ ~Held(h) /\ Held(h)'
        /\ \A g \in Holders : g # h => (Held(g)' <=> Held(g))
        /\ lease'[h].entry = m /\ lease'[h].conn = c
        /\ lease'[h].generation = lease_generation
    BY <1>5, <1>6 DEF Held, NewLease
  <1>8. \A g \in Holders : Held(g) => lease[g].entry # m
    BY <1>1, <1>5 DEF IInv, BusyIffLeased
  <1>9. ASSUME NEW g \in Holders, Held(g)
        PROVE  /\ lease[g].conn \in open' /\ lease[g].conn # c
               /\ lease[g].entry # None => lease[g].entry \in Mappings
    <2>1. lease[g].conn \in open /\ lease[g].conn # None
      BY <1>9, ConstantAssumption DEF IInv, LeaseOpen, TypeOK
    <2>2. CASE lease[g].entry = None
      <3>1. lease[g].conn \in PrivateConnections
        BY <1>9, <2>2 DEF IInv, LeaseOpen
      <3>2. lease[g].conn # ConnectionHash[m].conn
        BY <1>1, <2>1, <3>1 DEF IInv, NoLeak, Cached
      <3> QED BY <1>3, <2>1, <2>2, <3>1, <3>2
    <2>3. CASE lease[g].entry # None
      <3>1. /\ lease[g].entry \in Mappings
            /\ lease[g].conn = ConnectionHash[lease[g].entry].conn
        BY <1>9, <2>3 DEF IInv, LeaseOpen, TypeOK, Lease
      <3>2. lease[g].conn # ConnectionHash[m].conn
        BY <1>1, <1>8, <1>9, <2>1, <3>1 DEF IInv, NoLeak
      <3> QED BY <1>3, <1>8, <1>9, <2>1, <3>1, <3>2
    <2> QED BY <2>2, <2>3
  <1>10. GenerationsPast'
    BY <1>5, <1>6, <1>7 DEF IInv, GenerationsPast, TypeOK
  <1>11. LeaseExclusive'
    BY <1>6, <1>7, <1>9 DEF IInv, LeaseExclusive
  <1>12. LeaseOpen'
    <2> SUFFICES ASSUME NEW g \in Holders, Held(g)'
                 PROVE  /\ lease'[g].conn \in open'
                        /\ IF lease'[g].entry = None
                           THEN lease'[g].conn \in PrivateConnections'
                           ELSE lease'[g].conn = ConnectionHash'[lease'[g].entry].conn
      BY DEF LeaseOpen
    <2>1. CASE g = h
      BY <1>1, <1>3, <1>4, <1>7, <2>1
    <2>2. CASE g # h
      BY <1>4, <1>5, <1>6, <1>7, <1>8, <1>9, <2>2 DEF IInv, LeaseOpen
    <2> QED BY <2>1, <2>2
  <1>13. BusyIffLeased'
    <2> SUFFICES ASSUME NEW n \in Mappings
                 PROVE  /\ ConnectionHash'[n].busy
                            <=> \E g \in Holders : Held(g)' /\ lease'[g].entry = n
                        /\ ConnectionHash'[n].busy => ConnectionHash'[n].conn # None
      BY DEF BusyIffLeased
    <2>1. CASE n = m
      BY <1>4, <1>7, <2>1, ConstantAssumption
    <2>2. CASE n # m
      BY <1>4, <1>6, <1>7, <2>2 DEF IInv, BusyIffLeased
    <2> QED BY <2>1, <2>2
  <1>14. NoLeak'
    <2>1. \A x \in PrivateConnections' :
            \E g \in Holders : Held(g)' /\ lease'[g].entry = None /\ lease'[g].conn = x
      BY <1>5, <1>6, <1>7 DEF IInv, NoLeak
    <2> QED BY <1>1, <1>3, <1>4, <1>5, <2>1, CachedAfter DEF NoLeak
  <1> QED BY <1>10, <1>11, <1>12, <1>13, <1>14 DEF IInv

(* Leasing a private connection: its address is not in use anywhere. *)
LEMMA LeasePrivateSafe ==
  ASSUME IInv, TypeOK', NEW h \in Holders, LeasePrivate(h)
  PROVE  IInv'
  <1> DEFINE m == user[h].umid
  <1>1. PICK c \in Conns :
          /\ clickhouse_connect(c, {}, m, user[h].options)
          /\ PrivateConnections' = PrivateConnections \cup {c}
          /\ lease' = [lease EXCEPT ![h] = NewLease(None, c)]
    BY DEF LeasePrivate, TrackPrivate
  <1>2. c \notin open /\ open' = open \cup {c}
    BY <1>1 DEF clickhouse_connect
  <1>3. /\ ConnectionHash' = ConnectionHash
        /\ lease_generation' = lease_generation
        /\ ~lease[h].live
    BY DEF LeasePrivate
  <1>4. /\ lease'[h] = NewLease(None, c)
        /\ \A g \in Holders : g # h => lease'[g] = lease[g]
    BY <1>1 DEF IInv, TypeOK
  <1>5. /\ ~Held(h) /\ Held(h)'
        /\ \A g \in Holders : g # h => (Held(g)' <=> Held(g))
        /\ lease'[h].entry = None /\ lease'[h].conn = c
        /\ lease'[h].generation = lease_generation
    BY <1>3, <1>4 DEF Held, NewLease
  <1>6. GenerationsPast'
    BY <1>3, <1>4, <1>5 DEF IInv, GenerationsPast, TypeOK
  <1>7. LeaseOpen'
    BY <1>1, <1>2, <1>3, <1>4, <1>5 DEF IInv, LeaseOpen
  <1>8. LeaseExclusive'
    BY <1>2, <1>4, <1>5 DEF IInv, LeaseExclusive, LeaseOpen
  <1>9. BusyIffLeased'
    BY <1>3, <1>4, <1>5, ConstantAssumption DEF IInv, BusyIffLeased
  <1>10. NoLeak'
    <2>1. Cached' = Cached /\ c \notin Cached
      BY <1>2, <1>3 DEF Cached, IInv, NoLeak
    <2>2. \A x \in PrivateConnections' :
            \E g \in Holders : Held(g)' /\ lease'[g].entry = None /\ lease'[g].conn = x
      BY <1>1, <1>4, <1>5 DEF IInv, NoLeak
    <2> QED BY <1>1, <1>2, <1>3, <2>1, <2>2 DEF IInv, NoLeak
  <1> QED BY <1>6, <1>7, <1>8, <1>9, <1>10 DEF IInv

(* A failed clickhouse_connect empties at most an entry that nobody holds. *)
LEMMA ConnectFailsSafe ==
  ASSUME IInv, TypeOK', NEW h \in Holders, ConnectFails(h)
  PROVE  IInv'
  <1> DEFINE m == user[h].umid
  <1>1. m \in Mappings
    BY DEF ConnectFails, IInv, TypeOK, UserMapping
  <1>2. /\ lease' = lease /\ lease_generation' = lease_generation
        /\ PrivateConnections' = PrivateConnections
    BY DEF ConnectFails
  <1>3. CASE ~Connects(m)
    <2>1. ConnectionHash' = ConnectionHash /\ open' = open
      BY <1>3 DEF ConnectFails, Connects, Discarded, IInv, TypeOK
    <2> QED BY <1>2, <2>1, Frame
  <1>4. CASE Connects(m)
    <2>1. /\ ConnectionHash'[m].conn = None
          /\ ConnectionHash'[m].busy = ConnectionHash[m].busy
          /\ \A n \in Mappings : n # m => ConnectionHash'[n] = ConnectionHash[n]
      BY <1>1, <1>4 DEF ConnectFails, EntryAfter, IInv, TypeOK
    <2>2. ~ConnectionHash[m].busy
      BY <1>1, <1>4 DEF Connects, Discards, IInv, BusyIffLeased
    <2>3. open' = open \ {ConnectionHash[m].conn}
      BY <1>4, ConstantAssumption
      DEF ConnectFails, Connects, Discarded, IInv, TypeOK
    <2>4. \A g \in Holders : Held(g)' <=> Held(g)
      BY <1>2 DEF Held
    <2>5. \A g \in Holders : Held(g) => lease[g].entry # m
      BY <1>1, <2>2 DEF IInv, BusyIffLeased
    <2>6. GenerationsPast' /\ LeaseExclusive'
      BY <1>2, <2>4 DEF IInv, GenerationsPast, LeaseExclusive
    <2>7. LeaseOpen'
      <3> SUFFICES ASSUME NEW g \in Holders, Held(g)
                   PROVE  /\ lease[g].conn \in open'
                          /\ IF lease[g].entry = None
                             THEN lease[g].conn \in PrivateConnections
                             ELSE lease[g].conn = ConnectionHash'[lease[g].entry].conn
        BY <1>2, <2>4 DEF LeaseOpen
      <3>1. lease[g].conn \in open /\ lease[g].conn # None
        BY ConstantAssumption DEF IInv, LeaseOpen, TypeOK
      <3>2. CASE lease[g].entry = None
        <4>1. lease[g].conn \in PrivateConnections
          BY <3>2 DEF IInv, LeaseOpen
        <4>2. lease[g].conn # ConnectionHash[m].conn
          BY <1>1, <3>1, <4>1 DEF IInv, NoLeak, Cached
        <4> QED BY <2>3, <3>1, <3>2, <4>1, <4>2
      <3>3. CASE lease[g].entry # None
        <4>1. /\ lease[g].entry \in Mappings
              /\ lease[g].conn = ConnectionHash[lease[g].entry].conn
          BY <3>3 DEF IInv, LeaseOpen, TypeOK, Lease
        <4>2. lease[g].conn # ConnectionHash[m].conn
          BY <1>1, <2>5, <3>1, <4>1 DEF IInv, NoLeak
        <4> QED BY <2>1, <2>3, <2>5, <3>1, <3>3, <4>1, <4>2
      <3> QED BY <3>2, <3>3
    <2>8. BusyIffLeased'
      BY <1>1, <1>2, <2>1, <2>2, <2>4 DEF IInv, BusyIffLeased
    <2>9. NoLeak'
      <3>1. /\ open = Cached \cup PrivateConnections
            /\ Cached \cap PrivateConnections = {}
            /\ \A k, n \in Mappings :
                  ConnectionHash[k].conn = ConnectionHash[n].conn
                    /\ ConnectionHash[k].conn # None => k = n
        BY DEF IInv, NoLeak
      <3>2. Cached' = Cached \ {ConnectionHash[m].conn}
        BY <1>1, <2>1, <3>1 DEF Cached
      <3>3. ConnectionHash[m].conn \notin PrivateConnections
        <4>1. CASE ConnectionHash[m].conn = None
          BY <4>1, ConstantAssumption DEF IInv, TypeOK
        <4>2. CASE ConnectionHash[m].conn # None
          BY <1>1, <3>1, <4>2 DEF Cached
        <4> QED BY <4>1, <4>2
      <3>4. open' = Cached' \cup PrivateConnections'
            /\ Cached' \cap PrivateConnections' = {}
        BY <1>2, <2>3, <3>1, <3>2, <3>3
      <3>5. \A x \in PrivateConnections' :
              \E g \in Holders : Held(g)' /\ lease'[g].entry = None /\ lease'[g].conn = x
        BY <1>2, <2>4 DEF IInv, NoLeak
      <3>6. \A k, n \in Mappings :
                  ConnectionHash'[k].conn = ConnectionHash'[n].conn
                    /\ ConnectionHash'[k].conn # None => k = n
        BY <1>1, <2>1, <3>1
      <3> QED BY <3>4, <3>5, <3>6 DEF NoLeak
    <2> QED BY <2>6, <2>7, <2>8, <2>9 DEF IInv
  <1> QED BY <1>3, <1>4

(* Releasing a lease of this transaction, whether its holder or the reset
   callback does it, and whether or not it was released before. *)
LEMMA UnleaseSafe ==
  ASSUME IInv, TypeOK', NEW h \in Holders,
         chfdw_release_scan_connection(lease[h]),
         lease[h].live, lease[h].generation = lease_generation,
         ~Held(h)', lease'[h].generation <= lease_generation,
         \A g \in Holders : g # h => lease'[g] = lease[g]
  PROVE  IInv'
  <1>1. lease_generation' = lease_generation
    BY DEF chfdw_release_scan_connection
  <1>2. \A g \in Holders : g # h => (Held(g)' <=> Held(g))
    BY <1>1 DEF Held
  <1>3. GenerationsPast' /\ LeaseExclusive'
    BY <1>1, <1>2 DEF IInv, GenerationsPast, LeaseExclusive
  <1>4. CASE lease[h].released
    <2>1. /\ ConnectionHash' = ConnectionHash
          /\ PrivateConnections' = PrivateConnections
          /\ open' = open
      BY <1>4 DEF chfdw_release_scan_connection, Unleases
    <2>2. ~Held(h)
      BY <1>4 DEF Held
    <2>3. LeaseOpen'
      BY <1>2, <2>1, <2>2 DEF IInv, LeaseOpen
    <2>4. BusyIffLeased'
      BY <1>2, <2>1, <2>2 DEF IInv, BusyIffLeased
    <2>5. NoLeak'
      BY <1>2, <2>1, <2>2 DEF IInv, NoLeak, Cached
    <2> QED BY <1>3, <2>3, <2>4, <2>5 DEF IInv
  <1>5. CASE ~lease[h].released /\ lease[h].entry # None
    <2> DEFINE m == lease[h].entry
    <2>1. Held(h) /\ m \in Mappings
      BY <1>5 DEF Held, IInv, TypeOK, Lease
    <2>2. /\ PrivateConnections' = PrivateConnections
          /\ open' = open
      BY <1>5 DEF chfdw_release_scan_connection, Unleases
    <2>3. ConnectionHash' = [ConnectionHash EXCEPT ![m].busy = FALSE]
      BY <1>5 DEF chfdw_release_scan_connection, Unleases
    <2>4. /\ \A n \in Mappings : ConnectionHash'[n].conn = ConnectionHash[n].conn
          /\ \A n \in Mappings : n # m => ConnectionHash'[n] = ConnectionHash[n]
          /\ ~ConnectionHash'[m].busy
      BY <2>1, <2>3 DEF IInv, TypeOK, Entry
    <2>5. \A g \in Holders : g # h /\ Held(g) => lease[g].entry # m
      BY <1>5, <2>1 DEF IInv, LeaseOpen, LeaseExclusive
    <2>6. LeaseOpen'
      BY <1>2, <2>2, <2>4 DEF IInv, LeaseOpen, TypeOK, Lease
    <2>7. BusyIffLeased'
      BY <1>2, <2>1, <2>4, <2>5 DEF IInv, BusyIffLeased
    <2>8. NoLeak'
      <3>1. Cached' = Cached
        BY <2>4 DEF Cached
      <3>2. \A x \in PrivateConnections' :
              \E g \in Holders : Held(g)' /\ lease'[g].entry = None /\ lease'[g].conn = x
        BY <1>2, <1>5, <2>2 DEF IInv, NoLeak
      <3> QED BY <2>2, <2>4, <3>1, <3>2 DEF IInv, NoLeak
    <2> QED BY <1>3, <2>6, <2>7, <2>8 DEF IInv
  <1>6. CASE ~lease[h].released /\ lease[h].entry = None
    <2> DEFINE c == lease[h].conn
    <2>1. Held(h) /\ c \in PrivateConnections
      BY <1>6 DEF Held, IInv, LeaseOpen
    <2>2. /\ ConnectionHash' = ConnectionHash
          /\ PrivateConnections' = PrivateConnections \ {c}
          /\ open' = open \ {c}
      BY <1>6, <2>1 DEF chfdw_release_scan_connection, Unleases
    <2>3. \A g \in Holders : g # h /\ Held(g) => lease[g].conn # c
      BY <2>1 DEF IInv, LeaseExclusive
    <2>4. LeaseOpen'
      BY <1>2, <2>2, <2>3 DEF IInv, LeaseOpen
    <2>5. BusyIffLeased'
      BY <1>2, <1>6, <2>2, ConstantAssumption DEF IInv, BusyIffLeased
    <2>6. NoLeak'
      <3>1. Cached' = Cached
        BY <2>2 DEF Cached
      <3>2. ASSUME NEW x \in PrivateConnections'
            PROVE  \E g \in Holders : Held(g)' /\ lease'[g].entry = None /\ lease'[g].conn = x
        BY <1>2, <2>2 DEF IInv, NoLeak
      <3>3. open' = Cached' \cup PrivateConnections' /\ Cached' \cap PrivateConnections' = {}
        BY <2>1, <2>2, <3>1 DEF IInv, NoLeak
      <3> QED BY <2>2, <3>2, <3>3 DEF IInv, NoLeak
    <2> QED BY <1>3, <2>4, <2>5, <2>6 DEF IInv
  <1> QED BY <1>4, <1>5, <1>6

(* The holder releases its lease, for the first time or again. *)
LEMMA ReleaseSafe ==
  ASSUME IInv, TypeOK', NEW h \in Holders, Release(h)
  PROVE  IInv'
  <1>1. /\ lease'[h].released
        /\ lease'[h].generation = lease[h].generation
        /\ \A g \in Holders : g # h => lease'[g] = lease[g]
    BY DEF Release, IInv, TypeOK, Lease
  <1>2. ~Held(h)' /\ lease'[h].generation <= lease_generation
    BY <1>1 DEF Held, IInv, GenerationsPast
  <1> QED BY <1>1, <1>2, UnleaseSafe DEF Release

(* The reset callback release_lease, in the transaction of the lease or after
   it, when the generation makes it do nothing. *)
LEMMA ResetCallbackSafe ==
  ASSUME IInv, TypeOK', NEW h \in Holders, release_lease(h)
  PROVE  IInv'
  <1>1. /\ lease'[h] = NoLease
        /\ \A g \in Holders : g # h => lease'[g] = lease[g]
    BY DEF release_lease, IInv, TypeOK
  <1>2. ~Held(h)' /\ lease'[h].generation <= lease_generation
    BY <1>1 DEF Held, NoLease, IInv, TypeOK
  <1>3. CASE OfThisTransaction(h)
    BY <1>1, <1>2, <1>3, UnleaseSafe DEF release_lease, OfThisTransaction
  <1>4. CASE ~OfThisTransaction(h)
    <2>1. /\ ConnectionHash' = ConnectionHash
          /\ PrivateConnections' = PrivateConnections
          /\ lease_generation' = lease_generation
          /\ open' = open
      BY <1>4 DEF release_lease, cacheVars, heapVars
    <2>2. ~Held(h)
      BY <1>4 DEF Held, OfThisTransaction
    <2>3. \A g \in Holders : Held(g)' <=> Held(g)
      <3>1. \A g \in Holders : g # h => (Held(g)' <=> Held(g))
        BY <1>1, <2>1 DEF Held
      <3> QED BY <1>2, <2>2, <3>1
    <2>4. GenerationsPast' /\ LeaseExclusive'
      BY <1>1, <1>2, <2>1, <2>2, <2>3 DEF IInv, GenerationsPast, LeaseExclusive
    <2>5. LeaseOpen'
      BY <1>1, <2>1, <2>2, <2>3 DEF IInv, LeaseOpen
    <2>6. BusyIffLeased'
      BY <1>1, <2>1, <2>2, <2>3 DEF IInv, BusyIffLeased
    <2>7. NoLeak'
      BY <1>1, <2>1, <2>2, <2>3 DEF IInv, NoLeak, Cached
    <2> QED BY <2>4, <2>5, <2>6, <2>7 DEF IInv
  <1> QED BY <1>3, <1>4

(* chfdw_xact_callback ends every lease by counting up lease_generation. *)
LEMMA XactEndSafe ==
  ASSUME IInv, TypeOK', chfdw_xact_callback
  PROVE  IInv'
  <1>1. /\ lease' = lease /\ lease_generation' = lease_generation + 1
        /\ PrivateConnections' = {}
        /\ open' = open \ (PrivateConnections \cup Expired)
    BY DEF chfdw_xact_callback
  <1>2. \A h \in Holders : ~Held(h)'
    BY <1>1 DEF Held, IInv, GenerationsPast, TypeOK, Lease
  <1>3. \A m \in Mappings :
          /\ ~ConnectionHash'[m].busy
          /\ ConnectionHash'[m].conn =
                IF ConnectionHash[m].invalidated THEN None ELSE ConnectionHash[m].conn
    BY DEF chfdw_xact_callback, EntryAtXactEnd, IInv, TypeOK, Entry
  <1>4. GenerationsPast'
    BY <1>1 DEF IInv, GenerationsPast, TypeOK, Lease
  <1>5. LeaseOpen' /\ LeaseExclusive'
    BY <1>2 DEF LeaseOpen, LeaseExclusive
  <1>6. BusyIffLeased'
    BY <1>2, <1>3 DEF BusyIffLeased
  <1>7. NoLeak'
    <2>1. /\ open = Cached \cup PrivateConnections
          /\ Cached \cap PrivateConnections = {}
          /\ \A k, n \in Mappings :
                ConnectionHash[k].conn = ConnectionHash[n].conn
                  /\ ConnectionHash[k].conn # None => k = n
      BY DEF IInv, NoLeak
    <2>2. Cached' = Cached \ Expired
      <3>1. ASSUME NEW x
            PROVE  x \in Cached' <=> x \in Cached /\ x \notin Expired
        <4>1. x \in Cached' <=> \E m \in Mappings : x = ConnectionHash'[m].conn /\ x # None
          BY DEF Cached
        <4>2. x \in Cached <=> \E m \in Mappings : x = ConnectionHash[m].conn /\ x # None
          BY DEF Cached
        <4>3. x \in Expired <=> \E m \in Mappings : /\ x = ConnectionHash[m].conn /\ x # None
                                                    /\ ConnectionHash[m].invalidated
          BY DEF Expired
        <4> QED BY <1>3, <2>1, <4>1, <4>2, <4>3
      <3> QED BY <3>1
    <2>3. open' = Cached' \cup PrivateConnections' /\ Cached' \cap PrivateConnections' = {}
      BY <1>1, <2>1, <2>2
    <2>4. \A k, n \in Mappings :
            ConnectionHash'[k].conn = ConnectionHash'[n].conn
              /\ ConnectionHash'[k].conn # None => k = n
      BY <1>3, <2>1
    <2> QED BY <1>1, <2>3, <2>4 DEF NoLeak
  <1> QED BY <1>4, <1>5, <1>6, <1>7 DEF IInv

(* Every step keeps the inductive invariant. *)
LEMMA StepSafe == IInv /\ [Next]_vars => IInv'
  <1> SUFFICES ASSUME IInv, [Next]_vars PROVE IInv'
    OBVIOUS
  <1>0. TypeOK'
    BY StepType DEF IInv
  <1>1. ASSUME NEW h \in Holders, NEW m \in Mappings, GetUserMapping(h, m)
        PROVE  IInv'
    BY <1>0, <1>1, Frame DEF GetUserMapping, cacheVars, heapVars
  <1>2. ASSUME NEW h \in Holders, LeaseCached(h) PROVE IInv'
    BY <1>0, <1>2, LeaseCachedSafe
  <1>3. ASSUME NEW h \in Holders, LeasePrivate(h) PROVE IInv'
    BY <1>0, <1>3, LeasePrivateSafe
  <1>4. ASSUME NEW h \in Holders, ConnectFails(h) PROVE IInv'
    BY <1>0, <1>4, ConnectFailsSafe
  <1>5. ASSUME NEW h \in Holders, chfdw_get_server_version(h) PROVE IInv'
    BY <1>0, <1>5, VersionSafe
  <1>6. ASSUME NEW h \in Holders, Release(h) PROVE IInv'
    BY <1>0, <1>6, ReleaseSafe
  <1>7. ASSUME NEW h \in Holders, release_lease(h) PROVE IInv'
    BY <1>0, <1>7, ResetCallbackSafe
  <1>8. ASSUME NEW s \in Servers, AlterServer(s) PROVE IInv'
    BY <1>0, <1>8, Frame DEF AlterServer, cacheVars, heapVars
  <1>9. ASSUME NEW m \in Mappings, AlterUserMapping(m) PROVE IInv'
    BY <1>0, <1>9, Frame DEF AlterUserMapping, cacheVars, heapVars
  <1>10. ASSUME NEW reset \in BOOLEAN, chfdw_inval_callback(reset) PROVE IInv'
    <2>1. \A m \in Mappings :
            /\ ConnectionHash'[m].conn = ConnectionHash[m].conn
            /\ ConnectionHash'[m].busy = ConnectionHash[m].busy
      BY <1>10 DEF chfdw_inval_callback, IInv, TypeOK, Entry
    <2> QED BY <1>0, <1>10, <2>1, Frame DEF chfdw_inval_callback, heapVars
  <1>11. CASE chfdw_xact_callback
    BY <1>0, <1>11, XactEndSafe
  <1>12. ASSUME NEW c \in Conns, MarkBroken(c) PROVE IInv'
    BY <1>0, <1>12, Frame DEF MarkBroken, cacheVars
  <1>13. CASE UNCHANGED vars
    BY <1>0, <1>13, Frame DEF vars
  <1> QED BY <1>1, <1>2, <1>3, <1>4, <1>5, <1>6, <1>7, <1>8, <1>9, <1>10,
             <1>11, <1>12, <1>13 DEF Next

(* The inductive invariant holds in every reachable state. *)
THEOREM InductiveInvariant == Spec => []IInv
  BY InitSafe, StepSafe, PTL DEF Spec

(* One query at a time per connection: no two holders ever rely on the same
   connection of chfdw_get_scan_connection. *)
THEOREM LeasesAreExclusive == Spec => []LeaseExclusive
  <1>1. IInv => LeaseExclusive
    BY DEF IInv
  <1> QED BY <1>1, InductiveInvariant, PTL

(* The busy marker of an entry says exactly whether the entry is leased. *)
THEOREM BusyIsAccurate == Spec => []BusyIffLeased
  <1>1. IInv => BusyIffLeased
    BY DEF IInv
  <1> QED BY <1>1, InductiveInvariant, PTL

(* No connection is leaked, shared between entries, or kept on
   PrivateConnections after its lease has ended. *)
THEOREM ConnectionsAreOwned == Spec => []NoLeak
  <1>1. IInv => NoLeak
    BY DEF IInv
  <1> QED BY <1>1, InductiveInvariant, PTL

(* What a holder uses is open, and known to the transaction-end cleanup. *)
THEOREM LeasedIsOpen == Spec => []LeaseOpen
  <1>1. IInv => LeaseOpen
    BY DEF IInv
  <1> QED BY <1>1, InductiveInvariant, PTL

(***************************************************************************)
(* Cached connections and the options they were built from.                *)
(***************************************************************************)
(* Steps that leave the connection and the mark of every entry alone, and that
   neither connect nor hear of a catalog change. *)
LEMMA FreshFrame ==
  ASSUME ServerOptionsFresh, built' = built, syscache' = syscache,
         \A m \in Mappings :
            /\ ConnectionHash'[m].conn = ConnectionHash[m].conn
            /\ ConnectionHash'[m].invalidated = ConnectionHash[m].invalidated
  PROVE  ServerOptionsFresh'
  BY DEF ServerOptionsFresh

(* get_connection_entry: a new connection is built from the options this
   backend knows of, at an address that no other entry refers to. *)
LEMMA FreshEntry ==
  ASSUME IInv, ServerOptionsFresh, NEW c \in Conns, NEW m \in Mappings,
         NEW o \in Versions, NEW b, get_connection_entry(c, m, o),
         ConnectionHash' = [ConnectionHash EXCEPT ![m] = EntryAfter(m, c, b)],
         syscache' = syscache
  PROVE  ServerOptionsFresh'
  <1>1. \A n \in Mappings : n # m => ConnectionHash[n].conn # c
    BY EntryConnection
  <1>2. /\ ConnectionHash'[m] = EntryAfter(m, c, b)
        /\ \A n \in Mappings : n # m => ConnectionHash'[n] = ConnectionHash[n]
    BY DEF IInv, TypeOK
  <1>3. CASE Connects(m)
    <2>1. built' = [built EXCEPT ![c] = [server |-> syscache.server[ServerOf[m]],
                                         mapping |-> o]]
      BY <1>3 DEF get_connection_entry, clickhouse_connect
    <2>2. /\ built'[c].server = syscache.server[ServerOf[m]]
          /\ \A d \in Conns : d # c => built'[d] = built[d]
      BY <2>1 DEF IInv, TypeOK
    <2>3. ConnectionHash'[m].conn = c
      BY <1>2 DEF EntryAfter
    <2>4. \A n \in Mappings : ConnectionHash[n].conn # None => ConnectionHash[n].conn \in Conns
      BY DEF IInv, TypeOK, Entry
    <2> QED BY <1>1, <1>2, <2>2, <2>3, <2>4 DEF ServerOptionsFresh
  <1>4. CASE ~Connects(m)
    <2>1. c = ConnectionHash[m].conn /\ built' = built
      BY <1>4 DEF get_connection_entry, heapVars
    <2>2. ConnectionHash'[m].conn = c
      BY <1>2 DEF EntryAfter
    <2>3. ConnectionHash'[m].invalidated = (~Connects(m) /\ ConnectionHash[m].invalidated)
      BY <1>2 DEF EntryAfter
    <2> QED BY <1>2, <1>4, <2>1, <2>2, <2>3 DEF ServerOptionsFresh
  <1> QED BY <1>3, <1>4

(* chfdw_release_scan_connection touches only "busy" of an entry. *)
LEMMA ReleaseKeepsEntries ==
  ASSUME TypeOK, NEW h \in Holders, chfdw_release_scan_connection(lease[h])
  PROVE  \A m \in Mappings :
            /\ ConnectionHash'[m].conn = ConnectionHash[m].conn
            /\ ConnectionHash'[m].invalidated = ConnectionHash[m].invalidated
  <1>1. lease[h].entry # None => lease[h].entry \in Mappings
    BY DEF TypeOK, Lease
  <1> QED BY <1>1 DEF TypeOK, Entry, chfdw_release_scan_connection

(* Every step keeps unmarked entries in line with the options of the server
   that this backend has been told of. *)
LEMMA StepFresh == IInv /\ ServerOptionsFresh /\ [Next]_vars => ServerOptionsFresh'
  <1> SUFFICES ASSUME IInv, ServerOptionsFresh, [Next]_vars
               PROVE  ServerOptionsFresh'
    OBVIOUS
  <1>0. TypeOK
    BY DEF IInv
  <1>1. ASSUME NEW h \in Holders, NEW m \in Mappings, GetUserMapping(h, m)
        PROVE  ServerOptionsFresh'
    BY <1>1, FreshFrame DEF GetUserMapping, cacheVars, heapVars, catVars
  <1>2. ASSUME NEW h \in Holders, LeaseCached(h) PROVE ServerOptionsFresh'
    <2> DEFINE m == user[h].umid
    <2>1. m \in Mappings /\ user[h].options \in Versions
      BY <1>0, <1>2 DEF LeaseCached, TypeOK, UserMapping
    <2>2. PICK c \in Conns :
            /\ get_connection_entry(c, m, user[h].options)
            /\ ConnectionHash' = [ConnectionHash EXCEPT ![m] = EntryAfter(m, c, TRUE)]
      BY <1>2 DEF LeaseCached
    <2>3. syscache' = syscache
      BY <1>2 DEF LeaseCached, catVars
    <2> QED BY <2>1, <2>2, <2>3, FreshEntry
  <1>3. ASSUME NEW h \in Holders, LeasePrivate(h) PROVE ServerOptionsFresh'
    <2> DEFINE m == user[h].umid
    <2>1. PICK c \in Conns : clickhouse_connect(c, {}, m, user[h].options)
      BY <1>3 DEF LeasePrivate
    <2>2. c \notin open /\ \A d \in Conns : d # c => built'[d] = built[d]
      BY <1>0, <2>1 DEF clickhouse_connect, TypeOK
    <2>3. \A n \in Mappings : ConnectionHash[n].conn # None =>
            ConnectionHash[n].conn \in open /\ ConnectionHash[n].conn \in Conns
      BY <1>0 DEF IInv, NoLeak, Cached, TypeOK
    <2>4. ConnectionHash' = ConnectionHash /\ syscache' = syscache
      BY <1>3 DEF LeasePrivate, catVars
    <2> QED BY <2>2, <2>3, <2>4 DEF ServerOptionsFresh
  <1>4. ASSUME NEW h \in Holders, ConnectFails(h) PROVE ServerOptionsFresh'
    <2> DEFINE m == user[h].umid
    <2>1. m \in Mappings
      BY <1>0, <1>4 DEF ConnectFails, TypeOK, UserMapping
    <2>2. /\ \A n \in Mappings : n # m => ConnectionHash'[n] = ConnectionHash[n]
          /\ \/ ConnectionHash'[m].conn = None
             \/ ConnectionHash'[m] = ConnectionHash[m]
      BY <1>0, <1>4, <2>1 DEF ConnectFails, TypeOK, EntryAfter
    <2>3. built' = built /\ syscache' = syscache
      BY <1>4 DEF ConnectFails, catVars
    <2> QED BY <2>2, <2>3 DEF ServerOptionsFresh
  <1>5. ASSUME NEW h \in Holders, chfdw_get_server_version(h)
        PROVE  ServerOptionsFresh'
    <2> DEFINE m == user[h].umid
    <2>1. m \in Mappings /\ user[h].options \in Versions
      BY <1>0, <1>5 DEF chfdw_get_server_version, TypeOK, UserMapping
    <2>2. PICK c \in Conns :
            /\ get_connection_entry(c, m, user[h].options)
            /\ ConnectionHash' = [ConnectionHash EXCEPT
                                    ![m] = EntryAfter(m, c, @.busy)]
      BY <1>5 DEF chfdw_get_server_version
    <2>3. ConnectionHash' = [ConnectionHash EXCEPT
                                ![m] = EntryAfter(m, c, ConnectionHash[m].busy)]
      BY <2>2
    <2>4. syscache' = syscache
      BY <1>5 DEF chfdw_get_server_version, catVars
    <2> QED BY <2>1, <2>2, <2>3, <2>4, FreshEntry
  <1>6. ASSUME NEW h \in Holders, Release(h) PROVE ServerOptionsFresh'
    BY <1>0, <1>6, ReleaseKeepsEntries, FreshFrame
    DEF Release, chfdw_release_scan_connection, catVars
  <1>7. ASSUME NEW h \in Holders, release_lease(h) PROVE ServerOptionsFresh'
    <2>1. CASE OfThisTransaction(h)
      BY <1>0, <1>7, <2>1, ReleaseKeepsEntries, FreshFrame
      DEF release_lease, chfdw_release_scan_connection, catVars
    <2>2. CASE ~OfThisTransaction(h)
      BY <1>7, <2>2, FreshFrame DEF release_lease, cacheVars, heapVars, catVars
    <2> QED BY <2>1, <2>2
  <1>8. ASSUME NEW s \in Servers, AlterServer(s) PROVE ServerOptionsFresh'
    BY <1>8, FreshFrame DEF AlterServer, cacheVars, heapVars
  <1>9. ASSUME NEW m \in Mappings, AlterUserMapping(m) PROVE ServerOptionsFresh'
    BY <1>9, FreshFrame DEF AlterUserMapping, cacheVars, heapVars
  <1>10. ASSUME NEW reset \in BOOLEAN, chfdw_inval_callback(reset)
         PROVE  ServerOptionsFresh'
    <2>1. built' = built /\ syscache' = catalog
      BY <1>10 DEF chfdw_inval_callback, heapVars
    <2>2. ASSUME NEW m \in Mappings, ConnectionHash'[m].conn # None,
                 ~ConnectionHash'[m].invalidated
          PROVE  /\ ConnectionHash'[m] = ConnectionHash[m]
                 /\ catalog.server[ServerOf[m]] = syscache.server[ServerOf[m]]
      BY <1>0, <1>10, <2>2 DEF chfdw_inval_callback, Affected, TypeOK, Entry
    <2> QED BY <2>1, <2>2 DEF ServerOptionsFresh
  <1>11. CASE chfdw_xact_callback
    <2>1. \A m \in Mappings :
            /\ ConnectionHash'[m].conn =
                  IF ConnectionHash[m].invalidated THEN None ELSE ConnectionHash[m].conn
            /\ ConnectionHash'[m].invalidated = ConnectionHash[m].invalidated
      BY <1>0, <1>11 DEF chfdw_xact_callback, EntryAtXactEnd, TypeOK, Entry
    <2>2. built' = built /\ syscache' = syscache
      BY <1>11 DEF chfdw_xact_callback, catVars
    <2> QED BY <2>1, <2>2 DEF ServerOptionsFresh
  <1>12. ASSUME NEW c \in Conns, MarkBroken(c) PROVE ServerOptionsFresh'
    BY <1>12, FreshFrame DEF MarkBroken, cacheVars, catVars
  <1>13. CASE UNCHANGED vars
    BY <1>13, FreshFrame DEF vars
  <1> QED BY <1>1, <1>2, <1>3, <1>4, <1>5, <1>6, <1>7, <1>8, <1>9, <1>10,
             <1>11, <1>12, <1>13 DEF Next

(* No cached connection outlives, unmarked, a change of its server's options
   that this backend has heard of (chfdw_inval_callback), whatever addresses
   connections are opened at. *)
THEOREM ServerOptionsStayFresh == Spec => []ServerOptionsFresh
  <1>1. Init => ServerOptionsFresh
    BY DEF Init, ServerOptionsFresh, Entry
  <1> QED BY <1>1, StepFresh, InductiveInvariant, PTL DEF Spec

(***************************************************************************)
(* Hand-outs.                                                              *)
(***************************************************************************)
(* A connection that get_connection_entry leaves in an idle entry is neither
   broken nor waiting to be remade. *)
LEMMA IdleEntryIsSound ==
  ASSUME TypeOK, NEW c \in Conns, NEW m \in Mappings, NEW o \in Versions, NEW b,
         get_connection_entry(c, m, o), ~ConnectionHash[m].busy
  PROVE  c \notin broken' /\ ~EntryAfter(m, c, b).invalidated
  <1>1. EntryAfter(m, c, b).invalidated
          = (~Connects(m) /\ ConnectionHash[m].invalidated)
    BY DEF EntryAfter
  <1>2. CASE Connects(m)
    BY <1>1, <1>2 DEF get_connection_entry, clickhouse_connect
  <1>3. CASE ~Connects(m)
    <2>1. c = ConnectionHash[m].conn /\ broken' = broken
      BY <1>3 DEF get_connection_entry, heapVars
    <2>2. ~ConnectionHash[m].invalidated /\ ConnectionHash[m].conn \notin broken
      BY <1>3 DEF Connects, Discards
    <2> QED BY <1>1, <2>1, <2>2
  <1> QED BY <1>2, <1>3

(* Only chfdw_get_scan_connection makes a holder: no other step gives a lease
   back its force, and those held before keep their connection. *)
LEMMA OnlyLeasingTakes ==
  ASSUME IInv, [Next]_vars, \A h \in Holders : ~LeaseCached(h) /\ ~LeasePrivate(h)
  PROVE  \A h \in Holders : Held(h)' => Held(h) /\ lease'[h].conn = lease[h].conn
  <1> DEFINE Kept == \A h \in Holders :
                        Held(h)' => Held(h) /\ lease'[h].conn = lease[h].conn
  <1>0. TypeOK
    BY DEF IInv
  <1>1. ASSUME lease' = lease, lease_generation' = lease_generation PROVE Kept
    BY <1>1 DEF Held
  <1>2. ASSUME NEW h \in Holders, NEW m \in Mappings, GetUserMapping(h, m) PROVE Kept
    BY <1>1, <1>2 DEF GetUserMapping, cacheVars
  <1>3. ASSUME NEW h \in Holders, ConnectFails(h) PROVE Kept
    BY <1>1, <1>3 DEF ConnectFails
  <1>4. ASSUME NEW h \in Holders, chfdw_get_server_version(h) PROVE Kept
    BY <1>1, <1>4 DEF chfdw_get_server_version
  <1>5. ASSUME NEW h \in Holders, Release(h) PROVE Kept
    <2>1. /\ lease'[h].released
          /\ \A g \in Holders : g # h => lease'[g] = lease[g]
          /\ lease_generation' = lease_generation
      BY <1>0, <1>5 DEF Release, chfdw_release_scan_connection, TypeOK, Lease
    <2> QED BY <2>1 DEF Held
  <1>6. ASSUME NEW h \in Holders, release_lease(h) PROVE Kept
    <2>1. lease'[h] = NoLease /\ \A g \in Holders : g # h => lease'[g] = lease[g]
      BY <1>0, <1>6 DEF release_lease, TypeOK
    <2>2. lease_generation' = lease_generation
      BY <1>6 DEF release_lease, chfdw_release_scan_connection, cacheVars
    <2> QED BY <2>1, <2>2 DEF Held, NoLease
  <1>7. ASSUME NEW s \in Servers, AlterServer(s) PROVE Kept
    BY <1>1, <1>7 DEF AlterServer, cacheVars
  <1>8. ASSUME NEW m \in Mappings, AlterUserMapping(m) PROVE Kept
    BY <1>1, <1>8 DEF AlterUserMapping, cacheVars
  <1>9. ASSUME NEW reset \in BOOLEAN, chfdw_inval_callback(reset) PROVE Kept
    BY <1>1, <1>9 DEF chfdw_inval_callback
  <1>10. CASE chfdw_xact_callback
    <2>1. lease' = lease /\ lease_generation' = lease_generation + 1
      BY <1>10 DEF chfdw_xact_callback
    <2> QED BY <1>0, <2>1 DEF Held, IInv, GenerationsPast, TypeOK, Lease
  <1>11. ASSUME NEW c \in Conns, MarkBroken(c) PROVE Kept
    BY <1>1, <1>11 DEF MarkBroken, cacheVars
  <1>12. CASE UNCHANGED vars
    BY <1>1, <1>12 DEF vars
  <1> QED BY <1>2, <1>3, <1>4, <1>5, <1>6, <1>7, <1>8, <1>9, <1>10, <1>11,
             <1>12 DEF Next

(* Nothing that an earlier statement broke and nothing that a catalog change
   marked is handed out (get_connection_entry, chfdw_get_scan_connection). *)
THEOREM HandoutsAreFresh == Spec => FreshHandout
  <1> DEFINE Fresh == \A h \in Holders : ~Held(h) /\ Held(h)' =>
        /\ lease'[h].conn \notin broken'
        /\ lease'[h].entry # None =>
            ~ConnectionHash'[lease'[h].entry].invalidated
  <1>1. ASSUME IInv, [Next]_vars PROVE [Fresh]_vars
    <2>0. TypeOK
      BY <1>1 DEF IInv
    <2>1. ASSUME NEW h \in Holders, LeaseCached(h) PROVE Fresh
      <3> DEFINE m == user[h].umid
      <3>1. /\ m \in Mappings /\ user[h].options \in Versions
            /\ ~ConnectionHash[m].busy
        BY <2>0, <2>1 DEF LeaseCached, TypeOK, UserMapping
      <3>2. PICK c \in Conns :
              /\ get_connection_entry(c, m, user[h].options)
              /\ ConnectionHash' = [ConnectionHash EXCEPT ![m] = EntryAfter(m, c, TRUE)]
              /\ lease' = [lease EXCEPT ![h] = NewLease(m, c)]
        BY <2>1 DEF LeaseCached
      <3>3. c \notin broken' /\ ~EntryAfter(m, c, TRUE).invalidated
        BY <2>0, <3>1, <3>2, IdleEntryIsSound
      <3>4. /\ ConnectionHash'[m] = EntryAfter(m, c, TRUE)
            /\ lease'[h].conn = c /\ lease'[h].entry = m
            /\ \A g \in Holders : g # h => lease'[g] = lease[g]
            /\ lease_generation' = lease_generation
        BY <2>0, <2>1, <3>1, <3>2 DEF LeaseCached, TypeOK, NewLease
      <3> QED BY <3>3, <3>4 DEF Held
    <2>2. ASSUME NEW h \in Holders, LeasePrivate(h) PROVE Fresh
      <3>1. PICK c \in Conns :
              /\ clickhouse_connect(c, {}, user[h].umid, user[h].options)
              /\ lease' = [lease EXCEPT ![h] = NewLease(None, c)]
        BY <2>2 DEF LeasePrivate
      <3>2. /\ lease'[h].conn = c /\ lease'[h].entry = None
            /\ \A g \in Holders : g # h => lease'[g] = lease[g]
            /\ lease_generation' = lease_generation
        BY <2>0, <2>2, <3>1 DEF LeasePrivate, TypeOK, NewLease
      <3> QED BY <3>1, <3>2 DEF Held, clickhouse_connect
    <2>3. CASE \A h \in Holders : ~LeaseCached(h) /\ ~LeasePrivate(h)
      BY <1>1, <2>3, OnlyLeasingTakes
    <2> QED BY <2>1, <2>2, <2>3
  <1>2. FreshHandout <=> [][Fresh]_vars
    BY DEF FreshHandout
  <1> QED BY <1>1, <1>2, InductiveInvariant, PTL DEF Spec

(***************************************************************************)
(* Refinement of ExclusiveLease.                                           *)
(***************************************************************************)
(* The connection of an entry that is not busy has no holder. *)
LEMMA IdleIsUnheld ==
  ASSUME IInv, NEW m \in Mappings, ~ConnectionHash[m].busy, NEW g \in Holders, Held(g)
  PROVE  lease[g].conn # ConnectionHash[m].conn
  <1>1. lease[g].conn \in open /\ lease[g].conn # None
    BY ConstantAssumption DEF IInv, LeaseOpen, TypeOK
  <1>2. lease[g].entry # m
    BY DEF IInv, BusyIffLeased
  <1>3. CASE lease[g].entry = None
    BY <1>1, <1>3 DEF IInv, LeaseOpen, NoLeak, Cached
  <1>4. CASE lease[g].entry # None
    BY <1>1, <1>2, <1>4 DEF IInv, LeaseOpen, NoLeak, TypeOK, Lease
  <1> QED BY <1>3, <1>4

(* What get_connection_entry throws away is held by nobody. *)
LEMMA DiscardedIsUnheld ==
  ASSUME IInv, NEW m \in Mappings, NEW g \in Holders, Held(g)
  PROVE  lease[g].conn \notin Discarded(m)
  <1>1. CASE Discards(m)
    BY <1>1, IdleIsUnheld DEF Discards, Discarded
  <1>2. CASE ~Discards(m)
    BY <1>2 DEF Discarded
  <1> QED BY <1>1, <1>2

(* No step disconnects a connection that is held before and after it. *)
LEMMA HeldStaysOpen ==
  ASSUME IInv, Next, NEW g \in Holders, Held(g), Held(g)'
  PROVE  lease'[g].conn = lease[g].conn /\ lease[g].conn \notin closed'
  <1> DEFINE Goal == lease'[g].conn = lease[g].conn /\ lease[g].conn \notin closed'
  <1>0. TypeOK
    BY DEF IInv
  <1>1. ASSUME NEW h \in Holders, NEW m \in Mappings, GetUserMapping(h, m) PROVE Goal
    BY <1>1 DEF GetUserMapping
  <1>2. ASSUME NEW h \in Holders, LeaseCached(h) PROVE Goal
    <2> DEFINE m == user[h].umid
    <2>1. m \in Mappings /\ g # h
      BY <1>0, <1>2 DEF LeaseCached, TypeOK, UserMapping, Held
    <2>2. PICK c \in Conns :
            /\ get_connection_entry(c, m, user[h].options)
            /\ lease' = [lease EXCEPT ![h] = NewLease(m, c)]
      BY <1>2 DEF LeaseCached
    <2>3. closed' = Discarded(m) \/ closed' = {}
      BY <2>2 DEF get_connection_entry, clickhouse_connect
    <2> QED BY <1>0, <2>1, <2>2, <2>3, DiscardedIsUnheld DEF TypeOK
  <1>3. ASSUME NEW h \in Holders, LeasePrivate(h) PROVE Goal
    <2>1. g # h
      BY <1>3 DEF LeasePrivate, Held
    <2>2. PICK c \in Conns :
            /\ clickhouse_connect(c, {}, user[h].umid, user[h].options)
            /\ lease' = [lease EXCEPT ![h] = NewLease(None, c)]
      BY <1>3 DEF LeasePrivate
    <2> QED BY <1>0, <2>1, <2>2 DEF clickhouse_connect, TypeOK
  <1>4. ASSUME NEW h \in Holders, ConnectFails(h) PROVE Goal
    <2>1. user[h].umid \in Mappings
      BY <1>0, <1>4 DEF ConnectFails, TypeOK, UserMapping
    <2> QED BY <1>4, <2>1, DiscardedIsUnheld DEF ConnectFails
  <1>5. ASSUME NEW h \in Holders, chfdw_get_server_version(h) PROVE Goal
    <2> DEFINE m == user[h].umid
    <2>1. m \in Mappings /\ lease' = lease
      BY <1>0, <1>5 DEF chfdw_get_server_version, TypeOK, UserMapping
    <2>2. closed' = Discarded(m) \/ closed' = {}
      BY <1>5 DEF chfdw_get_server_version, get_connection_entry, clickhouse_connect
    <2> QED BY <2>1, <2>2, DiscardedIsUnheld
  <1>6. ASSUME NEW h \in Holders, chfdw_release_scan_connection(lease[h]),
               lease[h].live, OfThisTransaction(h), g # h, lease'[g] = lease[g]
        PROVE  Goal
    <2>1. closed' \subseteq {lease[h].conn} /\ (closed' # {} => Held(h))
      BY <1>6 DEF chfdw_release_scan_connection, Unleases, Held, OfThisTransaction
    <2> QED BY <1>6, <2>1 DEF IInv, LeaseExclusive
  <1>7. ASSUME NEW h \in Holders, Release(h) PROVE Goal
    <2>1. g # h /\ lease'[g] = lease[g]
      BY <1>0, <1>7 DEF Release, Held, TypeOK, Lease
    <2> QED BY <1>6, <1>7, <2>1 DEF Release, OfThisTransaction
  <1>8. ASSUME NEW h \in Holders, release_lease(h) PROVE Goal
    <2>1. g # h /\ lease'[g] = lease[g]
      BY <1>0, <1>8 DEF release_lease, Held, TypeOK, NoLease
    <2>2. CASE OfThisTransaction(h)
      BY <1>6, <1>8, <2>1, <2>2 DEF release_lease
    <2>3. CASE ~OfThisTransaction(h)
      BY <1>8, <2>1, <2>3 DEF release_lease
    <2> QED BY <2>2, <2>3
  <1>9. ASSUME NEW s \in Servers, AlterServer(s) PROVE Goal
    BY <1>9 DEF AlterServer
  <1>10. ASSUME NEW m \in Mappings, AlterUserMapping(m) PROVE Goal
    BY <1>10 DEF AlterUserMapping
  <1>11. ASSUME NEW reset \in BOOLEAN, chfdw_inval_callback(reset) PROVE Goal
    BY <1>11 DEF chfdw_inval_callback
  <1>12. CASE chfdw_xact_callback
    <2>1. lease' = lease /\ lease_generation' = lease_generation + 1
      BY <1>12 DEF chfdw_xact_callback
    <2> QED BY <1>0, <2>1 DEF Held, IInv, GenerationsPast, TypeOK, Lease
  <1>13. ASSUME NEW c \in Conns, MarkBroken(c) PROVE Goal
    BY <1>13 DEF MarkBroken
  <1> QED BY <1>1, <1>2, <1>3, <1>4, <1>5, <1>7, <1>8, <1>9, <1>10, <1>11,
             <1>12, <1>13 DEF Next

(* Whatever the step, the connections held across it are not disturbed. *)
LEMMA StepUndisturbed ==
  ASSUME IInv, IInv', Next
  PROVE  Manager!Undisturbed
  <1>1. open' \subseteq Conns /\ closed' \subseteq Conns
    BY DEF IInv, TypeOK
  <1>2. ASSUME NEW h \in Holders, Held(h), Held(h)'
        PROVE  lease[h].conn \in open' \ closed'
    BY <1>2, HeldStaysOpen DEF IInv, LeaseOpen
  <1> QED BY <1>1, <1>2 DEF Manager!Undisturbed

(* chfdw_get_scan_connection, cached or private, is a Take. *)
LEMMA LeasingTakes ==
  ASSUME IInv, IInv', Next, NEW h \in Holders, NEW c \in Conns, NEW e,
         ~lease[h].live, lease' = [lease EXCEPT ![h] = NewLease(e, c)],
         lease_generation' = lease_generation
  PROVE  Manager!Take(h, c)
  <1>1. /\ lease'[h] = NewLease(e, c)
        /\ \A g \in Holders : g # h => lease'[g] = lease[g]
    BY DEF IInv, TypeOK
  <1>2. /\ ~Held(h) /\ Held(h)' /\ lease'[h].conn = c
        /\ \A g \in Holders : g # h => (Held(g)' <=> Held(g))
    BY <1>1 DEF Held, NewLease
  <1>3. \A g \in Holders : Held(g) => lease[g].conn # c
    BY <1>1, <1>2 DEF IInv, LeaseExclusive
  <1>4. c \in open' /\ c # None
    BY <1>2, ConstantAssumption DEF IInv, LeaseOpen
  <1> DEFINE held == [g \in Holders |-> IF Held(g) THEN lease[g].conn ELSE None]
  <1>5. held' = [held EXCEPT ![h] = c]
    <2>1. ASSUME NEW g \in Holders
          PROVE  (IF Held(g) THEN lease[g].conn ELSE None)'
                    = IF g = h THEN c ELSE IF Held(g) THEN lease[g].conn ELSE None
      BY <1>1, <1>2
    <2> QED BY <2>1
  <1>6. held[h] = None /\ \A g \in Holders : held[g] # c
    BY <1>2, <1>3, <1>4
  <1> HIDE DEF held
  <1> QED BY <1>4, <1>5, <1>6, StepUndisturbed DEF Manager!Take, held

(* Any other step is a GiveUp of the leases that it ends. *)
LEMMA OtherStepsGiveUp ==
  ASSUME IInv, IInv', Next, \A h \in Holders : ~LeaseCached(h) /\ ~LeasePrivate(h),
         NEW S \in SUBSET Holders, \A h \in Holders : h \in S <=> ~Held(h)'
  PROVE  Manager!GiveUp(S)
  <1>1. \A h \in Holders : Held(h)' => Held(h) /\ lease'[h].conn = lease[h].conn
    BY OnlyLeasingTakes
  <1> DEFINE held == [g \in Holders |-> IF Held(g) THEN lease[g].conn ELSE None]
  <1>2. held' = [h \in Holders |-> IF h \in S THEN None ELSE held[h]]
    BY <1>1
  <1> HIDE DEF held
  <1> QED BY <1>2, StepUndisturbed DEF Manager!GiveUp, held

(* Every step of the connection manager is a step of ExclusiveLease or leaves
   what it shows unchanged. *)
LEMMA StepSimulation ==
  ASSUME IInv, IInv', [Next]_vars
  PROVE  [Manager!Next]_(Manager!vars)
  <1>1. ASSUME Next, NEW h \in Holders, LeaseCached(h) PROVE Manager!Next
    <2>1. PICK c \in Conns : lease' = [lease EXCEPT ![h] = NewLease(user[h].umid, c)]
      BY <1>1 DEF LeaseCached
    <2>2. ~lease[h].live /\ lease_generation' = lease_generation
      BY <1>1 DEF LeaseCached
    <2>3. Manager!Take(h, c)
      BY <1>1, <2>1, <2>2, LeasingTakes
    <2> QED BY <2>3 DEF Manager!Next
  <1>2. ASSUME Next, NEW h \in Holders, LeasePrivate(h) PROVE Manager!Next
    <2>1. PICK c \in Conns : lease' = [lease EXCEPT ![h] = NewLease(None, c)]
      BY <1>2 DEF LeasePrivate
    <2>2. ~lease[h].live /\ lease_generation' = lease_generation
      BY <1>2 DEF LeasePrivate
    <2>3. Manager!Take(h, c)
      BY <1>2, <2>1, <2>2, LeasingTakes
    <2> QED BY <2>3 DEF Manager!Next
  <1>3. ASSUME Next, \A h \in Holders : ~LeaseCached(h) /\ ~LeasePrivate(h)
        PROVE  Manager!Next
    <2>1. PICK S \in SUBSET Holders : \A h \in Holders : h \in S <=> ~Held(h)'
      <3> DEFINE ended == {h \in Holders : ~(Held(h)')}
      <3>1. ended \in SUBSET Holders /\ \A h \in Holders : h \in ended <=> ~Held(h)'
        OBVIOUS
      <3> QED BY <3>1
    <2>2. Manager!GiveUp(S)
      BY <1>3, <2>1, OtherStepsGiveUp
    <2> QED BY <2>2 DEF Manager!Next
  <1>4. CASE UNCHANGED vars
    BY <1>4 DEF vars, Manager!vars, Held
  <1> QED BY <1>1, <1>2, <1>3, <1>4

(* The connection manager implements exclusive leasing: whatever cached and
   private connections, releases, context frees, reconnects and transaction
   ends do, its users see connections that have one holder each and that no
   step closes under the holder ("Wait until connection is no longer in use
   before closing it"). *)
THEOREM ManagerRefinesExclusiveLease == Spec => ImplementsExclusiveLease
  <1>1. Init => Manager!Init
    <2> SUFFICES ASSUME Init PROVE Manager!Init
      OBVIOUS
    <2>1. \A h \in Holders : ~Held(h)
      BY DEF Init, Held, NoLease
    <2> QED BY <2>1 DEF Init, Manager!Init
  <1>2. IInv /\ IInv' /\ [Next]_vars => [Manager!Next]_(Manager!vars)
    BY StepSimulation
  <1> QED BY <1>1, <1>2, InductiveInvariant, PTL
          DEF Spec, ImplementsExclusiveLease, Manager!Spec

-----------------------------------------------------------------------------
(***************************************************************************)
(* Statements on top of the manager                                        *)
(***************************************************************************)

(* Requests on a wire. *)
LEMMA SeqFacts ==
  ASSUME NEW S, NEW s \in Seq(S), NEW x \in S
  PROVE  /\ Append(s, x) \in Seq(S) /\ Append(s, x) # <<>>
         /\ Range(Append(s, x)) = Range(s) \cup {x}
         /\ s = <<>> => Len(Append(s, x)) = 1
         /\ s # <<>> => Tail(s) \in Seq(S) /\ Range(Tail(s)) \subseteq Range(s)
         /\ Len(s) = 1 => Tail(s) = <<>>
  <1>1. Range(Append(s, x)) = Range(s) \cup {x}
    <2>1. /\ DOMAIN Append(s, x) = 1 .. Len(s) + 1
          /\ DOMAIN s = 1 .. Len(s)
          /\ Append(s, x)[Len(s) + 1] = x
          /\ \A i \in 1 .. Len(s) : Append(s, x)[i] = s[i]
          /\ Len(s) \in Nat
      OBVIOUS
    <2>2. \A i \in 1 .. Len(s) + 1 : i \in 1 .. Len(s) \/ i = Len(s) + 1
      BY <2>1
    <2>3. Len(s) + 1 \in 1 .. Len(s) + 1 /\ \A i \in 1 .. Len(s) : i \in 1 .. Len(s) + 1
      BY <2>1
    <2> QED BY <2>1, <2>2, <2>3 DEF Range
  <1>2. ASSUME s # <<>> PROVE Range(Tail(s)) \subseteq Range(s)
    <2>1. /\ DOMAIN Tail(s) = 1 .. Len(s) - 1
          /\ DOMAIN s = 1 .. Len(s)
          /\ \A i \in 1 .. Len(s) - 1 : Tail(s)[i] = s[i + 1] /\ i + 1 \in 1 .. Len(s)
      BY <1>2
    <2> QED BY <2>1 DEF Range
  <1>3. Append(s, x) \in Seq(S) /\ Append(s, x) # <<>>
    BY AppendProperties
  <1>4. s = <<>> => Len(Append(s, x)) = 1
    OBVIOUS
  <1>5. s # <<>> => Tail(s) \in Seq(S)
    OBVIOUS
  <1>6. ASSUME Len(s) = 1 PROVE Tail(s) = <<>>
    <2>1. s # <<>>
      BY <1>6
    <2>2. Tail(s) \in Seq(S) /\ Len(Tail(s)) = 0
      BY <1>6, <2>1, HeadTailProperties
    <2> QED BY <2>2, EmptySeq
  <1> QED BY <1>1, <1>2, <1>3, <1>4, <1>5, <1>6

(* An empty wire has no requests. *)
LEMMA EmptyWire == Range(<<>>) = {}
  BY DEF Range

(***************************************************************************)
(* Steps of the connection manager.                                        *)
(***************************************************************************)
(* What get_connection_entry does to connections: those that go away are
   disconnected by the step, and the address it connects was unused. *)
LEMMA EntryHeap ==
  ASSUME IInv, NEW c \in Conns, NEW m \in Mappings, NEW o \in Versions,
         get_connection_entry(c, m, o)
  PROVE  /\ open \ open' \subseteq closed'
         /\ broken \ broken' \subseteq closed' \cup (Conns \ open)
         /\ c \in closed' \/ c \notin open \/ (c = ConnectionHash[m].conn /\ ~Connects(m))
  <1>1. CASE Connects(m)
    <2>1. /\ c \notin open \ Discarded(m)
          /\ open' = (open \ Discarded(m)) \cup {c}
          /\ broken' = broken \ (Discarded(m) \cup {c})
          /\ closed' = Discarded(m)
      BY <1>1 DEF get_connection_entry, clickhouse_connect
    <2> QED BY <2>1
  <1>2. CASE ~Connects(m)
    BY <1>2 DEF get_connection_entry, heapVars
  <1> QED BY <1>1, <1>2

(* A connection leaves "open", or loses its mark as broken, only by being
   disconnected or at an address that was not in use. *)
LEMMA ManagerHeap ==
  ASSUME IInv, Next
  PROVE  /\ open \ open' \subseteq closed'
         /\ broken \ broken' \subseteq closed' \cup (Conns \ open)
  <1> DEFINE Goal ==
         /\ open \ open' \subseteq closed'
         /\ broken \ broken' \subseteq closed' \cup (Conns \ open)
  <1>0. TypeOK
    BY DEF IInv
  <1>1. ASSUME NEW h \in Holders, NEW m \in Mappings, GetUserMapping(h, m) PROVE Goal
    BY <1>1 DEF GetUserMapping, heapVars
  <1>2. ASSUME NEW h \in Holders, LeaseCached(h) PROVE Goal
    <2> DEFINE m == user[h].umid
    <2>1. m \in Mappings /\ user[h].options \in Versions
      BY <1>0, <1>2 DEF LeaseCached, TypeOK, UserMapping
    <2>2. PICK c \in Conns : get_connection_entry(c, m, user[h].options)
      BY <1>2 DEF LeaseCached
    <2> QED BY <2>1, <2>2, EntryHeap
  <1>3. ASSUME NEW h \in Holders, LeasePrivate(h) PROVE Goal
    <2>1. PICK c \in Conns : clickhouse_connect(c, {}, user[h].umid, user[h].options)
      BY <1>3 DEF LeasePrivate
    <2> QED BY <2>1 DEF clickhouse_connect
  <1>4. ASSUME NEW h \in Holders, ConnectFails(h) PROVE Goal
    BY <1>4 DEF ConnectFails
  <1>5. ASSUME NEW h \in Holders, chfdw_get_server_version(h) PROVE Goal
    <2> DEFINE m == user[h].umid
    <2>1. m \in Mappings /\ user[h].options \in Versions
      BY <1>0, <1>5 DEF chfdw_get_server_version, TypeOK, UserMapping
    <2>2. PICK c \in Conns : get_connection_entry(c, m, user[h].options)
      BY <1>5 DEF chfdw_get_server_version
    <2> QED BY <2>1, <2>2, EntryHeap
  <1>6. ASSUME NEW h \in Holders, Release(h) PROVE Goal
    BY <1>6 DEF Release, chfdw_release_scan_connection
  <1>7. ASSUME NEW h \in Holders, release_lease(h) PROVE Goal
    <2>1. CASE OfThisTransaction(h)
      BY <1>7, <2>1 DEF release_lease, chfdw_release_scan_connection
    <2>2. CASE ~OfThisTransaction(h)
      BY <1>7, <2>2 DEF release_lease, heapVars
    <2> QED BY <2>1, <2>2
  <1>8. ASSUME NEW s \in Servers, AlterServer(s) PROVE Goal
    BY <1>8 DEF AlterServer, heapVars
  <1>9. ASSUME NEW m \in Mappings, AlterUserMapping(m) PROVE Goal
    BY <1>9 DEF AlterUserMapping, heapVars
  <1>10. ASSUME NEW reset \in BOOLEAN, chfdw_inval_callback(reset) PROVE Goal
    BY <1>10 DEF chfdw_inval_callback, heapVars
  <1>11. CASE chfdw_xact_callback
    BY <1>11 DEF chfdw_xact_callback
  <1>12. ASSUME NEW c \in Conns, MarkBroken(c) PROVE Goal
    BY <1>12 DEF MarkBroken
  <1> QED BY <1>1, <1>2, <1>3, <1>4, <1>5, <1>6, <1>7, <1>8, <1>9, <1>10,
             <1>11, <1>12 DEF Next

(* A connection that gets a holder was disconnected or unused before, or it
   was idle and sound; and a holder has no lease struct when it gets one. *)
LEMMA NewUse ==
  ASSUME IInv, Next, NEW g \in Holders, NEW d \in Conns, Uses(g, d)', ~Uses(g, d)
  PROVE  /\ ~lease[g].live
         /\ \/ d \in closed'
            \/ d \notin open
            \/ d \notin broken /\ \A k \in Holders : ~Uses(k, d)
  <1>0. TypeOK
    BY DEF IInv
  <1>1. ASSUME NEW h \in Holders, LeaseCached(h)
        PROVE  /\ ~lease[g].live
               /\ \/ d \in closed'
                  \/ d \notin open
                  \/ d \notin broken /\ \A k \in Holders : ~Uses(k, d)
    <2> DEFINE m == user[h].umid
    <2>1. /\ m \in Mappings /\ user[h].options \in Versions
          /\ ~ConnectionHash[m].busy /\ ~lease[h].live
          /\ lease_generation' = lease_generation
      BY <1>0, <1>1 DEF LeaseCached, TypeOK, UserMapping
    <2>2. PICK c \in Conns :
            /\ get_connection_entry(c, m, user[h].options)
            /\ lease' = [lease EXCEPT ![h] = NewLease(m, c)]
      BY <1>1 DEF LeaseCached
    <2>3. g = h /\ d = c
      BY <1>0, <2>1, <2>2 DEF Uses, Held, TypeOK, NewLease
    <2>4. c \in closed' \/ c \notin open \/ (c = ConnectionHash[m].conn /\ ~Connects(m))
      BY <2>1, <2>2, EntryHeap
    <2>5. ASSUME c = ConnectionHash[m].conn, ~Connects(m)
          PROVE  c \notin broken /\ \A k \in Holders : ~Uses(k, c)
      BY <2>1, <2>5, IdleIsUnheld DEF Connects, Discards, Uses
    <2> QED BY <2>1, <2>3, <2>4, <2>5
  <1>2. ASSUME NEW h \in Holders, LeasePrivate(h)
        PROVE  ~lease[g].live /\ d \notin open
    <2>1. PICK c \in Conns :
            /\ clickhouse_connect(c, {}, user[h].umid, user[h].options)
            /\ lease' = [lease EXCEPT ![h] = NewLease(None, c)]
      BY <1>2 DEF LeasePrivate
    <2>2. ~lease[h].live /\ lease_generation' = lease_generation
      BY <1>2 DEF LeasePrivate
    <2>3. g = h /\ d = c
      BY <1>0, <2>1, <2>2 DEF Uses, Held, TypeOK, NewLease
    <2> QED BY <2>1, <2>2, <2>3 DEF clickhouse_connect
  <1>3. CASE \A h \in Holders : ~LeaseCached(h) /\ ~LeasePrivate(h)
    BY <1>3, OnlyLeasingTakes DEF Uses
  <1> QED BY <1>1, <1>2, <1>3

(* A holder with nothing left to read or to finalize. *)
Quiet(h) == resp[h] = NoResp /\ (ins[h].live => ins[h].finalized)

(* ch_binary_close, by connection: what was on a connection that the step
   closes is gone, and the rest is as it was. *)
LEMMA CloseFacts ==
  ASSUME LifeTypeOK, closed' \subseteq Conns, ch_binary_close
  PROVE  /\ \A c \in Conns : wire'[c] = IF c \in closed' THEN <<>> ELSE wire[c]
         /\ \A h \in Holders :
              /\ resp'[h].conn = resp[h].conn /\ resp'[h].eos = resp[h].eos
              /\ resp'[h].dead <=> resp[h].dead \/ resp[h].conn \in closed'
              /\ resp[h] = NoResp => resp'[h] = NoResp
              /\ ins'[h].live = ins[h].live /\ ins'[h].finalized = ins[h].finalized
              /\ ins'[h].conn = IF ins[h].conn \in closed' THEN None ELSE ins[h].conn
         /\ \A h \in Holders, c \in Conns :
              InFlight(h, c)' <=> InFlight(h, c) /\ c \notin closed'
         /\ wire' \in [Conns -> Seq(Holders)]
         /\ resp' \in [Holders -> [conn : Conns \cup {None}, eos : BOOLEAN, dead : BOOLEAN]]
         /\ ins' \in [Holders -> [conn : Conns \cup {None}, live : BOOLEAN,
                                  finalized : BOOLEAN]]
  <1>1. /\ \A c \in Conns : wire'[c] = IF c \in closed' THEN <<>> ELSE wire[c]
        /\ wire' \in [Conns -> Seq(Holders)]
    <2>1. <<>> \in Seq(Holders)
      BY EmptySeq
    <2> QED BY <2>1 DEF ch_binary_close, LifeTypeOK
  <1>2. ASSUME NEW h \in Holders
        PROVE  /\ resp'[h].conn = resp[h].conn /\ resp'[h].eos = resp[h].eos
               /\ resp'[h].dead <=> resp[h].dead \/ resp[h].conn \in closed'
               /\ resp'[h] \in [conn : Conns \cup {None}, eos : BOOLEAN, dead : BOOLEAN]
    <2>1. resp'[h] = IF resp[h].conn \in closed'
                     THEN [resp[h] EXCEPT !.dead = TRUE] ELSE resp[h]
      BY DEF ch_binary_close
    <2>2. resp[h] \in [conn : Conns \cup {None}, eos : BOOLEAN, dead : BOOLEAN]
      BY DEF LifeTypeOK
    <2>3. CASE resp[h].conn \in closed'
      BY <2>1, <2>2, <2>3
    <2>4. CASE resp[h].conn \notin closed'
      BY <2>1, <2>2, <2>4
    <2> QED BY <2>3, <2>4
  <1>3. ASSUME NEW h \in Holders, resp[h] = NoResp PROVE resp'[h] = NoResp
    BY <1>3, ConstantAssumption DEF ch_binary_close, NoResp
  <1>4. ASSUME NEW h \in Holders
        PROVE  /\ ins'[h].live = ins[h].live /\ ins'[h].finalized = ins[h].finalized
               /\ ins'[h].conn = IF ins[h].conn \in closed' THEN None ELSE ins[h].conn
               /\ ins'[h] \in [conn : Conns \cup {None}, live : BOOLEAN,
                               finalized : BOOLEAN]
    <2>1. ins'[h] = IF ins[h].conn \in closed' THEN [ins[h] EXCEPT !.conn = None] ELSE ins[h]
      BY DEF ch_binary_close, DetachInsert
    <2> QED BY <2>1 DEF LifeTypeOK
  <1>5. ASSUME NEW h \in Holders, NEW c \in Conns
        PROVE  InFlight(h, c)' <=> InFlight(h, c) /\ c \notin closed'
    BY <1>2, <1>4, ConstantAssumption DEF InFlight
  <1>6. /\ resp' \in [Holders -> [conn : Conns \cup {None}, eos : BOOLEAN, dead : BOOLEAN]]
        /\ ins' \in [Holders -> [conn : Conns \cup {None}, live : BOOLEAN,
                                  finalized : BOOLEAN]]
    BY <1>2, <1>4 DEF ch_binary_close
  <1> QED BY <1>1, <1>2, <1>3, <1>4, <1>5, <1>6

(* A step of the manager keeps the invariant if a holder whose lease it ends
   is quiet, awaits the cleanup, or is a text query whose connection becomes
   tainted or is closed; and if none gets a lease during the cleanup. *)
LEMMA ManagedSafe ==
  ASSUME LifeInv, IInv', Next, ch_binary_close,
         tainted \ closed' \subseteq tainted', tainted' \subseteq Conns,
         faults' = faults,
         xact' = xact \/ (xact = "running" /\ xact' = "cleanup"),
         \A h \in Holders : Held(h) /\ ~Held(h)' =>
            \/ Passed(h)'
            \/ Quiet(h)
            \/ /\ h \in TextHolders
               /\ \A c \in Conns : InFlight(h, c) => c \in tainted' \cup closed',
         \A h \in Holders : ins[h].live /\ lease[h].live => lease'[h].live,
         xact = "running" \/ \A h \in Holders, c \in Conns : Uses(h, c)' => Uses(h, c)
  PROVE  LifeInv'
  <1>0. /\ closed' \subseteq Conns /\ None \notin closed'
        /\ None \notin Conns
    BY ConstantAssumption DEF IInv, TypeOK
  <1>1. /\ \A c \in Conns : wire'[c] = IF c \in closed' THEN <<>> ELSE wire[c]
        /\ \A h \in Holders :
              /\ resp'[h].conn = resp[h].conn /\ resp'[h].eos = resp[h].eos
              /\ resp'[h].dead <=> resp[h].dead \/ resp[h].conn \in closed'
              /\ resp[h] = NoResp => resp'[h] = NoResp
              /\ ins'[h].live = ins[h].live /\ ins'[h].finalized = ins[h].finalized
              /\ ins'[h].conn = IF ins[h].conn \in closed' THEN None ELSE ins[h].conn
        /\ \A h \in Holders, c \in Conns :
              InFlight(h, c)' <=> InFlight(h, c) /\ c \notin closed'
        /\ wire' \in [Conns -> Seq(Holders)]
        /\ resp' \in [Holders -> [conn : Conns \cup {None}, eos : BOOLEAN, dead : BOOLEAN]]
        /\ ins' \in [Holders -> [conn : Conns \cup {None}, live : BOOLEAN,
                                  finalized : BOOLEAN]]
    BY <1>0, CloseFacts DEF LifeInv
  <1>2. \A h \in Holders : Held(h) /\ Held(h)' =>
            lease'[h].conn = lease[h].conn /\ lease[h].conn \notin closed'
    BY HeldStaysOpen DEF LifeInv
  <1>3. /\ open \ open' \subseteq closed'
        /\ broken \ broken' \subseteq closed' \cup (Conns \ open)
        /\ \A h \in Holders : ins[h].live /\ lease[h].live => lease'[h].live
    BY ManagerHeap DEF LifeInv
  <1>4. LifeTypeOK'
    BY <1>1 DEF LifeInv, IInv, LifeTypeOK
  <1>5. KindsApart' /\ FlightHasConnection'
    <2>1. KindsApart'
      BY <1>1, KindAssumption DEF LifeInv, KindsApart
    <2>2. FlightHasConnection'
      BY <1>1 DEF LifeInv, FlightHasConnection
    <2> QED BY <2>1, <2>2
  <1>6. \A h \in Holders : Passed(h) => Passed(h)'
    BY DEF Passed
  <1>7. ResponseUnderLease'
    <2> SUFFICES ASSUME NEW h \in Holders \ TextHolders, resp'[h].conn # None
                 PROVE  \/ Held(h)' /\ lease'[h].conn = resp'[h].conn
                        \/ Passed(h)'
      BY DEF ResponseUnderLease, Passed
    <2>1. resp[h].conn # None /\ resp'[h].conn = resp[h].conn /\ ~Quiet(h)
      BY <1>1 DEF Quiet, NoResp
    <2>2. CASE Held(h) /\ lease[h].conn = resp[h].conn
      BY <1>2, <2>1, <2>2
    <2>3. CASE Passed(h)
      BY <1>6, <2>3
    <2> QED BY <2>1, <2>2, <2>3 DEF LifeInv, ResponseUnderLease, Passed
  <1>8. FlightUnderLease'
    <2> SUFFICES ASSUME NEW h \in Holders, NEW c \in Conns, InFlight(h, c)'
                 PROVE  Uses(h, c)' \/ Passed(h)' \/ c \in tainted'
      BY DEF FlightUnderLease
    <2>1. InFlight(h, c) /\ c \notin closed' /\ ~Quiet(h)
      BY <1>1, <1>0 DEF Quiet, NoResp, InFlight
    <2>2. CASE Uses(h, c)
      BY <1>2, <2>1, <2>2 DEF Uses
    <2>3. CASE Passed(h)
      BY <1>6, <2>3
    <2>4. CASE c \in tainted
      BY <2>1, <2>4
    <2> QED BY <2>1, <2>2, <2>3, <2>4 DEF LifeInv, FlightUnderLease
  <1>9. InsertsAttached'
    <2> SUFFICES ASSUME NEW h \in Holders, ins'[h].live
                 PROVE  /\ lease'[h].live
                        /\ ins'[h].conn # None => ins'[h].conn \in open'
                        /\ Held(h)' => ins'[h].conn = lease'[h].conn
      BY DEF InsertsAttached
    <2>1. /\ ins[h].live /\ lease[h].live
          /\ ins[h].conn # None => ins[h].conn \in open
          /\ Held(h) => ins[h].conn = lease[h].conn
      BY <1>1 DEF LifeInv, InsertsAttached
    <2>2. lease'[h].live
      BY <1>3, <2>1
    <2>3. ins'[h].conn # None => ins'[h].conn \in open'
      BY <1>1, <1>3, <2>1
    <2>4. ASSUME Held(h)' PROVE ins'[h].conn = lease'[h].conn
      <3>1. lease'[h].conn \in Conns
        BY <2>4 DEF IInv, LeaseOpen, TypeOK
      <3>2. Held(h)
        BY <2>1, <2>4, <3>1, NewUse DEF LifeInv, Uses
      <3> QED BY <1>1, <1>2, <2>1, <2>4, <3>2
    <2> QED BY <2>2, <2>3, <2>4
  <1>10. DeadAreLate'
    <2> SUFFICES ASSUME NEW h \in Holders, resp'[h].dead,
                        h \notin LateHolders \cup TextHolders
                 PROVE  FALSE
      BY DEF DeadAreLate
    <2>1. resp[h].conn \in closed'
      BY <1>1 DEF LifeInv, DeadAreLate
    <2>2. Held(h) /\ lease[h].conn = resp[h].conn
      BY <1>0, <2>1 DEF LifeInv, ResponseUnderLease
    <2>3. Held(h)'
      BY <1>0, <1>1, <1>7, <2>1 DEF ResponseUnderLease
    <2> QED BY <1>2, <2>1, <2>2, <2>3
  <1>11. NoUseAfterCloseButLate'
    BY DEF LifeInv, NoUseAfterCloseButLate
  <1>12. ClosedAreSilent'
    <2>1. ASSUME NEW c \in Conns, c \notin open' PROVE wire'[c] = <<>>
      <3>1. CASE c \in closed'
        BY <1>1, <3>1
      <3>2. CASE c \notin closed'
        BY <1>1, <1>3, <2>1, <3>2 DEF LifeInv, ClosedAreSilent
      <3> QED BY <3>1, <3>2
    <2> QED BY <2>1 DEF ClosedAreSilent
  <1>13. WireIsHolders'
    <2> SUFFICES ASSUME NEW c \in Conns, c \notin tainted'
                 PROVE  /\ \A x, y \in Range(wire'[c]) : x = y
                        /\ \A h \in Holders : Uses(h, c)' => Range(wire'[c]) \subseteq {h}
      BY DEF WireIsHolders
    <2>1. CASE c \in closed'
      BY <1>1, <2>1, EmptyWire
    <2>2. CASE c \notin closed'
      <3>1. c \notin tainted /\ wire'[c] = wire[c]
        BY <1>1, <2>2
      <3>2. ASSUME NEW h \in Holders, Uses(h, c)', ~Uses(h, c) PROVE wire[c] = <<>>
        <4>1. xact = "running"
          BY <3>2
        <4>2. c \notin open \/ (c \notin broken /\ \A k \in Holders : ~Uses(k, c))
          BY <2>2, <3>2, NewUse DEF LifeInv
        <4>3. CASE c \notin open
          BY <4>3 DEF LifeInv, ClosedAreSilent
        <4>4. CASE c \notin broken /\ \A k \in Holders : ~Uses(k, c)
          BY <3>1, <4>1, <4>4
          DEF LifeInv, WireAnswered, FlightUnderLease, Passed
        <4> QED BY <4>2, <4>3, <4>4
      <3> QED BY <3>1, <3>2, EmptyWire DEF LifeInv, WireIsHolders
    <2> QED BY <2>1, <2>2
  <1>14. WireAnswered'
    <2> SUFFICES ASSUME NEW c \in Conns, c \notin tainted' \cup broken', wire'[c] # <<>>
                 PROVE  Len(wire'[c]) = 1 /\ \E h \in Holders : InFlight(h, c)'
      BY DEF WireAnswered
    <2>1. c \notin closed' /\ wire'[c] = wire[c] /\ c \notin tainted
      BY <1>1
    <2>2. c \in open
      BY <2>1 DEF LifeInv, ClosedAreSilent
    <2>3. c \notin broken
      BY <1>3, <2>1, <2>2
    <2> QED BY <1>1, <2>1, <2>3 DEF LifeInv, WireAnswered
  <1> QED BY <1>4, <1>5, <1>7, <1>8, <1>9, <1>10, <1>11, <1>12, <1>13, <1>14
          DEF LifeInv

(***************************************************************************)
(* Steps of the driver.                                                    *)
(***************************************************************************)
(* What a step of the driver leaves alone, and the manager's invariant. *)
LEMMA DriverFrame ==
  ASSUME LifeInv, NEW h \in Holders, DriverStep(h), broken' \subseteq Conns
  PROVE  /\ IInv'
         /\ lease' = lease /\ lease_generation' = lease_generation
         /\ open' = open /\ tainted' = tainted /\ xact' = xact
         /\ \A g \in Holders : Held(g)' <=> Held(g)
         /\ \A g \in Holders : Passed(g)' <=> Passed(g)
         /\ \A g \in Holders, c \in Conns : Uses(g, c)' <=> Uses(g, c)
  <1>1. /\ lease' = lease /\ lease_generation' = lease_generation
        /\ open' = open /\ tainted' = tainted /\ xact' = xact
        /\ ConnectionHash' = ConnectionHash /\ PrivateConnections' = PrivateConnections
      BY DEF DriverStep, cacheVars
  <1>2. TypeOK'
    BY <1>1 DEF LifeInv, IInv, TypeOK, DriverStep, catVars
  <1>3. IInv'
    BY <1>1, <1>2, Frame DEF LifeInv
  <1> QED BY <1>1, <1>3 DEF Held, Passed, Uses

(* What a step of the driver for holder h must do: it touches the response and
   the INSERT of h only, ... *)
OwnStateOnly(h) ==
    /\ resp' \in [Holders -> [conn : Conns \cup {None}, eos : BOOLEAN, dead : BOOLEAN]]
    /\ ins' \in [Holders -> [conn : Conns \cup {None}, live : BOOLEAN,
                             finalized : BOOLEAN]]
    /\ \A g \in Holders : g # h => resp'[g] = resp[g] /\ ins'[g] = ins[g]

(* ... leaves a response that belongs to a query and to a lease, *)
ResponseFits(h) ==
    /\ h \in InsertHolders => resp'[h] = NoResp
    /\ resp'[h].conn # None /\ h \notin TextHolders =>
        (Held(h) /\ lease[h].conn = resp'[h].conn) \/ Passed(h)
    /\ resp'[h].dead => h \in LateHolders \cup TextHolders
    /\ ~resp'[h].eos => resp'[h].conn # None

(* and an INSERT whose connection is open and leased; *)
InsertFits(h) ==
    ins'[h].live =>
        /\ h \in InsertHolders /\ lease[h].live
        /\ ins'[h].conn # None => ins'[h].conn \in open
        /\ Held(h) => ins'[h].conn = lease[h].conn

(* and on each connection it leaves the wire alone, consumes the next reply, or
   sends, under the lease and with nothing of its own in flight there. *)
WireFits(h) ==
    /\ wire' \in [Conns -> Seq(Holders)]
    /\ \A c \in Conns :
        /\ InFlight(h, c)' => InFlight(h, c) \/ Uses(h, c)
        /\ \/ wire'[c] = wire[c] /\ (InFlight(h, c) => InFlight(h, c)' \/ c \in broken')
           \/ wire[c] # <<>> /\ wire'[c] = Tail(wire[c])
           \/ /\ wire'[c] = Append(wire[c], h) /\ xact = "running"
              /\ Uses(h, c) /\ ~InFlight(h, c) /\ InFlight(h, c)'

(* Such a step keeps the invariant. *)
LEMMA DriverSafe ==
  ASSUME LifeInv, NEW h \in Holders, DriverStep(h),
         broken \subseteq broken', broken' \subseteq Conns,
         OwnStateOnly(h), ResponseFits(h), InsertFits(h), WireFits(h),
         faults' \subseteq (LateHolders \cup TextHolders) \ InsertHolders
  PROVE  LifeInv'
  <1>1. /\ IInv'
        /\ lease' = lease /\ lease_generation' = lease_generation
        /\ open' = open /\ tainted' = tainted /\ xact' = xact
        /\ \A g \in Holders : Held(g)' <=> Held(g)
        /\ \A g \in Holders : Passed(g)' <=> Passed(g)
        /\ \A g \in Holders, c \in Conns : Uses(g, c)' <=> Uses(g, c)
    BY DriverFrame
  <1> USE DEF OwnStateOnly, ResponseFits, InsertFits, WireFits
  <1>2. \A g \in Holders, c \in Conns : g # h => (InFlight(g, c)' <=> InFlight(g, c))
    BY DEF InFlight
  <1>3. LifeTypeOK'
    BY <1>1, KindAssumption DEF LifeInv, LifeTypeOK, IInv
  <1>4. KindsApart' /\ FlightHasConnection'
    BY KindAssumption DEF LifeInv, KindsApart, FlightHasConnection
  <1>5. ResponseUnderLease'
    BY <1>1 DEF LifeInv, ResponseUnderLease, Passed
  <1>6. FlightUnderLease'
    BY <1>1, <1>2 DEF LifeInv, FlightUnderLease
  <1>7. InsertsAttached'
    BY <1>1 DEF LifeInv, InsertsAttached
  <1>8. DeadAreLate' /\ NoUseAfterCloseButLate'
    BY DEF LifeInv, DeadAreLate, NoUseAfterCloseButLate
  <1>9. ASSUME NEW c \in Conns
        PROVE  /\ wire[c] \in Seq(Holders)
               /\ Uses(h, c) => c \in open
               /\ Uses(h, c) => \A g \in Holders : Uses(g, c) => g = h
    BY DEF LifeInv, LifeTypeOK, Uses, IInv, LeaseOpen, LeaseExclusive
  <1>10. ClosedAreSilent'
    BY <1>1, <1>9 DEF LifeInv, ClosedAreSilent
  <1>11. WireIsHolders'
    <2> SUFFICES ASSUME NEW c \in Conns, c \notin tainted
                 PROVE  /\ \A x, y \in Range(wire'[c]) : x = y
                        /\ \A g \in Holders : Uses(g, c) => Range(wire'[c]) \subseteq {g}
      BY <1>1 DEF WireIsHolders
    <2>1. /\ \A x, y \in Range(wire[c]) : x = y
          /\ \A g \in Holders : Uses(g, c) => Range(wire[c]) \subseteq {g}
      BY DEF LifeInv, WireIsHolders
    <2>2. CASE wire'[c] = wire[c]
      BY <2>1, <2>2
    <2>3. CASE wire[c] # <<>> /\ wire'[c] = Tail(wire[c])
      <3>1. Range(wire'[c]) \subseteq Range(wire[c])
        BY <1>9, <2>3, SeqFacts
      <3> QED BY <2>1, <3>1
    <2>4. CASE wire'[c] = Append(wire[c], h) /\ Uses(h, c)
      <3>1. Range(wire'[c]) = Range(wire[c]) \cup {h}
        BY <1>9, <2>4, SeqFacts
      <3> QED BY <1>9, <2>1, <2>4, <3>1
    <2> QED BY <2>2, <2>3, <2>4
  <1>12. WireAnswered'
    <2> SUFFICES ASSUME NEW c \in Conns, c \notin tainted, c \notin broken', wire'[c] # <<>>
                 PROVE  Len(wire'[c]) = 1 /\ \E g \in Holders : InFlight(g, c)'
      BY <1>1 DEF WireAnswered
    <2>1. wire[c] # <<>> => Len(wire[c]) = 1 /\ \E g \in Holders : InFlight(g, c)
      BY DEF LifeInv, WireAnswered
    <2>2. CASE wire'[c] = wire[c] /\ (InFlight(h, c) => InFlight(h, c)' \/ c \in broken')
      BY <1>2, <2>1, <2>2
    <2>3. CASE wire[c] # <<>> /\ wire'[c] = Tail(wire[c])
      BY <1>9, <2>1, <2>3, SeqFacts
    <2>4. CASE /\ wire'[c] = Append(wire[c], h) /\ xact = "running"
               /\ Uses(h, c) /\ ~InFlight(h, c) /\ InFlight(h, c)'
      <3>1. wire[c] = <<>>
        BY <1>9, <2>1, <2>4 DEF LifeInv, FlightUnderLease, Passed
      <3> QED BY <1>9, <2>4, <3>1, SeqFacts
    <2> QED BY <2>2, <2>3, <2>4
  <1> QED BY <1>1, <1>3, <1>4, <1>5, <1>6, <1>7, <1>8, <1>10, <1>11, <1>12 DEF LifeInv

(* The connection of a holder whose code runs. *)
LEMMA ActiveFacts ==
  ASSUME LifeInv, NEW h \in Holders, Active(h)
  PROVE  /\ xact = "running" /\ Held(h) /\ lease[h].live
         /\ Connection(h) \in Conns /\ Connection(h) \in open
         /\ Uses(h, Connection(h))
  BY DEF Active, LifeInv, IInv, LeaseOpen, TypeOK, Connection, Uses, Held

(* The types of what the driver's steps change, by holder. *)
LEMMA LifeTypes ==
  ASSUME LifeInv
  PROVE  /\ broken \subseteq Conns /\ None \notin Conns
         /\ resp \in [Holders -> [conn : Conns \cup {None}, eos : BOOLEAN, dead : BOOLEAN]]
         /\ ins \in [Holders -> [conn : Conns \cup {None}, live : BOOLEAN,
                                 finalized : BOOLEAN]]
         /\ wire \in [Conns -> Seq(Holders)]
         /\ NoResp \in [conn : Conns \cup {None}, eos : BOOLEAN, dead : BOOLEAN]
         /\ NoInsert \in [conn : Conns \cup {None}, live : BOOLEAN, finalized : BOOLEAN]
         /\ faults \subseteq (LateHolders \cup TextHolders) \ InsertHolders
  BY ConstantAssumption
  DEF LifeInv, IInv, TypeOK, LifeTypeOK, NoResp, NoInsert, NoUseAfterCloseButLate

(* What the invariant says of the response and the INSERT of one holder. *)
LEMMA HolderFacts ==
  ASSUME LifeInv, NEW h \in Holders
  PROVE  /\ h \in InsertHolders => resp[h] = NoResp
         /\ resp[h].conn # None /\ h \notin TextHolders =>
              (Held(h) /\ lease[h].conn = resp[h].conn) \/ Passed(h)
         /\ resp[h].dead => h \in LateHolders \cup TextHolders
         /\ ins[h].live =>
              /\ h \in InsertHolders /\ lease[h].live
              /\ ins[h].conn # None => ins[h].conn \in open
              /\ Held(h) => ins[h].conn = lease[h].conn
         /\ resp[h] = NoResp => resp[h].conn = None
         /\ ~resp[h].eos => resp[h].conn # None
  <1>1. /\ h \in InsertHolders => resp[h] = NoResp
        /\ ins[h].live => h \in InsertHolders
    BY DEF LifeInv, KindsApart
  <1>2. resp[h].conn # None /\ h \notin TextHolders =>
              (Held(h) /\ lease[h].conn = resp[h].conn) \/ Passed(h)
    BY DEF LifeInv, ResponseUnderLease, Passed
  <1>3. resp[h].dead => h \in LateHolders \cup TextHolders
    BY DEF LifeInv, DeadAreLate
  <1>4. ins[h].live =>
              /\ lease[h].live
              /\ ins[h].conn # None => ins[h].conn \in open
              /\ Held(h) => ins[h].conn = lease[h].conn
    BY DEF LifeInv, InsertsAttached
  <1>5. resp[h] = NoResp => resp[h].conn = None
    BY DEF NoResp
  <1>6. ~resp[h].eos => resp[h].conn # None
    BY DEF LifeInv, FlightHasConnection
  <1> QED BY <1>1, <1>2, <1>3, <1>4, <1>5, <1>6

(* A response or an INSERT that the step leaves as it is, fits. *)
LEMMA Unchanged ==
  ASSUME LifeInv, NEW h \in Holders
  PROVE  /\ resp'[h].conn = resp[h].conn /\ resp'[h].dead = resp[h].dead
               /\ (resp[h].eos => resp'[h].eos)
               /\ (h \in InsertHolders => resp'[h] = NoResp) => ResponseFits(h)
         /\ ins'[h] = ins[h] => InsertFits(h)
  BY HolderFacts DEF ResponseFits, InsertFits

(* ch_binary_simple_query: the query joins an empty wire, or a broken one. *)
LEMMA SendQuerySafe ==
  ASSUME LifeInv, NEW h \in Holders, SendQuery(h)
  PROVE  LifeInv'
  <1> DEFINE c == Connection(h)
  <1>1. /\ xact = "running" /\ Held(h) /\ c \in Conns /\ Uses(h, c)
        /\ h \notin InsertHolders /\ resp[h] = NoResp
    BY ActiveFacts DEF SendQuery
  <1>2. /\ resp' = [resp EXCEPT ![h] = [conn |-> c, eos |-> FALSE, dead |-> FALSE]]
        /\ wire' = [wire EXCEPT ![c] = Append(@, h)]
        /\ broken' = broken /\ ins' = ins /\ faults' = faults /\ DriverStep(h)
    BY DEF SendQuery
  <1>3. ~ins[h].live
    BY <1>1, HolderFacts
  <1>4. /\ resp' \in [Holders -> [conn : Conns \cup {None}, eos : BOOLEAN, dead : BOOLEAN]]
        /\ resp'[h].conn = c /\ ~resp'[h].eos /\ ~resp'[h].dead
        /\ \A g \in Holders : g # h => resp'[g] = resp[g] /\ ins'[g] = ins[g]
    BY <1>1, <1>2, LifeTypes
  <1>5. /\ wire' \in [Conns -> Seq(Holders)]
        /\ wire'[c] = Append(wire[c], h)
        /\ \A d \in Conns : d # c => wire'[d] = wire[d]
    <2>1. wire[c] \in Seq(Holders)
      BY <1>1, LifeTypes
    <2>2. Append(wire[c], h) \in Seq(Holders)
      BY <2>1, SeqFacts
    <2> QED BY <1>1, <1>2, <2>2, LifeTypes
  <1>6. \A d \in Conns : ~InFlight(h, d) /\ (InFlight(h, d)' <=> d = c)
    BY <1>1, <1>2, <1>3, <1>4, LifeTypes DEF InFlight, NoResp
  <1>7. c = lease[h].conn
    BY DEF Connection
  <1>8. OwnStateOnly(h)
    BY <1>2, <1>4, LifeTypes DEF OwnStateOnly
  <1>9. ResponseFits(h) /\ InsertFits(h)
    BY <1>1, <1>2, <1>3, <1>4, <1>7, LifeTypes DEF ResponseFits, InsertFits
  <1>10. WireFits(h)
    BY <1>1, <1>5, <1>6 DEF WireFits
  <1> QED BY <1>2, <1>8, <1>9, <1>10, LifeTypes, DriverSafe

(* The query cannot be sent. *)
LEMMA SendQueryFailsSafe ==
  ASSUME LifeInv, NEW h \in Holders, SendQueryFails(h)
  PROVE  LifeInv'
  <1>1. Connection(h) \in Conns
    BY ActiveFacts DEF SendQueryFails
  <1>2. /\ broken' = broken \cup {Connection(h)}
        /\ resp' = resp /\ ins' = ins /\ wire' = wire /\ faults' = faults
        /\ DriverStep(h)
    BY DEF SendQueryFails
  <1>3. \A d \in Conns : InFlight(h, d)' <=> InFlight(h, d)
    BY <1>2 DEF InFlight
  <1>4. OwnStateOnly(h) /\ WireFits(h)
    BY <1>2, <1>3, LifeTypes DEF OwnStateOnly, WireFits
  <1>5. ResponseFits(h) /\ InsertFits(h)
    BY <1>2, Unchanged, HolderFacts
  <1> QED BY <1>1, <1>2, <1>4, <1>5, LifeTypes, DriverSafe

(* The response reads its reply to the end, *)
LEMMA ReadToEndSafe ==
  ASSUME LifeInv, NEW h \in Holders, ReadToEnd(h)
  PROVE  LifeInv'
  <1> DEFINE c == resp[h].conn
  <1>1. c \in Conns /\ wire[c] # <<>>
    BY LifeTypes DEF ReadToEnd
  <1>2. /\ wire' = [wire EXCEPT ![c] = Tail(@)]
        /\ resp' = [resp EXCEPT ![h].eos = TRUE]
        /\ broken' = broken /\ ins' = ins /\ faults' = faults /\ DriverStep(h)
    BY DEF ReadToEnd
  <1>3. /\ resp' \in [Holders -> [conn : Conns \cup {None}, eos : BOOLEAN, dead : BOOLEAN]]
        /\ resp'[h].conn = c /\ resp'[h].eos /\ resp'[h].dead = resp[h].dead
        /\ \A g \in Holders : g # h => resp'[g] = resp[g] /\ ins'[g] = ins[g]
    BY <1>1, <1>2, LifeTypes
  <1>4. h \notin InsertHolders
    BY <1>1, HolderFacts, LifeTypes
  <1>5. /\ wire' \in [Conns -> Seq(Holders)]
        /\ wire'[c] = Tail(wire[c])
        /\ \A d \in Conns : d # c => wire'[d] = wire[d]
    <2>1. wire[c] \in Seq(Holders)
      BY <1>1, LifeTypes
    <2>2. Tail(wire[c]) \in Seq(Holders)
      BY <1>1, <2>1, SeqFacts
    <2> QED BY <1>1, <1>2, <2>2, LifeTypes
  <1>6. \A d \in Conns : (InFlight(h, d)' => InFlight(h, d))
                         /\ (d # c => (InFlight(h, d)' <=> InFlight(h, d)))
    BY <1>2, <1>3 DEF InFlight
  <1>7. OwnStateOnly(h)
    BY <1>2, <1>3, LifeTypes DEF OwnStateOnly
  <1>8. ResponseFits(h) /\ InsertFits(h)
    BY <1>2, <1>3, <1>4, Unchanged
  <1>9. WireFits(h)
    BY <1>1, <1>5, <1>6 DEF WireFits
  <1> QED BY <1>2, <1>7, <1>8, <1>9, LifeTypes, DriverSafe

(* or fails, and the connection with it. *)
LEMMA ReadFailsSafe ==
  ASSUME LifeInv, NEW h \in Holders, ReadFails(h)
  PROVE  LifeInv'
  <1> DEFINE c == resp[h].conn
  <1>1. c \in Conns
    BY LifeTypes DEF ReadFails
  <1>2. /\ broken' = broken \cup {c}
        /\ resp' = [resp EXCEPT ![h].eos = TRUE]
        /\ wire' = wire /\ ins' = ins /\ faults' = faults /\ DriverStep(h)
    BY DEF ReadFails
  <1>3. /\ resp' \in [Holders -> [conn : Conns \cup {None}, eos : BOOLEAN, dead : BOOLEAN]]
        /\ resp'[h].conn = c /\ resp'[h].eos /\ resp'[h].dead = resp[h].dead
        /\ \A g \in Holders : g # h => resp'[g] = resp[g] /\ ins'[g] = ins[g]
    BY <1>1, <1>2, LifeTypes
  <1>4. h \notin InsertHolders
    BY <1>1, HolderFacts, LifeTypes
  <1>5. \A d \in Conns : (InFlight(h, d)' => InFlight(h, d))
                         /\ (InFlight(h, d) => InFlight(h, d)' \/ d \in broken')
    BY <1>2, <1>3 DEF InFlight
  <1>6. OwnStateOnly(h) /\ WireFits(h)
    BY <1>2, <1>3, <1>5, LifeTypes DEF OwnStateOnly, WireFits
  <1>7. ResponseFits(h) /\ InsertFits(h)
    BY <1>2, <1>3, <1>4, Unchanged
  <1> QED BY <1>1, <1>2, <1>6, <1>7, LifeTypes, DriverSafe

(* cursor_free: what is in flight is drained, or the connection given up. *)
LEMMA FreeResponseSafe ==
  ASSUME LifeInv, NEW h \in Holders, FreeResponse(h)
  PROVE  LifeInv'
  <1> DEFINE c == resp[h].conn
  <1>1. c \in Conns /\ h \notin InsertHolders
    BY LifeTypes, HolderFacts DEF FreeResponse
  <1>2. resp' = [resp EXCEPT ![h] = NoResp] /\ ins' = ins /\ DriverStep(h)
    BY DEF FreeResponse
  <1>3. /\ resp' \in [Holders -> [conn : Conns \cup {None}, eos : BOOLEAN, dead : BOOLEAN]]
        /\ resp'[h] = NoResp /\ resp'[h].conn = None /\ ~resp'[h].dead
        /\ resp'[h].eos
        /\ \A g \in Holders : g # h => resp'[g] = resp[g] /\ ins'[g] = ins[g]
    BY <1>1, <1>2, LifeTypes DEF NoResp
  <1>4. ~ins[h].live /\ ~ins'[h].live
    BY <1>1, <1>2, HolderFacts
  <1>5. \A d \in Conns :
          /\ ~InFlight(h, d)'
          /\ InFlight(h, d) <=> (d = c /\ ~resp[h].eos /\ ~resp[h].dead)
    BY <1>3, <1>4, LifeTypes DEF InFlight
  <1>6. /\ faults' \subseteq (LateHolders \cup TextHolders) \ InsertHolders
        /\ broken \subseteq broken' /\ broken' \subseteq Conns
        /\ wire' \in [Conns -> Seq(Holders)]
        /\ \A d \in Conns :
             \/ wire'[d] = wire[d] /\ (InFlight(h, d) => d \in broken')
             \/ wire[d] # <<>> /\ wire'[d] = Tail(wire[d])
    <2>1. CASE resp[h].dead
      BY <1>1, <1>5, <2>1, LifeTypes, HolderFacts DEF FreeResponse
    <2>2. CASE ~resp[h].dead
      <3>0. faults' = faults /\ drain_until_eos(h)
        BY <2>2 DEF FreeResponse
      <3>1. CASE resp[h].eos /\ UNCHANGED <<broken, wire>>
        BY <1>5, <3>0, <3>1, LifeTypes
      <3>2. CASE ~resp[h].eos /\ wire[c] # <<>> /\ UNCHANGED broken
                   /\ wire' = [wire EXCEPT ![c] = Tail(@)]
        <4>1. wire[c] \in Seq(Holders)
          BY <1>1, LifeTypes
        <4>2. Tail(wire[c]) \in Seq(Holders)
          BY <3>2, <4>1, HeadTailProperties
        <4> QED BY <1>1, <1>5, <3>0, <3>2, <4>2, LifeTypes
      <3>3. CASE ~resp[h].eos /\ broken' = broken \cup {c} /\ UNCHANGED wire
        BY <1>1, <1>5, <3>0, <3>3, LifeTypes
      <3> QED BY <3>0, <3>1, <3>2, <3>3 DEF drain_until_eos
    <2> QED BY <2>1, <2>2
  <1>7. OwnStateOnly(h) /\ WireFits(h)
    BY <1>2, <1>3, <1>5, <1>6, LifeTypes DEF OwnStateOnly, WireFits
  <1>8. ResponseFits(h) /\ InsertFits(h)
    BY <1>3, <1>4 DEF ResponseFits, InsertFits
  <1> QED BY <1>2, <1>6, <1>7, <1>8, DriverSafe

(* ch_binary_begin_insert: the INSERT joins an empty wire, or a broken one. *)
LEMMA BeginInsertSafe ==
  ASSUME LifeInv, NEW h \in Holders, BeginInsert(h)
  PROVE  LifeInv'
  <1> DEFINE c == Connection(h)
  <1>1. /\ xact = "running" /\ Held(h) /\ lease[h].live
        /\ c \in Conns /\ c \in open /\ Uses(h, c) /\ c = lease[h].conn
        /\ h \in InsertHolders /\ ~ins[h].live /\ resp[h] = NoResp
    BY ActiveFacts, HolderFacts DEF BeginInsert, Connection
  <1>2. /\ ins' = [ins EXCEPT ![h] = [conn |-> c, live |-> TRUE, finalized |-> FALSE]]
        /\ wire' = [wire EXCEPT ![c] = Append(@, h)]
        /\ broken' = broken /\ resp' = resp /\ faults' = faults /\ DriverStep(h)
    BY DEF BeginInsert
  <1>3. /\ ins' \in [Holders -> [conn : Conns \cup {None}, live : BOOLEAN,
                                 finalized : BOOLEAN]]
        /\ ins'[h].conn = c /\ ins'[h].live /\ ~ins'[h].finalized
        /\ \A g \in Holders : g # h => resp'[g] = resp[g] /\ ins'[g] = ins[g]
    BY <1>1, <1>2, LifeTypes
  <1>4. /\ wire' \in [Conns -> Seq(Holders)]
        /\ wire'[c] = Append(wire[c], h)
        /\ \A d \in Conns : d # c => wire'[d] = wire[d]
    <2>1. wire[c] \in Seq(Holders)
      BY <1>1, LifeTypes
    <2>2. Append(wire[c], h) \in Seq(Holders)
      BY <2>1, SeqFacts
    <2> QED BY <1>1, <1>2, <2>2, LifeTypes
  <1>5. \A d \in Conns : ~InFlight(h, d) /\ (InFlight(h, d)' <=> d = c)
    BY <1>1, <1>2, <1>3, LifeTypes DEF InFlight, NoResp
  <1>6. OwnStateOnly(h)
    BY <1>2, <1>3, LifeTypes DEF OwnStateOnly
  <1>7. ResponseFits(h) /\ InsertFits(h)
    BY <1>1, <1>2, <1>3, Unchanged DEF InsertFits
  <1>8. WireFits(h)
    BY <1>1, <1>4, <1>5 DEF WireFits
  <1> QED BY <1>2, <1>6, <1>7, <1>8, LifeTypes, DriverSafe

(* The INSERT cannot begin. *)
LEMMA BeginInsertFailsSafe ==
  ASSUME LifeInv, NEW h \in Holders, BeginInsertFails(h)
  PROVE  LifeInv'
  <1>1. Connection(h) \in Conns
    BY ActiveFacts DEF BeginInsertFails
  <1>2. /\ broken \subseteq broken' /\ broken' \subseteq Conns
        /\ resp' = resp /\ ins' = ins /\ wire' = wire /\ faults' = faults
        /\ DriverStep(h)
    BY <1>1, LifeTypes DEF BeginInsertFails
  <1>3. \A d \in Conns : InFlight(h, d)' <=> InFlight(h, d)
    BY <1>2 DEF InFlight
  <1>4. OwnStateOnly(h) /\ WireFits(h)
    BY <1>2, <1>3, LifeTypes DEF OwnStateOnly, WireFits
  <1>5. ResponseFits(h) /\ InsertFits(h)
    BY <1>2, Unchanged, HolderFacts
  <1> QED BY <1>2, <1>4, <1>5, LifeTypes, DriverSafe

(* ch_binary_finalize_insert: the reply is consumed, or the connection given
   up. *)
LEMMA FinalizeInsertSafe ==
  ASSUME LifeInv, NEW h \in Holders, FinalizeInsert(h)
  PROVE  LifeInv'
  <1> DEFINE c == ins[h].conn
  <1>1. /\ Held(h) /\ ins[h].live /\ c = lease[h].conn /\ c \in Conns
        /\ h \in InsertHolders /\ resp[h] = NoResp
    BY ActiveFacts, HolderFacts DEF FinalizeInsert, Connection
  <1>2. ins' = [ins EXCEPT ![h].finalized = TRUE]
        /\ resp' = resp /\ faults' = faults /\ DriverStep(h)
    BY DEF FinalizeInsert
  <1>3. /\ ins' \in [Holders -> [conn : Conns \cup {None}, live : BOOLEAN,
                                 finalized : BOOLEAN]]
        /\ ins'[h].conn = c /\ ins'[h].live /\ ins'[h].finalized
        /\ \A g \in Holders : g # h => resp'[g] = resp[g] /\ ins'[g] = ins[g]
    BY <1>1, <1>2, LifeTypes
  <1>4. \A d \in Conns : ~InFlight(h, d)' /\ (InFlight(h, d) => d = c)
    BY <1>1, <1>2, <1>3, LifeTypes DEF InFlight, NoResp
  <1>5. /\ broken \subseteq broken' /\ broken' \subseteq Conns
        /\ wire' \in [Conns -> Seq(Holders)]
        /\ \A d \in Conns :
             \/ wire'[d] = wire[d] /\ (InFlight(h, d) => d \in broken')
             \/ wire[d] # <<>> /\ wire'[d] = Tail(wire[d])
    <2>1. CASE wire[c] # <<>> /\ wire' = [wire EXCEPT ![c] = Tail(@)] /\ broken' = broken
      <3>1. wire[c] \in Seq(Holders)
        BY <1>1, LifeTypes
      <3>2. Tail(wire[c]) \in Seq(Holders)
        BY <2>1, <3>1, HeadTailProperties
      <3> QED BY <1>1, <1>4, <2>1, <3>2, LifeTypes
    <2>2. CASE broken' = broken \cup {c} /\ wire' = wire
      BY <1>1, <1>4, <2>2, LifeTypes
    <2> QED BY <2>1, <2>2 DEF FinalizeInsert
  <1>6. OwnStateOnly(h) /\ WireFits(h)
    BY <1>2, <1>3, <1>4, <1>5, LifeTypes DEF OwnStateOnly, WireFits
  <1>7. ResponseFits(h)
    BY <1>1, <1>2, Unchanged
  <1>8. InsertFits(h)
    BY <1>1, <1>3, HolderFacts DEF InsertFits
  <1> QED BY <1>2, <1>5, <1>6, <1>7, <1>8, LifeTypes, DriverSafe

(* ch_binary_release_insert: the INSERT still points to an open connection, or
   was detached from it; unfinished, it breaks the connection. *)
LEMMA ReleaseInsertSafe ==
  ASSUME LifeInv, NEW h \in Holders, ReleaseInsert(h)
  PROVE  LifeInv'
  <1> DEFINE c == ins[h].conn
  <1>1. /\ ins[h].live /\ (c # None => c \in open)
        /\ h \in InsertHolders /\ resp[h] = NoResp
    BY HolderFacts DEF ReleaseInsert
  <1>2. /\ ins' = [ins EXCEPT ![h] = NoInsert]
        /\ resp' = resp /\ wire' = wire /\ DriverStep(h)
    BY DEF ReleaseInsert
  <1>3. /\ ins' \in [Holders -> [conn : Conns \cup {None}, live : BOOLEAN,
                                 finalized : BOOLEAN]]
        /\ ~ins'[h].live
        /\ \A g \in Holders : g # h => resp'[g] = resp[g] /\ ins'[g] = ins[g]
    BY <1>1, <1>2, LifeTypes DEF NoInsert
  <1>4. \A d \in Conns :
          /\ ~InFlight(h, d)'
          /\ InFlight(h, d) => d = c /\ ~ins[h].finalized
    BY <1>1, <1>2, <1>3, LifeTypes DEF InFlight, NoResp
  <1>5. /\ faults' = faults
        /\ broken \subseteq broken' /\ broken' \subseteq Conns
        /\ \A d \in Conns : InFlight(h, d) => d \in broken'
    <2>0. open \subseteq Conns
      BY DEF LifeInv, IInv, TypeOK
    <2>1. CASE c = None
      BY <1>4, <2>1, LifeTypes DEF ReleaseInsert
    <2>2. CASE c # None
      BY <1>1, <1>4, <2>0, <2>2, LifeTypes DEF ReleaseInsert, BrokenByRelease
    <2> QED BY <2>1, <2>2
  <1>6. OwnStateOnly(h) /\ WireFits(h)
    BY <1>2, <1>3, <1>4, <1>5, LifeTypes DEF OwnStateOnly, WireFits
  <1>7. ResponseFits(h) /\ InsertFits(h)
    BY <1>1, <1>2, <1>3, Unchanged DEF InsertFits
  <1> QED BY <1>2, <1>5, <1>6, <1>7, LifeTypes, DriverSafe

(***************************************************************************)
(* Every step.                                                             *)
(***************************************************************************)
(* Steps of the manager that end no lease. *)
LEMMA ManageSafe ==
  ASSUME LifeInv, Manage(Next), lease_generation' = lease_generation,
         \A h \in Holders : lease[h].live => lease'[h] = lease[h]
  PROVE  LifeInv'
  <1>1. /\ xact = "running" /\ xact' = xact /\ faults' = faults
        /\ Next /\ ch_binary_close /\ tainted' = tainted \ closed'
    BY DEF Manage
  <1>2. IInv'
    BY <1>1, StepSafe DEF LifeInv
  <1>3. tainted' \subseteq Conns
    BY <1>1 DEF LifeInv, LifeTypeOK
  <1>4. \A h \in Holders : Held(h) => Held(h)'
    BY <1>1 DEF Held
  <1>5. \A h \in Holders : ins[h].live /\ lease[h].live => lease'[h].live
    BY <1>1
  <1> QED BY <1>1, <1>2, <1>3, <1>4, <1>5, ManagedSafe

(* Getting a lease, or not, touches no live lease. *)
LEMMA LeasingSafe ==
  ASSUME LifeInv, NEW h \in Holders,
         \/ \E m \in Mappings : Manage(GetUserMapping(h, m))
         \/ Manage(LeaseCached(h))
         \/ Manage(LeasePrivate(h))
         \/ Manage(ConnectFails(h))
         \/ Manage(chfdw_get_server_version(h))
  PROVE  LifeInv'
  <1>0. lease \in [Holders -> Lease]
    BY DEF LifeInv, IInv, TypeOK
  <1> DEFINE Safe == /\ Manage(Next) /\ lease_generation' = lease_generation
                     /\ \A g \in Holders : lease[g].live => lease'[g] = lease[g]
  <1>1. ASSUME NEW m \in Mappings, Manage(GetUserMapping(h, m)) PROVE Safe
    BY <1>1 DEF GetUserMapping, cacheVars, Manage, Next
  <1>2. ASSUME Manage(LeaseCached(h)) PROVE Safe
    <2>1. /\ LeaseCached(h) /\ Manage(Next)
      BY <1>2 DEF Manage, Next
    <2> QED BY <1>0, <2>1 DEF LeaseCached
  <1>3. ASSUME Manage(LeasePrivate(h)) PROVE Safe
    <2>1. /\ LeasePrivate(h) /\ Manage(Next)
      BY <1>3 DEF Manage, Next
    <2> QED BY <1>0, <2>1 DEF LeasePrivate
  <1>4. ASSUME Manage(ConnectFails(h)) PROVE Safe
    BY <1>4 DEF ConnectFails, Manage, Next
  <1>5. ASSUME Manage(chfdw_get_server_version(h)) PROVE Safe
    <2>1. chfdw_get_server_version(h) /\ Manage(Next)
      BY <1>5 DEF Manage, Next
    <2> QED BY <2>1 DEF chfdw_get_server_version
  <1>6. Safe
    BY <1>1, <1>2, <1>3, <1>4, <1>5
  <1> QED BY <1>6, ManageSafe

(* Neither does an invalidation. *)
LEMMA InvalSafe ==
  ASSUME LifeInv, NEW reset \in BOOLEAN, Manage(chfdw_inval_callback(reset))
  PROVE  LifeInv'
  <1>1. Manage(Next) /\ lease' = lease /\ lease_generation' = lease_generation
    BY DEF Manage, Next, chfdw_inval_callback
  <1> QED BY <1>1, ManageSafe

(* The holder's code gives the lease back: quiet, or as a text query that
   taints the connection of its unread reply. *)
LEMMA EndHolderSafe ==
  ASSUME LifeInv, NEW h \in Holders, EndHolder(h)
  PROVE  LifeInv'
  <1>1. /\ xact = "running" /\ xact' = xact /\ faults' = faults
        /\ Release(h) /\ ch_binary_close /\ ReadyToRelease(h)
        /\ tainted' = (tainted \cup IF h \in TextHolders /\ Held(h) /\ ~resp[h].eos
                                    THEN {resp[h].conn} ELSE {}) \ closed'
    BY DEF EndHolder
  <1>2. Next
    BY <1>1 DEF Next
  <1>3. IInv'
    BY <1>2, StepSafe DEF LifeInv
  <1>4. /\ \A g \in Holders : g # h => lease'[g] = lease[g]
        /\ \A g \in Holders : lease'[g].live = lease[g].live
        /\ lease_generation' = lease_generation
    BY <1>1 DEF LifeInv, IInv, TypeOK, Lease, Release, chfdw_release_scan_connection
  <1>5. tainted \ closed' \subseteq tainted' /\ tainted' \subseteq Conns
    <2>1. tainted \subseteq Conns
      BY DEF LifeInv, LifeTypeOK
    <2>2. ~resp[h].eos => resp[h].conn \in Conns
      BY HolderFacts, LifeTypes
    <2> QED BY <1>1, <2>1, <2>2
  <1>6. ASSUME h \in TextHolders, Held(h), NEW c \in Conns, InFlight(h, c)
        PROVE  c \in tainted' \cup closed'
    <2>1. ~ins[h].live
      BY <1>6, HolderFacts, KindAssumption
    <2>2. resp[h].conn = c /\ ~resp[h].eos
      BY <1>6, <2>1 DEF InFlight
    <2> QED BY <1>1, <1>6, <2>2
  <1>7. h \notin TextHolders => Quiet(h)
    BY <1>1 DEF ReadyToRelease, Quiet
  <1>8. \A g \in Holders : Held(g) /\ ~Held(g)' => g = h
    BY <1>4 DEF Held
  <1> QED BY <1>1, <1>2, <1>3, <1>4, <1>5, <1>6, <1>7, <1>8, ManagedSafe

(* The memory of the lease goes, cursor and INSERT before it. *)
LEMMA FreeLeaseSafe ==
  ASSUME LifeInv, NEW h \in Holders, FreeLease(h)
  PROVE  LifeInv'
  <1>1. /\ resp[h] = NoResp /\ ~ins[h].live /\ release_lease(h) /\ ch_binary_close
        /\ tainted' = tainted \ closed' /\ xact' = xact /\ faults' = faults
    BY DEF FreeLease
  <1>2. Next
    BY <1>1 DEF Next
  <1>3. IInv'
    BY <1>2, StepSafe DEF LifeInv
  <1>4. /\ \A g \in Holders : g # h => lease'[g] = lease[g]
        /\ lease'[h] = NoLease /\ ~Held(h)'
        /\ lease_generation' = lease_generation
    <2>1. lease \in [Holders -> Lease]
      BY DEF LifeInv, IInv, TypeOK
    <2>2. lease_generation' = lease_generation
      BY <1>1 DEF release_lease, chfdw_release_scan_connection, cacheVars
    <2> QED BY <1>1, <2>1, <2>2 DEF release_lease, Held, NoLease
  <1>5. \A g \in Holders : g # h => (Held(g)' <=> Held(g))
    BY <1>4 DEF Held
  <1>6. tainted' \subseteq Conns
    BY <1>1 DEF LifeInv, LifeTypeOK
  <1>7. Quiet(h)
    BY <1>1 DEF Quiet
  <1>8. \A g \in Holders, c \in Conns : Uses(g, c)' => Uses(g, c)
    BY <1>4, <1>5 DEF Uses
  <1> QED BY <1>1, <1>2, <1>3, <1>4, <1>5, <1>6, <1>7, <1>8, ManagedSafe

(* The transaction ends with late memory only. *)
LEMMA EndTransactionSafe ==
  ASSUME LifeInv, EndTransaction
  PROVE  LifeInv'
  <1>1. /\ xact = "running" /\ xact' = "cleanup" /\ faults' = faults
        /\ \A h \in Holders \ LateHolders : Gone(h)
        /\ chfdw_xact_callback /\ ch_binary_close /\ tainted' = tainted \ closed'
    BY DEF EndTransaction
  <1>2. Next
    BY <1>1 DEF Next
  <1>3. IInv'
    BY <1>2, StepSafe DEF LifeInv
  <1>4. lease' = lease
    BY <1>1 DEF chfdw_xact_callback
  <1>5. tainted' \subseteq Conns
    BY <1>1 DEF LifeInv, LifeTypeOK
  <1>6. \A h \in Holders : Held(h) => Passed(h)'
    BY <1>1 DEF Held, Gone, Passed
  <1> QED BY <1>1, <1>2, <1>3, <1>4, <1>5, <1>6, ManagedSafe

(* The next one starts with nothing left of it. *)
LEMMA StartTransactionSafe ==
  ASSUME LifeInv, StartTransaction
  PROVE  LifeInv'
  <1>1. /\ closed' = {} /\ xact' = "running"
        /\ \A h \in Holders : ~lease[h].live /\ resp[h] = NoResp /\ ~ins[h].live
        /\ resp' = resp /\ ins' = ins /\ wire' = wire /\ tainted' = tainted
        /\ faults' = faults /\ broken' = broken
    BY DEF StartTransaction, Gone, heapVars
  <1>2. /\ lease' = lease /\ lease_generation' = lease_generation /\ open' = open
        /\ ConnectionHash' = ConnectionHash /\ PrivateConnections' = PrivateConnections
    BY DEF StartTransaction, cacheVars, heapVars
  <1>3. TypeOK'
    BY <1>1, <1>2 DEF LifeInv, IInv, TypeOK, StartTransaction, catVars, heapVars
  <1>4. IInv'
    BY <1>2, <1>3, Frame DEF LifeInv
  <1>5. LifeTypeOK'
    BY <1>1, <1>3 DEF LifeInv, LifeTypeOK
  <1>6. /\ \A h \in Holders, c \in Conns : Uses(h, c)' <=> Uses(h, c)
        /\ \A h \in Holders, c \in Conns :
             (InFlight(h, c)' <=> InFlight(h, c)) /\ ~InFlight(h, c)
    BY <1>1, <1>2, ConstantAssumption DEF Uses, Held, InFlight, NoResp
  <1>7. KindsApart' /\ FlightHasConnection' /\ ResponseUnderLease' /\ DeadAreLate'
    <2>1. KindsApart' /\ FlightHasConnection' /\ DeadAreLate'
      BY <1>1 DEF KindsApart, FlightHasConnection, DeadAreLate, LifeInv
    <2>2. ResponseUnderLease'
      BY <1>1 DEF ResponseUnderLease, NoResp
    <2> QED BY <2>1, <2>2
  <1>8. FlightUnderLease' /\ InsertsAttached' /\ NoUseAfterCloseButLate'
    BY <1>1, <1>6 DEF FlightUnderLease, InsertsAttached, NoUseAfterCloseButLate, LifeInv
  <1>9. ClosedAreSilent' /\ WireIsHolders' /\ WireAnswered'
    BY <1>1, <1>2, <1>6 DEF ClosedAreSilent, WireIsHolders, WireAnswered, LifeInv
  <1> QED BY <1>4, <1>5, <1>7, <1>8, <1>9 DEF LifeInv

(* The invariant holds at the start. *)
LEMMA LifeInitSafe == LifeInit => LifeInv
  <1> SUFFICES ASSUME LifeInit PROVE LifeInv
    OBVIOUS
  <1>1. /\ Init /\ tainted = {} /\ xact = "running" /\ faults = {}
        /\ \A h \in Holders : resp[h] = NoResp /\ ins[h] = NoInsert
        /\ \A c \in Conns : wire[c] = <<>>
    BY DEF LifeInit
  <1>2. IInv
    BY <1>1, InitSafe
  <1>3. LifeTypeOK
    <2>1. <<>> \in Seq(Holders)
      BY EmptySeq
    <2>2. /\ NoResp \in [conn : Conns \cup {None}, eos : BOOLEAN, dead : BOOLEAN]
          /\ NoInsert \in [conn : Conns \cup {None}, live : BOOLEAN, finalized : BOOLEAN]
      BY DEF NoResp, NoInsert
    <2> QED BY <1>1, <1>2, <2>1, <2>2 DEF LifeInit, LifeTypeOK, IInv
  <1>4. \A h \in Holders, c \in Conns : ~InFlight(h, c)
    BY <1>1, ConstantAssumption DEF InFlight, NoResp, NoInsert
  <1>5. KindsApart /\ FlightHasConnection /\ ResponseUnderLease /\ DeadAreLate
    <2>1. \A h \in Holders : /\ resp[h].conn = None /\ resp[h].eos /\ ~resp[h].dead
                             /\ ~ins[h].live
      BY <1>1 DEF NoResp, NoInsert
    <2>2. KindsApart
      BY <1>1, <2>1, KindAssumption DEF KindsApart
    <2> QED BY <2>1, <2>2 DEF FlightHasConnection, ResponseUnderLease, DeadAreLate
  <1>6. FlightUnderLease /\ InsertsAttached /\ NoUseAfterCloseButLate
    BY <1>1, <1>4 DEF FlightUnderLease, InsertsAttached, NoUseAfterCloseButLate, NoInsert
  <1>7. ClosedAreSilent /\ WireIsHolders /\ WireAnswered
    BY <1>1, EmptyWire DEF ClosedAreSilent, WireIsHolders, WireAnswered
  <1> QED BY <1>2, <1>3, <1>5, <1>6, <1>7 DEF LifeInv

(* Every step keeps it. *)
LEMMA LifeStepSafe == LifeInv /\ [LifeNext]_lifeVars => LifeInv'
  <1> SUFFICES ASSUME LifeInv, [LifeNext]_lifeVars PROVE LifeInv'
    OBVIOUS
  <1>1. ASSUME NEW h \in Holders,
               \/ \E m \in Mappings : resp[h] = NoResp /\ Manage(GetUserMapping(h, m))
               \/ Manage(LeaseCached(h))
               \/ Manage(LeasePrivate(h))
               \/ Manage(ConnectFails(h))
               \/ Manage(chfdw_get_server_version(h))
        PROVE  LifeInv'
    BY <1>1, LeasingSafe
  <1>2. ASSUME NEW h \in Holders,
               SendQuery(h) \/ SendQueryFails(h) \/ ReadToEnd(h) \/ ReadFails(h)
                 \/ FreeResponse(h)
        PROVE  LifeInv'
    BY <1>2, SendQuerySafe, SendQueryFailsSafe, ReadToEndSafe, ReadFailsSafe,
       FreeResponseSafe
  <1>3. ASSUME NEW h \in Holders,
               BeginInsert(h) \/ BeginInsertFails(h) \/ FinalizeInsert(h)
                 \/ ReleaseInsert(h)
        PROVE  LifeInv'
    BY <1>3, BeginInsertSafe, BeginInsertFailsSafe, FinalizeInsertSafe, ReleaseInsertSafe
  <1>4. ASSUME NEW h \in Holders, EndHolder(h) \/ FreeLease(h) PROVE LifeInv'
    BY <1>4, EndHolderSafe, FreeLeaseSafe
  <1>5. ASSUME NEW reset \in BOOLEAN, Manage(chfdw_inval_callback(reset)) PROVE LifeInv'
    BY <1>5, InvalSafe
  <1>6. CASE EndTransaction \/ StartTransaction
    BY <1>6, EndTransactionSafe, StartTransactionSafe
  <1>7. CASE UNCHANGED lifeVars
    <2>1. /\ UNCHANGED vars /\ resp' = resp /\ ins' = ins /\ wire' = wire
          /\ tainted' = tainted /\ xact' = xact /\ faults' = faults
      BY <1>7 DEF lifeVars, scanVars
    <2>2. IInv'
      BY <2>1, StepSafe DEF LifeInv
    <2>3. /\ lease' = lease /\ lease_generation' = lease_generation /\ open' = open
          /\ broken' = broken
      BY <2>1 DEF vars
    <2>4. LifeTypeOK'
      BY <2>1, <2>2 DEF LifeInv, LifeTypeOK, IInv
    <2>5. /\ \A h \in Holders, c \in Conns : Uses(h, c)' <=> Uses(h, c)
          /\ \A h \in Holders, c \in Conns : InFlight(h, c)' <=> InFlight(h, c)
          /\ \A h \in Holders : (Held(h)' <=> Held(h)) /\ (Passed(h)' <=> Passed(h))
      BY <2>1, <2>3 DEF Uses, Held, InFlight, Passed
    <2>6. KindsApart' /\ FlightHasConnection' /\ ResponseUnderLease' /\ DeadAreLate'
      BY <2>1, <2>3, <2>5
      DEF LifeInv, KindsApart, FlightHasConnection, ResponseUnderLease, DeadAreLate
    <2>7. FlightUnderLease' /\ InsertsAttached' /\ NoUseAfterCloseButLate'
      BY <2>1, <2>3, <2>5
      DEF LifeInv, FlightUnderLease, InsertsAttached, NoUseAfterCloseButLate
    <2>8. ClosedAreSilent' /\ WireIsHolders' /\ WireAnswered'
      BY <2>1, <2>3, <2>5 DEF LifeInv, ClosedAreSilent, WireIsHolders, WireAnswered
    <2> QED BY <2>2, <2>4, <2>6, <2>7, <2>8 DEF LifeInv
  <1> QED BY <1>1, <1>2, <1>3, <1>4, <1>5, <1>6, <1>7 DEF LifeNext

(***************************************************************************)
(* The theorems.                                                           *)
(***************************************************************************)
(* The inductive invariant holds, whatever the statements, their failures, the
   invalidations and the ends of transactions do to each other. *)
THEOREM LifeInvariant == LifeSpec => []LifeInv
  BY LifeInitSafe, LifeStepSafe, PTL DEF LifeSpec

(* One query at a time per connection: for any number of holders, two of them
   never have unanswered requests on a connection, unless a failed
   chfdw_run_text_query gave it back with its reply unread. *)
THEOREM OneHolderPerWire == LifeSpec => []OneHolderInFlight
  <1>1. ASSUME LifeInv PROVE OneHolderInFlight
    <2> SUFFICES ASSUME NEW c \in Conns, c \notin tainted
                 PROVE  Cardinality(Range(wire[c])) <= 1
      BY DEF OneHolderInFlight
    <2>1. \A x, y \in Range(wire[c]) : x = y
      BY <1>1 DEF LifeInv, WireIsHolders
    <2>2. CASE Range(wire[c]) = {}
      BY <2>2, FS_EmptySet
    <2>3. ASSUME NEW x \in Range(wire[c]) PROVE Cardinality(Range(wire[c])) <= 1
      <3>1. Range(wire[c]) = {x}
        BY <2>1, <2>3
      <3>2. Cardinality({x}) = 1
        BY FS_Singleton
      <3> QED BY <3>1, <3>2
    <2> QED BY <2>2, <2>3
  <1> QED BY <1>1, LifeInvariant, PTL

(* From the moment a query is sent until its response is freed, its connection
   is leased to its holder (failed text queries and the cleanup of an aborted
   transaction aside). *)
THEOREM ResponsesAreLeased == LifeSpec => []ResponseUnderLease
  <1>1. LifeInv => ResponseUnderLease
    BY DEF LifeInv
  <1> QED BY <1>1, LifeInvariant, PTL

(* No INSERT touches a connection after it was closed, and no query whose
   memory goes before the transaction callbacks does. *)
THEOREM ClosedStaysUntouched == LifeSpec => []NoUseAfterCloseButLate
  <1>1. LifeInv => NoUseAfterCloseButLate
    BY DEF LifeInv
  <1> QED BY <1>1, LifeInvariant, PTL
=============================================================================
