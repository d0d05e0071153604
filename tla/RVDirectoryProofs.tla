-------------------------- MODULE RVDirectoryProofs -------------------------
(***************************************************************************)
(* The rendezvous server implements NodeDirectory for every set of nodes,   *)
(* connections, hosts and frames: its initial state maps to an initial state*)
(* of the directory, and each of its steps to a step or to no change.       *)
(***************************************************************************)
EXTENDS RVDirectory, RVServerProofs

\* What the proof of a step needs to know of the state it starts from.
DirInv == TypeOK /\ CountersMatch /\ AddrInv

\* An entry of the registry as the directory lists it.
LEMMA EntryFacts ==
    ASSUME NEW p \in Proxy
    PROVE  /\ EntryOf(p) # Unlisted
           /\ EntryOf(p).kind = <<p.role, p.auth>> /\ EntryOf(p).addr = p.addr
           /\ EntryOf(p).pinned = p.manual /\ EntryOf(p).age = p.age
<1>1. /\ p.role \in Role /\ p.auth \in AuthMode /\ p.addr \in Addr
      /\ p.manual \in BOOLEAN /\ p.age \in 0..MaxAge
  BY DEF Proxy
<1>2. EntryOf(p) \in [kind : Role \X AuthMode, addr : Addr, pinned : BOOLEAN, age : 0..MaxAge]
  BY <1>1 DEF EntryOf
<1> QED
  BY <1>2, UnlistedAssumption DEF EntryOf

\* The counters are a scan of the listed entries.
LEMMA ScanIsCount == TypeOK /\ CountersMatch => cnt = Dir!Scan(EntryMap)
<1> SUFFICES ASSUME TypeOK, CountersMatch PROVE cnt = Dir!Scan(EntryMap)
  OBVIOUS
<1>1. ASSUME NEW b \in Bucket
      PROVE  InBucket(b) = {n \in Key : EntryMap[n] # Unlisted
                                        /\ b \in KindBuckets(EntryMap[n].kind)}
  <2>1. ASSUME NEW n \in Key
        PROVE  n \in InBucket(b) <=>
                 EntryMap[n] # Unlisted /\ b \in KindBuckets(EntryMap[n].kind)
    <3>1. CASE Registered(n)
      <4>1. proxies[n] \in Proxy /\ EntryMap[n] = EntryOf(proxies[n])
        BY <3>1 DEF TypeOK, Registered, EntryMap
      <4> QED
        BY <3>1, <4>1, EntryFacts DEF InBucket, KindBuckets
    <3>2. CASE ~Registered(n)
      BY <3>2 DEF InBucket, EntryMap
    <3> QED
      BY <3>1, <3>2
  <2> QED
    BY <2>1 DEF InBucket
<1>0. \A S : Dir!Cardinality(S) = Cardinality(S)
  BY DEF Dir!Cardinality, Cardinality
<1>2. \A b \in Bucket : cnt[b] = Dir!Scan(EntryMap)[b]
  BY <1>0, <1>1 DEF CountersMatch, Dir!Scan
<1>3. cnt = [b \in Bucket |-> cnt[b]]
  BY DEF TypeOK
<1> QED
  BY <1>2, <1>3 DEF Dir!Scan

-----------------------------------------------------------------------------
(* The steps of one entry.                                                 *)

\* The directory lists exactly the registered keys.
LEMMA ListedEntry ==
    ASSUME TypeOK, NEW k \in Key
    PROVE  /\ Registered(k) => proxies[k] \in Proxy /\ EntryMap[k] = EntryOf(proxies[k])
           /\ ~Registered(k) => EntryMap[k] = Unlisted
           /\ EntryMap[k] # Unlisted <=> Registered(k)
<1>1. Registered(k) => proxies[k] \in Proxy /\ EntryMap[k] = EntryOf(proxies[k])
  BY DEF TypeOK, Registered, EntryMap
<1>2. ~Registered(k) => EntryMap[k] = Unlisted
  BY DEF EntryMap
<1> QED
  BY <1>1, <1>2, EntryFacts

\* Replacing one registry entry changes one entry of the directory.
LEMMA SetEntry ==
    ASSUME TypeOK, NEW k \in Key, NEW p \in Proxy,
           proxies' = [proxies EXCEPT ![k] = p]
    PROVE  /\ EntryMap'[k] = EntryOf(p)
           /\ \A m \in Key \ {k} : EntryMap'[m] = EntryMap[m]
<1>1. proxies'[k] = p /\ \A m \in Key \ {k} : proxies'[m] = proxies[m]
  BY DEF TypeOK
<1>2. p # NoProxy
  BY NullAssumption
<1> QED
  BY <1>1, <1>2 DEF EntryMap, Registered

\* An entry heard from, whatever it says of its services, is renewed.
LEMMA RenewEntry ==
    ASSUME TypeOK, NEW k \in Key, Registered(k), NEW p \in Proxy,
           p.role = proxies[k].role, p.auth = proxies[k].auth,
           p.addr = proxies[k].addr, p.manual = proxies[k].manual, p.age = 0,
           proxies' = [proxies EXCEPT ![k] = p], helloIp' = helloIp
    PROVE  Dir!Renew(k)
<1>1. EntryMap'[k] = EntryOf(p) /\ \A m \in Key \ {k} : EntryMap'[m] = EntryMap[m]
  BY SetEntry
<1>2. EntryMap[k] = EntryOf(proxies[k]) /\ EntryMap[k] # Unlisted
  BY ListedEntry
<1>3. EntryOf(p) = [EntryOf(proxies[k]) EXCEPT !.age = 0]
  BY DEF EntryOf
<1> QED
  BY <1>1, <1>2, <1>3 DEF Dir!Renew, Dir!Only, Dir!IsListed

\* applyServiceLifecycle and applyServiceMetric patch services only.
LEMMA PatchRenews ==
    ASSUME TypeOK, NEW k \in Key, Registered(k), NEW s \in Service, NEW v \in SvcState,
           proxies' = [proxies EXCEPT ![k] = Patched(@, s, v)], helloIp' = helloIp
    PROVE  Dir!Renew(k)
<1> DEFINE p == Patched(proxies[k], s, v)
<1>1. proxies[k] \in Proxy
  BY ListedEntry
<1>2. p \in Proxy
  BY <1>1, PatchType
<1>3. /\ p.role = proxies[k].role /\ p.auth = proxies[k].auth /\ p.age = 0
      /\ p.addr = proxies[k].addr /\ p.manual = proxies[k].manual
  BY <1>1 DEF Patched, Proxy
<1>4. proxies' = [proxies EXCEPT ![k] = p]
  BY DEF TypeOK
<1> HIDE DEF p
<1> QED
  BY <1>2, <1>3, <1>4, RenewEntry

\* applyRegister announces the node.
LEMMA RegisterAnnounces ==
    ASSUME DirInv, NEW c \in Conn, ApplyRegister(c)
    PROVE  Dir!Announce(NodeKey[conns[c].id])
<1> USE DEF DirInv
<1>1. conns[c].pc = "busy" /\ conns[c].frame \in RegisterMsg /\ helloIp' = helloIp
  BY BusyFrame, FrameKinds DEF ApplyRegister
<1>2. conns[c].id \in RawId /\ conns[c].ip \in Ip /\ NodeKey[conns[c].id] \in Key
  BY KeyFacts DEF TypeOK, Handler
<1> PICK k \in Key : NodeKey[conns[c].id] = k
  BY <1>2
<1> PICK f \in RegisterMsg : conns[c].frame = f
  BY <1>1
<1> PICK ip \in Ip : conns[c].ip = ip
  BY <1>2
<1> DEFINE old == proxies[k]
           p == MergeProxy(old, f, ip)
<1>3. old \in Proxy \cup {NoProxy} /\ ip \in helloIp[k] /\ helloIp[k] \subseteq Ip
  BY <1>1 DEF TypeOK, AddrInv, HelloInv
<1>4. p \in Proxy
  BY <1>3, MergeType
<1>5. /\ p.manual => p.addr \in StaticAddr
      /\ ~p.manual => p.addr \in OwnAddr(k)
  BY <1>1, MergeOwned DEF AddrInv
<1>6. proxies' = [proxies EXCEPT ![k] = p]
  BY DEF ApplyRegister
<1>7. /\ p.age = 0
      /\ f.addr # NoAddr => p.manual /\ p.addr = f.addr
      /\ f.addr = NoAddr /\ old = NoProxy => ~p.manual /\ p.addr = <<ip, TcpPort>>
      /\ f.addr = NoAddr /\ old # NoProxy /\ old.addr # NoAddr =>
            p.addr = old.addr /\ (p.manual <=> old.manual)
  BY DEF MergeProxy
<1> HIDE DEF p
<1>8. EntryMap'[k] = EntryOf(p) /\ \A m \in Key \ {k} : EntryMap'[m] = EntryMap[m]
  BY <1>4, <1>6, SetEntry
<1>9. EntryOf(p) \in Dir!Entry
  <2>1. /\ <<p.role, p.auth>> \in Role \X AuthMode /\ p.manual \in BOOLEAN
        /\ p.age \in 0..MaxAge
    BY <1>4 DEF Proxy
  <2>2. p.addr \in (Ip \X ({TcpPort} \cup UdpPort)) \cup StaticAddr
    BY <1>3, <1>5, <2>1 DEF OwnAddr
  <2> QED
    BY <2>1, <2>2 DEF Dir!Entry, EntryOf
<1>10. /\ EntryOf(p) # Unlisted /\ EntryOf(p).age = 0
       /\ EntryOf(p).addr = p.addr /\ EntryOf(p).pinned = p.manual
  BY <1>4, <1>7, EntryFacts
<1>11. Dir!Only(k)
  BY <1>1, <1>8 DEF Dir!Only
<1>12. \/ p.manual /\ p.addr \in StaticAddr
       \/ /\ EntryMap[k] # Unlisted
          /\ p.addr = EntryMap[k].addr /\ p.manual = EntryMap[k].pinned
       \/ EntryMap[k] = Unlisted /\ ~p.manual /\ p.addr \in helloIp[k] \X {TcpPort}
  <2>1. CASE f.addr # NoAddr
    BY <1>5, <1>7, <2>1
  <2>2. CASE f.addr = NoAddr /\ old = NoProxy
    <3>1. EntryMap[k] = Unlisted
      BY <2>2, ListedEntry DEF Registered
    <3> QED
      BY <1>3, <1>7, <2>2, <3>1
  <2>3. CASE f.addr = NoAddr /\ old # NoProxy
    <3>1. Registered(k) /\ old \in Proxy /\ old.manual \in BOOLEAN /\ p.manual \in BOOLEAN
      BY <1>3, <1>4, <2>3 DEF Registered, Proxy
    <3>2. /\ EntryMap[k] # Unlisted
          /\ EntryMap[k].addr = old.addr /\ EntryMap[k].pinned = old.manual
      BY <3>1, ListedEntry, EntryFacts
    <3>3. old.addr # NoAddr
      BY <1>3, <3>1, NullAssumption DEF AddrInv, ProxyInv, OwnAddr
    <3> QED
      BY <1>7, <2>3, <3>1, <3>2, <3>3, Zenon
  <2> QED
    BY <2>1, <2>2, <2>3
<1>13. Dir!Announce(k)
  BY <1>8, <1>9, <1>10, <1>11, <1>12 DEF Dir!Announce, Dir!IsListed
<1> QED
  BY <1>13

\* learnPublicAddr moves an entry that is not pinned to the probe's source, a
\* host of that node, and leaves a pinned one alone.
LEMMA PunchReaches ==
    ASSUME DirInv, NEW id \in RawId, NEW ip \in Ip, NEW port \in UdpPort,
           LearnPublicAddr(id, ip, port)
    PROVE  \/ EntryMap' = EntryMap /\ helloIp' = helloIp
           \/ Dir!Reach(NodeKey[id], ip, port)
<1> USE DEF DirInv
<1>0. NodeKey[id] \in Key
  BY KeyFacts
<1> PICK k \in Key : NodeKey[id] = k
  BY <1>0
<1>1. Registered(k) /\ proxies[k].ip = ip /\ helloIp' = helloIp
  BY DEF LearnPublicAddr
<1>2. /\ proxies[k] \in Proxy /\ EntryMap[k] = EntryOf(proxies[k]) /\ EntryMap[k] # Unlisted
      /\ EntryMap[k].pinned = proxies[k].manual
  BY <1>1, ListedEntry, EntryFacts
<1>3. ip \in helloIp[k]
  BY <1>1 DEF AddrInv, ProxyInv
<1>4. CASE proxies[k].manual
  <2>1. proxies' = proxies
    BY <1>4 DEF LearnPublicAddr
  <2> QED
    BY <1>1, <2>1 DEF EntryMap, Registered
<1>5. CASE ~proxies[k].manual
  <2> DEFINE p == [proxies[k] EXCEPT !.addr = <<ip, port>>]
  <2>1. proxies' = [proxies EXCEPT ![k] = p]
    BY <1>5 DEF LearnPublicAddr, TypeOK
  <2>2. <<ip, port>> \in Addr
    BY DEF Addr
  <2>3. p \in Proxy
    BY <1>2, <2>2 DEF Proxy
  <2>4. EntryOf(p) = [EntryOf(proxies[k]) EXCEPT !.addr = <<ip, port>>]
    BY <1>2 DEF EntryOf, Proxy
  <2> HIDE DEF p
  <2>5. EntryMap'[k] = EntryOf(p) /\ \A m \in Key \ {k} : EntryMap'[m] = EntryMap[m]
    BY <2>1, <2>3, SetEntry
  <2>6. Dir!Reach(k, ip, port)
    BY <1>1, <1>2, <1>3, <1>5, <2>4, <2>5 DEF Dir!Reach, Dir!Only, Dir!IsListed
  <2> QED
    BY <2>6
<1> QED
  BY <1>4, <1>5

\* The cleanup tick ends the leases that are over.
LEMMA PurgeExpires ==
    ASSUME DirInv, Purge
    PROVE  Dir!Expire
<1> USE DEF DirInv
<1>1. helloIp' = helloIp
  BY DEF Purge
<1>2. ASSUME NEW n \in Key
      PROVE  EntryMap'[n] = IF EntryMap[n] # Unlisted /\ EntryMap[n].age > PurgeAge
                            THEN Unlisted ELSE EntryMap[n]
  <2>1. proxies'[n] = IF n \in Stale THEN NoProxy ELSE proxies[n]
    BY DEF Purge
  <2>2. EntryMap'[n] = IF proxies'[n] # NoProxy THEN EntryOf(proxies'[n]) ELSE Unlisted
    BY DEF EntryMap, Registered
  <2>3. CASE Registered(n)
    <3>1. /\ proxies[n] # NoProxy
          /\ EntryMap[n] = EntryOf(proxies[n]) /\ EntryMap[n] # Unlisted
          /\ EntryMap[n].age = proxies[n].age
      BY <2>3, ListedEntry, EntryFacts DEF Registered
    <3>2. n \in Stale <=> proxies[n].age > PurgeAge
      BY <2>3 DEF Stale
    <3> QED
      BY <2>1, <2>2, <3>1, <3>2
  <2>4. CASE ~Registered(n)
    BY <2>1, <2>2, <2>4, ListedEntry DEF Registered
  <2> QED
    BY <2>3, <2>4
<1> QED
  BY <1>1, <1>2 DEF Dir!Expire, Dir!IsListed

\* A tick of the clock.
LEMMA TickAges ==
    ASSUME DirInv, Tick
    PROVE  Dir!Age
<1> USE DEF DirInv
<1>1. helloIp' = helloIp
  BY DEF Tick
<1>2. ASSUME NEW n \in Key
      PROVE  EntryMap'[n] = IF EntryMap[n] # Unlisted /\ EntryMap[n].age < MaxAge
                            THEN [EntryMap[n] EXCEPT !.age = @ + 1] ELSE EntryMap[n]
  <2>1. proxies'[n] = IF Registered(n) /\ proxies[n].age < MaxAge
                      THEN [proxies[n] EXCEPT !.age = @ + 1] ELSE proxies[n]
    BY DEF Tick
  <2>2. EntryMap'[n] = IF proxies'[n] # NoProxy THEN EntryOf(proxies'[n]) ELSE Unlisted
    BY DEF EntryMap, Registered
  <2>3. CASE Registered(n)
    <3>1. /\ proxies[n] \in Proxy /\ proxies[n] # NoProxy
          /\ EntryMap[n] = EntryOf(proxies[n]) /\ EntryMap[n] # Unlisted
          /\ EntryMap[n].age = proxies[n].age
      BY <2>3, ListedEntry, EntryFacts DEF Registered
    <3>2. CASE proxies[n].age < MaxAge
      <4> DEFINE p == [proxies[n] EXCEPT !.age = proxies[n].age + 1]
      <4>1. proxies[n].age \in 0..MaxAge /\ proxies[n].age + 1 \in 0..MaxAge
        BY <3>1, <3>2, MaxAgeFacts DEF Proxy
      <4>2. p \in Proxy
        BY <3>1, <4>1 DEF Proxy
      <4>3. EntryOf(p) = [EntryOf(proxies[n]) EXCEPT !.age = proxies[n].age + 1]
        BY <3>1 DEF EntryOf, Proxy
      <4>4. proxies'[n] = p
        BY <2>1, <2>3, <3>2
      <4>5. p # NoProxy
        BY <4>2, NullAssumption
      <4> HIDE DEF p
      <4>6. EntryMap'[n] = [EntryMap[n] EXCEPT !.age = EntryMap[n].age + 1]
        BY <2>2, <3>1, <4>3, <4>4, <4>5
      <4> QED
        BY <3>1, <3>2, <4>6
    <3>3. CASE ~(proxies[n].age < MaxAge)
      BY <2>1, <2>2, <3>1, <3>3
    <3> QED
      BY <3>2, <3>3
  <2>4. CASE ~Registered(n)
    BY <2>1, <2>2, <2>4, ListedEntry DEF Registered
  <2> QED
    BY <2>3, <2>4
<1> QED
  BY <1>1, <1>2 DEF Dir!Age, Dir!IsListed

-----------------------------------------------------------------------------
\* Every step of the server is a step of the directory, or changes nothing
\* in it.
LEMMA DirStep ==
    DirInv /\ DirInv' /\ [Next]_vars => [Dir!DirectoryNext]_(Dir!directoryVars)
<1> SUFFICES ASSUME DirInv, DirInv', [Next]_vars
             PROVE  [Dir!DirectoryNext]_(Dir!directoryVars)
  OBVIOUS
<1> DEFINE Moves == \/ \E n \in Key : Dir!Renew(n) \/ Dir!Announce(n)
                    \/ \E n \in Key, h \in Ip, p \in UdpPort : Dir!Reach(n, h, p)
                    \/ \E n \in Key, h \in Ip : Dir!Hear(n, h)
                    \/ Dir!Expire \/ Dir!Age \/ Dir!Forget
           Stays == EntryMap' = EntryMap /\ helloIp' = helloIp
<1>a. cnt = Dir!Scan(EntryMap)
  BY ScanIsCount DEF DirInv
<1>b. cnt' = Dir!Scan(EntryMap')
  <2>1. (TypeOK /\ CountersMatch => cnt = Dir!Scan(EntryMap))'
    BY ScanIsCount, PTL
  <2> QED
    BY <2>1 DEF DirInv
<1>c. Moves => Dir!DirectoryNext
  BY <1>b DEF Dir!DirectoryNext
<1>d. Stays => UNCHANGED Dir!directoryVars
  BY <1>a, <1>b DEF Dir!directoryVars
<1>e. UNCHANGED <<proxies, helloIp>> => Stays
  BY DEF EntryMap, Registered
<1>f. \A c \in Conn : conns[c].id \in RawId /\ NodeKey[conns[c].id] \in Key
  BY KeyFacts DEF DirInv, TypeOK, Handler
<1> SUFFICES Moves \/ Stays
  BY <1>c, <1>d
<1>1. ASSUME NEW c \in Conn, NEW id \in RawId, NEW ip \in Ip, Hello(c, id, ip)
      PROVE  Moves
  <2>1. NodeKey[id] \in Key /\ EntryMap' = EntryMap
    BY <1>1, KeyFacts DEF Hello, EntryMap, Registered
  <2>2. Dir!Hear(NodeKey[id], ip)
    BY <1>1, <2>1 DEF Hello, Dir!Hear
  <2> QED
    BY <2>1, <2>2
<1>2. ASSUME NEW c \in Conn, ApplyRegister(c) PROVE Moves
  BY <1>2, <1>f, RegisterAnnounces
<1>3. ASSUME NEW c \in Conn, ApplyPing(c) PROVE Moves \/ Stays
  <2> PICK k \in Key : NodeKey[conns[c].id] = k
    BY <1>f
  <2>1. CASE conns[c].frame.sig /\ Registered(k)
    <3> DEFINE p == [proxies[k] EXCEPT !.age = 0]
    <3>1. proxies' = [proxies EXCEPT ![k] = p] /\ helloIp' = helloIp
      BY <1>3, <2>1 DEF ApplyPing, DirInv, TypeOK
    <3>2. proxies[k] \in Proxy
      BY <2>1, ListedEntry DEF DirInv
    <3>3. /\ p \in Proxy /\ p.role = proxies[k].role /\ p.auth = proxies[k].auth
          /\ p.addr = proxies[k].addr /\ p.manual = proxies[k].manual /\ p.age = 0
      BY <3>2, MaxAgeFacts DEF Proxy
    <3> HIDE DEF p
    <3> QED
      BY <2>1, <3>1, <3>3, RenewEntry DEF DirInv
  <2>2. CASE ~(conns[c].frame.sig /\ Registered(k))
    <3>1. proxies' = proxies /\ helloIp' = helloIp
      BY <1>3, <2>2 DEF ApplyPing
    <3> QED
      BY <1>e, <3>1
  <2> QED
    BY <2>1, <2>2
<1>4. ASSUME NEW c \in Conn, ApplyServiceLifecycle(c) PROVE Moves \/ Stays
  <2> PICK k \in Key : NodeKey[conns[c].id] = k
    BY <1>f
  <2>0. conns[c].frame \in EventMsg
    BY <1>4, BusyFrame, FrameKinds DEF ApplyServiceLifecycle, DirInv
  <2> PICK f \in EventMsg : conns[c].frame = f
    BY <2>0
  <2>1. CASE Registered(k) /\ f.event # "none"
    <3> DEFINE v == PatchEvent(proxies[k].svcs[f.svc], f.event)
    <3>1. proxies[k].svcs \in Services /\ f.svc \in Service
      BY <2>1, ListedEntry DEF DirInv, Proxy, EventMsg
    <3>2. v \in SvcState
      BY <3>1 DEF PatchEvent, Services, SvcState
    <3>3. proxies' = [proxies EXCEPT ![k] = Patched(@, f.svc, v)] /\ helloIp' = helloIp
      BY <1>4, <2>1 DEF ApplyServiceLifecycle
    <3> HIDE DEF v
    <3> QED
      BY <2>1, <3>1, <3>2, <3>3, PatchRenews DEF DirInv
  <2>2. CASE ~(Registered(k) /\ f.event # "none")
    <3>1. proxies' = proxies /\ helloIp' = helloIp
      BY <1>4, <2>2 DEF ApplyServiceLifecycle
    <3> QED
      BY <1>e, <3>1
  <2> QED
    BY <2>1, <2>2
<1>5. ASSUME NEW c \in Conn, MetricPatch(c) PROVE Moves \/ Stays
  <2> PICK k \in Key : NodeKey[conns[c].id] = k
    BY <1>f
  <2>0. conns[c].frame \in MetricsMsg
    BY <1>5, BusyFrame, FrameKinds DEF MetricPatch, DirInv
  <2>m. Head(conns[c].frame.batch) \in [svc : Service, status : Status]
    BY <2>0, BatchTail
  <2> PICK m \in [svc : Service, status : Status] : Head(conns[c].frame.batch) = m
    BY <2>m
  <2>1. CASE Registered(k)
    <3> DEFINE v == PatchStatus(proxies[k].svcs[m.svc], m.status)
    <3>1. proxies[k].svcs \in Services /\ m.svc \in Service /\ m.status \in Status
      BY <2>1, ListedEntry DEF DirInv, Proxy
    <3>2. v \in SvcState
      BY <3>1 DEF PatchStatus, Services, SvcState, Status
    <3>3. proxies' = [proxies EXCEPT ![k] = Patched(@, m.svc, v)] /\ helloIp' = helloIp
      BY <1>5, <2>1 DEF MetricPatch
    <3> HIDE DEF v
    <3> QED
      BY <2>1, <3>1, <3>2, <3>3, PatchRenews DEF DirInv
  <2>2. CASE ~Registered(k)
    <3>1. proxies' = proxies /\ helloIp' = helloIp
      BY <1>5, <2>2 DEF MetricPatch
    <3> QED
      BY <1>e, <3>1
  <2> QED
    BY <2>1, <2>2
<1>6. ASSUME NEW id \in RawId, NEW ip \in Ip, NEW port \in UdpPort,
             LearnPublicAddr(id, ip, port)
      PROVE  Moves \/ Stays
  BY <1>6, KeyFacts, PunchReaches
<1>7. CASE Restart
  <2>1. \A n \in Key : EntryMap'[n] = Unlisted
    BY <1>7 DEF Restart, EntryMap, Registered
  <2>2. helloIp' = [n \in Key |-> {}]
    BY <1>7 DEF Restart
  <2> QED
    BY <2>1, <2>2 DEF Dir!Forget
<1>8. ASSUME NEW c \in Conn,
             \/ \E f \in Frame : ReadFrame(c, f)
             \/ PeerClose(c) \/ ClosePrev(c) \/ HandlerExit(c) \/ RegisterReject(c)
             \/ MetricStore(c) \/ ConnectLookup(c) \/ ConnectReply(c)
      PROVE  Stays
  <2>1. UNCHANGED <<proxies, helloIp>>
    BY <1>8 DEF ReadFrame, PeerClose, ClosePrev, HandlerExit, RegisterReject, MetricStore,
                ConnectLookup, ConnectReply
  <2> QED
    BY <1>e, <2>1
<1>9. CASE PruneSnapshot \/ PruneMetrics \/ UNCHANGED vars
  BY <1>9, <1>e DEF PruneSnapshot, PruneMetrics, vars
<1> HIDE DEF Stays
<1>10. CASE Purge \/ Tick
  BY <1>10, PurgeExpires, TickAges
<1> HIDE DEF Moves
<1> QED
  BY <1>1, <1>2, <1>3, <1>4, <1>5, <1>6, <1>7, <1>8, <1>9, <1>10
     DEF Next, Handle, Cleanup

\* The rendezvous server keeps what NodeDirectory promises its clients, for
\* any number of nodes and connections: applyRegister, applyPing, the service
\* frames, learnPublicAddr, the cleanup loop and restarts, in every
\* interleaving, change the directory only as its steps may.
THEOREM DirectoryCorrect == Spec => ImplementsDirectory
<1>1. Init => Dir!DirectoryInit
  <2> SUFFICES ASSUME Init PROVE Dir!DirectoryInit
    OBVIOUS
  <2>1. TypeOK /\ CountersMatch
    BY TypeInit, EmptyBuckets DEF Init
  <2>2. EntryMap = [n \in Key |-> Unlisted] /\ helloIp = [n \in Key |-> {}]
    BY DEF Init, EntryMap, Registered
  <2> QED
    BY <2>1, <2>2, ScanIsCount DEF Dir!DirectoryInit
<1>2. DirInv /\ DirInv' /\ [Next]_vars => [Dir!DirectoryNext]_(Dir!directoryVars)
  BY DirStep
<1>3. Spec => []DirInv
  BY TypeCorrect, CountersCorrect, AddrInvariant, PTL DEF DirInv
<1> QED
  BY <1>1, <1>2, <1>3, PTL DEF Spec, ImplementsDirectory, Dir!DirectorySpec
=============================================================================
