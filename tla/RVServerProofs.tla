--------------------------- MODULE RVServerProofs ---------------------------
(***************************************************************************)
(* Type correctness of RVServer, that its discovery counters equal a scan   *)
(* of its registry, that a connected node stays reachable through           *)
(* controlConns however its connections displace one another, and that      *)
(* every address the server hands out for a node is that node's own, for    *)
(* every set of nodes, connections, addresses, roles, services and frames   *)
(* and every cutoff.                                                        *)
(***************************************************************************)
EXTENDS RVServer, FiniteSetTheorems, TLAPS

\* nodeKey maps every id to a map key, and the keys are finitely many ids.
LEMMA KeyFacts ==
    /\ Key \subseteq RawId
    /\ IsFiniteSet(Key)
    /\ \A r \in RawId : NodeKey[r] \in Key
<1>1. Key \subseteq RawId /\ \A r \in RawId : NodeKey[r] \in Key
  BY KeyAssumption DEF Key
<1>2. IsFiniteSet(Key)
  BY <1>1, KeyAssumption, FS_Subset
<1> QED
  BY <1>1, <1>2

\* The saturation age lies past every cutoff.
LEMMA MaxAgeFacts ==
    /\ MaxAge \in Nat /\ 0 \in 0..MaxAge
    /\ MaxAge > PurgeAge /\ MaxAge > PruneAge /\ MaxAge >= OnlineAge
<1>1. \E a \in {PurgeAge + 1, PruneAge + 1, OnlineAge} :
         a >= PurgeAge + 1 /\ a >= PruneAge + 1 /\ a >= OnlineAge
  BY AgeAssumption
<1>2. /\ MaxAge \in {PurgeAge + 1, PruneAge + 1, OnlineAge}
      /\ MaxAge >= PurgeAge + 1 /\ MaxAge >= PruneAge + 1 /\ MaxAge >= OnlineAge
  BY <1>1 DEF MaxAge
<1> QED
  BY <1>2, AgeAssumption

\* A merged register is a well-formed entry, new or not.
LEMMA MergeType ==
    ASSUME NEW old \in Proxy \cup {NoProxy}, NEW f \in RegisterMsg, NEW ip \in Ip
    PROVE  MergeProxy(old, f, ip) \in Proxy
<1>1. 0 \in 0..MaxAge
  BY MaxAgeFacts
<1>2. <<ip, TcpPort>> \in Addr /\ NoAddr \in Addr /\ StaticAddr \subseteq Addr
  BY DEF Addr
<1>3. [s \in Service |-> "absent"] \in Services
  BY DEF Services, SvcState
<1>4. f.role \in Role /\ f.auth \in AuthMode /\ f.addr \in StaticAddr \cup {NoAddr}
      /\ f.svcs \in Services \cup {NoServices} /\ f.full \in BOOLEAN
      /\ f.local \in LocalAddr \cup {NoAddr}
  BY DEF RegisterMsg
<1>5. old # NoProxy => /\ old.auth \in AuthMode /\ old.addr \in Addr
                       /\ old.manual \in BOOLEAN /\ old.svcs \in Services
                       /\ old.local \in LocalAddr \cup {NoAddr}
  BY DEF Proxy
<1> QED
  BY <1>1, <1>2, <1>3, <1>4, <1>5, ConstAssumption DEF MergeProxy, Proxy

\* A frame's type field tells which message it is.
LEMMA FrameKinds ==
    ASSUME NEW f \in FrameType
    PROVE  /\ f.type = "register" => f \in RegisterMsg
           /\ f.type = "ping"     => f \in PingMsg
           /\ f.type = "event"    => f \in EventMsg
           /\ f.type = "metrics"  => f \in MetricsMsg
           /\ f.type = "connect"  => f \in ConnectMsg
  BY DEF FrameType, RegisterMsg, PingMsg, EventMsg, MetricsMsg, ConnectMsg

\* The frame of a busy handler is a frame of the protocol.
LEMMA BusyFrame ==
    ASSUME TypeOK, NEW c \in Conn, conns[c].pc = "busy"
    PROVE  conns[c].frame \in FrameType
<1>1. conns[c].frame \in Work /\ conns[c].frame # NoFrame
  BY DEF TypeOK, Handler, FrameOK
<1> QED
  BY <1>1, ConstAssumption DEF Work, FrameType

\* What is left of a metrics batch after its first row is again a batch.
LEMMA BatchTail ==
    ASSUME NEW f \in MetricsMsg
    PROVE  /\ Head(f.batch) \in [svc : Service, status : Status]
           /\ Len(f.batch) # 1 =>
                [type |-> "metrics", batch |-> Tail(f.batch)] \in MetricsMsg
<1> DEFINE R == [svc : Service, status : Status]
<1>1. f.batch \in Seq(R) /\ Len(f.batch) > 0
  BY DEF MetricsMsg
<1> HIDE DEF R
<1> DEFINE b == f.batch
<1>2. Head(b) \in R /\ Tail(b) \in Seq(R)
  BY <1>1
<1>3. Len(b) \in Nat /\ Len(Tail(b)) \in Int /\ Len(Tail(b)) = Len(b) - 1
  BY <1>1
<1>4. Len(b) # 1 => Len(Tail(b)) > 0
  <2> DEFINE n == Len(b)
             m == Len(Tail(b))
  <2>1. n \in Nat /\ m \in Int /\ m = n - 1 /\ n > 0
    BY <1>1, <1>3
  <2> HIDE DEF n, m
  <2>2. n # 1 => m > 0
    BY <2>1
  <2> QED
    BY <2>2 DEF n, m
<1> QED
  BY <1>2, <1>4 DEF MetricsMsg, R

\* A free handler is a handler.
LEMMA FreeType == FreeHandler \in Handler
<1>1. \E r \in RawId : TRUE
  BY ConstAssumption
<1>2. \E i \in Ip : TRUE
  BY ConstAssumption
<1> QED
  BY <1>1, <1>2 DEF FreeHandler, Handler, Work, Addr

\* Replacing one handler by a well-formed one keeps the table well-formed.
LEMMA SetHandler ==
    ASSUME TypeOK, NEW c \in Conn, NEW h \in Handler, FrameOK(h),
           conns' = [conns EXCEPT ![c] = h]
    PROVE  conns' \in [Conn -> Handler] /\ \A e \in Conn : FrameOK(conns'[e])
  BY DEF TypeOK

\* Ending a frame leaves a well-formed handler table.
LEMMA DoneType ==
    ASSUME TypeOK, NEW c \in Conn, Done(c)
    PROVE  conns' \in [Conn -> Handler] /\ \A e \in Conn : FrameOK(conns'[e])
<1> DEFINE h == [conns[c] EXCEPT !.pc = "ready", !.frame = NoFrame,
                              !.seen = NoAddr, !.seenLocal = NoAddr]
<1>a. conns[c] \in Handler /\ NoFrame \in Work /\ NoAddr \in Addr
  BY DEF TypeOK, Work, Addr
<1>b. h \in Handler
  BY <1>a DEF Handler
<1>c. h.pc = "ready"
  BY <1>a DEF Handler
<1>1. h \in Handler /\ FrameOK(h)
  BY <1>b, <1>c DEF FrameOK
<1>2. conns' = [conns EXCEPT ![c] = h]
  BY DEF Done, TypeOK
<1> QED
  BY <1>1, <1>2, SetHandler

\* So does moving to the next row of a batch.
LEMMA NextRowType ==
    ASSUME TypeOK, NEW c \in Conn, NextRow(c), conns[c].frame \in MetricsMsg
    PROVE  conns' \in [Conn -> Handler] /\ \A e \in Conn : FrameOK(conns'[e])
<1>1. CASE Len(conns[c].frame.batch) = 1
  BY <1>1, DoneType DEF NextRow
<1>2. CASE Len(conns[c].frame.batch) # 1
  <2> DEFINE g == [type |-> "metrics", batch |-> Tail(conns[c].frame.batch)]
             h == [conns[c] EXCEPT !.pc = "busy", !.frame = g]
  <2>1. g \in MetricsMsg
    BY <1>2, BatchTail
  <2>2. g \in Work /\ g # NoFrame
    BY <2>1, NullAssumption DEF Work, FrameType
  <2>3. conns' = [conns EXCEPT ![c] = h]
    BY <1>2 DEF NextRow, TypeOK
  <2> HIDE DEF g
  <2>4. h \in Handler /\ FrameOK(h)
    <3>1. conns[c] \in Handler
      BY DEF TypeOK
    <3>2. h \in Handler
      BY <2>2, <3>1 DEF Handler
    <3>3. h.pc = "busy" /\ h.frame = g
      BY <3>1 DEF Handler
    <3> QED
      BY <2>2, <3>2, <3>3 DEF FrameOK
  <2> QED
    BY <2>3, <2>4, SetHandler
<1> QED
  BY <1>1, <1>2

\* Address-free frames on a connection are replies.
LEMMA FramesType ==
    ASSUME TypeOK, NEW c \in Conn,
           NEW types \in SUBSET {"ack", "error", "need_register"}
    PROVE  Frames(c, types) \in SUBSET Reply
<1>1. conns[c].id \in RawId /\ NoAddr \in Addr
  BY DEF TypeOK, Handler, Addr
<1>2. ASSUME NEW t \in types
      PROVE  [to |-> c, type |-> t, id |-> conns[c].id, addr |-> NoAddr,
              cands |-> {}] \in Reply
  BY <1>1, SMT DEF Reply
<1> QED
  BY <1>2, Zenon DEF Frames

\* Replacing one registry entry by a well-formed one keeps the registry typed.
LEMMA SetProxy ==
    ASSUME TypeOK, NEW k \in Key, NEW p \in Proxy,
           proxies' = [proxies EXCEPT ![k] = p]
    PROVE  proxies' \in [Key -> Proxy \cup {NoProxy}]
  BY DEF TypeOK

\* A refreshed entry, with one service patched, is well-formed.
LEMMA PatchType ==
    ASSUME NEW p \in Proxy, NEW s \in Service, NEW v \in SvcState
    PROVE  Patched(p, s, v) \in Proxy
<1>1. 0 \in 0..MaxAge
  BY MaxAgeFacts
<1>2. p.svcs \in Services
  BY DEF Proxy
<1>3. [p.svcs EXCEPT ![s] = v] \in Services
  BY <1>2 DEF Services
<1> QED
  BY <1>1, <1>3 DEF Proxy, Patched

\* The initial state is well-typed.
LEMMA TypeInit == Init => TypeOK
<1> SUFFICES ASSUME Init PROVE TypeOK
  OBVIOUS
<1>1. conns \in [Conn -> Handler] /\ \A c \in Conn : FrameOK(conns[c])
  <2>1. FreeHandler.pc = "free"
    BY DEF FreeHandler
  <2> QED
    BY <2>1, FreeType DEF Init, FrameOK
<1>2. cnt \in [Bucket -> Int]
  BY DEF Init
<1> QED
  BY <1>1, <1>2 DEF Init, TypeOK

\* Every action keeps the types.
LEMMA TypeStep == TypeOK /\ [Next]_vars => TypeOK'
<1> SUFFICES ASSUME TypeOK, [Next]_vars PROVE TypeOK'
  OBVIOUS
<1> USE KeyFacts
<1>1. ASSUME NEW c \in Conn, NEW id \in RawId, NEW ip \in Ip, Hello(c, id, ip)
      PROVE  TypeOK'
  <2> DEFINE k == NodeKey[id]
             h == [pc |-> "swapped", open |-> TRUE, id |-> id, ip |-> ip,
                   prev |-> controlConns[k], frame |-> NoFrame, seen |-> NoAddr,
                   seenLocal |-> NoAddr]
  <2>1. k \in Key /\ controlConns[k] \in Conn \cup {NoConn}
    BY DEF TypeOK
  <2>2. NoFrame \in Work /\ NoAddr \in Addr
    BY DEF Work, Addr
  <2>3. h \in Handler /\ FrameOK(h)
    BY <2>1, <2>2 DEF Handler, FrameOK
  <2>4. conns' = [conns EXCEPT ![c] = h]
    BY <1>1 DEF Hello
  <2>5. conns' \in [Conn -> Handler] /\ \A e \in Conn : FrameOK(conns'[e])
    BY <2>3, <2>4, SetHandler
  <2>6. controlConns' \in [Key -> Conn \cup {NoConn}] /\ helloIp' \in [Key -> SUBSET Ip]
    BY <1>1, <2>1 DEF Hello, TypeOK
  <2> QED
    BY <1>1, <2>5, <2>6 DEF Hello, TypeOK
<1>2. ASSUME NEW c \in Conn, NEW f \in Frame, ReadFrame(c, f)
      PROVE  TypeOK'
  <2> DEFINE h == [conns[c] EXCEPT !.pc = "busy", !.frame = f]
  <2>1. conns[c] \in Handler /\ f \in Work /\ f # NoFrame
    BY ConstAssumption, NullAssumption DEF TypeOK, Work
  <2>2. h \in Handler /\ h.frame = f /\ h.pc = "busy"
    BY <2>1 DEF Handler
  <2>3. FrameOK(h)
    BY <2>1, <2>2 DEF FrameOK
  <2>4. conns' = [conns EXCEPT ![c] = h]
    BY <1>2 DEF ReadFrame
  <2>5. conns' \in [Conn -> Handler] /\ \A e \in Conn : FrameOK(conns'[e])
    BY <2>2, <2>3, <2>4, SetHandler
  <2> QED
    BY <1>2, <2>5 DEF ReadFrame, TypeOK
<1>3. ASSUME NEW c \in Conn, PeerClose(c)
      PROVE  TypeOK'
  <2> DEFINE h == [conns[c] EXCEPT !.open = FALSE]
  <2>1. conns[c] \in Handler /\ FrameOK(conns[c])
    BY DEF TypeOK
  <2>2. h \in Handler /\ h.frame = conns[c].frame /\ h.pc = conns[c].pc
    BY <2>1 DEF Handler
  <2>3. FrameOK(h)
    BY <2>1, <2>2 DEF FrameOK
  <2>4. conns' = [conns EXCEPT ![c] = h]
    BY <1>3 DEF PeerClose
  <2>5. conns' \in [Conn -> Handler] /\ \A e \in Conn : FrameOK(conns'[e])
    BY <2>2, <2>3, <2>4, SetHandler
  <2> QED
    BY <1>3, <2>5 DEF PeerClose, TypeOK
<1>4. ASSUME NEW c \in Conn, ClosePrev(c)
      PROVE  TypeOK'
  <2>1. ASSUME NEW d \in Conn
        PROVE  conns'[d] \in Handler /\ FrameOK(conns'[d])
    <3>1. conns[d] \in Handler /\ FrameOK(conns[d]) /\ NoConn \in Conn \cup {NoConn}
      BY DEF TypeOK
    <3> DEFINE g == [conns[d] EXCEPT !.pc = "ready", !.prev = NoConn]
               h == [conns[d] EXCEPT !.open = FALSE]
    <3>2. g \in Handler /\ g.pc = "ready"
      BY <3>1 DEF Handler
    <3>3. h \in Handler /\ h.pc = conns[d].pc /\ h.frame = conns[d].frame
      BY <3>1 DEF Handler
    <3>4. FrameOK(g) /\ FrameOK(h)
      BY <3>1, <3>2, <3>3 DEF FrameOK
    <3>5. conns'[d] \in {g, h, conns[d]}
      BY <1>4 DEF ClosePrev
    <3> QED
      BY <3>1, <3>2, <3>3, <3>4, <3>5
  <2>2. conns' \in [Conn -> Handler] /\ \A e \in Conn : FrameOK(conns'[e])
    <3>1. conns' = [d \in Conn |-> conns'[d]]
      BY <1>4 DEF ClosePrev
    <3> QED
      BY <2>1, <3>1
  <2>3. wire' \in SUBSET Reply
    BY <1>4, FramesType DEF ClosePrev
  <2> QED
    BY <1>4, <2>2, <2>3 DEF ClosePrev, TypeOK
<1>5. ASSUME NEW c \in Conn, HandlerExit(c)
      PROVE  TypeOK'
  <2>1. FreeHandler \in Handler /\ FrameOK(FreeHandler)
    <3>1. FreeHandler.pc = "free"
      BY DEF FreeHandler
    <3> QED
      BY <3>1, FreeType DEF FrameOK
  <2>2. conns' \in [Conn -> Handler] /\ \A e \in Conn : FrameOK(conns'[e])
    BY <1>5, <2>1, SetHandler DEF HandlerExit
  <2>3. controlConns' \in [Key -> Conn \cup {NoConn}]
    BY <1>5 DEF HandlerExit, TypeOK
  <2> QED
    BY <1>5, <2>2, <2>3 DEF HandlerExit, TypeOK
<1>6. ASSUME NEW c \in Conn, RegisterReject(c)
      PROVE  TypeOK'
  <2>1. wire' \in SUBSET Reply
    BY <1>6, FramesType DEF RegisterReject
  <2> QED
    BY <1>6, <2>1, DoneType DEF RegisterReject, TypeOK
<1>7. ASSUME NEW c \in Conn, ApplyRegister(c)
      PROVE  TypeOK'
  <2> DEFINE f == conns[c].frame
             k == NodeKey[conns[c].id]
             new == MergeProxy(proxies[k], f, conns[c].ip)
  <2>1. f \in RegisterMsg
    BY <1>7, BusyFrame, FrameKinds DEF ApplyRegister
  <2>2. k \in Key /\ conns[c].ip \in Ip /\ proxies[k] \in Proxy \cup {NoProxy}
    BY DEF TypeOK, Handler
  <2>3. new \in Proxy
    BY <2>1, <2>2, MergeType
  <2>4. proxies' = [proxies EXCEPT ![k] = new]
    BY <1>7 DEF ApplyRegister
  <2>5. proxies' \in [Key -> Proxy \cup {NoProxy}]
    BY <2>2, <2>3, <2>4, SetProxy
  <2>6. cnt' \in [Bucket -> Int]
    <3>1. ASSUME NEW n \in [Bucket -> Int], NEW r, NEW a, NEW d \in Int
          PROVE  CountDelta(n, r, a, d) \in [Bucket -> Int]
      BY DEF CountDelta
    <3>2. cnt \in [Bucket -> Int] /\ 1 \in Int /\ -1 \in Int
      BY DEF TypeOK
    <3>3. PICK n \in [Bucket -> Int] : cnt' = CountDelta(n, new.role, new.auth, 1)
      <4>1. CASE proxies[k] = NoProxy
        BY <1>7, <3>2, <4>1 DEF ApplyRegister
      <4>2. CASE proxies[k] # NoProxy
        <5> DEFINE n == CountDelta(cnt, proxies[k].role, proxies[k].auth, -1)
        <5>1. n \in [Bucket -> Int]
          BY <3>1, <3>2
        <5>2. cnt' = CountDelta(n, new.role, new.auth, 1)
          BY <1>7, <4>2 DEF ApplyRegister
        <5> HIDE DEF n
        <5> QED
          BY <5>1, <5>2
      <4> QED
        BY <4>1, <4>2
    <3> QED
      BY <3>1, <3>2, <3>3
  <2>7. wire' \in SUBSET Reply
    BY <1>7, FramesType DEF ApplyRegister
  <2>8. told' \in [Key -> SUBSET LocalAddr]
    <3>1. {f.local} \ {NoAddr} \in SUBSET LocalAddr
      BY <2>1 DEF RegisterMsg
    <3>2. told' = [told EXCEPT ![k] = @ \cup ({f.local} \ {NoAddr})]
      BY <1>7 DEF ApplyRegister
    <3> QED
      BY <2>2, <3>1, <3>2 DEF TypeOK
  <2> QED
    BY <1>7, <2>5, <2>6, <2>7, <2>8, DoneType DEF ApplyRegister, TypeOK
<1>8. ASSUME NEW c \in Conn, ApplyPing(c)
      PROVE  TypeOK'
  <2> DEFINE k == NodeKey[conns[c].id]
             p == [proxies[k] EXCEPT !.age = 0]
  <2>1. k \in Key /\ proxies[k] \in Proxy \cup {NoProxy}
    BY DEF TypeOK, Handler
  <2>2. Registered(k) => p \in Proxy
    BY <2>1, MaxAgeFacts DEF Proxy, Registered
  <2>3. proxies' = proxies \/ (Registered(k) /\ proxies' = [proxies EXCEPT ![k] = p])
    BY <1>8 DEF ApplyPing
  <2>4. proxies' \in [Key -> Proxy \cup {NoProxy}]
    BY <2>1, <2>2, <2>3, SetProxy DEF TypeOK
  <2>5. wire' \in SUBSET Reply
    BY <1>8, FramesType DEF ApplyPing
  <2> QED
    BY <1>8, <2>4, <2>5, DoneType DEF ApplyPing, TypeOK
<1>9. ASSUME NEW c \in Conn, ApplyServiceLifecycle(c)
      PROVE  TypeOK'
  <2> DEFINE f == conns[c].frame
             k == NodeKey[conns[c].id]
             v == PatchEvent(proxies[k].svcs[f.svc], f.event)
             p == Patched(proxies[k], f.svc, v)
  <2>1. f \in EventMsg
    BY <1>9, BusyFrame, FrameKinds DEF ApplyServiceLifecycle
  <2>2. k \in Key /\ proxies[k] \in Proxy \cup {NoProxy}
    BY DEF TypeOK, Handler
  <2>3. f.svc \in Service
    BY <2>1 DEF EventMsg
  <2>4. Registered(k) => proxies[k] \in Proxy /\ proxies[k].svcs[f.svc] \in SvcState
    BY <2>2, <2>3 DEF Registered, Proxy, Services
  <2>5. Registered(k) => v \in SvcState
    BY <2>3, <2>4 DEF PatchEvent, SvcState
  <2>6. Registered(k) => p \in Proxy
    BY <2>3, <2>4, <2>5, PatchType
  <2>7. proxies' = proxies \/ (Registered(k) /\ proxies' = [proxies EXCEPT ![k] = p])
    BY <1>9 DEF ApplyServiceLifecycle
  <2>8. proxies' \in [Key -> Proxy \cup {NoProxy}]
    BY <2>2, <2>6, <2>7, SetProxy DEF TypeOK
  <2> QED
    BY <1>9, <2>8, DoneType DEF ApplyServiceLifecycle, TypeOK
<1>10. ASSUME NEW c \in Conn, MetricPatch(c)
       PROVE  TypeOK'
  <2> DEFINE f == conns[c].frame
             k == NodeKey[conns[c].id]
             m == Head(f.batch)
             v == PatchStatus(proxies[k].svcs[m.svc], m.status)
             p == Patched(proxies[k], m.svc, v)
             h == [conns[c] EXCEPT !.pc = "metric"]
  <2>1. f \in MetricsMsg
    BY <1>10, BusyFrame, FrameKinds DEF MetricPatch
  <2>2. m.svc \in Service /\ m.status \in Status
    <3>1. m \in [svc : Service, status : Status]
      BY <2>1, BatchTail
    <3> QED
      BY <3>1
  <2>3. k \in Key /\ proxies[k] \in Proxy \cup {NoProxy} /\ conns[c] \in Handler
    BY DEF TypeOK, Handler
  <2> HIDE DEF m
  <2>4. CASE Registered(k)
    <3>1. proxies[k] \in Proxy /\ proxies[k].svcs[m.svc] \in SvcState
      BY <2>2, <2>3, <2>4 DEF Registered, Proxy, Services
    <3>2. v \in SvcState
      BY <2>2, <3>1 DEF PatchStatus, SvcState, Status
    <3>3. p \in Proxy
      BY <2>2, <3>1, <3>2, PatchType
    <3>4. proxies' = [proxies EXCEPT ![k] = p] /\ conns' = [conns EXCEPT ![c] = h]
      BY <1>10, <2>4 DEF MetricPatch, m
    <3>5. proxies' \in [Key -> Proxy \cup {NoProxy}]
      BY <2>3, <3>3, <3>4, SetProxy
    <3>6. h \in Handler /\ h.pc = "metric" /\ h.frame = f
      BY <2>3 DEF Handler
    <3>7. FrameOK(h)
      BY <2>1, <3>6 DEF FrameOK
    <3>8. conns' \in [Conn -> Handler] /\ \A e \in Conn : FrameOK(conns'[e])
      BY <3>4, <3>6, <3>7, SetHandler
    <3> QED
      BY <1>10, <3>5, <3>8 DEF MetricPatch, TypeOK
  <2>5. CASE ~Registered(k)
    <3>1. proxies' = proxies /\ NextRow(c)
      BY <1>10, <2>5 DEF MetricPatch
    <3>2. conns' \in [Conn -> Handler] /\ \A e \in Conn : FrameOK(conns'[e])
      BY <2>1, <3>1, NextRowType
    <3> QED
      BY <1>10, <3>1, <3>2 DEF MetricPatch, TypeOK
  <2> QED
    BY <2>4, <2>5
<1>11. ASSUME NEW c \in Conn, MetricStore(c)
       PROVE  TypeOK'
  <2> DEFINE id == conns[c].id
             m == Head(conns[c].frame.batch)
             row == [node |-> id, svc |-> m.svc, status |-> StatusCode(m.status)]
  <2>1. conns[c].frame \in MetricsMsg /\ id \in RawId
    BY <1>11 DEF MetricStore, TypeOK, FrameOK, Handler
  <2>2. m \in [svc : Service, status : Status]
    BY <2>1, BatchTail
  <2> HIDE DEF m
  <2>3. row \in Row
    BY <2>1, <2>2 DEF Row, StatusCode
  <2>4. metrics' = [metrics EXCEPT ![id] = row] /\ NextRow(c)
    BY <1>11 DEF MetricStore, MetricKey, m
  <2> HIDE DEF row
  <2>5. metrics' \in [RawId -> Row \cup {NoRow}]
    BY <2>1, <2>3, <2>4 DEF TypeOK
  <2>6. conns' \in [Conn -> Handler] /\ \A e \in Conn : FrameOK(conns'[e])
    BY <2>1, <2>4, NextRowType
  <2> QED
    BY <1>11, <2>5, <2>6 DEF MetricStore, TypeOK
<1>12. ASSUME NEW c \in Conn, ConnectLookup(c)
       PROVE  TypeOK'
  <2> DEFINE f == conns[c].frame
             t == NodeKey[f.target]
             h == [conns[c] EXCEPT !.pc = "connect", !.seen = proxies[t].addr,
                                   !.seenLocal = proxies[t].local]
  <2>1. f \in ConnectMsg
    BY <1>12, BusyFrame, FrameKinds DEF ConnectLookup
  <2>2. f.target \in RawId
    BY <2>1 DEF ConnectMsg
  <2>3. t \in Key /\ conns[c] \in Handler /\ proxies[t] \in Proxy \cup {NoProxy}
    BY <2>2 DEF TypeOK
  <2>4. CASE Registered(t)
    <3>1. proxies[t].addr \in Addr /\ proxies[t].local \in LocalAddr \cup {NoAddr}
      BY <2>3, <2>4 DEF Registered, Proxy
    <3>2. h \in Handler /\ h.pc = "connect" /\ h.frame = f
      BY <2>3, <3>1 DEF Handler
    <3>3. FrameOK(h)
      BY <2>1, <3>2 DEF FrameOK
    <3>4. conns' = [conns EXCEPT ![c] = h] /\ wire' = {}
      BY <1>12, <2>4 DEF ConnectLookup
    <3>5. conns' \in [Conn -> Handler] /\ \A e \in Conn : FrameOK(conns'[e])
      BY <3>2, <3>3, <3>4, SetHandler
    <3> QED
      BY <1>12, <3>4, <3>5 DEF ConnectLookup, TypeOK
  <2>5. CASE ~Registered(t)
    <3>1. wire' \in SUBSET Reply /\ Done(c)
      BY <1>12, <2>5, FramesType DEF ConnectLookup
    <3> QED
      BY <1>12, <3>1, DoneType DEF ConnectLookup, TypeOK
  <2> QED
    BY <2>4, <2>5
<1>13. ASSUME NEW c \in Conn, ConnectReply(c)
       PROVE  TypeOK'
  <2>1. wire' \in SUBSET Reply
    <3> DEFINE t == NodeKey[conns[c].frame.target]
               r == NodeKey[conns[c].id]
               ra == IF Registered(r) THEN proxies[r].addr ELSE <<conns[c].ip, TcpPort>>
    <3>1. conns[c].frame \in ConnectMsg /\ conns[c] \in Handler
      BY <1>13 DEF ConnectReply, TypeOK, FrameOK
    <3>2. conns[c].frame.target \in RawId /\ conns[c].id \in RawId
          /\ conns[c].seen \in Addr /\ conns[c].ip \in Ip
          /\ conns[c].seenLocal \in LocalAddr \cup {NoAddr}
      BY <3>1 DEF ConnectMsg, Handler
    <3>3. t \in Key /\ r \in Key /\ controlConns[t] \in Conn \cup {NoConn}
          /\ proxies[t] \in Proxy \cup {NoProxy} /\ proxies[r] \in Proxy \cup {NoProxy}
      BY <3>2 DEF TypeOK
    <3>4. ra \in Addr
      <4>1. <<conns[c].ip, TcpPort>> \in Addr
        BY <3>2 DEF Addr
      <4> QED
        BY <3>3, <4>1 DEF Registered, Proxy
    <3> DEFINE A == {conns[c].seen} \cup (IF Registered(t) THEN {proxies[t].addr} ELSE {})
               L == {conns[c].seenLocal}
                      \cup (IF Registered(t) THEN {proxies[t].local} ELSE {})
    <3>5. ASSUME NEW e \in {controlConns[t]} \ {NoConn}
          PROVE  [to |-> e, type |-> "punch", id |-> conns[c].id, addr |-> ra,
                  cands |-> {}] \in Reply
      <4> HIDE DEF ra
      <4>1. e \in Conn
        BY <3>3
      <4> QED
        BY <3>2, <3>4, <4>1 DEF Reply
    <3>6. A \subseteq Addr /\ L \subseteq LocalAddr \cup {NoAddr}
      BY <3>2, <3>3 DEF Registered, Proxy
    <3> HIDE DEF A, L
    <3>7. ASSUME NEW a \in A, NEW b \in A, NEW l \in L
          PROVE  [to |-> c, type |-> "proxy_info", id |-> conns[c].frame.target,
                  addr |-> a, cands |-> {l, b} \ {NoAddr}] \in Reply
      <4>1. a \in Addr /\ {l, b} \ {NoAddr} \in SUBSET (Addr \cup LocalAddr)
        BY <3>6
      <4> QED
        BY <3>2, <4>1 DEF Reply
    <3> HIDE DEF ra
    <3>8. PICK a \in A, b \in A, l \in L :
            wire' = {[to |-> c, type |-> "proxy_info", id |-> conns[c].frame.target,
                      addr |-> a, cands |-> {l, b} \ {NoAddr}]}
                    \cup {[to |-> e, type |-> "punch", id |-> conns[c].id, addr |-> ra,
                           cands |-> {}] : e \in {controlConns[t]} \ {NoConn}}
      BY <1>13 DEF ConnectReply, ra, A, L
    <3> QED
      BY <3>5, <3>7, <3>8
  <2> QED
    BY <1>13, <2>1, DoneType DEF ConnectReply, TypeOK
<1>14. ASSUME NEW id \in RawId, NEW ip \in Ip, NEW port \in UdpPort,
              LearnPublicAddr(id, ip, port)
       PROVE  TypeOK'
  <2> DEFINE k == NodeKey[id]
             p == [proxies[k] EXCEPT !.addr = <<ip, port>>]
  <2>1. k \in Key /\ proxies[k] \in Proxy
    BY <1>14 DEF LearnPublicAddr, Registered, TypeOK
  <2>2. <<ip, port>> \in Addr
    BY DEF Addr
  <2>3. p \in Proxy
    BY <2>1, <2>2 DEF Proxy
  <2>4. proxies' = proxies \/ proxies' = [proxies EXCEPT ![k] = p]
    BY <1>14 DEF LearnPublicAddr
  <2>5. proxies' \in [Key -> Proxy \cup {NoProxy}]
    BY <2>1, <2>3, <2>4, SetProxy DEF TypeOK
  <2> QED
    BY <1>14, <2>5 DEF LearnPublicAddr, TypeOK
<1>15. ASSUME Purge PROVE TypeOK'
  <2>1. proxies' \in [Key -> Proxy \cup {NoProxy}]
    BY <1>15 DEF Purge, TypeOK
  <2>2. ASSUME NEW b \in Bucket
        PROVE  cnt[b] - Cardinality({k \in Stale :
                   b \in BucketsOf(proxies[k].role, proxies[k].auth)}) \in Int
    <3> DEFINE S == {k \in Stale : b \in BucketsOf(proxies[k].role, proxies[k].auth)}
    <3>1. S \subseteq Key
      BY DEF Stale
    <3>2. IsFiniteSet(S)
      BY <3>1, FS_Subset
    <3>3. Cardinality(S) \in Nat
      BY <3>2, FS_CardinalityType
    <3> HIDE DEF S
    <3>4. cnt[b] \in Int
      BY DEF TypeOK
    <3>5. cnt[b] - Cardinality(S) \in Int
      BY <3>3, <3>4
    <3> QED
      BY <3>5 DEF S
  <2>3. cnt' \in [Bucket -> Int]
    BY <1>15, <2>2 DEF Purge
  <2>4. cleaner' \in [pc : {"idle", "purged", "snapshot"}, fresh : SUBSET Key]
    BY <1>15 DEF Purge, TypeOK
  <2> QED
    BY <1>15, <2>1, <2>3, <2>4 DEF Purge, TypeOK
<1>16. ASSUME PruneSnapshot PROVE TypeOK'
  <2>1. cleaner' \in [pc : {"idle", "purged", "snapshot"}, fresh : SUBSET Key]
    BY <1>16 DEF PruneSnapshot
  <2> QED
    BY <1>16, <2>1 DEF PruneSnapshot, TypeOK
<1>17. ASSUME PruneMetrics PROVE TypeOK'
  <2>1. cleaner' \in [pc : {"idle", "purged", "snapshot"}, fresh : SUBSET Key]
    BY <1>17 DEF PruneMetrics
  <2>2. metrics' \in [RawId -> Row \cup {NoRow}]
    BY <1>17 DEF PruneMetrics, TypeOK
  <2> QED
    BY <1>17, <2>1, <2>2 DEF PruneMetrics, TypeOK
<1>18. ASSUME Tick PROVE TypeOK'
  <2>1. ASSUME NEW k \in Key, Registered(k), proxies[k].age < MaxAge
        PROVE  [proxies[k] EXCEPT !.age = @ + 1] \in Proxy
    <3>1. proxies[k] \in Proxy
      BY <2>1 DEF Registered, TypeOK
    <3>2. proxies[k].age \in 0..MaxAge
      BY <3>1 DEF Proxy
    <3>3. proxies[k].age + 1 \in 0..MaxAge
      BY <2>1, <3>2, MaxAgeFacts
    <3> QED
      BY <3>1, <3>3 DEF Proxy
  <2>2. proxies' \in [Key -> Proxy \cup {NoProxy}]
    BY <1>18, <2>1 DEF Tick, TypeOK
  <2> QED
    BY <1>18, <2>2 DEF Tick, TypeOK
<1>19. ASSUME Restart PROVE TypeOK'
  <2>1. conns' \in [Conn -> Handler] /\ \A c \in Conn : FrameOK(conns'[c])
    <3>1. FreeHandler.pc = "free"
      BY DEF FreeHandler
    <3> QED
      BY <1>19, <3>1, FreeType DEF Restart, FrameOK
  <2>2. cnt' \in [Bucket -> Int]
    BY <1>19 DEF Restart
  <2> QED
    BY <1>19, <2>1, <2>2 DEF Restart, TypeOK
<1>20. CASE UNCHANGED vars
  BY <1>20 DEF vars, TypeOK
<1> QED
  BY <1>1, <1>2, <1>3, <1>4, <1>5, <1>6, <1>7, <1>8, <1>9, <1>10, <1>11, <1>12,
     <1>13, <1>14, <1>15, <1>16, <1>17, <1>18, <1>19, <1>20
     DEF Next, Handle, Cleanup

\* The rendezvous server's state stays well-typed: no register, ping, event,
\* metric, connect, punch, purge, prune or restart leaves a malformed entry, and
\* every handler holds the frame its next critical section works on.
THEOREM TypeCorrect == Spec => []TypeOK
  BY TypeInit, TypeStep, PTL DEF Spec

-----------------------------------------------------------------------------
(* The discovery counters.                                                *)

\* The keys of a bucket are finitely many.
LEMMA InBucketFinite ==
    ASSUME NEW b
    PROVE  IsFiniteSet(InBucket(b)) /\ Cardinality(InBucket(b)) \in Nat
<1>1. InBucket(b) \in SUBSET Key
  BY DEF InBucket
<1>2. IsFiniteSet(InBucket(b))
  BY <1>1, KeyFacts, FS_Subset
<1> QED
  BY <1>2, FS_CardinalityType

\* A step that keeps each entry's presence, role and auth mode, and the
\* counters, keeps them equal.
LEMMA SameBuckets ==
    ASSUME CountersMatch, cnt' = cnt,
           \A k \in Key : /\ Registered(k)' = Registered(k)
                          /\ Registered(k) => /\ proxies'[k].role = proxies[k].role
                                              /\ proxies'[k].auth = proxies[k].auth
    PROVE  CountersMatch'
<1>1. ASSUME NEW b \in Bucket PROVE InBucket(b)' = InBucket(b)
  BY DEF InBucket
<1> QED
  BY <1>1 DEF CountersMatch

\* Replacing an entry by one of the same role and auth mode is such a step.
LEMMA SameRole ==
    ASSUME TypeOK, CountersMatch, NEW k \in Key, Registered(k), NEW p \in Proxy,
           p.role = proxies[k].role, p.auth = proxies[k].auth,
           proxies' = [proxies EXCEPT ![k] = p], cnt' = cnt
    PROVE  CountersMatch'
<1>1. proxies'[k] = p /\ \A j \in Key \ {k} : proxies'[j] = proxies[j]
  BY DEF TypeOK
<1>2. p # NoProxy
  BY NullAssumption
<1>3. ASSUME NEW j \in Key
      PROVE  /\ Registered(j)' = Registered(j)
             /\ Registered(j) => /\ proxies'[j].role = proxies[j].role
                                 /\ proxies'[j].auth = proxies[j].auth
  BY <1>1, <1>2 DEF Registered
<1> QED
  BY <1>3, SameBuckets

\* The counters start at the size of the empty buckets.
LEMMA EmptyBuckets ==
    ASSUME proxies = [k \in Key |-> NoProxy], cnt = [b \in Bucket |-> 0]
    PROVE  CountersMatch
<1>1. ASSUME NEW b \in Bucket PROVE InBucket(b) = {}
  BY DEF InBucket, Registered
<1> QED
  BY <1>1, FS_EmptySet DEF CountersMatch

\* applyRegister backs the old entry's counters out and the new one's in.
LEMMA RegisterCounts ==
    ASSUME TypeOK, CountersMatch, NEW c \in Conn, ApplyRegister(c)
    PROVE  CountersMatch'
<1> DEFINE f == conns[c].frame
           k == NodeKey[conns[c].id]
           old == proxies[k]
           new == MergeProxy(old, f, conns[c].ip)
<1>1. f \in RegisterMsg
  BY BusyFrame, FrameKinds DEF ApplyRegister
<1>2. k \in Key /\ conns[c].ip \in Ip /\ old \in Proxy \cup {NoProxy}
  BY KeyFacts DEF TypeOK, Handler
<1>3. new \in Proxy /\ new # NoProxy
  BY <1>1, <1>2, MergeType, NullAssumption
<1>4. proxies' = [proxies EXCEPT ![k] = new]
  BY DEF ApplyRegister
<1>5. cnt' = CountDelta(IF old = NoProxy THEN cnt
                        ELSE CountDelta(cnt, old.role, old.auth, -1),
                        new.role, new.auth, 1)
  BY DEF ApplyRegister
<1> HIDE DEF new, k
<1> SUFFICES ASSUME NEW b \in Bucket
             PROVE  cnt'[b] = Cardinality(InBucket(b)')
  BY DEF CountersMatch
<1> DEFINE S == InBucket(b)
           was == old # NoProxy /\ b \in BucketsOf(old.role, old.auth)
           is == b \in BucketsOf(new.role, new.auth)
           n == Cardinality(S)
<1>6. k \in S <=> was
  BY <1>2 DEF InBucket, Registered
<1>7. InBucket(b)' = IF is THEN (S \ {k}) \cup {k} ELSE S \ {k}
  <2>1. proxies'[k] = new /\ \A j \in Key \ {k} : proxies'[j] = proxies[j]
    BY <1>2, <1>4 DEF TypeOK
  <2> QED
    BY <1>2, <1>3, <2>1 DEF InBucket, Registered
<1>8. IsFiniteSet(S) /\ n \in Nat
  BY InBucketFinite
<1>9. cnt[b] = n
  BY DEF CountersMatch
<1> DEFINE m == Cardinality(S \ {k})
<1> HIDE DEF S
<1>10. IsFiniteSet(S \ {k}) /\ m = IF was THEN n - 1 ELSE n
  BY <1>6, <1>8, FS_RemoveElement
<1>11. Cardinality(InBucket(b)') = IF is THEN m + 1 ELSE m
  BY <1>7, <1>10, FS_AddElement
<1>12. cnt'[b] = (IF was THEN n - 1 ELSE n) + (IF is THEN 1 ELSE 0)
  <2>1. CASE old = NoProxy
    <3>1. cnt'[b] = IF is THEN cnt[b] + 1 ELSE cnt[b]
      BY <1>5, <2>1 DEF CountDelta
    <3> HIDE DEF n, is
    <3> QED
      BY <1>8, <1>9, <2>1, <3>1
  <2>2. CASE old # NoProxy
    <3> DEFINE d == CountDelta(cnt, old.role, old.auth, -1)
    <3>1. d[b] = IF was THEN cnt[b] + (-1) ELSE cnt[b]
      BY <2>2 DEF CountDelta
    <3>2. cnt' = CountDelta(d, new.role, new.auth, 1)
      BY <1>5, <2>2
    <3> HIDE DEF d
    <3>3. cnt'[b] = IF is THEN d[b] + 1 ELSE d[b]
      BY <3>2 DEF CountDelta
    <3> HIDE DEF n, is, was
    <3>4. d[b] = IF was THEN n - 1 ELSE n
      BY <1>8, <1>9, <3>1
    <3> QED
      BY <1>8, <3>3, <3>4
  <2> QED
    BY <2>1, <2>2
<1> HIDE DEF n, m, is, was
<1> QED
  BY <1>8, <1>10, <1>11, <1>12

\* The cleanup tick takes the stale entries out of the counters it drops.
LEMMA PurgeCounts ==
    ASSUME TypeOK, CountersMatch, Purge
    PROVE  CountersMatch'
<1> SUFFICES ASSUME NEW b \in Bucket
             PROVE  cnt'[b] = Cardinality(InBucket(b)')
  BY DEF CountersMatch
<1> DEFINE S == InBucket(b)
<1>1. cnt'[b] = cnt[b] - Cardinality({k \in Stale :
                  b \in BucketsOf(proxies[k].role, proxies[k].auth)})
  BY DEF Purge
<1>2. {k \in Stale : b \in BucketsOf(proxies[k].role, proxies[k].auth)} = S \cap Stale
  BY DEF Stale, InBucket
<1>3. InBucket(b)' = S \ Stale
  BY DEF Purge, InBucket, Registered
<1>4. IsFiniteSet(S)
  BY InBucketFinite
<1>5. Cardinality(S \ Stale) = Cardinality(S) - Cardinality(S \cap Stale)
  BY <1>4, FS_Difference
<1> QED
  BY <1>1, <1>2, <1>3, <1>5 DEF CountersMatch

\* Every action keeps the counters equal to the registry.
LEMMA CountersStep == TypeOK /\ CountersMatch /\ [Next]_vars => CountersMatch'
<1> SUFFICES ASSUME TypeOK, CountersMatch, [Next]_vars PROVE CountersMatch'
  OBVIOUS
<1> USE KeyFacts
<1>0. ASSUME UNCHANGED <<proxies, cnt>> PROVE CountersMatch'
  BY <1>0, SameBuckets DEF Registered
<1>1. ASSUME NEW c \in Conn, NEW id \in RawId, NEW ip \in Ip, Hello(c, id, ip)
      PROVE  CountersMatch'
  BY <1>0, <1>1 DEF Hello
<1>2. ASSUME NEW c \in Conn, NEW f \in Frame, ReadFrame(c, f)
      PROVE  CountersMatch'
  BY <1>0, <1>2 DEF ReadFrame
<1>3. ASSUME NEW c \in Conn, PeerClose(c) PROVE CountersMatch'
  BY <1>0, <1>3 DEF PeerClose
<1>4. ASSUME NEW c \in Conn, ClosePrev(c) PROVE CountersMatch'
  BY <1>0, <1>4 DEF ClosePrev
<1>5. ASSUME NEW c \in Conn, HandlerExit(c) PROVE CountersMatch'
  BY <1>0, <1>5 DEF HandlerExit
<1>6. ASSUME NEW c \in Conn, RegisterReject(c) PROVE CountersMatch'
  BY <1>0, <1>6 DEF RegisterReject
<1>7. ASSUME NEW c \in Conn, ApplyRegister(c) PROVE CountersMatch'
  BY <1>7, RegisterCounts
<1>8. ASSUME NEW c \in Conn, ApplyPing(c) PROVE CountersMatch'
  <2> DEFINE k == NodeKey[conns[c].id]
             p == [proxies[k] EXCEPT !.age = 0]
  <2>1. k \in Key
    BY DEF TypeOK, Handler
  <2>2. CASE Registered(k) /\ proxies' = [proxies EXCEPT ![k] = p]
    <3>1. proxies[k] \in Proxy
      BY <2>1, <2>2 DEF Registered, TypeOK
    <3>2. p \in Proxy /\ p.role = proxies[k].role /\ p.auth = proxies[k].auth
      BY <3>1, MaxAgeFacts DEF Proxy
    <3>3. cnt' = cnt
      BY <1>8 DEF ApplyPing
    <3> QED
      BY <2>1, <2>2, <3>2, <3>3, SameRole
  <2>3. CASE proxies' = proxies
    BY <1>0, <1>8, <2>3 DEF ApplyPing
  <2> QED
    BY <1>8, <2>2, <2>3 DEF ApplyPing
<1>9. ASSUME NEW k \in Key, NEW s \in Service, NEW v \in SvcState,
             Registered(k), proxies' = [proxies EXCEPT ![k] = Patched(proxies[k], s, v)],
             cnt' = cnt
      PROVE  CountersMatch'
  <2> DEFINE p == Patched(proxies[k], s, v)
  <2>1. proxies[k] \in Proxy
    BY <1>9 DEF Registered, TypeOK
  <2>2. p \in Proxy
    BY <2>1, PatchType
  <2>3. p.role = proxies[k].role /\ p.auth = proxies[k].auth
    BY <2>1 DEF Proxy, Patched
  <2> HIDE DEF p
  <2> QED
    BY <1>9, <2>2, <2>3, SameRole DEF p
<1>10. ASSUME NEW c \in Conn, ApplyServiceLifecycle(c) PROVE CountersMatch'
  <2> DEFINE f == conns[c].frame
             k == NodeKey[conns[c].id]
  <2>1. k \in Key /\ f \in EventMsg
    BY <1>10, BusyFrame, FrameKinds DEF ApplyServiceLifecycle, TypeOK, Handler
  <2>2. f.svc \in Service
    BY <2>1 DEF EventMsg
  <2>3. CASE Registered(k) /\ f.event # "none"
    <3>1. proxies[k].svcs[f.svc] \in SvcState
      BY <2>1, <2>2, <2>3 DEF Registered, TypeOK, Proxy, Services
    <3>2. PatchEvent(proxies[k].svcs[f.svc], f.event) \in SvcState
      BY <2>2, <3>1 DEF PatchEvent, SvcState
    <3> QED
      BY <1>9, <1>10, <2>1, <2>2, <2>3, <3>2 DEF ApplyServiceLifecycle
  <2>4. CASE ~(Registered(k) /\ f.event # "none")
    BY <1>0, <1>10, <2>4 DEF ApplyServiceLifecycle
  <2> QED
    BY <2>3, <2>4
<1>11. ASSUME NEW c \in Conn, MetricPatch(c) PROVE CountersMatch'
  <2> DEFINE f == conns[c].frame
             k == NodeKey[conns[c].id]
             m == Head(f.batch)
  <2>1. k \in Key /\ f \in MetricsMsg
    BY <1>11, BusyFrame, FrameKinds DEF MetricPatch, TypeOK, Handler
  <2>2. m \in [svc : Service, status : Status]
    BY <2>1, BatchTail
  <2>3. CASE Registered(k)
    <3> HIDE DEF m
    <3>1. proxies[k].svcs[m.svc] \in SvcState
      BY <2>1, <2>2, <2>3 DEF Registered, TypeOK, Proxy, Services
    <3>2. m.svc \in Service /\ PatchStatus(proxies[k].svcs[m.svc], m.status) \in SvcState
      BY <2>2, <3>1 DEF PatchStatus, SvcState, Status
    <3> QED
      BY <1>9, <1>11, <2>1, <2>3, <3>2 DEF MetricPatch, m
  <2>4. CASE ~Registered(k)
    BY <1>0, <1>11, <2>4 DEF MetricPatch
  <2> QED
    BY <2>3, <2>4
<1>12. ASSUME NEW c \in Conn, MetricStore(c) PROVE CountersMatch'
  BY <1>0, <1>12 DEF MetricStore
<1>13. ASSUME NEW c \in Conn, ConnectLookup(c) PROVE CountersMatch'
  BY <1>0, <1>13 DEF ConnectLookup
<1>14. ASSUME NEW c \in Conn, ConnectReply(c) PROVE CountersMatch'
  BY <1>0, <1>14 DEF ConnectReply
<1>15. ASSUME NEW id \in RawId, NEW ip \in Ip, NEW port \in UdpPort,
              LearnPublicAddr(id, ip, port)
       PROVE  CountersMatch'
  <2> DEFINE k == NodeKey[id]
             p == [proxies[k] EXCEPT !.addr = <<ip, port>>]
  <2>1. k \in Key /\ Registered(k) /\ proxies[k] \in Proxy
    BY <1>15 DEF LearnPublicAddr, Registered, TypeOK
  <2>2. <<ip, port>> \in Addr
    BY DEF Addr
  <2>3. p \in Proxy /\ p.role = proxies[k].role /\ p.auth = proxies[k].auth
    BY <2>1, <2>2 DEF Proxy
  <2>4. proxies' = proxies \/ proxies' = [proxies EXCEPT ![k] = p]
    BY <1>15 DEF LearnPublicAddr
  <2>5. cnt' = cnt
    BY <1>15 DEF LearnPublicAddr
  <2> QED
    BY <1>0, <2>1, <2>3, <2>4, <2>5, SameRole
<1>16. ASSUME Purge PROVE CountersMatch'
  BY <1>16, PurgeCounts
<1>17. ASSUME PruneSnapshot \/ PruneMetrics PROVE CountersMatch'
  BY <1>0, <1>17 DEF PruneSnapshot, PruneMetrics
<1>18. ASSUME Tick PROVE CountersMatch'
  <2>1. ASSUME NEW k \in Key
        PROVE  /\ Registered(k)' = Registered(k)
               /\ Registered(k) => /\ proxies'[k].role = proxies[k].role
                                   /\ proxies'[k].auth = proxies[k].auth
    <3>1. CASE Registered(k) /\ proxies[k].age < MaxAge
      <4> DEFINE p == [proxies[k] EXCEPT !.age = @ + 1]
      <4>1. proxies'[k] = p
        BY <1>18, <3>1 DEF Tick
      <4>2. proxies[k] \in Proxy
        BY <3>1 DEF Registered, TypeOK
      <4>3. p.role = proxies[k].role /\ p.auth = proxies[k].auth
        BY <4>2 DEF Proxy
      <4>4. p # NoProxy
        <5>1. proxies'[k] \in Proxy \cup {NoProxy} /\ proxies[k].age \in 0..MaxAge
          BY <4>2, TypeStep DEF TypeOK, Proxy
        <5>2. proxies[k].age + 1 \in 0..MaxAge
          BY <3>1, <5>1, MaxAgeFacts
        <5>3. p \in Proxy
          BY <4>2, <5>2 DEF Proxy
        <5> QED
          BY <5>3, NullAssumption
      <4> QED
        BY <3>1, <4>1, <4>3, <4>4 DEF Registered
    <3>2. CASE ~(Registered(k) /\ proxies[k].age < MaxAge)
      BY <1>18, <3>2 DEF Tick, Registered
    <3> QED
      BY <3>1, <3>2
  <2> QED
    BY <1>18, <2>1, SameBuckets DEF Tick
<1>19. ASSUME Restart PROVE CountersMatch'
  <2>1. ASSUME NEW b \in Bucket PROVE InBucket(b)' = {} /\ cnt'[b] = 0
    BY <1>19 DEF Restart, InBucket, Registered
  <2> QED
    BY <2>1, FS_EmptySet DEF CountersMatch
<1>20. CASE UNCHANGED vars
  BY <1>0, <1>20 DEF vars
<1> QED
  BY <1>1, <1>2, <1>3, <1>4, <1>5, <1>6, <1>7, <1>8, <1>10, <1>11, <1>12, <1>13,
     <1>14, <1>15, <1>16, <1>17, <1>18, <1>19, <1>20
     DEF Next, Handle, Cleanup

\* /health and the directory totals never leak or double-count a node: through
\* new and repeated registers, role swaps, auth-mode flips, purges and restarts,
\* each counter equals the number of registered nodes of its bucket.
THEOREM CountersCorrect == Spec => []CountersMatch
<1>1. Init => CountersMatch
  BY EmptyBuckets DEF Init
<1>2. TypeOK /\ CountersMatch /\ [Next]_vars => CountersMatch'
  BY CountersStep
<1> QED
  BY <1>1, <1>2, TypeCorrect, PTL DEF Spec

(***************************************************************************)
(* Control connections.                                                    *)
(***************************************************************************)

\* Only a handler that has not yet closed its predecessor holds one, and it
\* never holds itself: without this, a handler's exit could take away the
\* evidence that another open connection is about to be closed.
PrevInv ==
    \A c \in Conn : conns[c].prev # NoConn => /\ conns[c].pc = "swapped"
                                              /\ conns[c].prev # c

ConnInv == ConnsReachable /\ PrevInv

\* A step that changes only one handler, and there neither its identity, its
\* predecessor nor whether it is free, and opens nothing, keeps ConnInv.
LEMMA SameConn ==
    ASSUME TypeOK, ConnInv, controlConns' = controlConns, NEW c \in Conn, NEW h \in Handler,
           conns' = [conns EXCEPT ![c] = h],
           h.id = conns[c].id, h.prev = conns[c].prev, h.open => conns[c].open,
           conns[c].pc # "free", h.pc # "free",
           conns[c].pc = "swapped" => h.pc = "swapped"
    PROVE  ConnInv'
<1>1. conns'[c] = h /\ \A e \in Conn \ {c} : conns'[e] = conns[e]
  BY DEF TypeOK
<1>2. \A e \in Conn : /\ conns'[e].id = conns[e].id /\ conns'[e].prev = conns[e].prev
                      /\ conns'[e].open => conns[e].open
                      /\ conns'[e].pc = "free" <=> conns[e].pc = "free"
                      /\ conns[e].pc = "swapped" => conns'[e].pc = "swapped"
  BY <1>1
<1>3. PrevInv'
  BY <1>2 DEF ConnInv, PrevInv
<1>4. \A k \in Key : controlConns[k] # NoConn => controlConns[k] \in Conn
  BY DEF TypeOK
<1>5. ConnsReachable'
  BY <1>2, <1>4 DEF ConnInv, ConnsReachable
<1> QED
  BY <1>3, <1>5 DEF ConnInv

\* Ending a frame is such a step.
LEMMA DoneConn ==
    ASSUME TypeOK, ConnInv, controlConns' = controlConns, NEW c \in Conn, Done(c),
           conns[c].pc \notin {"free", "swapped"}
    PROVE  ConnInv'
<1> DEFINE h == [conns[c] EXCEPT !.pc = "ready", !.frame = NoFrame,
                              !.seen = NoAddr, !.seenLocal = NoAddr]
<1>1. conns[c] \in Handler /\ NoFrame \in Work /\ NoAddr \in Addr
  BY DEF TypeOK, Work, Addr
<1>2. h \in Handler /\ h.pc = "ready" /\ h.id = conns[c].id
      /\ h.prev = conns[c].prev /\ h.open = conns[c].open
  BY <1>1 DEF Handler
<1>3. conns' = [conns EXCEPT ![c] = h]
  BY DEF Done
<1> QED
  BY <1>2, <1>3, SameConn

\* So is moving to the next row of a metrics batch.
LEMMA NextRowConn ==
    ASSUME TypeOK, ConnInv, controlConns' = controlConns, NEW c \in Conn, NextRow(c),
           conns[c].frame \in MetricsMsg, conns[c].pc \notin {"free", "swapped"}
    PROVE  ConnInv'
<1>1. CASE Len(conns[c].frame.batch) = 1
  BY <1>1, DoneConn DEF NextRow
<1>2. CASE Len(conns[c].frame.batch) # 1
  <2> DEFINE g == [type |-> "metrics", batch |-> Tail(conns[c].frame.batch)]
             h == [conns[c] EXCEPT !.pc = "busy", !.frame = g]
  <2>1. g \in Work /\ conns[c] \in Handler
    BY <1>2, BatchTail DEF Work, TypeOK
  <2>2. conns' = [conns EXCEPT ![c] = h]
    BY <1>2 DEF NextRow
  <2> HIDE DEF g
  <2>3. h \in Handler /\ h.pc = "busy" /\ h.id = conns[c].id
        /\ h.prev = conns[c].prev /\ h.open = conns[c].open
    BY <2>1 DEF Handler
  <2> QED
    BY <2>2, <2>3, SameConn
<1> QED
  BY <1>1, <1>2

\* Every action keeps ConnInv.
LEMMA ConnStep == TypeOK /\ ConnInv /\ [Next]_vars => ConnInv'
<1> SUFFICES ASSUME TypeOK, ConnInv, [Next]_vars PROVE ConnInv'
  OBVIOUS
<1> USE KeyFacts
<1>0. ASSUME UNCHANGED <<conns, controlConns>> PROVE ConnInv'
  BY <1>0 DEF ConnInv, ConnsReachable, PrevInv
<1>a. \A k \in Key : controlConns[k] \in Conn \cup {NoConn}
  BY DEF TypeOK
<1>b. \A e \in Conn : NodeKey[conns[e].id] \in Key
  BY DEF TypeOK, Handler
<1>1. ASSUME NEW c \in Conn, NEW id \in RawId, NEW ip \in Ip, Hello(c, id, ip)
      PROVE  ConnInv'
  <2> DEFINE k == NodeKey[id]
             h == [pc |-> "swapped", open |-> TRUE, id |-> id, ip |-> ip,
                   prev |-> controlConns[k], frame |-> NoFrame, seen |-> NoAddr,
                   seenLocal |-> NoAddr]
  <2>1. k \in Key /\ conns[c].pc = "free" /\ \A d \in Conn : conns[d].prev # c
    BY <1>1 DEF Hello
  <2>2. conns'[c] = h /\ \A e \in Conn \ {c} : conns'[e] = conns[e]
    BY <1>1 DEF Hello, TypeOK
  <2>3. controlConns'[k] = c /\ \A j \in Key \ {k} : controlConns'[j] = controlConns[j]
    BY <1>1, <2>1 DEF Hello, TypeOK
  <2>4. h.pc = "swapped" /\ h.id = id /\ h.prev = controlConns[k]
    OBVIOUS
  <2> HIDE DEF h
  <2>5. \A j \in Key : controlConns[j] # c
    BY <2>1, NullAssumption DEF ConnInv, ConnsReachable
  <2>6. PrevInv'
    BY <2>1, <2>2, <2>4, <2>5 DEF ConnInv, PrevInv
  <2>7. ASSUME NEW e \in Conn, conns'[e].pc # "free", conns'[e].open
        PROVE  \/ controlConns'[NodeKey[conns'[e].id]] = e
               \/ \E d \in Conn : conns'[d].prev = e
    <3>1. CASE e = c
      BY <2>2, <2>3, <2>4, <3>1
    <3>2. CASE e # c /\ controlConns[NodeKey[conns[e].id]] = e
      <4>1. CASE NodeKey[conns[e].id] = k
        BY <2>2, <2>4, <3>2, <4>1
      <4>2. CASE NodeKey[conns[e].id] # k
        BY <1>b, <2>2, <2>3, <3>2, <4>2
      <4> QED
        BY <4>1, <4>2
    <3>3. CASE e # c /\ controlConns[NodeKey[conns[e].id]] # e
      <4>1. PICK d \in Conn : conns[d].prev = e
        BY <2>2, <2>7, <3>3 DEF ConnInv, ConnsReachable
      <4>2. d # c
        <5>1. conns[d].prev # NoConn
          BY <4>1, NullAssumption
        <5> QED
          BY <2>1, <4>1, <5>1 DEF ConnInv, PrevInv
      <4> QED
        BY <2>2, <4>1, <4>2
    <3> QED
      BY <3>1, <3>2, <3>3
  <2>8. ASSUME NEW j \in Key, controlConns'[j] # NoConn
        PROVE  /\ conns'[controlConns'[j]].pc # "free"
               /\ NodeKey[conns'[controlConns'[j]].id] = j
    <3>1. CASE j = k
      BY <2>2, <2>3, <2>4, <3>1
    <3>2. CASE j # k
      <4>1. controlConns'[j] = controlConns[j] /\ controlConns[j] \in Conn \ {c}
        BY <1>a, <2>3, <2>5, <2>8, <3>2
      <4> QED
        BY <2>2, <2>8, <4>1 DEF ConnInv, ConnsReachable
    <3> QED
      BY <3>1, <3>2
  <2>9. ConnsReachable'
    BY <2>7, <2>8 DEF ConnsReachable
  <2> QED
    BY <2>6, <2>9 DEF ConnInv
<1>2. ASSUME NEW c \in Conn, ClosePrev(c) PROVE ConnInv'
  <2> DEFINE p == conns[c].prev
             g == [conns[c] EXCEPT !.pc = "ready", !.prev = NoConn]
  <2>1. conns[c].pc = "swapped" /\ p # c
    <3>1. p # NoConn => p # c
      BY DEF ConnInv, PrevInv
    <3> QED
      BY <1>2, <3>1, NullAssumption DEF ClosePrev
  <2>2. /\ conns'[c] = g
        /\ \A e \in Conn \ {c, p} : conns'[e] = conns[e]
        /\ p \in Conn => conns'[p] = [conns[p] EXCEPT !.open = FALSE]
    BY <1>2, <2>1 DEF ClosePrev
  <2>3. \A e \in Conn : conns[e] \in Handler
    BY DEF TypeOK
  <2>4. g.pc = "ready" /\ g.prev = NoConn /\ g.id = conns[c].id /\ g.open = conns[c].open
    BY <2>3 DEF Handler
  <2>5. ASSUME NEW e \in Conn
        PROVE  /\ conns'[e].id = conns[e].id
               /\ conns'[e].open => conns[e].open
               /\ conns'[e].pc = "free" <=> conns[e].pc = "free"
               /\ e # c => conns'[e].prev = conns[e].prev /\ conns'[e].pc = conns[e].pc
               /\ e = p => ~conns'[e].open
    <3>1. CASE e = c
      BY <2>1, <2>2, <2>4, <3>1
    <3>2. CASE e = p
      <4> DEFINE q == [conns[e] EXCEPT !.open = FALSE]
      <4>1. conns'[e] = q
        BY <2>2, <3>2
      <4>2. q.id = conns[e].id /\ ~q.open /\ q.pc = conns[e].pc /\ q.prev = conns[e].prev
        BY <2>3 DEF Handler
      <4> QED
        BY <2>1, <3>2, <4>1, <4>2
    <3>3. CASE e # c /\ e # p
      BY <2>2, <3>3
    <3> QED
      BY <3>1, <3>2, <3>3
  <2>6. PrevInv'
    <3>1. ASSUME NEW e \in Conn, conns'[e].prev # NoConn
          PROVE  conns'[e].pc = "swapped" /\ conns'[e].prev # e
      <4>1. e # c
        BY <2>2, <2>4, <3>1
      <4> QED
        BY <2>5, <3>1, <4>1 DEF ConnInv, PrevInv
    <3> QED
      BY <3>1 DEF PrevInv
  <2>7. controlConns' = controlConns
    BY <1>2 DEF ClosePrev
  <2>8. ASSUME NEW e \in Conn, conns'[e].pc # "free", conns'[e].open
        PROVE  \/ controlConns'[NodeKey[conns'[e].id]] = e
               \/ \E d \in Conn : conns'[d].prev = e
    <3>1. CASE controlConns[NodeKey[conns[e].id]] = e
      BY <2>5, <2>7, <3>1
    <3>2. CASE controlConns[NodeKey[conns[e].id]] # e
      <4>1. PICK d \in Conn : conns[d].prev = e
        BY <2>5, <2>8, <3>2 DEF ConnInv, ConnsReachable
      <4>2. d # c
        BY <2>5, <2>8, <4>1
      <4> QED
        BY <2>5, <4>1, <4>2
    <3> QED
      BY <3>1, <3>2
  <2>9. ConnsReachable'
    BY <1>a, <2>5, <2>7, <2>8 DEF ConnInv, ConnsReachable
  <2> QED
    BY <2>6, <2>9 DEF ConnInv
<1>3. ASSUME NEW c \in Conn, HandlerExit(c) PROVE ConnInv'
  <2> DEFINE k == NodeKey[conns[c].id]
  <2>1. conns[c].pc = "ready" /\ ~conns[c].open
    BY <1>3 DEF HandlerExit
  <2>2. conns'[c] = FreeHandler /\ \A e \in Conn \ {c} : conns'[e] = conns[e]
    BY <1>3 DEF HandlerExit, TypeOK
  <2>3. FreeHandler.pc = "free" /\ FreeHandler.prev = NoConn
    BY DEF FreeHandler
  <2>4. conns[c].prev = NoConn
    BY <2>1 DEF ConnInv, PrevInv
  <2>5. PrevInv'
    BY <2>2, <2>3 DEF ConnInv, PrevInv
  <2>6. \A j \in Key : controlConns'[j] = IF controlConns[j] = c THEN NoConn
                                           ELSE controlConns[j]
    <3>1. \A j \in Key : controlConns[j] = c => j = k
      BY NullAssumption DEF ConnInv, ConnsReachable
    <3> QED
      BY <1>3, <1>b, <3>1 DEF HandlerExit, TypeOK
  <2>7. ASSUME NEW e \in Conn, conns'[e].pc # "free", conns'[e].open
        PROVE  \/ controlConns'[NodeKey[conns'[e].id]] = e
               \/ \E d \in Conn : conns'[d].prev = e
    <3>1. e # c /\ conns'[e] = conns[e]
      BY <2>2, <2>3, <2>7
    <3>2. CASE controlConns[NodeKey[conns[e].id]] = e
      BY <1>b, <2>6, <3>1, <3>2
    <3>3. CASE controlConns[NodeKey[conns[e].id]] # e
      <4>1. PICK d \in Conn : conns[d].prev = e
        BY <2>7, <3>1, <3>3 DEF ConnInv, ConnsReachable
      <4>2. d # c
        BY <2>4, <4>1, NullAssumption
      <4> QED
        BY <2>2, <4>1, <4>2
    <3> QED
      BY <3>2, <3>3
  <2>8. ASSUME NEW j \in Key, controlConns'[j] # NoConn
        PROVE  /\ conns'[controlConns'[j]].pc # "free"
               /\ NodeKey[conns'[controlConns'[j]].id] = j
    <3>1. controlConns'[j] = controlConns[j] /\ controlConns[j] \in Conn \ {c}
      BY <1>a, <2>6, <2>8
    <3> QED
      BY <2>2, <2>8, <3>1 DEF ConnInv, ConnsReachable
  <2>9. ConnsReachable'
    BY <2>7, <2>8 DEF ConnsReachable
  <2> QED
    BY <2>5, <2>9 DEF ConnInv
<1>4. ASSUME NEW c \in Conn, NEW f \in Frame, ReadFrame(c, f) PROVE ConnInv'
  <2> DEFINE h == [conns[c] EXCEPT !.pc = "busy", !.frame = f]
  <2>1. conns[c] \in Handler /\ f \in Work
    BY DEF TypeOK, Work
  <2>2. h \in Handler /\ h.pc = "busy" /\ h.id = conns[c].id
        /\ h.prev = conns[c].prev /\ h.open = conns[c].open
    BY <2>1 DEF Handler
  <2> QED
    BY <1>4, <2>2, SameConn DEF ReadFrame
<1>5. ASSUME NEW c \in Conn, PeerClose(c) PROVE ConnInv'
  <2> DEFINE h == [conns[c] EXCEPT !.open = FALSE]
  <2>1. conns[c] \in Handler
    BY DEF TypeOK
  <2>2. h \in Handler /\ h.pc = conns[c].pc /\ h.id = conns[c].id
        /\ h.prev = conns[c].prev /\ ~h.open
    BY <2>1 DEF Handler
  <2> QED
    BY <1>5, <2>2, SameConn DEF PeerClose
<1>6. ASSUME NEW c \in Conn,
             RegisterReject(c) \/ ApplyRegister(c) \/ ApplyPing(c)
               \/ ApplyServiceLifecycle(c) \/ ConnectReply(c)
      PROVE  ConnInv'
  <2>1. Done(c) /\ controlConns' = controlConns /\ conns[c].pc \in {"busy", "connect"}
    BY <1>6 DEF RegisterReject, ApplyRegister, ApplyPing, ApplyServiceLifecycle,
                ConnectReply
  <2> QED
    BY <2>1, DoneConn
<1>7. ASSUME NEW c \in Conn, MetricPatch(c) PROVE ConnInv'
  <2>1. conns[c].pc = "busy" /\ controlConns' = controlConns
        /\ conns[c].frame \in MetricsMsg
    BY <1>7, BusyFrame, FrameKinds DEF MetricPatch
  <2>2. CASE conns' = [conns EXCEPT ![c] = [@ EXCEPT !.pc = "metric"]]
    <3> DEFINE h == [conns[c] EXCEPT !.pc = "metric"]
    <3>1. conns[c] \in Handler
      BY DEF TypeOK
    <3>2. h \in Handler /\ h.pc = "metric" /\ h.id = conns[c].id
          /\ h.prev = conns[c].prev /\ h.open = conns[c].open
      BY <3>1 DEF Handler
    <3> QED
      BY <2>1, <2>2, <3>2, SameConn
  <2>3. CASE NextRow(c)
    BY <2>1, <2>3, NextRowConn
  <2> QED
    BY <1>7, <2>2, <2>3 DEF MetricPatch
<1>8. ASSUME NEW c \in Conn, MetricStore(c) PROVE ConnInv'
  <2>1. conns[c].pc = "metric" /\ NextRow(c) /\ controlConns' = controlConns
        /\ conns[c].frame \in MetricsMsg
    BY <1>8 DEF MetricStore, TypeOK, FrameOK
  <2> QED
    BY <2>1, NextRowConn
<1>9. ASSUME NEW c \in Conn, ConnectLookup(c) PROVE ConnInv'
  <2> DEFINE t == NodeKey[conns[c].frame.target]
             h == [conns[c] EXCEPT !.pc = "connect", !.seen = proxies[t].addr,
                                   !.seenLocal = proxies[t].local]
  <2>1. conns[c].pc = "busy" /\ controlConns' = controlConns
    BY <1>9 DEF ConnectLookup
  <2>2. CASE Registered(t)
    <3>1. conns[c].frame \in ConnectMsg
      BY <1>9, BusyFrame, FrameKinds DEF ConnectLookup
    <3>2. t \in Key
      BY <3>1 DEF ConnectMsg
    <3>3. proxies[t].addr \in Addr /\ conns[c] \in Handler
          /\ proxies[t].local \in LocalAddr \cup {NoAddr}
      BY <2>2, <3>2 DEF TypeOK, Registered, Proxy
    <3>4. h \in Handler /\ h.pc = "connect" /\ h.id = conns[c].id
          /\ h.prev = conns[c].prev /\ h.open = conns[c].open
      BY <3>3 DEF Handler
    <3>5. conns' = [conns EXCEPT ![c] = h]
      BY <1>9, <2>2 DEF ConnectLookup
    <3> QED
      BY <2>1, <3>4, <3>5, SameConn
  <2>3. CASE ~Registered(t)
    BY <1>9, <2>1, <2>3, DoneConn DEF ConnectLookup
  <2> QED
    BY <2>2, <2>3
<1>10. ASSUME NEW id \in RawId, NEW ip \in Ip, NEW port \in UdpPort,
              LearnPublicAddr(id, ip, port)
       PROVE  ConnInv'
  BY <1>0, <1>10 DEF LearnPublicAddr
<1>11. ASSUME Purge \/ PruneSnapshot \/ PruneMetrics \/ Tick PROVE ConnInv'
  BY <1>0, <1>11 DEF Purge, PruneSnapshot, PruneMetrics, Tick
<1>12. ASSUME Restart PROVE ConnInv'
  <2>1. FreeHandler.pc = "free" /\ FreeHandler.prev = NoConn
    BY DEF FreeHandler
  <2>2. \A e \in Conn : conns'[e] = FreeHandler
    BY <1>12 DEF Restart
  <2>3. \A k \in Key : controlConns'[k] = NoConn
    BY <1>12 DEF Restart
  <2> QED
    BY <2>1, <2>2, <2>3 DEF ConnInv, ConnsReachable, PrevInv
<1>13. CASE UNCHANGED vars
  BY <1>0, <1>13 DEF vars
<1> QED
  BY <1>1, <1>2, <1>3, <1>4, <1>5, <1>6, <1>7, <1>8, <1>9, <1>10, <1>11, <1>12, <1>13
     DEF Next, Handle, Cleanup

\* An open control connection stays the one PushToNode finds, or is about to be
\* closed by the newer hello that displaced it, and controlConns names only
\* running handlers of the right node, whatever displacements, closes and exits
\* interleave.
THEOREM ReachableCorrect == Spec => []ConnsReachable
<1>1. Init => ConnInv
  <2>1. FreeHandler.pc = "free" /\ FreeHandler.prev = NoConn
    BY DEF FreeHandler
  <2> QED
    BY <2>1 DEF Init, ConnInv, ConnsReachable, PrevInv
<1>2. TypeOK /\ ConnInv /\ [Next]_vars => ConnInv'
  BY ConnStep
<1>3. ConnInv => ConnsReachable
  BY DEF ConnInv
<1> QED
  BY <1>1, <1>2, <1>3, TypeCorrect, PTL DEF Spec

(***************************************************************************)
(* Local addresses.                                                        *)
(***************************************************************************)

LocalEntry == \A k \in Key : Registered(k) => proxies[k].local \in told[k] \cup {NoAddr}

LocalSeen == \A c \in Conn : conns[c].pc = "connect" =>
                conns[c].seenLocal \in told[NodeKey[conns[c].frame.target]] \cup {NoAddr}

\* The local address of an entry, and the one handleConnect carries out of the
\* lock, was reported by a register under the node's id.
LocalInv == LocalEntry /\ LocalSeen

\* An entry that is there after a step has kept its local address or has one
\* that was reported.
EntriesKept ==
    \A k \in Key : Registered(k)' =>
        \/ Registered(k) /\ proxies'[k].local = proxies[k].local
        \/ proxies'[k].local \in told'[k] \cup {NoAddr}

\* A handler that answers a connect after a step was about to do so before it.
ConnectsKept ==
    \A e \in Conn : conns'[e].pc = "connect" =>
        /\ conns[e].pc = "connect" /\ conns'[e].frame = conns[e].frame
        /\ conns'[e].seenLocal = conns[e].seenLocal

ToldKept == \A k \in Key : told[k] \subseteq told'[k]

\* Such a step keeps LocalInv.
LEMMA LocalKept ==
    ASSUME TypeOK, LocalInv, ToldKept, EntriesKept, ConnectsKept
    PROVE  LocalInv'
<1>1. LocalEntry'
  <2>1. ASSUME NEW k \in Key, Registered(k)'
        PROVE  proxies'[k].local \in told'[k] \cup {NoAddr}
    <3>1. Registered(k) => proxies[k].local \in told'[k] \cup {NoAddr}
      BY DEF LocalInv, LocalEntry, ToldKept
    <3> QED
      BY <2>1, <3>1 DEF EntriesKept
  <2> QED
    BY <2>1 DEF LocalEntry
<1>2. LocalSeen'
  <2>1. ASSUME NEW e \in Conn, conns'[e].pc = "connect"
        PROVE  conns'[e].seenLocal
                 \in told'[NodeKey[conns'[e].frame.target]] \cup {NoAddr}
    <3>1. /\ conns[e].pc = "connect" /\ conns'[e].frame = conns[e].frame
          /\ conns'[e].seenLocal = conns[e].seenLocal
      BY <2>1 DEF ConnectsKept
    <3>2. conns[e].frame \in ConnectMsg
      BY <3>1 DEF TypeOK, FrameOK
    <3>3. NodeKey[conns[e].frame.target] \in Key
      BY <3>2, KeyFacts DEF ConnectMsg
    <3> QED
      BY <3>1, <3>3 DEF LocalInv, LocalSeen, ToldKept
  <2> QED
    BY <2>1 DEF LocalSeen
<1> QED
  BY <1>1, <1>2 DEF LocalInv

\* A handler that ends its frame, or goes to the next row, answers no connect.
LEMMA DoneKept ==
    ASSUME TypeOK, NEW c \in Conn, Done(c) \/ NextRow(c)
    PROVE  ConnectsKept
<1> DEFINE h == [conns[c] EXCEPT !.pc = "ready", !.frame = NoFrame,
                              !.seen = NoAddr, !.seenLocal = NoAddr]
           g == [conns[c] EXCEPT !.pc = "busy",
                   !.frame = [type |-> "metrics", batch |-> Tail(conns[c].frame.batch)]]
<1>1. conns' = [conns EXCEPT ![c] = h] \/ conns' = [conns EXCEPT ![c] = g]
  BY DEF NextRow, Done
<1>2. conns[c] \in Handler
  BY DEF TypeOK
<1>3. h.pc = "ready" /\ g.pc = "busy"
  BY <1>2 DEF Handler
<1> HIDE DEF h, g
<1>4. /\ conns'[c].pc # "connect"
      /\ \A e \in Conn \ {c} : conns'[e] = conns[e]
  BY <1>1, <1>3 DEF TypeOK
<1> QED
  BY <1>4 DEF ConnectsKept

\* Every action keeps LocalInv.
LEMMA LocalStep == TypeOK /\ LocalInv /\ [Next]_vars => LocalInv'
<1> SUFFICES ASSUME TypeOK, LocalInv, [Next]_vars PROVE LocalInv'
  OBVIOUS
<1> USE KeyFacts
<1>a. ASSUME proxies' = proxies PROVE EntriesKept
  BY <1>a DEF EntriesKept, Registered
<1>b. ASSUME conns' = conns PROVE ConnectsKept
  BY <1>b DEF ConnectsKept
<1>c. ASSUME told' = told PROVE ToldKept
  BY <1>c DEF ToldKept
<1>d. ASSUME NEW k \in Key, NEW p, Registered(k), p.local = proxies[k].local,
             proxies' = [proxies EXCEPT ![k] = p]
      PROVE  EntriesKept
  <2>1. proxies'[k] = p /\ \A j \in Key \ {k} : proxies'[j] = proxies[j]
    BY <1>d DEF TypeOK
  <2> QED
    BY <1>d, <2>1 DEF EntriesKept, Registered
<1>e. ASSUME NEW c \in Conn, NEW h, conns' = [conns EXCEPT ![c] = h], h.pc # "connect"
      PROVE  ConnectsKept
  <2>1. conns'[c] = h /\ \A e \in Conn \ {c} : conns'[e] = conns[e]
    BY <1>e DEF TypeOK
  <2> QED
    BY <1>e, <2>1 DEF ConnectsKept
<1>f. \A e \in Conn : conns[e].id \in RawId /\ NodeKey[conns[e].id] \in Key
  BY DEF TypeOK, Handler
<1>g. ASSUME NEW k \in Key, NEW s, NEW v, Registered(k),
             proxies' = [proxies EXCEPT ![k] = Patched(proxies[k], s, v)]
      PROVE  EntriesKept
  <2> DEFINE p == Patched(proxies[k], s, v)
  <2>1. proxies[k] \in Proxy
    BY <1>g DEF Registered, TypeOK
  <2>2. p.local = proxies[k].local
    BY <2>1 DEF Proxy, Patched
  <2> HIDE DEF p
  <2> QED
    BY <1>d, <1>g, <2>2 DEF p
<1>1. ASSUME NEW c \in Conn, NEW id \in RawId, NEW ip \in Ip, Hello(c, id, ip)
      PROVE  LocalInv'
  <2> DEFINE h == [pc |-> "swapped", open |-> TRUE, id |-> id, ip |-> ip,
                   prev |-> controlConns[NodeKey[id]], frame |-> NoFrame,
                   seen |-> NoAddr, seenLocal |-> NoAddr]
  <2>1. conns' = [conns EXCEPT ![c] = h] /\ proxies' = proxies /\ told' = told
    BY <1>1 DEF Hello
  <2>2. h.pc # "connect"
    OBVIOUS
  <2> HIDE DEF h
  <2> QED
    BY <1>a, <1>c, <1>e, <2>1, <2>2, LocalKept
<1>2. ASSUME NEW c \in Conn, ClosePrev(c) PROVE LocalInv'
  <2>1. ConnectsKept
    <3>1. ASSUME NEW e \in Conn, conns'[e].pc = "connect"
          PROVE  /\ conns[e].pc = "connect" /\ conns'[e].frame = conns[e].frame
                 /\ conns'[e].seenLocal = conns[e].seenLocal
      <4> DEFINE g == [conns[e] EXCEPT !.pc = "ready", !.prev = NoConn]
                 h == [conns[e] EXCEPT !.open = FALSE]
      <4>1. conns'[e] \in {g, h, conns[e]}
        BY <1>2 DEF ClosePrev
      <4>2. conns[e] \in Handler
        BY DEF TypeOK
      <4>3. g.pc = "ready"
        BY <4>2 DEF Handler
      <4>4. h.pc = conns[e].pc /\ h.frame = conns[e].frame
            /\ h.seenLocal = conns[e].seenLocal
        BY <4>2 DEF Handler
      <4> HIDE DEF g, h
      <4> QED
        BY <3>1, <4>1, <4>3, <4>4
    <3> QED
      BY <3>1 DEF ConnectsKept
  <2> QED
    BY <1>2, <1>a, <1>c, <2>1, LocalKept DEF ClosePrev
<1>3. ASSUME NEW c \in Conn, NEW f \in Frame, ReadFrame(c, f) PROVE LocalInv'
  <2> DEFINE h == [conns[c] EXCEPT !.pc = "busy", !.frame = f]
  <2>1. conns' = [conns EXCEPT ![c] = h] /\ proxies' = proxies /\ told' = told
    BY <1>3 DEF ReadFrame
  <2>2. conns[c] \in Handler
    BY DEF TypeOK
  <2>3. h.pc # "connect"
    BY <2>2 DEF Handler
  <2> HIDE DEF h
  <2> QED
    BY <1>a, <1>c, <1>e, <2>1, <2>3, LocalKept
<1>4. ASSUME NEW c \in Conn, PeerClose(c) PROVE LocalInv'
  <2> DEFINE h == [conns[c] EXCEPT !.open = FALSE]
  <2>1. conns' = [conns EXCEPT ![c] = h] /\ proxies' = proxies /\ told' = told
    BY <1>4 DEF PeerClose
  <2>2. conns[c] \in Handler
    BY DEF TypeOK
  <2>3. h.pc = conns[c].pc /\ h.frame = conns[c].frame /\ h.seenLocal = conns[c].seenLocal
    BY <2>2 DEF Handler
  <2> HIDE DEF h
  <2>4. conns'[c] = h /\ \A e \in Conn \ {c} : conns'[e] = conns[e]
    BY <2>1 DEF TypeOK
  <2>5. ConnectsKept
    BY <2>3, <2>4 DEF ConnectsKept
  <2> QED
    BY <1>a, <1>c, <2>1, <2>5, LocalKept
<1>5. ASSUME NEW c \in Conn, HandlerExit(c) PROVE LocalInv'
  <2>1. FreeHandler.pc # "connect"
    BY DEF FreeHandler
  <2>2. conns' = [conns EXCEPT ![c] = FreeHandler] /\ proxies' = proxies /\ told' = told
    BY <1>5 DEF HandlerExit
  <2> QED
    BY <1>a, <1>c, <1>e, <2>1, <2>2, LocalKept
<1>6. ASSUME NEW c \in Conn, RegisterReject(c) PROVE LocalInv'
  BY <1>6, <1>a, <1>c, DoneKept, LocalKept DEF RegisterReject
<1>7. ASSUME NEW c \in Conn, ApplyRegister(c) PROVE LocalInv'
  <2> DEFINE f == conns[c].frame
             k == NodeKey[conns[c].id]
             old == proxies[k]
             p == MergeProxy(old, f, conns[c].ip)
  <2>1. k \in Key /\ Done(c) /\ proxies' = [proxies EXCEPT ![k] = p]
        /\ told' = [told EXCEPT ![k] = @ \cup ({f.local} \ {NoAddr})]
    BY <1>7, <1>f DEF ApplyRegister
  <2>2. /\ told'[k] = told[k] \cup ({f.local} \ {NoAddr})
        /\ \A j \in Key \ {k} : told'[j] = told[j]
    BY <2>1 DEF TypeOK
  <2>3. p.local = IF f.local # NoAddr THEN f.local
                  ELSE IF old = NoProxy THEN NoAddr ELSE old.local
    BY DEF MergeProxy
  <2>4. old # NoProxy => old.local \in told[k] \cup {NoAddr}
    BY <2>1 DEF LocalInv, LocalEntry, Registered
  <2>5. proxies'[k] = p /\ \A j \in Key \ {k} : proxies'[j] = proxies[j]
    BY <2>1 DEF TypeOK
  <2> HIDE DEF f, p, old
  <2>6. p.local \in told'[k] \cup {NoAddr}
    BY <2>2, <2>3, <2>4
  <2>7. EntriesKept
    BY <2>5, <2>6 DEF EntriesKept, Registered
  <2>8. ToldKept
    BY <2>2 DEF ToldKept
  <2> QED
    BY <2>1, <2>7, <2>8, DoneKept, LocalKept
<1>8. ASSUME NEW c \in Conn, ApplyPing(c) PROVE LocalInv'
  <2> DEFINE k == NodeKey[conns[c].id]
             p == [proxies[k] EXCEPT !.age = 0]
  <2>1. told' = told /\ Done(c) /\ k \in Key
        /\ (proxies' = proxies \/ (Registered(k) /\ proxies' = [proxies EXCEPT ![k] = p]))
    BY <1>8, <1>f DEF ApplyPing
  <2>2. Registered(k) => p.local = proxies[k].local
    BY <2>1 DEF Registered, TypeOK, Proxy
  <2> HIDE DEF p
  <2>3. EntriesKept
    BY <1>a, <1>d, <2>1, <2>2
  <2> QED
    BY <1>c, <2>1, <2>3, DoneKept, LocalKept
<1>9. ASSUME NEW c \in Conn, ApplyServiceLifecycle(c) PROVE LocalInv'
  <2>1. EntriesKept
    BY <1>9, <1>a, <1>f, <1>g DEF ApplyServiceLifecycle
  <2> QED
    BY <1>9, <1>c, <2>1, DoneKept, LocalKept DEF ApplyServiceLifecycle
<1>10. ASSUME NEW c \in Conn, MetricPatch(c) PROVE LocalInv'
  <2> DEFINE h == [conns[c] EXCEPT !.pc = "metric"]
  <2>1. EntriesKept
    BY <1>10, <1>a, <1>f, <1>g DEF MetricPatch
  <2>2. conns' = [conns EXCEPT ![c] = h] \/ NextRow(c)
    BY <1>10 DEF MetricPatch
  <2>3. conns[c] \in Handler
    BY DEF TypeOK
  <2>4. h.pc # "connect"
    BY <2>3 DEF Handler
  <2> HIDE DEF h
  <2>5. ConnectsKept
    BY <1>e, <2>2, <2>4, DoneKept
  <2> QED
    BY <1>10, <1>c, <2>1, <2>5, LocalKept DEF MetricPatch
<1>11. ASSUME NEW c \in Conn, MetricStore(c) PROVE LocalInv'
  BY <1>11, <1>a, <1>c, DoneKept, LocalKept DEF MetricStore
<1>12. ASSUME NEW c \in Conn, ConnectLookup(c) PROVE LocalInv'
  <2> DEFINE f == conns[c].frame
             t == NodeKey[f.target]
             h == [conns[c] EXCEPT !.pc = "connect", !.seen = proxies[t].addr,
                                   !.seenLocal = proxies[t].local]
  <2>1. told' = told /\ proxies' = proxies
    BY <1>12 DEF ConnectLookup
  <2>2. CASE Registered(t)
    <3>1. conns' = [conns EXCEPT ![c] = h]
      BY <1>12, <2>2 DEF ConnectLookup
    <3>2. f \in ConnectMsg
      BY <1>12, BusyFrame, FrameKinds DEF ConnectLookup
    <3>3. t \in Key
      BY <3>2 DEF ConnectMsg
    <3>4. h.seenLocal = proxies[t].local /\ h.frame = f
      <4>1. conns[c] \in Handler
        BY DEF TypeOK
      <4> QED
        BY <4>1 DEF Handler
    <3>5. proxies[t].local \in told[t] \cup {NoAddr}
      BY <2>2, <3>3 DEF LocalInv, LocalEntry
    <3> HIDE DEF h
    <3>6. conns'[c] = h /\ \A e \in Conn \ {c} : conns'[e] = conns[e]
      BY <3>1 DEF TypeOK
    <3>7. LocalSeen'
      BY <2>1, <3>4, <3>5, <3>6 DEF LocalInv, LocalSeen
    <3>8. LocalEntry'
      BY <2>1 DEF LocalInv, LocalEntry, Registered
    <3> QED
      BY <3>7, <3>8 DEF LocalInv
  <2>3. CASE ~Registered(t)
    <3>1. Done(c)
      BY <1>12, <2>3 DEF ConnectLookup
    <3> QED
      BY <1>a, <1>c, <2>1, <3>1, DoneKept, LocalKept
  <2> QED
    BY <2>2, <2>3
<1>13. ASSUME NEW c \in Conn, ConnectReply(c) PROVE LocalInv'
  BY <1>13, <1>a, <1>c, DoneKept, LocalKept DEF ConnectReply
<1>14. ASSUME NEW id \in RawId, NEW ip \in Ip, NEW port \in UdpPort,
              LearnPublicAddr(id, ip, port)
       PROVE  LocalInv'
  <2> DEFINE k == NodeKey[id]
             p == [proxies[k] EXCEPT !.addr = <<ip, port>>]
  <2>1. told' = told /\ conns' = conns /\ k \in Key /\ Registered(k)
        /\ (proxies' = proxies \/ proxies' = [proxies EXCEPT ![k] = p])
    BY <1>14 DEF LearnPublicAddr
  <2>2. p.local = proxies[k].local
    BY <2>1 DEF Registered, TypeOK, Proxy
  <2> HIDE DEF p
  <2>3. EntriesKept
    BY <1>a, <1>d, <2>1, <2>2
  <2> QED
    BY <1>b, <1>c, <2>1, <2>3, LocalKept
<1>15. ASSUME Purge PROVE LocalInv'
  <2>1. \A k \in Key : proxies'[k] \in {NoProxy, proxies[k]}
    BY <1>15 DEF Purge
  <2>2. EntriesKept
    BY <2>1 DEF EntriesKept, Registered
  <2> QED
    BY <1>15, <1>b, <1>c, <2>2, LocalKept DEF Purge
<1>16. ASSUME PruneSnapshot \/ PruneMetrics PROVE LocalInv'
  BY <1>16, <1>a, <1>b, <1>c, LocalKept DEF PruneSnapshot, PruneMetrics
<1>17. ASSUME Tick PROVE LocalInv'
  <2>1. ASSUME NEW k \in Key, Registered(k)'
        PROVE  Registered(k) /\ proxies'[k].local = proxies[k].local
    <3>1. CASE Registered(k) /\ proxies[k].age < MaxAge
      <4> DEFINE p == [proxies[k] EXCEPT !.age = @ + 1]
      <4>1. proxies'[k] = p
        BY <1>17, <3>1 DEF Tick
      <4>2. proxies[k] \in Proxy
        BY <3>1 DEF Registered, TypeOK
      <4>3. p.local = proxies[k].local
        BY <4>2 DEF Proxy
      <4> QED
        BY <3>1, <4>1, <4>3
    <3>2. CASE ~(Registered(k) /\ proxies[k].age < MaxAge)
      BY <1>17, <2>1, <3>2 DEF Tick, Registered
    <3> QED
      BY <3>1, <3>2
  <2>2. EntriesKept
    BY <2>1 DEF EntriesKept
  <2> QED
    BY <1>17, <1>b, <1>c, <2>2, LocalKept DEF Tick
<1>18. ASSUME Restart PROVE LocalInv'
  <2>1. FreeHandler.pc = "free"
    BY DEF FreeHandler
  <2>2. \A e \in Conn : conns'[e].pc = "free"
    BY <1>18, <2>1 DEF Restart
  <2>3. \A k \in Key : ~Registered(k)'
    BY <1>18 DEF Restart, Registered
  <2> QED
    BY <2>2, <2>3 DEF LocalInv, LocalEntry, LocalSeen
<1>19. CASE UNCHANGED vars
  BY <1>19, <1>a, <1>b, <1>c, LocalKept DEF vars
<1> QED
  BY <1>1, <1>2, <1>3, <1>4, <1>5, <1>6, <1>7, <1>8, <1>9, <1>10, <1>11, <1>12,
     <1>13, <1>14, <1>15, <1>16, <1>17, <1>18, <1>19
     DEF Next, Handle, Cleanup

\* LocalInv holds of every reachable state.
LEMMA LocalInvariant == Spec => []LocalInv
<1>1. Init => LocalInv
  <2>1. FreeHandler.pc = "free"
    BY DEF FreeHandler
  <2> QED
    BY <2>1 DEF Init, LocalInv, LocalEntry, LocalSeen, Registered
<1>2. TypeOK /\ LocalInv /\ [Next]_vars => LocalInv'
  BY LocalStep
<1> QED
  BY <1>1, <1>2, TypeCorrect, PTL DEF Spec

(***************************************************************************)
(* Addresses.                                                              *)
(***************************************************************************)

\* The addresses a node owns: its hello IPs with any port, or what its
\* operator set.
OwnAddr(k) == helloIp[k] \X ({TcpPort} \cup UdpPort)

HelloInv == \A c \in Conn : conns[c].pc # "free" =>
                               conns[c].ip \in helloIp[NodeKey[conns[c].id]]

SeenInv == \A c \in Conn : conns[c].pc = "connect" =>
              conns[c].seen \in StaticAddr \cup OwnAddr(NodeKey[conns[c].frame.target])

ProxyInv == \A k \in Key : Registered(k) =>
              /\ proxies[k].ip \in helloIp[k]
              /\ proxies[k].manual => proxies[k].addr \in StaticAddr
              /\ ~proxies[k].manual => proxies[k].addr \in OwnAddr(k)

\* AddrOwned with what makes it inductive: a handler's IP is among its node's,
\* an operator's address is only ever replaced by another one, and the address
\* handleConnect carries out of the lock still belongs to its target.
AddrInv == HelloInv /\ SeenInv /\ ProxyInv /\ RepliesOwned

\* The new entry of a register owns its address.
LEMMA MergeOwned ==
    ASSUME TypeOK, ProxyInv, HelloInv, NEW c \in Conn, conns[c].pc # "free",
           NEW f \in RegisterMsg
    PROVE  LET k == NodeKey[conns[c].id]
               p == MergeProxy(proxies[k], f, conns[c].ip)
           IN  /\ p.ip \in helloIp[k]
               /\ p.manual => p.addr \in StaticAddr
               /\ ~p.manual => p.addr \in OwnAddr(k)
<1> DEFINE k == NodeKey[conns[c].id]
           old == proxies[k]
           p == MergeProxy(old, f, conns[c].ip)
<1>1. k \in Key /\ conns[c].ip \in helloIp[k]
  BY KeyFacts DEF TypeOK, Handler, HelloInv
<1>2. f.addr \in StaticAddr \cup {NoAddr}
  BY DEF RegisterMsg
<1>3. <<conns[c].ip, TcpPort>> \in OwnAddr(k)
  BY <1>1 DEF OwnAddr
<1>4. old # NoProxy => /\ old.manual => old.addr \in StaticAddr
                       /\ ~old.manual => old.addr \in OwnAddr(k)
  BY <1>1 DEF ProxyInv, Registered
<1>5. NoAddr \notin StaticAddr /\ NoAddr \notin OwnAddr(k)
  <2>1. helloIp[k] \subseteq Ip
    BY <1>1 DEF TypeOK
  <2> QED
    BY <2>1, NullAssumption DEF OwnAddr
<1> HIDE DEF k, old
<1>6. /\ p.ip = conns[c].ip
      /\ p.manual = ((f.addr # NoAddr) \/ (old # NoProxy /\ old.manual))
      /\ p.addr = IF f.addr # NoAddr THEN f.addr
                  ELSE IF (IF old = NoProxy THEN NoAddr ELSE old.addr) = NoAddr
                       THEN <<conns[c].ip, TcpPort>>
                       ELSE (IF old = NoProxy THEN NoAddr ELSE old.addr)
  BY DEF MergeProxy
<1> HIDE DEF p
<1>7. /\ p.ip \in helloIp[k]
      /\ p.manual => p.addr \in StaticAddr
      /\ ~p.manual => p.addr \in OwnAddr(k)
  BY <1>1, <1>2, <1>3, <1>4, <1>5, <1>6
<1> QED
  BY <1>7 DEF p, k, old

\* Replacing one entry by one that owns its address keeps ProxyInv.
LEMMA SetOwned ==
    ASSUME TypeOK, ProxyInv, helloIp' = helloIp, NEW k \in Key, NEW p,
           proxies' = [proxies EXCEPT ![k] = p],
           p.ip \in helloIp[k], p.manual => p.addr \in StaticAddr,
           ~p.manual => p.addr \in OwnAddr(k)
    PROVE  ProxyInv'
<1>1. proxies'[k] = p /\ \A j \in Key \ {k} : proxies'[j] = proxies[j]
  BY DEF TypeOK
<1>2. \A j \in Key : OwnAddr(j)' = OwnAddr(j)
  BY DEF OwnAddr
<1>3. ASSUME NEW j \in Key, Registered(j)'
      PROVE  /\ proxies'[j].ip \in helloIp[j]
             /\ proxies'[j].manual => proxies'[j].addr \in StaticAddr
             /\ ~proxies'[j].manual => proxies'[j].addr \in OwnAddr(j)
  <2>1. CASE j = k
    BY <1>1, <2>1
  <2>2. CASE j # k
    BY <1>1, <1>3, <2>2 DEF ProxyInv, Registered
  <2> QED
    BY <2>1, <2>2
<1> QED
  BY <1>2, <1>3 DEF ProxyInv

\* A handler that moves on, keeping its node and IP and entering no connect,
\* keeps the handlers' part.
LEMMA MoveOn ==
    ASSUME TypeOK, HelloInv, SeenInv, helloIp' = helloIp, NEW c \in Conn, NEW h,
           conns' = [conns EXCEPT ![c] = h], h.ip = conns[c].ip, h.id = conns[c].id,
           conns[c].pc # "free",
           \/ h.pc # "connect"
           \/ h.pc = conns[c].pc /\ h.seen = conns[c].seen /\ h.frame = conns[c].frame
           \/ h.seen \in StaticAddr \cup OwnAddr(NodeKey[h.frame.target])
    PROVE  HelloInv' /\ SeenInv'
<1>1. conns'[c] = h /\ \A e \in Conn \ {c} : conns'[e] = conns[e]
  BY DEF TypeOK
<1>2. HelloInv'
  BY <1>1 DEF HelloInv
<1>3. \A j : OwnAddr(j)' = OwnAddr(j)
  BY DEF OwnAddr
<1>4. SeenInv'
  BY <1>1, <1>3 DEF SeenInv
<1> QED
  BY <1>2, <1>4

\* Ending a frame is such a move.
LEMMA DoneMoves ==
    ASSUME TypeOK, HelloInv, SeenInv, helloIp' = helloIp, NEW c \in Conn, Done(c),
           conns[c].pc # "free"
    PROVE  HelloInv' /\ SeenInv'
<1> DEFINE h == [conns[c] EXCEPT !.pc = "ready", !.frame = NoFrame,
                              !.seen = NoAddr, !.seenLocal = NoAddr]
<1>1. conns[c] \in Handler
  BY DEF TypeOK
<1>2. h.pc = "ready" /\ h.ip = conns[c].ip /\ h.id = conns[c].id
  BY <1>1 DEF Handler
<1>3. conns' = [conns EXCEPT ![c] = h]
  BY DEF Done
<1> HIDE DEF h
<1> QED
  BY <1>2, <1>3, MoveOn

\* So is the next row of a batch.
LEMMA NextRowMoves ==
    ASSUME TypeOK, HelloInv, SeenInv, helloIp' = helloIp, NEW c \in Conn, NextRow(c),
           conns[c].pc # "free"
    PROVE  HelloInv' /\ SeenInv'
<1>1. CASE Done(c)
  BY <1>1, DoneMoves
<1>2. CASE Len(conns[c].frame.batch) # 1
  <2> DEFINE g == [type |-> "metrics", batch |-> Tail(conns[c].frame.batch)]
             h == [conns[c] EXCEPT !.pc = "busy", !.frame = g]
  <2>1. conns' = [conns EXCEPT ![c] = h] /\ conns[c] \in Handler
    BY <1>2 DEF NextRow, TypeOK
  <2> HIDE DEF g
  <2>2. h.pc = "busy" /\ h.ip = conns[c].ip /\ h.id = conns[c].id
    BY <2>1 DEF Handler
  <2> HIDE DEF h
  <2> QED
    BY <2>1, <2>2, MoveOn
<1> QED
  BY <1>1, <1>2 DEF NextRow

\* Frames without an address need own nothing.
LEMMA FramesOwned ==
    ASSUME NEW c, NEW types \in SUBSET {"ack", "error", "need_register"},
           wire' \in {{}, Frames(c, types)}
    PROVE  RepliesOwned'
  BY DEF RepliesOwned, Frames

\* handleConnect sends only addresses that belong to the node they are for.
LEMMA ReplyOwned ==
    ASSUME TypeOK, AddrInv, LocalInv, NEW c \in Conn, ConnectReply(c)
    PROVE  RepliesOwned'
<1> DEFINE f == conns[c].frame
           t == NodeKey[f.target]
           r == NodeKey[conns[c].id]
           ra == IF Registered(r) THEN proxies[r].addr ELSE <<conns[c].ip, TcpPort>>
           A(k) == StaticAddr \cup OwnAddr(k)
           B(k) == told[k] \cup {NoAddr}
<1>1. conns[c].pc = "connect" /\ f \in ConnectMsg /\ conns[c] \in Handler
  BY DEF ConnectReply, TypeOK, FrameOK
<1>2. f.target \in RawId /\ conns[c].id \in RawId
  BY <1>1 DEF ConnectMsg, Handler
<1>3. t \in Key /\ r \in Key
  BY <1>2, KeyFacts
<1>4. \A k \in Key : Registered(k) => proxies[k].addr \in A(k)
  BY DEF AddrInv, ProxyInv
<1>5. conns[c].seen \in A(t)
  BY <1>1 DEF AddrInv, SeenInv
<1>6. ra \in A(r)
  <2>1. conns[c].ip \in helloIp[r]
    BY <1>1 DEF AddrInv, HelloInv
  <2>2. <<conns[c].ip, TcpPort>> \in OwnAddr(r)
    BY <2>1 DEF OwnAddr
  <2> QED
    BY <1>3, <1>4, <2>2
<1>7. helloIp' = helloIp /\ told' = told
  BY DEF ConnectReply
<1> HIDE DEF ra, A
<1>8. conns[c].seenLocal \in B(t) /\ (Registered(t) => proxies[t].local \in B(t))
  BY <1>1, <1>3 DEF LocalInv, LocalEntry, LocalSeen
<1> HIDE DEF B
<1>9. ASSUME NEW m \in wire', m.type \in {"proxy_info", "punch"}
      PROVE  LET k == NodeKey[m.id]
             IN  m.addr \in A(k) /\ m.cands \subseteq A(k) \cup told[k]
  <2> DEFINE As == {conns[c].seen} \cup (IF Registered(t) THEN {proxies[t].addr} ELSE {})
             Ls == {conns[c].seenLocal}
                     \cup (IF Registered(t) THEN {proxies[t].local} ELSE {})
             n(a, b, l) == [to |-> c, type |-> "proxy_info", id |-> f.target,
                            addr |-> a, cands |-> {l, b} \ {NoAddr}]
             u(e) == [to |-> e, type |-> "punch", id |-> conns[c].id, addr |-> ra,
                      cands |-> {}]
  <2>1. PICK a \in As, b \in As, l \in Ls :
          wire' = {n(a, b, l)} \cup {u(e) : e \in {controlConns[t]} \ {NoConn}}
    BY DEF ConnectReply, ra
  <2>2. a \in A(t) /\ b \in A(t)
    BY <1>3, <1>4, <1>5
  <2>3. l \in B(t)
    BY <1>8
  <2>4. {l, b} \ {NoAddr} \subseteq A(t) \cup told[t]
    BY <2>2, <2>3 DEF B
  <2>5. CASE m = n(a, b, l)
    BY <2>2, <2>4, <2>5
  <2>6. CASE \E e \in {controlConns[t]} \ {NoConn} : m = u(e)
    BY <1>6, <2>6
  <2> QED
    BY <2>1, <2>5, <2>6
<1> QED
  BY <1>7, <1>9 DEF RepliesOwned, A, OwnAddr

\* Every action keeps AddrInv.
LEMMA AddrStep == TypeOK /\ LocalInv /\ AddrInv /\ [Next]_vars => AddrInv'
<1> SUFFICES ASSUME TypeOK, LocalInv, AddrInv, [Next]_vars PROVE AddrInv'
  OBVIOUS
<1> USE KeyFacts DEF AddrInv
<1>a. ASSUME UNCHANGED <<proxies, helloIp>> PROVE ProxyInv'
  BY <1>a DEF ProxyInv, Registered, OwnAddr
<1>b. ASSUME UNCHANGED <<conns, helloIp>> PROVE HelloInv' /\ SeenInv'
  BY <1>b DEF HelloInv, SeenInv, OwnAddr
<1>c. ASSUME wire' = {} PROVE RepliesOwned'
  BY <1>c DEF RepliesOwned
<1>d. \A e \in Conn : conns[e].id \in RawId /\ NodeKey[conns[e].id] \in Key
  BY DEF TypeOK, Handler
<1>1. ASSUME NEW c \in Conn, NEW id \in RawId, NEW ip \in Ip, Hello(c, id, ip)
      PROVE  AddrInv'
  <2> DEFINE k == NodeKey[id]
             h == [pc |-> "swapped", open |-> TRUE, id |-> id, ip |-> ip,
                   prev |-> controlConns[k], frame |-> NoFrame, seen |-> NoAddr,
                   seenLocal |-> NoAddr]
  <2>1. conns'[c] = h /\ \A e \in Conn \ {c} : conns'[e] = conns[e]
    BY <1>1 DEF Hello, TypeOK
  <2>2. helloIp'[k] = helloIp[k] \cup {ip} /\ \A j \in Key \ {k} : helloIp'[j] = helloIp[j]
    BY <1>1 DEF Hello, TypeOK
  <2>3. \A j \in Key : helloIp[j] \subseteq helloIp'[j]
    BY <2>2
  <2>4. \A j \in Key : OwnAddr(j) \subseteq OwnAddr(j)'
    BY <2>3 DEF OwnAddr
  <2>5. h.pc = "swapped" /\ h.id = id /\ h.ip = ip
    OBVIOUS
  <2> HIDE DEF h
  <2>6. HelloInv'
    <3>1. ASSUME NEW e \in Conn, conns'[e].pc # "free"
          PROVE  conns'[e].ip \in helloIp'[NodeKey[conns'[e].id]]
      <4>1. CASE e = c
        BY <2>1, <2>2, <2>5, <4>1
      <4>2. CASE e # c
        BY <1>d, <2>1, <2>3, <3>1, <4>2 DEF HelloInv
      <4> QED
        BY <4>1, <4>2
    <3> QED
      BY <3>1 DEF HelloInv
  <2>7. SeenInv'
    <3>1. ASSUME NEW e \in Conn, conns'[e].pc = "connect"
          PROVE  conns'[e].seen
                   \in StaticAddr \cup (helloIp'[NodeKey[conns'[e].frame.target]]
                                         \X ({TcpPort} \cup UdpPort))
      <4>1. e # c /\ conns'[e] = conns[e]
        BY <2>1, <2>5, <3>1
      <4>2. conns[e].frame \in ConnectMsg
        BY <3>1, <4>1 DEF TypeOK, FrameOK
      <4>3. NodeKey[conns[e].frame.target] \in Key
        BY <4>2 DEF ConnectMsg
      <4> QED
        BY <2>4, <3>1, <4>1, <4>3 DEF SeenInv, OwnAddr
    <3> QED
      BY <3>1 DEF SeenInv, OwnAddr
  <2>8. ProxyInv'
    <3>1. proxies' = proxies
      BY <1>1 DEF Hello
    <3> QED
      BY <2>3, <2>4, <3>1 DEF ProxyInv, Registered
  <2> QED
    BY <1>1, <1>c, <2>6, <2>7, <2>8 DEF Hello
<1>2. ASSUME NEW c \in Conn, ClosePrev(c) PROVE AddrInv'
  <2>1. ASSUME NEW e \in Conn
        PROVE  /\ conns'[e].id = conns[e].id /\ conns'[e].ip = conns[e].ip
               /\ conns'[e].seen = conns[e].seen /\ conns'[e].frame = conns[e].frame
               /\ conns'[e].pc = "free" <=> conns[e].pc = "free"
               /\ conns'[e].pc = "connect" => conns[e].pc = "connect"
    <3> DEFINE g == [conns[e] EXCEPT !.pc = "ready", !.prev = NoConn]
               h == [conns[e] EXCEPT !.open = FALSE]
    <3>1. conns'[e] \in {h, conns[e]} \/ (e = c /\ conns'[e] = g)
      BY <1>2 DEF ClosePrev
    <3>2. conns[e] \in Handler /\ conns[c].pc = "swapped"
      BY <1>2 DEF TypeOK, ClosePrev
    <3>3. /\ h.id = conns[e].id /\ h.ip = conns[e].ip /\ h.pc = conns[e].pc
          /\ h.seen = conns[e].seen /\ h.frame = conns[e].frame
      BY <3>2 DEF Handler
    <3>4. /\ g.id = conns[e].id /\ g.ip = conns[e].ip /\ g.pc = "ready"
          /\ g.seen = conns[e].seen /\ g.frame = conns[e].frame
      BY <3>2 DEF Handler
    <3> HIDE DEF g, h
    <3> QED
      BY <3>1, <3>2, <3>3, <3>4
  <2>2. helloIp' = helloIp /\ proxies' = proxies
    BY <1>2 DEF ClosePrev
  <2>3. HelloInv' /\ SeenInv'
    BY <2>1, <2>2 DEF HelloInv, SeenInv, OwnAddr
  <2>4. RepliesOwned'
    BY <1>2, FramesOwned DEF ClosePrev
  <2> QED
    BY <1>a, <2>2, <2>3, <2>4
<1>3. ASSUME NEW c \in Conn, NEW f \in Frame, ReadFrame(c, f) PROVE AddrInv'
  <2> DEFINE h == [conns[c] EXCEPT !.pc = "busy", !.frame = f]
  <2>1. conns[c] \in Handler
    BY DEF TypeOK
  <2>2. h.pc = "busy" /\ h.ip = conns[c].ip /\ h.id = conns[c].id
    BY <2>1 DEF Handler
  <2>3. conns' = [conns EXCEPT ![c] = h] /\ conns[c].pc # "free" /\ wire' = {}
        /\ helloIp' = helloIp /\ proxies' = proxies
    BY <1>3 DEF ReadFrame
  <2> HIDE DEF h
  <2>4. HelloInv' /\ SeenInv'
    BY <2>2, <2>3, MoveOn
  <2> QED
    BY <1>a, <1>c, <2>3, <2>4
<1>4. ASSUME NEW c \in Conn, PeerClose(c) PROVE AddrInv'
  <2> DEFINE h == [conns[c] EXCEPT !.open = FALSE]
  <2>1. conns[c] \in Handler
    BY DEF TypeOK
  <2>2. h.pc = conns[c].pc /\ h.ip = conns[c].ip /\ h.id = conns[c].id
        /\ h.seen = conns[c].seen /\ h.frame = conns[c].frame
    BY <2>1 DEF Handler
  <2>3. conns' = [conns EXCEPT ![c] = h] /\ conns[c].pc # "free" /\ wire' = {}
        /\ helloIp' = helloIp /\ proxies' = proxies
    BY <1>4 DEF PeerClose
  <2> HIDE DEF h
  <2>4. HelloInv' /\ SeenInv'
    BY <2>2, <2>3, MoveOn
  <2> QED
    BY <1>a, <1>c, <2>3, <2>4
<1>5. ASSUME NEW c \in Conn, HandlerExit(c) PROVE AddrInv'
  <2>1. conns'[c] = FreeHandler /\ \A e \in Conn \ {c} : conns'[e] = conns[e]
    BY <1>5 DEF HandlerExit, TypeOK
  <2>2. FreeHandler.pc = "free"
    BY DEF FreeHandler
  <2>3. helloIp' = helloIp /\ proxies' = proxies /\ wire' = {}
    BY <1>5 DEF HandlerExit
  <2>4. HelloInv' /\ SeenInv'
    BY <2>1, <2>2, <2>3 DEF HelloInv, SeenInv, OwnAddr
  <2> QED
    BY <1>a, <1>c, <2>3, <2>4
<1>6. ASSUME NEW c \in Conn, RegisterReject(c) PROVE AddrInv'
  <2>1. helloIp' = helloIp /\ proxies' = proxies /\ Done(c) /\ conns[c].pc # "free"
    BY <1>6 DEF RegisterReject
  <2>2. RepliesOwned'
    BY <1>6, FramesOwned DEF RegisterReject
  <2> QED
    BY <1>a, <2>1, <2>2, DoneMoves
<1>7. ASSUME NEW c \in Conn, ApplyRegister(c) PROVE AddrInv'
  <2> DEFINE k == NodeKey[conns[c].id]
             p == MergeProxy(proxies[k], conns[c].frame, conns[c].ip)
  <2>1. helloIp' = helloIp /\ proxies' = [proxies EXCEPT ![k] = p] /\ Done(c)
        /\ conns[c].pc # "free"
    BY <1>7 DEF ApplyRegister
  <2>2. conns[c].frame \in RegisterMsg
    BY <1>7, BusyFrame, FrameKinds DEF ApplyRegister
  <2>3. /\ p.ip \in helloIp[k]
        /\ p.manual => p.addr \in StaticAddr
        /\ ~p.manual => p.addr \in OwnAddr(k)
    BY <2>1, <2>2, MergeOwned
  <2> HIDE DEF p
  <2>4. ProxyInv'
    BY <1>d, <2>1, <2>3, SetOwned
  <2>5. RepliesOwned'
    BY <1>7, FramesOwned DEF ApplyRegister
  <2> QED
    BY <2>1, <2>4, <2>5, DoneMoves
<1>8. ASSUME NEW c \in Conn, ApplyPing(c) PROVE AddrInv'
  <2> DEFINE k == NodeKey[conns[c].id]
             p == [proxies[k] EXCEPT !.age = 0]
  <2>1. helloIp' = helloIp /\ Done(c) /\ conns[c].pc # "free"
        /\ (proxies' = proxies \/ (Registered(k) /\ proxies' = [proxies EXCEPT ![k] = p]))
    BY <1>8 DEF ApplyPing
  <2>2. ASSUME Registered(k), proxies' = [proxies EXCEPT ![k] = p] PROVE ProxyInv'
    <3>1. proxies[k] \in Proxy
      BY <1>d, <2>2 DEF Registered, TypeOK
    <3>2. p.ip = proxies[k].ip /\ p.manual = proxies[k].manual /\ p.addr = proxies[k].addr
      BY <3>1 DEF Proxy
    <3> HIDE DEF p
    <3>3. /\ p.ip \in helloIp[k]
          /\ p.manual => p.addr \in StaticAddr
          /\ ~p.manual => p.addr \in OwnAddr(k)
      BY <1>d, <2>2, <3>2 DEF ProxyInv
    <3> QED
      BY <1>d, <2>1, <2>2, <3>3, SetOwned
  <2>3. ProxyInv'
    BY <1>a, <2>1, <2>2
  <2>4. RepliesOwned'
    BY <1>8, FramesOwned DEF ApplyPing
  <2> QED
    BY <2>1, <2>3, <2>4, DoneMoves
<1>9. ASSUME NEW k \in Key, NEW s \in Service, NEW v, Registered(k), helloIp' = helloIp,
             proxies' = [proxies EXCEPT ![k] = Patched(proxies[k], s, v)]
      PROVE  ProxyInv'
  <2> DEFINE p == Patched(proxies[k], s, v)
  <2>1. proxies[k] \in Proxy
    BY <1>9 DEF Registered, TypeOK
  <2>2. p.ip = proxies[k].ip /\ p.manual = proxies[k].manual /\ p.addr = proxies[k].addr
    BY <2>1 DEF Proxy, Patched
  <2> HIDE DEF p
  <2>3. /\ p.ip \in helloIp[k]
        /\ p.manual => p.addr \in StaticAddr
        /\ ~p.manual => p.addr \in OwnAddr(k)
    BY <1>9, <2>2 DEF ProxyInv
  <2> QED
    BY <1>9, <2>3, SetOwned DEF p
<1>10. ASSUME NEW c \in Conn, ApplyServiceLifecycle(c) PROVE AddrInv'
  <2> DEFINE f == conns[c].frame
             k == NodeKey[conns[c].id]
  <2>1. helloIp' = helloIp /\ Done(c) /\ conns[c].pc # "free" /\ wire' = {}
    BY <1>10 DEF ApplyServiceLifecycle
  <2>2. f.svc \in Service
    <3>1. f \in EventMsg
      BY <1>10, BusyFrame, FrameKinds DEF ApplyServiceLifecycle
    <3> QED
      BY <3>1 DEF EventMsg
  <2>3. ProxyInv'
    BY <1>9, <1>10, <1>a, <1>d, <2>1, <2>2 DEF ApplyServiceLifecycle
  <2> QED
    BY <1>c, <2>1, <2>3, DoneMoves
<1>11. ASSUME NEW c \in Conn, MetricPatch(c) PROVE AddrInv'
  <2> DEFINE f == conns[c].frame
             k == NodeKey[conns[c].id]
             m == Head(f.batch)
             h == [conns[c] EXCEPT !.pc = "metric"]
  <2>1. helloIp' = helloIp /\ conns[c].pc # "free" /\ wire' = {}
    BY <1>11 DEF MetricPatch
  <2>2. m.svc \in Service
    <3>1. f \in MetricsMsg
      BY <1>11, BusyFrame, FrameKinds DEF MetricPatch
    <3>2. m \in [svc : Service, status : Status]
      BY <3>1, BatchTail
    <3> QED
      BY <3>2
  <2>3. ProxyInv'
    BY <1>9, <1>11, <1>a, <1>d, <2>1, <2>2 DEF MetricPatch
  <2>4. h.pc = "metric" /\ h.ip = conns[c].ip /\ h.id = conns[c].id
    <3>1. conns[c] \in Handler
      BY DEF TypeOK
    <3> QED
      BY <3>1 DEF Handler
  <2>5. conns' = [conns EXCEPT ![c] = h] \/ NextRow(c)
    BY <1>11 DEF MetricPatch
  <2> HIDE DEF h
  <2>6. HelloInv' /\ SeenInv'
    BY <2>1, <2>4, <2>5, MoveOn, NextRowMoves
  <2> QED
    BY <1>c, <2>1, <2>3, <2>6
<1>12. ASSUME NEW c \in Conn, MetricStore(c) PROVE AddrInv'
  BY <1>12, <1>a, <1>c, NextRowMoves DEF MetricStore
<1>13. ASSUME NEW c \in Conn, ConnectLookup(c) PROVE AddrInv'
  <2> DEFINE f == conns[c].frame
             t == NodeKey[f.target]
             h == [conns[c] EXCEPT !.pc = "connect", !.seen = proxies[t].addr,
                                   !.seenLocal = proxies[t].local]
  <2>1. helloIp' = helloIp /\ proxies' = proxies /\ conns[c].pc # "free"
    BY <1>13 DEF ConnectLookup
  <2>2. CASE Registered(t)
    <3>1. conns' = [conns EXCEPT ![c] = h] /\ wire' = {}
      BY <1>13, <2>2 DEF ConnectLookup
    <3>2. t \in Key
      <4>1. f \in ConnectMsg
        BY <1>13, BusyFrame, FrameKinds DEF ConnectLookup
      <4> QED
        BY <4>1 DEF ConnectMsg
    <3>3. proxies[t].addr \in StaticAddr \cup OwnAddr(t)
      BY <2>2, <3>2 DEF ProxyInv
    <3>4. h.seen = proxies[t].addr /\ h.frame = f /\ h.ip = conns[c].ip
          /\ h.id = conns[c].id
      <4>1. conns[c] \in Handler
        BY DEF TypeOK
      <4> QED
        BY <4>1 DEF Handler
    <3> HIDE DEF h
    <3>5. HelloInv' /\ SeenInv'
      BY <2>1, <3>1, <3>3, <3>4, MoveOn
    <3> QED
      BY <1>a, <1>c, <2>1, <3>1, <3>5
  <2>3. CASE ~Registered(t)
    <3>1. Done(c) /\ wire' = Frames(c, {"error"})
      BY <1>13, <2>3 DEF ConnectLookup
    <3>2. RepliesOwned'
      BY <3>1, FramesOwned
    <3> QED
      BY <1>a, <2>1, <3>1, <3>2, DoneMoves
  <2> QED
    BY <2>2, <2>3
<1>14. ASSUME NEW c \in Conn, ConnectReply(c) PROVE AddrInv'
  <2>1. helloIp' = helloIp /\ proxies' = proxies /\ Done(c) /\ conns[c].pc # "free"
    BY <1>14 DEF ConnectReply
  <2>2. RepliesOwned'
    BY <1>14, ReplyOwned
  <2> QED
    BY <1>a, <2>1, <2>2, DoneMoves
<1>15. ASSUME NEW id \in RawId, NEW ip \in Ip, NEW port \in UdpPort,
              LearnPublicAddr(id, ip, port)
       PROVE  AddrInv'
  <2> DEFINE k == NodeKey[id]
             p == [proxies[k] EXCEPT !.addr = <<ip, port>>]
  <2>1. helloIp' = helloIp /\ conns' = conns /\ wire' = {} /\ k \in Key
        /\ Registered(k) /\ proxies[k].ip = ip
    BY <1>15 DEF LearnPublicAddr
  <2>2. ASSUME proxies' = proxies PROVE ProxyInv'
    BY <1>a, <2>1, <2>2
  <2>3. ASSUME ~proxies[k].manual, proxies' = [proxies EXCEPT ![k] = p] PROVE ProxyInv'
    <3>1. proxies[k] \in Proxy
      BY <2>1 DEF Registered, TypeOK
    <3>2. p.ip = ip /\ ~p.manual /\ p.addr = <<ip, port>>
      BY <2>1, <2>3, <3>1 DEF Proxy
    <3>3. ip \in helloIp[k]
      BY <2>1 DEF ProxyInv
    <3>4. <<ip, port>> \in OwnAddr(k)
      BY <3>3 DEF OwnAddr
    <3> HIDE DEF p
    <3> QED
      BY <2>1, <2>3, <3>2, <3>3, <3>4, SetOwned
  <2>4. ProxyInv'
    BY <1>15, <2>2, <2>3 DEF LearnPublicAddr
  <2> QED
    BY <1>b, <1>c, <2>1, <2>4
<1>16. ASSUME Purge PROVE AddrInv'
  <2>1. helloIp' = helloIp /\ conns' = conns /\ wire' = {}
    BY <1>16 DEF Purge
  <2>2. \A k \in Key : proxies'[k] \in {NoProxy, proxies[k]}
    BY <1>16 DEF Purge
  <2>3. ProxyInv'
    BY <2>1, <2>2 DEF ProxyInv, Registered, OwnAddr
  <2> QED
    BY <1>b, <1>c, <2>1, <2>3
<1>17. ASSUME PruneSnapshot \/ PruneMetrics PROVE AddrInv'
  BY <1>17, <1>a, <1>b, <1>c DEF PruneSnapshot, PruneMetrics
<1>18. ASSUME Tick PROVE AddrInv'
  <2>1. helloIp' = helloIp /\ conns' = conns /\ wire' = {}
    BY <1>18 DEF Tick
  <2>2. ASSUME NEW k \in Key, Registered(k)'
        PROVE  /\ Registered(k) /\ proxies'[k].ip = proxies[k].ip
               /\ proxies'[k].manual = proxies[k].manual
               /\ proxies'[k].addr = proxies[k].addr
    <3>1. CASE Registered(k) /\ proxies[k].age < MaxAge
      <4> DEFINE p == [proxies[k] EXCEPT !.age = @ + 1]
      <4>1. proxies'[k] = p
        BY <1>18, <3>1 DEF Tick
      <4>2. proxies[k] \in Proxy
        BY <3>1 DEF Registered, TypeOK
      <4>3. p.ip = proxies[k].ip /\ p.manual = proxies[k].manual
            /\ p.addr = proxies[k].addr
        BY <4>2 DEF Proxy
      <4> QED
        BY <3>1, <4>1, <4>3
    <3>2. CASE ~(Registered(k) /\ proxies[k].age < MaxAge)
      BY <1>18, <2>2, <3>2 DEF Tick, Registered
    <3> QED
      BY <3>1, <3>2
  <2>3. ProxyInv'
    BY <2>1, <2>2 DEF ProxyInv, OwnAddr
  <2> QED
    BY <1>b, <1>c, <2>1, <2>3
<1>19. ASSUME Restart PROVE AddrInv'
  <2>1. FreeHandler.pc = "free"
    BY DEF FreeHandler
  <2>2. \A e \in Conn : conns'[e].pc = "free"
    BY <1>19, <2>1 DEF Restart
  <2>3. \A k \in Key : ~Registered(k)'
    BY <1>19 DEF Restart, Registered
  <2> QED
    BY <1>19, <1>c, <2>2, <2>3 DEF Restart, HelloInv, SeenInv, ProxyInv
<1>20. CASE UNCHANGED vars
  BY <1>20, <1>a, <1>b DEF vars, RepliesOwned
<1> QED
  BY <1>1, <1>2, <1>3, <1>4, <1>5, <1>6, <1>7, <1>8, <1>10, <1>11, <1>12, <1>13,
     <1>14, <1>15, <1>16, <1>17, <1>18, <1>19, <1>20
     DEF Next, Handle, Cleanup

\* AddrInv holds of every reachable state.
LEMMA AddrInvariant == Spec => []AddrInv
<1>1. Init => AddrInv
  <2>1. FreeHandler.pc = "free"
    BY DEF FreeHandler
  <2> QED
    BY <2>1 DEF Init, AddrInv, HelloInv, SeenInv, ProxyInv, RepliesOwned, Registered
<1>2. TypeOK /\ LocalInv /\ AddrInv /\ [Next]_vars => AddrInv'
  BY AddrStep
<1> QED
  BY <1>1, <1>2, TypeCorrect, LocalInvariant, PTL DEF Spec

\* The address the registry keeps for a node is its operator's, or its IP is
\* one from which a connection said hello under the node's id, whatever frames
\* and punch packets name it, registers without a signature included.
THEOREM AddrCorrect == Spec => []AddrOwned
<1>1. AddrInv => AddrOwned
  BY DEF AddrInv, ProxyInv, AddrOwned, OwnAddr
<1> QED
  BY <1>1, AddrInvariant, PTL

\* So is every address that handleConnect sends out, though it holds no lock
\* while it answers, in Addr and in Candidates, but for a candidate that is a
\* local address a register under that id reported.
THEOREM RepliesCorrect == Spec => []RepliesOwned
<1>1. AddrInv => RepliesOwned
  BY DEF AddrInv
<1> QED
  BY <1>1, AddrInvariant, PTL
=============================================================================
