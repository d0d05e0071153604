------------------------------ MODULE RVServer ------------------------------
(***************************************************************************)
(* The rendezvous server (pkg/rendezvous): its node registry `proxies`, the *)
(* O(1) discovery counters, the table of TCP control connections, the       *)
(* metric cache and the 15 s cleanup loop, driven by one handler goroutine  *)
(* per control connection, the UDP punch listener and process restarts.     *)
(*                                                                         *)
(* A handler reads a frame (ReadFrame) and applies it in one or two critical*)
(* sections; between the two, and between two sections of one frame, every  *)
(* other goroutine may run.  Each critical section is one action.  LastSeen *)
(* is kept as its age in ticks, saturating once every cutoff has passed.    *)
(***************************************************************************)
EXTENDS Integers, Sequences, FiniteSets

CONSTANTS
    RawId,       \* node ids as peers write them in hello / connect / punch
    NodeKey,     \* nodeKey: RawId -> its normalised form
    Conn,        \* *controlConn values, each with its handler goroutine
    Ip,          \* source IPs of peers
    TcpPort,     \* the source port of a control connection
    UdpPort,     \* source ports of punch packets (NAT mappings)
    StaticAddr,  \* values of msg.Addr in a static deployment
    LocalAddr,   \* values of msg.LocalAddr, what a node says its LAN address is
    Role,        \* values of msg.Role
    AuthMode,    \* values of msg.AuthMode, "" included
    Lower,       \* strings.ToLower of the roles and auth modes
    Service,     \* service names
    Frame,       \* the frames the peers send
    Protected,   \* s.Mode is "protected"
    PurgeAge,    \* ProxyPurgeOrDefault(), in ticks
    PruneAge,    \* the 5 minutes of pruneMetrics, in ticks
    OnlineAge,   \* handleMetrics' 60 seconds, in ticks
    NoProxy, NoConn, NoFrame, NoRow, NoAddr, NoServices

\* The proxies / controlConns map keys: the normalised ids.
Key == {NodeKey[r] : r \in RawId}

Addr == (Ip \X ({TcpPort} \cup UdpPort)) \cup StaticAddr \cup {NoAddr}

Bucket == {"station", "control", "passenger", "public"}

\* ServiceInfo of one service: ServerLoading / ServerReady / neither.
SvcState == {"absent", "loading", "ready", "down"}
Services == [Service -> SvcState]
\* "other" is a status text the server does not know.
Status == {"idle", "busy", "loading", "stopped", "other"}

\* An admission credential: the shape its issuer signed, the Bind policy of
\* that issuer ("unlisted" when auth.json does not name it) and its expiry.
Cred == [shape : {"none", "bound", "bearer"},
         policy : {"unlisted", "node", "none", "any"},
         expire : {"absent", "valid", "passed"}]

\* sig says whether verifyRegisterSignature accepts the frame's signature and
\* timestamp; in a ping, verifyPingSignature.
RegisterMsg == [type : {"register"}, full : BOOLEAN, sig : BOOLEAN, cred : Cred,
                role : Role, auth : AuthMode, addr : StaticAddr \cup {NoAddr},
                local : LocalAddr \cup {NoAddr}, svcs : Services \cup {NoServices}]
PingMsg     == [type : {"ping"}, sig : BOOLEAN]
\* The service_event frames without metric rows; "none" is one with no event.
EventMsg    == [type : {"event"}, svc : Service,
                event : {"starting", "ready", "stopping", "stopped", "unknown", "none"}]
MetricsMsg  == [type : {"metrics"},
                batch : {b \in Seq([svc : Service, status : Status]) : Len(b) > 0}]
ConnectMsg  == [type : {"connect"}, target : RawId]
FrameType   == RegisterMsg \cup PingMsg \cup EventMsg \cup MetricsMsg \cup ConnectMsg

\* Ages past every cutoff are not told apart.
MaxAge == CHOOSE a \in {PurgeAge + 1, PruneAge + 1, OnlineAge} :
              a >= PurgeAge + 1 /\ a >= PruneAge + 1 /\ a >= OnlineAge

\* ProxyInfo.  Its descriptive fields (CertHash, Version, Hardware, ...) are
\* merged like auth and read by no control flow.
Proxy == [role : Role, auth : AuthMode, addr : Addr, local : LocalAddr \cup {NoAddr},
          manual : BOOLEAN, ip : Ip, age : 0..MaxAge, svcs : Services]

Row == [node : RawId, svc : Service, status : 0..4]

\* A frame the server writes on a control connection: about node id, for
\* proxy_info and punch with the address that peers will dial, and for
\* proxy_info with the Candidates they race (whose order nothing here reads).
Reply == [to : Conn, type : {"ack", "error", "need_register", "proxy_info", "punch"},
          id : RawId, addr : Addr, cands : SUBSET (Addr \cup LocalAddr)]

\* A handler's frame being worked on is a frame of Frame, or the rest of a
\* metrics batch.
Work == Frame \cup MetricsMsg \cup {NoFrame}

Handler == [pc : {"free", "swapped", "ready", "busy", "metric", "connect"},
            open : BOOLEAN, id : RawId, ip : Ip, prev : Conn \cup {NoConn},
            frame : Work, seen : Addr, seenLocal : LocalAddr \cup {NoAddr}]

ASSUME KeyAssumption ==
    /\ IsFiniteSet(RawId)
    /\ NodeKey \in [RawId -> RawId]
    /\ \A r \in RawId : NodeKey[NodeKey[r]] = NodeKey[r]

ASSUME AgeAssumption == PurgeAge \in Nat /\ PruneAge \in Nat /\ OnlineAge \in Nat

ASSUME ConstAssumption ==
    /\ Protected \in BOOLEAN
    /\ Frame \subseteq FrameType
    /\ RawId # {} /\ Ip # {} /\ "" \in AuthMode
    /\ DOMAIN Lower = Role \cup AuthMode

ASSUME NullAssumption ==
    /\ NoProxy \notin Proxy /\ NoConn \notin Conn /\ NoRow \notin Row
    /\ NoAddr \notin StaticAddr \cup LocalAddr \cup (Ip \X ({TcpPort} \cup UdpPort))
    /\ NoServices \notin Services /\ NoFrame \notin FrameType

VARIABLES
    proxies,       \* s.proxies, NoProxy when the key is absent
    cnt,           \* cntStation / cntControl / cntPassenger / cntPublic
    controlConns,  \* s.controlConns, NoConn when absent
    conns,         \* the handler goroutines
    wire,          \* the frames the last step wrote on control connections
    metrics,       \* s.metrics, keyed by metricKey
    cleaner,       \* the cleanup goroutine: its step and pruneMetrics' snapshot
    helloIp,       \* history: IPs whose hello named the key since the start
    told           \* history: local addresses the key's registers reported

vars == <<proxies, cnt, controlConns, conns, wire, metrics, cleaner, helloIp, told>>

Registered(k) == proxies[k] # NoProxy

-----------------------------------------------------------------------------
(* Helpers of the registry.                                                *)

\* roleBucket: the discovery bucket of a role in any case, "" when unknown.
RoleBucket(role) ==
    CASE Lower[role] \in {"provider", "station"} -> "station"
      [] Lower[role] \in {"broker", "control"} -> "control"
      [] Lower[role] \in {"consumer", "passenger"} -> "passenger"
      [] OTHER -> ""

\* The counters countDelta touches for a proxy.
BucketsOf(role, auth) ==
    {b \in Bucket : \/ b = RoleBucket(role)
                    \/ /\ b = "public" /\ RoleBucket(role) = "station"
                       /\ Lower[auth] = "public"}

\* Mutant: the public counter is never taken back.
MutCountDelta(c, role, auth, d) ==
    [b \in Bucket |-> IF b \in BucketsOf(role, auth) /\ (b = "public" => d > 0)
                      THEN c[b] + d ELSE c[b]]

\* countDelta: c with the counters of one proxy moved by d.
CountDelta(c, role, auth, d) ==
    [b \in Bucket |-> IF b \in BucketsOf(role, auth) THEN c[b] + d ELSE c[b]]

\* admitRegister: the credential names a listed issuer whose policy permits
\* its shape, and its signed expiry is present and not passed.
AdmitRegister(cred) ==
    /\ cred.shape # "none"
    /\ cred.expire = "valid"
    /\ \/ cred.shape = "bound" /\ cred.policy \in {"node", "any"}
       \/ cred.shape = "bearer" /\ cred.policy \in {"none", "any"}

\* The early returns of applyRegister: only a FullSync frame is verified.
RegisterAccepted(f) ==
    f.full => f.sig /\ (Protected => AdmitRegister(f.cred))

\* A register frame merged into old (or a new entry) by applyRegister.
MergeProxy(old, f, ip) ==
    LET new == old = NoProxy
        known == IF new THEN NoAddr ELSE old.addr
    IN [role   |-> f.role,
        auth   |-> IF f.auth # "" THEN f.auth ELSE IF new THEN "" ELSE old.auth,
        addr   |-> IF f.addr # NoAddr THEN f.addr
                   ELSE IF known = NoAddr THEN <<ip, TcpPort>> ELSE known,
        local  |-> IF f.local # NoAddr THEN f.local
                   ELSE IF new THEN NoAddr ELSE old.local,
        manual |-> (f.addr # NoAddr) \/ (~new /\ old.manual),
        ip     |-> ip,
        age    |-> 0,
        svcs   |-> IF f.svcs # NoServices THEN f.svcs
                   ELSE IF new THEN [s \in Service |-> "absent"] ELSE old.svcs]

\* applyServiceMetric's status switch on a service the entry lists.
PatchStatus(old, status) ==
    CASE old = "absent" -> "absent"
      [] status \in {"idle", "busy"} -> "ready"
      [] status = "loading" -> "loading"
      [] status = "stopped" -> "down"
      [] status = "other" -> old

\* statusStringToCode.
StatusCode(status) ==
    CASE status = "idle" -> 1 [] status = "busy" -> 2 [] status = "loading" -> 3
      [] status = "stopped" -> 4 [] OTHER -> 0

\* applyServiceLifecycle's event switch.
PatchEvent(old, event) ==
    CASE event = "starting" -> "loading"
      [] event = "ready" -> "ready"
      [] event = "stopped" -> "absent"
      [] OTHER -> old

\* An entry just heard from, with one of its services in a new state.
Patched(p, svc, state) == [p EXCEPT !.age = 0, !.svcs[svc] = state]

\* metricKey: the raw node id alone.
MetricKey(id, svc) == id

FreeHandler == [pc |-> "free", open |-> FALSE, id |-> CHOOSE r \in RawId : TRUE,
                ip |-> CHOOSE i \in Ip : TRUE, prev |-> NoConn,
                frame |-> NoFrame, seen |-> NoAddr, seenLocal |-> NoAddr]

\* sendFrame on connection c, of frames that carry no address.
Frames(c, types) ==
    {[to |-> c, type |-> t, id |-> conns[c].id, addr |-> NoAddr, cands |-> {}] :
        t \in types}

\* The handler ends the frame it was working on and reads the next one.
Done(c) == conns' = [conns EXCEPT ![c] =
                        [@ EXCEPT !.pc = "ready", !.frame = NoFrame,
                                  !.seen = NoAddr, !.seenLocal = NoAddr]]

-----------------------------------------------------------------------------
Init ==
    /\ proxies = [k \in Key |-> NoProxy]
    /\ cnt = [b \in Bucket |-> 0]
    /\ controlConns = [k \in Key |-> NoConn]
    /\ conns = [c \in Conn |-> FreeHandler]
    /\ wire = {}
    /\ metrics = [r \in RawId |-> NoRow]
    /\ cleaner = [pc |-> "idle", fresh |-> {}]
    /\ helloIp = [k \in Key |-> {}]
    /\ told = [k \in Key |-> {}]

-----------------------------------------------------------------------------
(* handleControlConn: the connection's life.                               *)

\* A connection whose first frame is a hello with an id: Swap into
\* controlConns.  (Any other first frame ends the handler with no effect.)
\* c stands for a fresh *controlConn: no handler still holds it as prev.
Hello(c, id, ip) ==
    LET k == NodeKey[id] IN
    /\ conns[c].pc = "free"
    /\ \A d \in Conn : conns[d].prev # c
    /\ conns' = [conns EXCEPT ![c] =
                    [pc |-> "swapped", open |-> TRUE, id |-> id, ip |-> ip,
                     prev |-> controlConns[k], frame |-> NoFrame, seen |-> NoAddr,
                     seenLocal |-> NoAddr]]
    /\ controlConns' = [controlConns EXCEPT ![k] = c]
    /\ helloIp' = [helloIp EXCEPT ![k] = @ \cup {ip}]
    /\ wire' = {}
    /\ UNCHANGED <<proxies, cnt, metrics, cleaner, told>>

\* The displaced connection is closed and the hello acked.
ClosePrev(c) ==
    LET p == conns[c].prev IN
    /\ conns[c].pc = "swapped"
    /\ conns' = [d \in Conn |->
                    IF d = c THEN [conns[c] EXCEPT !.pc = "ready", !.prev = NoConn]
                    ELSE IF d = p THEN [conns[d] EXCEPT !.open = FALSE]
                    ELSE conns[d]]
    /\ wire' = Frames(c, {"ack"})
    /\ UNCHANGED <<proxies, cnt, controlConns, metrics, cleaner, helloIp, told>>

ReadFrame(c, f) ==
    /\ conns[c].pc = "ready" /\ conns[c].open
    /\ conns' = [conns EXCEPT ![c] = [@ EXCEPT !.pc = "busy", !.frame = f]]
    /\ wire' = {}
    /\ UNCHANGED <<proxies, cnt, controlConns, metrics, cleaner, helloIp, told>>

\* The peer goes away, or keepalive gives up on it.
PeerClose(c) ==
    /\ conns[c].pc # "free" /\ conns[c].open
    /\ conns' = [conns EXCEPT ![c] = [@ EXCEPT !.open = FALSE]]
    /\ wire' = {}
    /\ UNCHANGED <<proxies, cnt, controlConns, metrics, cleaner, helloIp, told>>

\* Mutant: Delete in place of CompareAndDelete.
MutHandlerExit(c) ==
    /\ conns[c].pc = "ready" /\ ~conns[c].open
    /\ controlConns' = [controlConns EXCEPT ![NodeKey[conns[c].id]] = NoConn]
    /\ conns' = [conns EXCEPT ![c] = FreeHandler]
    /\ wire' = {}
    /\ UNCHANGED <<proxies, cnt, metrics, cleaner, helloIp, told>>

\* ReadFrame fails on the closed socket: the deferred CompareAndDelete runs.
HandlerExit(c) ==
    LET k == NodeKey[conns[c].id] IN
    /\ conns[c].pc = "ready" /\ ~conns[c].open
    /\ controlConns' = IF controlConns[k] = c
                       THEN [controlConns EXCEPT ![k] = NoConn] ELSE controlConns
    /\ conns' = [conns EXCEPT ![c] = FreeHandler]
    /\ wire' = {}
    /\ UNCHANGED <<proxies, cnt, metrics, cleaner, helloIp, told>>

-----------------------------------------------------------------------------
(* The frame handlers.                                                     *)

\* applyRegister, then the ack that follows whatever it decided.
RegisterReject(c) ==
    LET f == conns[c].frame IN
    /\ conns[c].pc = "busy" /\ f.type = "register"
    /\ ~RegisterAccepted(f)
    /\ wire' = Frames(c, {"error", "ack"})
    /\ Done(c)
    /\ UNCHANGED <<proxies, cnt, controlConns, metrics, cleaner, helloIp, told>>

ApplyRegister(c) ==
    LET f   == conns[c].frame
        k   == NodeKey[conns[c].id]
        old == proxies[k]
        new == MergeProxy(old, f, conns[c].ip)
    IN
    /\ conns[c].pc = "busy" /\ f.type = "register"
    /\ RegisterAccepted(f)
    /\ proxies' = [proxies EXCEPT ![k] = new]
    /\ cnt' = CountDelta(IF old = NoProxy THEN cnt
                         ELSE CountDelta(cnt, old.role, old.auth, -1),
                         new.role, new.auth, 1)
    /\ wire' = Frames(c, {"ack"})
    /\ Done(c)
    /\ told' = [told EXCEPT ![k] = @ \cup ({f.local} \ {NoAddr})]
    /\ UNCHANGED <<controlConns, metrics, cleaner, helloIp>>

\* applyPing: refresh LastSeen, or ask a node without an entry to register.
ApplyPing(c) ==
    LET k == NodeKey[conns[c].id]
        f == conns[c].frame
    IN
    /\ conns[c].pc = "busy" /\ f.type = "ping"
    /\ proxies' = IF f.sig /\ Registered(k)
                  THEN [proxies EXCEPT ![k] = [@ EXCEPT !.age = 0]] ELSE proxies
    /\ wire' = IF f.sig /\ ~Registered(k) THEN Frames(c, {"need_register"}) ELSE {}
    /\ Done(c)
    /\ UNCHANGED <<cnt, controlConns, metrics, cleaner, helloIp, told>>

\* applyServiceLifecycle; applyServiceEvent drops a frame with nothing in it.
ApplyServiceLifecycle(c) ==
    LET k == NodeKey[conns[c].id]
        f == conns[c].frame
    IN
    /\ conns[c].pc = "busy" /\ f.type = "event"
    /\ proxies' = IF Registered(k) /\ f.event # "none"
                  THEN [proxies EXCEPT ![k] =
                          Patched(@, f.svc, PatchEvent(proxies[k].svcs[f.svc], f.event))]
                  ELSE proxies
    /\ Done(c)
    /\ wire' = {}
    /\ UNCHANGED <<cnt, controlConns, metrics, cleaner, helloIp, told>>

\* Mutant: off by one at the end of the batch.
MutNextRow(c) ==
    LET f == conns[c].frame IN
    IF Len(f.batch) = 0 THEN Done(c)
    ELSE conns' = [conns EXCEPT ![c] =
                     [@ EXCEPT !.pc = "busy",
                               !.frame = [type |-> "metrics", batch |-> Tail(f.batch)]]]

\* The handler moves to the next row of its metrics batch, or is done.
NextRow(c) ==
    LET f == conns[c].frame IN
    IF Len(f.batch) = 1 THEN Done(c)
    ELSE conns' = [conns EXCEPT ![c] =
                     [@ EXCEPT !.pc = "busy",
                               !.frame = [type |-> "metrics", batch |-> Tail(f.batch)]]]

\* applyServiceMetric under s.mu: an unknown node's row is dropped, a known
\* node's service entry is patched; the s.metrics write is still to come.
MetricPatch(c) ==
    LET k == NodeKey[conns[c].id]
        f == conns[c].frame
        m == Head(f.batch)
    IN
    /\ conns[c].pc = "busy" /\ f.type = "metrics"
    /\ IF Registered(k)
       THEN /\ proxies' = [proxies EXCEPT ![k] =
                  Patched(@, m.svc, PatchStatus(proxies[k].svcs[m.svc], m.status))]
            /\ conns' = [conns EXCEPT ![c] = [@ EXCEPT !.pc = "metric"]]
       ELSE proxies' = proxies /\ NextRow(c)
    /\ wire' = {}
    /\ UNCHANGED <<cnt, controlConns, metrics, cleaner, helloIp, told>>

\* applyServiceMetric under s.metricsMu: the row is stored under the raw id.
MetricStore(c) ==
    LET id == conns[c].id
        m  == Head(conns[c].frame.batch)
    IN
    /\ conns[c].pc = "metric"
    /\ metrics' = [metrics EXCEPT ![MetricKey(id, m.svc)] =
                      [node |-> id, svc |-> m.svc, status |-> StatusCode(m.status)]]
    /\ NextRow(c)
    /\ wire' = {}
    /\ UNCHANGED <<proxies, cnt, controlConns, cleaner, helloIp, told>>

\* handleConnect up to RUnlock: the target is looked up by its key.
ConnectLookup(c) ==
    LET t == NodeKey[conns[c].frame.target] IN
    /\ conns[c].pc = "busy" /\ conns[c].frame.type = "connect"
    /\ IF Registered(t)
       THEN /\ conns' = [conns EXCEPT ![c] =
                            [@ EXCEPT !.pc = "connect", !.seen = proxies[t].addr,
                                      !.seenLocal = proxies[t].local]]
            /\ wire' = {}
       ELSE wire' = Frames(c, {"error"}) /\ Done(c)
    /\ UNCHANGED <<proxies, cnt, controlConns, metrics, cleaner, helloIp, told>>

\* Mutant: the requester's address goes out as the target's.
MutConnectReply(c) ==
    /\ conns[c].pc = "connect"
    /\ wire' = {[to |-> c, type |-> "proxy_info", id |-> conns[c].frame.target,
                 addr |-> <<conns[c].ip, TcpPort>>, cands |-> {}]}
    /\ Done(c)
    /\ UNCHANGED <<proxies, cnt, controlConns, metrics, cleaner, helloIp, told>>

\* The rest of handleConnect holds no lock: each time it reads target.Addr or
\* target.LocalAddr it finds what was there at the lookup or what is there now,
\* and the requester's entry likewise; it pushes a punch to the target's
\* control connection and answers with proxy_info, whose Candidates are the
\* target's local address and its address, where it has them.
ConnectReply(c) ==
    LET t == NodeKey[conns[c].frame.target]
        r == NodeKey[conns[c].id]
        d == controlConns[t]
        requesterAddr == IF Registered(r) THEN proxies[r].addr
                         ELSE <<conns[c].ip, TcpPort>>
        A == {conns[c].seen} \cup (IF Registered(t) THEN {proxies[t].addr} ELSE {})
        L == {conns[c].seenLocal} \cup (IF Registered(t) THEN {proxies[t].local} ELSE {})
    IN
    /\ conns[c].pc = "connect"
    /\ \E a \in A, b \in A, l \in L :
         wire' = {[to |-> c, type |-> "proxy_info", id |-> conns[c].frame.target,
                   addr |-> a, cands |-> {l, b} \ {NoAddr}]}
                 \cup {[to |-> e, type |-> "punch", id |-> conns[c].id,
                        addr |-> requesterAddr, cands |-> {}] : e \in {d} \ {NoConn}}
    /\ Done(c)
    /\ UNCHANGED <<proxies, cnt, controlConns, metrics, cleaner, helloIp, told>>

-----------------------------------------------------------------------------
(* The UDP punch listener, the cleanup loop, time and restarts.            *)

\* Mutant: the source IP is not compared with ControlIP.
MutLearnPublicAddr(id, ip, port) ==
    LET k == NodeKey[id] IN
    /\ Registered(k) /\ ~proxies[k].manual
    /\ proxies' = [proxies EXCEPT ![k] = [@ EXCEPT !.addr = <<ip, port>>]]
    /\ wire' = {}
    /\ UNCHANGED <<cnt, controlConns, conns, metrics, cleaner, helloIp, told>>

\* Mutant: a punch refreshes LastSeen.
MutPunchKeepsAlive(id, ip, port) ==
    LET k == NodeKey[id] IN
    /\ Registered(k) /\ proxies[k].ip = ip
    /\ proxies' = [proxies EXCEPT ![k] = [@ EXCEPT !.addr = <<ip, port>>, !.age = 0]]
    /\ wire' = {}
    /\ UNCHANGED <<cnt, controlConns, conns, metrics, cleaner, helloIp, told>>

\* learnPublicAddr on a 0x01 packet: dropped without an entry or when its
\* source IP is not the entry's ControlIP.  LastSeen is not touched.
LearnPublicAddr(id, ip, port) ==
    LET k == NodeKey[id] IN
    /\ Registered(k) /\ proxies[k].ip = ip
    /\ proxies' = IF proxies[k].manual THEN proxies
                   ELSE [proxies EXCEPT ![k] = [@ EXCEPT !.addr = <<ip, port>>]]
    /\ wire' = {}
    /\ UNCHANGED <<cnt, controlConns, conns, metrics, cleaner, helloIp, told>>

\* Mutant: the cutoff is off by one tick.
MutStale == {k \in Key : Registered(k) /\ proxies[k].age >= PurgeAge}

\* The entries not seen since the cutoff.
Stale == {k \in Key : Registered(k) /\ proxies[k].age > PurgeAge}

\* The cleanup tick under s.mu: every stale entry goes, and its counters.
Purge ==
    /\ cleaner.pc = "idle"
    /\ proxies' = [k \in Key |-> IF k \in Stale THEN NoProxy ELSE proxies[k]]
    /\ cnt' = [b \in Bucket |->
                 cnt[b] - Cardinality({k \in Stale :
                              b \in BucketsOf(proxies[k].role, proxies[k].auth)})]
    /\ cleaner' = [cleaner EXCEPT !.pc = "purged"]
    /\ wire' = {}
    /\ UNCHANGED <<controlConns, conns, metrics, helloIp, told>>

\* pruneMetrics under s.mu.RLock: the nodes seen within its cutoff.  (The
\* cutoff is computed right after; no clock tick is allowed for in between.)
PruneSnapshot ==
    /\ cleaner.pc = "purged"
    /\ cleaner' = [pc |-> "snapshot",
                   fresh |-> {k \in Key : Registered(k) /\ proxies[k].age <= PruneAge}]
    /\ wire' = {}
    /\ UNCHANGED <<proxies, cnt, controlConns, conns, metrics, helloIp, told>>

\* Mutant: only rows of nodes still in the registry are looked at.
MutPruneMetrics ==
    /\ cleaner.pc = "snapshot"
    /\ metrics' = [r \in RawId |->
                     IF /\ metrics[r] # NoRow /\ Registered(NodeKey[r])
                        /\ metrics[r].node \notin cleaner.fresh
                     THEN NoRow ELSE metrics[r]]
    /\ cleaner' = [pc |-> "idle", fresh |-> {}]
    /\ wire' = {}
    /\ UNCHANGED <<proxies, cnt, controlConns, conns, helloIp, told>>

\* pruneMetrics under metricsMu: rows whose NodeID is not in the snapshot go.
PruneMetrics ==
    /\ cleaner.pc = "snapshot"
    /\ metrics' = [r \in RawId |->
                     IF metrics[r] # NoRow /\ metrics[r].node \notin cleaner.fresh
                     THEN NoRow ELSE metrics[r]]
    /\ cleaner' = [pc |-> "idle", fresh |-> {}]
    /\ wire' = {}
    /\ UNCHANGED <<proxies, cnt, controlConns, conns, helloIp, told>>

Tick ==
    /\ proxies' = [k \in Key |->
                     IF Registered(k) /\ proxies[k].age < MaxAge
                     THEN [proxies[k] EXCEPT !.age = @ + 1] ELSE proxies[k]]
    /\ wire' = {}
    /\ UNCHANGED <<cnt, controlConns, conns, metrics, cleaner, helloIp, told>>

\* The process dies (Go's fatal error on a concurrent map access included)
\* and NewServer starts with nothing in memory.
Restart ==
    /\ proxies' = [k \in Key |-> NoProxy]
    /\ cnt' = [b \in Bucket |-> 0]
    /\ controlConns' = [k \in Key |-> NoConn]
    /\ conns' = [c \in Conn |-> FreeHandler]
    /\ wire' = {}
    /\ metrics' = [r \in RawId |-> NoRow]
    /\ cleaner' = [pc |-> "idle", fresh |-> {}]
    /\ helloIp' = [k \in Key |-> {}]
    /\ told' = [k \in Key |-> {}]

\* The server's own steps on connection c.
Handle(c) ==
    \/ ClosePrev(c) \/ HandlerExit(c)
    \/ RegisterReject(c) \/ ApplyRegister(c) \/ ApplyPing(c)
    \/ ApplyServiceLifecycle(c) \/ MetricPatch(c) \/ MetricStore(c)
    \/ ConnectLookup(c) \/ ConnectReply(c)

Cleanup == Purge \/ PruneSnapshot \/ PruneMetrics

Next ==
    \/ \E c \in Conn, id \in RawId, ip \in Ip : Hello(c, id, ip)
    \/ \E c \in Conn, f \in Frame : ReadFrame(c, f)
    \/ \E c \in Conn : PeerClose(c)
    \/ \E c \in Conn : Handle(c)
    \/ \E id \in RawId, ip \in Ip, port \in UdpPort : LearnPublicAddr(id, ip, port)
    \/ Cleanup
    \/ Tick
    \/ Restart

Spec == Init /\ [][Next]_vars

-----------------------------------------------------------------------------
(* The read-only HTTP views.                                               *)

Online(id) == id \in Key /\ Registered(id) /\ proxies[id].age < OnlineAge

\* handleMetrics without filters: the rows of the metric cache, each joined
\* with the liveness of live[m.NodeID], and a synthetic row for every live
\* node without one.
MetricsView ==
    {[node |-> metrics[r].node, online |-> Online(metrics[r].node)] :
         r \in {x \in RawId : metrics[x] # NoRow}}
    \cup
    {[node |-> k, online |-> Online(k)] :
         k \in {x \in Key : Registered(x) /\
                   ~\E r \in RawId : metrics[r] # NoRow /\ metrics[r].node = x}}

-----------------------------------------------------------------------------
(* Properties.                                                             *)

\* A handler at work holds the frame its step needs.
FrameOK(h) ==
    /\ h.pc = "busy" => h.frame # NoFrame
    /\ h.pc = "metric" => h.frame \in MetricsMsg
    /\ h.pc = "connect" => h.frame \in ConnectMsg

\* Every variable has its type.
TypeOK ==
    /\ proxies \in [Key -> Proxy \cup {NoProxy}]
    /\ cnt \in [Bucket -> Int]
    /\ controlConns \in [Key -> Conn \cup {NoConn}]
    /\ conns \in [Conn -> Handler]
    /\ \A c \in Conn : FrameOK(conns[c])
    /\ wire \in SUBSET Reply
    /\ metrics \in [RawId -> Row \cup {NoRow}]
    /\ cleaner \in [pc : {"idle", "purged", "snapshot"}, fresh : SUBSET Key]
    /\ helloIp \in [Key -> SUBSET Ip]
    /\ told \in [Key -> SUBSET LocalAddr]

\* The registered keys that count in bucket b.
InBucket(b) == {k \in Key : Registered(k) /\
                             b \in BucketsOf(proxies[k].role, proxies[k].auth)}

\* The O(1) counters equal a scan of the registry, through registers, role
\* swaps, AuthMode flips, purges and restarts ("so counts never leak").
CountersMatch == \A b \in Bucket : cnt[b] = Cardinality(InBucket(b))

\* A connected node stays reachable by PushToNode: an open control connection
\* is the one in controlConns unless a newer hello is about to close it, and
\* controlConns names only running handlers of that key.  (The exit of a
\* displaced handler must not unregister its successor.)
ConnsReachable ==
    /\ \A c \in Conn :
         conns[c].pc # "free" /\ conns[c].open =>
            \/ controlConns[NodeKey[conns[c].id]] = c
            \/ \E d \in Conn : conns[d].prev = c
    /\ \A k \in Key :
         controlConns[k] # NoConn =>
            /\ conns[controlConns[k]].pc # "free"
            /\ NodeKey[conns[controlConns[k]].id] = k

\* The address a node is listed under is set by the operator, or comes from a
\* connection that said hello under the node's id or from a punch of that
\* connection's host: no frame or punch of any other host moves it.  (A hello is
\* not authenticated, nor is a register without FullSync: see ClaimsSigned.)
AddrOwned ==
    \A k \in Key : Registered(k) =>
        /\ proxies[k].ip \in helloIp[k]
        /\ ~proxies[k].manual =>
              proxies[k].addr \in helloIp[k] \X ({TcpPort} \cup UdpPort)

\* So is every address that goes out in a proxy_info or punch frame, and every
\* candidate, which may also be a local address that a register of that node
\* reported: never another node's, and never empty, although handleConnect
\* reads the entry without the lock.
RepliesOwned ==
    \A m \in wire : m.type \in {"proxy_info", "punch"} =>
        LET k == NodeKey[m.id]
            own == StaticAddr \cup (helloIp[k] \X ({TcpPort} \cup UdpPort))
        IN  m.addr \in own /\ m.cands \subseteq own \cup told[k]

\* applyRegister: "a peer who can't sign as P:0xABC can't claim that id".  A node
\* enters the registry, and the IP its punches must come from changes, only by
\* a FullSync register whose signature is verified.
ClaimsSigned ==
    [][\A k \in Key :
         Registered(k)' /\ (~Registered(k) \/ proxies'[k].ip # proxies[k].ip) =>
            \E c \in Conn : /\ NodeKey[conns[c].id] = k /\ conns[c].pc = "busy"
                            /\ conns[c].frame.type = "register"
                            /\ conns[c].frame.full /\ conns[c].frame.sig]_vars

\* /v1/metrics never shows a registered, recently seen node as offline.
MetricsShowLiveNodes ==
    \A row \in MetricsView : Online(NodeKey[row.node]) => row.online

\* No handler is working on a frame of the node.
Quiet(k) == \A c \in Conn : NodeKey[conns[c].id] = k => conns[c].pc \in {"free", "ready"}

\* Fairness: handlers that have work run, the cleanup ticker fires, the
\* clock advances.  Peers owe nothing.
Fairness == /\ \A c \in Conn : WF_vars(Handle(c))
            /\ WF_vars(Cleanup)
            /\ WF_vars(Tick)
FairSpec == Spec /\ Fairness

\* A node whose backend has gone silent leaves the registry for good, however
\* long its isannd keeps sending punches.
DeadBackendPurged ==
    \A k \in Key : <>[]Quiet(k) => <>[](~Registered(k))

\* Metric rows of a node that has left the registry do not stay.
OrphanRowsGo ==
    \A r \in RawId :
        (metrics[r] # NoRow /\ ~Registered(NodeKey[r]))
            ~> (metrics[r] = NoRow \/ Registered(NodeKey[r]))
=============================================================================
