----------------------------- MODULE PartsProofs ----------------------------
(***************************************************************************)
(* Proofs about the components that stand alone: the session cache, the     *)
(* health limiter, the log ring, the rotating log file, the ping cadence,   *)
(* the admin settings and the market's replay window, each for every value  *)
(* of its constants.                                                        *)
(***************************************************************************)
EXTENDS MarketAuth, SessionCache, HealthLimiter, LogRing, LogRotate, AdminConfig,
        Cadence, FiniteSetTheorems, SequenceTheorems, TLAPS

-----------------------------------------------------------------------------
(* Cadence.                                                                *)

\* The interval a node is told lies within the clamp, whatever is configured.
LEMMA IntervalClamped ==
    ASSUME NEW s \in PingSetting
    PROVE  PingIntervalFor(s) \in Nat /\ PingIntervalFor(s) \in MinPing..MaxPing
  BY CadenceAssumption DEF PingIntervalFor

\* The clocks of the model: what the server and the node have in common.
CadenceInv ==
    /\ setting \in PingSetting /\ listed \in BOOLEAN /\ silent \in BOOLEAN
    /\ ticker \in 0..CleanupEvery
    /\ lastSeen \in Nat /\ told \in Nat /\ due \in Int
    \* A healthy node's ping is at most Late overdue.
    /\ ~silent => due >= -Late
    \* An entry is as old as the time since its last ping, and its node was
    \* told the interval of this server.
    /\ listed /\ ~silent => told = PingIntervalFor(setting) /\ lastSeen = told - due
    \* No entry outlives the cutoff by more than what the ticker has run.
    /\ listed => lastSeen + ticker <= PurgeAfter + CleanupEvery

\* A server and a node that has just registered.
LEMMA CadenceStart == CadenceInit => CadenceInv
<1> SUFFICES ASSUME CadenceInit PROVE CadenceInv
  OBVIOUS
<1>1. PingIntervalFor(setting) \in Nat
  BY IntervalClamped DEF CadenceInit
<1>2. listed \in BOOLEAN /\ silent \in BOOLEAN
  BY DEF CadenceInit
<1> QED
  BY <1>1, <1>2, CadenceAssumption DEF CadenceInit, CadenceInv

\* A second, a ping, silence, the cleanup tick, a restart.
LEMMA CadenceStep == CadenceInv /\ [CadenceNext]_cadenceVars => CadenceInv'
<1> SUFFICES ASSUME CadenceInv, [CadenceNext]_cadenceVars PROVE CadenceInv'
  OBVIOUS
<1> USE CadenceAssumption DEF CadenceInv
<1>0. PingIntervalFor(setting) \in Nat
  BY IntervalClamped
<1>1. CASE Second
  BY <1>0, <1>1 DEF Second
<1>2. CASE PingArrives
  <2>1. told' = IF listed THEN told ELSE PingIntervalFor(setting)
    BY <1>2 DEF PingArrives
  <2>2. told' \in Nat /\ told' = PingIntervalFor(setting)
    BY <1>0, <1>2, <2>1 DEF PingArrives
  <2> QED
    BY <1>2, <2>2 DEF PingArrives
<1>3. CASE GoSilent
  BY <1>3 DEF GoSilent
<1>4. CASE ComeBack
  <2>1. told' \in Nat /\ told' = PingIntervalFor(setting)
    BY <1>0, <1>4 DEF ComeBack
  <2>2. listed' \in BOOLEAN /\ silent' \in BOOLEAN /\ listed' /\ ~silent'
    BY <1>4 DEF ComeBack
  <2> QED
    BY <1>4, <2>1, <2>2 DEF ComeBack
<1>5. CASE CleanupTick
  <2>0. /\ ticker = 0 /\ ticker' = CleanupEvery
        /\ setting' = setting /\ told' = told /\ due' = due /\ silent' = silent
    BY <1>5 DEF CleanupTick
  <2>1. CASE listed /\ PastCutoff(lastSeen)
    <3>1. listed' = FALSE
      BY <1>5, <2>1, Zenon DEF CleanupTick
    <3>2. lastSeen' = 0
      BY <1>5, <2>1 DEF CleanupTick
    <3>3. listed' \in BOOLEAN /\ silent' \in BOOLEAN /\ ~listed'
      BY <2>0, <3>1, Zenon
    <3> QED
      BY <2>0, <3>2, <3>3
  <2>2. CASE ~(listed /\ PastCutoff(lastSeen))
    <3>1. listed' = listed
      BY <1>5, <2>2, Zenon DEF CleanupTick
    <3>2. lastSeen' = lastSeen
      BY <1>5, <2>2 DEF CleanupTick
    <3>3. CASE listed
      <4>1. lastSeen <= PurgeAfter
        BY <2>2, <3>3 DEF PastCutoff
      <4> QED
        BY <2>0, <3>1, <3>2, <3>3, <4>1
    <3>4. CASE ~listed
      BY <2>0, <3>1, <3>2, <3>4
    <3> QED
      BY <3>3, <3>4
  <2> QED
    BY <2>1, <2>2
<1>6. ASSUME NEW s \in PingSetting, Reconfigure(s) PROVE CadenceInv'
  <2>1. listed' \in BOOLEAN /\ silent' \in BOOLEAN /\ ~listed'
    BY <1>6, Zenon DEF Reconfigure
  <2> QED
    BY <1>6, <2>1 DEF Reconfigure
<1>7. CASE UNCHANGED cadenceVars
  BY <1>7 DEF cadenceVars
<1> QED
  BY <1>1, <1>2, <1>3, <1>4, <1>5, <1>6, <1>7 DEF CadenceNext

\* Whatever ping interval the operator sets, a node that pings at the interval
\* its register ack told it is "alive" by conn_status and out of reach of the
\* cleanup loop, also after a restart with another interval; it is `online` in
\* /v1/metrics as well when that interval, a late ping allowed for, is below
\* the 60 s of that flag.
THEOREM OnTimeCorrect == CadenceSpec => []OnTimeIsAlive
<1>1. CadenceInv => OnTimeIsAlive
  <2> SUFFICES ASSUME CadenceInv, listed, ~silent
               PROVE  /\ ConnStatus(lastSeen) = "alive" /\ ~PastCutoff(lastSeen)
                      /\ PingIntervalFor(setting) + Late < OnlineWithin => Online(lastSeen)
    BY DEF OnTimeIsAlive
  <2>1. /\ PingIntervalFor(setting) \in Nat
        /\ MinPing <= PingIntervalFor(setting) /\ PingIntervalFor(setting) <= MaxPing
    BY IntervalClamped, CadenceAssumption DEF CadenceInv
  <2>2. lastSeen \in Nat /\ lastSeen <= PingIntervalFor(setting) + Late
    BY <2>1, CadenceAssumption DEF CadenceInv
  <2>3. ConnStatus(lastSeen) = "alive"
    BY <2>1, <2>2, CadenceAssumption, CadenceMargins DEF ConnStatus
  <2>4. ~PastCutoff(lastSeen)
    BY <2>1, <2>2, CadenceAssumption, CadenceMargins DEF PastCutoff
  <2>5. PingIntervalFor(setting) + Late < OnlineWithin => Online(lastSeen)
    BY <2>1, <2>2, CadenceAssumption DEF Online
  <2> QED
    BY <2>3, <2>4, <2>5
<1> QED
  BY <1>1, CadenceStart, CadenceStep, PTL DEF CadenceSpec

\* The cleanup loop removes a silent node at most one tick after the cutoff.
THEOREM GoneInTimeCorrect == CadenceSpec => []GoneInTime
<1>1. CadenceInv => GoneInTime
  BY CadenceAssumption DEF CadenceInv, GoneInTime
<1> QED
  BY <1>1, CadenceStart, CadenceStep, PTL DEF CadenceSpec

-----------------------------------------------------------------------------
(* The session cache.                                                      *)

Entry == [node : Node, token : Token, exp : Nat]

\* What the maps hold, each entry under its own keys.
SessionTypes ==
    /\ sessionNow \in Nat
    /\ \A k \in DOMAIN byToken : byToken[k] \in Entry /\ byToken[k].token = k
    /\ \A n \in DOMAIN byNodeID : byNodeID[n] \in Entry /\ byNodeID[n].node = n
    /\ \A k \in DOMAIN replaced : k \in rotatedOut /\ replaced[k] \in Nat

\* The latest session of a node is indexed by its token, and was not rotated.
LatestIndexed ==
    \A n \in DOMAIN byNodeID :
        /\ byNodeID[n].token \in DOMAIN byToken \ rotatedOut
        /\ byToken[byNodeID[n].token] = byNodeID[n]

\* A token that was not rotated out is the latest session of its node.
UnrotatedIsLatest ==
    \A k \in DOMAIN byToken \ rotatedOut :
        /\ byToken[k].node \in DOMAIN byNodeID
        /\ byNodeID[byToken[k].node] = byToken[k]

SessionInv == SessionTypes /\ LatestIndexed /\ UnrotatedIsLatest

\* The empty cache.
LEMMA SessionStart == SessionInit => SessionInv
  BY DEF SessionInit, Empty, SessionInv, SessionTypes, LatestIndexed,
         UnrotatedIsLatest

\* A Put: the new session is the latest of its node; the one it replaces, if
\* there is one, is in the grace set, and no other node's session is.
LEMMA PutKeeps ==
    ASSUME SessionInv, NEW n \in Node, NEW k \in Token, Put(n, k)
    PROVE  SessionInv'
<1> DEFINE e == [node |-> n, token |-> k, exp |-> sessionNow + TTL]
           old == byNodeID[n]
<1> USE DEF SessionInv, SessionTypes, LatestIndexed, UnrotatedIsLatest
<1>1. e \in Entry /\ e.node = n /\ e.token = k
  BY SessionAssumption DEF Entry
<1> HIDE DEF e
<1>2. /\ k \notin DOMAIN byToken /\ k \notin rotatedOut
      /\ byNodeID' = With(byNodeID, n, e)
      /\ byToken' = With(byToken, k, e)
      /\ sessionNow' = sessionNow
  BY DEF Put, Fresh, e
<1>3. /\ DOMAIN byToken' = DOMAIN byToken \cup {k}
      /\ byToken'[k] = e
      /\ \A j \in DOMAIN byToken : byToken'[j] = byToken[j]
      /\ DOMAIN byNodeID' = DOMAIN byNodeID \cup {n}
      /\ byNodeID'[n] = e
      /\ \A m \in DOMAIN byNodeID \ {n} : byNodeID'[m] = byNodeID[m]
  BY <1>2 DEF With
<1>4. CASE n \in DOMAIN byNodeID
  <2>1. /\ replaced' = With(replaced, old.token, sessionNow + Grace)
        /\ rotatedOut' = rotatedOut \cup {old.token}
    BY <1>4 DEF Put
  <2>2. old \in Entry /\ old.node = n /\ old.token \in Token
    BY <1>4 DEF Entry
  <2>3. /\ DOMAIN replaced' = DOMAIN replaced \cup {old.token}
        /\ replaced'[old.token] = sessionNow + Grace
        /\ \A j \in DOMAIN replaced \ {old.token} : replaced'[j] = replaced[j]
    BY <2>1 DEF With
  <2> HIDE DEF old
  <2>4. old.token \in DOMAIN byToken /\ byToken[old.token] = old
    BY <1>4 DEF old
  <2>5. SessionTypes'
    BY <1>1, <1>2, <1>3, <2>1, <2>3, SessionAssumption
  <2>6. \A m \in DOMAIN byNodeID \ {n} : byNodeID[m].token # old.token
    BY <2>2, <2>4
  <2>7. LatestIndexed'
    BY <1>1, <1>2, <1>3, <2>1, <2>4, <2>6
  <2>8. \A j \in DOMAIN byToken \ rotatedOut :
           j # old.token => byToken[j].node # n
    BY <2>4 DEF old
  <2>9. UnrotatedIsLatest'
    BY <1>1, <1>2, <1>3, <2>1, <2>4, <2>8
  <2> QED
    BY <2>5, <2>7, <2>9
<1>5. CASE n \notin DOMAIN byNodeID
  <2>1. replaced' = replaced /\ rotatedOut' = rotatedOut
    BY <1>5 DEF Put
  <2> QED
    BY <1>1, <1>2, <1>3, <1>5, <2>1
<1> QED
  BY <1>4, <1>5

\* Prune with any earlier reading of the clock.
LEMMA PruneKeeps ==
    ASSUME SessionInv, NEW t \in 0..sessionNow, Prune(t)
    PROVE  SessionInv'
<1> USE DEF SessionInv, SessionTypes, LatestIndexed, UnrotatedIsLatest
<1>1. /\ DOMAIN byToken' = {k \in DOMAIN byToken : ~IsExpired(byToken[k], t)}
      /\ \A k \in DOMAIN byToken' : byToken'[k] = byToken[k]
      /\ DOMAIN byNodeID' = {n \in DOMAIN byNodeID : ~IsExpired(byNodeID[n], t)}
      /\ \A n \in DOMAIN byNodeID' : byNodeID'[n] = byNodeID[n]
      /\ DOMAIN replaced' \subseteq DOMAIN replaced
      /\ \A k \in DOMAIN replaced' : replaced'[k] = replaced[k]
      /\ sessionNow' = sessionNow /\ rotatedOut' = rotatedOut
  BY DEF Prune, Without, ExpiredNodes
<1> QED
  BY <1>1

\* Put, Prune and the clock.
LEMMA SessionStep == SessionInv /\ [SessionNext]_sessionVars => SessionInv'
<1> SUFFICES ASSUME SessionInv, [SessionNext]_sessionVars PROVE SessionInv'
  OBVIOUS
<1>1. CASE SessionTick
  BY <1>1 DEF SessionTick, SessionInv, SessionTypes, LatestIndexed, UnrotatedIsLatest
<1>2. CASE UNCHANGED sessionVars
  BY <1>2 DEF sessionVars, SessionInv, SessionTypes, LatestIndexed,
              UnrotatedIsLatest
<1> QED
  BY <1>1, <1>2, PutKeeps, PruneKeeps DEF SessionNext

\* The indexes of the cache, in every reachable state.
LEMMA SessionInvariant == SessionSpec => []SessionInv
  BY SessionStart, SessionStep, PTL DEF SessionSpec

\* The two indexes of the session cache agree, however Put, Prune and the
\* clock interleave and however old the time is that Prune works with.
THEOREM IndexesCorrect == SessionSpec => []IndexesAgree
<1>1. SessionInv => IndexesAgree
  <2> SUFFICES ASSUME SessionInv PROVE IndexesAgree
    OBVIOUS
  <2> USE DEF SessionInv
  <2>1. ASSUME NEW n \in Node, LookupByNodeID(n) # NoEntry
        PROVE  LookupByToken(LookupByNodeID(n).token) = LookupByNodeID(n)
    BY <2>1 DEF LookupByNodeID, LookupByToken, LatestIndexed
  <2>2. ASSUME NEW k \in Token, LookupByToken(k) # NoEntry, k \notin rotatedOut
        PROVE  LookupByNodeID(LookupByToken(k).node) = LookupByToken(k)
    <3>1. k \in DOMAIN byToken /\ ~IsExpired(byToken[k], sessionNow)
      BY <2>2 DEF LookupByToken, SessionTypes
    <3>2. LookupByToken(k) = byToken[k]
      BY <3>1 DEF LookupByToken
    <3> QED
      BY <2>2, <3>1, <3>2 DEF LookupByNodeID, UnrotatedIsLatest
  <2> QED
    BY <2>1, <2>2 DEF IndexesAgree
<1> QED
  BY <1>1, SessionInvariant, PTL

-----------------------------------------------------------------------------
(* The health limiter.                                                     *)

\* Limit requests for each of a number of seconds.
LEMMA LimitTimes ==
    ASSUME NEW a \in Int, NEW b \in Int
    PROVE  /\ Limit * a \in Int
           /\ Limit * (a + 1) = Limit * a + Limit
           /\ a <= b => Limit * a <= Limit * b
           /\ 0 <= a => 0 <= Limit * a
  BY LimiterAssumption

CallState == {NoCall} \cup [pc : {"lock"}, src : Source, now : Nat]

\* The calls of a source between the clock and the mutex.
InFlight(s) == {c \in Call : calls[c] # NoCall /\ calls[c].src = s}

LimiterTypes ==
    /\ second \in Nat /\ peak \in Nat /\ second <= peak
    /\ window \in Int /\ -1 <= window /\ window <= peak
    /\ hits \in [Source -> Nat] /\ sent \in [Source -> Nat]
    /\ admitted \in [Source -> Nat] /\ refused \subseteq Source
    /\ calls \in [Call -> CallState]
    /\ \A c \in Call : calls[c] # NoCall => calls[c].now <= peak

\* What the open window has let through of a source.
UsedUp(s) == IF hits[s] <= Limit THEN hits[s] ELSE Limit

\* The windows before the open one let Limit through each, at most; the open
\* one what it has counted.
Budget ==
    \A s \in Source :
        /\ window = -1 => hits[s] = 0 /\ admitted[s] = 0
        /\ window >= 0 => admitted[s] <= Limit * window + UsedUp(s)

\* Every hit of a source is a request of its own that has been answered.
Charged == \A s \in Source : hits[s] + Cardinality(InFlight(s)) <= sent[s]

LimiterInv == LimiterTypes /\ Budget /\ Charged /\ RefusedForOwnFlood

\* A call that read the clock is in flight.
LEMMA LockedCall ==
    ASSUME NEW s \in Source, NEW t \in Nat
    PROVE  LET k == [pc |-> "lock", src |-> s, now |-> t] IN
           k \in CallState /\ k # NoCall /\ k.src = s /\ k.now = t
<1> DEFINE k == [pc |-> "lock", src |-> s, now |-> t]
<1>1. k \in CallState /\ k.src = s /\ k.now = t /\ "src" \in DOMAIN k
  BY DEF CallState
<1>2. "src" \notin DOMAIN NoCall
  BY DEF NoCall
<1> QED
  BY <1>1, <1>2

\* A call in flight has a source and a clock reading that is not ahead of the clock.
LEMMA PendingCall ==
    ASSUME LimiterTypes, NEW c \in Call, calls[c] # NoCall
    PROVE  calls[c].src \in Source /\ calls[c].now \in Nat /\ calls[c].now <= peak
  BY DEF LimiterTypes, CallState

\* A source has finitely many calls in flight.
LEMMA InFlightFinite ==
    ASSUME NEW s
    PROVE  IsFiniteSet(InFlight(s)) /\ Cardinality(InFlight(s)) \in Nat
<1>1. InFlight(s) \in SUBSET Call
  BY DEF InFlight
<1> QED
  BY <1>1, LimiterAssumption, FS_Subset, FS_CardinalityType

\* No request has arrived.
LEMMA LimiterStart == LimiterInit => LimiterInv
<1> SUFFICES ASSUME LimiterInit PROVE LimiterInv
  OBVIOUS
<1>1. \A s : InFlight(s) = {}
  BY DEF LimiterInit, InFlight
<1>2. \A s : Cardinality(InFlight(s)) = 0
  BY <1>1, FS_EmptySet
<1>3. LimiterTypes
  BY DEF LimiterInit, LimiterTypes, NoHits, Never, CallState
<1>4. Budget
  BY LimiterAssumption DEF LimiterInit, Budget, NoHits, Never, UsedUp
<1>5. Charged /\ RefusedForOwnFlood
  BY <1>2 DEF LimiterInit, Charged, NoHits, RefusedForOwnFlood
<1> QED
  BY <1>3, <1>4, <1>5 DEF LimiterInv

\* A call is counted as sent when it arrives, before it is counted as a hit.
LEMMA ArriveKeeps ==
    ASSUME LimiterInv, NEW c \in Call, NEW s \in Source, Arrive(c, s)
    PROVE  LimiterInv'
<1> DEFINE k == [pc |-> "lock", src |-> s, now |-> second]
<1> USE DEF LimiterInv
<1>1. k \in CallState /\ k # NoCall /\ k.src = s /\ k.now = second
  BY LockedCall DEF LimiterTypes
<1> HIDE DEF k
<1>2. /\ calls[c] = NoCall
      /\ calls' = [calls EXCEPT ![c] = k]
      /\ sent' = [sent EXCEPT ![s] = @ + 1]
      /\ second' = second /\ peak' = peak /\ window' = window /\ hits' = hits
      /\ admitted' = admitted /\ refused' = refused
  BY DEF Arrive, k
<1>3. LimiterTypes'
  BY <1>1, <1>2 DEF LimiterTypes
<1>4. Budget'
  BY <1>2 DEF Budget, UsedUp
<1>5. InFlight(s)' = InFlight(s) \cup {c} /\ c \notin InFlight(s)
  BY <1>1, <1>2 DEF InFlight, LimiterTypes
<1>6. \A x \in Source \ {s} : InFlight(x)' = InFlight(x)
  BY <1>1, <1>2 DEF InFlight, LimiterTypes
<1>7. Cardinality(InFlight(s)') = Cardinality(InFlight(s)) + 1
  BY <1>5, InFlightFinite, FS_AddElement
<1>8. sent'[s] = sent[s] + 1 /\ \A x \in Source \ {s} : sent'[x] = sent[x]
  BY <1>2 DEF LimiterTypes
<1>9. Charged'
  <2> SUFFICES ASSUME NEW x \in Source
               PROVE  hits[x] + Cardinality(InFlight(x)') <= sent'[x]
    BY <1>2 DEF Charged
  <2>1. hits[x] + Cardinality(InFlight(x)) <= sent[x]
    BY DEF Charged
  <2>2. hits[x] \in Nat /\ sent[x] \in Nat /\ Cardinality(InFlight(x)) \in Nat
    BY InFlightFinite DEF LimiterTypes
  <2>3. CASE x = s
    BY <1>7, <1>8, <2>1, <2>2, <2>3
  <2>4. CASE x # s
    BY <1>6, <1>8, <2>1, <2>4
  <2> QED
    BY <2>3, <2>4
<1>10. RefusedForOwnFlood'
  BY <1>2, <1>8, LimiterAssumption DEF RefusedForOwnFlood, LimiterTypes
<1> QED
  BY <1>3, <1>4, <1>9, <1>10

\* A call that has the mutex: it opens a window or joins the open one, is
\* counted and let through or refused.
LEMMA AllowKeeps ==
    ASSUME LimiterInv, NEW c \in Call, Allow(c)
    PROVE  LimiterInv'
<1> USE DEF LimiterInv
<1>0. calls[c] # NoCall /\ calls[c].src \in Source /\ calls[c].now \in Nat
  BY PendingCall DEF Allow
<1> PICK s \in Source : calls[c].src = s
  BY <1>0
<1> PICK t \in Nat : calls[c].now = t
  BY <1>0
<1> DEFINE h0 == IF NewWindow(t) THEN NoHits ELSE hits
           h == Counted(h0, s)
<1>1. calls[c] # NoCall /\ s \in Source /\ t \in Nat /\ t <= peak
  BY <1>0, PendingCall
<1>2. /\ window' = IF NewWindow(t) THEN t ELSE window
      /\ hits' = h
      /\ admitted' = IF h[s] <= Limit THEN [admitted EXCEPT ![s] = @ + 1] ELSE admitted
      /\ refused' = IF h[s] <= Limit THEN refused ELSE refused \cup {s}
      /\ calls' = [calls EXCEPT ![c] = NoCall]
      /\ second' = second /\ peak' = peak /\ sent' = sent
  BY DEF Allow
<1>3. h0 \in [Source -> Nat] /\ \A x \in Source : h0[x] <= hits[x]
  BY DEF LimiterTypes, NoHits
<1> HIDE DEF h0
<1>4. /\ h \in [Source -> Nat] /\ h[s] = h0[s] + 1
      /\ \A x \in Source \ {s} : h[x] = h0[x]
  BY <1>1, <1>3 DEF Counted
<1> HIDE DEF h
<1>5. /\ admitted' \in [Source -> Nat]
      /\ admitted'[s] = IF h[s] <= Limit THEN admitted[s] + 1 ELSE admitted[s]
      /\ \A x \in Source \ {s} : admitted'[x] = admitted[x]
  BY <1>1, <1>2 DEF LimiterTypes
<1>6. LimiterTypes'
  <2>1. window' \in Int /\ -1 <= window' /\ window' <= peak
    BY <1>1, <1>2 DEF LimiterTypes
  <2>2. refused' \subseteq Source
    BY <1>1, <1>2 DEF LimiterTypes
  <2>3. /\ calls' \in [Call -> CallState]
        /\ \A d \in Call : calls'[d] # NoCall => calls'[d].now <= peak
    BY <1>2 DEF LimiterTypes, CallState
  <2> QED
    BY <1>2, <1>4, <1>5, <2>1, <2>2, <2>3 DEF LimiterTypes
<1>7. Budget'
  <2> SUFFICES ASSUME NEW x \in Source
               PROVE  /\ window' # -1
                      /\ window' >= 0 => admitted'[x] <= Limit * window' + UsedUp(x)'
    BY DEF Budget
  <2>1. /\ window = -1 => hits[x] = 0 /\ admitted[x] = 0
        /\ window >= 0 => admitted[x] <= Limit * window + UsedUp(x)
    BY DEF Budget
  <2>2. window \in Int /\ window >= -1 /\ admitted[x] \in Nat /\ hits[x] \in Nat /\ Limit \in Nat
    BY LimiterAssumption DEF LimiterTypes
  <2>3. UsedUp(x)' = IF h[x] <= Limit THEN h[x] ELSE Limit
    BY <1>2 DEF UsedUp
  <2>4. CASE t > window
    <3>1. window' = t /\ h0[x] = 0
      BY <1>2, <2>4 DEF NewWindow, h0, NoHits
    <3>2. admitted[x] <= Limit * t
      <4>1. CASE window = -1
        <5>1. 0 <= Limit * t
          BY <1>1, LimitTimes
        <5> QED
          BY <2>1, <4>1, <5>1
      <4>2. CASE window >= 0
        <5>1. admitted[x] <= Limit * window + Limit
          BY <2>1, <2>2, <4>2, LimitTimes DEF UsedUp
        <5>2. /\ Limit * (window + 1) <= Limit * t
              /\ Limit * (window + 1) = Limit * window + Limit
          <6>1. window + 1 \in Int /\ t \in Int /\ window + 1 <= t
            BY <1>1, <2>2, <2>4
          <6> QED
            BY <1>1, <2>2, <6>1, LimitTimes, Zenon
        <5>3. Limit * window \in Int /\ Limit * t \in Int /\ Limit * (window + 1) \in Int
          BY <1>1, <2>2, LimitTimes
        <5> QED
          BY <2>2, <5>1, <5>2, <5>3
      <4> QED
        BY <2>2, <4>1, <4>2
    <3>3. Limit * t \in Int
      BY <1>1, LimitTimes
    <3>4. admitted'[x] <= Limit * t + UsedUp(x)'
      <4>1. CASE x = s
        BY <1>4, <1>5, <2>2, <2>3, <3>1, <3>2, <3>3, <4>1
      <4>2. CASE x # s
        BY <1>4, <1>5, <2>2, <2>3, <3>1, <3>2, <3>3, <4>2
      <4> QED
        BY <4>1, <4>2
    <3> QED
      BY <1>1, <3>1, <3>4
  <2>5. CASE ~(t > window)
    <3>1. window' = window /\ h0[x] = hits[x] /\ window >= 0
      BY <1>1, <1>2, <2>2, <2>5 DEF NewWindow, h0
    <3>2. admitted[x] <= Limit * window + UsedUp(x)
      BY <2>1, <3>1
    <3>3. Limit * window \in Int
      BY <2>2, LimitTimes
    <3>4. CASE x = s
      BY <1>4, <1>5, <2>2, <2>3, <3>1, <3>2, <3>3, <3>4 DEF UsedUp
    <3>5. CASE x # s
      BY <1>4, <1>5, <2>2, <2>3, <3>1, <3>2, <3>3, <3>5 DEF UsedUp
    <3> QED
      BY <3>4, <3>5
  <2> QED
    BY <2>4, <2>5
<1>8. InFlight(s)' = InFlight(s) \ {c} /\ c \in InFlight(s)
  BY <1>1, <1>2 DEF InFlight, LimiterTypes
<1>9. \A x \in Source \ {s} : InFlight(x)' = InFlight(x)
  BY <1>1, <1>2 DEF InFlight, LimiterTypes
<1>10. Cardinality(InFlight(s)') = Cardinality(InFlight(s)) - 1
  BY <1>8, InFlightFinite, FS_RemoveElement
<1>11. ASSUME NEW x \in Source
       PROVE  h[x] + Cardinality(InFlight(x)') <= sent[x]
  <2>1. hits[x] + Cardinality(InFlight(x)) <= sent[x]
    BY DEF Charged
  <2>2. /\ hits[x] \in Nat /\ h0[x] \in Nat /\ h0[x] <= hits[x]
        /\ sent[x] \in Nat /\ Cardinality(InFlight(x)) \in Nat
    BY <1>3, InFlightFinite DEF LimiterTypes
  <2>3. CASE x = s
    BY <1>4, <1>10, <2>1, <2>2, <2>3
  <2>4. CASE x # s
    BY <1>4, <1>9, <2>1, <2>2, <2>4
  <2> QED
    BY <2>3, <2>4
<1>12. Charged'
  BY <1>2, <1>11 DEF Charged
<1>13. RefusedForOwnFlood'
  <2>1. h[s] \in Nat /\ sent[s] \in Nat /\ Cardinality(InFlight(s)') \in Nat
    BY <1>1, <1>4, <1>8, InFlightFinite, FS_RemoveElement, FS_CardinalityType DEF LimiterTypes
  <2>2. h[s] <= sent[s]
    BY <1>1, <1>11, <2>1
  <2> QED
    BY <1>2, <2>1, <2>2, LimiterAssumption DEF RefusedForOwnFlood
<1> QED
  BY <1>6, <1>7, <1>12, <1>13

\* A request arrives, allow answers, the clock moves.
LEMMA LimiterStep == LimiterInv /\ [LimiterNext]_limiterVars => LimiterInv'
<1> SUFFICES ASSUME LimiterInv, [LimiterNext]_limiterVars PROVE LimiterInv'
  OBVIOUS
<1> USE DEF LimiterInv, Budget, UsedUp, Charged, InFlight, RefusedForOwnFlood
<1>1. CASE NextSecond
  <2>1. second' \in Nat /\ peak' \in Nat /\ second' <= peak' /\ peak <= peak'
    BY <1>1 DEF NextSecond, LimiterTypes
  <2>2. \A c \in Call : calls[c] # NoCall => calls[c].now \in Nat
    BY PendingCall
  <2>3. LimiterTypes'
    BY <1>1, <2>1, <2>2 DEF NextSecond, LimiterTypes
  <2> QED
    BY <1>1, <2>3 DEF NextSecond
<1>2. ASSUME NEW t \in 0..MaxSecond, SetBack(t) PROVE LimiterInv'
  <2>1. LimiterTypes'
    BY <1>2, LimiterAssumption DEF SetBack, LimiterTypes
  <2> QED
    BY <1>2, <2>1 DEF SetBack
<1>3. CASE UNCHANGED limiterVars
  BY <1>3 DEF limiterVars, LimiterTypes
<1> HIDE DEF LimiterInv, Budget, UsedUp, Charged, InFlight, RefusedForOwnFlood
<1> QED
  BY <1>1, <1>2, <1>3, ArriveKeeps, AllowKeeps DEF LimiterNext

\* Window and counts of the limiter, in every reachable state.
LEMMA LimiterInvariant == LimiterSpec => []LimiterInv
  BY LimiterStart, LimiterStep, PTL DEF LimiterSpec

\* "max /health (+ UDP echo) requests per source IP per second": for any limit
\* and any number of sources and of goroutines in allow, however they are
\* delayed between the clock and the mutex and the wall clock is set back.
THEOREM RateCorrect == LimiterSpec => []RateBounded
<1>1. LimiterInv => RateBounded
  <2> SUFFICES ASSUME LimiterInv, NEW s \in Source
               PROVE  admitted[s] <= Limit * (peak + 1)
    BY DEF RateBounded
  <2>1. /\ window \in Int /\ peak \in Nat /\ -1 <= window /\ window <= peak
        /\ admitted[s] \in Nat /\ hits[s] \in Nat /\ Limit \in Nat
    BY LimiterAssumption DEF LimiterInv, LimiterTypes
  <2>2. /\ Limit * (window + 1) = Limit * window + Limit
        /\ Limit * (window + 1) <= Limit * (peak + 1)
        /\ Limit * 0 <= Limit * (peak + 1) /\ Limit * 0 = 0
        /\ Limit * window \in Int /\ Limit * (window + 1) \in Int
        /\ Limit * (peak + 1) \in Int
    BY <2>1, LimitTimes
  <2>3. CASE window = -1
    BY <2>1, <2>2, <2>3 DEF LimiterInv, Budget
  <2>4. CASE window >= 0
    <3>1. admitted[s] <= Limit * window + Limit
      BY <2>1, <2>2, <2>4 DEF LimiterInv, Budget, UsedUp
    <3> QED
      BY <2>1, <2>2, <3>1
  <2> QED
    BY <2>1, <2>3, <2>4
<1> QED
  BY <1>1, LimiterInvariant, PTL

\* A source that is told 429, or whose echo is dropped, has itself made more
\* than the limit: allow counts by source.
THEOREM RefusedCorrect == LimiterSpec => []RefusedForOwnFlood
<1>1. LimiterInv => RefusedForOwnFlood
  BY DEF LimiterInv
<1> QED
  BY <1>1, LimiterInvariant, PTL

-----------------------------------------------------------------------------
(* The log ring.                                                           *)

\* Positions wrap at most once.
LEMMA Wraps ==
    ASSUME NEW a \in 0..(2 * RingCap - 1)
    PROVE  a % RingCap = IF a < RingCap THEN a ELSE a - RingCap
  BY RingAssumption

Slot == 0..(RingCap - 1)
Buffer == [lines : [Slot -> Nat], pos : Slot, count : 0..RingCap]
Channel == [state : {"none", "open", "closed"}, queue : Seq(Nat), got : SUBSET Nat,
            since : Nat, dropped : BOOLEAN]

RingTypes ==
    /\ ring \in Buffer
    /\ stored \in Seq(Nat) /\ \A i \in 1..Len(stored) : stored[i] = i
    /\ sending \in [Writer -> Nat]
    /\ subs \subseteq Stream
    /\ chans \in [Stream -> Channel]

\* The slot j places before position p.
Back(p, j) == IF p >= j THEN p - j ELSE p - j + RingCap

\* The buffer holds the last lines, backwards from its position.
RingHolds ==
    /\ ring.count = IF Len(stored) < RingCap THEN Len(stored) ELSE RingCap
    /\ \A j \in 1..ring.count : ring.lines[Back(ring.pos, j)] = Len(stored) - j + 1

RingInv == RingTypes /\ RingHolds /\ SendsToOpen /\ StreamComplete

\* The empty ring.
LEMMA RingStart == RingInit => RingInv
<1> SUFFICES ASSUME RingInit PROVE RingInv
  OBVIOUS
<1>1. ring \in Buffer /\ ring.count = 0
  BY RingAssumption DEF RingInit, Buffer, Slot, NoLine
<1>2. stored = <<>> /\ stored \in Seq(Nat) /\ Len(stored) = 0
  BY DEF RingInit
<1>3. sending \in [Writer -> Nat] /\ subs = {}
  BY DEF RingInit, NoLine
<1>4. chans \in [Stream -> Channel]
  <2>1. [state |-> "none", queue |-> <<>>, got |-> {}, since |-> 0, dropped |-> FALSE]
          \in Channel
    BY DEF Channel
  <2> QED
    BY <2>1 DEF RingInit
<1> QED
  BY <1>1, <1>2, <1>3, <1>4, RingAssumption
     DEF RingInv, RingTypes, RingHolds, SendsToOpen, StreamComplete

\* The line a Write stores, and those before it.
LEMMA AppendLine ==
    ASSUME RingTypes
    PROVE  LET line == Len(stored) + 1
               new == Append(stored, line) IN
           /\ line \in Nat /\ Len(stored) \in Nat
           /\ new \in Seq(Nat) /\ Len(new) = line
           /\ \A i \in 1..line : new[i] = i
  BY DEF RingTypes

\* Write under b.mu moves every stored line one place further back.
LEMMA StoreHolds ==
    ASSUME RingTypes, RingHolds, NEW w \in Writer, Store(w)
    PROVE  ring' \in Buffer /\ RingHolds'
<1> DEFINE line == Len(stored) + 1
<1>1. line \in Nat /\ Len(stored) \in Nat /\ Len(stored') = line
  BY AppendLine DEF Store
<1>2. ring' = Stored(ring, line)
  BY DEF Store
<1> HIDE DEF line
<1> PICK p \in Slot : ring.pos = p
  BY DEF RingTypes, Buffer
<1> PICK c \in 0..RingCap : ring.count = c
  BY DEF RingTypes, Buffer
<1> PICK l \in [Slot -> Nat] : ring.lines = l
  BY DEF RingTypes, Buffer
<1> DEFINE q == IF p + 1 < RingCap THEN p + 1 ELSE 0
<1>3. (p + 1) % RingCap = q
  <2>1. p + 1 \in 0..(2 * RingCap - 1)
    BY RingAssumption DEF Slot
  <2> PICK a \in 0..(2 * RingCap - 1) : a = p + 1
    BY <2>1
  <2>2. a % RingCap = IF a < RingCap THEN a ELSE a - RingCap
    BY Wraps
  <2> QED
    BY <2>2, RingAssumption DEF Slot
<1>4. /\ ring'.lines = [l EXCEPT ![p] = line]
      /\ ring'.pos = q
      /\ ring'.count = IF c < RingCap THEN c + 1 ELSE c
      /\ ring' \in Buffer
  <2>1. q \in Slot
    BY RingAssumption DEF Slot
  <2>2. (IF c < RingCap THEN c + 1 ELSE c) \in 0..RingCap
    BY RingAssumption
  <2> QED
    BY <1>1, <1>2, <1>3, <2>1, <2>2 DEF Stored, Buffer
<1>5. ring'.count = IF line < RingCap THEN line ELSE RingCap
  BY <1>1, <1>4, RingAssumption DEF RingHolds, line
<1>6. ASSUME NEW j \in 1..ring'.count
      PROVE  ring'.lines[Back(ring'.pos, j)] = line - j + 1
  <2>0. j \in 1..RingCap /\ j - 1 \in 0..c /\ j - 1 < RingCap
    BY <1>4, <1>6, RingAssumption
  <2>1. CASE j = 1
    <3>1. Back(q, 1) = p
      BY RingAssumption DEF Back, Slot
    <3> QED
      BY <1>1, <1>4, <2>1, <3>1
  <2>2. CASE j # 1
    <3>1. Back(q, j) = Back(p, j - 1) /\ Back(p, j - 1) # p /\ Back(p, j - 1) \in Slot
      BY <2>0, <2>2, RingAssumption DEF Back, Slot
    <3>2. j - 1 \in 1..c
      BY <2>0, <2>2
    <3>3. l[Back(p, j - 1)] = Len(stored) - (j - 1) + 1
      BY <3>2 DEF RingHolds
    <3> QED
      BY <1>1, <1>4, <2>0, <3>1, <3>3 DEF line
  <2> QED
    BY <2>1, <2>2
<1> QED
  BY <1>1, <1>4, <1>5, <1>6 DEF RingHolds

\* The first critical section of Write.
LEMMA StoreKeeps ==
    ASSUME RingInv, NEW w \in Writer, Store(w)
    PROVE  RingInv'
<1> USE DEF RingInv
<1> DEFINE line == Len(stored) + 1
<1>1. /\ line \in Nat /\ Len(stored) \in Nat /\ Len(stored') = line
      /\ stored' \in Seq(Nat) /\ \A i \in 1..line : stored'[i] = i
  BY AppendLine DEF Store
<1>2. /\ sending[w] = NoLine /\ sending' = [sending EXCEPT ![w] = line]
      /\ subs' = subs /\ chans' = chans
  BY DEF Store
<1>3. ring' \in Buffer /\ RingHolds'
  BY StoreHolds
<1>4. RingTypes'
  BY <1>1, <1>2, <1>3 DEF RingTypes
<1>5. SendsToOpen'
  BY <1>2 DEF SendsToOpen
<1>6. StreamComplete'
  <2> SUFFICES ASSUME NEW s \in subs, ~chans[s].dropped,
                      NEW k \in (chans[s].since + 1)..line
               PROVE  \/ k \in chans[s].got \cup ToSet(chans[s].queue)
                      \/ \E v \in Writer : sending'[v] = k
    BY <1>1, <1>2 DEF StreamComplete
  <2>0. chans[s].since \in Nat
    BY DEF RingTypes, Channel
  <2>1. CASE k = line
    BY <1>2, <2>1 DEF RingTypes
  <2>2. CASE k # line
    <3>1. k \in (chans[s].since + 1)..Len(stored) /\ k # NoLine
      BY <1>1, <2>0, <2>2 DEF NoLine
    <3>2. \/ k \in chans[s].got \cup ToSet(chans[s].queue)
          \/ \E v \in Writer : sending[v] = k
      BY <3>1 DEF StreamComplete
    <3> QED
      BY <1>2, <3>1, <3>2 DEF RingTypes
  <2> QED
    BY <2>1, <2>2
<1> QED
  BY <1>3, <1>4, <1>5, <1>6

\* A line sent to a stream that has room.
LEMMA QueueGrows ==
    ASSUME NEW q \in Seq(Nat), NEW x \in Nat
    PROVE  Append(q, x) \in Seq(Nat) /\ ToSet(Append(q, x)) = ToSet(q) \cup {x}
<1>1. /\ Append(q, x) \in Seq(Nat) /\ Len(Append(q, x)) = Len(q) + 1
      /\ Append(q, x)[Len(q) + 1] = x
      /\ \A i \in 1..Len(q) : Append(q, x)[i] = q[i]
  OBVIOUS
<1>2. DOMAIN q = 1..Len(q) /\ DOMAIN Append(q, x) = 1..(Len(q) + 1) /\ Len(q) \in Nat
  BY <1>1
<1>3. \A y \in ToSet(Append(q, x)) : y \in ToSet(q) \cup {x}
  BY <1>1, <1>2 DEF ToSet
<1>4. \A y \in ToSet(q) : y \in ToSet(Append(q, x))
  BY <1>1, <1>2 DEF ToSet
<1>5. x \in ToSet(Append(q, x))
  BY <1>1, <1>2 DEF ToSet
<1> QED
  BY <1>1, <1>3, <1>4, <1>5

\* A stream reads its oldest line.
LEMMA QueueShrinks ==
    ASSUME NEW q \in Seq(Nat), q # <<>>
    PROVE  /\ Tail(q) \in Seq(Nat) /\ Head(q) \in Nat
           /\ \A y \in ToSet(q) : y = Head(q) \/ y \in ToSet(Tail(q))
<1>1. /\ Tail(q) \in Seq(Nat) /\ Head(q) \in Nat /\ Len(Tail(q)) = Len(q) - 1
      /\ Head(q) = q[1] /\ Len(q) \in Nat
      /\ \A i \in 1..(Len(q) - 1) : Tail(q)[i] = q[i + 1]
  OBVIOUS
<1>2. DOMAIN q = 1..Len(q) /\ DOMAIN Tail(q) = 1..(Len(q) - 1)
  BY <1>1
<1>3. ASSUME NEW y \in ToSet(q), y # Head(q) PROVE y \in ToSet(Tail(q))
  <2>1. PICK i \in 1..Len(q) : y = q[i]
    BY <1>2 DEF ToSet
  <2>2. i - 1 \in 1..(Len(q) - 1) /\ Tail(q)[i - 1] = y
    BY <1>1, <1>3, <2>1
  <2> QED
    BY <1>2, <2>2 DEF ToSet
<1> QED
  BY <1>1, <1>3

\* The non-blocking send: the line is in the queue, or the drop is on record.
LEMMA OfferedFacts ==
    ASSUME NEW c \in Channel, NEW x \in Nat
    PROVE  /\ Offered(c, x) \in Channel
           /\ Offered(c, x).state = c.state
           /\ Offered(c, x).since = c.since
           /\ Offered(c, x).got = c.got
           /\ ~Offered(c, x).dropped =>
                ~c.dropped /\ ToSet(Offered(c, x).queue) = ToSet(c.queue) \cup {x}
<1>1. c.queue \in Seq(Nat) /\ c.dropped \in BOOLEAN
  BY DEF Channel
<1>2. CASE Len(c.queue) < ChanCap
  <2>0. Append(c.queue, x) \in Seq(Nat)
    BY <1>1, QueueGrows
  <2> PICK q \in Seq(Nat) : q = Append(c.queue, x)
    BY <2>0
  <2> DEFINE d == [c EXCEPT !.queue = q]
  <2>1. /\ d \in Channel /\ d.state = c.state /\ d.since = c.since
        /\ d.got = c.got /\ d.dropped = c.dropped /\ d.queue = q
    BY DEF Channel
  <2>2. Offered(c, x) = d
    BY <1>2 DEF Offered
  <2>3. ToSet(d.queue) = ToSet(c.queue) \cup {x}
    BY <1>1, <2>1, QueueGrows
  <2> QED
    BY <2>1, <2>2, <2>3
<1>3. CASE ~(Len(c.queue) < ChanCap)
  <2> DEFINE d == [c EXCEPT !.dropped = TRUE]
  <2>1. /\ d \in Channel /\ d.state = c.state /\ d.since = c.since
        /\ d.got = c.got /\ d.dropped
    BY DEF Channel
  <2>2. Offered(c, x) = d
    BY <1>3 DEF Offered
  <2> QED
    BY <2>1, <2>2
<1> QED
  BY <1>2, <1>3

\* The second critical section of Write.
LEMMA SendKeeps ==
    ASSUME RingInv, NEW w \in Writer, Send(w)
    PROVE  RingInv'
<1> USE DEF RingInv
<1>0. sending[w] \in Nat
  BY DEF RingTypes
<1> PICK x \in Nat : sending[w] = x
  BY <1>0
<1>1. /\ sending' = [sending EXCEPT ![w] = NoLine]
      /\ chans' = [s \in Stream |-> IF s \in subs THEN Offered(chans[s], x) ELSE chans[s]]
      /\ ring' = ring /\ stored' = stored /\ subs' = subs
  BY DEF Send
<1>2. \A s \in Stream : chans[s] \in Channel
  BY DEF RingTypes
<1>3. \A s \in subs : s \in Stream /\ chans'[s] = Offered(chans[s], x)
  BY <1>1 DEF RingTypes
<1>4. RingTypes'
  <2>1. chans' \in [Stream -> Channel]
    BY <1>1, <1>2, OfferedFacts
  <2>2. sending' \in [Writer -> Nat]
    BY <1>1 DEF RingTypes, NoLine
  <2> QED
    BY <1>1, <2>1, <2>2 DEF RingTypes
<1>5. SendsToOpen'
  BY <1>1, <1>2, <1>3, OfferedFacts DEF SendsToOpen
<1>6. StreamComplete'
  <2> SUFFICES ASSUME NEW s \in subs, ~chans'[s].dropped,
                      NEW k \in (chans'[s].since + 1)..Len(stored)
               PROVE  \/ k \in chans'[s].got \cup ToSet(chans'[s].queue)
                      \/ \E v \in Writer : sending'[v] = k
    BY <1>1 DEF StreamComplete
  <2>1. /\ ~chans[s].dropped /\ chans'[s].since = chans[s].since
        /\ chans'[s].got = chans[s].got
        /\ ToSet(chans'[s].queue) = ToSet(chans[s].queue) \cup {x}
    <3>1. s \in Stream /\ chans[s] \in Channel
      BY <1>2, <1>3
    <3>2. chans'[s] = Offered(chans[s], x)
      BY <1>3
    <3> PICK c \in Channel : c = chans[s]
      BY <3>1
    <3>3. chans'[s] = Offered(c, x) /\ ~Offered(c, x).dropped
      BY <3>2
    <3>4. /\ ~c.dropped /\ Offered(c, x).since = c.since
          /\ Offered(c, x).got = c.got
          /\ ToSet(Offered(c, x).queue) = ToSet(c.queue) \cup {x}
      BY <3>3, OfferedFacts, Zenon
    <3> QED
      BY <3>3, <3>4
  <2>2. \/ k \in chans[s].got \cup ToSet(chans[s].queue)
        \/ \E v \in Writer : sending[v] = k
    BY <2>1 DEF StreamComplete
  <2>3. ASSUME NEW v \in Writer, sending[v] = k, v # w PROVE sending'[v] = k
    BY <1>1, <2>3 DEF RingTypes
  <2> QED
    BY <2>1, <2>2, <2>3
<1>7. RingHolds'
  BY <1>1 DEF RingHolds
<1> QED
  BY <1>4, <1>5, <1>6, <1>7

\* A stream that comes, reads, leaves the list and closes its channel.
LEMMA StreamKeeps ==
    ASSUME RingInv, NEW s \in Stream,
           Subscribe(s) \/ Receive(s) \/ Unsubscribe(s) \/ CloseChan(s)
    PROVE  RingInv'
<1> USE DEF RingInv
<1>0. /\ ring' = ring /\ stored' = stored /\ sending' = sending
  BY DEF Subscribe, Receive, Unsubscribe, CloseChan
<1>1. RingHolds'
  BY <1>0 DEF RingHolds
<1>2. chans[s] \in Channel /\ Len(stored) \in Nat
  BY DEF RingTypes
<1> PICK c \in Channel : chans[s] = c
  BY <1>2
<1>3. CASE Subscribe(s)
  <2> DEFINE d == [c EXCEPT !.state = "open", !.since = Len(stored)]
  <2>1. d \in Channel /\ d.state = "open" /\ d.since = Len(stored)
    BY <1>2 DEF Channel
  <2>2. chans' = [chans EXCEPT ![s] = d] /\ subs' = subs \cup {s}
    BY <1>3 DEF Subscribe, RingTypes
  <2> HIDE DEF d
  <2>3. chans'[s] = d /\ \A r \in Stream \ {s} : chans'[r] = chans[r]
    BY <2>2 DEF RingTypes
  <2>4. RingTypes' /\ SendsToOpen'
    BY <1>0, <2>1, <2>2, <2>3 DEF RingTypes, SendsToOpen
  <2>5. StreamComplete'
    <3> SUFFICES ASSUME NEW r \in subs \cup {s}, ~chans'[r].dropped,
                        NEW k \in (chans'[r].since + 1)..Len(stored)
                 PROVE  \/ k \in chans'[r].got \cup ToSet(chans'[r].queue)
                        \/ \E v \in Writer : sending[v] = k
      BY <1>0, <2>2 DEF StreamComplete
    <3>1. CASE r = s
      BY <1>2, <2>1, <2>3, <3>1
    <3>2. CASE r # s
      BY <2>3, <3>2 DEF StreamComplete, RingTypes
    <3> QED
      BY <3>1, <3>2
  <2> QED
    BY <1>1, <2>4, <2>5
<1>4. CASE Receive(s)
  <2> DEFINE d == [c EXCEPT !.queue = Tail(c.queue), !.got = c.got \cup {Head(c.queue)}]
  <2>0. c.queue \in Seq(Nat) /\ c.queue # <<>> /\ c.got \subseteq Nat
    BY <1>4 DEF Receive, Channel
  <2>1. /\ d \in Channel /\ d.state = c.state /\ d.since = c.since
        /\ d.dropped = c.dropped
        /\ d.queue = Tail(c.queue) /\ d.got = c.got \cup {Head(c.queue)}
    BY <2>0, QueueShrinks DEF Channel
  <2>2. chans' = [chans EXCEPT ![s] = d] /\ subs' = subs
    BY <1>4 DEF Receive, RingTypes
  <2> HIDE DEF d
  <2>3. chans'[s] = d /\ \A r \in Stream \ {s} : chans'[r] = chans[r]
    BY <2>2 DEF RingTypes
  <2>4. RingTypes' /\ SendsToOpen'
    BY <1>0, <2>1, <2>2, <2>3 DEF RingTypes, SendsToOpen
  <2>5. StreamComplete'
    <3> SUFFICES ASSUME NEW r \in subs, ~chans'[r].dropped,
                        NEW k \in (chans'[r].since + 1)..Len(stored)
                 PROVE  \/ k \in chans'[r].got \cup ToSet(chans'[r].queue)
                        \/ \E v \in Writer : sending[v] = k
      BY <1>0, <2>2 DEF StreamComplete
    <3>1. CASE r = s
      <4>1. \/ k \in c.got \cup ToSet(c.queue)
            \/ \E v \in Writer : sending[v] = k
        BY <2>1, <2>3, <3>1 DEF StreamComplete
      <4> QED
        BY <2>0, <2>1, <2>3, <3>1, <4>1, QueueShrinks
    <3>2. CASE r # s
      BY <2>3, <3>2 DEF StreamComplete, RingTypes
    <3> QED
      BY <3>1, <3>2
  <2> QED
    BY <1>1, <2>4, <2>5
<1>5. CASE Unsubscribe(s)
  BY <1>0, <1>1, <1>5 DEF Unsubscribe, RingTypes, SendsToOpen, StreamComplete
<1>6. CASE CloseChan(s)
  <2> DEFINE d == [c EXCEPT !.state = "closed"]
  <2>1. d \in Channel
    BY DEF Channel
  <2>2. chans' = [chans EXCEPT ![s] = d] /\ subs' = subs /\ s \notin subs
    BY <1>6 DEF CloseChan, RingTypes
  <2> HIDE DEF d
  <2>3. \A r \in Stream \ {s} : chans'[r] = chans[r]
    BY <2>2 DEF RingTypes
  <2>4. RingTypes' /\ SendsToOpen'
    BY <1>0, <2>1, <2>2, <2>3 DEF RingTypes, SendsToOpen
  <2>5. StreamComplete'
    BY <1>0, <2>2, <2>3 DEF StreamComplete, RingTypes
  <2> QED
    BY <1>1, <2>4, <2>5
<1> QED
  BY <1>3, <1>4, <1>5, <1>6

\* The two halves of Write, streams that begin, read and end.
LEMMA RingStep == RingInv /\ [RingNext]_ringVars => RingInv'
<1> SUFFICES ASSUME RingInv, [RingNext]_ringVars PROVE RingInv'
  OBVIOUS
<1>1. CASE UNCHANGED ringVars
  BY <1>1 DEF ringVars, RingInv, RingTypes, RingHolds, SendsToOpen, StreamComplete
<1> QED
  BY <1>1, StoreKeeps, SendKeeps, StreamKeeps DEF RingNext

\* Ring and streams, in every reachable state.
LEMMA RingInvariant == RingSpec => []RingInv
  BY RingStart, RingStep, PTL DEF RingSpec

\* The admin log view shows the last n lines in the order they were stored,
\* for every capacity, before and after the position wraps.
THEOREM RecentCorrect == RingSpec => []RecentInOrder
<1>1. RingInv => RecentInOrder
  <2> SUFFICES ASSUME RingInv, NEW n \in 0..(RingCap + 1)
               PROVE  Recent(n) = LET k == IF n > RingCap THEN RingCap ELSE n IN
                        SubSeq(stored, IF Len(stored) > k THEN Len(stored) - k + 1 ELSE 1,
                               Len(stored))
    BY DEF RecentInOrder
  <2> PICK p \in Slot : ring.pos = p
    BY DEF RingInv, RingTypes, Buffer
  <2> PICK c \in 0..RingCap : ring.count = c
    BY DEF RingInv, RingTypes, Buffer
  <2>0. stored \in Seq(Nat) /\ Len(stored) \in Nat
    BY DEF RingInv, RingTypes
  <2> PICK m \in Nat : Len(stored) = m
    BY <2>0
  <2>1. c = IF m < RingCap THEN m ELSE RingCap
    BY DEF RingInv, RingHolds
  <2> DEFINE k == IF n > c THEN c ELSE n
             first == m - k + 1
             start == (p - k + RingCap) % RingCap
  <2>2. k \in Nat /\ k <= m /\ k <= RingCap /\ first \in 1..(m + 1)
    BY <2>1, RingAssumption
  <2>3. first = LET k0 == IF n > RingCap THEN RingCap ELSE n IN
                IF m > k0 THEN m - k0 + 1 ELSE 1
    BY <2>1, RingAssumption
  <2>4. SubSeq(stored, first, m) = [i \in 1..k |-> stored[first + i - 1]]
    <3>1. m - first + 1 = k
      BY <2>2
    <3>2. SubSeq(stored, first, m) = [i \in 1..(m - first + 1) |-> stored[i + first - 1]]
      BY <2>0, <2>2, SubSeqProperties
    <3> QED
      BY <2>2, <3>1, <3>2
  <2>5. ASSUME NEW i \in 1..k
        PROVE  ring.lines[(start + i - 1) % RingCap] = stored[first + i - 1]
    <3>0. k - i + 1 \in 1..c
      BY <2>1, <2>2
    <3>1. p - k + RingCap \in 0..(2 * RingCap - 1)
      BY <2>2, RingAssumption DEF Slot
    <3>2. start = IF p - k + RingCap < RingCap THEN p - k + RingCap ELSE p - k
      <4> PICK a \in 0..(2 * RingCap - 1) : a = p - k + RingCap
        BY <3>1
      <4>1. a % RingCap = IF a < RingCap THEN a ELSE a - RingCap
        BY Wraps
      <4> QED
        BY <2>2, <4>1, RingAssumption DEF Slot
    <3> HIDE DEF start
    <3>3. start \in 0..(RingCap - 1)
      BY <2>2, <3>2, RingAssumption DEF Slot
    <3>4. start + i - 1 \in 0..(2 * RingCap - 1)
      BY <2>2, <3>3, RingAssumption
    <3> PICK a \in 0..(2 * RingCap - 1) : start + i - 1 = a
      BY <3>4
    <3>5. a % RingCap = IF a < RingCap THEN a ELSE a - RingCap
      BY Wraps
    <3>6. a % RingCap = Back(p, k - i + 1)
      BY <2>2, <3>2, <3>3, <3>5, RingAssumption DEF Back, Slot
    <3>8. ring.lines[Back(p, k - i + 1)] = m - (k - i + 1) + 1
      BY <3>0 DEF RingInv, RingHolds
    <3>9. first + i - 1 \in 1..m
      BY <2>2
    <3>10. stored[first + i - 1] = first + i - 1
      BY <3>9 DEF RingInv, RingTypes
    <3>11. ring.lines[a % RingCap] = stored[first + i - 1]
      BY <2>2, <3>6, <3>8, <3>10
    <3> QED
      BY <3>11, Zenon
  <2>6. Recent(n) = [i \in 1..k |-> ring.lines[(start + i - 1) % RingCap]]
    BY DEF Recent
  <2>7. Recent(n) = [i \in 1..k |-> stored[first + i - 1]]
    BY <2>5, <2>6
  <2> QED
    BY <2>3, <2>4, <2>7
<1> QED
  BY <1>1, RingInvariant, PTL

\* No line is sent on a closed channel, whenever a stream ends: Unsubscribe
\* takes the channel off the list under subsMu before it is closed.
THEOREM SendsCorrect == RingSpec => []SendsToOpen
<1>1. RingInv => SendsToOpen
  BY DEF RingInv
<1> QED
  BY <1>1, RingInvariant, PTL

\* A live log stream misses only lines its own channel had no room for, for
\* any number of writers and streams between the two mutexes of Write.
THEOREM StreamCorrect == RingSpec => []StreamComplete
<1>1. RingInv => StreamComplete
  BY DEF RingInv
<1> QED
  BY <1>1, RingInvariant, PTL

-----------------------------------------------------------------------------
(* The rotating log file.                                                  *)

\* No line is older than the file it is in says, and no renamed file has the
\* date the open one would be renamed to.
RotateTypes ==
    /\ today \in Nat /\ curDate \in Nat /\ curDate <= today
    /\ written \subseteq Nat
    /\ \A d \in base : d \in Nat /\ d <= curDate
    /\ \A e \in DOMAIN rotated :
         e \in Nat /\ e < curDate /\ \A d \in rotated[e] : d \in Nat /\ d <= e

\* LinesKept, file by file.
Kept ==
    \A d \in written :
        \/ d \in base
        \/ \E e \in DOMAIN rotated : d \in rotated[e]
        \/ today > d + MaxFiles

RotateInv == RotateTypes /\ Kept

\* The first day, before anything is written.
LEMMA RotateStart == RotateInit => RotateInv
  BY DEF RotateInit, RotateInv, RotateTypes, Kept

\* cleanup deletes a file only if MaxFiles others have a date after its own,
\* all of them past: that takes more than MaxFiles days.
LEMMA CleanupKeeps ==
    ASSUME NEW f, NEW nowDay \in Nat,
           \A e \in DOMAIN f : e \in Nat /\ e < nowDay
    PROVE  /\ DOMAIN Cleanup(f) \subseteq DOMAIN f
           /\ \A e \in DOMAIN Cleanup(f) : Cleanup(f)[e] = f[e]
           /\ \A e \in DOMAIN f : e \in DOMAIN Cleanup(f) \/ nowDay > e + MaxFiles
<1>1. ASSUME NEW e \in DOMAIN f, e \notin DOMAIN Cleanup(f)
      PROVE  nowDay > e + MaxFiles
  <2> DEFINE later == {g \in DOMAIN f : g > e}
  <2>0. e \in Nat /\ e + 1 \in Int /\ nowDay - 1 \in Int /\ e < nowDay
    OBVIOUS
  <2>1. later \in SUBSET ((e + 1)..(nowDay - 1))
    BY <2>0
  <2>2. ~(Cardinality(later) < MaxFiles)
    BY <1>1 DEF Cleanup
  <2> HIDE DEF later
  <2>3. /\ IsFiniteSet((e + 1)..(nowDay - 1))
        /\ Cardinality((e + 1)..(nowDay - 1)) = IF e + 1 > nowDay - 1 THEN 0 ELSE nowDay - 1 - (e + 1) + 1
    BY <2>0, FS_Interval
  <2>4. /\ Cardinality(later) \in Nat
        /\ Cardinality(later) <= Cardinality((e + 1)..(nowDay - 1))
    BY <2>1, <2>3, FS_Subset, FS_CardinalityType
  <2> QED
    BY <2>0, <2>2, <2>3, <2>4, RotateAssumption
<1>2. /\ DOMAIN Cleanup(f) \subseteq DOMAIN f
      /\ \A e \in DOMAIN Cleanup(f) : Cleanup(f)[e] = f[e]
  BY DEF Cleanup
<1> QED
  BY <1>1, <1>2

\* A write, with the rotation it may start.
LEMMA WriteKeeps ==
    ASSUME RotateInv, NEW renames \in BOOLEAN, NEW reopens \in BOOLEAN,
           WriteLine(renames, reopens)
    PROVE  RotateInv'
<1> DEFINE turn == today # curDate
           kept == IF turn /\ renames THEN {} ELSE base
           f == IF renames THEN Renamed(rotated) ELSE rotated
<1> USE DEF RotateInv
<1>1. /\ rotated' = IF turn THEN Cleanup(f) ELSE rotated
      /\ curDate' = today /\ today' = today
  BY DEF WriteLine
<1>2. \/ base' = kept /\ written' = written
      \/ base' = kept \cup {today} /\ written' = written \cup {today}
  BY DEF WriteLine
<1>3. CASE turn
  <2>1. curDate < today
    BY <1>3 DEF RotateTypes
  <2>2. CASE renames
    <3>1. /\ DOMAIN f = DOMAIN rotated \cup {curDate}
          /\ f[curDate] = base
          /\ \A e \in DOMAIN rotated : e # curDate /\ f[e] = rotated[e]
      BY <2>2 DEF Renamed, RotateTypes
    <3> HIDE DEF f
    <3>2. \A e \in DOMAIN f :
             e \in Nat /\ e < today /\ \A d \in f[e] : d \in Nat /\ d <= e
      BY <2>1, <3>1 DEF RotateTypes
    <3>3. /\ DOMAIN rotated' \subseteq DOMAIN f
          /\ \A e \in DOMAIN rotated' : rotated'[e] = f[e]
          /\ \A e \in DOMAIN f : e \in DOMAIN rotated' \/ today > e + MaxFiles
      BY <1>1, <1>3, <3>2, CleanupKeeps DEF RotateTypes
    <3>4. kept = {}
      BY <1>3, <2>2
    <3> HIDE DEF kept
    <3>5. RotateTypes'
      <4>0. today \in Nat /\ written \subseteq Nat
        BY DEF RotateTypes
      <4>1. written' \subseteq Nat /\ \A d \in base' : d \in Nat /\ d <= today
        <5>1. CASE base' = kept /\ written' = written
          BY <3>4, <4>0, <5>1
        <5>2. CASE base' = kept \cup {today} /\ written' = written \cup {today}
          BY <3>4, <4>0, <5>2
        <5> QED
          BY <1>2, <5>1, <5>2
      <4>2. \A e \in DOMAIN rotated' :
               e \in Nat /\ e < today /\ \A d \in rotated'[e] : d \in Nat /\ d <= e
        BY <3>2, <3>3
      <4> QED
        BY <1>1, <4>1, <4>2 DEF RotateTypes
    <3>6. ASSUME NEW d \in written
          PROVE  (\E e \in DOMAIN rotated' : d \in rotated'[e]) \/ today > d + MaxFiles
      <4>1. (\E e \in DOMAIN f : d \in f[e]) \/ today > d + MaxFiles
        BY <3>1 DEF Kept
      <4>2. ASSUME NEW e \in DOMAIN f, d \in f[e], today > e + MaxFiles
            PROVE  today > d + MaxFiles
        <5>1. e \in Nat /\ d \in Nat /\ d <= e
          BY <3>2, <4>2
        <5> QED
          BY <4>2, <5>1, RotateAssumption DEF RotateTypes
      <4> QED
        BY <3>3, <4>1, <4>2
    <3>7. Kept'
      BY <1>1, <1>2, <3>4, <3>6 DEF Kept
    <3> QED
      BY <3>5, <3>7
  <2>3. CASE ~renames
    <3>1. f = rotated /\ kept = base
      BY <2>3
    <3> HIDE DEF f, kept
    <3>2. \A e \in DOMAIN rotated :
             e \in Nat /\ e < today /\ \A d \in rotated[e] : d \in Nat /\ d <= e
      BY <2>1 DEF RotateTypes
    <3>3. /\ DOMAIN rotated' \subseteq DOMAIN rotated
          /\ \A e \in DOMAIN rotated' : rotated'[e] = rotated[e]
          /\ \A e \in DOMAIN rotated : e \in DOMAIN rotated' \/ today > e + MaxFiles
      BY <1>1, <1>3, <3>1, <3>2, CleanupKeeps DEF RotateTypes
    <3>4. \A d \in base : d \in Nat /\ d <= today
      BY <2>1 DEF RotateTypes
    <3>5. RotateTypes'
      <4>0. today \in Nat /\ written \subseteq Nat
        BY DEF RotateTypes
      <4>1. written' \subseteq Nat /\ \A d \in base' : d \in Nat /\ d <= today
        <5>1. CASE base' = kept /\ written' = written
          BY <3>1, <3>4, <4>0, <5>1
        <5>2. CASE base' = kept \cup {today} /\ written' = written \cup {today}
          BY <3>1, <3>4, <4>0, <5>2
        <5> QED
          BY <1>2, <5>1, <5>2
      <4>2. \A e \in DOMAIN rotated' :
               e \in Nat /\ e < today /\ \A d \in rotated'[e] : d \in Nat /\ d <= e
        BY <3>2, <3>3
      <4> QED
        BY <1>1, <4>1, <4>2 DEF RotateTypes
    <3>6. ASSUME NEW d \in written
          PROVE  \/ d \in base
                 \/ \E e \in DOMAIN rotated' : d \in rotated'[e]
                 \/ today > d + MaxFiles
      <4>1. ASSUME NEW e \in DOMAIN rotated, d \in rotated[e], today > e + MaxFiles
            PROVE  today > d + MaxFiles
        <5>1. e \in Nat /\ d \in Nat /\ d <= e
          BY <3>2, <4>1
        <5> QED
          BY <4>1, <5>1, RotateAssumption DEF RotateTypes
      <4> QED
        BY <3>3, <4>1 DEF Kept
    <3>7. Kept'
      BY <1>1, <1>2, <3>1, <3>6 DEF Kept
    <3> QED
      BY <3>5, <3>7
  <2> QED
    BY <2>2, <2>3
<1>4. CASE ~turn
  <2>1. rotated' = rotated /\ kept = base /\ curDate = today
    BY <1>1, <1>4
  <2>2. RotateTypes'
    BY <1>1, <1>2, <2>1 DEF RotateTypes
  <2>3. Kept'
    BY <1>1, <1>2, <2>1 DEF Kept
  <2> QED
    BY <2>2, <2>3
<1> QED
  BY <1>3, <1>4

\* A write, the next day, a restart.
LEMMA RotateStep == RotateInv /\ [RotateNext]_rotateVars => RotateInv'
<1> SUFFICES ASSUME RotateInv, [RotateNext]_rotateVars PROVE RotateInv'
  OBVIOUS
<1> USE DEF RotateInv
<1>1. ASSUME NEW ok \in BOOLEAN, Reopen(ok) PROVE RotateInv'
  <2>1. /\ curDate' = today /\ today' = today /\ base' = base
        /\ rotated' = rotated /\ written' = written
    BY <1>1 DEF Reopen
  <2>2. \A d \in base : d \in Nat /\ d <= today
    BY DEF RotateTypes
  <2>3. \A e \in DOMAIN rotated : e \in Nat /\ e < today
    BY DEF RotateTypes
  <2>4. RotateTypes'
    BY <2>1, <2>2, <2>3 DEF RotateTypes
  <2> QED
    BY <2>1, <2>4 DEF Kept
<1>2. CASE Midnight
  <2>1. RotateTypes'
    BY <1>2 DEF Midnight, RotateTypes
  <2>2. Kept'
    <3>1. today' = today + 1 /\ written' = written /\ base' = base /\ rotated' = rotated
      BY <1>2 DEF Midnight
    <3>2. ASSUME NEW d \in written, today > d + MaxFiles
          PROVE  today + 1 > d + MaxFiles
      <4>1. d \in Nat /\ today \in Nat
        BY DEF RotateTypes
      <4> QED
        BY <3>2, <4>1, RotateAssumption
    <3> QED
      BY <3>1, <3>2 DEF Kept
  <2> QED
    BY <2>1, <2>2
<1>3. CASE UNCHANGED rotateVars
  BY <1>3 DEF rotateVars, RotateTypes, Kept
<1> QED
  BY <1>1, <1>2, <1>3, WriteKeeps DEF RotateNext

\* A line the log file took is on disk for MaxFiles days after its own, for
\* any MaxFiles, through restarts and through renames and reopenings of rotate
\* that fail: cleanup deletes nothing younger, and no rename meets a name in
\* use.
THEOREM LinesCorrect == RotateSpec => []LinesKept
<1>1. RotateInv => LinesKept
  BY DEF RotateInv, Kept, LinesKept, OnDisk
<1> QED
  BY <1>1, RotateStart, RotateStep, PTL DEF RotateSpec

-----------------------------------------------------------------------------
(* The admin settings.                                                     *)

Memory == [setting : Setting, auth : AuthSetting, cards : Cards]
WholeFile == [state : {"whole"}, setting : Setting, auth : AuthSetting, cards : Cards]
AdminJob == [pc : {"open", "write"}, copy : Memory, file : SettingsFile, more : {{}, {"auth"}}]

AdminTypes ==
    /\ mem \in Memory
    /\ disk \in [SettingsFile -> {Absent, CutOff} \cup WholeFile]
    /\ admins \in [AdminReq -> {AdminIdle} \cup AdminJob]
    /\ ~serving => Busy = {}

\* What requests that overlap have still to save is unsure; so a request with
\* a sure file to save is alone, and its copy is what the server runs with.
Overlaps ==
    /\ \A q, r \in Busy : q # r => ToSave(r) \subseteq unsure
    /\ \A r \in Busy : ToSave(r) \subseteq unsure \/ admins[r].copy = mem
    /\ \A r \in Busy : admins[r].pc = "write" =>
          admins[r].file \in unsure \/ disk[admins[r].file] = CutOff

\* A file that is sure and that no request has still to save.
Sure(f) == f \notin unsure /\ \A r \in Busy : f \notin ToSave(r)

SidecarHasCards == Whole("runtime") /\ disk["runtime"].cards # EmptyCards

\* What such a file says is what the server runs with.
FilesAgree ==
    /\ Sure("config") => Whole("config") /\ disk["config"].setting = mem.setting
    /\ Sure("auth") /\ authFile => LoadedAuth = Canonical(mem.auth)
    /\ Sure("runtime") /\ SidecarHasCards => disk["runtime"].cards = mem.cards
    /\ Sure("runtime") /\ Sure("config") /\ ~SidecarHasCards /\ mem.cards # EmptyCards =>
          disk["config"].cards = mem.cards

AdminInv == AdminTypes /\ Overlaps /\ (serving => FilesAgree)

\* A busy PUT handler holds a request; an idle one has nothing to save.
LEMMA RequestFacts ==
    ASSUME AdminTypes, NEW r \in AdminReq
    PROVE  /\ r \in Busy <=> admins[r].pc # "idle"
           /\ r \in Busy <=> admins[r] # AdminIdle
           /\ r \notin Busy => ToSave(r) = {}
           /\ r \in Busy =>
                /\ admins[r] \in AdminJob
                /\ admins[r].copy \in Memory /\ admins[r].file \in SettingsFile
                /\ admins[r].more \in {{}, {"auth"}}
                /\ admins[r].pc \in {"open", "write"}
                /\ ToSave(r) = {admins[r].file} \cup admins[r].more
<1>1. AdminIdle.pc = "idle"
  BY DEF AdminIdle
<1>2. admins[r] = AdminIdle \/ admins[r] \in AdminJob
  BY DEF AdminTypes
<1>3. admins[r] \in AdminJob =>
        /\ admins[r].copy \in Memory /\ admins[r].file \in SettingsFile
        /\ admins[r].more \in {{}, {"auth"}}
        /\ admins[r].pc \in {"open", "write"}
  BY DEF AdminJob
<1> QED
  BY <1>1, <1>2, <1>3 DEF Busy, ToSave

\* A file that was written whole holds settings, auth and cards.
LEMMA WholeFacts ==
    ASSUME AdminTypes, NEW f \in SettingsFile, Whole(f)
    PROVE  /\ disk[f] \in WholeFile /\ disk[f].setting \in Setting
           /\ disk[f].auth \in AuthSetting /\ disk[f].cards \in Cards
<1>1. Absent.state = "absent" /\ CutOff.state = "cut"
  BY DEF Absent, CutOff
<1>2. disk[f] \in WholeFile
  BY <1>1 DEF AdminTypes, Whole
<1> QED
  BY <1>2 DEF WholeFile

\* A PUT handler about to save.
LEMMA SavingType ==
    ASSUME NEW m \in Memory, NEW f \in SettingsFile, NEW more \in {{}, {"auth"}}
    PROVE  Saving(m, f, more) \in AdminJob
  BY DEF Saving, AdminJob

\* The server as it was started.
LEMMA AdminStart == AdminInit => AdminInv
<1> SUFFICES ASSUME AdminInit PROVE AdminInv
  OBVIOUS
<1>1. PICK s \in Setting :
        /\ mem = [setting |-> s, auth |-> "public", cards |-> EmptyCards]
        /\ disk = [f \in SettingsFile |-> IF f = "config" THEN Doc(s, "public", EmptyCards)
                                  ELSE Absent]
        /\ admins = [r \in AdminReq |-> AdminIdle]
        /\ serving = TRUE
  BY DEF AdminInit
<1>2. /\ disk["config"] = Doc(s, "public", EmptyCards)
      /\ disk["auth"] = Absent /\ disk["runtime"] = Absent
  BY <1>1 DEF SettingsFile
<1>3. mem \in Memory /\ mem.setting = s /\ mem.auth = "public" /\ mem.cards = EmptyCards
  BY <1>1, AdminAssumption DEF Memory
<1>4. Doc(s, "public", EmptyCards) \in WholeFile
  BY AdminAssumption DEF Doc, WholeFile
<1>5. Busy = {}
  BY <1>1 DEF Busy, AdminIdle
<1>6. AdminTypes
  BY <1>1, <1>3, <1>4, <1>5 DEF AdminTypes
<1>7. FilesAgree
  BY <1>2, <1>3 DEF FilesAgree, Whole, Doc, Absent, LoadedAuth, Canonical,
                      SidecarHasCards
<1> QED
  BY <1>5, <1>6, <1>7 DEF AdminInv, Overlaps

\* A PUT that has changed the memory: the files it is about to save are not
\* sure until it has, and neither is what the requests it overlaps save.
LEMMA PutBegins ==
    ASSUME AdminInv, NEW r \in AdminReq, serving, admins[r] = AdminIdle,
           NEW m \in Memory, NEW f0 \in SettingsFile, NEW more \in {{}, {"auth"}},
           mem' = m, admins' = [admins EXCEPT ![r] = Saving(m, f0, more)],
           unsure' = Settled({f0} \cup more), disk' = disk, serving' = serving
    PROVE  /\ AdminTypes' /\ Overlaps'
           /\ \A f \in SettingsFile : Sure(f)' => Sure(f) /\ f \notin {f0} \cup more
<1> DEFINE F == {f0} \cup more
<1> USE DEF AdminInv
<1>0. PICK new \in AdminJob :
        /\ new = Saving(m, f0, more) /\ new.pc = "open"
        /\ new.copy = m /\ new.file = f0 /\ new.more = more
  <2> DEFINE new == Saving(m, f0, more)
  <2>1. new \in AdminJob
    BY SavingType
  <2>2. new.pc = "open" /\ new.copy = m /\ new.file = f0 /\ new.more = more
    BY DEF Saving
  <2> QED
    BY <2>1, <2>2
<1>1. /\ admins'[r] = new
      /\ \A q \in AdminReq \ {r} : admins'[q] = admins[q]
      /\ admins' \in [AdminReq -> {AdminIdle} \cup AdminJob]
  BY <1>0 DEF AdminTypes
<1>2. AdminTypes'
  BY <1>1 DEF AdminTypes
<1>3. r \notin Busy /\ Busy' = Busy \cup {r}
  <2>1. r \notin Busy
    BY RequestFacts
  <2>2. admins'[r].pc # "idle"
    BY <1>0, <1>1
  <2> QED
    BY <1>1, <2>1, <2>2 DEF Busy
<1>4. ToSave(r)' = F /\ \A q \in AdminReq \ {r} : ToSave(q)' = ToSave(q)
  BY <1>0, <1>1 DEF ToSave
<1>5. Busy \subseteq AdminReq
  BY DEF Busy
<1>6. CASE Busy = {}
  <2>1. unsure' = unsure \ F /\ Busy' = {r}
    BY <1>3, <1>6 DEF Settled
  <2>2. admins'[r].copy = mem' /\ admins'[r].pc # "write"
    BY <1>0, <1>1
  <2>3. Overlaps'
    BY <2>1, <2>2 DEF Overlaps
  <2>4. \A f \in SettingsFile : Sure(f)' => Sure(f) /\ f \notin F
    BY <1>4, <1>6, <2>1 DEF Sure
  <2> QED
    BY <1>2, <2>3, <2>4
<1>7. CASE Busy # {}
  <2>1. unsure' = unsure \cup F \cup UNION {ToSave(q) : q \in Busy}
    BY <1>7 DEF Settled
  <2>2. \A q \in Busy' : ToSave(q)' \subseteq unsure'
    BY <1>3, <1>4, <1>5, <2>1
  <2>3. \A q \in Busy' : admins'[q].file \in ToSave(q)'
    BY DEF ToSave, Busy
  <2>4. Overlaps'
    BY <2>2, <2>3 DEF Overlaps
  <2>5. \A f \in SettingsFile : Sure(f)' => Sure(f) /\ f \notin F
    BY <1>3, <1>4, <1>5, <2>1 DEF Sure
  <2> QED
    BY <1>2, <2>4, <2>5
<1> QED
  BY <1>6, <1>7

\* HandleAdminConfig under CfgMu.
LEMMA PutConfigKeeps ==
    ASSUME AdminInv, NEW r \in AdminReq, NEW s \in Setting, NEW a \in AuthSetting,
           NEW b \in BOOLEAN, PutConfig(r, s, a, b)
    PROVE  AdminInv'
<1> DEFINE new == [mem EXCEPT !.setting = s, !.auth = IF b THEN a ELSE @]
           more == IF b /\ authFile THEN {"auth"} ELSE {}
<1>1. /\ serving /\ admins[r] = AdminIdle /\ mem' = new
      /\ admins' = [admins EXCEPT ![r] = Saving(new, "config", more)]
      /\ unsure' = Settled({"config"} \cup more)
      /\ authFile' = authFile /\ disk' = disk /\ serving' = serving
  BY DEF PutConfig
<1>2. /\ new \in Memory /\ new.cards = mem.cards
      /\ new.auth = IF b THEN a ELSE mem.auth
  BY DEF AdminInv, AdminTypes, Memory
<1>3. more \in {{}, {"auth"}} /\ (b /\ authFile => "auth" \in more)
  OBVIOUS
<1> HIDE DEF new, more
<1>4. /\ AdminTypes' /\ Overlaps'
      /\ \A f \in SettingsFile : Sure(f)' => Sure(f) /\ f \notin {"config"} \cup more
  <2>1. "config" \in SettingsFile
    BY DEF SettingsFile
  <2> QED
    BY <1>1, <1>2, <1>3, <2>1, PutBegins
<1>5. FilesAgree'
  <2>1. FilesAgree
    BY <1>1 DEF AdminInv
  <2>2. ~Sure("config")'
    BY <1>4 DEF SettingsFile
  <2>3. Sure("auth")' /\ authFile => LoadedAuth' = Canonical(mem'.auth)
    <3> SUFFICES ASSUME Sure("auth")', authFile PROVE LoadedAuth' = Canonical(mem'.auth)
      OBVIOUS
    <3>1. Sure("auth") /\ ~b
      BY <1>3, <1>4 DEF SettingsFile
    <3>2. LoadedAuth = Canonical(mem.auth)
      BY <2>1, <3>1 DEF FilesAgree
    <3>3. LoadedAuth' = LoadedAuth
      BY <1>1 DEF LoadedAuth, Whole
    <3> QED
      BY <1>1, <1>2, <3>1, <3>2, <3>3
  <2>4. Sure("runtime")' /\ SidecarHasCards' => disk'["runtime"].cards = mem'.cards
    <3>1. Sure("runtime")' => Sure("runtime")
      BY <1>4 DEF SettingsFile
    <3> QED
      BY <1>1, <1>2, <2>1, <3>1 DEF FilesAgree, SidecarHasCards, Whole
  <2> QED
    BY <1>1, <2>2, <2>3, <2>4 DEF FilesAgree
<1> QED
  BY <1>1, <1>4, <1>5 DEF AdminInv

\* HandleAdminCards under CfgMu.
LEMMA PutCardsKeeps ==
    ASSUME AdminInv, NEW r \in AdminReq, NEW c \in Cards, PutCards(r, c)
    PROVE  AdminInv'
<1> DEFINE new == [mem EXCEPT !.cards = c]
<1>1. /\ serving /\ admins[r] = AdminIdle /\ mem' = new
      /\ admins' = [admins EXCEPT ![r] = Saving(new, "runtime", {})]
      /\ unsure' = Settled({"runtime"} \cup {})
      /\ authFile' = authFile /\ disk' = disk /\ serving' = serving
  BY DEF PutCards
<1>2. new \in Memory /\ new.setting = mem.setting /\ new.auth = mem.auth
  BY DEF AdminInv, AdminTypes, Memory
<1> HIDE DEF new
<1>3. /\ AdminTypes' /\ Overlaps'
      /\ \A f \in SettingsFile : Sure(f)' => Sure(f) /\ f \notin {"runtime"} \cup {}
  <2>1. "runtime" \in SettingsFile
    BY DEF SettingsFile
  <2> QED
    BY <1>1, <1>2, <2>1, PutBegins
<1>4. ~Sure("runtime")' /\ (Sure("config")' => Sure("config")) /\ (Sure("auth")' => Sure("auth"))
  BY <1>3 DEF SettingsFile
<1>5. LoadedAuth' = LoadedAuth
  BY <1>1 DEF LoadedAuth, Whole
<1>6. FilesAgree'
  BY <1>1, <1>2, <1>4, <1>5 DEF AdminInv, FilesAgree, Whole
<1> QED
  BY <1>1, <1>3, <1>6 DEF AdminInv

\* After a save the request goes on with the files that are left.
LEMMA NextFileFacts ==
    ASSUME AdminTypes, NEW r \in Busy, NextFile(r)
    PROVE  /\ admins' \in [AdminReq -> {AdminIdle} \cup AdminJob]
           /\ \A q \in AdminReq \ {r} : admins'[q] = admins[q]
           /\ Busy' \subseteq Busy
           /\ r \in Busy' => admins'[r].copy = admins[r].copy /\ admins'[r].pc # "write"
           /\ ToSave(r)' = admins[r].more
           /\ \A q \in AdminReq \ {r} : ToSave(q)' = ToSave(q)
<1> DEFINE next == IF admins[r].more = {} THEN AdminIdle
                   ELSE Saving(admins[r].copy, CHOOSE f \in admins[r].more : TRUE, {})
<1>1. r \in AdminReq /\ admins[r].copy \in Memory /\ admins[r].more \in {{}, {"auth"}}
  <2>1. r \in AdminReq
    BY DEF Busy
  <2> QED
    BY <2>1, RequestFacts
<1>2. admins' = [admins EXCEPT ![r] = next]
  BY <1>1 DEF NextFile, AdminTypes
<1>3. CASE admins[r].more = {}
  <2>1. next = AdminIdle /\ next.pc = "idle"
    BY <1>3 DEF AdminIdle
  <2> HIDE DEF next
  <2>2. /\ admins' \in [AdminReq -> {AdminIdle} \cup AdminJob]
        /\ admins'[r] = next /\ \A q \in AdminReq \ {r} : admins'[q] = admins[q]
    BY <1>1, <1>2, <2>1 DEF AdminTypes
  <2> QED
    BY <1>1, <1>3, <2>1, <2>2 DEF Busy, ToSave
<1>4. CASE admins[r].more # {}
  <2>1. admins[r].more = {"auth"}
    BY <1>1, <1>4
  <2>2. (CHOOSE f \in admins[r].more : TRUE) = "auth"
    BY <2>1
  <2>3. next = Saving(admins[r].copy, "auth", {})
    BY <1>4, <2>2
  <2> HIDE DEF next
  <2>4. next \in AdminJob
    BY <1>1, <2>3, SavingType DEF SettingsFile
  <2>5. /\ next.pc = "open" /\ next.copy = admins[r].copy
        /\ next.file = "auth" /\ next.more = {}
    BY <2>3 DEF Saving
  <2>6. /\ admins' \in [AdminReq -> {AdminIdle} \cup AdminJob]
        /\ admins'[r] = next /\ \A q \in AdminReq \ {r} : admins'[q] = admins[q]
    BY <1>1, <1>2, <2>4 DEF AdminTypes
  <2> QED
    BY <1>1, <2>1, <2>5, <2>6 DEF Busy, ToSave
<1> QED
  BY <1>3, <1>4

\* os.WriteFile has truncated a file.
LEMMA TruncateKeeps ==
    ASSUME AdminInv, NEW r \in AdminReq, Truncate(r)
    PROVE  AdminInv'
<1> USE DEF AdminInv
<1>0. r \in Busy
  BY DEF Truncate, Busy
<1>1. /\ admins[r] \in AdminJob /\ admins[r].file \in SettingsFile
      /\ ToSave(r) = {admins[r].file} \cup admins[r].more
  BY <1>0, RequestFacts
<1> PICK f0 \in SettingsFile : admins[r].file = f0
  BY <1>1
<1> DEFINE new == [admins[r] EXCEPT !.pc = "write"]
<1>2. /\ new \in AdminJob /\ new.pc = "write" /\ new.copy = admins[r].copy
      /\ new.file = f0 /\ new.more = admins[r].more
  BY <1>1 DEF AdminJob
<1>3. /\ disk' = [disk EXCEPT ![f0] = CutOff] /\ admins' = [admins EXCEPT ![r] = new]
      /\ mem' = mem /\ authFile' = authFile /\ serving' = serving /\ unsure' = unsure
  BY DEF Truncate, AdminTypes
<1> HIDE DEF new
<1>4. /\ admins' \in [AdminReq -> {AdminIdle} \cup AdminJob]
      /\ admins'[r] = new /\ \A q \in AdminReq \ {r} : admins'[q] = admins[q]
      /\ disk' \in [SettingsFile -> {Absent, CutOff} \cup WholeFile]
      /\ disk'[f0] = CutOff /\ \A f \in SettingsFile \ {f0} : disk'[f] = disk[f]
  BY <1>2, <1>3 DEF AdminTypes
<1>5. Busy' = Busy
  BY <1>0, <1>2, <1>4 DEF Busy
<1>6. \A q \in AdminReq : ToSave(q)' = ToSave(q)
  BY <1>0, <1>1, <1>2, <1>4 DEF ToSave, Busy
<1>7. AdminTypes'
  BY <1>3, <1>4, <1>5 DEF AdminTypes
<1>8. Overlaps'
  <2>1. \A q \in Busy : q \in AdminReq /\ admins[q].file \in SettingsFile
    BY RequestFacts DEF Busy
  <2>2. \A q \in Busy : admins'[q].copy = admins[q].copy /\ admins'[q].file = admins[q].file
    BY <1>2, <1>4, <2>1
  <2>3. \A q \in Busy : admins'[q].pc = "write" =>
           admins'[q].file \in unsure \/ disk'[admins'[q].file] = CutOff
    BY <1>2, <1>4, <2>1, <2>2 DEF Overlaps
  <2> QED
    BY <1>3, <1>5, <1>6, <2>1, <2>2, <2>3 DEF Overlaps
<1>9. \A f \in SettingsFile : Sure(f)' => Sure(f) /\ disk'[f] = disk[f]
  <2>1. Busy \subseteq AdminReq /\ f0 \in ToSave(r)
    BY <1>1 DEF Busy
  <2> QED
    BY <1>0, <1>3, <1>4, <1>5, <1>6, <2>1 DEF Sure
<1>10. serving => FilesAgree'
  BY <1>3, <1>9 DEF FilesAgree, Whole, LoadedAuth, SidecarHasCards, SettingsFile
<1> QED
  BY <1>3, <1>7, <1>8, <1>10

\* A save is over: what is left to save shrinks, and a file is newly sure only
\* if it is the one that was saved.
LEMMA SaveEnds ==
    ASSUME AdminInv, NEW r \in Busy, NEW f0 \in SettingsFile, admins[r].file = f0,
           NextFile(r), mem' = mem, serving' = serving,
           unsure' \in {unsure, unsure \cup {f0}},
           disk' \in [SettingsFile -> {Absent, CutOff} \cup WholeFile],
           \A f \in SettingsFile \ {f0} : disk'[f] = disk[f]
    PROVE  /\ AdminTypes' /\ Overlaps'
           /\ \A f \in SettingsFile \ {f0} : Sure(f)' => Sure(f)
<1> USE DEF AdminInv
<1>0. r \in AdminReq /\ Busy \subseteq AdminReq
  BY DEF Busy
<1>1. /\ admins' \in [AdminReq -> {AdminIdle} \cup AdminJob]
      /\ \A q \in AdminReq \ {r} : admins'[q] = admins[q]
      /\ Busy' \subseteq Busy
      /\ r \in Busy' => admins'[r].copy = admins[r].copy /\ admins'[r].pc # "write"
      /\ ToSave(r)' = admins[r].more
      /\ \A q \in AdminReq \ {r} : ToSave(q)' = ToSave(q)
  BY NextFileFacts
<1>2. ToSave(r) = {f0} \cup admins[r].more
  BY <1>0, RequestFacts
<1>3. \A q \in AdminReq : ToSave(q)' \subseteq ToSave(q)
  BY <1>1, <1>2
<1>4. unsure \subseteq unsure'
  OBVIOUS
<1>5. AdminTypes'
  BY <1>1 DEF AdminTypes
<1>6. Overlaps'
  <2>1. ASSUME NEW q1 \in Busy', NEW q2 \in Busy', q1 # q2
        PROVE  ToSave(q2)' \subseteq unsure'
    BY <1>0, <1>1, <1>3, <1>4, <2>1 DEF Overlaps
  <2>2. ASSUME NEW q \in Busy'
        PROVE  ToSave(q)' \subseteq unsure' \/ admins'[q].copy = mem'
    <3>1. admins'[q].copy = admins[q].copy
      BY <1>0, <1>1
    <3> QED
      BY <1>0, <1>1, <1>3, <1>4, <3>1 DEF Overlaps
  <2>3. ASSUME NEW q \in Busy', admins'[q].pc = "write"
        PROVE  admins'[q].file \in unsure'
    <3>1. q # r /\ q \in Busy /\ admins'[q] = admins[q]
      BY <1>0, <1>1, <2>3
    <3>2. admins[q].file \in ToSave(q)
      BY <3>1 DEF Busy, ToSave
    <3> QED
      BY <1>4, <3>1, <3>2 DEF Overlaps
  <2> QED
    BY <2>1, <2>2, <2>3 DEF Overlaps
<1>7. ASSUME NEW f \in SettingsFile \ {f0}, Sure(f)' PROVE Sure(f)
  <2>1. f \notin unsure
    BY <1>4, <1>7 DEF Sure
  <2>2. ASSUME NEW q \in Busy PROVE f \notin ToSave(q)
    <3>1. CASE q \in Busy'
      BY <1>0, <1>1, <1>2, <1>7, <3>1 DEF Sure
    <3>2. CASE q \notin Busy'
      <4>1. ToSave(q)' = {}
        BY <1>0, <3>2 DEF ToSave, Busy
      <4> QED
        BY <1>0, <1>1, <1>2, <4>1
    <3> QED
      BY <3>1, <3>2
  <2> QED
    BY <2>1, <2>2 DEF Sure
<1> QED
  BY <1>5, <1>6, <1>7

\* A save that fails.
LEMMA SaveFailsKeeps ==
    ASSUME AdminInv, NEW r \in AdminReq, SaveFails(r)
    PROVE  AdminInv'
<1>0. r \in Busy /\ admins[r].file \in SettingsFile
  BY RequestFacts DEF SaveFails, Busy, AdminInv
<1> PICK f0 \in SettingsFile : admins[r].file = f0
  BY <1>0
<1>1. /\ NextFile(r) /\ mem' = mem /\ authFile' = authFile /\ serving' = serving
      /\ disk' = disk /\ unsure' = unsure \cup {f0}
  BY DEF SaveFails
<1>2. /\ AdminTypes' /\ Overlaps'
      /\ \A f \in SettingsFile \ {f0} : Sure(f)' => Sure(f)
  <2>1. disk' \in [SettingsFile -> {Absent, CutOff} \cup WholeFile]
    BY <1>1 DEF AdminInv, AdminTypes
  <2> QED
    BY <1>0, <1>1, <2>1, SaveEnds
<1>3. ~Sure(f0)'
  BY <1>1 DEF Sure
<1>4. \A f \in SettingsFile : Sure(f)' => Sure(f)
  BY <1>2, <1>3
<1>5. serving => FilesAgree'
  BY <1>1, <1>4 DEF AdminInv, FilesAgree, Whole, LoadedAuth, SidecarHasCards, SettingsFile
<1> QED
  BY <1>1, <1>2, <1>5 DEF AdminInv

\* os.WriteFile has written a file.
LEMMA WriteDocKeeps ==
    ASSUME AdminInv, NEW r \in AdminReq, WriteDoc(r)
    PROVE  AdminInv'
<1>0. /\ r \in Busy /\ admins[r].file \in SettingsFile /\ admins[r].copy \in Memory
      /\ admins[r].file \in ToSave(r)
  <2>1. r \in Busy
    BY DEF WriteDoc, Busy
  <2> QED
    BY <2>1, RequestFacts DEF AdminInv
<1> PICK f0 \in SettingsFile : admins[r].file = f0
  BY <1>0
<1>1. PICK d \in {FileDoc(r)} \cup (IF Whole(f0) THEN {CutOff} ELSE {}) :
        disk' = [disk EXCEPT ![f0] = d]
  BY DEF WriteDoc
<1>2. /\ NextFile(r) /\ mem' = mem /\ authFile' = authFile /\ serving' = serving
      /\ unsure' = unsure /\ admins[r].pc = "write"
  BY DEF WriteDoc
<1>3. /\ FileDoc(r) \in WholeFile /\ FileDoc(r).state = "whole"
      /\ FileDoc(r).setting = admins[r].copy.setting
      /\ FileDoc(r).auth = admins[r].copy.auth
      /\ FileDoc(r).cards = admins[r].copy.cards
  BY <1>0 DEF FileDoc, Doc, Memory, WholeFile
<1>4. /\ disk' \in [SettingsFile -> {Absent, CutOff} \cup WholeFile]
      /\ disk'[f0] = d /\ \A f \in SettingsFile \ {f0} : disk'[f] = disk[f]
  BY <1>1, <1>3 DEF AdminInv, AdminTypes
<1>5. /\ AdminTypes' /\ Overlaps'
      /\ \A f \in SettingsFile \ {f0} : Sure(f)' => Sure(f)
  BY <1>0, <1>2, <1>4, SaveEnds
<1>6. Sure(f0)' => /\ disk'[f0].state = "whole"
                   /\ disk'[f0].setting = mem.setting /\ disk'[f0].auth = mem.auth
                   /\ disk'[f0].cards = mem.cards
  <2> SUFFICES ASSUME f0 \notin unsure
               PROVE  /\ disk'[f0].state = "whole"
                      /\ disk'[f0].setting = mem.setting /\ disk'[f0].auth = mem.auth
                      /\ disk'[f0].cards = mem.cards
    BY <1>2 DEF Sure
  <2>1. disk[f0] = CutOff /\ admins[r].copy = mem
    BY <1>0, <1>2 DEF AdminInv, Overlaps
  <2>2. ~Whole(f0)
    BY <2>1 DEF Whole, CutOff
  <2>3. d = FileDoc(r)
    BY <1>1, <2>2
  <2> QED
    BY <1>3, <1>4, <2>1, <2>3
<1>7. ASSUME serving PROVE FilesAgree'
  <2>1. FilesAgree
    BY <1>7 DEF AdminInv
  <2>2. CASE f0 = "config"
    BY <1>2, <1>4, <1>5, <1>6, <2>1, <2>2
       DEF FilesAgree, Whole, LoadedAuth, SidecarHasCards, SettingsFile
  <2>3. CASE f0 = "auth"
    BY <1>2, <1>4, <1>5, <1>6, <2>1, <2>3
       DEF FilesAgree, Whole, LoadedAuth, SidecarHasCards, SettingsFile
  <2>4. CASE f0 = "runtime"
    BY <1>2, <1>4, <1>5, <1>6, <2>1, <2>4
       DEF FilesAgree, Whole, LoadedAuth, SidecarHasCards, SettingsFile
  <2> QED
    BY <2>2, <2>3, <2>4 DEF SettingsFile
<1> QED
  BY <1>2, <1>5, <1>7 DEF AdminInv

\* The process dies.
LEMMA CrashKeeps == ASSUME AdminInv, Crash PROVE AdminInv'
<1>1. /\ serving' = FALSE /\ admins' = [r \in AdminReq |-> AdminIdle]
      /\ mem' = mem /\ disk' = disk
  BY DEF Crash
<1>2. Busy' = {}
  BY <1>1 DEF Busy, AdminIdle
<1>3. AdminTypes'
  BY <1>1, <1>2 DEF AdminInv, AdminTypes
<1>4. Overlaps'
  BY <1>2 DEF Overlaps
<1>5. ~serving'
  BY <1>1
<1> QED
  BY <1>3, <1>4, <1>5 DEF AdminInv

\* A start reads every file, so all of them agree with the memory.
LEMMA StartKeeps ==
    ASSUME AdminInv, NEW gone \in BOOLEAN, Start(gone)
    PROVE  AdminInv'
<1> USE DEF AdminInv
<1>0. "config" \in SettingsFile /\ "runtime" \in SettingsFile /\ "auth" \in SettingsFile
  BY DEF SettingsFile
<1>1. /\ Whole("config") /\ mem' = Loaded /\ admins' = admins
      /\ disk' = IF gone THEN [disk EXCEPT !["config"] = Doc(@.setting, @.auth, Overlay)]
                 ELSE disk
  BY DEF Start
<1>2. Busy = {}
  <2>1. ~serving
    BY DEF Start
  <2> QED
    BY <2>1 DEF AdminTypes
<1>3. /\ disk["config"] \in WholeFile /\ disk["config"].setting \in Setting
      /\ disk["config"].auth \in AuthSetting /\ disk["config"].cards \in Cards
  BY <1>0, <1>1, WholeFacts
<1>4. /\ LoadedAuth \in AuthSetting /\ Overlay \in Cards
      /\ Canonical(LoadedAuth) = LoadedAuth
  <2>1. LoadedAuth \in AuthSetting
    BY <1>0, WholeFacts, AdminAssumption DEF LoadedAuth, Canonical, SettingsFile
  <2>2. Overlay \in Cards
    BY <1>0, <1>3, WholeFacts DEF Overlay, SettingsFile
  <2>3. Canonical(LoadedAuth) = LoadedAuth
    BY DEF LoadedAuth, Canonical
  <2> QED
    BY <2>1, <2>2, <2>3
<1>5. /\ mem' \in Memory /\ mem'.setting = disk["config"].setting
      /\ mem'.auth = LoadedAuth /\ mem'.cards = Overlay
  BY <1>1, <1>3, <1>4 DEF Loaded, Memory
<1>6. /\ disk' \in [SettingsFile -> {Absent, CutOff} \cup WholeFile]
      /\ disk'["auth"] = disk["auth"] /\ disk'["runtime"] = disk["runtime"]
      /\ disk'["config"].state = "whole"
      /\ disk'["config"].setting = disk["config"].setting
      /\ disk'["config"].cards \in {disk["config"].cards, Overlay}
  <2>1. CASE gone
    <3> DEFINE doc == Doc(disk["config"].setting, disk["config"].auth, Overlay)
    <3>1. /\ doc \in WholeFile /\ doc.state = "whole"
          /\ doc.setting = disk["config"].setting /\ doc.cards = Overlay
      BY <1>3, <1>4 DEF Doc, WholeFile
    <3>2. disk' = [disk EXCEPT !["config"] = doc]
      BY <1>0, <1>1, <2>1 DEF AdminTypes
    <3> HIDE DEF doc
    <3> QED
      BY <1>0, <3>1, <3>2 DEF AdminTypes
  <2>2. CASE ~gone
    BY <1>1, <2>2 DEF AdminTypes, Whole
  <2> QED
    BY <2>1, <2>2
<1>7. Busy' = {}
  BY <1>1, <1>2 DEF Busy
<1>8. AdminTypes' /\ Overlaps'
  BY <1>1, <1>5, <1>6, <1>7 DEF AdminTypes, Overlaps
<1>9. FilesAgree'
  <2>1. LoadedAuth' = LoadedAuth
    BY <1>6 DEF LoadedAuth, Whole
  <2>2. SidecarHasCards' => disk'["runtime"].cards = Overlay
    BY <1>6 DEF SidecarHasCards, Whole, Overlay
  <2>3. ~SidecarHasCards' => disk'["config"].cards = Overlay
    BY <1>6 DEF SidecarHasCards, Whole, Overlay
  <2> QED
    BY <1>4, <1>5, <1>6, <2>1, <2>2, <2>3 DEF FilesAgree, Whole
<1> QED
  BY <1>8, <1>9

\* The PUT handlers, their saves, crashes and starts.
LEMMA AdminStep == AdminInv /\ [AdminNext]_adminVars => AdminInv'
<1> SUFFICES ASSUME AdminInv, [AdminNext]_adminVars PROVE AdminInv'
  OBVIOUS
<1>1. CASE UNCHANGED adminVars
  BY <1>1 DEF adminVars, AdminInv, AdminTypes, Overlaps, FilesAgree, Sure, Busy, ToSave,
              Whole, LoadedAuth, SidecarHasCards
<1>2. CASE AdminNext
  BY <1>2, PutConfigKeeps, PutCardsKeeps, TruncateKeeps, WriteDocKeeps, SaveFailsKeeps,
     CrashKeeps, StartKeeps DEF AdminNext
<1> QED
  BY <1>1, <1>2

\* What a restart would load is what the server runs with, for every file whose
\* last save ran alone and succeeded: HandleAdminConfig and HandleAdminCards
\* save a copy after they have unlocked, in any number and any order, their
\* saves fail, and the process dies between truncating a file and writing it.
THEOREM RestartCorrect == AdminSpec => []RestartRestores
<1>1. AdminInv => RestartRestores
  <2> SUFFICES ASSUME AdminInv, serving, Busy = {}
               PROVE  /\ "config" \notin unsure =>
                           Whole("config") /\ Loaded.setting = mem.setting
                      /\ "auth" \notin unsure /\ authFile => LoadedAuth = Canonical(mem.auth)
                      /\ unsure = {} /\ mem.cards # EmptyCards => Loaded.cards = mem.cards
    BY DEF RestartRestores, AtRest
  <2>1. \A f : Sure(f) <=> f \notin unsure
    BY DEF Sure
  <2>2. FilesAgree
    BY DEF AdminInv
  <2>3. Loaded.setting = disk["config"].setting /\ Loaded.cards = Overlay
    BY DEF Loaded
  <2>4. unsure = {} /\ mem.cards # EmptyCards => Overlay = mem.cards
    BY <2>1, <2>2 DEF FilesAgree, SidecarHasCards, Overlay
  <2> QED
    BY <2>1, <2>2, <2>3, <2>4 DEF FilesAgree
<1> QED
  BY <1>1, AdminStart, AdminStep, PTL DEF AdminSpec

-----------------------------------------------------------------------------
(* The replay window of the market's requests.                             *)

\* What makes OncePerWindow inductive: while the timestamp of an accepted
\* request has not aged out, its nonce is still in the cache.
SpentKept ==
    \A m \in Request : (accepted[m] > 0 /\ now <= m.ts + Win) =>
        m.nonce \in DOMAIN seen /\ seen[m.nonce] >= m.ts + Win

AuthInv == TypeOK /\ SpentKept

\* A sweep by a time that is not in the future keeps every entry that has not
\* expired.
LEMMA SweptKeeps ==
    ASSUME TypeOK, NEW t \in Int, t <= now, NEW n \in DOMAIN seen, seen[n] >= now
    PROVE  n \in DOMAIN Swept(t) /\ Swept(t)[n] = seen[n]
BY DEF TypeOK, Swept

\* A sweep leaves a map from nonces to expiries.
LEMMA SweptType ==
    ASSUME TypeOK, NEW t \in Int
    PROVE  /\ DOMAIN Swept(t) \subseteq Nonce
           /\ Swept(t) \in [DOMAIN Swept(t) -> Int]
BY DEF TypeOK, Swept

\* A timestamp and its expiry are integers.
LEMMA RequestTs ==
    ASSUME NEW m \in Request
    PROVE  m.ts \in Int /\ m.ts + Win \in Int
<1>1. m.ts \in Stamp
  BY DEF Request
<1>2. m.ts \in Int
  BY <1>1, AuthAssumption, Zenon
<1>3. Win \in Int
  BY AuthAssumption
<1> QED
  BY <1>2, <1>3

\* The fields of a handler past the timestamp check.
LEMMA BusyFields ==
    ASSUME TypeOK, NEW h \in Handler, handlers[h].busy
    PROVE  /\ handlers[h] \in Pending
           /\ handlers[h].req \in Request
           /\ handlers[h].req.nonce \in Nonce
           /\ handlers[h].req.ts \in Int
           /\ handlers[h].saw \in Int
           /\ handlers[h].saw <= now
           /\ Expiry(handlers[h]) = handlers[h].req.ts + Win
           /\ Expiry(handlers[h]) \in Int
<1>1. handlers[h] \in Pending
  BY DEF TypeOK, Idle
<1>2. handlers[h].req \in Request /\ handlers[h].saw \in 0..MaxTime
  BY <1>1 DEF Pending
<1>3. handlers[h].req.nonce \in Nonce /\ handlers[h].req.ts \in Int
  BY <1>2, AuthAssumption DEF Request
<1> QED
  BY <1>1, <1>2, <1>3, AuthAssumption DEF TypeOK, Expiry

\* Nothing has been accepted yet.
LEMMA AuthInitInv == Init => AuthInv
BY AuthAssumption DEF Init, AuthInv, TypeOK, SpentKept, Idle

\* verifyWrite reads the clock and checks the window.
LEMMA AuthCheckInv ==
    ASSUME AuthInv, NEW h \in Handler, NEW m \in Request, Check(h, m)
    PROVE  AuthInv'
<1> DEFINE r == [busy |-> TRUE, req |-> m, saw |-> now]
<1>1. now \in 0..MaxTime /\ m.ts \in Int /\ Win \in Nat /\ MaxTime \in Nat
  BY AuthAssumption DEF AuthInv, TypeOK, Request
<1>2. r \in Pending
  BY <1>1 DEF Pending
<1>3. now <= Expiry(r)
  BY <1>1 DEF Check, InWindow, Expiry
<1>4. /\ handlers' = [handlers EXCEPT ![h] = r]
      /\ now' = now /\ seen' = seen /\ accepted' = accepted
  BY DEF Check
<1> HIDE DEF r
<1>5. handlers' \in [Handler -> Pending \cup {Idle}]
  BY <1>2, <1>4 DEF AuthInv, TypeOK
<1>6. r.saw = now
  BY DEF r
<1>7. ASSUME NEW g \in Handler, handlers'[g].busy
      PROVE  handlers'[g].saw <= now' /\ handlers'[g].saw <= Expiry(handlers'[g])
  <2>1. CASE g = h
    BY <1>1, <1>3, <1>4, <1>6, <2>1 DEF AuthInv, TypeOK
  <2>2. CASE g # h
    <3>1. handlers'[g] = handlers[g]
      BY <1>4, <2>2 DEF AuthInv, TypeOK
    <3> QED
      BY <1>4, <1>7, <3>1 DEF AuthInv, TypeOK
  <2> QED
    BY <2>1, <2>2
<1>8. TypeOK'
  BY <1>4, <1>5, <1>7 DEF AuthInv, TypeOK, Expiry
<1> QED
  BY <1>4, <1>8 DEF AuthInv, SpentKept

\* A handler that finishes leaves the others as they were.
LEMMA FinishHandlers ==
    ASSUME AuthInv, NEW h \in Handler, now' = now,
           handlers' = [handlers EXCEPT ![h] = Idle]
    PROVE  /\ handlers' \in [Handler -> Pending \cup {Idle}]
           /\ \A g \in Handler : handlers'[g].busy =>
                 handlers'[g].saw <= now' /\ handlers'[g].saw <= Expiry(handlers'[g])
<1>1. ASSUME NEW g \in Handler, handlers'[g].busy
      PROVE  handlers'[g].saw <= now' /\ handlers'[g].saw <= Expiry(handlers'[g])
  <2>1. g # h
    BY <1>1 DEF AuthInv, TypeOK, Idle
  <2>2. handlers'[g] = handlers[g]
    BY <2>1 DEF AuthInv, TypeOK
  <2> QED
    BY <1>1, <2>2 DEF AuthInv, TypeOK
<1>2. handlers' \in [Handler -> Pending \cup {Idle}]
  BY DEF AuthInv, TypeOK
<1> QED
  BY <1>1, <1>2

\* useOnce sweeps the cache and spends the nonce.
LEMMA UseOnceInv ==
    ASSUME AuthInv, NEW h \in Handler, UseOnce(h)
    PROVE  AuthInv'
<1> DEFINE r == handlers[h]
           s == Swept(r.saw)
           x == r.req.nonce
<1>1. /\ r.req \in Request /\ x \in Nonce /\ r.saw \in Int /\ r.saw <= now
      /\ Expiry(r) = r.req.ts + Win /\ Expiry(r) \in Int
  BY BusyFields DEF UseOnce, AuthInv
<1>2. DOMAIN s \subseteq Nonce /\ s \in [DOMAIN s -> Int]
  BY <1>1, SweptType DEF AuthInv
<1>3. now' = now /\ handlers' = [handlers EXCEPT ![h] = Idle]
  BY DEF UseOnce
<1>4. /\ handlers' \in [Handler -> Pending \cup {Idle}]
      /\ \A g \in Handler : handlers'[g].busy =>
            handlers'[g].saw <= now' /\ handlers'[g].saw <= Expiry(handlers'[g])
  BY <1>3, FinishHandlers
<1>5. ASSUME NEW m \in Request, accepted[m] > 0, now <= m.ts + Win
      PROVE  m.nonce \in DOMAIN s /\ s[m.nonce] >= m.ts + Win
  <2>1. m.nonce \in DOMAIN seen /\ seen[m.nonce] >= m.ts + Win
    BY <1>5 DEF AuthInv, SpentKept
  <2>2. seen[m.nonce] \in Int /\ m.ts + Win \in Int /\ now \in Int
    BY <2>1, AuthAssumption DEF AuthInv, TypeOK, Request
  <2>3. seen[m.nonce] >= now
    BY <1>5, <2>1, <2>2
  <2> QED
    BY <1>1, <2>1, <2>3, SweptKeeps DEF AuthInv
<1>6. CASE x \in DOMAIN s
  <2>1. seen' = s /\ accepted' = accepted
    BY <1>6 DEF UseOnce
  <2>2. TypeOK'
    <3>1. now' \in 0..MaxTime /\ accepted' \in [Request -> 0..2]
      BY <1>3, <2>1 DEF AuthInv, TypeOK
    <3>2. DOMAIN seen' \subseteq Nonce /\ seen' \in [DOMAIN seen' -> Int]
      BY <1>2, <2>1
    <3> QED
      BY <1>4, <3>1, <3>2 DEF TypeOK, Expiry
  <2>3. SpentKept'
    BY <1>3, <1>5, <2>1 DEF SpentKept
  <2> QED
    BY <2>2, <2>3 DEF AuthInv
<1>7. CASE x \notin DOMAIN s
  <2>1. /\ seen' = [n \in DOMAIN s \cup {x} |-> IF n = x THEN Expiry(r) ELSE s[n]]
        /\ accepted' = [accepted EXCEPT ![r.req] = IF @ = 2 THEN 2 ELSE @ + 1]
    BY <1>7 DEF UseOnce
  <2>2. TypeOK'
    <3>1. now' \in 0..MaxTime
      BY <1>3 DEF AuthInv, TypeOK
    <3>2. accepted' \in [Request -> 0..2]
      BY <1>1, <2>1 DEF AuthInv, TypeOK
    <3>3. DOMAIN seen' \subseteq Nonce /\ seen' \in [DOMAIN seen' -> Int]
      BY <1>1, <1>2, <2>1
    <3> QED
      BY <1>4, <3>1, <3>2, <3>3 DEF TypeOK, Expiry
  <2>3. ASSUME NEW m \in Request, accepted'[m] > 0, now <= m.ts + Win
        PROVE  m.nonce \in DOMAIN seen' /\ seen'[m.nonce] >= m.ts + Win
    <3>1. CASE m = r.req
      <4>1. x \in DOMAIN seen' /\ seen'[x] = Expiry(r)
        BY <2>1
      <4> QED
        BY <1>1, <3>1, <4>1
    <3>2. CASE m # r.req
      <4>1. accepted'[m] = accepted[m]
        BY <2>1, <3>2 DEF AuthInv, TypeOK
      <4>2. m.nonce \in DOMAIN s /\ s[m.nonce] >= m.ts + Win
        BY <1>5, <2>3, <4>1
      <4>3. m.nonce # x
        BY <1>7, <4>2
      <4>4. m.nonce \in DOMAIN seen' /\ seen'[m.nonce] = s[m.nonce]
        BY <2>1, <4>2, <4>3
      <4> QED
        BY <4>2, <4>4
    <3> QED
      BY <3>1, <3>2
  <2>4. SpentKept'
    BY <1>3, <2>3 DEF SpentKept
  <2> QED
    BY <2>2, <2>4 DEF AuthInv
<1> QED
  BY <1>6, <1>7

\* A bad signature, the passing of time, a restart.
LEMMA AuthRestInv ==
    ASSUME AuthInv, [(\E h \in Handler : BadSignature(h)) \/ Tick \/ Restart]_vars
    PROVE  AuthInv'
<1>1. ASSUME NEW h \in Handler, BadSignature(h) PROVE AuthInv'
  <2>1. /\ handlers' \in [Handler -> Pending \cup {Idle}]
        /\ \A g \in Handler : handlers'[g].busy =>
              handlers'[g].saw <= now' /\ handlers'[g].saw <= Expiry(handlers'[g])
    BY <1>1, FinishHandlers DEF BadSignature
  <2> QED
    BY <1>1, <2>1 DEF BadSignature, AuthInv, TypeOK, SpentKept, Expiry
<1>2. CASE Tick
  <2>1. now \in Int /\ now' = now + 1 /\ now' \in 0..MaxTime
    BY <1>2, AuthAssumption DEF AuthInv, TypeOK, Tick
  <2>2. seen' = seen /\ handlers' = handlers /\ accepted' = accepted
    BY <1>2 DEF Tick
  <2>3. ASSUME NEW g \in Handler, handlers[g].busy PROVE handlers[g].saw <= now'
    BY <2>1, <2>3, BusyFields DEF AuthInv
  <2>4. TypeOK'
    BY <2>1, <2>2, <2>3 DEF AuthInv, TypeOK, Expiry
  <2>5. ASSUME NEW m \in Request, now' <= m.ts + Win PROVE now <= m.ts + Win
    <3>1. m.ts + Win \in Int
      BY <2>5, RequestTs
    <3> QED
      BY <2>1, <2>5, <3>1
  <2>6. SpentKept'
    BY <2>2, <2>5 DEF AuthInv, SpentKept
  <2> QED
    BY <2>4, <2>6 DEF AuthInv
<1>3. CASE Restart
  BY <1>3 DEF AuthInv, TypeOK, SpentKept, Restart, Idle
<1>4. CASE UNCHANGED vars
  BY <1>4 DEF AuthInv, TypeOK, SpentKept, Expiry, vars
<1> QED
  BY <1>1, <1>2, <1>3, <1>4

\* Every step of the handlers and of the clock.
LEMMA AuthNextInv == AuthInv /\ [Next]_vars => AuthInv'
BY AuthCheckInv, UseOnceInv, AuthRestInv DEF Next

\* Every reachable state is well typed, and no handler spends a nonce with an
\* expiry before the time it read.
THEOREM AuthTypeCorrect == Spec => []TypeOK
<1>1. Init => AuthInv
  BY AuthInitInv
<1>2. AuthInv /\ [Next]_vars => AuthInv'
  BY AuthNextInv
<1>3. AuthInv => TypeOK
  BY DEF AuthInv
<1> QED
  BY <1>1, <1>2, <1>3, PTL DEF Spec

\* A step accepts a request for the second time only outside its window.
LEMMA OnceStep ==
    ASSUME AuthInv, [Next]_vars
    PROVE  [\A m \in Request :
              (accepted[m] > 0 /\ accepted'[m] > accepted[m]) => now > m.ts + Win]_vars
<1>1. ASSUME NEW h \in Handler, UseOnce(h), NEW m \in Request,
             accepted[m] > 0, accepted'[m] > accepted[m]
      PROVE  now > m.ts + Win
  <2>1. m = handlers[h].req /\ m.nonce \notin DOMAIN Swept(handlers[h].saw)
    <3>1. accepted[m] \in 0..2
      BY DEF AuthInv, TypeOK
    <3>2. accepted' # accepted
      BY <1>1, <3>1
    <3>3. /\ handlers[h].req.nonce \notin DOMAIN Swept(handlers[h].saw)
          /\ accepted' = [accepted EXCEPT ![handlers[h].req] = IF @ = 2 THEN 2 ELSE @ + 1]
      BY <1>1, <3>2 DEF UseOnce
    <3>4. m = handlers[h].req
      BY <1>1, <3>1, <3>3 DEF AuthInv, TypeOK
    <3> QED
      BY <3>3, <3>4
  <2>2. handlers[h].saw \in Int /\ handlers[h].saw <= now
    BY <1>1, BusyFields DEF UseOnce, AuthInv
  <2>3. now \in Int /\ m.ts + Win \in Int
    BY AuthAssumption DEF AuthInv, TypeOK, Request
  <2>4. SUFFICES ASSUME now <= m.ts + Win PROVE FALSE
    BY <2>3
  <2>5. m.nonce \in DOMAIN seen /\ seen[m.nonce] >= m.ts + Win
    BY <1>1, <2>4 DEF AuthInv, SpentKept
  <2>6. seen[m.nonce] \in Int
    BY <2>5 DEF AuthInv, TypeOK
  <2>7. seen[m.nonce] >= now
    BY <2>3, <2>4, <2>5, <2>6
  <2> QED
    BY <2>1, <2>2, <2>5, <2>7, SweptKeeps DEF AuthInv
<1>2. ASSUME NEW m \in Request, accepted[m] > 0, accepted'[m] > accepted[m],
             ~(\E h \in Handler : UseOnce(h))
      PROVE  FALSE
  <2>1. accepted[m] \in 0..2
    BY DEF AuthInv, TypeOK
  <2>2. CASE Restart
    BY <1>2, <2>1, <2>2 DEF Restart
  <2>3. CASE UNCHANGED accepted
    BY <1>2, <2>1, <2>3
  <2> QED
    BY <1>2, <2>2, <2>3 DEF Next, Check, BadSignature, Tick, vars
<1> QED
  BY <1>1, <1>2

\* OncePerWindow for every window, clock bound and set of handlers: sweeping
\* with a stale time never lets a request through again inside its window.
THEOREM OncePerWindowCorrect == Spec => OncePerWindow
<1>1. Init => AuthInv
  BY AuthInitInv
<1>2. AuthInv /\ [Next]_vars => AuthInv'
  BY AuthNextInv
<1>3. AuthInv /\ [Next]_vars => [\A m \in Request :
          (accepted[m] > 0 /\ accepted'[m] > accepted[m]) => now > m.ts + Win]_vars
  BY OnceStep
<1> QED
  BY <1>1, <1>2, <1>3, PTL DEF Spec, OncePerWindow
=============================================================================
