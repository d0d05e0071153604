----------------------------- MODULE MarketAuth -----------------------------
(***************************************************************************)
(* The replay window of the market's signed requests: verifyWrite and its   *)
(* nonceCache (pkg/market/auth_write.go).  Handlers run concurrently; each  *)
(* reads the clock once, checks the timestamp against it, recovers the      *)
(* signer and only then, perhaps much later, takes the cache's lock and     *)
(* sweeps and consults it with the time it read at the start.              *)
(*                                                                         *)
(* A request is its nonce and its timestamp: what else is signed does not   *)
(* matter here, and a request whose signature fails never reaches the cache.*)
(***************************************************************************)
EXTENDS Integers

CONSTANTS
    Nonce,      \* nonces
    Stamp,      \* timestamps the signers use
    Win,        \* cfg.ReplayWinS
    Handler,    \* request handlers
    MaxTime     \* bound on the clock

ASSUME AuthAssumption == Stamp \subseteq Int /\ Win \in Nat /\ MaxTime \in Nat

Request == [nonce : Nonce, ts : Stamp]

VARIABLES
    now,        \* time.Now().Unix()
    seen,       \* nonceCache.seen: spent nonce -> expiry
    handlers,   \* handlers between the timestamp check and useOnce
    accepted    \* how often this process accepted a request (history: 0, 1, 2 = more)

vars == <<now, seen, handlers, accepted>>

Idle == [busy |-> FALSE]

Init ==
    /\ now = 0
    /\ seen = [n \in {} |-> 0]
    /\ handlers = [h \in Handler |-> Idle]
    /\ accepted = [m \in Request |-> 0]

-----------------------------------------------------------------------------
\* Mutant of InWindow: the timestamp is not compared with the past.
MutInWindow(ts, t) == ts <= t + Win

\* verifyWrite's check against the time it read.
InWindow(ts, t) == ts >= t - Win /\ ts <= t + Win

\* verifyWrite up to the recovered signer.  A request outside the window, or
\* without a valid signature, is refused with nothing changed.
Check(h, m) ==
    /\ ~handlers[h].busy
    /\ InWindow(m.ts, now)
    /\ handlers' = [handlers EXCEPT ![h] = [busy |-> TRUE, req |-> m, saw |-> now]]
    /\ UNCHANGED <<now, seen, accepted>>

\* The recover fails after the timestamp passed: refused.
BadSignature(h) ==
    /\ handlers[h].busy
    /\ handlers' = [handlers EXCEPT ![h] = Idle]
    /\ UNCHANGED <<now, seen, accepted>>

\* Mutant of Expiry: a nonce is kept for a window from the time it was used.
MutExpiry(r) == r.saw + Win

\* The expiry verifyWrite passes: the signing timestamp ages out.
Expiry(r) == r.req.ts + Win

\* The sweep at the head of useOnce, by the caller's time.
Swept(t) == [n \in {k \in DOMAIN seen : seen[k] >= t} |-> seen[n]]

\* useOnce, under its mutex: sweep, refuse a spent nonce, else spend it.
UseOnce(h) ==
    LET r == handlers[h]
        s == Swept(r.saw)
    IN
    /\ r.busy
    /\ IF r.req.nonce \in DOMAIN s
       THEN seen' = s /\ UNCHANGED accepted
       ELSE /\ seen' = [n \in DOMAIN s \cup {r.req.nonce} |->
                           IF n = r.req.nonce THEN Expiry(r) ELSE s[n]]
            /\ accepted' = [accepted EXCEPT ![r.req] = IF @ = 2 THEN 2 ELSE @ + 1]
    /\ handlers' = [handlers EXCEPT ![h] = Idle]
    /\ UNCHANGED now

Tick ==
    /\ now < MaxTime
    /\ now' = now + 1
    /\ UNCHANGED <<seen, handlers, accepted>>

\* The cache is in memory only: a restart empties it, and what an earlier
\* process accepted is outside its promise.
Restart ==
    /\ seen' = [n \in {} |-> 0]
    /\ handlers' = [h \in Handler |-> Idle]
    /\ accepted' = [m \in Request |-> 0]
    /\ UNCHANGED now

Next ==
    \/ \E h \in Handler, m \in Request : Check(h, m)
    \/ \E h \in Handler : UseOnce(h) \/ BadSignature(h)
    \/ Tick
    \/ Restart

Spec == Init /\ [][Next]_vars

-----------------------------------------------------------------------------
(* Properties.                                                             *)

Pending == [busy : {TRUE}, req : Request, saw : 0..MaxTime]

\* Every variable has its type; a handler past the timestamp check holds a
\* request that was inside the window at the time it read, so an expiry is
\* never in the past of the clock reading it is stored with.
TypeOK ==
    /\ now \in 0..MaxTime
    /\ DOMAIN seen \subseteq Nonce /\ seen \in [DOMAIN seen -> Int]
    /\ handlers \in [Handler -> Pending \cup {Idle}]
    /\ accepted \in [Request -> 0..2]
    /\ \A h \in Handler : handlers[h].busy =>
          /\ handlers[h].saw <= now
          /\ handlers[h].saw <= Expiry(handlers[h])

\* "so a captured request can't be replayed within it": one process accepts a
\* signed request again only when its timestamp has aged out of the window,
\* however its handlers are delayed and whatever they sweep with a stale time.
OncePerWindow ==
    [][\A m \in Request :
          (accepted[m] > 0 /\ accepted'[m] > accepted[m]) => now > m.ts + Win]_vars
=============================================================================
