---------------------------- MODULE SessionCache ----------------------------
(***************************************************************************)
(* The session cache of the rendezvous server (pkg/tunnel/session.go): the  *)
(* sessions by token and by node, and the grace set of rotated tokens.  Each*)
(* method is one critical section of its mutex.  Time passes in ticks; the  *)
(* cleanup goroutine prunes with a time it read some while before.  Put and *)
(* the lookups are the cache's interface: at this commit only its tests call*)
(* them, the server only prunes.                                            *)
(***************************************************************************)
EXTENDS Integers

CONSTANTS
    Node,       \* node ids
    Token,      \* tokens; NewSession draws one never seen before
    TTL,        \* SessionTTL
    Grace,      \* SessionGrace
    MaxSessionTime  \* bound on the clock

ASSUME SessionAssumption == TTL \in Nat /\ Grace \in Nat /\ MaxSessionTime \in Nat

NoEntry == [node |-> "nil"]

VARIABLES
    sessionNow, \* time.Now()
    byToken,    \* token -> entry
    byNodeID,   \* node -> its latest entry
    replaced,   \* rotated token -> end of its grace
    rotatedOut  \* history: the tokens Put rotated out

sessionVars == <<sessionNow, byToken, byNodeID, replaced, rotatedOut>>

Empty == [k \in {} |-> NoEntry]

\* A map with one more entry, or an entry overwritten; and without some.
With(f, k, v) == [x \in DOMAIN f \cup {k} |-> IF x = k THEN v ELSE f[x]]
Without(f, K) == [x \in DOMAIN f \ K |-> f[x]]

SessionInit ==
    /\ sessionNow = 0
    /\ byToken = Empty /\ byNodeID = Empty /\ replaced = Empty /\ rotatedOut = {}

-----------------------------------------------------------------------------
IsExpired(e, t) == t > e.exp + Grace

\* A token NewSession may draw: none that was ever issued.
Fresh(k) == k \notin DOMAIN byToken \cup rotatedOut

\* NewSession and Put: the latest session of the node, if there is one, is
\* rotated into the grace set, whether or not it has expired.
Put(n, k) ==
    LET old == byNodeID[n]
        e == [node |-> n, token |-> k, exp |-> sessionNow + TTL]
    IN
    /\ Fresh(k)
    /\ IF n \in DOMAIN byNodeID
       THEN /\ replaced' = With(replaced, old.token, sessionNow + Grace)
            /\ rotatedOut' = rotatedOut \cup {old.token}
       ELSE UNCHANGED <<replaced, rotatedOut>>
    /\ byNodeID' = With(byNodeID, n, e)
    /\ byToken' = With(byToken, k, e)
    /\ UNCHANGED sessionNow

LookupByToken(k) ==
    IF /\ k \in DOMAIN byToken
       /\ \/ ~IsExpired(byToken[k], sessionNow)
          \/ k \in DOMAIN replaced /\ sessionNow < replaced[k]
    THEN byToken[k] ELSE NoEntry

LookupByNodeID(n) ==
    IF n \in DOMAIN byNodeID /\ ~IsExpired(byNodeID[n], sessionNow)
    THEN byNodeID[n] ELSE NoEntry

\* Mutant of ExpiredNodes: the node of every expired token goes.
MutExpiredNodes(t) ==
    {byToken[k].node : k \in {j \in DOMAIN byToken : IsExpired(byToken[j], t)}}

\* The nodes whose latest session has expired.
ExpiredNodes(t) == {n \in DOMAIN byNodeID : IsExpired(byNodeID[n], t)}

Prune(t) ==
    /\ byToken' = Without(byToken, {k \in DOMAIN byToken : IsExpired(byToken[k], t)})
    /\ byNodeID' = Without(byNodeID, ExpiredNodes(t))
    /\ replaced' = Without(replaced, {k \in DOMAIN replaced : t > replaced[k]})
    /\ UNCHANGED <<sessionNow, rotatedOut>>

SessionTick ==
    /\ sessionNow < MaxSessionTime
    /\ sessionNow' = sessionNow + 1
    /\ UNCHANGED <<byToken, byNodeID, replaced, rotatedOut>>

SessionNext ==
    \/ \E n \in Node, k \in Token : Put(n, k)
    \/ \E t \in 0..sessionNow : Prune(t)
    \/ SessionTick

SessionSpec == SessionInit /\ [][SessionNext]_sessionVars

-----------------------------------------------------------------------------
(* Properties.                                                             *)

\* The two indexes agree: a live token that was not rotated out is the latest
\* session of its node, so it is found by node as well; and the session found
\* by node is found by its token.
IndexesAgree ==
    /\ \A n \in Node : LookupByNodeID(n) # NoEntry =>
          LookupByToken(LookupByNodeID(n).token) = LookupByNodeID(n)
    /\ \A k \in Token : (LookupByToken(k) # NoEntry /\ k \notin rotatedOut) =>
          LookupByNodeID(LookupByToken(k).node) = LookupByToken(k)
=============================================================================
