------------------------------ MODULE Cadence -------------------------------
(***************************************************************************)
(* The timing between a node and the rendezvous server, in seconds: the ping*)
(* interval that PingIntervalFor derives from the operator's setting and the*)
(* register ack tells the node, the conn_status thresholds derived from it, *)
(* the purge cutoff, the 60 s of the `online` flag of /v1/metrics and the   *)
(* 15 s cleanup ticker, which do not depend on it.                          *)
(*                                                                         *)
(* External: the node, which pings at the interval it was told, a little    *)
(* late at times, and registers again when asked to.                        *)
(***************************************************************************)
EXTENDS Integers

CONSTANTS
    PingSetting,   \* advanced.ping_interval_sec of the role; 0 when unset
    DefaultPing,   \* defaultPingInterval of the role
    MinPing, MaxPing,
    PurgeAfter,    \* ProxyPurgeOrDefault()
    OnlineWithin,  \* handleMetrics' 60 seconds
    CleanupEvery,  \* the cleanup ticker
    Late           \* how late a ping of a healthy node may be

ASSUME CadenceAssumption ==
    /\ PingSetting \subseteq Nat /\ DefaultPing \in Nat
    /\ MinPing \in Nat /\ MaxPing \in Nat /\ MinPing <= MaxPing
    /\ PurgeAfter \in Nat /\ OnlineWithin \in Nat /\ CleanupEvery \in Nat \ {0} /\ Late \in Nat

\* The longest interval leaves room before the cutoff, as the defaults do
\* (60 s against 120 s), and a ping is less late than the shortest interval
\* forgives: it turns stale at three times the interval.
ASSUME CadenceMargins ==
    /\ MaxPing + Late <= PurgeAfter
    /\ Late <= 2 * MinPing

VARIABLES
    setting,   \* the running server's setting
    listed,    \* the node has an entry
    lastSeen,  \* seconds since the entry's LastSeen, 0 without an entry
    told,      \* the interval of the last register ack
    due,       \* seconds to the node's next ping
    silent,    \* the node's backend is gone
    ticker     \* seconds to the next cleanup

cadenceVars == <<setting, listed, lastSeen, told, due, silent, ticker>>

\* Mutant: no upper bound.
MutPingIntervalFor(s) == LET d == IF s = 0 THEN DefaultPing ELSE s IN
                         IF d < MinPing THEN MinPing ELSE d

\* PingIntervalFor: the default when unset, clamped.
PingIntervalFor(s) ==
    LET d == IF s = 0 THEN DefaultPing ELSE s IN
    IF d < MinPing THEN MinPing ELSE IF d > MaxPing THEN MaxPing ELSE d

\* connStatusThresholds and computeConnStatus.
ConnStatus(age) == IF age > PingIntervalFor(setting) * 5 THEN "offline"
                   ELSE IF age > PingIntervalFor(setting) * 3 THEN "stale" ELSE "alive"

\* handleMetrics' online: now.Sub(p.LastSeen) < 60*time.Second.
Online(age) == age < OnlineWithin

\* The node has just registered.
CadenceInit ==
    /\ setting \in PingSetting
    /\ listed = TRUE /\ lastSeen = 0
    /\ told = PingIntervalFor(setting) /\ due = told
    /\ silent = FALSE
    /\ ticker \in 1..CleanupEvery

\* A second passes; a healthy node has no ping more than Late overdue.
Second ==
    /\ ticker > 0
    /\ ~silent => due > -Late
    /\ ticker' = ticker - 1
    /\ lastSeen' = IF listed THEN lastSeen + 1 ELSE 0
    /\ due' = IF silent THEN 0 ELSE due - 1
    /\ UNCHANGED <<setting, listed, told, silent>>

\* applyPing; a node without an entry gets need_register, registers and is
\* told the interval again.
PingArrives ==
    /\ ~silent /\ due <= 0
    /\ listed' = TRUE /\ lastSeen' = 0
    /\ told' = IF listed THEN told ELSE PingIntervalFor(setting)
    /\ due' = told'
    /\ UNCHANGED <<setting, silent, ticker>>

\* The backend stops, and later starts again with a register.
GoSilent ==
    /\ ~silent
    /\ silent' = TRUE /\ due' = 0
    /\ UNCHANGED <<setting, listed, lastSeen, told, ticker>>

ComeBack ==
    /\ silent
    /\ silent' = FALSE
    /\ listed' = TRUE /\ lastSeen' = 0
    /\ told' = PingIntervalFor(setting) /\ due' = told'
    /\ UNCHANGED <<setting, ticker>>

\* Mutant: the cutoff starts at the previous tick.
MutPastCutoff(age) == age > PurgeAfter + CleanupEvery

\* now.Sub(p.LastSeen) > cutoff.
PastCutoff(age) == age > PurgeAfter

\* The cleanup tick.
CleanupTick ==
    LET gone == listed /\ PastCutoff(lastSeen) IN
    /\ ticker = 0
    /\ ticker' = CleanupEvery
    /\ listed' = (listed /\ ~gone)
    /\ lastSeen' = IF gone THEN 0 ELSE lastSeen
    /\ UNCHANGED <<setting, told, due, silent>>

\* The server is restarted with another setting; the node goes on at the
\* interval it knows until its next ping is answered.
Reconfigure(s) ==
    /\ setting' = s
    /\ listed' = FALSE /\ lastSeen' = 0
    /\ ticker' = CleanupEvery
    /\ UNCHANGED <<told, due, silent>>

CadenceNext ==
    \/ Second \/ PingArrives \/ GoSilent \/ ComeBack \/ CleanupTick
    \/ \E s \in PingSetting : Reconfigure(s)

CadenceSpec == CadenceInit /\ [][CadenceNext]_cadenceVars

-----------------------------------------------------------------------------
(* Properties.                                                             *)

\* Whatever the operator sets, a node that pings at the interval it was told
\* is "alive" by conn_status and out of the cleanup loop's reach, also after a
\* restart with another interval.  It is `online` in /v1/metrics only where the
\* interval leaves room: near 60 s a healthy node is at times shown
\* with online false beside conn_status alive.
OnTimeIsAlive ==
    listed /\ ~silent =>
        /\ ConnStatus(lastSeen) = "alive" /\ ~PastCutoff(lastSeen)
        /\ PingIntervalFor(setting) + Late < OnlineWithin => Online(lastSeen)

\* "cutoff=60s + tick=15s => <=75s worst case": a silent node is gone at most
\* one cleanup tick after the cutoff.
GoneInTime == listed => lastSeen <= PurgeAfter + CleanupEvery
=============================================================================
