---------------------------- MODULE HealthLimiter ---------------------------
(***************************************************************************)
(* healthRateLimiter (pkg/rendezvous/server.go): the fixed one-second       *)
(* window that /health and the UDP echo share.  A call reads the wall clock *)
(* before it takes the mutex, so it may arrive in a window other than the   *)
(* one of its own second.  Truncate strips the monotonic reading: the       *)
(* window follows the wall clock, which an operator or NTP may set back.    *)
(***************************************************************************)
EXTENDS Integers, FiniteSets

CONSTANTS
    Source,      \* source IPs
    Call,        \* goroutines inside allow: HTTP handlers and the UDP loop
    Limit,       \* defaultHealthRateLimit
    MaxSecond,   \* bound on the wall clock
    MaxSent      \* bound on the requests of one source

ASSUME LimiterAssumption ==
    /\ Limit \in Nat /\ MaxSecond \in Nat /\ MaxSent \in Nat
    /\ IsFiniteSet(Call)

\* window before the first call: the zero time.
Never == -1

NoCall == [pc |-> "idle"]

VARIABLES
    second,    \* the wall clock, truncated to the second
    peak,      \* history: the latest second the clock ever showed
    window,    \* h.window
    hits,      \* h.hits; a missing key reads as 0
    calls,     \* the goroutines
    sent,      \* history: requests made, by source
    admitted,  \* history: requests let through, by source
    refused    \* history: sources that were told 429 or had an echo dropped

limiterVars == <<second, peak, window, hits, calls, sent, admitted, refused>>

NoHits == [s \in Source |-> 0]

LimiterInit ==
    /\ second = 0 /\ peak = 0
    /\ window = Never /\ hits = NoHits
    /\ calls = [c \in Call |-> NoCall]
    /\ sent = NoHits /\ admitted = NoHits /\ refused = {}

\* handleHealth or the UDP loop calls allow, which reads the clock.
Arrive(c, s) ==
    /\ calls[c] = NoCall /\ sent[s] < MaxSent
    /\ calls' = [calls EXCEPT ![c] = [pc |-> "lock", src |-> s, now |-> second]]
    /\ sent' = [sent EXCEPT ![s] = @ + 1]
    /\ UNCHANGED <<second, peak, window, hits, admitted, refused>>

\* Mutant: a window is opened by any second other than the current one.
MutNewWindow(now) == now # window

\* now.After(h.window).
NewWindow(now) == now > window

\* Mutant: one count for everybody.
MutCounted(h, s) == [x \in Source |-> h[x] + 1]

\* h.hits[ip]++.
Counted(h, s) == [h EXCEPT ![s] = @ + 1]

\* allow under h.mu: a later second drops the map; the call is counted, in
\* whatever window is open.
Allow(c) ==
    LET s == calls[c].src
        h == Counted(IF NewWindow(calls[c].now) THEN NoHits ELSE hits, s)
    IN
    /\ calls[c] # NoCall
    /\ window' = IF NewWindow(calls[c].now) THEN calls[c].now ELSE window
    /\ hits' = h
    /\ admitted' = IF h[s] <= Limit THEN [admitted EXCEPT ![s] = @ + 1] ELSE admitted
    /\ refused' = IF h[s] <= Limit THEN refused ELSE refused \cup {s}
    /\ calls' = [calls EXCEPT ![c] = NoCall]
    /\ UNCHANGED <<second, peak, sent>>

NextSecond ==
    /\ second < MaxSecond
    /\ second' = second + 1
    /\ peak' = IF second' > peak THEN second' ELSE peak
    /\ UNCHANGED <<window, hits, calls, sent, admitted, refused>>

\* The wall clock is set back.
SetBack(t) ==
    /\ t < second
    /\ second' = t
    /\ UNCHANGED <<peak, window, hits, calls, sent, admitted, refused>>

LimiterNext ==
    \/ \E c \in Call, s \in Source : Arrive(c, s)
    \/ \E c \in Call : Allow(c)
    \/ NextSecond
    \/ \E t \in 0..MaxSecond : SetBack(t)

LimiterSpec == LimiterInit /\ [][LimiterNext]_limiterVars

-----------------------------------------------------------------------------
(* Properties.                                                             *)

\* "max /health (+ UDP echo) requests per source IP per second": over any run
\* a source gets at most Limit requests through for every second the clock
\* has shown, however calls are delayed between the clock and the mutex and
\* however the clock is set back.
RateBounded == \A s \in Source : admitted[s] <= Limit * (peak + 1)

\* A flood is charged to its own source only: whoever was refused has itself
\* made more than Limit requests.
RefusedForOwnFlood == \A s \in refused : sent[s] > Limit
=============================================================================
