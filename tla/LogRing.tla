------------------------------ MODULE LogRing -------------------------------
(***************************************************************************)
(* glog.RingBuffer: the circular buffer of recent log lines behind the admin*)
(* log view, and the channels of the live log streams.  Two mutexes: `mu`   *)
(* for the buffer, `subsMu` for the list of channels; a Write takes one     *)
(* after the other, and the streams of HandleAdminLogsStream come and go    *)
(* between the two.                                                         *)
(***************************************************************************)
EXTENDS Integers, Sequences, SequencesExt

CONSTANTS
    Writer,     \* goroutines that log
    Stream,     \* SSE requests, each with its channel
    RingCap,    \* NewRingBuffer's capacity
    ChanCap,    \* the 64 of Subscribe
    MaxLines    \* bound on the lines written

ASSUME RingAssumption == RingCap \in Nat \ {0} /\ ChanCap \in Nat \ {0} /\ MaxLines \in Nat

\* A line is the number of its Store.  0 stands for an empty slot and for a
\* writer with nothing to send.
NoLine == 0

VARIABLES
    ring,      \* b.lines, b.pos, b.count
    stored,    \* history: the lines in the order they were stored
    sending,   \* writer -> the line it is about to send to the channels
    subs,      \* b.subs
    chans      \* the channels and their readers; history: what was got,
               \* the lines stored before Subscribe, whether one was dropped

ringVars == <<ring, stored, sending, subs, chans>>

RingInit ==
    /\ ring = [lines |-> [i \in 0..(RingCap - 1) |-> NoLine], pos |-> 0, count |-> 0]
    /\ stored = <<>>
    /\ sending = [w \in Writer |-> NoLine]
    /\ subs = {}
    /\ chans = [s \in Stream |-> [state |-> "none", queue |-> <<>>, got |-> {},
                               since |-> 0, dropped |-> FALSE]]

\* Mutant: count grows past the capacity.
MutStored(r, line) == [lines |-> [r.lines EXCEPT ![r.pos] = line],
                       pos |-> (r.pos + 1) % RingCap, count |-> r.count + 1]

\* Write under b.mu.
Stored(r, line) == [lines |-> [r.lines EXCEPT ![r.pos] = line],
                    pos |-> (r.pos + 1) % RingCap,
                    count |-> IF r.count < RingCap THEN r.count + 1 ELSE r.count]

Store(w) ==
    LET line == Len(stored) + 1 IN
    /\ sending[w] = NoLine /\ Len(stored) < MaxLines
    /\ ring' = Stored(ring, line)
    /\ stored' = Append(stored, line)
    /\ sending' = [sending EXCEPT ![w] = line]
    /\ UNCHANGED <<subs, chans>>

\* Mutant: the last free place of a channel is not used.
MutOffered(c, line) ==
    IF Len(c.queue) < ChanCap - 1 THEN [c EXCEPT !.queue = Append(@, line)]
    ELSE [c EXCEPT !.dropped = @ \/ Len(c.queue) = ChanCap]

\* The non-blocking send: a line for a full channel is skipped.
Offered(c, line) ==
    IF Len(c.queue) < ChanCap THEN [c EXCEPT !.queue = Append(@, line)]
    ELSE [c EXCEPT !.dropped = TRUE]

\* Write under b.subsMu.
Send(w) ==
    /\ sending[w] # NoLine
    /\ chans' = [s \in Stream |->
                   IF s \in subs THEN Offered(chans[s], sending[w]) ELSE chans[s]]
    /\ sending' = [sending EXCEPT ![w] = NoLine]
    /\ UNCHANGED <<ring, stored, subs>>

\* Recent(n): the slots from (pos - n) on, around the end of the array.
Recent(n) ==
    LET k == IF n > ring.count THEN ring.count ELSE n
        start == (ring.pos - k + RingCap) % RingCap
    IN [i \in 1..k |-> ring.lines[(start + i - 1) % RingCap]]

Subscribe(s) ==
    /\ chans[s].state = "none"
    /\ subs' = subs \cup {s}
    /\ chans' = [chans EXCEPT ![s].state = "open", ![s].since = Len(stored)]
    /\ UNCHANGED <<ring, stored, sending>>

\* The request takes a line off its channel and writes it to the client.
Receive(s) ==
    /\ chans[s].state = "open" /\ s \in subs /\ chans[s].queue # <<>>
    /\ chans' = [chans EXCEPT ![s].queue = Tail(@),
                              ![s].got = @ \cup {Head(chans[s].queue)}]
    /\ UNCHANGED <<ring, stored, sending, subs>>

\* Mutant: the channel is closed first.
MutUnsubscribe(s) ==
    /\ chans[s].state = "open" /\ s \in subs
    /\ chans' = [chans EXCEPT ![s].state = "closed"]
    /\ UNCHANGED <<ring, stored, sending, subs>>

\* The client is gone: Unsubscribe under subsMu, and close(ch) after it.
Unsubscribe(s) ==
    /\ chans[s].state = "open" /\ s \in subs
    /\ subs' = subs \ {s}
    /\ UNCHANGED <<ring, stored, sending, chans>>

CloseChan(s) ==
    /\ chans[s].state = "open" /\ s \notin subs
    /\ chans' = [chans EXCEPT ![s].state = "closed"]
    /\ UNCHANGED <<ring, stored, sending, subs>>

RingNext ==
    \/ \E w \in Writer : Store(w) \/ Send(w)
    \/ \E s \in Stream : Subscribe(s) \/ Receive(s) \/ Unsubscribe(s) \/ CloseChan(s)

RingSpec == RingInit /\ [][RingNext]_ringVars

-----------------------------------------------------------------------------
(* Properties.                                                             *)

\* "Recent returns the last n log lines in order", for every n, before and
\* after the buffer wraps.
RecentInOrder ==
    \A n \in 0..(RingCap + 1) :
        Recent(n) = LET k == IF n > RingCap THEN RingCap ELSE n IN
                    SubSeq(stored, IF Len(stored) > k THEN Len(stored) - k + 1 ELSE 1,
                           Len(stored))

\* No line is ever sent on a closed channel (Go panics, under the logger's
\* mutex), whenever a stream ends: a listed channel is open.
SendsToOpen == \A s \in subs : chans[s].state = "open"

\* A stream misses only what its own channel had no room for: without such a
\* drop it has every line stored since it subscribed whose Write is over,
\* whatever other streams and writers do between the two mutexes.
StreamComplete ==
    \A s \in subs : ~chans[s].dropped =>
        \A line \in (chans[s].since + 1)..Len(stored) :
            \/ line \in chans[s].got \cup ToSet(chans[s].queue)
            \/ \E w \in Writer : sending[w] = line
=============================================================================
