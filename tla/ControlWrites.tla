--------------------------- MODULE ControlWrites ---------------------------
(***************************************************************************)
(* Who waits for whom on the rendezvous server's control connections.  A    *)
(* handler goroutine writes on its own connection and, for a connect frame, *)
(* first on the target's (PushToNode).  Every write holds the connection's  *)
(* writer mutex and has no deadline: it ends when the peer makes room in    *)
(* the socket's buffer or when the connection is closed.  What the frames   *)
(* do to the registry is RVServer's; here a frame is only its writes.       *)
(***************************************************************************)
EXTENDS Naturals

CONSTANTS
    ControlConn,  \* *controlConn values, each with its handler goroutine
    Owner,        \* the node key of a connection's hello
    MayStall,     \* connections whose peer may stop reading for good
    SendCap,      \* frames that fit in the buffers towards one peer
    Nobody

Peer == {Owner[c] : c \in ControlConn}

VARIABLES
    socket,   \* per connection: its life, and the frames not yet read by the peer
    table,    \* s.controlConns
    writerMu, \* cc.mu: the handler that holds it, or Nobody
    handler   \* the handler goroutines: where they are, the connection they
              \* write on, and whether proxy_info is still to be written

controlWritesVars == <<socket, table, writerMu, handler>>

ControlWritesInit ==
    /\ socket = [c \in ControlConn |-> [life |-> "new", queued |-> 0]]
    /\ table = [k \in Peer |-> Nobody]
    /\ writerMu = [c \in ControlConn |-> Nobody]
    /\ handler = [c \in ControlConn |-> [pc |-> "read", to |-> Nobody, reply |-> FALSE]]

IsOpen(c) == socket[c].life = "open"

\* conn.Close(), or the kernel giving the peer up: what was queued is gone.
Closed(c) == [life |-> "closed", queued |-> 0]

\* The handler calls sendFrame on connection `to`.
Sending(to, reply) == [pc |-> "lock", to |-> to, reply |-> reply]
Reading == [pc |-> "read", to |-> Nobody, reply |-> FALSE]

\* A peer's hello: last writer wins, the previous connection is closed, and
\* the handler writes the hello ack.  (RVServer has the swap and the close as
\* two steps; here it matters only that the close follows.)
HelloSwap(c) ==
    LET prev == table[Owner[c]] IN
    /\ socket[c].life = "new"
    /\ table' = [table EXCEPT ![Owner[c]] = c]
    /\ socket' = [x \in ControlConn |->
                    IF x = c THEN [life |-> "open", queued |-> 0]
                    ELSE IF x = prev THEN Closed(x) ELSE socket[x]]
    /\ handler' = [handler EXCEPT ![c] = Sending(c, FALSE)]
    /\ UNCHANGED writerMu

\* The connection ends: its peer closes it, or TCP keepalive gives it up.
PeerGone(c) ==
    /\ IsOpen(c)
    /\ socket' = [socket EXCEPT ![c] = Closed(c)]
    /\ UNCHANGED <<table, writerMu, handler>>

\* A frame that is answered on its own connection: register, a connect whose
\* target is unknown, a ping of a node that must register again.
ReadAnswered(c) ==
    /\ IsOpen(c) /\ handler[c].pc = "read"
    /\ handler' = [handler EXCEPT ![c] = Sending(c, FALSE)]
    /\ UNCHANGED <<socket, table, writerMu>>

\* Mutant: the requester's writer mutex is taken before the push, so that the
\* two frames of a connect leave together.
MutReadConnect(c, k) ==
    /\ IsOpen(c) /\ handler[c].pc = "read" /\ writerMu[c] = Nobody
    /\ writerMu' = [writerMu EXCEPT ![c] = c]
    /\ handler' = [handler EXCEPT ![c] = IF table[k] = Nobody THEN Sending(c, FALSE)
                                         ELSE Sending(table[k], TRUE)]
    /\ UNCHANGED <<socket, table>>

\* handleConnect for target k: PushToNode looks the target's connection up
\* and sends punch on it (ErrNotConnected goes straight to the proxy_info).
ReadConnect(c, k) ==
    /\ IsOpen(c) /\ handler[c].pc = "read"
    /\ handler' = [handler EXCEPT ![c] = IF table[k] = Nobody THEN Sending(c, FALSE)
                                         ELSE Sending(table[k], TRUE)]
    /\ UNCHANGED <<socket, table, writerMu>>

\* ReadFrame fails on a closed connection: the deferred CompareAndDelete runs
\* and the goroutine ends.
ReadFails(c) ==
    /\ socket[c].life = "closed" /\ handler[c].pc = "read"
    /\ handler' = [handler EXCEPT ![c].pc = "done"]
    /\ table' = [k \in Peer |-> IF table[k] = c THEN Nobody ELSE table[k]]
    /\ UNCHANGED <<socket, writerMu>>

\* sendFrame: cc.mu.Lock().
LockWriter(c) ==
    LET to == handler[c].to IN
    /\ handler[c].pc = "lock" /\ writerMu[to] = Nobody
    /\ writerMu' = [writerMu EXCEPT ![to] = c]
    /\ handler' = [handler EXCEPT ![c].pc = "write"]
    /\ UNCHANGED <<socket, table>>

\* What follows a sendFrame: the proxy_info of a connect, else the next frame.
\* Both errors are dropped.
AfterSend(c) == IF handler[c].reply THEN Sending(c, FALSE) ELSE Reading

\* Mutant: a failed write returns with the mutex locked.
MutWriteReturns(c) ==
    LET to == handler[c].to IN
    /\ handler[c].pc = "write"
    /\ IsOpen(to) => socket[to].queued < SendCap
    /\ socket' = IF IsOpen(to) THEN [socket EXCEPT ![to].queued = @ + 1] ELSE socket
    /\ writerMu' = IF IsOpen(to) THEN [writerMu EXCEPT ![to] = Nobody] ELSE writerMu
    /\ handler' = [handler EXCEPT ![c] = AfterSend(c)]
    /\ UNCHANGED table

\* signal.WriteFrame finds room, or returns the error of a closed connection;
\* the deferred Unlock runs in both cases.
WriteReturns(c) ==
    LET to == handler[c].to IN
    /\ handler[c].pc = "write"
    /\ IsOpen(to) => socket[to].queued < SendCap
    /\ socket' = IF IsOpen(to) THEN [socket EXCEPT ![to].queued = @ + 1] ELSE socket
    /\ writerMu' = [writerMu EXCEPT ![to] = Nobody]
    /\ handler' = [handler EXCEPT ![c] = AfterSend(c)]
    /\ UNCHANGED table

\* The peer reads a frame: isannd's client has a goroutine that only reads
\* (runReader), so its own blocked writes never keep it from reading.
RunReader(c) ==
    /\ IsOpen(c) /\ socket[c].queued > 0
    /\ socket' = [socket EXCEPT ![c].queued = @ - 1]
    /\ UNCHANGED <<table, writerMu, handler>>

ControlWritesNext ==
    \E c \in ControlConn :
        \/ HelloSwap(c)
        \/ PeerGone(c)
        \/ ReadAnswered(c)
        \/ \E k \in Peer : ReadConnect(c, k)
        \/ ReadFails(c)
        \/ LockWriter(c)
        \/ WriteReturns(c)
        \/ RunReader(c)

\* Goroutines are scheduled, a Go mutex does not starve a waiter, and the
\* peers outside MayStall read.  Nothing makes a peer send, close or reconnect.
ControlWritesFairness ==
    \A c \in ControlConn :
        /\ SF_controlWritesVars(LockWriter(c))
        /\ WF_controlWritesVars(WriteReturns(c))
        /\ WF_controlWritesVars(ReadFails(c))
        /\ c \notin MayStall => WF_controlWritesVars(RunReader(c))

ControlWritesSpec ==
    ControlWritesInit /\ [][ControlWritesNext]_controlWritesVars /\ ControlWritesFairness

-----------------------------------------------------------------------------
(* Properties.                                                             *)

\* The handler is back in its frame loop, or has ended.
Served(c) == handler[c].pc \in {"read", "done"}

\* A peer that stops reading holds up only the handlers that write to it at
\* that time: whoever is held up for good waits on a stalled connection itself,
\* never on a handler that waits on one (sendFrame, handleConnect).
StallIsLocal ==
    \A c \in ControlConn : []<>(Served(c) \/ handler[c].to \in MayStall)

\* Once the stalled connections are closed, by a reconnect of the node or by
\* the kernel, every handler that was queued up on them goes on: blocked writes
\* return and the mutex passes on.
ClosingReleases ==
    (\A s \in MayStall : <>(socket[s].life = "closed"))
        => \A c \in ControlConn : []<>Served(c)
=============================================================================
