---------------------------- MODULE IsanndClient ----------------------------
(***************************************************************************)
(* The backend's bridge to isannd (pkg/tunnel/isannd_client.go): one shared *)
(* control socket, dialed on demand by whichever goroutine needs it, a      *)
(* reader goroutine per socket, and callers that connect, send frames and   *)
(* close concurrently.  A step is one critical section of stateMu or one    *)
(* operation on a socket or an atomic flag.                                 *)
(*                                                                         *)
(* External: the provider's heartbeat loop (goroutine Beat), which registers*)
(* when SendHeartbeat reports need_register, and the far end, which accepts *)
(* frames, forgets the node on a restart or a purge, and answers the ping of*)
(* an unregistered node with need_register.                                 *)
(***************************************************************************)
EXTENDS Integers, FiniteSets

CONSTANTS
    Proc,       \* caller goroutines
    Beat,       \* the heartbeat loop among them
    Sock,       \* TCP sockets
    Id,         \* node ids
    BeatId,     \* the node id of the heartbeat loop
    MaxFaults,  \* bound on what the network and the far end may do wrong
    MaxConnects,\* bound on explicit calls of Connect
    NoProc, NoSock, NoId, NoFrame

ASSUME ClientAssumption ==
    /\ Beat \in Proc /\ BeatId \in Id /\ MaxFaults \in Nat /\ MaxConnects \in Nat
    /\ NoProc \notin Proc /\ NoSock \notin Sock /\ NoId \notin Id

Op == {"connect", "register", "ping", "event", "close"}

VARIABLES
    conn,        \* c.conn
    helloId,     \* c.helloID
    dialing,     \* the goroutine that set c.dialing
    closed,      \* c.closed
    needReg,     \* c.needRegisterFlag
    writeMu,     \* the holder of c.writeMu
    procs,       \* the callers
    socks,       \* the sockets and their readers
    registered,  \* the far end has an entry for BeatId
    faults,      \* faults so far
    connects,    \* calls of Connect so far
    wrote        \* the frame the last step put on a socket

vars == <<conn, helloId, dialing, closed, needReg, writeMu, procs, socks,
          registered, faults, connects, wrote>>

\* `state` is the client's end: "up", "down" (the peer is gone, not yet
\* closed here) or "shut".
FreshSock == [state |-> "unused", hello |-> NoId, reader |-> "none", inbox |-> FALSE]
IdleProc == [pc |-> "idle", op |-> "ping", id |-> NoId, sock |-> NoSock]

Init ==
    /\ conn = NoSock /\ helloId = NoId /\ dialing = NoProc /\ closed = FALSE
    /\ needReg = FALSE /\ writeMu = NoProc
    /\ procs = [p \in Proc |-> IdleProc]
    /\ socks = [s \in Sock |-> FreshSock]
    /\ registered = FALSE /\ faults = 0 /\ connects = 0 /\ wrote = NoFrame

-----------------------------------------------------------------------------
Goto(p, pc) == procs' = [procs EXCEPT ![p].pc = pc]

\* The caller returns; writeFrame's deferred Unlock runs.
Return(p) == /\ procs' = [procs EXCEPT ![p] = IdleProc]
             /\ writeMu' = IF writeMu = p THEN NoProc ELSE writeMu

\* dialAndHello returns: to writeFrame, which looks for the connection again
\* when there was no error, or to Connect.
DialReturns(p, ok) ==
    IF ok /\ procs[p].op # "connect"
    THEN Goto(p, "reget") /\ UNCHANGED writeMu
    ELSE Return(p)

\* A closed socket keeps only its reader, until that sees the error.
Shut(s) == [socks EXCEPT ![s] = [FreshSock EXCEPT !.state = "shut", !.reader = socks[s].reader]]

Silent == wrote' = NoFrame

\* A caller starts an operation.  The heartbeat loop only pings, and registers
\* after a ping that returned needRegister (its op is then "register").
\* Connect on a closed client, and a second Close, return at once.
Start(p, op, id) ==
    /\ procs[p].pc = "idle"
    /\ IF p = Beat THEN op = procs[p].op /\ id = BeatId
       ELSE /\ op \in {"connect", "event", "close"}
            /\ op = "connect" => id \in Id /\ ~closed /\ connects < MaxConnects
            /\ op = "close" => id = NoId /\ ~closed
    /\ procs' = [procs EXCEPT ![p] =
                    [pc |-> IF op \in {"connect", "close"} THEN op ELSE "lock",
                     op |-> op, id |-> id, sock |-> NoSock]]
    /\ closed' = (closed \/ op = "close")
    /\ connects' = IF op = "connect" THEN connects + 1 ELSE connects
    /\ Silent
    /\ UNCHANGED <<conn, helloId, dialing, needReg, writeMu, socks, registered, faults>>

\* Connect, after its look at `closed`.
Connect(p) ==
    /\ procs[p].pc = "connect"
    /\ IF helloId \notin {NoId, procs[p].id}
       THEN Return(p) /\ UNCHANGED helloId
       ELSE /\ helloId' = procs[p].id
            /\ IF conn # NoSock THEN Return(p)
               ELSE Goto(p, "cas") /\ UNCHANGED writeMu
    /\ Silent
    /\ UNCHANGED <<conn, dialing, closed, needReg, socks, registered, faults, connects>>

\* Mutant of WriteFrame: the frame's id is not compared with the hello's.
MutWriteFrame(p) ==
    /\ procs[p].pc = "lock" /\ writeMu = NoProc
    /\ writeMu' = p
    /\ helloId' = IF helloId = NoId THEN procs[p].id ELSE helloId
    /\ Goto(p, "ensure")
    /\ Silent
    /\ UNCHANGED <<conn, dialing, closed, needReg, socks, registered, faults, connects>>

\* writeFrame takes writeMu, then captures or compares the identity.
WriteFrame(p) ==
    LET id == procs[p].id IN
    /\ procs[p].pc = "lock" /\ writeMu = NoProc
    /\ IF id # NoId /\ helloId \notin {NoId, id}
       THEN Return(p) /\ UNCHANGED helloId
       ELSE /\ writeMu' = p
            /\ helloId' = IF helloId = NoId THEN id ELSE helloId
            /\ Goto(p, "ensure")
    /\ Silent
    /\ UNCHANGED <<conn, dialing, closed, needReg, socks, registered, faults, connects>>

\* ensureConn's first look at c.conn.
EnsureConn(p) ==
    /\ procs[p].pc = "ensure"
    /\ procs' = [procs EXCEPT ![p].pc = IF conn # NoSock THEN "write" ELSE "cas",
                              ![p].sock = conn]
    /\ Silent
    /\ UNCHANGED <<conn, helloId, dialing, closed, needReg, writeMu, socks,
                   registered, faults, connects>>

\* dialAndHello: the loser of the CompareAndSwap returns nil at once.
DialCAS(p) ==
    /\ procs[p].pc = "cas"
    /\ IF dialing # NoProc THEN DialReturns(p, TRUE) /\ UNCHANGED dialing
       ELSE dialing' = p /\ Goto(p, "drop") /\ UNCHANGED writeMu
    /\ Silent
    /\ UNCHANGED <<conn, helloId, closed, needReg, socks, registered, faults, connects>>

\* The old connection goes; without an identity the dial fails.
DialDrop(p) ==
    /\ procs[p].pc = "drop"
    /\ conn' = NoSock
    /\ socks' = IF conn # NoSock THEN Shut(conn) ELSE socks
    /\ IF helloId = NoId THEN dialing' = NoProc /\ DialReturns(p, FALSE)
       ELSE Goto(p, "dial") /\ UNCHANGED <<dialing, writeMu>>
    /\ Silent
    /\ UNCHANGED <<helloId, closed, needReg, registered, faults, connects>>

\* A socket nobody refers to any more stands for a new one.
Unused(s) ==
    /\ socks[s].state \in {"unused", "shut"} /\ socks[s].reader = "none"
    /\ conn # s /\ \A q \in Proc : procs[q].sock # s

Dial(p, s) ==
    /\ procs[p].pc = "dial" /\ Unused(s)
    /\ socks' = [socks EXCEPT ![s] = [FreshSock EXCEPT !.state = "up"]]
    /\ procs' = [procs EXCEPT ![p].pc = "hello", ![p].sock = s]
    /\ Silent
    /\ UNCHANGED <<conn, helloId, dialing, closed, needReg, writeMu, registered, faults, connects>>

\* Mutant of DialError: the `dialing` flag is not reset on the error path.
MutDialError(p) ==
    /\ procs[p].pc = "dial" /\ faults < MaxFaults
    /\ faults' = faults + 1
    /\ DialReturns(p, FALSE)
    /\ Silent
    /\ UNCHANGED <<conn, helloId, dialing, closed, needReg, socks, registered, connects>>

\* The dial times out or is refused.
DialError(p) ==
    /\ procs[p].pc = "dial" /\ faults < MaxFaults
    /\ faults' = faults + 1
    /\ dialing' = NoProc
    /\ DialReturns(p, FALSE)
    /\ Silent
    /\ UNCHANGED <<conn, helloId, closed, needReg, socks, registered, connects>>

\* The hello goes out (on a dead socket the kernel may still take it), or the
\* new socket is closed.
Hello(p) ==
    LET s == procs[p].sock IN
    /\ procs[p].pc = "hello"
    /\ \/ /\ socks' = [socks EXCEPT ![s].hello = helloId]
          /\ Goto(p, "publish")
          /\ UNCHANGED <<dialing, writeMu>>
       \/ /\ socks[s].state # "up"
          /\ socks' = Shut(s)
          /\ dialing' = NoProc
          /\ DialReturns(p, FALSE)
    /\ Silent
    /\ UNCHANGED <<conn, helloId, closed, needReg, registered, faults, connects>>

\* c.conn is set and the reader starts; `closed` is not looked at.
Publish(p) ==
    LET s == procs[p].sock IN
    /\ procs[p].pc = "publish"
    /\ conn' = s
    /\ socks' = [socks EXCEPT ![s].reader = "reading"]
    /\ Goto(p, "undial")
    /\ Silent
    /\ UNCHANGED <<helloId, dialing, closed, needReg, writeMu, registered, faults, connects>>

\* The deferred dialing.Store(false).
DialDone(p) ==
    /\ procs[p].pc = "undial"
    /\ dialing' = NoProc
    /\ DialReturns(p, TRUE)
    /\ Silent
    /\ UNCHANGED <<conn, helloId, closed, needReg, socks, registered, faults, connects>>

\* Mutant of Reget: a dial without an error is taken to have left a connection.
MutReget(p) ==
    /\ procs[p].pc = "reget"
    /\ procs' = [procs EXCEPT ![p].pc = "write", ![p].sock = conn]
    /\ Silent
    /\ UNCHANGED <<conn, helloId, dialing, closed, needReg, writeMu, socks, registered,
                   faults, connects>>

\* ensureConn's second look, after a dial of its own or of someone else.
Reget(p) ==
    /\ procs[p].pc = "reget"
    /\ IF conn = NoSock THEN Return(p)
       ELSE /\ procs' = [procs EXCEPT ![p].pc = "write", ![p].sock = conn]
            /\ UNCHANGED writeMu
    /\ Silent
    /\ UNCHANGED <<conn, helloId, dialing, closed, needReg, socks, registered, faults, connects>>

\* writeFrameTo: a frame on a live socket arrives.  On a dead one the write
\* fails, or the kernel takes it and nobody reads it.
Write(p) ==
    LET s == procs[p].sock
        o == procs[p].op
        after == IF o # "ping" THEN Return(p)
                 ELSE Goto(p, "swap") /\ writeMu' = NoProc
    IN
    /\ procs[p].pc = "write"
    /\ \/ /\ socks[s].state = "up"
          /\ wrote' = [sock |-> s, id |-> procs[p].id]
          /\ registered' = (registered \/ o = "register")
          /\ socks' = [socks EXCEPT ![s].inbox = @ \/ (o = "ping" /\ ~registered)]
          /\ after
       \/ /\ socks[s].state = "down"
          /\ after /\ Silent /\ UNCHANGED <<registered, socks>>
       \/ /\ socks[s].state \in {"down", "shut"}
          /\ Goto(p, "dead")
          /\ Silent /\ UNCHANGED <<registered, socks, writeMu>>
    /\ UNCHANGED <<conn, helloId, dialing, closed, needReg, faults, connects>>

\* A frame that does not marshal or exceeds frameMaxSize fails on a socket that
\* is well, which is given up like a dead one.
WriteRefused(p) ==
    /\ procs[p].pc = "write" /\ socks[procs[p].sock].state = "up"
    /\ faults < MaxFaults
    /\ faults' = faults + 1
    /\ Goto(p, "dead")
    /\ Silent
    /\ UNCHANGED <<conn, helloId, dialing, closed, needReg, writeMu, socks, registered,
                   connects>>

\* Mutant of Undead: c.conn is cleared without comparing it with the dead one.
MutUndead(s) == NoSock

\* markConnDead: only the connection that failed is cleared.
Undead(s) == IF conn = s THEN NoSock ELSE conn

MarkConnDead(s) == IF conn = s THEN Shut(s) ELSE socks

WriteFailed(p) ==
    /\ procs[p].pc = "dead"
    /\ conn' = Undead(procs[p].sock)
    /\ socks' = MarkConnDead(procs[p].sock)
    /\ Return(p)
    /\ Silent
    /\ UNCHANGED <<helloId, dialing, closed, needReg, registered, faults, connects>>

\* SendHeartbeat returns needRegisterFlag.Swap(false).
SwapFlag(p) ==
    /\ procs[p].pc = "swap"
    /\ needReg' = FALSE
    /\ procs' = [procs EXCEPT ![p] =
                    [IdleProc EXCEPT !.op = IF needReg THEN "register" ELSE "ping"]]
    /\ Silent
    /\ UNCHANGED <<conn, helloId, dialing, closed, writeMu, socks, registered, faults, connects>>

\* Close takes the connection away under stateMu and closes it after.
Close(p) ==
    /\ procs[p].pc = "close"
    /\ conn' = NoSock
    /\ IF conn = NoSock THEN Return(p)
       ELSE /\ procs' = [procs EXCEPT ![p].pc = "shut", ![p].sock = conn]
            /\ UNCHANGED writeMu
    /\ Silent
    /\ UNCHANGED <<helloId, dialing, closed, needReg, socks, registered, faults, connects>>

CloseConn(p) ==
    /\ procs[p].pc = "shut"
    /\ socks' = Shut(procs[p].sock)
    /\ Return(p)
    /\ Silent
    /\ UNCHANGED <<conn, helloId, dialing, closed, needReg, registered, faults, connects>>

-----------------------------------------------------------------------------
(* runReader.                                                              *)

ReadNeedRegister(s) ==
    /\ socks[s].reader = "reading" /\ socks[s].inbox
    /\ needReg' = TRUE
    /\ socks' = [socks EXCEPT ![s].inbox = FALSE]
    /\ Silent
    /\ UNCHANGED <<conn, helloId, dialing, closed, writeMu, procs, registered, faults, connects>>

\* A read error ends the reader through markConnDead.
ReaderExit(s) ==
    /\ socks[s].reader = "reading" /\ socks[s].state \in {"down", "shut"}
    /\ conn' = Undead(s)
    /\ socks' = [MarkConnDead(s) EXCEPT ![s].reader = "none"]
    /\ Silent
    /\ UNCHANGED <<helloId, dialing, closed, needReg, writeMu, procs, registered, faults, connects>>

-----------------------------------------------------------------------------
(* The network and the far end.                                            *)

Break(s) ==
    /\ socks[s].state = "up" /\ faults < MaxFaults
    /\ faults' = faults + 1
    /\ socks' = [socks EXCEPT ![s].state = "down"]
    /\ Silent
    /\ UNCHANGED <<conn, helloId, dialing, closed, needReg, writeMu, procs, registered, connects>>

\* The server restarts or purges the node.
Forget ==
    /\ registered /\ faults < MaxFaults
    /\ faults' = faults + 1
    /\ registered' = FALSE
    /\ Silent
    /\ UNCHANGED <<conn, helloId, dialing, closed, needReg, writeMu, procs, socks, connects>>

-----------------------------------------------------------------------------
\* What goroutine p does by itself.
Run(p) ==
    \/ Connect(p) \/ WriteFrame(p) \/ EnsureConn(p) \/ DialCAS(p) \/ DialDrop(p)
    \/ \E s \in Sock : Dial(p, s)
    \/ Hello(p) \/ Publish(p) \/ DialDone(p) \/ Reget(p) \/ Write(p)
    \/ WriteFailed(p) \/ SwapFlag(p) \/ Close(p) \/ CloseConn(p)

Reader(s) == ReadNeedRegister(s) \/ ReaderExit(s)

Next ==
    \/ \E p \in Proc, op \in Op, id \in Id \cup {NoId} : Start(p, op, id)
    \/ \E p \in Proc : Run(p) \/ DialError(p) \/ WriteRefused(p)
    \/ \E s \in Sock : Reader(s) \/ Break(s)
    \/ Forget

Spec == Init /\ [][Next]_vars

\* Goroutines run, sync.Mutex hands writeMu to a waiter (its starvation mode),
\* and the heartbeat loop keeps ticking.
Fairness ==
    /\ \A p \in Proc : WF_vars(Run(p)) /\ SF_vars(WriteFrame(p))
    /\ \A s \in Sock : WF_vars(Reader(s))
    /\ WF_vars(\E op \in Op : Start(Beat, op, BeatId))

FairSpec == Spec /\ Fairness

-----------------------------------------------------------------------------
(* Properties.                                                             *)

Caller == [pc : {"idle", "connect", "close", "lock", "ensure", "cas", "drop", "dial",
                 "hello", "publish", "undial", "reget", "write", "dead", "swap", "shut"},
           op : Op, id : Id \cup {NoId}, sock : Sock \cup {NoSock}]

Socket == [state : {"unused", "up", "down", "shut"}, hello : Id \cup {NoId},
           reader : {"none", "reading"}, inbox : BOOLEAN]

\* Every variable has its type, and no goroutine reaches a socket operation
\* with a nil connection (ensureConn's checks).
TypeOK ==
    /\ conn \in Sock \cup {NoSock} /\ helloId \in Id \cup {NoId}
    /\ dialing \in Proc \cup {NoProc} /\ writeMu \in Proc \cup {NoProc}
    /\ closed \in BOOLEAN /\ needReg \in BOOLEAN /\ registered \in BOOLEAN
    /\ faults \in 0..MaxFaults /\ connects \in 0..MaxConnects
    /\ procs \in [Proc -> Caller]
    /\ \A p \in Proc : procs[p].pc \in {"hello", "publish", "write", "dead", "shut"} =>
          procs[p].sock # NoSock
    /\ socks \in [Sock -> Socket]
    /\ wrote \in [sock : Sock, id : Id \cup {NoId}] \cup {NoFrame}

\* No socket leaks: one the client has not closed is c.conn, or still in the
\* hands of the goroutine that dials it or of the one that closes it; and only
\* one goroutine dials.
NoSocketLeak ==
    /\ \A s \in Sock : socks[s].state \in {"up", "down"} =>
          \/ conn = s
          \/ dialing # NoProc /\ procs[dialing].sock = s
                /\ procs[dialing].pc \in {"hello", "publish"}
          \/ \E p \in Proc : procs[p].pc = "shut" /\ procs[p].sock = s
    /\ \A p \in Proc : procs[p].pc \in {"drop", "dial", "hello", "publish", "undial"}
                          => dialing = p

\* Every frame travels on a socket that said hello, and hello for the same
\* node: no frame overtakes the hello of its socket, and none of another
\* node's reaches it.
FramesFollowHello ==
    wrote # NoFrame => /\ socks[wrote.sock].hello # NoId
                       /\ wrote.id \in {NoId, socks[wrote.sock].hello}

\* The node is registered again after the last fault: a restart or purge of
\* the server, or a broken or refused connection, is overcome by the heartbeats
\* alone (unless the client is closed or serves another node).
Recovers == <>[]registered \/ <>closed \/ <>(helloId \notin {NoId, BeatId})
=============================================================================
