------------------------ MODULE IsanndClientProofs ------------------------
(***************************************************************************)
(* Proofs about the isannd client: the types with the nil checks, no socket *)
(* leaks, and every frame follows its socket's hello, for any number of     *)
(* goroutines, sockets, ids, faults and connects.                           *)
(***************************************************************************)
EXTENDS IsanndClient, TLAPS

\* The steps of dialAndHello after its CompareAndSwap, and those of a caller
\* whose id was captured by or compared with c.helloID.
DialPC == {"drop", "dial", "hello", "publish", "undial"}
NamedPC == DialPC \cup {"ensure", "cas", "reget", "write"}

\* Who answers for an open socket (the first conjunct of NoSocketLeak).
Held(s) ==
    \/ conn = s
    \/ dialing # NoProc /\ procs[dialing].sock = s
          /\ procs[dialing].pc \in {"hello", "publish"}
    \/ \E p \in Proc : procs[p].pc = "shut" /\ procs[p].sock = s

Accounted == \A s \in Sock : socks[s].state \in {"up", "down"} => Held(s)

\* TypeOK in three parts.
Scalars ==
    /\ conn \in Sock \cup {NoSock} /\ helloId \in Id \cup {NoId}
    /\ dialing \in Proc \cup {NoProc} /\ writeMu \in Proc \cup {NoProc}
    /\ closed \in BOOLEAN /\ needReg \in BOOLEAN /\ registered \in BOOLEAN
    /\ faults \in 0..MaxFaults /\ connects \in 0..MaxConnects
    /\ wrote \in [sock : Sock, id : Id \cup {NoId}] \cup {NoFrame}

CallerTypes ==
    /\ procs \in [Proc -> Caller]
    /\ \A p \in Proc : procs[p].pc \in {"hello", "publish", "write", "dead", "shut"} =>
          procs[p].sock # NoSock

SocketTypes == socks \in [Sock -> Socket]

\* What each caller knows of its own operation: an idle one left no call of
\* Connect or Close behind, Connect has a node id, and from writeFrame's or
\* Connect's check on the caller's id is the hello's.
CallersOK ==
    \A p \in Proc :
        /\ procs[p].pc = "idle" => procs[p].op \in {"ping", "register"}
        /\ procs[p].pc = "connect" => procs[p].id # NoId
        /\ procs[p].pc \in NamedPC => procs[p].id \in {NoId, helloId}

\* One goroutine dials, with an identity and with c.conn cleared.
OneDialer ==
    \A p \in Proc :
        /\ procs[p].pc \in DialPC => dialing = p
        /\ procs[p].pc \in {"dial", "hello", "publish"} => conn = NoSock /\ helloId # NoId

\* Nobody else has the socket being dialed, and the one being closed is not
\* published again.
OwnSocket ==
    \A p \in Proc :
        /\ procs[p].pc \in {"hello", "publish"} =>
              \A q \in Proc \ {p} : procs[q].sock # procs[p].sock
        /\ procs[p].pc = "shut" => conn # procs[p].sock

\* A socket that is published, about to be, or about to be written to has sent
\* the hello of the client's identity.
HelloSaid ==
    /\ conn # NoSock => helloId # NoId /\ socks[conn].hello = helloId
    /\ \A p \in Proc :
        /\ procs[p].pc = "publish" => socks[procs[p].sock].hello = helloId
        /\ procs[p].pc = "write" /\ socks[procs[p].sock].state = "up" =>
              helloId # NoId /\ socks[procs[p].sock].hello = helloId

ClientInv == /\ Scalars /\ CallerTypes /\ SocketTypes
             /\ CallersOK /\ OneDialer /\ OwnSocket
             /\ Accounted /\ HelloSaid /\ FramesFollowHello

-----------------------------------------------------------------------------
(* What a step does to the callers and the sockets.                        *)

Others(p) == procs' \in [Proc -> Caller] /\ \A q \in Proc \ {p} : procs'[q] = procs[q]

\* Caller p goes on to pc with socket s.
Moves(p, pc, s) ==
    /\ Others(p)
    /\ procs'[p].pc = pc /\ procs'[p].sock = s
    /\ procs'[p].op = procs[p].op /\ procs'[p].id = procs[p].id

\* Caller p returns.
Rests(p) ==
    /\ Others(p)
    /\ procs'[p].pc = "idle" /\ procs'[p].sock = NoSock
    /\ procs'[p].op \in {"ping", "register"}
    /\ writeMu' \in Proc \cup {NoProc}

\* Socket s is closed.
Shuts(s) ==
    /\ socks' \in [Sock -> Socket] /\ socks'[s].state = "shut"
    /\ \A t \in Sock \ {s} : socks'[t] = socks[t]

\* The sockets keep their ends and their hellos.
SameEnds ==
    /\ socks' \in [Sock -> Socket]
    /\ \A t \in Sock : socks'[t].state = socks[t].state /\ socks'[t].hello = socks[t].hello

PCs == {"idle", "connect", "close", "lock", "ensure", "cas", "drop", "dial", "hello",
        "publish", "undial", "reget", "write", "dead", "swap", "shut"}

\* Updating one caller keeps the table of callers.
LEMMA UpdateCaller ==
    ASSUME CallerTypes, NEW p \in Proc, NEW m \in Caller, procs' = [procs EXCEPT ![p] = m]
    PROVE  Others(p) /\ procs'[p] = m
BY DEF CallerTypes, Others

\* Goto and the assignments of a pc together with a socket.
LEMMA GotoMoves ==
    ASSUME CallerTypes, NEW p \in Proc, NEW pc \in PCs, NEW s \in Sock \cup {NoSock},
           procs' = [procs EXCEPT ![p].pc = pc, ![p].sock = s]
    PROVE  Moves(p, pc, s)
<1> DEFINE m == [procs[p] EXCEPT !.pc = pc, !.sock = s]
<1>1. procs[p] \in Caller
  BY DEF CallerTypes
<1>2. m \in Caller /\ m.pc = pc /\ m.sock = s /\ m.op = procs[p].op /\ m.id = procs[p].id
  BY <1>1 DEF Caller, PCs
<1>3. procs' = [procs EXCEPT ![p] = m]
  BY DEF CallerTypes
<1> HIDE DEF m
<1> QED
  BY <1>2, <1>3, UpdateCaller DEF Moves

\* Goto alone leaves the caller's socket.
LEMMA GotoKeeps ==
    ASSUME CallerTypes, NEW p \in Proc, NEW pc \in PCs, Goto(p, pc)
    PROVE  Moves(p, pc, procs[p].sock)
<1> DEFINE m == [procs[p] EXCEPT !.pc = pc]
<1>1. procs[p] \in Caller
  BY DEF CallerTypes
<1>2. m \in Caller /\ m.pc = pc /\ m.sock = procs[p].sock /\ m.op = procs[p].op
      /\ m.id = procs[p].id
  BY <1>1 DEF Caller, PCs
<1>3. procs' = [procs EXCEPT ![p] = m]
  BY DEF CallerTypes, Goto
<1> HIDE DEF m
<1> QED
  BY <1>2, <1>3, UpdateCaller DEF Moves

\* Return leaves an idle caller that holds no socket.
LEMMA ReturnRests ==
    ASSUME Scalars, CallerTypes, NEW p \in Proc, Return(p)
    PROVE  Rests(p)
<1>1. IdleProc \in Caller
  BY DEF IdleProc, Caller, Op
<1>2. procs' = [procs EXCEPT ![p] = IdleProc]
  BY DEF Return
<1>3. Others(p) /\ procs'[p] = IdleProc
  BY <1>1, <1>2, UpdateCaller
<1>4. writeMu' \in Proc \cup {NoProc}
  BY DEF Return, Scalars
<1> QED
  BY <1>3, <1>4 DEF Rests, IdleProc

\* dialAndHello without an error sends writeFrame back to c.conn.
LEMMA DialReturnsMoves ==
    ASSUME Scalars, CallerTypes, NEW p \in Proc, DialReturns(p, TRUE)
    PROVE  \/ Moves(p, "reget", procs[p].sock) /\ writeMu' = writeMu
           \/ Rests(p)
<1>1. CASE procs[p].op # "connect"
  BY <1>1, GotoKeeps DEF DialReturns, PCs
<1>2. CASE procs[p].op = "connect"
  BY <1>2, ReturnRests DEF DialReturns
<1> QED
  BY <1>1, <1>2

\* dialAndHello with an error ends the call.
LEMMA FailedDialRests ==
    ASSUME Scalars, CallerTypes, NEW p \in Proc, DialReturns(p, FALSE)
    PROVE  Rests(p)
BY ReturnRests DEF DialReturns

\* Closing a socket leaves the others alone.
LEMMA ShutShuts ==
    ASSUME SocketTypes, NEW s \in Sock, socks' = Shut(s)
    PROVE  Shuts(s)
<1> DEFINE x == [FreshSock EXCEPT !.state = "shut", !.reader = socks[s].reader]
<1>1. x \in Socket /\ x.state = "shut"
  BY DEF FreshSock, Socket, SocketTypes
<1>2. socks' = [socks EXCEPT ![s] = x]
  BY DEF Shut
<1> HIDE DEF x
<1> QED
  BY <1>1, <1>2 DEF Shuts, SocketTypes

\* A new call: only an explicit Connect counts against the bound, and it has an id.
LEMMA StartStep ==
    ASSUME ClientInv, NEW p \in Proc, NEW op \in Op, NEW id \in Id \cup {NoId},
           Start(p, op, id)
    PROVE  ClientInv'
<1> USE ClientAssumption DEF ClientInv
<1>a. procs[p] \in Caller
  BY DEF CallerTypes
<1>b. /\ op = "connect" => id \in Id /\ connects < MaxConnects
      /\ op \in {"connect", "close"} => p # Beat
  BY DEF Start, CallersOK
<1> DEFINE m == [pc |-> IF op \in {"connect", "close"} THEN op ELSE "lock",
                 op |-> op, id |-> id, sock |-> NoSock]
<1>c. m \in Caller /\ procs' = [procs EXCEPT ![p] = m]
  BY DEF Start, Caller, Op
<1>d. Others(p) /\ procs'[p] = m
  BY <1>c, UpdateCaller
<1>1. Scalars'
  BY <1>a, <1>b, <1>c, <1>d DEF Scalars, Start, Silent, Others
<1>2. CallerTypes'
  BY <1>a, <1>b, <1>c, <1>d DEF CallerTypes, Start, Silent, Others
<1>3. SocketTypes'
  BY <1>a, <1>b, <1>c, <1>d DEF SocketTypes, Start, Silent, Others
<1>4. CallersOK'
  BY <1>a, <1>b, <1>c, <1>d DEF CallersOK, NamedPC, DialPC, Start, Silent, Others
<1>5. OneDialer'
  BY <1>a, <1>b, <1>c, <1>d DEF OneDialer, DialPC, Start, Silent, Others
<1>6. OwnSocket'
  BY <1>a, <1>b, <1>c, <1>d DEF OwnSocket, OneDialer, DialPC, CallerTypes,
      Scalars, Start, Silent, Others
<1>7. Accounted'
  BY <1>a, <1>b, <1>c, <1>d DEF Accounted, Held, OneDialer, DialPC, Scalars,
      CallerTypes, Start, Silent, Others
<1>8. HelloSaid'
  BY <1>a, <1>b, <1>c, <1>d DEF HelloSaid, Caller, OneDialer, OwnSocket, DialPC,
      Scalars, CallerTypes, Start, Silent, Others
<1>9. FramesFollowHello'
  BY DEF FramesFollowHello, Start, Silent
<1> QED
  BY <1>1, <1>2, <1>3, <1>4, <1>5, <1>6, <1>7, <1>8, <1>9

\* Connect fixes the identity or meets the one it has.
LEMMA ConnectStep ==
    ASSUME ClientInv, NEW p \in Proc, Connect(p)
    PROVE  ClientInv'
<1> USE ClientAssumption DEF ClientInv
<1>a. \/ Rests(p) /\ helloId' = helloId
      \/ /\ helloId \in {NoId, procs[p].id} /\ helloId' = procs[p].id
         /\ Rests(p) \/ (Moves(p, "cas", procs[p].sock) /\ writeMu' = writeMu)
  <2>1. "cas" \in PCs
    BY DEF PCs
  <2>2. CASE helloId \notin {NoId, procs[p].id}
    BY <2>2, ReturnRests DEF Connect
  <2>3. CASE helloId \in {NoId, procs[p].id} /\ conn # NoSock
    BY <2>3, ReturnRests DEF Connect
  <2>4. CASE helloId \in {NoId, procs[p].id} /\ conn = NoSock
    BY <2>1, <2>4, GotoKeeps DEF Connect
  <2> QED
    BY <2>2, <2>3, <2>4
<1>1. Scalars'
  BY <1>a DEF Scalars, Connect, Silent, Moves, Rests, Others, CallerTypes, Caller
<1>2. CallerTypes'
  BY <1>a DEF CallerTypes, Connect, Silent, Moves, Rests, Others
<1>3. SocketTypes'
  BY <1>a DEF SocketTypes, Connect, Silent, Moves, Rests, Others
<1>4. CallersOK'
  BY <1>a DEF CallersOK, NamedPC, DialPC, Connect, Silent, Moves, Rests, Others
<1>5. OneDialer'
  BY <1>a DEF OneDialer, DialPC, Connect, Silent, Moves, Rests, Others
<1>6. OwnSocket'
  BY <1>a DEF OwnSocket, OneDialer, DialPC, CallerTypes, Scalars, Connect, Silent,
      Moves, Rests, Others
<1>7. Accounted'
  BY <1>a DEF Accounted, Held, OneDialer, DialPC, Scalars, CallerTypes, Connect,
      Silent, Moves, Rests, Others
<1>8. HelloSaid'
  BY <1>a DEF HelloSaid, Caller, OneDialer, OwnSocket, DialPC, Scalars,
      CallerTypes, Connect, Silent, Moves, Rests, Others
<1>9. FramesFollowHello'
  BY DEF FramesFollowHello, Connect, Silent
<1> QED
  BY <1>1, <1>2, <1>3, <1>4, <1>5, <1>6, <1>7, <1>8, <1>9

\* writeFrame captures the identity, or leaves with the wrong one.
LEMMA WriteFrameStep ==
    ASSUME ClientInv, NEW p \in Proc, WriteFrame(p)
    PROVE  ClientInv'
<1> USE ClientAssumption DEF ClientInv
<1>a. \/ Rests(p) /\ helloId' = helloId
      \/ /\ Moves(p, "ensure", procs[p].sock) /\ writeMu' = p
         /\ procs[p].id = NoId \/ helloId \in {NoId, procs[p].id}
         /\ helloId' = IF helloId = NoId THEN procs[p].id ELSE helloId
  BY ReturnRests, GotoKeeps DEF WriteFrame, PCs
<1>1. Scalars'
  BY <1>a DEF Scalars, WriteFrame, Silent, Moves, Rests, Others, CallerTypes,
      Caller
<1>2. CallerTypes'
  BY <1>a DEF CallerTypes, WriteFrame, Silent, Moves, Rests, Others
<1>3. SocketTypes'
  BY <1>a DEF SocketTypes, WriteFrame, Silent, Moves, Rests, Others
<1>4. CallersOK'
  BY <1>a DEF CallersOK, NamedPC, DialPC, WriteFrame, Silent, Moves, Rests, Others
<1>5. OneDialer'
  BY <1>a DEF OneDialer, DialPC, WriteFrame, Silent, Moves, Rests, Others
<1>6. OwnSocket'
  BY <1>a DEF OwnSocket, OneDialer, DialPC, CallerTypes, Scalars, WriteFrame,
      Silent, Moves, Rests, Others
<1>7. Accounted'
  BY <1>a DEF Accounted, Held, OneDialer, DialPC, Scalars, CallerTypes,
      WriteFrame, Silent, Moves, Rests, Others
<1>8. HelloSaid'
  BY <1>a DEF HelloSaid, Caller, OneDialer, OwnSocket, DialPC, Scalars,
      CallerTypes, WriteFrame, Silent, Moves, Rests, Others
<1>9. FramesFollowHello'
  BY DEF FramesFollowHello, WriteFrame, Silent
<1> QED
  BY <1>1, <1>2, <1>3, <1>4, <1>5, <1>6, <1>7, <1>8, <1>9

\* The socket writeFrame takes is c.conn, which said hello.
LEMMA EnsureConnStep ==
    ASSUME ClientInv, NEW p \in Proc, EnsureConn(p)
    PROVE  ClientInv'
<1> USE ClientAssumption DEF ClientInv
<1>a. Moves(p, IF conn # NoSock THEN "write" ELSE "cas", conn)
  BY GotoMoves DEF EnsureConn, PCs, Scalars
<1>1. Scalars'
  BY <1>a DEF Scalars, EnsureConn, Silent, Moves, Others
<1>2. CallerTypes'
  BY <1>a DEF CallerTypes, EnsureConn, Silent, Moves, Others
<1>3. SocketTypes'
  BY <1>a DEF SocketTypes, EnsureConn, Silent, Moves, Others
<1>4. CallersOK'
  BY <1>a DEF CallersOK, NamedPC, DialPC, EnsureConn, Silent, Moves, Others
<1>5. OneDialer'
  BY <1>a DEF OneDialer, DialPC, EnsureConn, Silent, Moves, Others
<1>6. OwnSocket'
  BY <1>a DEF OwnSocket, OneDialer, DialPC, CallerTypes, Scalars, EnsureConn,
      Silent, Moves, Others
<1>7. Accounted'
  BY <1>a DEF Accounted, Held, OneDialer, DialPC, Scalars, CallerTypes,
      EnsureConn, Silent, Moves, Others
<1>8. HelloSaid'
  BY <1>a DEF HelloSaid, Caller, OneDialer, OwnSocket, DialPC, Scalars,
      CallerTypes, EnsureConn, Silent, Moves, Others
<1>9. FramesFollowHello'
  BY DEF FramesFollowHello, EnsureConn, Silent
<1> QED
  BY <1>1, <1>2, <1>3, <1>4, <1>5, <1>6, <1>7, <1>8, <1>9

\* The winner of the CompareAndSwap is the only dialer.
LEMMA DialCASStep ==
    ASSUME ClientInv, NEW p \in Proc, DialCAS(p)
    PROVE  ClientInv'
<1> USE ClientAssumption DEF ClientInv
<1>a. \/ /\ dialing' = dialing
         /\ Rests(p) \/ (Moves(p, "reget", procs[p].sock) /\ writeMu' = writeMu)
      \/ /\ dialing = NoProc /\ dialing' = p
         /\ Moves(p, "drop", procs[p].sock) /\ writeMu' = writeMu
  <2>1. CASE dialing # NoProc
    BY <2>1, DialReturnsMoves, Zenon DEF DialCAS
  <2>2. CASE dialing = NoProc
    BY <2>2, GotoKeeps DEF DialCAS, PCs
  <2> QED
    BY <2>1, <2>2
<1>1. Scalars'
  BY <1>a DEF Scalars, DialCAS, Silent, Moves, Rests, Others
<1>2. CallerTypes'
  BY <1>a DEF CallerTypes, DialCAS, Silent, Moves, Rests, Others
<1>3. SocketTypes'
  BY <1>a DEF SocketTypes, DialCAS, Silent, Moves, Rests, Others
<1>4. CallersOK'
  BY <1>a DEF CallersOK, NamedPC, DialPC, DialCAS, Silent, Moves, Rests, Others
<1>5. OneDialer'
  BY <1>a DEF OneDialer, DialPC, DialCAS, Silent, Moves, Rests, Others
<1>6. OwnSocket'
  BY <1>a DEF OwnSocket, OneDialer, DialPC, CallerTypes, Scalars, DialCAS, Silent,
      Moves, Rests, Others
<1>7. Accounted'
  BY <1>a DEF Accounted, Held, OneDialer, DialPC, Scalars, CallerTypes, DialCAS,
      Silent, Moves, Rests, Others
<1>8. HelloSaid'
  BY <1>a DEF HelloSaid, Caller, OneDialer, OwnSocket, DialPC, Scalars,
      CallerTypes, DialCAS, Silent, Moves, Rests, Others
<1>9. FramesFollowHello'
  BY DEF FramesFollowHello, DialCAS, Silent
<1> QED
  BY <1>1, <1>2, <1>3, <1>4, <1>5, <1>6, <1>7, <1>8, <1>9

\* The dialer closes the connection it clears.
LEMMA DialDropStep ==
    ASSUME ClientInv, NEW p \in Proc, DialDrop(p)
    PROVE  ClientInv'
<1> USE ClientAssumption DEF ClientInv
<1>a. \/ dialing' = NoProc /\ Rests(p)
      \/ /\ helloId # NoId /\ dialing' = dialing
         /\ Moves(p, "dial", procs[p].sock) /\ writeMu' = writeMu
  BY FailedDialRests, GotoKeeps DEF DialDrop, PCs
<1>b. \/ conn \in Sock /\ Shuts(conn)
      \/ conn = NoSock /\ socks' = socks
  BY ShutShuts DEF DialDrop, Scalars
<1>1. Scalars'
  BY <1>a, <1>b DEF Scalars, DialDrop, Silent, Moves, Rests, Others, Shuts
<1>2. CallerTypes'
  BY <1>a, <1>b DEF CallerTypes, DialDrop, Silent, Moves, Rests, Others, Shuts
<1>3. SocketTypes'
  BY <1>a, <1>b DEF SocketTypes, DialDrop, Silent, Moves, Rests, Others, Shuts
<1>4. CallersOK'
  BY <1>a, <1>b DEF CallersOK, NamedPC, DialPC, DialDrop, Silent, Moves, Rests,
      Others, Shuts
<1>5. OneDialer'
  BY <1>a, <1>b DEF OneDialer, DialPC, DialDrop, Silent, Moves, Rests, Others,
      Shuts
<1>6. OwnSocket'
  BY <1>a, <1>b DEF OwnSocket, OneDialer, DialPC, CallerTypes, Scalars, DialDrop,
      Silent, Moves, Rests, Others, Shuts
<1>7. Accounted'
  BY <1>a, <1>b DEF Accounted, Held, OneDialer, DialPC, Scalars, CallerTypes,
      DialDrop, Silent, Moves, Rests, Others, Shuts
<1>8. HelloSaid'
  <2>1. SUFFICES ASSUME NEW q \in Proc \ {p}, procs[q].pc = "write",
                        socks'[procs[q].sock].state = "up"
                 PROVE  helloId # NoId /\ socks'[procs[q].sock].hello = helloId
    BY <1>a DEF HelloSaid, OneDialer, DialPC, DialDrop, Moves, Rests, Others
  <2>2. procs[q].sock \in Sock
    BY <2>1 DEF CallerTypes, Caller
  <2> QED
    BY <1>b, <2>1, <2>2 DEF Shuts, HelloSaid
<1>9. FramesFollowHello'
  BY DEF FramesFollowHello, DialDrop, Silent
<1> QED
  BY <1>1, <1>2, <1>3, <1>4, <1>5, <1>6, <1>7, <1>8, <1>9

\* The new socket is in nobody else's hands.
LEMMA DialStep ==
    ASSUME ClientInv, NEW p \in Proc, NEW s \in Sock, Dial(p, s)
    PROVE  ClientInv'
<1> USE ClientAssumption DEF ClientInv
<1>a. Moves(p, "hello", s)
  BY GotoMoves DEF Dial, PCs
<1>b. /\ socks' \in [Sock -> Socket] /\ socks'[s].state = "up"
      /\ \A t \in Sock \ {s} : socks'[t] = socks[t]
  BY DEF Dial, SocketTypes, Socket, FreshSock
<1>c. conn # s /\ \A q \in Proc : procs[q].sock # s
  BY DEF Dial, Unused
<1>1. Scalars'
  BY <1>a, <1>b, <1>c DEF Scalars, Dial, Silent, Moves, Others
<1>2. CallerTypes'
  BY <1>a, <1>b, <1>c DEF CallerTypes, Dial, Silent, Moves, Others
<1>3. SocketTypes'
  BY <1>a, <1>b, <1>c DEF SocketTypes, Dial, Silent, Moves, Others
<1>4. CallersOK'
  BY <1>a, <1>b, <1>c DEF CallersOK, NamedPC, DialPC, Dial, Silent, Moves, Others
<1>5. OneDialer'
  BY <1>a, <1>b, <1>c DEF OneDialer, DialPC, Dial, Silent, Moves, Others
<1>6. OwnSocket'
  BY <1>a, <1>b, <1>c DEF OwnSocket, OneDialer, DialPC, CallerTypes, Scalars,
      Dial, Silent, Moves, Others
<1>7. Accounted'
  BY <1>a, <1>b, <1>c DEF Accounted, Held, OneDialer, DialPC, Scalars,
      CallerTypes, Dial, Silent, Moves, Others
<1>8. HelloSaid'
  BY <1>a, <1>b, <1>c DEF HelloSaid, Caller, OneDialer, OwnSocket, DialPC,
      Scalars, CallerTypes, Dial, Silent, Moves, Others
<1>9. FramesFollowHello'
  BY DEF FramesFollowHello, Dial, Silent
<1> QED
  BY <1>1, <1>2, <1>3, <1>4, <1>5, <1>6, <1>7, <1>8, <1>9

\* A failed dial leaves no socket.
LEMMA DialErrorStep ==
    ASSUME ClientInv, NEW p \in Proc, DialError(p)
    PROVE  ClientInv'
<1> USE ClientAssumption DEF ClientInv
<1>a. Rests(p)
  BY FailedDialRests DEF DialError
<1>1. Scalars'
  BY <1>a DEF Scalars, DialError, Silent, Rests, Others
<1>2. CallerTypes'
  BY <1>a DEF CallerTypes, DialError, Silent, Rests, Others
<1>3. SocketTypes'
  BY <1>a DEF SocketTypes, DialError, Silent, Rests, Others
<1>4. CallersOK'
  BY <1>a DEF CallersOK, NamedPC, DialPC, DialError, Silent, Rests, Others
<1>5. OneDialer'
  BY <1>a DEF OneDialer, DialPC, DialError, Silent, Rests, Others
<1>6. OwnSocket'
  BY <1>a DEF OwnSocket, OneDialer, DialPC, CallerTypes, Scalars, DialError,
      Silent, Rests, Others
<1>7. Accounted'
  BY <1>a DEF Accounted, Held, OneDialer, DialPC, Scalars, CallerTypes, DialError,
      Silent, Rests, Others
<1>8. HelloSaid'
  BY <1>a DEF HelloSaid, Caller, OneDialer, OwnSocket, DialPC, Scalars,
      CallerTypes, DialError, Silent, Rests, Others
<1>9. FramesFollowHello'
  BY DEF FramesFollowHello, DialError, Silent
<1> QED
  BY <1>1, <1>2, <1>3, <1>4, <1>5, <1>6, <1>7, <1>8, <1>9

\* The dialer's socket says hello or is closed.
LEMMA HelloStep ==
    ASSUME ClientInv, NEW p \in Proc, Hello(p)
    PROVE  ClientInv'
<1> USE ClientAssumption DEF ClientInv
<1>a. procs[p].sock \in Sock
  BY DEF Hello, CallerTypes, Caller
<1>b. \/ /\ Moves(p, "publish", procs[p].sock) /\ dialing' = dialing /\ writeMu' = writeMu
         /\ socks' = [socks EXCEPT ![procs[p].sock].hello = helloId]
      \/ Rests(p) /\ dialing' = NoProc /\ Shuts(procs[p].sock)
  BY <1>a, FailedDialRests, ShutShuts, GotoKeeps DEF Hello, PCs
<1>c. \/ /\ Moves(p, "publish", procs[p].sock) /\ dialing' = dialing /\ writeMu' = writeMu
         /\ socks' \in [Sock -> Socket]
         /\ \A t \in Sock : socks'[t].state = socks[t].state
         /\ \A t \in Sock \ {procs[p].sock} : socks'[t] = socks[t]
         /\ socks'[procs[p].sock].hello = helloId
      \/ Rests(p) /\ dialing' = NoProc /\ Shuts(procs[p].sock)
  BY <1>a, <1>b DEF SocketTypes, Socket, Scalars
<1>1. Scalars'
  BY <1>a, <1>c DEF Scalars, Hello, Silent, Moves, Rests, Others, Shuts
<1>2. CallerTypes'
  BY <1>a, <1>c DEF CallerTypes, Hello, Silent, Moves, Rests, Others, Shuts
<1>3. SocketTypes'
  BY <1>a, <1>c DEF SocketTypes, Hello, Silent, Moves, Rests, Others, Shuts
<1>4. CallersOK'
  BY <1>a, <1>c DEF CallersOK, NamedPC, DialPC, Hello, Silent, Moves, Rests,
      Others, Shuts
<1>5. OneDialer'
  BY <1>a, <1>c DEF OneDialer, DialPC, Hello, Silent, Moves, Rests, Others, Shuts
<1>6. OwnSocket'
  BY <1>a, <1>c DEF OwnSocket, OneDialer, DialPC, CallerTypes, Scalars, Hello,
      Silent, Moves, Rests, Others, Shuts
<1>7. Accounted'
  BY <1>a, <1>c DEF Accounted, Held, OneDialer, DialPC, Scalars, CallerTypes,
      Hello, Silent, Moves, Rests, Others, Shuts
<1>8. HelloSaid'
  BY <1>a, <1>c DEF HelloSaid, Caller, OneDialer, OwnSocket, DialPC, Scalars,
      CallerTypes, Hello, Silent, Moves, Rests, Others, Shuts
<1>9. FramesFollowHello'
  BY DEF FramesFollowHello, Hello, Silent
<1> QED
  BY <1>1, <1>2, <1>3, <1>4, <1>5, <1>6, <1>7, <1>8, <1>9

\* Publishing finds c.conn empty, so no open socket is overwritten.
LEMMA PublishStep ==
    ASSUME ClientInv, NEW p \in Proc, Publish(p)
    PROVE  ClientInv'
<1> USE ClientAssumption DEF ClientInv
<1>a. Moves(p, "undial", procs[p].sock)
  BY GotoKeeps DEF Publish, PCs
<1>b. procs[p].sock \in Sock
  BY DEF Publish, CallerTypes, Caller
<1>c. SameEnds
  BY <1>b DEF Publish, SocketTypes, Socket, SameEnds
<1>1. Scalars'
  BY <1>a, <1>b, <1>c DEF Scalars, Publish, Silent, Moves, Others, SameEnds
<1>2. CallerTypes'
  BY <1>a, <1>b, <1>c DEF CallerTypes, Publish, Silent, Moves, Others, SameEnds
<1>3. SocketTypes'
  BY <1>a, <1>b, <1>c DEF SocketTypes, Publish, Silent, Moves, Others, SameEnds
<1>4. CallersOK'
  BY <1>a, <1>b, <1>c DEF CallersOK, NamedPC, DialPC, Publish, Silent, Moves,
      Others, SameEnds
<1>5. OneDialer'
  BY <1>a, <1>b, <1>c DEF OneDialer, DialPC, Publish, Silent, Moves, Others,
      SameEnds
<1>6. OwnSocket'
  BY <1>a, <1>b, <1>c DEF OwnSocket, OneDialer, DialPC, CallerTypes, Scalars,
      Publish, Silent, Moves, Others, SameEnds
<1>7. Accounted'
  BY <1>a, <1>b, <1>c DEF Accounted, Held, OneDialer, DialPC, Scalars,
      CallerTypes, Publish, Silent, Moves, Others, SameEnds
<1>8. HelloSaid'
  BY <1>a, <1>b, <1>c DEF HelloSaid, Caller, OneDialer, OwnSocket, DialPC,
      Scalars, CallerTypes, Publish, Silent, Moves, Others, SameEnds
<1>9. FramesFollowHello'
  BY DEF FramesFollowHello, Publish, Silent
<1> QED
  BY <1>1, <1>2, <1>3, <1>4, <1>5, <1>6, <1>7, <1>8, <1>9

\* The socket was published before `dialing` is reset.
LEMMA DialDoneStep ==
    ASSUME ClientInv, NEW p \in Proc, DialDone(p)
    PROVE  ClientInv'
<1> USE ClientAssumption DEF ClientInv
<1>a. Rests(p) \/ (Moves(p, "reget", procs[p].sock) /\ writeMu' = writeMu)
  BY DialReturnsMoves, Zenon DEF DialDone
<1>1. Scalars'
  BY <1>a DEF Scalars, DialDone, Silent, Moves, Rests, Others
<1>2. CallerTypes'
  BY <1>a DEF CallerTypes, DialDone, Silent, Moves, Rests, Others
<1>3. SocketTypes'
  BY <1>a DEF SocketTypes, DialDone, Silent, Moves, Rests, Others
<1>4. CallersOK'
  BY <1>a DEF CallersOK, NamedPC, DialPC, DialDone, Silent, Moves, Rests, Others
<1>5. OneDialer'
  BY <1>a DEF OneDialer, DialPC, DialDone, Silent, Moves, Rests, Others
<1>6. OwnSocket'
  BY <1>a DEF OwnSocket, OneDialer, DialPC, CallerTypes, Scalars, DialDone,
      Silent, Moves, Rests, Others
<1>7. Accounted'
  BY <1>a DEF Accounted, Held, OneDialer, DialPC, Scalars, CallerTypes, DialDone,
      Silent, Moves, Rests, Others
<1>8. HelloSaid'
  BY <1>a DEF HelloSaid, Caller, OneDialer, OwnSocket, DialPC, Scalars,
      CallerTypes, DialDone, Silent, Moves, Rests, Others
<1>9. FramesFollowHello'
  BY DEF FramesFollowHello, DialDone, Silent
<1> QED
  BY <1>1, <1>2, <1>3, <1>4, <1>5, <1>6, <1>7, <1>8, <1>9

\* The second look at c.conn.
LEMMA RegetStep ==
    ASSUME ClientInv, NEW p \in Proc, Reget(p)
    PROVE  ClientInv'
<1> USE ClientAssumption DEF ClientInv
<1>a. \/ conn = NoSock /\ Rests(p)
      \/ conn # NoSock /\ Moves(p, "write", conn) /\ writeMu' = writeMu
  BY ReturnRests, GotoMoves DEF Reget, PCs, Scalars
<1>1. Scalars'
  BY <1>a DEF Scalars, Reget, Silent, Moves, Rests, Others
<1>2. CallerTypes'
  BY <1>a DEF CallerTypes, Reget, Silent, Moves, Rests, Others
<1>3. SocketTypes'
  BY <1>a DEF SocketTypes, Reget, Silent, Moves, Rests, Others
<1>4. CallersOK'
  BY <1>a DEF CallersOK, NamedPC, DialPC, Reget, Silent, Moves, Rests, Others
<1>5. OneDialer'
  BY <1>a DEF OneDialer, DialPC, Reget, Silent, Moves, Rests, Others
<1>6. OwnSocket'
  BY <1>a DEF OwnSocket, OneDialer, DialPC, CallerTypes, Scalars, Reget, Silent,
      Moves, Rests, Others
<1>7. Accounted'
  BY <1>a DEF Accounted, Held, OneDialer, DialPC, Scalars, CallerTypes, Reget,
      Silent, Moves, Rests, Others
<1>8. HelloSaid'
  BY <1>a DEF HelloSaid, Caller, OneDialer, OwnSocket, DialPC, Scalars,
      CallerTypes, Reget, Silent, Moves, Rests, Others
<1>9. FramesFollowHello'
  BY DEF FramesFollowHello, Reget, Silent
<1> QED
  BY <1>1, <1>2, <1>3, <1>4, <1>5, <1>6, <1>7, <1>8, <1>9

\* The frame goes to the socket the caller looked up, closed or greeted.
LEMMA WriteStep ==
    ASSUME ClientInv, NEW p \in Proc, Write(p)
    PROVE  ClientInv'
<1> USE ClientAssumption DEF ClientInv
<1>a. PICK s \in Sock : procs[p].sock = s
  BY DEF Write, CallerTypes, Caller
<1>b. \/ Rests(p)
      \/ Moves(p, "swap", s) /\ writeMu' = NoProc
      \/ Moves(p, "dead", s) /\ writeMu' = writeMu
  <2>1. Return(p) \/ (Goto(p, "swap") /\ writeMu' = NoProc)
          \/ (Goto(p, "dead") /\ writeMu' = writeMu)
    BY Zenon DEF Write
  <2> QED
    BY <1>a, <2>1, ReturnRests, GotoKeeps DEF PCs
<1>c. SameEnds
  <2>1. CASE socks[s].state = "up"
    <3>1. PICK b \in BOOLEAN : socks' = [socks EXCEPT ![s].inbox = b]
      BY <1>a, <2>1, Zenon DEF Write
    <3> QED
      BY <3>1 DEF SocketTypes, Socket, SameEnds
  <2>2. CASE socks[s].state # "up"
    BY <1>a, <2>2 DEF Write, SocketTypes, SameEnds
  <2> QED
    BY <2>1, <2>2
<1>d. \/ /\ socks[s].state = "up" /\ wrote' = [sock |-> s, id |-> procs[p].id]
         /\ registered' \in BOOLEAN
      \/ wrote' = NoFrame /\ registered' = registered
  BY <1>a DEF Write, Silent
<1>1. Scalars'
  <2>1. procs[p].id \in Id \cup {NoId}
    BY DEF CallerTypes, Caller
  <2>2. wrote' \in [sock : Sock, id : Id \cup {NoId}] \cup {NoFrame} /\ registered' \in BOOLEAN
    BY <1>d, <2>1 DEF Scalars
  <2>3. writeMu' \in Proc \cup {NoProc}
    BY <1>b DEF Rests, Scalars
  <2> QED
    BY <2>2, <2>3, Zenon DEF Scalars, Write
<1>2. CallerTypes'
  BY <1>a, <1>b, <1>c, <1>d DEF CallerTypes, Write, Silent, Moves, Rests, Others,
      SameEnds
<1>3. SocketTypes'
  BY <1>a, <1>b, <1>c, <1>d DEF SocketTypes, Write, Silent, Moves, Rests, Others,
      SameEnds
<1>4. CallersOK'
  BY <1>a, <1>b, <1>c, <1>d DEF CallersOK, NamedPC, DialPC, Write, Silent, Moves,
      Rests, Others, SameEnds
<1>5. OneDialer'
  BY <1>a, <1>b, <1>c, <1>d DEF OneDialer, DialPC, Write, Silent, Moves, Rests,
      Others, SameEnds
<1>6. OwnSocket'
  BY <1>a, <1>b, <1>c, <1>d DEF OwnSocket, OneDialer, DialPC, CallerTypes,
      Scalars, Write, Silent, Moves, Rests, Others, SameEnds
<1>7. Accounted'
  BY <1>a, <1>b, <1>c, <1>d DEF Accounted, Held, OneDialer, DialPC, Scalars,
      CallerTypes, Write, Silent, Moves, Rests, Others, SameEnds
<1>8. HelloSaid'
  BY <1>a, <1>b, <1>c, <1>d DEF HelloSaid, Caller, OneDialer, OwnSocket, DialPC,
      Scalars, CallerTypes, Write, Silent, Moves, Rests, Others, SameEnds
<1>9. FramesFollowHello'
  BY <1>a, <1>b, <1>c, <1>d DEF FramesFollowHello, Write, Silent, Moves, Rests,
      Others, SameEnds, HelloSaid, CallersOK, NamedPC, CallerTypes, Caller
<1> QED
  BY <1>1, <1>2, <1>3, <1>4, <1>5, <1>6, <1>7, <1>8, <1>9

\* A refused frame leaves the socket to markConnDead.
LEMMA WriteRefusedStep ==
    ASSUME ClientInv, NEW p \in Proc, WriteRefused(p)
    PROVE  ClientInv'
<1> USE ClientAssumption DEF ClientInv
<1>a. Moves(p, "dead", procs[p].sock) /\ procs[p].sock \in Sock
  BY GotoKeeps DEF WriteRefused, PCs, CallerTypes, Caller
<1>1. Scalars'
  BY <1>a DEF Scalars, WriteRefused, Silent, Moves, Others
<1>2. CallerTypes'
  BY <1>a DEF CallerTypes, WriteRefused, Silent, Moves, Others
<1>3. SocketTypes'
  BY <1>a DEF SocketTypes, WriteRefused, Silent, Moves, Others
<1>4. CallersOK'
  BY <1>a DEF CallersOK, NamedPC, DialPC, WriteRefused, Silent, Moves, Others
<1>5. OneDialer'
  BY <1>a DEF OneDialer, DialPC, WriteRefused, Silent, Moves, Others
<1>6. OwnSocket'
  BY <1>a DEF OwnSocket, OneDialer, DialPC, CallerTypes, Scalars, WriteRefused, Silent,
      Moves, Others
<1>7. Accounted'
  BY <1>a DEF Accounted, Held, OneDialer, DialPC, Scalars, CallerTypes, WriteRefused,
      Silent, Moves, Others
<1>8. HelloSaid'
  BY <1>a DEF HelloSaid, Caller, OneDialer, OwnSocket, DialPC, Scalars,
      CallerTypes, WriteRefused, Silent, Moves, Others
<1>9. FramesFollowHello'
  BY DEF FramesFollowHello, WriteRefused, Silent
<1> QED
  BY <1>1, <1>2, <1>3, <1>4, <1>5, <1>6, <1>7, <1>8, <1>9

\* markConnDead after a failed write closes c.conn or nothing.
LEMMA WriteFailedStep ==
    ASSUME ClientInv, NEW p \in Proc, WriteFailed(p)
    PROVE  ClientInv'
<1> USE ClientAssumption DEF ClientInv
<1>a. Rests(p)
  BY ReturnRests DEF WriteFailed
<1>b. procs[p].sock \in Sock
  BY DEF WriteFailed, CallerTypes, Caller
<1>c. \/ conn = procs[p].sock /\ conn' = NoSock /\ Shuts(procs[p].sock)
      \/ conn # procs[p].sock /\ conn' = conn /\ socks' = socks
  BY <1>b, ShutShuts DEF WriteFailed, Undead, MarkConnDead
<1>1. Scalars'
  BY <1>a, <1>b, <1>c DEF Scalars, WriteFailed, Silent, Rests, Others, Shuts
<1>2. CallerTypes'
  BY <1>a, <1>b, <1>c DEF CallerTypes, WriteFailed, Silent, Rests, Others, Shuts
<1>3. SocketTypes'
  BY <1>a, <1>b, <1>c DEF SocketTypes, WriteFailed, Silent, Rests, Others, Shuts
<1>4. CallersOK'
  BY <1>a, <1>b, <1>c DEF CallersOK, NamedPC, DialPC, WriteFailed, Silent, Rests,
      Others, Shuts
<1>5. OneDialer'
  BY <1>a, <1>b, <1>c DEF OneDialer, DialPC, WriteFailed, Silent, Rests, Others,
      Shuts
<1>6. OwnSocket'
  BY <1>a, <1>b, <1>c DEF OwnSocket, OneDialer, DialPC, CallerTypes, Scalars,
      WriteFailed, Silent, Rests, Others, Shuts
<1>7. Accounted'
  BY <1>a, <1>b, <1>c DEF Accounted, Held, OneDialer, DialPC, Scalars,
      CallerTypes, WriteFailed, Silent, Rests, Others, Shuts
<1>8. HelloSaid'
  BY <1>a, <1>b, <1>c DEF HelloSaid, Caller, OneDialer, OwnSocket, DialPC,
      Scalars, CallerTypes, WriteFailed, Silent, Rests, Others, Shuts
<1>9. FramesFollowHello'
  BY DEF FramesFollowHello, WriteFailed, Silent
<1> QED
  BY <1>1, <1>2, <1>3, <1>4, <1>5, <1>6, <1>7, <1>8, <1>9

\* SendHeartbeat's return.
LEMMA SwapFlagStep ==
    ASSUME ClientInv, NEW p \in Proc, SwapFlag(p)
    PROVE  ClientInv'
<1> USE ClientAssumption DEF ClientInv
<1>a. PICK o \in {"ping", "register"} : procs' = [procs EXCEPT ![p] = [IdleProc EXCEPT !.op = o]]
  BY Zenon DEF SwapFlag
<1>b. [IdleProc EXCEPT !.op = o] \in Caller
  BY DEF IdleProc, Caller, Op
<1>c. Others(p) /\ procs'[p] = [IdleProc EXCEPT !.op = o]
  BY <1>a, <1>b, UpdateCaller
<1>d. Rests(p)
  BY <1>c DEF Rests, IdleProc, SwapFlag, Scalars
<1>1. Scalars'
  BY <1>a, <1>b, <1>c, <1>d DEF Scalars, SwapFlag, Silent, Rests, Others
<1>2. CallerTypes'
  BY <1>a, <1>b, <1>c, <1>d DEF CallerTypes, SwapFlag, Silent, Rests, Others
<1>3. SocketTypes'
  BY <1>a, <1>b, <1>c, <1>d DEF SocketTypes, SwapFlag, Silent, Rests, Others
<1>4. CallersOK'
  BY <1>a, <1>b, <1>c, <1>d DEF CallersOK, NamedPC, DialPC, SwapFlag, Silent,
      Rests, Others
<1>5. OneDialer'
  BY <1>a, <1>b, <1>c, <1>d DEF OneDialer, DialPC, SwapFlag, Silent, Rests, Others
<1>6. OwnSocket'
  BY <1>a, <1>b, <1>c, <1>d DEF OwnSocket, OneDialer, DialPC, CallerTypes,
      Scalars, SwapFlag, Silent, Rests, Others
<1>7. Accounted'
  BY <1>a, <1>b, <1>c, <1>d DEF Accounted, Held, OneDialer, DialPC, Scalars,
      CallerTypes, SwapFlag, Silent, Rests, Others
<1>8. HelloSaid'
  BY <1>a, <1>b, <1>c, <1>d DEF HelloSaid, Caller, OneDialer, OwnSocket, DialPC,
      Scalars, CallerTypes, SwapFlag, Silent, Rests, Others
<1>9. FramesFollowHello'
  BY DEF FramesFollowHello, SwapFlag, Silent
<1> QED
  BY <1>1, <1>2, <1>3, <1>4, <1>5, <1>6, <1>7, <1>8, <1>9

\* Close takes c.conn over to the goroutine that will close it.
LEMMA CloseStep ==
    ASSUME ClientInv, NEW p \in Proc, Close(p)
    PROVE  ClientInv'
<1> USE ClientAssumption DEF ClientInv
<1>a. \/ conn = NoSock /\ Rests(p)
      \/ conn # NoSock /\ Moves(p, "shut", conn) /\ writeMu' = writeMu
  BY ReturnRests, GotoMoves DEF Close, PCs, Scalars
<1>1. Scalars'
  BY <1>a DEF Scalars, Close, Silent, Moves, Rests, Others
<1>2. CallerTypes'
  BY <1>a DEF CallerTypes, Close, Silent, Moves, Rests, Others
<1>3. SocketTypes'
  BY <1>a DEF SocketTypes, Close, Silent, Moves, Rests, Others
<1>4. CallersOK'
  BY <1>a DEF CallersOK, NamedPC, DialPC, Close, Silent, Moves, Rests, Others
<1>5. OneDialer'
  BY <1>a DEF OneDialer, DialPC, Close, Silent, Moves, Rests, Others
<1>6. OwnSocket'
  BY <1>a DEF OwnSocket, OneDialer, DialPC, CallerTypes, Scalars, Close, Silent,
      Moves, Rests, Others
<1>7. Accounted'
  BY <1>a DEF Accounted, Held, OneDialer, DialPC, Scalars, CallerTypes, Close,
      Silent, Moves, Rests, Others
<1>8. HelloSaid'
  BY <1>a DEF HelloSaid, Caller, OneDialer, OwnSocket, DialPC, Scalars,
      CallerTypes, Close, Silent, Moves, Rests, Others
<1>9. FramesFollowHello'
  BY DEF FramesFollowHello, Close, Silent
<1> QED
  BY <1>1, <1>2, <1>3, <1>4, <1>5, <1>6, <1>7, <1>8, <1>9

\* The socket Close took is no longer c.conn.
LEMMA CloseConnStep ==
    ASSUME ClientInv, NEW p \in Proc, CloseConn(p)
    PROVE  ClientInv'
<1> USE ClientAssumption DEF ClientInv
<1>a. Rests(p)
  BY ReturnRests DEF CloseConn
<1>b. procs[p].sock \in Sock
  BY DEF CloseConn, CallerTypes, Caller
<1>c. Shuts(procs[p].sock)
  BY <1>b, ShutShuts DEF CloseConn
<1>1. Scalars'
  BY <1>a, <1>b, <1>c DEF Scalars, CloseConn, Silent, Rests, Others, Shuts
<1>2. CallerTypes'
  BY <1>a, <1>b, <1>c DEF CallerTypes, CloseConn, Silent, Rests, Others, Shuts
<1>3. SocketTypes'
  BY <1>a, <1>b, <1>c DEF SocketTypes, CloseConn, Silent, Rests, Others, Shuts
<1>4. CallersOK'
  BY <1>a, <1>b, <1>c DEF CallersOK, NamedPC, DialPC, CloseConn, Silent, Rests,
      Others, Shuts
<1>5. OneDialer'
  BY <1>a, <1>b, <1>c DEF OneDialer, DialPC, CloseConn, Silent, Rests, Others,
      Shuts
<1>6. OwnSocket'
  BY <1>a, <1>b, <1>c DEF OwnSocket, OneDialer, DialPC, CallerTypes, Scalars,
      CloseConn, Silent, Rests, Others, Shuts
<1>7. Accounted'
  BY <1>a, <1>b, <1>c DEF Accounted, Held, OneDialer, DialPC, Scalars,
      CallerTypes, CloseConn, Silent, Rests, Others, Shuts
<1>8. HelloSaid'
  BY <1>a, <1>b, <1>c DEF HelloSaid, Caller, OneDialer, OwnSocket, DialPC,
      Scalars, CallerTypes, CloseConn, Silent, Rests, Others, Shuts
<1>9. FramesFollowHello'
  BY DEF FramesFollowHello, CloseConn, Silent
<1> QED
  BY <1>1, <1>2, <1>3, <1>4, <1>5, <1>6, <1>7, <1>8, <1>9

\* The reader takes a message off its socket.
LEMMA ReadNeedRegisterStep ==
    ASSUME ClientInv, NEW s \in Sock, ReadNeedRegister(s)
    PROVE  ClientInv'
<1> USE ClientAssumption DEF ClientInv
<1>a. SameEnds
  BY DEF ReadNeedRegister, SocketTypes, Socket, SameEnds
<1>1. Scalars'
  BY <1>a DEF Scalars, ReadNeedRegister, Silent, SameEnds
<1>2. CallerTypes'
  BY <1>a DEF CallerTypes, ReadNeedRegister, Silent, SameEnds
<1>3. SocketTypes'
  BY <1>a DEF SocketTypes, ReadNeedRegister, Silent, SameEnds
<1>4. CallersOK'
  BY <1>a DEF CallersOK, NamedPC, DialPC, ReadNeedRegister, Silent, SameEnds
<1>5. OneDialer'
  BY <1>a DEF OneDialer, DialPC, ReadNeedRegister, Silent, SameEnds
<1>6. OwnSocket'
  BY <1>a DEF OwnSocket, OneDialer, DialPC, CallerTypes, Scalars,
      ReadNeedRegister, Silent, SameEnds
<1>7. Accounted'
  BY <1>a DEF Accounted, Held, OneDialer, DialPC, Scalars, CallerTypes,
      ReadNeedRegister, Silent, SameEnds
<1>8. HelloSaid'
  BY <1>a DEF HelloSaid, Caller, OneDialer, OwnSocket, DialPC, Scalars,
      CallerTypes, ReadNeedRegister, Silent, SameEnds
<1>9. FramesFollowHello'
  BY DEF FramesFollowHello, ReadNeedRegister, Silent
<1> QED
  BY <1>1, <1>2, <1>3, <1>4, <1>5, <1>6, <1>7, <1>8, <1>9

\* markConnDead after a read error closes c.conn or nothing.
LEMMA ReaderExitStep ==
    ASSUME ClientInv, NEW s \in Sock, ReaderExit(s)
    PROVE  ClientInv'
<1> USE ClientAssumption DEF ClientInv
<1>a. \/ conn = s /\ conn' = NoSock /\ socks' = [Shut(s) EXCEPT ![s].reader = "none"]
      \/ conn # s /\ conn' = conn /\ socks' = [socks EXCEPT ![s].reader = "none"]
  BY DEF ReaderExit, Undead, MarkConnDead
<1>b. \/ conn = s /\ conn' = NoSock /\ Shuts(s)
      \/ conn # s /\ conn' = conn /\ SameEnds
  <2>1. CASE conn = s
    <3>1. socks' = [socks EXCEPT ![s] = [FreshSock EXCEPT !.state = "shut", !.reader = "none"]]
      BY <1>a, <2>1 DEF Shut, SocketTypes, FreshSock
    <3>2. [FreshSock EXCEPT !.state = "shut", !.reader = "none"] \in Socket
      BY DEF Socket, FreshSock
    <3> QED
      BY <1>a, <2>1, <3>1, <3>2 DEF SocketTypes, Shuts, FreshSock
  <2>2. CASE conn # s
    BY <1>a, <2>2 DEF SocketTypes, Socket, SameEnds
  <2> QED
    BY <2>1, <2>2
<1>1. Scalars'
  BY <1>a, <1>b DEF Scalars, ReaderExit, Silent, Shuts, SameEnds
<1>2. CallerTypes'
  BY <1>a, <1>b DEF CallerTypes, ReaderExit, Silent, Shuts, SameEnds
<1>3. SocketTypes'
  BY <1>a, <1>b DEF SocketTypes, ReaderExit, Silent, Shuts, SameEnds
<1>4. CallersOK'
  BY <1>a, <1>b DEF CallersOK, NamedPC, DialPC, ReaderExit, Silent, Shuts,
      SameEnds
<1>5. OneDialer'
  BY <1>a, <1>b DEF OneDialer, DialPC, ReaderExit, Silent, Shuts, SameEnds
<1>6. OwnSocket'
  BY <1>a, <1>b DEF OwnSocket, OneDialer, DialPC, CallerTypes, Scalars,
      ReaderExit, Silent, Shuts, SameEnds
<1>7. Accounted'
  BY <1>a, <1>b DEF Accounted, Held, OneDialer, DialPC, Scalars, CallerTypes,
      ReaderExit, Silent, Shuts, SameEnds
<1>8. HelloSaid'
  BY <1>a, <1>b DEF HelloSaid, Caller, OneDialer, OwnSocket, DialPC, Scalars,
      CallerTypes, ReaderExit, Silent, Shuts, SameEnds
<1>9. FramesFollowHello'
  BY DEF FramesFollowHello, ReaderExit, Silent
<1> QED
  BY <1>1, <1>2, <1>3, <1>4, <1>5, <1>6, <1>7, <1>8, <1>9

\* The network breaks an open socket.
LEMMA BreakStep ==
    ASSUME ClientInv, NEW s \in Sock, Break(s)
    PROVE  ClientInv'
<1> USE ClientAssumption DEF ClientInv
<1>a. /\ socks' \in [Sock -> Socket] /\ socks'[s].state = "down"
      /\ socks'[s].hello = socks[s].hello
      /\ \A t \in Sock \ {s} : socks'[t] = socks[t]
  BY DEF Break, SocketTypes, Socket
<1>1. Scalars'
  BY <1>a DEF Scalars, Break, Silent
<1>2. CallerTypes'
  BY <1>a DEF CallerTypes, Break, Silent
<1>3. SocketTypes'
  BY <1>a DEF SocketTypes, Break, Silent
<1>4. CallersOK'
  BY <1>a DEF CallersOK, NamedPC, DialPC, Break, Silent
<1>5. OneDialer'
  BY <1>a DEF OneDialer, DialPC, Break, Silent
<1>6. OwnSocket'
  BY <1>a DEF OwnSocket, OneDialer, DialPC, CallerTypes, Scalars, Break, Silent
<1>7. Accounted'
  BY <1>a DEF Accounted, Held, OneDialer, DialPC, Scalars, CallerTypes, Break,
      Silent
<1>8. HelloSaid'
  BY <1>a DEF HelloSaid, Caller, OneDialer, OwnSocket, DialPC, Scalars,
      CallerTypes, Break, Silent
<1>9. FramesFollowHello'
  BY DEF FramesFollowHello, Break, Silent
<1> QED
  BY <1>1, <1>2, <1>3, <1>4, <1>5, <1>6, <1>7, <1>8, <1>9

\* The far end forgets the node.
LEMMA ForgetStep ==
    ASSUME ClientInv, Forget
    PROVE  ClientInv'
<1> USE ClientAssumption DEF ClientInv
<1>1. Scalars'
  <2>1. faults' \in 0..MaxFaults
    BY DEF Scalars, Forget
  <2> QED
    BY <2>1, Zenon DEF Scalars, Forget, Silent
<1>2. CallerTypes'
  BY DEF CallerTypes, Forget, Silent
<1>3. SocketTypes'
  BY DEF SocketTypes, Forget, Silent
<1>4. CallersOK'
  BY DEF CallersOK, NamedPC, DialPC, Forget, Silent
<1>5. OneDialer'
  BY DEF OneDialer, DialPC, Forget, Silent
<1>6. OwnSocket'
  BY DEF OwnSocket, OneDialer, DialPC, CallerTypes, Scalars, Forget, Silent
<1>7. Accounted'
  BY DEF Accounted, Held, OneDialer, DialPC, Scalars, CallerTypes, Forget, Silent
<1>8. HelloSaid'
  BY DEF HelloSaid, Caller, OneDialer, OwnSocket, DialPC, Scalars, CallerTypes,
      Forget, Silent
<1>9. FramesFollowHello'
  BY DEF FramesFollowHello, Forget, Silent
<1> QED
  BY <1>1, <1>2, <1>3, <1>4, <1>5, <1>6, <1>7, <1>8, <1>9

-----------------------------------------------------------------------------
(* The theorems.                                                           *)

\* The parts of the types are the types.
LEMMA TypeParts == TypeOK <=> Scalars /\ CallerTypes /\ SocketTypes
BY Zenon DEF TypeOK, Scalars, CallerTypes, SocketTypes

\* Every step keeps the invariant.
LEMMA ClientStep ==
    ASSUME ClientInv, [Next]_vars
    PROVE  ClientInv'
<1>1. CASE \E p \in Proc, op \in Op, id \in Id \cup {NoId} : Start(p, op, id)
  BY <1>1, StartStep
<1>2. CASE \E p \in Proc : Run(p) \/ DialError(p) \/ WriteRefused(p)
  <2>1. PICK p \in Proc : Run(p) \/ DialError(p) \/ WriteRefused(p)
    BY <1>2
  <2>2. CASE Connect(p) \/ WriteFrame(p) \/ EnsureConn(p) \/ DialCAS(p) \/ DialDrop(p)
    BY <2>2, ConnectStep, WriteFrameStep, EnsureConnStep, DialCASStep, DialDropStep
  <2>3. CASE \/ \E s \in Sock : Dial(p, s)
             \/ DialError(p) \/ Hello(p) \/ Publish(p) \/ DialDone(p)
    BY <2>3, DialStep, DialErrorStep, HelloStep, PublishStep, DialDoneStep
  <2>4. CASE Reget(p) \/ Write(p) \/ WriteRefused(p) \/ WriteFailed(p)
    BY <2>4, RegetStep, WriteStep, WriteRefusedStep, WriteFailedStep
  <2>5. CASE SwapFlag(p) \/ Close(p) \/ CloseConn(p)
    BY <2>5, SwapFlagStep, CloseStep, CloseConnStep
  <2> QED
    BY <2>1, <2>2, <2>3, <2>4, <2>5 DEF Run
<1>3. CASE \E s \in Sock : Reader(s) \/ Break(s)
  BY <1>3, ReadNeedRegisterStep, ReaderExitStep, BreakStep DEF Reader
<1>4. CASE Forget
  BY <1>4, ForgetStep
<1>5. CASE UNCHANGED vars
  <2>1. /\ Scalars' /\ CallerTypes' /\ SocketTypes' /\ CallersOK' /\ OneDialer'
        /\ OwnSocket' /\ HelloSaid' /\ FramesFollowHello'
    BY <1>5 DEF vars, ClientInv, Scalars, CallerTypes, SocketTypes, CallersOK, OneDialer,
       OwnSocket, HelloSaid, FramesFollowHello
  <2>2. Accounted'
    BY <1>5 DEF vars, ClientInv, Accounted, Held
  <2> QED
    BY <2>1, <2>2 DEF ClientInv
<1> QED
  BY <1>1, <1>2, <1>3, <1>4, <1>5 DEF Next

\* The client starts without sockets and with idle callers.
LEMMA ClientInit ==
    ASSUME Init
    PROVE  ClientInv
<1> USE ClientAssumption DEF Init
<1>1. Scalars
  <2>1. faults \in 0..MaxFaults /\ connects \in 0..MaxConnects
    OBVIOUS
  <2> QED
    BY <2>1, Zenon DEF Scalars
<1>2. CallerTypes /\ CallersOK
  BY DEF CallerTypes, Caller, CallersOK, IdleProc, Op, NamedPC, DialPC
<1>3. FreshSock \in Socket
  BY DEF FreshSock, Socket
<1>4. SocketTypes
  BY <1>3 DEF SocketTypes
<1>5. OneDialer /\ OwnSocket /\ HelloSaid /\ FramesFollowHello
  BY DEF OneDialer, OwnSocket, HelloSaid, FramesFollowHello, IdleProc, DialPC
<1>6. Accounted
  BY DEF Accounted, FreshSock
<1> QED
  BY <1>1, <1>2, <1>4, <1>5, <1>6 DEF ClientInv

\* The inductive invariant holds in every state the callers, the readers and
\* the network can reach.
THEOREM ClientInvariant == Spec => []ClientInv
<1>1. Init => ClientInv
  BY ClientInit
<1>2. ClientInv /\ [Next]_vars => ClientInv'
  BY ClientStep
<1> QED
  BY <1>1, <1>2, PTL DEF Spec

\* isannd_client.go's variables keep their types, and no caller reaches a
\* socket operation with a nil connection: ensureConn looks at c.conn again
\* after a dial that may have been someone else's.
THEOREM ClientTypesCorrect == Spec => []TypeOK
<1>1. ClientInv => TypeOK
  BY TypeParts DEF ClientInv
<1> QED
  BY <1>1, ClientInvariant, PTL

\* No socket leaks, however dials, closes, failed writes and reader exits
\* interleave: dialAndHello clears c.conn before it dials and only one
\* goroutine dials, so publishing a socket never overwrites an open one.
THEOREM NoLeakCorrect == Spec => []NoSocketLeak
<1>1. ClientInv => NoSocketLeak
  BY DEF ClientInv, NoSocketLeak, Accounted, Held, OneDialer, DialPC
<1> QED
  BY <1>1, ClientInvariant, PTL

\* Every frame follows the hello of its socket and is for the same node: the
\* socket is published after its hello, and writeFrame has compared the id.
THEOREM FramesCorrect == Spec => []FramesFollowHello
<1>1. ClientInv => FramesFollowHello
  BY DEF ClientInv
<1> QED
  BY <1>1, ClientInvariant, PTL
=============================================================================
