---------------------------- MODULE MarketProofs ----------------------------
(***************************************************************************)
(* Proofs about the market registry, for any requests, handlers, paths,     *)
(* versions and interleavings of their SQL statements.                      *)
(***************************************************************************)
EXTENDS Market, FoldLemmas

\* From the INSERT of an asset or of a version to the UPDATE, latest_version
\* may lag behind the versions.
Lagging == {"version", "scan", "update"}

\* TypeOK, and the versions of an asset can be listed.
Tables == TypeOK /\ IsFiniteSet(versions)

\* A handler is at a step of its own operation, has a status only when it is
\* done, and has an asset id from the statement that read or assigned it.
ProgramAt(r) ==
    LET h == reqs[r] IN
    /\ h.pc # "done" => h.status = "none"
    /\ h.pc # "idle" => h.req \in Request
    /\ h.pc \in {"select", "insert"} \cup Lagging => h.req.op = "push"
    /\ h.pc = "resolve" => h.req.op \in Write \ {"push"}
    /\ h.pc = "reread" => h.req.op \in Write
    /\ h.pc \in {"current", "write"} => h.req.op \in {"visibility", "price", "meta"}
    /\ h.pc = "delete" => h.req.op = "unpush"
    /\ h.pc \in {"latest", "body", "count"} => h.req.op = "install"
    /\ h.pc = "row" => h.req.op = "get"
    /\ h.pc = "list" => h.req.op \in {"get", "versions"}
    /\ h.pc \in {"idle", "select", "insert", "resolve"} => h.id = 0
    /\ h.pc \in Lagging \cup {"current", "write", "delete", "reread"} => h.id # 0
    /\ h.status = "201" => h.req.op = "push"

Program == \A r \in Req : ProgramAt(r)

\* AUTOINCREMENT: an asset id is given once, so a handler that has one can only
\* meet it in the row, the versions and the handlers of its own path.
RowIds ==
    /\ \A p \in Path : Exists(p) => assets[p].id \in 1..lastId
    /\ \A p, q \in Path : Exists(p) /\ Exists(q) /\ assets[p].id = assets[q].id => p = q
    /\ \A v \in versions : v.asset \in 1..lastId

HandlerIds ==
    /\ \A r \in Req : reqs[r].id \in 0..lastId
    /\ \A r \in Req, p \in Path :
          reqs[r].id # 0 /\ Exists(p) /\ assets[p].id = reqs[r].id => PathOf(r) = p
    /\ \A r, s \in Req :
          reqs[r].id # 0 /\ reqs[r].id = reqs[s].id => PathOf(r) = PathOf(s)

\* UNIQUE(asset_id, version): a version of an asset has one body, which no
\* statement replaces.
OneBody ==
    \A v, w \in versions : v.asset = w.asset /\ v.ver = w.ver => v = w

\* The row of an unswept push is the one it inserted or found, and from its
\* INSERT on the version is in the table.
Pushed(r) ==
    \/ reqs[r].pc \in Lagging
    \/ reqs[r].pc = "reread" /\ reqs[r].req.op = "push"
    \/ reqs[r].status = "201"

KeptBy(r) ==
    Pushed(r) /\ ~reqs[r].swept =>
        /\ Exists(PathOf(r)) /\ assets[PathOf(r)].id = reqs[r].id
        /\ reqs[r].pc # "version" =>
             [asset |-> reqs[r].id, ver |-> reqs[r].req.ver, body |-> reqs[r].req.body]
                \in versions

Kept == \A r \in Req : KeptBy(r)

\* PrivateReadGated, and GET meta gates on the visibility of the row it read.
GatedAt(r) ==
    /\ /\ reqs[r].pc = "count" \/ reqs[r].status = "200"
       /\ reqs[r].pc # "idle" /\ reqs[r].req.op \in {"install", "get"}
       /\ ~IsOwner(reqs[r].req)
       => reqs[r].read = "public"
    /\ reqs[r].pc = "list" /\ reqs[r].req.op = "get" => reqs[r].read = reqs[r].vis

Gated == \A r \in Req : GatedAt(r)

\* A write of path p is on its way in handler r.
Writes(r, p) == Running(r) /\ reqs[r].req.op \in Write /\ PathOf(r) = p

\* What the only running write of its path leaves to be done.
Owes(r) ==
    LET p == PathOf(r) IN
    /\ reqs[r].pc \notin Lagging => LatestOK(p)
    /\ reqs[r].pc \in Lagging => Exists(p) /\ assets[p].id = reqs[r].id
    /\ reqs[r].pc = "version" => LatestOK(p) \/ Visible(p) = {}
    /\ reqs[r].pc = "update" => reqs[r].ver = MaxVersion(Visible(p))

SerialAt(p) ==
    /\ \A r, s \in Req : Writes(r, p) /\ Writes(s, p) => r = s
    /\ (\A r \in Req : ~Writes(r, p)) => LatestOK(p)
    /\ \A r \in Req : Writes(r, p) => Owes(r)

\* LatestIsMaxSerial, strengthened by what holds between two statements.
Serial == \A p \in Path : clean[p] => SerialAt(p)

MarketInv == /\ Tables /\ Program /\ RowIds /\ HandlerIds /\ OneBody
             /\ Kept /\ Gated /\ PublishedItself /\ Serial

-----------------------------------------------------------------------------
(* Versions and requests.                                                  *)

\* The versions of an asset have a greatest one: that with the fewest above it.
LEMMA GreatestVersion ==
    ASSUME NEW vs, IsFiniteSet(vs), vs # {}, \A v \in vs : v.ver \in Nat
    PROVE  \E m \in vs : \A v \in vs : m.ver >= v.ver
<1> DEFINE Above(x) == {y \in vs : y.ver > x.ver}
           Counts == {Cardinality(Above(x)) : x \in vs}
<1>1. ASSUME NEW x \in vs
      PROVE  IsFiniteSet(Above(x)) /\ Cardinality(Above(x)) \in Nat
  <2>1. Above(x) \in SUBSET vs
    OBVIOUS
  <2>2. IsFiniteSet(Above(x))
    BY <2>1, FS_Subset
  <2> QED
    BY <2>2, FS_CardinalityType
<1>2. PICK m \in vs : \A v \in vs : Cardinality(Above(m)) <= Cardinality(Above(v))
  <2>1. Counts \in SUBSET Nat /\ Counts # {}
    BY <1>1
  <2>2. PICK c \in Counts : \A d \in Counts : c <= d
    BY <2>1, LeastNatural
  <2> QED
    BY <2>2
<1>3. ASSUME NEW v \in vs, ~(m.ver >= v.ver) PROVE FALSE
  <2>1. v \in Above(m) /\ Above(v) \subseteq Above(m) /\ v \notin Above(v)
    BY <1>3
  <2>2. Above(v) \in SUBSET Above(m) /\ Above(v) # Above(m)
    BY <2>1
  <2>3. IsFiniteSet(Above(m)) /\ Cardinality(Above(m)) \in Nat
        /\ Cardinality(Above(v)) \in Nat
    BY <1>1
  <2>4. Cardinality(Above(v)) < Cardinality(Above(m))
    BY <2>2, <2>3, FS_Subset
  <2>5. Cardinality(Above(m)) <= Cardinality(Above(v))
    BY <1>2
  <2> HIDE DEF Above
  <2> QED
    BY <2>3, <2>4, <2>5
<1> QED
  BY <1>3

\* refreshLatest's maximum is a version, or '' when there is none.
LEMMA MaxVersionType ==
    ASSUME NEW vs, IsFiniteSet(vs), \A v \in vs : v.ver \in Version
    PROVE  MaxVersion(vs) \in Version \cup {NoVersion}
<1>1. CASE vs = {}
  BY <1>1 DEF MaxVersion
<1>2. CASE vs # {}
  <2> DEFINE S == {v.ver : v \in vs}
  <2>1. PICK m \in vs : \A v \in vs : m.ver >= v.ver
    BY <1>2, GreatestVersion, MarketAssumption
  <2>2. m.ver \in S /\ \A n \in S : m.ver >= n
    BY <2>1
  <2>3. Max(S) \in S
    BY <2>2 DEF Max
  <2>4. S \subseteq Version
    OBVIOUS
  <2> QED
    BY <1>2, <2>3, <2>4 DEF MaxVersion
<1> QED
  BY <1>1, <1>2

\* The fields of a request.
LEMMA RequestFields ==
    ASSUME NEW q \in Request
    PROVE  /\ q.path \in Path
           /\ q.op \in Write \cup {"install", "get", "versions"}
           /\ q.op = "push" => q.ver \in Version /\ q.body \in Body
           /\ q.op = "visibility" => q.val \in Visibility
           /\ q.op = "price" => q.val \in Price
           /\ q.op = "meta" => q.val \in Edit
           /\ q.op \in {"install", "get", "versions"} => q.ver \in Version \cup {NoVersion}
<1>1. q \in PushReq \/ q \in PatchReq \/ q \in UnpushReq \/ q \in ReadReq
  BY MarketAssumption
<1>2. CASE q \in PushReq
  BY <1>2 DEF PushReq, Write
<1>3. CASE q \in PatchReq
  BY <1>3 DEF PatchReq, Patched, Write
<1>4. CASE q \in UnpushReq
  BY <1>4 DEF UnpushReq, Write
<1>5. CASE q \in ReadReq
  BY <1>5 DEF ReadReq, Write
<1> QED
  BY <1>1, <1>2, <1>3, <1>4, <1>5

-----------------------------------------------------------------------------
(* What a step does to the handlers.                                       *)

Others(r) == reqs' \in [Req -> Handler] /\ \A s \in Req \ {r} : reqs'[s] = reqs[s]

\* Handler r goes on with its request; an id it gets is that of its path's row.
Continues(r) ==
    /\ Others(r)
    /\ Running(r) /\ reqs'[r].pc # "idle"
    /\ reqs'[r].req = reqs[r].req /\ reqs'[r].swept = reqs[r].swept

Sets(r, pc, id) ==
    /\ Continues(r)
    /\ reqs'[r].pc = pc /\ reqs'[r].id = id /\ reqs'[r].status = reqs[r].status

\* The fields that only reads use stay.
KeepsRead(r) ==
    reqs'[r].ver = reqs[r].ver /\ reqs'[r].vis = reqs[r].vis /\ reqs'[r].read = reqs[r].read

Answers(r, status) ==
    /\ Continues(r) /\ KeepsRead(r)
    /\ reqs'[r].pc = "done" /\ reqs'[r].id = reqs[r].id /\ reqs'[r].status = status

\* Updating one handler keeps the table of handlers.
LEMMA UpdateHandler ==
    ASSUME TypeOK, NEW r \in Req, NEW h \in Handler, reqs' = [reqs EXCEPT ![r] = h]
    PROVE  Others(r) /\ reqs'[r] = h
BY DEF TypeOK, Others

\* A running handler has a request.
LEMMA HasRequest ==
    ASSUME Tables, Program, NEW r \in Req, reqs[r].pc # "idle"
    PROVE  reqs[r] \in Handler /\ reqs[r].req \in Request /\ PathOf(r) \in Path
<1>1. reqs[r] \in Handler /\ reqs[r].req \in Request
  BY DEF Tables, TypeOK, Program, ProgramAt
<1> QED
  BY <1>1, RequestFields DEF PathOf

PCs == {"idle", "select", "insert", "version", "scan", "update", "reread", "resolve",
        "current", "write", "delete", "latest", "body", "count", "row", "list", "done"}

\* Goto.
LEMMA GotoSets ==
    ASSUME Tables, NEW r \in Req, Running(r), NEW pc \in PCs \ {"idle"}, Goto(r, pc)
    PROVE  Sets(r, pc, reqs[r].id) /\ KeepsRead(r)
<1> DEFINE h == [reqs[r] EXCEPT !.pc = pc]
<1>1. reqs[r] \in Handler
  BY DEF Tables, TypeOK
<1>2. /\ h \in Handler /\ h.pc = pc /\ h.req = reqs[r].req /\ h.swept = reqs[r].swept
      /\ h.id = reqs[r].id /\ h.status = reqs[r].status /\ h.ver = reqs[r].ver
      /\ h.vis = reqs[r].vis /\ h.read = reqs[r].read
  BY <1>1 DEF Handler, PCs
<1>3. reqs' = [reqs EXCEPT ![r] = h]
  BY DEF Goto, Tables, TypeOK
<1> HIDE DEF h
<1>4. Others(r) /\ reqs'[r] = h
  BY <1>2, <1>3, UpdateHandler DEF Tables
<1> QED
  BY <1>2, <1>4 DEF Sets, Continues, KeepsRead

\* Goto together with the id that a statement returned.
LEMMA GotoSetsId ==
    ASSUME Tables, NEW r \in Req, Running(r), NEW pc \in PCs \ {"idle"}, NEW id \in Nat,
           reqs' = [reqs EXCEPT ![r].pc = pc, ![r].id = id]
    PROVE  Sets(r, pc, id) /\ KeepsRead(r)
<1> DEFINE h == [reqs[r] EXCEPT !.pc = pc, !.id = id]
<1>1. reqs[r] \in Handler
  BY DEF Tables, TypeOK
<1>2. /\ h \in Handler /\ h.pc = pc /\ h.req = reqs[r].req /\ h.swept = reqs[r].swept
      /\ h.id = id /\ h.status = reqs[r].status /\ h.ver = reqs[r].ver
      /\ h.vis = reqs[r].vis /\ h.read = reqs[r].read
  BY <1>1 DEF Handler, PCs
<1>3. reqs' = [reqs EXCEPT ![r] = h]
  BY DEF Tables, TypeOK
<1> HIDE DEF h
<1>4. Others(r) /\ reqs'[r] = h
  BY <1>2, <1>3, UpdateHandler DEF Tables
<1> QED
  BY <1>2, <1>4 DEF Sets, Continues, KeepsRead

Statuses == {"none", "200", "201", "400", "401", "404", "409", "500", "skip"}

\* A response.
LEMMA AnswerAnswers ==
    ASSUME Tables, NEW r \in Req, Running(r), NEW st \in Statuses, Answer(r, st)
    PROVE  Answers(r, st)
<1> DEFINE h == [reqs[r] EXCEPT !.pc = "done", !.status = st]
<1>1. reqs[r] \in Handler
  BY DEF Tables, TypeOK
<1>2. /\ h \in Handler /\ h.pc = "done" /\ h.req = reqs[r].req /\ h.swept = reqs[r].swept
      /\ h.id = reqs[r].id /\ h.status = st /\ h.ver = reqs[r].ver
      /\ h.vis = reqs[r].vis /\ h.read = reqs[r].read
  BY <1>1 DEF Handler, Statuses
<1>3. reqs' = [reqs EXCEPT ![r] = h]
  BY DEF Answer, Tables, TypeOK
<1> HIDE DEF h
<1>4. Others(r) /\ reqs'[r] = h
  BY <1>2, <1>3, UpdateHandler DEF Tables
<1> QED
  BY <1>2, <1>4 DEF Answers, Continues, KeepsRead

\* A response that lists versions.
LEMMA ListAnswers ==
    ASSUME Tables, NEW r \in Req, Running(r), NEW st \in Statuses, NEW vis \in Visibility,
           reqs' = [reqs EXCEPT ![r].pc = "done", ![r].status = st, ![r].listed = vis]
    PROVE  Answers(r, st)
<1> DEFINE h == [reqs[r] EXCEPT !.pc = "done", !.status = st, !.listed = vis]
<1>1. reqs[r] \in Handler
  BY DEF Tables, TypeOK
<1>2. /\ h \in Handler /\ h.pc = "done" /\ h.req = reqs[r].req /\ h.swept = reqs[r].swept
      /\ h.id = reqs[r].id /\ h.status = st /\ h.ver = reqs[r].ver
      /\ h.vis = reqs[r].vis /\ h.read = reqs[r].read
  BY <1>1 DEF Handler, Statuses
<1>3. reqs' = [reqs EXCEPT ![r] = h]
  BY DEF Tables, TypeOK
<1> HIDE DEF h
<1>4. Others(r) /\ reqs'[r] = h
  BY <1>2, <1>3, UpdateHandler DEF Tables
<1> QED
  BY <1>2, <1>4 DEF Answers, Continues, KeepsRead

-----------------------------------------------------------------------------
(* What is left of the invariant when one handler goes on.                 *)

\* The rows of assets stay, with their ids (and the versions).
SameIds ==
    /\ assets' \in [Path -> Row \cup {NoRow}] /\ lastId' = lastId
    /\ \A p \in Path : Exists(p) => Exists(p)' /\ assets'[p].id = assets[p].id
    /\ \A p \in Path : Exists(p)' => Exists(p)

SameRows == SameIds /\ versions' = versions

\* An id that a handler gets is that of its path's row.
IdFromRow(r) ==
    \/ reqs'[r].id = reqs[r].id
    \/ reqs[r].id = 0 /\ Exists(PathOf(r)) /\ reqs'[r].id = assets[PathOf(r)].id

\* Unchanged tables.
LEMMA SameTables ==
    ASSUME TypeOK, UNCHANGED <<assets, versions, lastId>>
    PROVE  /\ SameRows
           /\ \A p \in Path : /\ assets'[p] = assets[p] /\ Visible(p)' = Visible(p)
                              /\ LatestOK(p) => LatestOK(p)'
                              /\ LatestOK(p)' => LatestOK(p)
BY DEF TypeOK, SameRows, SameIds, Exists, Visible, OfAsset, LatestOK

\* A handler that gets the id of its path's row: ids stay with their paths.
LEMMA QuietHandlers ==
    ASSUME Tables, Program, RowIds, HandlerIds, NEW r \in Req,
           Continues(r), SameIds, IdFromRow(r)
    PROVE  HandlerIds'
<1>2. PathOf(r)' = PathOf(r) /\ PathOf(r) \in Path
  BY HasRequest DEF PathOf, Continues, Running
<1>3. \A s \in Req \ {r} : reqs'[s].id = reqs[s].id /\ PathOf(s)' = PathOf(s)
  BY DEF Continues, Others, PathOf
<1>4. reqs'[r].id \in 0..lastId
  BY <1>2 DEF IdFromRow, HandlerIds, RowIds
<1>5. \A s \in Req : reqs'[s].id \in 0..lastId'
  BY <1>3, <1>4 DEF HandlerIds, SameIds
<1>6. ASSUME NEW s \in Req, NEW p \in Path, reqs'[s].id # 0, Exists(p)',
             assets'[p].id = reqs'[s].id
      PROVE  PathOf(s)' = p
  <2>1. Exists(p) /\ assets[p].id = reqs'[s].id
    BY <1>6 DEF SameIds
  <2>2. CASE s # r
    BY <1>3, <1>6, <2>1, <2>2 DEF HandlerIds
  <2>3. CASE s = r
    BY <1>2, <1>6, <2>1, <2>3 DEF HandlerIds, RowIds, IdFromRow
  <2> QED
    BY <2>2, <2>3
<1>7. ASSUME NEW s \in Req, NEW t \in Req, reqs'[s].id # 0, reqs'[s].id = reqs'[t].id
      PROVE  PathOf(s)' = PathOf(t)'
  BY <1>2, <1>3, <1>7 DEF HandlerIds, IdFromRow
<1> QED
  BY <1>5, <1>6, <1>7 DEF HandlerIds

\* The same with unchanged versions.
LEMMA QuietIds ==
    ASSUME Tables, Program, RowIds, HandlerIds, OneBody, NEW r \in Req,
           Continues(r), SameRows, IdFromRow(r)
    PROVE  RowIds' /\ HandlerIds' /\ OneBody'
<1>1. RowIds' /\ OneBody'
  BY DEF RowIds, OneBody, SameRows, SameIds
<1> QED
  BY <1>1, QuietHandlers DEF SameRows

\* A step that removes no row and no version keeps the pushes of the others.
LEMMA QuietKept ==
    ASSUME Tables, Program, Kept, NEW r \in Req, Continues(r), SameRows, KeptBy(r)'
    PROVE  Kept'
<1>1. SUFFICES ASSUME NEW s \in Req \ {r}, Pushed(s)', ~reqs'[s].swept
               PROVE  KeptBy(s)'
  BY DEF Kept, KeptBy
<1>2. reqs'[s] = reqs[s] /\ PathOf(s)' = PathOf(s) /\ Pushed(s)
  BY <1>1 DEF Continues, Others, PathOf, Pushed
<1>3. KeptBy(s) /\ ~reqs[s].swept
  BY <1>1, <1>2 DEF Kept
<1>4. PathOf(s) \in Path
  BY <1>2, HasRequest DEF Pushed, Lagging, Program, ProgramAt
<1> QED
  BY <1>2, <1>3, <1>4 DEF KeptBy, SameRows, SameIds

\* A published row keeps its publisher.
PublishedBy(s, p) ==
    /\ reqs[s].pc # "idle" /\ PathOf(s) = p
    /\ reqs[s].req.op = "visibility" /\ reqs[s].req.val = "public"
    /\ reqs[s].id = assets[p].id

\* The request that published a row keeps the id it resolved.
LEMMA PublisherStays ==
    ASSUME RowIds, PublishedItself, NEW r \in Req, Continues(r), SameIds, IdFromRow(r),
           NEW p \in Path, Exists(p), assets[p].vis = "public"
    PROVE  \E s \in Req : PublishedBy(s, p)'
<1>1. PICK s \in Req : PublishedBy(s, p)
  BY DEF PublishedItself, PublishedBy
<1>2. assets[p].id # 0 /\ assets'[p].id = assets[p].id
  BY DEF RowIds, SameIds
<1>3. reqs'[s].pc # "idle" /\ reqs'[s].req = reqs[s].req /\ reqs'[s].id = reqs[s].id
  BY <1>1, <1>2 DEF PublishedBy, Continues, Others, IdFromRow
<1> QED
  BY <1>1, <1>2, <1>3 DEF PublishedBy, PathOf

\* A step that publishes nothing.
LEMMA QuietPublished ==
    ASSUME RowIds, PublishedItself, NEW r \in Req, Continues(r), SameIds, IdFromRow(r),
           \A p \in Path : Exists(p) /\ assets'[p].vis = "public" => assets[p].vis = "public"
    PROVE  PublishedItself'
<1>1. SUFFICES ASSUME NEW p \in Path, Exists(p)', assets'[p].vis = "public"
               PROVE  \E s \in Req : PublishedBy(s, p)'
  BY DEF PublishedItself, PublishedBy
<1>2. Exists(p) /\ assets[p].vis = "public"
  BY <1>1 DEF SameIds
<1> QED
  BY <1>2, PublisherStays

\* The write that goes on pays what it owes; nothing of other paths moves.
LEMMA SerialStep ==
    ASSUME Serial, NEW r \in Req, NEW path \in Path, PathOf(r) = path,
           Running(r), reqs'[r].pc # "idle", reqs'[r].req = reqs[r].req,
           \A s \in Req \ {r} : /\ reqs'[s].pc = reqs[s].pc /\ reqs'[s].req = reqs[s].req
                                /\ reqs'[s].id = reqs[s].id /\ reqs'[s].ver = reqs[s].ver,
           \A p \in Path : clean'[p] => clean[p],
           \A p \in Path \ {path} : assets'[p] = assets[p] /\ Visible(p)' = Visible(p),
           \/ /\ reqs[r].req.op \notin Write
              /\ Visible(path)' = Visible(path) /\ (LatestOK(path) => LatestOK(path)')
              /\ Exists(path) => Exists(path)' /\ assets'[path].id = assets[path].id
           \/ /\ reqs[r].req.op \in Write
              /\ clean'[path] => IF reqs'[r].pc = "done" THEN LatestOK(path)' ELSE Owes(r)'
    PROVE  Serial'
<1>1. SUFFICES ASSUME NEW p \in Path, clean'[p] PROVE SerialAt(p)'
  BY DEF Serial
<1>2. SerialAt(p)
  BY <1>1 DEF Serial
<1>3. PathOf(r)' = PathOf(r) /\ \A s \in Req \ {r} : PathOf(s)' = PathOf(s)
  BY DEF PathOf
<1>4. \A s \in Req : Writes(s, p)' => Writes(s, p)
  BY <1>3 DEF Writes, Running
<1>5. \A s \in Req \ {r} : Writes(s, p) => Writes(s, p)'
  BY <1>3 DEF Writes, Running
<1>6. \A s, t \in Req : Writes(s, p)' /\ Writes(t, p)' => s = t
  BY <1>2, <1>4 DEF SerialAt
<1>7. CASE p # path \/ reqs[r].req.op \notin Write
  <2>1. /\ Visible(p)' = Visible(p) /\ (LatestOK(p) => LatestOK(p)')
        /\ Exists(p) => Exists(p)' /\ assets'[p].id = assets[p].id
    BY <1>7 DEF LatestOK, Exists
  <2>2. ~Writes(r, p)
    BY <1>7 DEF Writes
  <2>3. ASSUME NEW s \in Req, Writes(s, p)' PROVE Owes(s)'
    <3>1. s # r /\ Owes(s) /\ PathOf(s) = p
      BY <1>2, <1>4, <2>2, <2>3 DEF SerialAt, Writes
    <3>2. reqs'[s].pc = reqs[s].pc /\ reqs'[s].id = reqs[s].id /\ reqs'[s].ver = reqs[s].ver
          /\ PathOf(s)' = p
      BY <1>3, <3>1
    <3>3. MaxVersion(Visible(p)') = MaxVersion(Visible(p))
      BY <2>1
    <3> QED
      BY <2>1, <3>1, <3>2, <3>3 DEF Owes
  <2>4. (\A s \in Req : ~Writes(s, p)') => LatestOK(p)'
    BY <1>2, <1>5, <2>1, <2>2 DEF SerialAt
  <2> QED
    BY <1>6, <2>3, <2>4 DEF SerialAt
<1>8. CASE p = path /\ reqs[r].req.op \in Write
  <2>1. Writes(r, p)
    BY <1>8 DEF Writes
  <2>2. \A s \in Req : Writes(s, p)' => s = r
    BY <1>2, <1>4, <2>1 DEF SerialAt
  <2>3. Writes(r, p)' <=> reqs'[r].pc # "done"
    BY <1>3, <1>8 DEF Writes, Running
  <2> QED
    BY <1>1, <1>6, <1>8, <2>2, <2>3 DEF SerialAt
<1> QED
  BY <1>7, <1>8

\* The handlers' own parts of the invariant.
LEMMA QuietAt ==
    ASSUME Program, Gated, NEW r \in Req, Others(r), ProgramAt(r)', GatedAt(r)'
    PROVE  Program' /\ Gated'
BY DEF Program, Gated, ProgramAt, GatedAt, Others

\* A statement that changes no table.
LEMMA QuietStep ==
    ASSUME MarketInv, NEW r \in Req, UNCHANGED <<assets, versions, lastId>>,
           Continues(r), IdFromRow(r),
           clean' \in [Path -> BOOLEAN], \A p \in Path : clean'[p] => clean[p],
           ProgramAt(r)', KeptBy(r)', GatedAt(r)',
           reqs[r].req.op \in Write /\ clean'[PathOf(r)] =>
              IF reqs'[r].pc = "done" THEN LatestOK(PathOf(r)) ELSE Owes(r)'
    PROVE  MarketInv'
<1> USE DEF MarketInv
<1>1. /\ SameRows
      /\ \A p \in Path : /\ assets'[p] = assets[p] /\ Visible(p)' = Visible(p)
                         /\ LatestOK(p) => LatestOK(p)'
                         /\ LatestOK(p)' => LatestOK(p)
  BY SameTables DEF Tables
<1>2. Tables'
  BY DEF Tables, TypeOK, Continues, Others
<1>3. Program' /\ Gated'
  BY QuietAt DEF Continues
<1>4. RowIds' /\ HandlerIds' /\ OneBody'
  BY <1>1, QuietIds
<1>5. Kept'
  BY <1>1, QuietKept
<1>6. PublishedItself'
  BY <1>1, QuietPublished DEF SameRows
<1>7. Serial'
  <2>1. PICK path \in Path : PathOf(r) = path
    BY HasRequest DEF Continues, Running
  <2>2. /\ Running(r) /\ reqs'[r].pc # "idle" /\ reqs'[r].req = reqs[r].req
        /\ \A s \in Req \ {r} : reqs'[s] = reqs[s]
    BY DEF Continues, Others
  <2>3. /\ Visible(path)' = Visible(path) /\ (LatestOK(path) => LatestOK(path)')
        /\ Exists(path) => Exists(path)' /\ assets'[path].id = assets[path].id
    BY <1>1 DEF SameRows, SameIds
  <2>4. \A p \in Path \ {path} : assets'[p] = assets[p] /\ Visible(p)' = Visible(p)
    BY <1>1
  <2>5. reqs[r].req.op \in Write /\ clean'[path] =>
           IF reqs'[r].pc = "done" THEN LatestOK(path)' ELSE Owes(r)'
    BY <2>1, <2>3
  <2> QED
    BY <2>1, <2>2, <2>3, <2>4, <2>5, SerialStep
<1> QED
  BY <1>2, <1>3, <1>4, <1>5, <1>6, <1>7

\* The only running write of a path whose writes were serial.
LEMMA OwesNow ==
    ASSUME MarketInv, NEW r \in Req, Running(r), reqs[r].req.op \in Write, clean[PathOf(r)]
    PROVE  Owes(r)
<1>1. PathOf(r) \in Path
  BY HasRequest DEF MarketInv, Running
<1> QED
  BY <1>1 DEF MarketInv, Serial, SerialAt, Writes

\* A response: the push it acknowledges is kept, what it reveals was gated, and
\* latest_version does not lag when it ends a serial write.
LEMMA AnswerStep ==
    ASSUME MarketInv, NEW r \in Req, NEW st \in Statuses, UNCHANGED <<assets, versions, lastId>>,
           Answers(r, st), st # "none",
           clean' \in [Path -> BOOLEAN], \A p \in Path : clean'[p] => clean[p],
           st = "201" => reqs[r].pc = "reread" /\ reqs[r].req.op = "push",
           st = "200" /\ reqs[r].req.op \in {"install", "get"} /\ ~IsOwner(reqs[r].req) =>
              reqs[r].read = "public",
           reqs[r].req.op \in Write /\ clean'[PathOf(r)] =>
              reqs[r].pc \notin Lagging \/ LatestOK(PathOf(r))
    PROVE  MarketInv'
<1>1. Continues(r) /\ IdFromRow(r)
  BY DEF Answers, IdFromRow
<1>2. /\ reqs'[r].pc = "done" /\ reqs'[r].id = reqs[r].id /\ reqs'[r].status = st
      /\ reqs'[r].req = reqs[r].req /\ reqs'[r].swept = reqs[r].swept
      /\ reqs'[r].read = reqs[r].read
  BY DEF Answers, Continues, KeepsRead
<1>3. Running(r) /\ ProgramAt(r) /\ KeptBy(r) /\ PathOf(r) \in Path
  BY HasRequest DEF MarketInv, Program, Kept, Answers, Continues, Running
<1>4. ProgramAt(r)'
  BY <1>2, <1>3 DEF ProgramAt, Running, Lagging
<1>5. KeptBy(r)'
  BY <1>2, <1>3 DEF KeptBy, Pushed, Lagging, PathOf, Exists
<1>6. GatedAt(r)'
  BY <1>2 DEF GatedAt, IsOwner
<1>7. ASSUME reqs[r].req.op \in Write, clean'[PathOf(r)] PROVE LatestOK(PathOf(r))
  BY <1>3, <1>7, OwesNow DEF Owes
<1> QED
  BY <1>1, <1>2, <1>4, <1>5, <1>6, <1>7, QuietStep

-----------------------------------------------------------------------------
(* The statements that change no table.                                    *)

\* What is known of a handler at one of its steps.
LEMMA AtStep ==
    ASSUME MarketInv, NEW r \in Req, reqs[r].pc \notin {"idle", "done"}
    PROVE  /\ Tables /\ Running(r) /\ reqs[r] \in Handler /\ reqs[r].req \in Request
           /\ PathOf(r) \in Path /\ PathOf(r) = reqs[r].req.path
           /\ ProgramAt(r) /\ KeptBy(r) /\ GatedAt(r)
           /\ reqs[r].status = "none"
BY HasRequest DEF MarketInv, Running, Program, ProgramAt, Kept, Gated, PathOf

\* A row of the table.
LEMMA RowFacts ==
    ASSUME MarketInv, NEW p \in Path, Exists(p)
    PROVE  assets[p] \in Row /\ assets[p].id \in Nat /\ assets[p].id # 0
BY DEF MarketInv, Tables, TypeOK, RowIds, Exists, Row

\* A write that goes on before latest_version can lag.
LEMMA SetStep ==
    ASSUME MarketInv, NEW r \in Req, UNCHANGED <<assets, versions, lastId, clean>>,
           NEW pc, NEW id, Sets(r, pc, id), IdFromRow(r), pc \notin {"done", "reread"} \cup Lagging,
           reqs[r].pc \notin Lagging, ProgramAt(r)', GatedAt(r)'
    PROVE  MarketInv'
<1>1. Continues(r) /\ Running(r) /\ reqs'[r].pc = pc
  BY DEF Sets, Continues
<1>2. Tables /\ PathOf(r) \in Path /\ reqs[r].status = "none"
  BY <1>1, AtStep DEF Running
<1>3. clean' \in [Path -> BOOLEAN] /\ \A p \in Path : clean'[p] => clean[p]
  BY <1>2 DEF Tables, TypeOK
<1>4. KeptBy(r)'
  BY <1>1, <1>2 DEF KeptBy, Pushed, Sets
<1>5. ASSUME reqs[r].req.op \in Write, clean'[PathOf(r)] PROVE Owes(r)'
  <2>1. PICK path \in Path : PathOf(r) = path /\ PathOf(r)' = path
    BY <1>1, <1>2 DEF Continues, PathOf
  <2>2. LatestOK(path)
    BY <1>1, <1>5, <2>1, OwesNow DEF Owes
  <2>3. LatestOK(path)'
    BY <1>2, <2>2, SameTables DEF Tables
  <2> QED
    BY <1>1, <2>1, <2>3 DEF Owes, Lagging
<1> QED
  BY <1>1, <1>3, <1>4, <1>5, QuietStep

\* PutAsset's SELECT id FROM assets.
LEMMA PushSelectStep ==
    ASSUME MarketInv, NEW r \in Req, PushSelect(r)
    PROVE  MarketInv'
<1>1. reqs[r].pc = "select" /\ UNCHANGED <<assets, versions, lastId, clean>>
  BY DEF PushSelect
<1>2. /\ Tables /\ Running(r) /\ ProgramAt(r)
      /\ reqs[r].id = 0 /\ reqs[r].status = "none" /\ reqs[r].req.op = "push"
  BY <1>1, AtStep DEF ProgramAt
<1>3. PICK path \in Path : PathOf(r) = path
  BY <1>1, AtStep
<1>4. CASE Exists(path)
  <2>1. PICK id \in Nat : id = assets[path].id /\ id # 0
    BY <1>4, RowFacts
  <2>2. Sets(r, "version", id)
    BY <1>2, <1>3, <1>4, <2>1, GotoSetsId DEF PushSelect, PCs
  <2>3. Continues(r) /\ IdFromRow(r) /\ PathOf(r)' = path
    BY <1>2, <1>3, <1>4, <2>1, <2>2 DEF Sets, IdFromRow, Continues, PathOf
  <2>9. ProgramAt(r)'
    BY <1>1, <1>2, <2>1, <2>2 DEF ProgramAt, Sets, Continues, Lagging
  <2>4. ProgramAt(r)' /\ GatedAt(r)'
    BY <1>2, <2>2, <2>9 DEF GatedAt, Sets
  <2>5. KeptBy(r)'
    BY <1>1, <1>4, <2>1, <2>2, <2>3 DEF KeptBy, Sets, Exists
  <2>6. ASSUME clean'[PathOf(r)] PROVE Owes(r)'
    <3>1. LatestOK(path)
      BY <1>1, <1>2, <1>3, <2>6, OwesNow DEF Owes, Lagging, Write
    <3>2. LatestOK(path)' /\ Exists(path)' /\ assets'[path].id = id
      BY <1>1, <1>2, <1>4, <2>1, <3>1, SameTables DEF Tables, Exists
    <3> QED
      BY <2>2, <2>3, <3>2 DEF Owes, Sets, Lagging
  <2>7. reqs'[r].pc # "done"
    BY <2>2 DEF Sets
  <2>8. clean' \in [Path -> BOOLEAN] /\ \A p \in Path : clean'[p] => clean[p]
    BY <1>1, <1>2 DEF Tables, TypeOK
  <2> QED
    BY <1>1, <2>3, <2>4, <2>5, <2>6, <2>7, <2>8, QuietStep
<1>5. CASE ~Exists(path)
  <2>1. Sets(r, "insert", reqs[r].id)
    BY <1>2, <1>3, <1>5, GotoSets DEF PushSelect, PCs
  <2>9. ProgramAt(r)'
    BY <1>1, <1>2, <2>1 DEF ProgramAt, Sets, Continues, Lagging
  <2>2. ProgramAt(r)' /\ GatedAt(r)'
    BY <1>2, <2>1, <2>9 DEF GatedAt, Sets
  <2> QED
    BY <1>1, <2>1, <2>2, SetStep DEF Sets, IdFromRow, Lagging
<1> QED
  BY <1>4, <1>5

\* refreshLatest's scan is of the versions of the id the push works on.
LEMMA PushScanStep ==
    ASSUME MarketInv, NEW r \in Req, PushScan(r)
    PROVE  MarketInv'
<1>1. reqs[r].pc = "scan" /\ UNCHANGED <<assets, versions, lastId, clean>>
  BY DEF PushScan
<1>2. /\ Tables /\ Running(r) /\ ProgramAt(r) /\ KeptBy(r) /\ reqs[r] \in Handler
      /\ reqs[r].id # 0 /\ reqs[r].status = "none" /\ reqs[r].req.op = "push"
  BY <1>1, AtStep DEF ProgramAt, Lagging
<1>3. PICK path \in Path : PathOf(r) = path
  BY <1>1, AtStep
<1>4. PICK m \in Version \cup {NoVersion} : m = MaxVersion(OfAsset(reqs[r].id))
  <2>1. OfAsset(reqs[r].id) \in SUBSET versions
    BY DEF OfAsset
  <2>2. IsFiniteSet(OfAsset(reqs[r].id)) /\ \A v \in OfAsset(reqs[r].id) : v.ver \in Version
    BY <1>2, <2>1, FS_Subset DEF Tables, TypeOK
  <2> QED
    BY <2>2, MaxVersionType
<1> DEFINE h == [reqs[r] EXCEPT !.pc = "update", !.ver = m]
<1>5. /\ h \in Handler /\ h.pc = "update" /\ h.ver = m /\ h.req = reqs[r].req
      /\ h.id = reqs[r].id /\ h.status = "none" /\ h.swept = reqs[r].swept
  BY <1>2 DEF Handler
<1>6. reqs' = [reqs EXCEPT ![r] = h]
  BY <1>2, <1>4 DEF PushScan, Tables, TypeOK
<1> HIDE DEF h
<1>7. Others(r) /\ reqs'[r] = h
  BY <1>2, <1>5, <1>6, UpdateHandler DEF Tables
<1>8. Continues(r) /\ IdFromRow(r) /\ PathOf(r)' = path
  BY <1>2, <1>3, <1>5, <1>7 DEF Continues, IdFromRow, PathOf
<1>9. ProgramAt(r)' /\ GatedAt(r)'
  BY <1>2, <1>5, <1>7 DEF ProgramAt, GatedAt, Lagging
<1>10. KeptBy(r)'
  BY <1>1, <1>2, <1>3, <1>5, <1>7, <1>8 DEF KeptBy, Pushed, Lagging, Exists
<1>11. ASSUME clean'[PathOf(r)] PROVE Owes(r)'
  <2>1. Exists(path) /\ assets[path].id = reqs[r].id
    BY <1>1, <1>2, <1>3, <1>11, OwesNow DEF Owes, Lagging, Write
  <2>2. m = MaxVersion(Visible(path))
    BY <1>4, <2>1 DEF Visible
  <2>3. Visible(path)' = Visible(path) /\ Exists(path)' /\ assets'[path].id = reqs[r].id
    BY <1>1, <1>2, <2>1, SameTables DEF Tables, Exists
  <2> QED
    BY <1>5, <1>7, <1>8, <2>2, <2>3 DEF Owes, Lagging
<1>12. clean' \in [Path -> BOOLEAN] /\ \A p \in Path : clean'[p] => clean[p]
  BY <1>1, <1>2 DEF Tables, TypeOK
<1>13. reqs'[r].pc # "done"
  BY <1>5, <1>7
<1> QED
  BY <1>1, <1>8, <1>9, <1>10, <1>11, <1>12, <1>13, QuietStep

\* The answer of a push or of a PATCH.
LEMMA RereadStep ==
    ASSUME MarketInv, NEW r \in Req, Reread(r)
    PROVE  MarketInv'
<1>1. reqs[r].pc = "reread" /\ UNCHANGED <<assets, versions, lastId, clean>>
  BY DEF Reread
<1>2. Tables /\ Running(r) /\ reqs[r].req.op \in Write
  BY <1>1, AtStep DEF ProgramAt
<1>3. PICK st \in {"200", "201"} : /\ st = "201" <=> reqs[r].req.op = "push"
                                   /\ Answer(r, st)
  BY DEF Reread
<1>4. Answers(r, st) /\ st \in Statuses
  BY <1>2, <1>3, AnswerAnswers DEF Statuses
<1> QED
  BY <1>1, <1>2, <1>3, <1>4, AnswerStep DEF Tables, TypeOK, Write, Lagging

\* assetIDVis: the id a PATCH or an unpush works on.
LEMMA ResolveStep ==
    ASSUME MarketInv, NEW r \in Req, Resolve(r)
    PROVE  MarketInv'
<1>1. reqs[r].pc = "resolve" /\ UNCHANGED <<assets, versions, lastId, clean>>
  BY DEF Resolve
<1>2. /\ Tables /\ Running(r) /\ ProgramAt(r) /\ reqs[r].id = 0
      /\ reqs[r].req.op \in Write \ {"push"} /\ reqs[r].status = "none"
  BY <1>1, AtStep DEF ProgramAt
<1>3. PICK path \in Path : reqs[r].req.path = path /\ PathOf(r) = path
  BY <1>1, AtStep
<1>4. CASE \E st \in {"skip", "404"} : Answer(r, st)
  <2>1. PICK st \in {"skip", "404"} : Answer(r, st)
    BY <1>4
  <2>2. Answers(r, st) /\ st \in Statuses
    BY <1>2, <2>1, AnswerAnswers DEF Statuses
  <2> QED
    BY <1>1, <1>2, <2>1, <2>2, AnswerStep DEF Tables, TypeOK, Lagging
<1>5. CASE ~\E st \in {"skip", "404"} : Answer(r, st)
  <2>1. /\ Exists(path)
        /\ \E pc \in {"write", "delete", "current"} :
              /\ pc = "delete" <=> reqs[r].req.op = "unpush"
              /\ reqs' = [reqs EXCEPT ![r].id = assets[path].id, ![r].pc = pc]
    BY <1>2, <1>3, <1>5, Zenon DEF Resolve
  <2>2. PICK pc \in {"write", "delete", "current"} :
              /\ pc = "delete" <=> reqs[r].req.op = "unpush"
              /\ reqs' = [reqs EXCEPT ![r].id = assets[path].id, ![r].pc = pc]
    BY <2>1
  <2>3. PICK id \in Nat : id = assets[path].id /\ id # 0
    BY <2>1, RowFacts
  <2>4. Sets(r, pc, id)
    <3>1. reqs' = [reqs EXCEPT ![r].pc = pc, ![r].id = id]
      BY <1>2, <2>2, <2>3 DEF Tables, TypeOK
    <3> QED
      BY <1>2, <3>1, GotoSetsId DEF PCs
  <2>5. ProgramAt(r)'
    BY <1>1, <1>2, <2>2, <2>3, <2>4 DEF ProgramAt, Sets, Continues, Lagging, Write
  <2>6. GatedAt(r)'
    BY <1>2, <2>4 DEF GatedAt, Sets
  <2>7. IdFromRow(r)
    BY <1>2, <1>3, <2>1, <2>3, <2>4 DEF IdFromRow, Sets
  <2> QED
    BY <1>1, <2>4, <2>5, <2>6, <2>7, SetStep DEF Lagging
<1> QED
  BY <1>4, <1>5

\* SetPrice and SetMeta compare with the row of the resolved id.
LEMMA PatchCurrentStep ==
    ASSUME MarketInv, NEW r \in Req, PatchCurrent(r)
    PROVE  MarketInv'
<1>1. reqs[r].pc = "current" /\ UNCHANGED <<assets, versions, lastId, clean>>
  BY DEF PatchCurrent
<1>2. /\ Tables /\ Running(r) /\ ProgramAt(r) /\ reqs[r].id # 0 /\ reqs[r].status = "none"
      /\ reqs[r].req.op \in {"visibility", "price", "meta"}
  BY <1>1, AtStep DEF ProgramAt
<1>3. Goto(r, "write") \/ \E st \in {"skip", "500"} : Answer(r, st)
  BY DEF PatchCurrent
<1>4. CASE \E st \in {"skip", "500"} : Answer(r, st)
  <2>1. PICK st \in {"skip", "500"} : Answer(r, st)
    BY <1>4
  <2>2. Answers(r, st) /\ st \in Statuses
    BY <1>2, <2>1, AnswerAnswers DEF Statuses
  <2> QED
    BY <1>1, <1>2, <2>1, <2>2, AnswerStep DEF Tables, TypeOK, Lagging
<1>5. CASE Goto(r, "write")
  <2>1. Sets(r, "write", reqs[r].id)
    BY <1>2, <1>5, GotoSets DEF PCs
  <2>2. ProgramAt(r)'
    BY <1>1, <1>2, <2>1 DEF ProgramAt, Sets, Continues, Lagging
  <2>3. GatedAt(r)'
    BY <1>2, <2>1 DEF GatedAt, Sets
  <2> QED
    BY <1>1, <2>1, <2>2, <2>3, SetStep DEF Sets, IdFromRow, Lagging
<1> QED
  BY <1>3, <1>4, <1>5

\* A read that takes the visibility of the row along.
LEMMA ReadSets ==
    ASSUME Tables, NEW r \in Req, Running(r), NEW pc \in PCs \ {"idle"}, NEW w \in Visibility,
           reqs' = [reqs EXCEPT ![r].pc = pc, ![r].vis = w, ![r].read = w]
    PROVE  Sets(r, pc, reqs[r].id) /\ reqs'[r].vis = w /\ reqs'[r].read = w
<1> DEFINE h == [reqs[r] EXCEPT !.pc = pc, !.vis = w, !.read = w]
<1>1. reqs[r] \in Handler
  BY DEF Tables, TypeOK
<1>2. /\ h \in Handler /\ h.pc = pc /\ h.req = reqs[r].req /\ h.swept = reqs[r].swept
      /\ h.id = reqs[r].id /\ h.status = reqs[r].status /\ h.vis = w /\ h.read = w
  BY <1>1 DEF Handler, PCs
<1>3. reqs' = [reqs EXCEPT ![r] = h]
  BY DEF Tables, TypeOK
<1> HIDE DEF h
<1>4. Others(r) /\ reqs'[r] = h
  BY <1>2, <1>3, UpdateHandler DEF Tables
<1> QED
  BY <1>2, <1>4 DEF Sets, Continues

\* A read that takes latest_version along.
LEMMA LatestSets ==
    ASSUME Tables, NEW r \in Req, Running(r), NEW v \in Version \cup {NoVersion},
           NEW w \in Visibility, reqs' = [reqs EXCEPT ![r].pc = "body", ![r].ver = v, ![r].vis = w]
    PROVE  Sets(r, "body", reqs[r].id)
<1> DEFINE h == [reqs[r] EXCEPT !.pc = "body", !.ver = v, !.vis = w]
<1>1. reqs[r] \in Handler
  BY DEF Tables, TypeOK
<1>2. /\ h \in Handler /\ h.pc = "body" /\ h.req = reqs[r].req /\ h.swept = reqs[r].swept
      /\ h.id = reqs[r].id /\ h.status = reqs[r].status
  BY <1>1 DEF Handler
<1>3. reqs' = [reqs EXCEPT ![r] = h]
  BY DEF Tables, TypeOK
<1> HIDE DEF h
<1>4. Others(r) /\ reqs'[r] = h
  BY <1>2, <1>3, UpdateHandler DEF Tables
<1> QED
  BY <1>2, <1>4 DEF Sets, Continues

\* GetRecipe's first SELECT.
LEMMA InstallLatestStep ==
    ASSUME MarketInv, NEW r \in Req, InstallLatest(r)
    PROVE  MarketInv'
<1>1. reqs[r].pc = "latest" /\ UNCHANGED <<assets, versions, lastId, clean>>
  BY DEF InstallLatest
<1>2. /\ Tables /\ Running(r) /\ ProgramAt(r) /\ reqs[r].status = "none"
      /\ reqs[r].req.op = "install" /\ reqs[r] \in Handler
  BY <1>1, AtStep DEF ProgramAt
<1>3. PICK path \in Path : PathOf(r) = path
  BY <1>1, AtStep
<1>4. CASE Answer(r, "404")
  <2>1. Answers(r, "404") /\ "404" \in Statuses
    BY <1>2, <1>4, AnswerAnswers DEF Statuses
  <2> QED
    BY <1>1, <1>2, <2>1, AnswerStep DEF Tables, TypeOK, Lagging
<1>5. CASE ~Answer(r, "404")
  <2>1. Sets(r, "body", reqs[r].id)
    <3>1. CASE reqs[r].ver # NoVersion
      BY <1>2, <3>1, GotoSets DEF InstallLatest, PCs
    <3>2. CASE reqs[r].ver = NoVersion
      <4>1. Exists(path)
        BY <1>3, <1>5, <3>2 DEF InstallLatest
      <4>2. PICK v \in Version \cup {NoVersion}, w \in Visibility :
              v = assets[path].latest /\ w = assets[path].vis
        BY <4>1, RowFacts DEF Row
      <4>3. reqs' = [reqs EXCEPT ![r].pc = "body", ![r].ver = v, ![r].vis = w]
        BY <1>3, <1>5, <3>2, <4>1, <4>2 DEF InstallLatest
      <4> QED
        BY <1>2, <4>3, LatestSets
    <3> QED
      BY <3>1, <3>2
  <2>2. ProgramAt(r)'
    BY <1>1, <1>2, <2>1 DEF ProgramAt, Sets, Continues, Lagging
  <2>3. GatedAt(r)'
    BY <1>2, <2>1 DEF GatedAt, Sets
  <2> QED
    BY <1>1, <2>1, <2>2, <2>3, SetStep DEF Sets, IdFromRow, Lagging
<1> QED
  BY <1>4, <1>5

\* The body goes only to the author, or was public when it was read.
LEMMA InstallBodyStep ==
    ASSUME MarketInv, NEW r \in Req, InstallBody(r)
    PROVE  MarketInv'
<1>1. reqs[r].pc = "body" /\ UNCHANGED <<assets, versions, lastId, clean>>
  BY DEF InstallBody
<1>2. /\ Tables /\ Running(r) /\ ProgramAt(r) /\ reqs[r].status = "none"
      /\ reqs[r].req.op = "install" /\ reqs[r] \in Handler
  BY <1>1, AtStep DEF ProgramAt
<1>3. PICK path \in Path : PathOf(r) = path
  BY <1>1, AtStep
<1>4. CASE Answer(r, "404")
  <2>1. Answers(r, "404") /\ "404" \in Statuses
    BY <1>2, <1>4, AnswerAnswers DEF Statuses
  <2> QED
    BY <1>1, <1>2, <2>1, AnswerStep DEF Tables, TypeOK, Lagging
<1>5. CASE ~Answer(r, "404")
  <2>1. /\ Visible(path) # {} /\ (assets[path].vis = "private" => IsOwner(reqs[r].req))
        /\ reqs' = [reqs EXCEPT ![r].pc = "count", ![r].vis = assets[path].vis,
                                ![r].read = assets[path].vis]
    BY <1>3, <1>5 DEF InstallBody
  <2>2. PICK w \in Visibility : w = assets[path].vis
    BY <2>1, RowFacts DEF Row, Visible
  <2>4. reqs' = [reqs EXCEPT ![r].pc = "count", ![r].vis = w, ![r].read = w]
    BY <2>1, <2>2
  <2>5. Sets(r, "count", reqs[r].id) /\ reqs'[r].read = w
    <3>1. "count" \in PCs \ {"idle"}
      BY DEF PCs
    <3> QED
      BY <1>2, <2>4, <3>1, ReadSets, Zenon
  <2>6. ProgramAt(r)'
    BY <1>1, <1>2, <2>5 DEF ProgramAt, Sets, Continues, Lagging
  <2>7. GatedAt(r)'
    BY <2>1, <2>2, <2>5 DEF GatedAt, Sets, Continues, IsOwner, Visibility
  <2> QED
    BY <1>1, <2>5, <2>6, <2>7, SetStep DEF Sets, IdFromRow, Lagging
<1> QED
  BY <1>4, <1>5

\* GetAsset's first SELECT.
LEMMA GetRowStep ==
    ASSUME MarketInv, NEW r \in Req, GetRow(r)
    PROVE  MarketInv'
<1>1. reqs[r].pc = "row" /\ UNCHANGED <<assets, versions, lastId, clean>>
  BY DEF GetRow
<1>2. /\ Tables /\ Running(r) /\ ProgramAt(r) /\ reqs[r].status = "none"
      /\ reqs[r].req.op = "get" /\ reqs[r] \in Handler
  BY <1>1, AtStep DEF ProgramAt
<1>3. PICK path \in Path : PathOf(r) = path
  BY <1>1, AtStep
<1>4. CASE ~Exists(path)
  <2>1. Answers(r, "404") /\ "404" \in Statuses
    BY <1>2, <1>3, <1>4, AnswerAnswers DEF Statuses, GetRow
  <2> QED
    BY <1>1, <1>2, <2>1, AnswerStep DEF Tables, TypeOK, Lagging
<1>5. CASE Exists(path)
  <2>1. PICK w \in Visibility : w = assets[path].vis
    BY <1>5, RowFacts DEF Row
  <2>3. reqs' = [reqs EXCEPT ![r].pc = "list", ![r].vis = w, ![r].read = w]
    BY <1>3, <1>5, <2>1 DEF GetRow
  <2>4. Sets(r, "list", reqs[r].id) /\ reqs'[r].read = w /\ reqs'[r].vis = w
    <3>1. "list" \in PCs \ {"idle"}
      BY DEF PCs
    <3> QED
      BY <1>2, <2>3, <3>1, ReadSets, Zenon
  <2>5. ProgramAt(r)'
    BY <1>1, <1>2, <2>4 DEF ProgramAt, Sets, Continues, Lagging
  <2>6. GatedAt(r)'
    BY <1>2, <2>4 DEF GatedAt, Sets
  <2> QED
    BY <1>1, <2>4, <2>5, <2>6, SetStep DEF Sets, IdFromRow, Lagging
<1> QED
  BY <1>4, <1>5

\* GET meta gates on the visibility it read along with the row.
LEMMA ListVersionsStep ==
    ASSUME MarketInv, NEW r \in Req, ListVersions(r)
    PROVE  MarketInv'
<1>1. reqs[r].pc = "list" /\ UNCHANGED <<assets, versions, lastId, clean>>
  BY DEF ListVersions
<1>2. /\ Tables /\ Running(r) /\ GatedAt(r) /\ reqs[r].req.op \in {"get", "versions"}
      /\ reqs[r] \in Handler
  BY <1>1, AtStep DEF ProgramAt
<1>3. PICK st \in {"200", "404"} :
        /\ reqs' = [reqs EXCEPT ![r].pc = "done", ![r].status = st,
                     ![r].listed = IF Exists(reqs[r].req.path) THEN assets[reqs[r].req.path].vis
                                   ELSE "public"]
        /\ st = "200" /\ reqs[r].req.op = "get" /\ reqs[r].vis = "private" => IsOwner(reqs[r].req)
  BY DEF ListVersions
<1>4. Answers(r, st) /\ st \in Statuses
  <2>1. PICK vis \in Visibility :
          vis = IF Exists(reqs[r].req.path) THEN assets[reqs[r].req.path].vis ELSE "public"
    BY <1>1, AtStep, RowFacts DEF Row, Visibility
  <2>2. reqs' = [reqs EXCEPT ![r].pc = "done", ![r].status = st, ![r].listed = vis]
    BY <1>3, <2>1
  <2>3. st \in Statuses
    BY DEF Statuses
  <2> QED
    BY <1>2, <2>2, <2>3, ListAnswers
<1>5. reqs[r].req.op = "get" /\ st = "200" /\ ~IsOwner(reqs[r].req) => reqs[r].read = "public"
  BY <1>1, <1>2, <1>3 DEF GatedAt, Handler, Visibility
<1> QED
  BY <1>1, <1>2, <1>3, <1>4, <1>5, AnswerStep DEF Tables, TypeOK, Write, Lagging

\* A failed statement answers 500, or 200 for a change that cannot be read back;
\* a write that failed is no longer serial.
LEMMA FailStep ==
    ASSUME MarketInv, NEW r \in Req, Fail(r)
    PROVE  MarketInv'
<1>1. reqs[r].pc \notin {"idle", "done"} /\ UNCHANGED <<assets, versions, lastId>>
  BY DEF Fail, Running
<1>2. Tables /\ Running(r) /\ PathOf(r) \in Path /\ ProgramAt(r)
  BY <1>1, AtStep
<1>3. PICK st \in {"200", "500"} : Answer(r, st) /\ (st = "200" => reqs[r].pc = "reread")
  BY DEF Fail
<1>4. Answers(r, st) /\ st \in Statuses
  BY <1>2, <1>3, AnswerAnswers DEF Statuses
<1>5. st = "200" => reqs[r].req.op \notin {"install", "get"}
  BY <1>2, <1>3 DEF ProgramAt, Write
<1>6. clean' \in [Path -> BOOLEAN] /\ (\A p \in Path : clean'[p] => clean[p])
      /\ (reqs[r].req.op \in Write => ~clean'[PathOf(r)])
  BY <1>2 DEF Fail, Tables, TypeOK
<1> QED
  BY <1>1, <1>4, <1>5, <1>6, AnswerStep

\* A request enters: alone on its path, or the path is no longer serial.
LEMMA EnterStep ==
    ASSUME MarketInv, NEW r \in Req, reqs[r].pc = "idle",
           UNCHANGED <<assets, versions, lastId>>, Others(r),
           reqs'[r].pc \notin {"idle", "reread"} \cup Lagging, reqs'[r].id = 0,
           reqs'[r].status # "201", ProgramAt(r)', GatedAt(r)',
           clean' \in [Path -> BOOLEAN], \A p \in Path : clean'[p] => clean[p],
           \A p \in Path : Writes(r, p)' /\ clean'[p] => \A s \in Req : ~Writes(s, p)
    PROVE  MarketInv'
<1> USE DEF MarketInv
<1>1. /\ SameRows
      /\ \A p \in Path : /\ assets'[p] = assets[p] /\ Visible(p)' = Visible(p)
                         /\ LatestOK(p) => LatestOK(p)'
                         /\ LatestOK(p)' => LatestOK(p)
  BY SameTables DEF Tables
<1>2. Tables'
  BY DEF Tables, TypeOK, Others
<1>3. Program' /\ Gated'
  BY QuietAt
<1>4. \A s \in Req \ {r} : reqs'[s] = reqs[s] /\ PathOf(s)' = PathOf(s)
  BY DEF Others, PathOf
<1>5. RowIds' /\ OneBody'
  BY <1>1 DEF RowIds, OneBody, SameRows, SameIds
<1>6. HandlerIds'
  BY <1>1, <1>4 DEF HandlerIds, SameRows, SameIds, Tables, TypeOK
<1>7. Kept'
  <2>1. SUFFICES ASSUME NEW s \in Req \ {r}, Pushed(s)', ~reqs'[s].swept PROVE KeptBy(s)'
    BY DEF Kept, KeptBy, Pushed, Lagging
  <2>2. Pushed(s) /\ KeptBy(s) /\ ~reqs[s].swept /\ reqs'[s] = reqs[s] /\ PathOf(s)' = PathOf(s)
    BY <1>4, <2>1 DEF Kept, Pushed
  <2> QED
    BY <2>2 DEF KeptBy, Exists
<1>8. PublishedItself'
  BY <1>1, <1>4 DEF PublishedItself, SameRows, SameIds
<1>9. Serial'
  <2>1. SUFFICES ASSUME NEW p \in Path, clean'[p] PROVE SerialAt(p)'
    BY DEF Serial
  <2>2. SerialAt(p)
    BY <2>1 DEF Serial
  <2>3. \A s \in Req \ {r} : Writes(s, p)' <=> Writes(s, p)
    BY <1>4 DEF Writes, Running
  <2>4. ~Writes(r, p)
    BY DEF Writes, Running
  <2>5. CASE Writes(r, p)'
    <3>1. \A s \in Req : ~Writes(s, p)
      BY <2>1, <2>5
    <3>2. LatestOK(p)' /\ PathOf(r)' = p
      BY <1>1, <2>2, <2>5, <3>1 DEF SerialAt, Writes
    <3>3. Owes(r)'
      BY <3>2 DEF Owes, Lagging
    <3> QED
      BY <2>3, <3>1, <3>2, <3>3 DEF SerialAt
  <2>6. CASE ~Writes(r, p)'
    <3>1. ASSUME NEW s \in Req, Writes(s, p)' PROVE Owes(s)'
      <4>1. s # r /\ Owes(s) /\ PathOf(s) = p
        BY <2>2, <2>3, <2>6, <3>1 DEF SerialAt, Writes
      <4>2. reqs'[s] = reqs[s] /\ PathOf(s)' = p
        BY <1>4, <4>1
      <4>3. MaxVersion(Visible(p)') = MaxVersion(Visible(p))
        BY <1>1
      <4> QED
        BY <1>1, <4>1, <4>2, <4>3 DEF Owes, SameRows, SameIds
    <3>2. (\A s \in Req : ~Writes(s, p)') => LatestOK(p)'
      BY <1>1, <2>2, <2>3, <2>4 DEF SerialAt
    <3>3. \A s, t \in Req : Writes(s, p)' /\ Writes(t, p)' => s = t
      BY <2>2, <2>3, <2>6 DEF SerialAt
    <3> QED
      BY <3>1, <3>2, <3>3 DEF SerialAt
  <2> QED
    BY <2>5, <2>6
<1> QED
  BY <1>2, <1>3, <1>5, <1>6, <1>7, <1>8, <1>9

\* Where each operation starts.
LEMMA FirstStepFacts ==
    ASSUME NEW q \in Request
    PROVE  /\ FirstStep(q.op) \in {"select", "resolve", "latest", "row", "list"}
           /\ FirstStep(q.op) = "select" => q.op = "push"
           /\ FirstStep(q.op) = "resolve" => q.op \in Write \ {"push"}
           /\ FirstStep(q.op) = "latest" => q.op = "install"
           /\ FirstStep(q.op) = "row" => q.op = "get"
           /\ FirstStep(q.op) = "list" => q.op = "versions"
<1>1. q.op \in {"push", "visibility", "price", "meta", "unpush", "install", "get", "versions"}
  BY RequestFields DEF Write
<1> QED
  BY <1>1 DEF FirstStep, Write

\* A request that verifyWriteAuthor and the validation let through.
LEMMA AcceptStep ==
    ASSUME MarketInv, NEW r \in Req, NEW q \in Request, Accept(r, q)
    PROVE  MarketInv'
<1>1. reqs[r].pc = "idle" /\ UNCHANGED <<assets, versions, lastId>> /\ Tables
  BY DEF Accept, MarketInv
<1>2. PICK pc \in {"select", "resolve", "latest", "row", "list"} :
        /\ pc = FirstStep(q.op)
        /\ pc = "select" => q.op = "push"
        /\ pc = "resolve" => q.op \in Write \ {"push"}
        /\ pc = "latest" => q.op = "install"
        /\ pc = "row" => q.op = "get"
        /\ pc = "list" => q.op = "versions"
  BY FirstStepFacts
<1>3. PICK v \in Version \cup {NoVersion} :
        v = IF q.op \in {"install", "get"} THEN q.ver ELSE NoVersion
  BY RequestFields
<1> DEFINE h == [Idle EXCEPT !.pc = pc, !.req = q, !.ver = v]
<1>4. h \in Handler /\ h.pc = pc /\ h.req = q /\ h.id = 0 /\ h.status = "none"
  BY DEF Handler, Idle, Visibility
<1>5. reqs' = [reqs EXCEPT ![r] = h]
  BY <1>2, <1>3 DEF Accept
<1> HIDE DEF h
<1>6. Others(r) /\ reqs'[r] = h
  BY <1>1, <1>4, <1>5, UpdateHandler DEF Tables
<1>7. ProgramAt(r)'
  BY <1>2, <1>4, <1>6 DEF ProgramAt, Lagging
<1>8. GatedAt(r)'
  BY <1>2, <1>4, <1>6 DEF GatedAt
<1>9. /\ clean' \in [Path -> BOOLEAN] /\ \A p \in Path : clean'[p] => clean[p]
      /\ clean'[q.path] /\ q.op \in Write => \A s \in Req : ~Writes(s, q.path)
  <2>1. q.path \in Path /\ clean \in [Path -> BOOLEAN]
    BY <1>1, RequestFields DEF Tables, TypeOK
  <2> DEFINE b == ~(/\ q.op \in Write
                    /\ \E s \in Req : /\ Running(s) /\ reqs[s].req.op \in Write
                                      /\ PathOf(s) = q.path)
  <2>2. clean' = [clean EXCEPT ![q.path] = clean[q.path] /\ b]
    BY DEF Accept
  <2>3. b /\ q.op \in Write => \A s \in Req : ~Writes(s, q.path)
    BY DEF Writes
  <2>4. b \in BOOLEAN
    OBVIOUS
  <2> HIDE DEF b
  <2> QED
    BY <2>1, <2>2, <2>3, <2>4
<1>10. ASSUME NEW p \in Path, Writes(r, p)', clean'[p] PROVE \A s \in Req : ~Writes(s, p)
  BY <1>4, <1>6, <1>9, <1>10 DEF Writes, PathOf
<1> QED
  BY <1>1, <1>2, <1>4, <1>6, <1>7, <1>8, <1>9, <1>10, EnterStep DEF Lagging

\* A request answered 400 or 401.
LEMMA RefuseStep ==
    ASSUME MarketInv, NEW r \in Req, NEW q \in Request, Refuse(r, q)
    PROVE  MarketInv'
<1>1. reqs[r].pc = "idle" /\ UNCHANGED <<assets, versions, lastId, clean>> /\ Tables
  BY DEF Refuse, MarketInv
<1>2. PICK st \in {"400", "401"} : st = IF IsOwner(q) THEN "400" ELSE "401"
  OBVIOUS
<1> DEFINE h == [Idle EXCEPT !.pc = "done", !.req = q, !.status = st]
<1>3. h \in Handler /\ h.pc = "done" /\ h.req = q /\ h.id = 0 /\ h.status = st
  BY DEF Handler, Idle, Visibility
<1>4. reqs' = [reqs EXCEPT ![r] = h]
  BY <1>2 DEF Refuse
<1> HIDE DEF h
<1>5. Others(r) /\ reqs'[r] = h
  BY <1>1, <1>3, <1>4, UpdateHandler DEF Tables
<1>6. ProgramAt(r)'
  BY <1>3, <1>5 DEF ProgramAt, Lagging
<1>7. GatedAt(r)'
  BY <1>3, <1>5 DEF GatedAt
<1>8. clean' \in [Path -> BOOLEAN] /\ \A p \in Path : clean'[p] => clean[p]
  BY <1>1 DEF Tables, TypeOK
<1>9. \A p \in Path : ~Writes(r, p)'
  BY <1>3, <1>5 DEF Writes, Running
<1> QED
  BY <1>1, <1>3, <1>5, <1>6, <1>7, <1>8, <1>9, EnterStep DEF Lagging

-----------------------------------------------------------------------------
(* The statements that change a row.                                       *)

\* An UPDATE: the rows and their ids stay, and those of other paths as they are.
LEMMA RowStep ==
    ASSUME MarketInv, NEW r \in Req, NEW path \in Path, PathOf(r) = path,
           Continues(r), SameRows, reqs'[r].id = reqs[r].id, clean' = clean,
           \A p \in Path \ {path} : assets'[p] = assets[p],
           ProgramAt(r)', KeptBy(r)', GatedAt(r)', PublishedItself',
           reqs[r].req.op \in Write /\ clean[path] =>
              IF reqs'[r].pc = "done" THEN LatestOK(path)' ELSE Owes(r)',
           reqs[r].req.op \in Write \/ (LatestOK(path) => LatestOK(path)')
    PROVE  MarketInv'
<1> USE DEF MarketInv
<1>1. Tables'
  BY DEF Tables, TypeOK, Continues, Others, SameRows, SameIds
<1>2. Program' /\ Gated'
  BY QuietAt DEF Continues
<1>3. RowIds' /\ HandlerIds' /\ OneBody'
  BY QuietIds DEF IdFromRow
<1>4. Kept'
  BY QuietKept
<1>5. Serial'
  <2>1. /\ Running(r) /\ reqs'[r].pc # "idle" /\ reqs'[r].req = reqs[r].req
        /\ \A s \in Req \ {r} : reqs'[s] = reqs[s]
    BY DEF Continues, Others
  <2>2. \A p \in Path : Visible(p)' = Visible(p)
    BY DEF Visible, OfAsset, SameRows, SameIds
  <2>3. Exists(path) => Exists(path)' /\ assets'[path].id = assets[path].id
    BY DEF SameRows, SameIds
  <2> QED
    BY <2>1, <2>2, <2>3, SerialStep
<1> QED
  BY <1>1, <1>2, <1>3, <1>4, <1>5

\* refreshLatest's UPDATE ends the lag of a serial push.
LEMMA PushUpdateStep ==
    ASSUME MarketInv, NEW r \in Req, PushUpdate(r)
    PROVE  MarketInv'
<1>1. reqs[r].pc = "update" /\ versions' = versions /\ lastId' = lastId /\ clean' = clean
  BY DEF PushUpdate
<1>2. /\ Tables /\ Running(r) /\ ProgramAt(r) /\ KeptBy(r) /\ reqs[r] \in Handler
      /\ reqs[r].id # 0 /\ reqs[r].status = "none" /\ reqs[r].req.op = "push"
      /\ reqs[r].req \in Request
  BY <1>1, AtStep DEF ProgramAt, Lagging
<1>3. PICK path \in Path : PathOf(r) = path
  BY <1>1, AtStep
<1>4. PICK ver \in Version \cup {NoVersion}, id \in Nat, qv \in Version :
        ver = reqs[r].ver /\ id = reqs[r].id /\ qv = reqs[r].req.ver
  BY <1>2, RequestFields DEF Handler
<1>5. Sets(r, "reread", id)
  BY <1>2, <1>4, GotoSets DEF PushUpdate, PCs
<1>6. Continues(r) /\ reqs'[r].pc = "reread" /\ PathOf(r)' = path /\ reqs'[r].id = id
  BY <1>3, <1>5 DEF Sets, Continues, PathOf
<1>7. ASSUME NEW p \in Path
      PROVE  /\ Exists(p) /\ assets[p].id = id =>
                  /\ p = path
                  /\ assets'[p] = [assets[p] EXCEPT !.latest = ver,
                                      !.meta = IF ver = qv THEN qv ELSE assets[p].meta]
             /\ ~(Exists(p) /\ assets[p].id = id) => assets'[p] = assets[p]
  BY <1>2, <1>3, <1>4 DEF PushUpdate, MarketInv, HandlerIds
<1>8. ASSUME NEW p \in Path, Exists(p), assets[p].id = id
      PROVE  /\ assets'[p] \in Row /\ assets'[p].id = assets[p].id
             /\ assets'[p].latest = ver /\ assets'[p].vis = assets[p].vis
  <2>1. assets[p] \in Row
    BY <1>8, RowFacts
  <2> QED
    BY <1>7, <1>8, <2>1 DEF Row
<1>9. SameRows
  <2>1. assets' \in [Path -> Row \cup {NoRow}]
    <3>1. DOMAIN assets' = Path /\ assets' = [p \in Path |-> assets'[p]]
      BY DEF PushUpdate
    <3>2. \A p \in Path : assets'[p] \in Row \cup {NoRow}
      BY <1>2, <1>7, <1>8 DEF Tables, TypeOK
    <3> QED
      BY <3>1, <3>2
  <2> QED
    BY <1>1, <1>7, <1>8, <2>1, MarketAssumption DEF SameRows, SameIds, Exists
<1>10. ProgramAt(r)'
  BY <1>1, <1>2, <1>4, <1>5 DEF ProgramAt, Sets, Continues, Lagging, Write
<1>11. KeptBy(r)'
  BY <1>1, <1>2, <1>3, <1>4, <1>5, <1>6, <1>9
     DEF KeptBy, Pushed, Sets, Continues, Lagging, SameRows, SameIds
<1>12. GatedAt(r)'
  BY <1>2, <1>5 DEF GatedAt, Sets
<1>13. PublishedItself'
  <2>1. \A p \in Path : Exists(p) /\ assets'[p].vis = "public" => assets[p].vis = "public"
    BY <1>7, <1>8
  <2> QED
    BY <1>4, <1>6, <1>9, <2>1, QuietPublished DEF IdFromRow, MarketInv, SameRows
<1>14. ASSUME clean[path] PROVE Owes(r)'
  <2>1. Exists(path) /\ assets[path].id = id /\ ver = MaxVersion(Visible(path))
    BY <1>1, <1>2, <1>3, <1>4, <1>14, OwesNow DEF Owes, Lagging, Write
  <2>2. assets'[path].latest = ver /\ Visible(path)' = Visible(path)
    BY <1>1, <1>8, <1>9, <2>1 DEF Visible, OfAsset, SameRows, SameIds
  <2>3. LatestOK(path)'
    BY <2>1, <2>2 DEF LatestOK
  <2> QED
    BY <1>6, <2>3 DEF Owes, Lagging
<1>15. \A p \in Path \ {path} : assets'[p] = assets[p]
  BY <1>7
<1> QED
  BY <1>1, <1>2, <1>3, <1>4, <1>6, <1>9, <1>10, <1>11, <1>12, <1>13, <1>14, <1>15, RowStep
     DEF Write

\* A PATCH changes the row it resolved, which is of its own path, or none.
LEMMA PatchWriteStep ==
    ASSUME MarketInv, NEW r \in Req, PatchWrite(r)
    PROVE  MarketInv'
<1>1. reqs[r].pc = "write" /\ versions' = versions /\ lastId' = lastId /\ clean' = clean
  BY DEF PatchWrite
<1>2. /\ Tables /\ Running(r) /\ ProgramAt(r) /\ reqs[r] \in Handler
      /\ reqs[r].id # 0 /\ reqs[r].status = "none"
      /\ reqs[r].req.op \in {"visibility", "price", "meta"} /\ reqs[r].req \in Request
  BY <1>1, AtStep DEF ProgramAt, Lagging
<1>3. PICK path \in Path : PathOf(r) = path
  BY <1>1, AtStep
<1>4. PICK id \in Nat : id = reqs[r].id
  BY <1>2 DEF Handler
<1>5. Sets(r, "reread", id)
  BY <1>2, <1>4, GotoSets DEF PatchWrite, PCs
<1>6. /\ Continues(r) /\ reqs'[r].pc = "reread" /\ PathOf(r)' = path /\ reqs'[r].id = id
      /\ reqs'[r].req = reqs[r].req
  BY <1>3, <1>5 DEF Sets, Continues, PathOf
<1>7. ASSUME NEW p \in Path
      PROVE  /\ Exists(p) /\ assets[p].id = id => p = path
             /\ ~(Exists(p) /\ assets[p].id = id) => assets'[p] = assets[p]
  BY <1>2, <1>3, <1>4 DEF PatchWrite, MarketInv, HandlerIds
<1>8. ASSUME NEW p \in Path, Exists(p), assets[p].id = id
      PROVE  /\ assets'[p] \in Row /\ assets'[p].id = assets[p].id
             /\ assets'[p].latest = assets[p].latest
             /\ assets'[p].vis = IF reqs[r].req.op = "visibility" THEN reqs[r].req.val
                                 ELSE assets[p].vis
  <2>1. assets[p] \in Row
    BY <1>8, RowFacts
  <2>2. CASE reqs[r].req.op = "visibility"
    <3>1. reqs[r].req.val \in Visibility
      BY <1>2, <2>2, RequestFields
    <3>2. assets'[p] = [assets[p] EXCEPT !.vis = reqs[r].req.val]
      BY <1>4, <1>8, <2>2 DEF PatchWrite
    <3> QED
      BY <2>1, <2>2, <3>1, <3>2 DEF Row
  <2>3. CASE reqs[r].req.op = "price"
    <3>1. reqs[r].req.val \in Price
      BY <1>2, <2>3, RequestFields
    <3>2. assets'[p] = [assets[p] EXCEPT !.price = reqs[r].req.val]
      BY <1>4, <1>8, <2>3 DEF PatchWrite
    <3> QED
      BY <2>1, <2>3, <3>1, <3>2 DEF Row
  <2>4. CASE reqs[r].req.op = "meta"
    <3>1. reqs[r].req.val \in Edit
      BY <1>2, <2>4, RequestFields
    <3>2. assets'[p] = [assets[p] EXCEPT !.meta = reqs[r].req.val]
      BY <1>4, <1>8, <2>4 DEF PatchWrite
    <3> QED
      BY <2>1, <2>4, <3>1, <3>2 DEF Row
  <2> QED
    BY <1>2, <2>2, <2>3, <2>4
<1>9. SameRows
  <2>1. assets' \in [Path -> Row \cup {NoRow}]
    <3>1. DOMAIN assets' = Path /\ assets' = [p \in Path |-> assets'[p]]
      <4> DEFINE New(p) == IF Exists(p) /\ assets[p].id = reqs[r].id
                           THEN CASE reqs[r].req.op = "visibility" ->
                                       [assets[p] EXCEPT !.vis = reqs[r].req.val]
                                  [] reqs[r].req.op = "price" ->
                                       [assets[p] EXCEPT !.price = reqs[r].req.val]
                                  [] reqs[r].req.op = "meta" ->
                                       [assets[p] EXCEPT !.meta = reqs[r].req.val]
                           ELSE assets[p]
      <4>1. assets' = [p \in Path |-> New(p)]
        BY DEF PatchWrite
      <4> HIDE DEF New
      <4> QED
        BY <4>1
    <3>2. \A p \in Path : assets'[p] \in Row \cup {NoRow}
      BY <1>2, <1>7, <1>8 DEF Tables, TypeOK
    <3> QED
      BY <3>1, <3>2
  <2> QED
    BY <1>1, <1>7, <1>8, <2>1, MarketAssumption DEF SameRows, SameIds, Exists
<1>10. ProgramAt(r)'
  BY <1>1, <1>2, <1>4, <1>5 DEF ProgramAt, Sets, Continues, Lagging, Write
<1>11. KeptBy(r)'
  BY <1>2, <1>5, <1>6 DEF KeptBy, Pushed, Sets, Lagging
<1>12. GatedAt(r)'
  BY <1>2, <1>5 DEF GatedAt, Sets
<1>13. PublishedItself'
  <2>1. SUFFICES ASSUME NEW p \in Path, Exists(p)', assets'[p].vis = "public"
                 PROVE  \E s \in Req : PublishedBy(s, p)'
    BY DEF PublishedItself, PublishedBy
  <2>2. Exists(p) /\ assets'[p].id = assets[p].id
    BY <1>9, <2>1 DEF SameRows, SameIds
  <2>3. CASE assets[p].vis = "public"
    BY <1>4, <1>6, <1>9, <2>2, <2>3, PublisherStays DEF IdFromRow, MarketInv, SameRows
  <2>4. CASE assets[p].vis # "public"
    <3>1. /\ p = path /\ assets[p].id = id
          /\ reqs[r].req.op = "visibility" /\ reqs[r].req.val = "public"
      BY <1>7, <1>8, <2>1, <2>2, <2>4
    <3> QED
      BY <1>6, <2>2, <3>1 DEF PublishedBy
  <2> QED
    BY <2>3, <2>4
<1>14. ASSUME clean[path] PROVE Owes(r)'
  <2>1. LatestOK(path)
    BY <1>1, <1>2, <1>3, <1>14, OwesNow DEF Owes, Lagging, Write
  <2>2. Visible(path)' = Visible(path)
    BY <1>1, <1>9 DEF Visible, OfAsset, SameRows, SameIds
  <2>3. Exists(path)' => Exists(path) /\ assets'[path].latest = assets[path].latest
    BY <1>7, <1>8, <1>9 DEF SameRows, SameIds
  <2>4. LatestOK(path)'
    BY <2>1, <2>2, <2>3 DEF LatestOK
  <2> QED
    BY <1>6, <2>4 DEF Owes, Lagging
<1>15. \A p \in Path \ {path} : assets'[p] = assets[p]
  BY <1>7
<1> QED
  BY <1>1, <1>2, <1>3, <1>4, <1>6, <1>9, <1>10, <1>11, <1>12, <1>13, <1>14, <1>15, RowStep
     DEF Write

\* IncrDownloads touches the counter only.
LEMMA InstallCountStep ==
    ASSUME MarketInv, NEW r \in Req, InstallCount(r)
    PROVE  MarketInv'
<1>1. reqs[r].pc = "count" /\ versions' = versions /\ lastId' = lastId /\ clean' = clean
  BY DEF InstallCount
<1>2. /\ Tables /\ Running(r) /\ ProgramAt(r) /\ GatedAt(r) /\ reqs[r].req.op = "install"
  BY <1>1, AtStep DEF ProgramAt
<1>3. PICK path \in Path : PathOf(r) = path
  BY <1>1, AtStep
<1>4. Answers(r, "200") /\ "200" \in Statuses
  BY <1>2, AnswerAnswers DEF InstallCount, Statuses
<1>5. CASE assets' = assets
  BY <1>1, <1>2, <1>4, <1>5, AnswerStep DEF GatedAt, Tables, TypeOK, Write
<1>6. CASE Exists(path) /\ assets' = [assets EXCEPT ![path].downloads = @ + 1]
  <2>1. assets[path] \in Row /\ assets \in [Path -> Row \cup {NoRow}]
    BY <1>2, <1>6, RowFacts DEF Tables, TypeOK
  <2>2. /\ assets' \in [Path -> Row \cup {NoRow}] /\ assets'[path] \in Row
        /\ assets'[path].id = assets[path].id /\ assets'[path].vis = assets[path].vis
        /\ assets'[path].latest = assets[path].latest
        /\ \A p \in Path \ {path} : assets'[p] = assets[p]
    BY <1>6, <2>1 DEF Row
  <2>3. SameRows
    BY <1>1, <1>6, <2>2, MarketAssumption DEF SameRows, SameIds, Exists
  <2>4. /\ Continues(r) /\ reqs'[r].pc = "done" /\ reqs'[r].id = reqs[r].id
        /\ reqs'[r].status = "200" /\ reqs'[r].req = reqs[r].req /\ reqs'[r].read = reqs[r].read
    BY <1>4 DEF Answers, Continues, KeepsRead
  <2>5. ProgramAt(r)'
    BY <1>1, <1>2, <2>4 DEF ProgramAt, Lagging
  <2>6. KeptBy(r)'
    BY <2>4 DEF KeptBy, Pushed, Lagging
  <2>7. GatedAt(r)'
    BY <1>1, <1>2, <2>4 DEF GatedAt, IsOwner
  <2>8. PublishedItself'
    <3>1. \A p \in Path : Exists(p) /\ assets'[p].vis = "public" => assets[p].vis = "public"
      BY <2>2
    <3> QED
      BY <2>3, <2>4, <3>1, QuietPublished DEF IdFromRow, MarketInv, SameRows
  <2>9. LatestOK(path) => LatestOK(path)'
    BY <1>1, <1>6, <2>2, <2>3 DEF LatestOK, Visible, OfAsset, SameRows, SameIds
  <2> QED
    BY <1>1, <1>2, <1>3, <2>2, <2>3, <2>4, <2>5, <2>6, <2>7, <2>8, <2>9, RowStep DEF Write
<1> QED
  BY <1>3, <1>5, <1>6 DEF InstallCount

-----------------------------------------------------------------------------
(* The statements that add and delete rows.                                *)

\* A new row has a new id, no versions, and is private.
LEMMA PushInsertStep ==
    ASSUME MarketInv, NEW r \in Req, PushInsert(r)
    PROVE  MarketInv'
<1> USE DEF MarketInv
<1>1. reqs[r].pc = "insert" /\ versions' = versions
  BY DEF PushInsert
<1>2. /\ Tables /\ Running(r) /\ ProgramAt(r) /\ reqs[r] \in Handler /\ reqs[r].id = 0
      /\ reqs[r].status = "none" /\ reqs[r].req.op = "push" /\ reqs[r].req \in Request
  BY <1>1, AtStep DEF ProgramAt
<1>3. PICK path \in Path : PathOf(r) = path /\ reqs[r].req.path = path
  BY <1>1, AtStep
<1>4. CASE Exists(path)
  <2>1. Answers(r, "500") /\ "500" \in Statuses /\ UNCHANGED <<assets, versions, lastId>>
    BY <1>1, <1>2, <1>3, <1>4, AnswerAnswers DEF PushInsert, Statuses
  <2>2. clean' = [clean EXCEPT ![path] = FALSE]
    BY <1>3, <1>4 DEF PushInsert
  <2>3. clean' \in [Path -> BOOLEAN] /\ (\A p \in Path : clean'[p] => clean[p]) /\ ~clean'[path]
    BY <1>2, <2>2 DEF Tables, TypeOK
  <2> QED
    BY <1>3, <2>1, <2>3, AnswerStep
<1>5. CASE ~Exists(path)
  <2>1. PICK id \in Nat : id = lastId + 1 /\ lastId \in Nat
    BY <1>2 DEF Tables, TypeOK
  <2>2. PICK qv \in Version : qv = reqs[r].req.ver
    BY <1>2, RequestFields
  <2> DEFINE row == [id |-> id, latest |-> qv, meta |-> qv,
                     vis |-> "private", price |-> "0", downloads |-> 0]
  <2>3. row \in Row /\ row.id = id /\ row.vis = "private"
    BY MarketAssumption DEF Row, Visibility
  <2>4. /\ lastId' = id /\ clean' = clean
        /\ assets' = [assets EXCEPT ![path] = row]
        /\ reqs' = [reqs EXCEPT ![r].pc = "version", ![r].id = id]
    BY <1>3, <1>5, <2>1, <2>2 DEF PushInsert
  <2> HIDE DEF row
  <2>5. /\ assets' \in [Path -> Row \cup {NoRow}] /\ assets'[path] = row
        /\ \A p \in Path \ {path} : assets'[p] = assets[p]
    BY <1>2, <2>3, <2>4 DEF Tables, TypeOK
  <2>6. /\ Exists(path)'
        /\ \A p \in Path \ {path} : Exists(p)' <=> Exists(p)
    BY <2>3, <2>5, MarketAssumption DEF Exists
  <2>7. Sets(r, "version", id)
    BY <1>2, <2>4, GotoSetsId DEF PCs
  <2>8. /\ Continues(r) /\ reqs'[r].pc = "version" /\ reqs'[r].id = id
        /\ reqs'[r].req = reqs[r].req /\ PathOf(r)' = path /\ reqs'[r].status = "none"
        /\ \A s \in Req \ {r} : reqs'[s] = reqs[s] /\ PathOf(s)' = PathOf(s)
    BY <1>2, <1>3, <2>7 DEF Sets, Continues, Others, PathOf
  <2>9. Tables'
    BY <1>1, <1>2, <2>4, <2>5, <2>8 DEF Tables, TypeOK, Continues, Others
  <2>10. Program' /\ Gated'
    <3>1. ProgramAt(r)'
      BY <1>1, <1>2, <2>1, <2>8 DEF ProgramAt, Lagging
    <3>2. GatedAt(r)'
      BY <2>8 DEF GatedAt
    <3> QED
      BY <2>8, <3>1, <3>2, QuietAt DEF Continues
  <2>11. RowIds'
    <3>1. \A p \in Path : Exists(p)' => assets'[p].id \in 1..id
      BY <2>1, <2>3, <2>5, <2>6 DEF RowIds
    <3>2. \A p \in Path \ {path} : Exists(p)' => assets'[p].id # id
      BY <2>1, <2>5, <2>6 DEF RowIds
    <3>3. \A p, q \in Path : Exists(p)' /\ Exists(q)' /\ assets'[p].id = assets'[q].id => p = q
      BY <2>3, <2>5, <2>6, <3>2 DEF RowIds
    <3>4. \A v \in versions : v.asset \in 1..id
      BY <2>1 DEF RowIds
    <3> QED
      BY <1>1, <2>4, <3>1, <3>3, <3>4 DEF RowIds
  <2>12. HandlerIds'
    <3>1. \A s \in Req \ {r} : reqs'[s].id \in 0..lastId /\ reqs'[s].id # id
      BY <2>1, <2>8 DEF HandlerIds
    <3>2. \A s \in Req : reqs'[s].id \in 0..id
      BY <2>1, <2>8, <3>1
    <3>3. ASSUME NEW s \in Req, NEW p \in Path, reqs'[s].id # 0, Exists(p)',
                 assets'[p].id = reqs'[s].id
          PROVE  PathOf(s)' = p
      <4>1. CASE p = path
        BY <2>3, <2>5, <2>8, <3>1, <3>3, <4>1
      <4>2. CASE p # path
        <5>1. Exists(p) /\ assets[p].id = reqs'[s].id /\ assets[p].id # id
          BY <2>1, <2>5, <2>6, <3>3, <4>2 DEF RowIds
        <5> QED
          BY <2>8, <3>3, <5>1 DEF HandlerIds
      <4> QED
        BY <4>1, <4>2
    <3>4. ASSUME NEW s \in Req, NEW t \in Req, reqs'[s].id # 0, reqs'[s].id = reqs'[t].id
          PROVE  PathOf(s)' = PathOf(t)'
      BY <2>8, <3>1, <3>4 DEF HandlerIds
    <3> QED
      BY <2>4, <3>2, <3>3, <3>4 DEF HandlerIds
  <2>13. OneBody'
    BY <1>1 DEF OneBody
  <2>14. Kept'
    <3>1. KeptBy(r)'
      BY <2>3, <2>5, <2>6, <2>8 DEF KeptBy
    <3>2. ASSUME NEW s \in Req \ {r}, Pushed(s)', ~reqs'[s].swept PROVE KeptBy(s)'
      <4>1. Pushed(s) /\ KeptBy(s) /\ ~reqs[s].swept /\ reqs'[s] = reqs[s]
            /\ PathOf(s)' = PathOf(s)
        BY <2>8, <3>2 DEF Kept, Pushed
      <4>2. PathOf(s) \in Path
        BY <4>1, HasRequest DEF Pushed, Lagging, Program, ProgramAt
      <4>3. PathOf(s) # path
        BY <1>5, <4>1 DEF KeptBy
      <4> QED
        BY <1>1, <2>5, <2>6, <4>1, <4>2, <4>3 DEF KeptBy
    <3> QED
      BY <3>1, <3>2 DEF Kept, KeptBy
  <2>15. PublishedItself'
    <3>1. SUFFICES ASSUME NEW p \in Path, Exists(p)', assets'[p].vis = "public"
                   PROVE  \E s \in Req : PublishedBy(s, p)'
      BY DEF PublishedItself, PublishedBy
    <3>2. p # path /\ Exists(p) /\ assets'[p] = assets[p]
      BY <2>3, <2>5, <2>6, <3>1
    <3>3. PICK s \in Req : PublishedBy(s, p)
      BY <3>1, <3>2 DEF PublishedItself, PublishedBy
    <3>4. s # r
      BY <1>2, <3>2, <3>3 DEF PublishedBy
    <3> QED
      BY <2>8, <3>2, <3>3, <3>4 DEF PublishedBy
  <2>16. Serial'
    <3>1. Visible(path)' = {}
      BY <1>1, <2>1, <2>3, <2>5 DEF Visible, OfAsset, RowIds
    <3>2. Owes(r)'
      BY <2>3, <2>5, <2>6, <2>8, <3>1 DEF Owes, Lagging
    <3>3. \A p \in Path \ {path} : assets'[p] = assets[p] /\ Visible(p)' = Visible(p)
      BY <1>1, <2>5 DEF Visible, OfAsset, Exists
    <3> QED
      BY <1>2, <1>3, <2>4, <2>8, <3>2, <3>3, SerialStep DEF Write
  <2> QED
    BY <2>9, <2>10, <2>11, <2>12, <2>13, <2>14, <2>15, <2>16
<1> QED
  BY <1>4, <1>5

\* A new version is the only one of its asset and number.
LEMMA PushVersionStep ==
    ASSUME MarketInv, NEW r \in Req, PushVersion(r)
    PROVE  MarketInv'
<1> USE DEF MarketInv
<1>1. reqs[r].pc = "version" /\ UNCHANGED <<assets, lastId, clean>>
  BY DEF PushVersion
<1>2. /\ Tables /\ Running(r) /\ ProgramAt(r) /\ KeptBy(r) /\ reqs[r] \in Handler
      /\ reqs[r].id # 0 /\ reqs[r].status = "none" /\ reqs[r].req.op = "push"
      /\ reqs[r].req \in Request
  BY <1>1, AtStep DEF ProgramAt, Lagging
<1>3. PICK path \in Path : PathOf(r) = path
  BY <1>1, AtStep
<1>4. PICK id \in Nat, ver \in Version, body \in Body :
        id = reqs[r].id /\ ver = reqs[r].req.ver /\ body = reqs[r].req.body
  BY <1>2, RequestFields DEF Handler
<1>5. CASE \E v \in OfAsset(id) : v.ver = ver
  <2>1. Answers(r, "409") /\ "409" \in Statuses /\ UNCHANGED <<assets, versions, lastId>>
    BY <1>1, <1>2, <1>4, <1>5, AnswerAnswers DEF PushVersion, Statuses
  <2>2. ASSUME clean[path] PROVE LatestOK(path)
    <3>1. Exists(path) /\ assets[path].id = id /\ (LatestOK(path) \/ Visible(path) = {})
      BY <1>1, <1>2, <1>3, <1>4, <2>2, OwesNow DEF Owes, Lagging, Write
    <3> QED
      BY <1>5, <3>1 DEF Visible
  <2> QED
    BY <1>1, <1>2, <1>3, <2>1, <2>2, AnswerStep DEF Tables, TypeOK
<1>6. CASE ~\E v \in OfAsset(id) : v.ver = ver
  <2> DEFINE new == [asset |-> id, ver |-> ver, body |-> body]
  <2>1. versions' = versions \cup {new} /\ Goto(r, "scan")
    BY <1>4, <1>6 DEF PushVersion
  <2>2. new.asset = id /\ new.ver = ver /\ new \in [asset : Nat, ver : Version, body : Body]
    OBVIOUS
  <2>3. \A v \in versions : ~(v.asset = id /\ v.ver = ver)
    BY <1>6 DEF OfAsset
  <2> HIDE DEF new
  <2>4. Sets(r, "scan", id)
    BY <1>2, <1>4, <2>1, GotoSets DEF PCs
  <2>5. /\ Continues(r) /\ reqs'[r].pc = "scan" /\ reqs'[r].id = id
        /\ reqs'[r].req = reqs[r].req /\ PathOf(r)' = path /\ reqs'[r].status = "none"
        /\ reqs'[r].swept = reqs[r].swept
        /\ \A s \in Req \ {r} : reqs'[s] = reqs[s] /\ PathOf(s)' = PathOf(s)
    BY <1>2, <1>3, <2>4 DEF Sets, Continues, Others, PathOf
  <2>6. Tables'
    <3>1. IsFiniteSet(versions')
      BY <1>2, <2>1, FS_AddElement DEF Tables
    <3> QED
      BY <1>1, <1>2, <2>1, <2>2, <2>5, <3>1 DEF Tables, TypeOK, Continues, Others
  <2>7. Program' /\ Gated'
    <3>1. ProgramAt(r)'
      BY <1>1, <1>2, <1>4, <2>5 DEF ProgramAt, Lagging
    <3>2. GatedAt(r)'
      BY <2>5 DEF GatedAt
    <3> QED
      BY <2>5, <3>1, <3>2, QuietAt DEF Continues
  <2>8. SameIds /\ IdFromRow(r)
    BY <1>1, <1>2, <1>4, <2>5 DEF SameIds, IdFromRow, Exists, Tables, TypeOK
  <2>9. HandlerIds'
    BY <2>5, <2>8, QuietHandlers
  <2>10. RowIds'
    <3>1. id \in 1..lastId
      BY <1>2, <1>4 DEF HandlerIds, Tables, TypeOK
    <3> QED
      BY <1>1, <2>1, <2>2, <3>1 DEF RowIds, Exists
  <2>11. OneBody'
    BY <2>1, <2>2, <2>3 DEF OneBody
  <2>12. Kept'
    <3>1. KeptBy(r)'
      <4>1. reqs'[r].req.ver = ver /\ reqs'[r].req.body = body /\ new \in versions'
        BY <1>4, <2>1, <2>5
      <4>2. ~reqs[r].swept => Exists(path) /\ assets[path].id = id
        BY <1>1, <1>2, <1>3, <1>4 DEF KeptBy, Pushed, Lagging
      <4> QED
        BY <1>1, <2>5, <4>1, <4>2 DEF KeptBy, Exists, new
    <3>2. ASSUME NEW s \in Req \ {r}, Pushed(s)', ~reqs'[s].swept PROVE KeptBy(s)'
      <4>1. Pushed(s) /\ KeptBy(s) /\ ~reqs[s].swept /\ reqs'[s] = reqs[s]
            /\ PathOf(s)' = PathOf(s)
        BY <2>5, <3>2 DEF Kept, Pushed
      <4> QED
        BY <1>1, <2>1, <4>1 DEF KeptBy, Exists
    <3> QED
      BY <3>1, <3>2 DEF Kept, KeptBy
  <2>13. PublishedItself'
    BY <1>1, <2>5, <2>8, QuietPublished
  <2>14. Serial'
    <3>1. ASSUME clean[path] PROVE Owes(r)'
      <4>1. Exists(path) /\ assets[path].id = id
        BY <1>1, <1>2, <1>3, <1>4, <3>1, OwesNow DEF Owes, Lagging, Write
      <4> QED
        BY <1>1, <2>5, <4>1 DEF Owes, Lagging, Exists
    <3>2. ASSUME NEW p \in Path \ {path}
          PROVE  assets'[p] = assets[p] /\ Visible(p)' = Visible(p)
      <4>1. Exists(p) => assets[p].id # id
        BY <1>2, <1>3, <1>4 DEF HandlerIds
      <4> QED
        BY <1>1, <2>1, <2>2, <4>1 DEF Visible, OfAsset, Exists
    <3> QED
      BY <1>1, <1>2, <1>3, <2>5, <3>1, <3>2, SerialStep DEF Write
  <2> QED
    BY <2>6, <2>7, <2>9, <2>10, <2>11, <2>12, <2>13, <2>14
<1> QED
  BY <1>5, <1>6


\* DeleteAsset: the transaction takes the row of the resolved id with all its
\* versions, and marks the pushes of the path that began before.
LEMMA DeleteStep ==
    ASSUME MarketInv, NEW r \in Req, Delete(r)
    PROVE  MarketInv'
<1> USE DEF MarketInv
<1>1. Running(r) /\ reqs[r].pc = "delete" /\ ProgramAt(r)
  BY DEF Delete, Running, Program
<1>2. PICK id \in Nat, path \in Path : id = reqs[r].id /\ path = PathOf(r)
  <2>1. reqs[r].id \in Nat /\ PathOf(r) \in Path
    BY <1>1, HasRequest DEF Running, Handler
  <2> QED
    BY <2>1
<1>3. /\ reqs[r] \in Handler /\ reqs[r].req \in Request /\ reqs[r].req.op = "unpush"
      /\ id \in Nat /\ id # 0
  BY <1>1, <1>2, HasRequest DEF Running, ProgramAt, Handler
<1>4. /\ versions' = versions \ OfAsset(id) /\ lastId' = lastId /\ clean' = clean
      /\ assets' = [p \in Path |-> IF Exists(p) /\ assets[p].id = id
                                   THEN NoRow ELSE assets[p]]
  BY <1>2 DEF Delete
<1>5. /\ reqs'[r] = [reqs[r] EXCEPT !.pc = "done", !.status = "200"]
      /\ \A s \in Req \ {r} :
            reqs'[s] = IF reqs[s].pc # "idle" /\ PathOf(s) = path
                       THEN [reqs[s] EXCEPT !.swept = TRUE] ELSE reqs[s]
  BY <1>2 DEF Delete, PathOf
<1>6. /\ reqs'[r] \in Handler /\ reqs'[r].pc = "done" /\ reqs'[r].status = "200"
      /\ reqs'[r].req = reqs[r].req /\ reqs'[r].id = id
  BY <1>2, <1>3, <1>5 DEF Handler
<1>7. ASSUME NEW s \in Req \ {r}
      PROVE  /\ reqs'[s] \in Handler /\ reqs'[s].pc = reqs[s].pc
             /\ reqs'[s].req = reqs[s].req /\ reqs'[s].status = reqs[s].status
             /\ reqs'[s].id = reqs[s].id /\ reqs'[s].ver = reqs[s].ver
             /\ reqs'[s].vis = reqs[s].vis /\ reqs'[s].read = reqs[s].read
             /\ reqs[s].pc # "idle" /\ PathOf(s) = path => reqs'[s].swept = TRUE
             /\ reqs[s].pc = "idle" \/ PathOf(s) # path => reqs'[s].swept = reqs[s].swept
  <2>1. reqs[s] \in Handler
    BY DEF Tables, TypeOK
  <2>2. CASE reqs[s].pc # "idle" /\ PathOf(s) = path
    <3>1. reqs'[s] = [reqs[s] EXCEPT !.swept = TRUE]
      BY <1>5, <2>2
    <3> QED
      BY <2>1, <2>2, <3>1 DEF Handler
  <2>3. CASE ~(reqs[s].pc # "idle" /\ PathOf(s) = path)
    BY <1>5, <2>1, <2>3
  <2> QED
    BY <2>2, <2>3
<1>8. \A s \in Req : reqs'[s].req = reqs[s].req /\ reqs'[s].id = reqs[s].id
                     /\ PathOf(s)' = PathOf(s)
  BY <1>2, <1>6, <1>7 DEF PathOf
<1>9. \A p \in Path : Exists(p) /\ assets[p].id = id => p = path
  BY <1>2, <1>3 DEF HandlerIds
<1>10. \A p \in Path : assets'[p] = IF Exists(p) /\ assets[p].id = id THEN NoRow ELSE assets[p]
  BY <1>4
<1>11. \A p \in Path : Exists(p)' => /\ Exists(p) /\ assets[p].id # id
                                     /\ assets'[p] = assets[p] /\ Visible(p)' = Visible(p)
  <2>1. ASSUME NEW p \in Path, Exists(p)'
        PROVE  Exists(p) /\ assets[p].id # id /\ assets'[p] = assets[p]
    BY <1>10, <2>1 DEF Exists
  <2> QED
    BY <1>4, <2>1 DEF Visible, OfAsset
<1>12. \A p \in Path \ {path} : assets'[p] = assets[p] /\ Visible(p)' = Visible(p)
  <2>1. ASSUME NEW p \in Path \ {path} PROVE assets'[p] = assets[p]
    BY <1>9, <1>10
  <2> QED
    BY <1>11, <2>1 DEF Exists, Visible
<1>13. Tables'
  <2>1. assets' \in [Path -> Row \cup {NoRow}]
    BY <1>4 DEF Tables, TypeOK
  <2>2. versions' \in SUBSET versions
    BY <1>4
  <2>3. IsFiniteSet(versions')
    BY <2>2, FS_Subset DEF Tables
  <2>4. reqs' \in [Req -> Handler]
    <3>1. reqs' = [s \in Req |-> reqs'[s]]
      BY DEF Delete
    <3>2. \A s \in Req : reqs'[s] \in Handler
      BY <1>6, <1>7
    <3> QED
      BY <3>1, <3>2
  <2> QED
    BY <1>4, <2>1, <2>2, <2>3, <2>4 DEF Tables, TypeOK
<1>14. Program'
  <2>1. ProgramAt(r)'
    BY <1>3, <1>6 DEF ProgramAt, Lagging
  <2>2. ASSUME NEW s \in Req \ {r} PROVE ProgramAt(s)'
    <3>1. ProgramAt(s)
      BY DEF Program
    <3>2. /\ reqs'[s].pc = reqs[s].pc /\ reqs'[s].req = reqs[s].req
          /\ reqs'[s].status = reqs[s].status /\ reqs'[s].id = reqs[s].id
      BY <1>7
    <3> QED
      BY <3>1, <3>2 DEF ProgramAt
  <2> QED
    BY <2>1, <2>2 DEF Program
<1>15. RowIds' /\ OneBody'
  <2>1. versions' \subseteq versions
    BY <1>4
  <2> QED
    BY <1>4, <1>11, <2>1 DEF RowIds, OneBody
<1>16. HandlerIds'
  BY <1>4, <1>8, <1>11 DEF HandlerIds
<1>17. Kept'
  <2>1. SUFFICES ASSUME NEW s \in Req, Pushed(s)', ~reqs'[s].swept PROVE KeptBy(s)'
    BY DEF Kept, KeptBy
  <2>2. s # r
    BY <1>3, <1>6, <2>1 DEF Pushed, Lagging
  <2>3. Pushed(s)
    BY <1>7, <2>1, <2>2 DEF Pushed
  <2>4. reqs[s].pc # "idle"
    BY <2>3 DEF Pushed, Lagging, Program, ProgramAt
  <2>5. PathOf(s) # path /\ ~reqs[s].swept
    BY <1>7, <2>1, <2>2, <2>4
  <2>6. PathOf(s) \in Path \ {path}
    BY <2>4, <2>5, HasRequest
  <2>7. /\ Exists(PathOf(s)) /\ assets[PathOf(s)].id = reqs[s].id
        /\ reqs[s].pc # "version" =>
             [asset |-> reqs[s].id, ver |-> reqs[s].req.ver, body |-> reqs[s].req.body]
                \in versions
    BY <2>3, <2>5 DEF Kept, KeptBy
  <2>8. reqs[s].id # id
    BY <1>9, <2>6, <2>7
  <2>9. Exists(PathOf(s))' /\ assets'[PathOf(s)] = assets[PathOf(s)]
    BY <1>8, <1>12, <2>6, <2>7 DEF Exists
  <2> QED
    BY <1>4, <1>7, <1>8, <2>2, <2>7, <2>8, <2>9 DEF KeptBy, OfAsset
<1>18. Gated'
  <2>1. GatedAt(r)'
    BY <1>3, <1>6 DEF GatedAt
  <2>2. ASSUME NEW s \in Req \ {r} PROVE GatedAt(s)'
    <3>1. GatedAt(s)
      BY DEF Gated
    <3>2. /\ reqs'[s].pc = reqs[s].pc /\ reqs'[s].req = reqs[s].req
          /\ reqs'[s].status = reqs[s].status /\ reqs'[s].vis = reqs[s].vis
          /\ reqs'[s].read = reqs[s].read
      BY <1>7
    <3> QED
      BY <3>1, <3>2 DEF GatedAt, IsOwner
  <2> QED
    BY <2>1, <2>2 DEF Gated
<1>19. PublishedItself'
  <2>1. SUFFICES ASSUME NEW p \in Path, Exists(p)', assets'[p].vis = "public"
                 PROVE  \E s \in Req : PublishedBy(s, p)'
    BY DEF PublishedItself, PublishedBy
  <2>2. Exists(p) /\ assets'[p] = assets[p]
    BY <1>11, <2>1
  <2>3. PICK s \in Req : PublishedBy(s, p)
    BY <2>1, <2>2 DEF PublishedItself, PublishedBy
  <2>4. s # r
    BY <1>3, <2>3 DEF PublishedBy
  <2> QED
    BY <1>7, <1>8, <2>2, <2>3, <2>4 DEF PublishedBy
<1>20. Serial'
  <2>1. LatestOK(path)' \/ ~clean'[path]
    <3>1. SUFFICES ASSUME clean[path], Exists(path)' PROVE LatestOK(path)'
      BY <1>4 DEF LatestOK
    <3>2. LatestOK(path)
      BY <1>1, <1>2, <1>3, <3>1, OwesNow DEF Owes, Lagging, Write
    <3>3. Exists(path) /\ assets'[path] = assets[path] /\ Visible(path)' = Visible(path)
      BY <1>11, <3>1
    <3> QED
      BY <3>2, <3>3 DEF LatestOK
  <2>2. reqs[r].req.op \in Write
    BY <1>3 DEF Write
  <2>3. \A s \in Req \ {r} : /\ reqs'[s].pc = reqs[s].pc /\ reqs'[s].req = reqs[s].req
                             /\ reqs'[s].id = reqs[s].id /\ reqs'[s].ver = reqs[s].ver
    BY <1>7
  <2>4. PathOf(r) = path /\ Running(r) /\ reqs'[r].pc = "done" /\ reqs'[r].req = reqs[r].req
    BY <1>1, <1>2, <1>6
  <2>5. clean'[path] => IF reqs'[r].pc = "done" THEN LatestOK(path)' ELSE Owes(r)'
    BY <2>1, <2>4
  <2>6. (\A p \in Path : clean'[p] => clean[p]) /\ reqs'[r].pc # "idle"
    BY <1>4, <2>4
  <2> QED
    BY <1>12, <2>2, <2>3, <2>4, <2>5, <2>6, SerialStep
<1> QED
  BY <1>13, <1>14, <1>15, <1>16, <1>17, <1>18, <1>19, <1>20

-----------------------------------------------------------------------------
(* The inductive invariant.                                                *)

\* Empty tables and idle handlers.
LEMMA MarketInit == Init => MarketInv
<1> SUFFICES ASSUME Init PROVE MarketInv
  OBVIOUS
<1>1. Idle \in Handler
  BY DEF Idle, Handler, Visibility
<1>2. /\ \A p \in Path : ~Exists(p) /\ clean[p] = TRUE
      /\ \A r \in Req : reqs[r] = Idle
      /\ versions = {} /\ lastId = 0
  BY DEF Init, Exists
<1>3. /\ Idle.pc = "idle" /\ Idle.status = "none" /\ Idle.id = 0 /\ Idle.swept = FALSE
  BY DEF Idle
<1>4. Tables
  <2>1. TypeOK
    BY <1>1 DEF Init, TypeOK
  <2> QED
    BY <1>2, <2>1, FS_EmptySet DEF Tables
<1>5. Program
  BY <1>2, <1>3 DEF Program, ProgramAt, Lagging
<1>6. RowIds /\ HandlerIds /\ OneBody
  BY <1>2, <1>3 DEF RowIds, HandlerIds, OneBody
<1>7. Kept
  BY <1>2, <1>3 DEF Kept, KeptBy, Pushed, Lagging
<1>8. Gated
  BY <1>2, <1>3 DEF Gated, GatedAt
<1>9. PublishedItself
  BY <1>2 DEF PublishedItself
<1>10. Serial
  <2>1. \A r \in Req, p \in Path : ~Writes(r, p)
    BY <1>2, <1>3 DEF Writes, Running
  <2>2. \A p \in Path : LatestOK(p)
    BY <1>2 DEF LatestOK
  <2> QED
    BY <2>1, <2>2 DEF Serial, SerialAt
<1> QED
  BY <1>4, <1>5, <1>6, <1>7, <1>8, <1>9, <1>10 DEF MarketInv

\* Nothing moves.
LEMMA MarketStutter == MarketInv /\ UNCHANGED vars => MarketInv'
<1> SUFFICES ASSUME MarketInv, UNCHANGED vars PROVE MarketInv'
  OBVIOUS
<1> USE DEF vars, MarketInv
<1>1. Tables' /\ Program' /\ RowIds' /\ HandlerIds' /\ OneBody'
  BY DEF Tables, TypeOK, Program, ProgramAt, RowIds, HandlerIds, OneBody, Exists, PathOf
<1>2. Kept' /\ Gated' /\ PublishedItself'
  BY DEF Kept, KeptBy, Pushed, Gated, GatedAt, IsOwner, PublishedItself, Exists, PathOf
<1>3. Serial'
  <2>1. \A p : Visible(p)' = Visible(p) /\ Exists(p)' = Exists(p) /\ assets'[p] = assets[p]
    BY DEF Visible, OfAsset, Exists
  <2>2. \A p : LatestOK(p)' = LatestOK(p)
    BY <2>1, Zenon DEF LatestOK
  <2>3. \A r : Owes(r)' = Owes(r)
    BY <2>1, <2>2, Zenon DEF Owes, PathOf
  <2>4. \A r, p : Writes(r, p)' = Writes(r, p)
    BY Zenon DEF Writes, Running, PathOf
  <2> QED
    BY <2>2, <2>3, <2>4, Zenon DEF Serial, SerialAt
<1> QED
  BY <1>1, <1>2, <1>3

\* Every statement of every handler, its failure, and what the HTTP layer does
\* with a request.
LEMMA MarketStep == MarketInv /\ [Next]_vars => MarketInv'
<1> SUFFICES ASSUME MarketInv, [Next]_vars PROVE MarketInv'
  OBVIOUS
<1>1. ASSUME NEW r \in Req, NEW q \in Request, Accept(r, q) PROVE MarketInv'
  BY <1>1, AcceptStep
<1>2. ASSUME NEW r \in Req, NEW q \in Request, Refuse(r, q) PROVE MarketInv'
  BY <1>2, RefuseStep
<1>3. ASSUME NEW r \in Req, Fail(r) PROVE MarketInv'
  BY <1>3, FailStep
<1>4. ASSUME NEW r \in Req, Step(r) PROVE MarketInv'
  <2>1. CASE PushSelect(r) \/ PushInsert(r) \/ PushVersion(r)
    BY <2>1, PushSelectStep, PushInsertStep, PushVersionStep
  <2>2. CASE PushScan(r) \/ PushUpdate(r) \/ Reread(r)
    BY <2>2, PushScanStep, PushUpdateStep, RereadStep
  <2>3. CASE Resolve(r) \/ PatchCurrent(r) \/ PatchWrite(r) \/ Delete(r)
    BY <2>3, ResolveStep, PatchCurrentStep, PatchWriteStep, DeleteStep
  <2>4. CASE InstallLatest(r) \/ InstallBody(r) \/ InstallCount(r)
    BY <2>4, InstallLatestStep, InstallBodyStep, InstallCountStep
  <2>5. CASE GetRow(r) \/ ListVersions(r)
    BY <2>5, GetRowStep, ListVersionsStep
  <2> QED
    BY <1>4, <2>1, <2>2, <2>3, <2>4, <2>5 DEF Step
<1>5. CASE UNCHANGED vars
  BY <1>5, MarketStutter
<1> QED
  BY <1>1, <1>2, <1>3, <1>4, <1>5 DEF Next

\* Between any two SQL statements of any handlers: the tables are typed, ids
\* are never reused, a version has one body, and every handler is where its
\* own statements have brought it.
THEOREM MarketInvariant == Spec => []MarketInv
BY MarketInit, MarketStep, PTL DEF Spec

\* The tables and the handlers keep their types (Store, handlers.go).
THEOREM MarketTypesCorrect == Spec => []TypeOK
<1>1. MarketInv => TypeOK
  BY DEF MarketInv, Tables
<1> QED
  BY <1>1, MarketInvariant, PTL

\* asset_versions never holds two bodies for one version of an asset: PutAsset
\* relies on UNIQUE(asset_id, version) alone, with no transaction around it.
THEOREM OneBodyCorrect == Spec => []OneBody
<1>1. MarketInv => OneBody
  BY DEF MarketInv
<1> QED
  BY <1>1, MarketInvariant, PTL

\* A push that PutAsset acknowledged with 201 is served with its own body until
\* an unpush that ran after it began, whatever other handlers interleave.
THEOREM AckedPushCorrect == Spec => []AckedPushKept
<1>1. ASSUME MarketInv PROVE AckedPushKept
  <2>1. SUFFICES ASSUME NEW r \in Req, reqs[r].status = "201", ~reqs[r].swept
                 PROVE  \E v \in Visible(PathOf(r)) :
                           v.ver = reqs[r].req.ver /\ v.body = reqs[r].req.body
    BY DEF AckedPushKept
  <2>2. Pushed(r) /\ KeptBy(r) /\ reqs[r].pc = "done"
    BY <1>1, <2>1 DEF MarketInv, Kept, Pushed, Program, ProgramAt
  <2>3. Exists(PathOf(r)) /\ assets[PathOf(r)].id = reqs[r].id
        /\ [asset |-> reqs[r].id, ver |-> reqs[r].req.ver, body |-> reqs[r].req.body]
             \in versions
    BY <2>1, <2>2 DEF KeptBy
  <2> QED
    BY <2>3 DEF Visible, OfAsset
<1> QED
  BY <1>1, MarketInvariant, PTL

\* GET install and GET meta hand a recipe body, or the row of an asset, to someone
\* else than the author only if the asset was public at the SELECT that read the
\* body or the row.  The lists of versions are outside: GET meta reads its list in
\* a later statement, and GET versions is not gated at all.
THEOREM GatedCorrect == Spec => []PrivateReadGated
<1>1. MarketInv => PrivateReadGated
  BY DEF MarketInv, Gated, GatedAt, PrivateReadGated, ToStranger
<1> QED
  BY <1>1, MarketInvariant, PTL

\* SetVisibility writes by the id it resolved: a public asset was published by
\* a request that resolved this very row, never one deleted before it.
THEOREM PublishedCorrect == Spec => []PublishedItself
<1>1. MarketInv => PublishedItself
  BY DEF MarketInv
<1> QED
  BY <1>1, MarketInvariant, PTL

\* Once the writes of a path came one after the other and none failed,
\* refreshLatest has left latest_version at the greatest version.
THEOREM LatestSerialCorrect == Spec => []LatestIsMaxSerial
<1>1. ASSUME MarketInv PROVE LatestIsMaxSerial
  <2>1. SUFFICES ASSUME NEW p \in Path, clean[p], NoWriteRunning(p) PROVE LatestOK(p)
    BY DEF LatestIsMaxSerial
  <2>2. SerialAt(p)
    BY <1>1, <2>1 DEF MarketInv, Serial
  <2>3. \A r \in Req : ~Writes(r, p)
    BY <2>1 DEF NoWriteRunning, Writes
  <2> QED
    BY <2>2, <2>3 DEF SerialAt
<1> QED
  BY <1>1, MarketInvariant, PTL
=============================================================================
