------------------------------- MODULE Market -------------------------------
(***************************************************************************)
(* The market registry (pkg/market): HTTP handlers that run concurrently    *)
(* over the SQL tables assets and asset_versions.  Only DeleteAsset uses a  *)
(* transaction; every other statement commits by itself, so one statement   *)
(* is one action and all others may run between two statements of a handler.*)
(* A request that verifyWrite let through carries its signer.               *)
(***************************************************************************)
EXTENDS Integers, FiniteSets, FiniteSetsExt

CONSTANTS
    Req,         \* request goroutines
    Path,        \* {type}/{author}/{name} of an asset
    Author,      \* EOA addresses
    AuthorOf,    \* the author of a path
    Version,     \* versions, numbered in semver order
    Body,        \* recipe bodies
    Edit,        \* tags / summary values set by PATCH meta
    Price,       \* prices (with their token) set by PATCH price, "0" included
    Request,     \* the requests clients send
    NoSigner,    \* verifyWrite recovered no author
    NoVersion,   \* ?version= omitted, or latest_version ''
    NoRow, NoRequest

Visibility == {"public", "private"}

PushReq    == [op : {"push"}, path : Path, ver : Version, body : Body,
               signer : Author \cup {NoSigner}, ok : BOOLEAN]
Patched(op, vals) == [op : {op}, path : Path, val : vals,
                      signer : Author \cup {NoSigner}, ok : BOOLEAN]
PatchReq   == Patched("visibility", Visibility) \cup Patched("price", Price)
              \cup Patched("meta", Edit)
UnpushReq  == [op : {"unpush"}, path : Path, signer : Author \cup {NoSigner}]
ReadReq    == [op : {"install", "get", "versions"}, path : Path,
               ver : Version \cup {NoVersion}, signer : Author \cup {NoSigner}]

Write == {"push", "visibility", "price", "meta", "unpush"}

\* assets: `meta` is the version whose header the summary and tags come from,
\* or the value PATCH meta set.
Row == [id : Nat, latest : Version \cup {NoVersion}, meta : Version \cup Edit,
        vis : Visibility, price : Price, downloads : Nat]

ASSUME MarketAssumption ==
    /\ AuthorOf \in [Path -> Author]
    /\ Version \subseteq Nat
    /\ "0" \in Price
    /\ NoSigner \notin Author /\ NoVersion \notin Version
    /\ Request \subseteq PushReq \cup PatchReq \cup UnpushReq \cup ReadReq
    /\ NoRequest \notin Request /\ NoRow \notin Row

VARIABLES
    assets,    \* path -> its row, NoRow when absent
    versions,  \* asset_versions: {[asset, ver, body]}
    lastId,    \* AUTOINCREMENT of assets
    reqs,      \* the handlers
    clean      \* history: no write of the path overlapped another or failed

vars == <<assets, versions, lastId, reqs, clean>>

Idle == [pc |-> "idle", req |-> NoRequest, status |-> "none", id |-> 0,
         ver |-> NoVersion, vis |-> "private", read |-> "private", listed |-> "public",
         swept |-> FALSE]

Init ==
    /\ assets = [p \in Path |-> NoRow]
    /\ versions = {}
    /\ lastId = 0
    /\ reqs = [r \in Req |-> Idle]
    /\ clean = [p \in Path |-> TRUE]

-----------------------------------------------------------------------------
Exists(p) == assets[p] # NoRow
OfAsset(id) == {v \in versions : v.asset = id}

\* SELECT ... FROM asset_versions v JOIN assets a: the versions of a path.
Visible(p) == IF Exists(p) THEN OfAsset(assets[p].id) ELSE {}

Running(r) == reqs[r].pc \notin {"idle", "done"}
PathOf(r) == reqs[r].req.path
IsOwner(q) == q.signer = AuthorOf[q.path]

\* Handler r goes on to pc, or writes its response.
Goto(r, pc) == reqs' = [reqs EXCEPT ![r].pc = pc]
Answer(r, status) == reqs' = [reqs EXCEPT ![r].pc = "done", ![r].status = status]

-----------------------------------------------------------------------------
(* The HTTP layer: routing, verifyWriteAuthor and request validation.      *)

FirstStep(op) ==
    CASE op = "push" -> "select"
      [] op \in {"visibility", "price", "meta", "unpush"} -> "resolve"
      [] op = "install" -> "latest"
      [] op = "get" -> "row"
      [] op = "versions" -> "list"

\* A request arrives and is let through: writes only from the path's author
\* with a valid body; reads by anyone (a private asset is gated later).
Accept(r, q) ==
    /\ reqs[r].pc = "idle"
    /\ q.op \in Write => IsOwner(q)
    /\ q.op \in Write \ {"unpush"} => q.ok
    /\ reqs' = [reqs EXCEPT ![r] =
                   [Idle EXCEPT !.pc = FirstStep(q.op), !.req = q,
                                !.ver = IF q.op \in {"install", "get"} THEN q.ver
                                        ELSE NoVersion]]
    /\ clean' = [clean EXCEPT ![q.path] =
                    @ /\ ~(/\ q.op \in Write
                           /\ \E s \in Req : /\ Running(s) /\ reqs[s].req.op \in Write
                                             /\ PathOf(s) = q.path)]
    /\ UNCHANGED <<assets, versions, lastId>>

\* verifyWriteAuthor answers 401, a malformed body or recipe 400.
Refuse(r, q) ==
    /\ reqs[r].pc = "idle"
    /\ q.op \in Write
    /\ reqs' = [reqs EXCEPT ![r] =
                   [Idle EXCEPT !.pc = "done", !.req = q,
                                !.status = IF IsOwner(q) THEN "400" ELSE "401"]]
    /\ ~IsOwner(q) \/ (q.op # "unpush" /\ ~q.ok)
    /\ UNCHANGED <<assets, versions, lastId, clean>>

-----------------------------------------------------------------------------
(* POST push: PutAsset and refreshLatest.                                  *)

\* authorID (whose lost race re-selects) and SELECT id FROM assets.
PushSelect(r) ==
    /\ reqs[r].pc = "select"
    /\ IF Exists(PathOf(r))
       THEN reqs' = [reqs EXCEPT ![r].pc = "version", ![r].id = assets[PathOf(r)].id]
       ELSE Goto(r, "insert")
    /\ UNCHANGED <<assets, versions, lastId, clean>>

\* INSERT INTO assets: private and free; UNIQUE(type, author_id, name) fails a
\* push that lost the race for the first version, which answers 500.
PushInsert(r) ==
    LET q == reqs[r].req IN
    /\ reqs[r].pc = "insert"
    /\ IF Exists(q.path)
       THEN /\ Answer(r, "500")
            /\ clean' = [clean EXCEPT ![q.path] = FALSE]
            /\ UNCHANGED <<assets, lastId>>
       ELSE /\ lastId' = lastId + 1
            /\ assets' = [assets EXCEPT ![q.path] =
                  [id |-> lastId + 1, latest |-> q.ver, meta |-> q.ver,
                   vis |-> "private", price |-> "0", downloads |-> 0]]
            /\ reqs' = [reqs EXCEPT ![r].pc = "version", ![r].id = lastId + 1]
            /\ UNCHANGED clean
    /\ UNCHANGED versions

\* Mutant: INSERT OR REPLACE.
MutPushVersion(r) ==
    LET q == reqs[r].req IN
    /\ reqs[r].pc = "version"
    /\ versions' = {v \in versions : v.asset # reqs[r].id \/ v.ver # q.ver}
                   \cup {[asset |-> reqs[r].id, ver |-> q.ver, body |-> q.body]}
    /\ Goto(r, "scan")
    /\ UNCHANGED <<assets, lastId, clean>>

\* INSERT INTO asset_versions: UNIQUE(asset_id, version) makes a duplicate 409.
\* Nothing ties asset_id to a row of assets.
PushVersion(r) ==
    LET q == reqs[r].req IN
    /\ reqs[r].pc = "version"
    /\ IF \E v \in OfAsset(reqs[r].id) : v.ver = q.ver
       THEN Answer(r, "409") /\ UNCHANGED versions
       ELSE /\ versions' = versions \cup
                             {[asset |-> reqs[r].id, ver |-> q.ver, body |-> q.body]}
            /\ Goto(r, "scan")
    /\ UNCHANGED <<assets, lastId, clean>>

\* Mutant: no rows read as version 0.
MutMaxVersion(vs) == IF vs = {} THEN 0 ELSE Max({v.ver : v \in vs})

\* The greatest version among vs, '' when there is none.
MaxVersion(vs) == IF vs = {} THEN NoVersion ELSE Max({v.ver : v \in vs})

\* Mutant: the version pushed last is taken for the latest.
MutPushScan(r) ==
    /\ reqs[r].pc = "scan"
    /\ reqs' = [reqs EXCEPT ![r].pc = "update", ![r].ver = reqs[r].req.ver]
    /\ UNCHANGED <<assets, versions, lastId, clean>>

\* refreshLatest's SELECT version FROM asset_versions.
PushScan(r) ==
    /\ reqs[r].pc = "scan"
    /\ reqs' = [reqs EXCEPT ![r].pc = "update",
                            ![r].ver = MaxVersion(OfAsset(reqs[r].id))]
    /\ UNCHANGED <<assets, versions, lastId, clean>>

\* refreshLatest's UPDATE assets ... WHERE id = ?: the metadata follows only
\* when the pushed version is the latest.
PushUpdate(r) ==
    LET h == reqs[r]
        q == h.req
    IN
    /\ h.pc = "update"
    /\ assets' = [p \in Path |->
                    IF Exists(p) /\ assets[p].id = h.id
                    THEN [assets[p] EXCEPT !.latest = h.ver,
                                           !.meta = IF h.ver = q.ver THEN q.ver ELSE @]
                    ELSE assets[p]]
    /\ Goto(r, "reread")
    /\ UNCHANGED <<versions, lastId, clean>>

\* The GetAsset that renders the answer of a push or of a changed PATCH; an
\* asset deleted meanwhile still answers 201 / 200.
Reread(r) ==
    /\ reqs[r].pc = "reread"
    /\ Answer(r, IF reqs[r].req.op = "push" THEN "201" ELSE "200")
    /\ UNCHANGED <<assets, versions, lastId, clean>>

-----------------------------------------------------------------------------
(* PATCH visibility / price / meta, DELETE unpush.                         *)

\* assetIDVis.
Resolve(r) ==
    LET q == reqs[r].req IN
    /\ reqs[r].pc = "resolve"
    /\ IF Exists(q.path)
       THEN LET row == assets[q.path] IN
            IF q.op = "visibility" /\ row.vis = q.val THEN Answer(r, "skip")
            ELSE reqs' = [reqs EXCEPT ![r].id = row.id,
                                      ![r].pc = CASE q.op = "visibility" -> "write"
                                                  [] q.op = "unpush" -> "delete"
                                                  [] OTHER -> "current"]
       ELSE Answer(r, IF q.op = "unpush" THEN "skip" ELSE "404")
    /\ UNCHANGED <<assets, versions, lastId, clean>>

\* SetPrice / SetMeta read the current values by id: the row may be gone.
PatchCurrent(r) ==
    LET q == reqs[r].req
        row == assets[q.path]
    IN
    /\ reqs[r].pc = "current"
    /\ IF Exists(q.path) /\ row.id = reqs[r].id
       THEN IF q.val = (IF q.op = "price" THEN row.price ELSE row.meta)
            THEN Answer(r, "skip") ELSE Goto(r, "write")
       ELSE Answer(r, "500")
    /\ UNCHANGED <<assets, versions, lastId, clean>>

\* Mutant: the row is found by path again in place of the resolved id.
MutPatchWrite(r) ==
    LET q == reqs[r].req IN
    /\ reqs[r].pc = "write"
    /\ assets' = IF Exists(q.path) /\ q.op = "visibility"
                 THEN [assets EXCEPT ![q.path].vis = q.val] ELSE assets
    /\ Goto(r, "reread")
    /\ UNCHANGED <<versions, lastId, clean>>

\* UPDATE assets SET ... WHERE id = ?.
PatchWrite(r) ==
    LET h == reqs[r]
        q == h.req
        Patch(row) == CASE q.op = "visibility" -> [row EXCEPT !.vis = q.val]
                        [] q.op = "price" -> [row EXCEPT !.price = q.val]
                        [] q.op = "meta" -> [row EXCEPT !.meta = q.val]
    IN
    /\ h.pc = "write"
    /\ assets' = [p \in Path |-> IF Exists(p) /\ assets[p].id = h.id
                                 THEN Patch(assets[p]) ELSE assets[p]]
    /\ Goto(r, "reread")
    /\ UNCHANGED <<versions, lastId, clean>>

\* DeleteAsset's transaction: the versions and the row of the resolved id.  The
\* pushes that began before it are marked as swept.
Delete(r) ==
    LET h == reqs[r] IN
    /\ h.pc = "delete"
    /\ versions' = versions \ OfAsset(h.id)
    /\ assets' = [p \in Path |-> IF Exists(p) /\ assets[p].id = h.id
                                 THEN NoRow ELSE assets[p]]
    /\ reqs' = [s \in Req |->
                  IF s = r THEN [h EXCEPT !.pc = "done", !.status = "200"]
                  ELSE IF reqs[s].pc # "idle" /\ PathOf(s) = h.req.path
                       THEN [reqs[s] EXCEPT !.swept = TRUE] ELSE reqs[s]]
    /\ UNCHANGED <<lastId, clean>>

-----------------------------------------------------------------------------
(* GET install / meta / versions.                                          *)

\* GetRecipe resolves the latest version when none is given.
InstallLatest(r) ==
    LET p == PathOf(r) IN
    /\ reqs[r].pc = "latest"
    /\ IF reqs[r].ver # NoVersion THEN Goto(r, "body")
       ELSE IF Exists(p)
            THEN reqs' = [reqs EXCEPT ![r].pc = "body", ![r].ver = assets[p].latest,
                                      ![r].vis = assets[p].vis]
            ELSE Answer(r, "404")
    /\ UNCHANGED <<assets, versions, lastId, clean>>

\* Mutant: the gate uses the visibility read along with latest_version.
MutInstallBody(r) ==
    LET p == PathOf(r) IN
    /\ reqs[r].pc = "body"
    /\ IF /\ \E v \in Visible(p) : v.ver = reqs[r].ver
          /\ reqs[r].vis = "private" => IsOwner(reqs[r].req)
       THEN reqs' = [reqs EXCEPT ![r].pc = "count", ![r].read = assets[p].vis]
       ELSE Answer(r, "404")
    /\ UNCHANGED <<assets, versions, lastId, clean>>

\* GetRecipe reads body and visibility in one SELECT; a private asset is
\* hidden from everyone but its author.
InstallBody(r) ==
    LET p == PathOf(r) IN
    /\ reqs[r].pc = "body"
    /\ IF /\ \E v \in Visible(p) : v.ver = reqs[r].ver
          /\ assets[p].vis = "private" => IsOwner(reqs[r].req)
       THEN reqs' = [reqs EXCEPT ![r].pc = "count", ![r].vis = assets[p].vis,
                                 ![r].read = assets[p].vis]
       ELSE Answer(r, "404")
    /\ UNCHANGED <<assets, versions, lastId, clean>>

\* IncrDownloads by path, whose error is ignored, and the body goes out.
InstallCount(r) ==
    LET p == PathOf(r) IN
    /\ reqs[r].pc = "count"
    /\ \/ Exists(p) /\ assets' = [assets EXCEPT ![p].downloads = @ + 1]
       \/ UNCHANGED assets
    /\ Answer(r, "200")
    /\ UNCHANGED <<versions, lastId, clean>>

\* GetAsset's first SELECT.
GetRow(r) ==
    LET p == PathOf(r) IN
    /\ reqs[r].pc = "row"
    /\ IF Exists(p)
       THEN reqs' = [reqs EXCEPT ![r].pc = "list", ![r].vis = assets[p].vis,
                                 ![r].read = assets[p].vis]
       ELSE Answer(r, "404")
    /\ UNCHANGED <<assets, versions, lastId, clean>>

\* ListVersions; GET meta then looks for the pinned version and gates on the
\* visibility it read before, GET versions answers without a gate.  `listed` is
\* the visibility of the asset whose versions go out.
ListVersions(r) ==
    LET q == reqs[r].req
        found == IF reqs[r].ver = NoVersion THEN q.op = "get" \/ Visible(q.path) # {}
                 ELSE \E v \in Visible(q.path) : v.ver = reqs[r].ver
    IN
    /\ reqs[r].pc = "list"
    /\ reqs' = [reqs EXCEPT
          ![r].pc = "done",
          ![r].status = IF found /\ (q.op = "get" /\ reqs[r].vis = "private" => IsOwner(q))
                        THEN "200" ELSE "404",
          ![r].listed = IF Exists(q.path) THEN assets[q.path].vis ELSE "public"]
    /\ UNCHANGED <<assets, versions, lastId, clean>>

-----------------------------------------------------------------------------
\* A statement fails, or the process dies under the handler.  writeMutation
\* answers a change it cannot read back with 200 {"status":"ok"}.
Fail(r) ==
    /\ Running(r) /\ reqs[r].pc # "count"
    /\ Answer(r, IF reqs[r].pc = "reread" /\ reqs[r].req.op # "push"
                 THEN "200" ELSE "500")
    /\ clean' = IF reqs[r].req.op \in Write
                THEN [clean EXCEPT ![PathOf(r)] = FALSE] ELSE clean
    /\ UNCHANGED <<assets, versions, lastId>>

Step(r) ==
    \/ PushSelect(r) \/ PushInsert(r) \/ PushVersion(r) \/ PushScan(r)
    \/ PushUpdate(r) \/ Reread(r)
    \/ Resolve(r) \/ PatchCurrent(r) \/ PatchWrite(r) \/ Delete(r)
    \/ InstallLatest(r) \/ InstallBody(r) \/ InstallCount(r)
    \/ GetRow(r) \/ ListVersions(r)

Next ==
    \/ \E r \in Req, q \in Request : Accept(r, q) \/ Refuse(r, q)
    \/ \E r \in Req : Step(r) \/ Fail(r)

Spec == Init /\ [][Next]_vars

-----------------------------------------------------------------------------
(* Properties.                                                             *)

Handler ==
    [pc : {"idle", "select", "insert", "version", "scan", "update", "reread", "resolve",
           "current", "write", "delete", "latest", "body", "count", "row", "list", "done"},
     req : Request \cup {NoRequest},
     status : {"none", "200", "201", "400", "401", "404", "409", "500", "skip"},
     id : Nat, ver : Version \cup {NoVersion}, vis : Visibility,
     read : Visibility, listed : Visibility, swept : BOOLEAN]

\* Every variable has its type.
TypeOK ==
    /\ assets \in [Path -> Row \cup {NoRow}]
    /\ versions \subseteq [asset : Nat, ver : Version, body : Body]
    /\ lastId \in Nat
    /\ reqs \in [Req -> Handler]
    /\ clean \in [Path -> BOOLEAN]

\* A push answered 201 is kept: its version is served with its own body until
\* an unpush that ran after the push began ("immutable", whatever other pushes
\* of the version, failures and patches interleave).
AckedPushKept ==
    \A r \in Req :
        reqs[r].status = "201" /\ ~reqs[r].swept =>
            \E v \in Visible(PathOf(r)) :
                v.ver = reqs[r].req.ver /\ v.body = reqs[r].req.body

\* Answered to someone else than the author?
ToStranger(r) ==
    /\ reqs[r].pc = "count" \/ reqs[r].status = "200"
    /\ reqs[r].pc # "idle" /\ reqs[r].req.op \in {"install", "get", "versions"}
    /\ ~IsOwner(reqs[r].req)

\* GET install and GET meta: a recipe body, or the row of an asset, goes to
\* someone else than the author only if the asset was public at the very
\* statement that read the body or the row, whatever visibility changes, unpushes
\* and new pushes ran before and after it.  The lists of versions are not gated
\* like that: see PrivateReadSigned.
PrivateReadGated ==
    \A r \in Req :
        ToStranger(r) /\ reqs[r].req.op # "versions" => reqs[r].read = "public"

\* "write (and private read) is author-signed": whatever a GET reads of an asset
\* that is private at that statement goes to its author only, the versions that
\* GET versions lists included.
PrivateReadSigned ==
    \A r \in Req :
        ToStranger(r) => /\ reqs[r].req.op # "versions" => reqs[r].read = "public"
                         /\ reqs[r].listed = "public"

\* A public asset was published by a request that resolved this very row: an
\* asset pushed again after an unpush starts private, even when a publish of
\* the old one is still on its way.
PublishedItself ==
    \A p \in Path : Exists(p) /\ assets[p].vis = "public" =>
        \E r \in Req : /\ reqs[r].pc # "idle" /\ PathOf(r) = p
                       /\ reqs[r].req.op = "visibility" /\ reqs[r].req.val = "public"
                       /\ reqs[r].id = assets[p].id

NoWriteRunning(p) ==
    \A r \in Req : Running(r) => PathOf(r) # p \/ reqs[r].req.op \notin Write

LatestOK(p) == Exists(p) => assets[p].latest = MaxVersion(Visible(p))

\* latest_version is the greatest version of the asset once its writes are
\* done, as long as they came one after the other and none failed.
LatestIsMaxSerial ==
    \A p \in Path : clean[p] /\ NoWriteRunning(p) => LatestOK(p)

\* "refreshLatest sets assets.latest_version to the max semver among its
\* versions": so after every push was answered 201 or 409.
LatestIsMax ==
    \A p \in Path :
        /\ NoWriteRunning(p)
        /\ \A r \in Req : reqs[r].pc = "done" /\ PathOf(r) = p => reqs[r].status # "500"
        => LatestOK(p)
=============================================================================
