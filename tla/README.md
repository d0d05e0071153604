# Verification of the iSANN servers

TLA+ models of the two iSANN servers (rendezvous and market), of the client that
backends use to talk to the rendezvous server, of the recipe interpreter, and of the
settings and logs of a node, with TLC configurations and TLAPS proofs. Paths below are relative to `src/`.

## 1. Inventory

| Component | State | Operations | Hard part |
|---|---|---|---|
| Rendezvous registry and control plane (`pkg/rendezvous/control_tcp.go`, `server.go`, `session.go`, `rv_auth.go`) | `proxies`, four discovery counters, `controlConns`; all in memory | hello, register, ping, service events, connect, push; purge every 15 s | one goroutine per connection, displaced connections, reads after the unlock, counters kept by deltas, restarts, writes without a deadline, intervals and cutoffs set apart from each other |
| Rendezvous metric cache and HTTP views (`heartbeat.go`, `server.go`) | `metrics` under its own mutex | metric rows of service events; prune; `/v1/nodes`, `/v1/metrics`, `/health` | two locks for one update, a stale snapshot while pruning, two forms of the node id |
| UDP punch listener (`punch_udp.go`) | writes `Addr` of an entry | 0x01 punch, 0x03 echo | unauthenticated packets race with registers and purges |
| Health rate limiter (`server.go`) | one window, a count per IP | `allow`, from HTTP handlers and the UDP loop | the clock is read before the mutex, and may be set back |
| Market registry (`pkg/market/server.go`, `sqlstore.go`) | tables `assets`, `asset_versions`, `authors` | push, visibility, price, meta, unpush, install, get, versions, list, mine | one transaction only (unpush); every other handler is several autocommitted statements; versions are free text and their comparison is no order |
| Market request authentication (`auth_write.go`) | the nonce cache | `verifyWrite`, `useOnce` | a time read at the start is used after a delay |
| isannd client (`pkg/tunnel/isannd_client.go`) | the shared socket, the dialing flag, two mutexes, `needRegisterFlag` | Connect, the senders, the reader, Close | dialing on demand by concurrent goroutines, late failures of old sockets, recovery |
| Session cache (`pkg/tunnel/session.go`) | `byToken`, `byNodeID`, `replaced` | Put, two lookups, Prune (in this repository only Prune is called outside the tests, by the cleanup loop) | two lifetimes of a rotated token, pruning with a stale time |
| Recipe parser and runtime (`pkg/recipe`) | flat statements, a stack of branch frames | parse, include, IF / ELSE IF / ELSE / END, commands | nested blocks over a flat list, includes, `-keep-going` |
| Settings and admin API (`pkg/tunnel/admin.go`, `config.go`, `runtime.go`, `base.go`) | configuration and auth settings under `CfgMu`, three files | PUT config, PUT cards, load at start, log view and log streams | saves after the unlock, truncate-then-write, an overlay of two files |
| Access tokens, message types, UDP demultiplexer (`pkg/tunnel`) | none that the servers use | text, JSON | none |
| Wire framing (`pkg/signal`), auth library (`pkg/auth`) | none | length-prefixed JSON; signature recovery | byte level, cryptography |
| Logging (`pkg/glog`) | ring buffer and its subscribers, the daily file | write, recent, subscribe, rotate, clean up | two mutexes in one write, slow subscribers, ignored errors of a rotation |
| Setup, detection, certificates, commands (`pkg/setup`, `pkg/certgen`, `cmd`) | files | downloads, probes, flags | pure I/O |

How they interact: a backend's `IsanndClient` keeps one TCP connection to its isannd,
which forwards frames to the rendezvous server's control connection. The server keys
everything by the node id of the hello, answers on the same connection, and pushes
`punch` frames to *other* nodes' connections through `controlConns`. isannd also sends
UDP punches, from which the server learns the NAT-mapped address that `connect` hands
out. The cleanup loop is the only place that deletes registry entries. The market is an
independent server whose handlers meet in the database and in the nonce cache. The
recipe parser checks what is pushed to the market, and the runtime executes it later.

What makes each part correct is stated as the properties of section 3; the hazards that
motivate them, each at its source line, are listed in `PROJECT.json`.

## 2. Modules

| Module | Models | State and actions |
|---|---|---|
| `RVServer` | registry, counters, control connections, metric cache, punches, cleanup, restart | a handler goroutine is a record `conns[c]` (its place, whether its socket is open, hello id and IP, displaced predecessor, frame at work, the addresses read under the lock). `ReadFrame` takes a frame; each critical section after that is one action: `ApplyRegister`, `ApplyPing`, `ApplyServiceLifecycle`, `MetricPatch` then `MetricStore` per row, `ConnectLookup` then `ConnectReply`. `Hello`/`ClosePrev`/`HandlerExit` are the connection's life, `Purge`/`PruneSnapshot`/`PruneMetrics` the cleanup loop |
| `Market` | push, patch, unpush and reads | one SQL statement is one action; `reqs[r]` is the handler with the locals it carries between statements; `Fail` is a statement error or the end of the process; `read` and `listed` remember the visibility of what was read, at the statement that read it |
| `MarketAuth` | timestamp window and nonce cache | `Check` reads the clock, `UseOnce` runs later with that reading |
| `IsanndClient` | the client's socket handling | a goroutine per caller and a reader per socket; one critical section, socket operation or atomic operation is one action |
| `SessionCache` | the session indexes | one action per method |
| `NodeDirectory` | nothing in the code: what clients may rely on | an abstract directory of leases: a node is heard from, announces itself, renews, is reached, expires; the published counts are a scan |
| `RVDirectory` | that `RVServer` implements it | the refinement mapping: an entry is a `ProxyInfo`, the tally the four counters |
| `ControlWrites` | `sendFrame`, `PushToNode` and what they wait for | a handler reads a frame, then locks the writer mutex of a connection and writes; the write ends when the peer reads or the connection is closed |
| `Cadence` | `PingIntervalFor`, `computeConnStatus`, the purge cutoff and its ticker | seconds pass; a node pings at the interval it was told, is silent, comes back; the server restarts with another setting |
| `HealthLimiter` | `healthRateLimiter` | `Arrive` reads the clock, `Allow` runs later under the mutex; the clock may be set back |
| `Versions` | `semverLess`, `refreshLatest`'s scan, `sortVersionsDesc`, `CompareSemver` | pushes of versions with numeric and text parts, rows read in any order |
| `AdminConfig` | the PUT handlers, the three files and the start | the change under the lock, then per file a truncation and a write; failures, crashes, restarts |
| `LogRing` | `RingBuffer` and the log streams | `Store` and `Send` are the two critical sections of a write |
| `LogRotate` | `DailyRotateWriter` | a write rotates when the date changed; the rename and the reopening may fail |
| `Recipe` | control-flow validation, include resolution, `Run` | `Parse`/`ResolveIncludes`/`IncludeDone`, then one action per kind of statement; a condition evaluates to true, to false or to an error, chosen anew at each marker |
| `MCRegistry`, `MCRouting`, `MCMetrics`, `MCMarket`, `MCRecipe` | instances for TLC | the frames, requests and files of a run |
| `MCProgress` | `RVServer` (as in `MCMetrics`) and `ControlWrites` side by side | a behaviour moves one of the two, under that one's fairness: what frames do to the registry and what it takes to write one are apart |
| `MCParts` | `MarketAuth`, `SessionCache`, `HealthLimiter`, `LogRing`, `LogRotate`, `AdminConfig`, `Versions`, `Cadence`, `Recipe` (as in `MCRecipe`) side by side | a behaviour picks one of them and moves only it: they share no variable and no call, and no property reads two of them |
| `RVServerProofs`, `RVDirectoryProofs` | proofs about `RVServer` and its refinement | section 4 |
| `MarketProofs`, `VersionsProofs`, `IsanndClientProofs`, `RecipeProofs`, `PartsProofs` | proofs about the other components (`MarketAuth` is in `PartsProofs`) | section 4 |
| `FoldLemmas` | the lemmas they share: induction over naturals, `FoldLeft`, the ends of a sequence | section 4 |

Abstractions, and why they are sound for the properties:

- Signatures and credentials are what their verification answers (`sig`, `Cred`);
  the recovery itself is cryptography.
- The descriptive fields of a registry entry (version, hardware, certificate hash, ...)
  are merged field by field like `auth` and steer nothing. `LocalAddr` is not among them: it
  goes out to peers as a candidate, so the model has it, with a history (`told`) of what
  registers of the node reported.
- Roles and auth modes are compared in lower case (`Lower`), as `roleBucket` and
  `countDelta` do; an unknown status leaves the service as it is and is stored as code 0.
- `LastSeen` is an age in ticks that saturates behind the last cutoff. So time is
  unbounded in the model although its states are finite.
- A frame sent is in `wire` for the step that sends it: what the server says is checked,
  not its delivery.
- `handleConnect` reads the two registry entries after the unlock. This is a data race
  in the code; each read of the model sees the address of the lookup or the current one, and two reads of
  one address may differ. Go's
  runtime may also abort on the concurrent map access: `Restart` covers that.
- In `Market` versions are numbers in semver order; `Versions` has the comparison itself,
  with parts that are not numbers.
- In `ControlWrites` a frame is only the writes it leads to, and the buffers towards a peer
  hold `SendCap` frames. What the frames do to the registry is in `RVServer`.
- In `Cadence` a node's pings are at most `Late` seconds late and its first ping after a
  restart of the server leads to a register; both are the node's side, outside this code.
- In `AdminConfig` two writes that overlap on one file may leave the longer one sticking
  out, which does not parse: `os.WriteFile` truncates and writes in two steps.
- In `LogRotate` the lines of one day are one token, and the local date does not go back.
- In a recipe variables and captures are not modelled: what they decide is the outcome of a
  condition, which is free at each marker (true, false, or an error: an unresolved
  variable, a missing field, a malformed condition), and whether a statement fails.
- In `IsanndClient` a frame that does not marshal or is too large counts among the faults.

## 3. What TLC checks

Passing runs:

| Run | Instance | Shows |
|---|---|---|
| `rv_registry` | two nodes, one with two spellings of its id; registers with three roles, one of them and one auth mode in capitals, delta registers with and without a role, a rejected signature, an expired credential; protected mode; a node that is alone also sends service events and a metric row | `CountersMatch`: the counters equal a scan of the registry; `ImplementsDirectory` |
| `rv_routing` | two nodes, two connections, two IPs, one NAT port; a signed register with an operator-set address, an unsigned delta with a local address, connects | `ConnsReachable`: an open connection is the one a push finds, unless a newer hello is about to close it; `AddrOwned`, `RepliesOwned`: only the operator, and the hosts that said hello under a node's id, move the address that is stored and handed out, and a candidate may besides be what a register of the node reported; `ImplementsDirectory`: every step is a step of `NodeDirectory` or a stutter, so one announcement changes one entry, a punch never renews a lease, and entries go only when their lease is over or all at once |
| `rv_progress` | the registry: one node, two services, one connection, both cutoffs can pass; the writes: one node that may stop reading for good, another with a connection and a reconnection, one frame of buffer | `DeadBackendPurged`: a silent backend leaves for good whatever isannd punches; `OrphanRowsGo`: rows of departed nodes do not stay; `StallIsLocal`: who is held up for good waits on the stalled connection itself, never on a handler that waits on it; `ClosingReleases`: closing the stalled connection lets everybody go on |
| `market` | four concurrent requests on one asset, two versions, two bodies, statement failures | `AckedPushKept`; `PrivateReadGated`: a body, or the row of an asset, goes to a stranger only if the asset was public at the statement that read it (the lists of versions are not gated like that: `market_private_versions`); `PublishedItself`; `LatestIsMaxSerial` |
| `isannd_client` | the heartbeat loop and one more caller, three sockets, two node ids, two faults, one explicit Connect | `NoSocketLeak` (a dial that `Close` overtook still publishes its socket, which then counts as `c.conn`), `FramesFollowHello`, and `Recovers`: heartbeats alone register the node again after faults |
| `parts` | see below | the properties of the nine components of `MCParts` |

`TypeOK` of `RVServer`, `Market`, `MarketAuth` and `IsanndClient` is checked in one run each.

The components of `parts`:

| Component | Instance | Shows |
|---|---|---|
| `MarketAuth` | two nonces, four timestamps, two handlers, restarts | `OncePerWindow`: a signed request is accepted again only after its timestamp left the window |
| `SessionCache` | two nodes, three tokens, a clock past two lifetimes | `IndexesAgree`: the indexes agree, whatever is pruned with a stale time |
| `HealthLimiter` | two sources, two calls in flight, limit 1, three seconds, the clock set back | `RateBounded`: at most the limit per second the clock has shown; `RefusedForOwnFlood`: nobody is refused for another's flood |
| `LogRing` | two writers, two streams, capacity 2, channels of 1, three lines | `RecentInOrder` around the wrap; `SendsToOpen`: no send on a closed channel; `StreamComplete`: a stream misses only what its own channel had no room for |
| `LogRotate` | two files kept, seven days, restarts and failures on any of them | `LinesKept`: a line that was written is on disk for `MaxFiles` days |
| `AdminConfig` | two requests at a time, three in all, one crash, any failing save, the auth modes public, its old name open, and protected | `RestartRestores`: a file whose last save ran alone and succeeded gives back what the server ran with, whatever had spoilt it before |
| `Versions` | up to three versions of one or two parts out of 0, 00, 2, 10, 1a and the empty part | `LatestIsNewest`: for versions of numerals `latest_version` and the list agree with `CompareSemver`; `ListStartsWithLatest`: where `semverLess` is an order, also with text parts and ties (0 and 00), list and `latest_version` agree |
| `Cadence` | settings of 0 (unset), 1, 30, 60 and 3600 s, the default cutoff and ticker, pings up to 2 s late | `OnTimeIsAlive`: a node that pings as told is `alive` by conn_status and never purged, also after a restart with another setting, and `online` in `/v1/metrics` where its interval stays below the fixed 60 s of that flag; `GoneInTime`: a silent node is gone within the cutoff and one tick |
| `Recipe` | every balanced file of up to 7 statements; every balanced top file of up to 4 with every include of up to 2 statements, balanced or not, cyclic or not; every outcome of every condition; with and without `-keep-going` | `FirstMatchRuns`, `CondsLazy`, `InlinedBalanced`, `IncludesAcyclic`: the flat walk agrees with the block structure, which the module defines separately |

Runs that end in a counterexample, each on something the repository says of the code:

| Run | Says | Does |
|---|---|---|
| `rv_metrics_mixed_case` | `server.go:877`: "proxy map key == metric NodeID" | the metric cache keeps the id as the peer wrote it, the registry its normalised form: `/v1/metrics` shows a live node offline |
| `market_latest` | `sqlstore.go:462`: latest_version is set "to the max semver among its versions" | two concurrent pushes: the one that scanned first writes last, and latest_version stays behind although both answered 201 |
| `admin_cards` | `runtime.go:71`: "cards / api_features come from runtime even when broker.json on a read-only volume has stale or missing values" | an empty card map is left out of the sidecar, so cards that were cleared come back from the main config with the next start |
| `recipe_keep_going` | `parser.go:45`: "evaluates branches in order and runs the first match" | with `-keep-going`, an IF whose condition fails to evaluate pushes no frame: its body runs although no condition held |
| `rv_unsigned_claim` | `control_tcp.go:203`: "Non-fullSync updates are rejected here", "a peer who can't sign as P:0xABC can't claim that id" | only a FullSync register is verified; a delta on a connection whose hello names the id, which nothing authenticates, creates the entry and binds its ControlIP (`control_tcp.go:217-219` says so in its own comment) |
| `market_private_versions` | `market/server.go:3`: "write (and private read) is author-signed" | `handleVersions` has no gate: the versions of a private asset are listed to anyone |

Met on the way, without a run:

- A rotated token stays in `byToken` and is found until its own expiry plus the grace
  (`session.go:174`), longer than the grace the comment at `session.go:17-19` speaks of; and
  a token that is rotated while it is already in its own grace is not found once `Prune`
  has taken it out of `byToken`, since the entry in `replaced` leads nowhere without it
  (`session.go:179-185`), although `session.go:154-156` says that replaced tokens still
  validate for the grace. No property claims either.
- `server.go:998` calls the total of `/health` the roster-visible nodes: it is the sum of
  the station and control counters, while `handleNodes` also lists an entry without a known
  role (a delta register that brings none). No property claims that the two agree.
- `/v1/metrics` shows `online` for an age below 60 s, whatever the ping interval
  (`server.go:928`): at an interval of 60 s a node on time is at times not online while its
  conn_status is alive.
- GET meta gates on the row and reads the versions in a later statement, so after an unpush
  and a new push in between the list is that of another, private asset.

Why the bounds are enough. The counters are per node and per bucket, and one node already
goes through every bucket, and a station through both auth modes, with a second one to keep
the sums apart. The
races on connections are between a handler and the one it displaced, or between a node's
handler and a consumer that looks it up; two connections do for each, and the constraint
keeps the consumer at one IP and one connection. (The proofs have any number of connections.) The market's hard
interleavings involve two pushes, an unpush and a patch or an install, hence four
requests, the fourth from the core set. The client needs a socket in use, one failing late
and one being dialed. The recipe files reach an IF nested in a branch that is not taken,
with an ELSE, two ELSE IFs of which either may hold or fail, and an include inside a block. A stall needs a stalled connection, a handler
blocked on it and a third one that might wait for that handler. `semverLess` first fails to
be transitive with three versions, which the instance has (2 < 10 < 1a < 2). The cadence
uses the code's own numbers. The largest runs are `rv_registry`,
`rv_routing`, `parts` and `market`, of one to four minutes each with two workers. Model values for connections and requests
are symmetric where no liveness property is checked.

Deadlock is checked except in the runs where the modelled work is finite: requests are
served once each, tokens, lines, days and the clock run out, connections end, and a recipe
ends.

Fairness. For the registry `rv_progress` assumes that handlers with a frame make progress, that the cleanup
ticker fires and that the clock advances: the Go scheduler and `time.Ticker`. Peers,
punches and restarts owe nothing. `isannd_client` assumes that goroutines and readers run,
that the heartbeat loop keeps calling, and, as strong fairness, that a caller waiting for
`writeMu` gets it eventually: `sync.Mutex` hands the lock to a waiter after a millisecond.
Faults are bounded by `MaxFaults`: recovery is claimed after the last one.
For the writes `rv_progress` assumes that handler goroutines run, that a waiter gets a writer mutex in
the end (strong fairness, for the same reason), and that peers outside `MayStall` read:
`runReader` is a goroutine that does nothing else. Nothing makes a peer send, close or
reconnect.

## 4. What is proved

For every value of the constants, under the assumptions the modules state: `NodeKey` maps
the finite set of ids into itself and is idempotent; cutoffs, capacities and bounds are
naturals; the null values are distinct from what they stand in for; `Frame` and `Request`
are any sets of frames and requests of the protocols; the goroutines that are inside the
health limiter at one time are finitely many. One assumption is about how a server is
configured and not about the code: `CadenceMargins` says that the purge cutoff lies above
the longest ping interval (60 s against 120 s by default) and that a ping is not later than
twice the shortest interval. The code does not compare the two settings; without the margin a
healthy node would be purged between two pings.

Rendezvous server:

- `TypeCorrect` (`RVServerProofs`): `TypeOK` is inductive by itself. Its last part, that a
  handler at work holds the frame its step needs, is what the metrics batch could break;
  the lemma `BatchTail` is about that.
- `CountersCorrect` (`RVServerProofs`): `CountersMatch` is inductive
  together with `TypeOK`. `RegisterCounts` follows the counters through a register, where
  the old bucket is backed out and the new one added, and `PurgeCounts` through the
  removal of any set of stale entries. The rest is that no other step changes an entry's
  presence, role or auth mode.
- `ReachableCorrect` (`RVServerProofs`): `ConnsReachable` needs `PrevInv`, that a handler
  about to close its predecessor holds a handler of the same node and not itself.
- `AddrCorrect`, `RepliesCorrect` (`RVServerProofs`): from `AddrInv`. It adds that a
  handler's IP is among those its node said hello from (`HelloInv`) and that the address
  carried out of the lock in `handleConnect` belongs to the target (`SeenInv`). The set of
  a node's IPs only grows until a restart, which also ends every handler; that is why the
  unlocked reads are harmless for this property. `LocalInv` does the same for the local
  address that becomes a candidate: it is one that a register of the node reported. What
  these theorems do not say is who may say hello under an id: see `rv_unsigned_claim`.
- `DirectoryCorrect` (`RVDirectoryProofs`): the refinement. The initial state maps to an
  initial state of `NodeDirectory`, and each action, from a state with `TypeOK`,
  `CountersMatch` and `AddrInv`, to a directory step or a stutter. The counters are needed
  because the directory's tally is a scan, the addresses because the directory moves an entry
  only to hosts its node was heard from.
- `OnTimeCorrect`, `GoneInTimeCorrect` (`PartsProofs`): from `CadenceInv`, which relates
  the age of the entry to the interval the node was told, the time its ping is due and the
  cleanup ticker. A listed node was told the interval of the running server: a
  restart with another setting also empties the registry. `OnTimeCorrect` speaks of conn_status
  and the purge for every interval, and of `online` only for those that leave room below
  its fixed limit.
- `RateCorrect`, `RefusedCorrect` (`PartsProofs`): `Budget` counts what the windows up to
  the open one can have let through: the window only moves forward, so after the clock was
  set back, or for a call with an old reading, requests are charged to the open window.
  `Charged` says that hits and calls in flight are the source's own requests.

Market:

- `AuthTypeCorrect`, `OncePerWindowCorrect` (`PartsProofs`): an action property, from
  `SpentKept`: the nonce of an accepted request is in the cache, with an expiry not before
  its own, as long as the request is inside the window. A sweep uses a time that is not in
  the future, so it never removes such an entry.
- `MarketInvariant` (`MarketProofs`): `MarketInv`, of which the properties are
  consequences. `RowIds` and `HandlerIds` say that an asset id belongs to one path for
  ever (AUTOINCREMENT), so a handler that carries an id across statements can only meet
  rows, versions and handlers of its own path. On that rest
  - `AckedPushCorrect`: `Kept`, from the INSERT of the version on, row and version of a
    push are there unless an unpush swept them; `OneBodyCorrect` is the UNIQUE constraint
    on its own;
  - `PublishedCorrect`: a patch writes by id, so a late publish misses a row pushed again;
  - `GatedCorrect`: the visibility that gates is the one read with the body or with the
    row (`Gated`); it says nothing of the versions, which are listed by another statement;
  - `LatestSerialCorrect`: `Serial` says for each statement of the only running write
    what it still owes: between the INSERTs and the UPDATE latest_version may lag, and at
    the UPDATE the handler holds the maximum of the versions (`GreatestVersion`: a finite
    set of versions has one, by the well-foundedness of the naturals).

isannd client (`IsanndClientProofs`):

- `NoLeakCorrect`, `FramesCorrect`, `ClientTypesCorrect`: from `ClientInv`. `OneDialer`
  (one goroutine dials, with `c.conn` cleared) and `OwnSocket` (nobody else holds the socket
  being dialed) make publishing safe; `Accounted` says who will close every live socket;
  `HelloSaid` and `CallersOK` follow the identity from the hello to the write, across the
  gap between `writeFrame`'s check and the mutex.

Sessions, logs, settings (`PartsProofs`):

- `IndexesCorrect`: a token that was not rotated out is its node's latest, and what the
  node index names is in the token index.
- `RecentCorrect`, `SendsCorrect`, `StreamCorrect`: `RingHolds` places the last lines
  backwards from the write position, modulo the capacity; the other two are inductive with
  the types.
- `LinesCorrect`: no renamed file has a date that the open one could be renamed to, and
  `CleanupKeeps`: a file is deleted only if `MaxFiles` others have later dates, all past,
  which takes more than `MaxFiles` days.
- `RestartCorrect`: `Overlaps`: a request with a file to save that is not in doubt is
  alone, and its copy is what the server runs with; `FilesAgree`: each file that nobody has
  still to save says so too, through the overlay of the sidecar.

Recipes (`RecipeProofs`):

- `IncludesAcyclicCorrect`: the chain equals the files of the stack, which are distinct; a
  file leaves the chain when its activation returns and no other activation needs it.
- `InlinedBalancedCorrect`: from `Inlining`. validateControlFlow is a fold over the
  statements; `Flow` and `FlowAt` are its states along the list. `ValidUnder` says that
  statements valid by themselves do the same on top of blocks that are already open and
  leave those alone; so the blocks open in what is inlined so far are those open in each
  file on the include stack, one after the other, and none is open at the end.
- `FirstMatchCorrect`, `CondsLazyCorrect`, `MarkersFindFramesCorrect`: from `Walk`, which
  gives each frame of Run its meaning (`FrameOK`): the k-th frame belongs to the k-th block
  open at the program counter, `enclosingActive` says whether that block is reached,
  `anyMatched` whether one of its branches so far has held, `branchActive` whether the
  branch the counter is in is the one that was taken, whatever the conditions of IF and
  ELSE IFs evaluate to. That there are
  as many frames as open blocks needs the statements to be balanced, that is
  `InlinedBalanced`. The block structure itself (which END closes which IF) is defined by
  counting and related to the fold by the depth after k statements (`CountIsDep`). All three
  except what `recipe_keep_going` shows: a walk that went on after an IF whose condition
  failed to evaluate.

Versions (`VersionsProofs`):

- `LatestIsNewestCorrect`, `ListStartsWithLatestCorrect`: from `VersionsInv`, that
  `latest_version` was pushed and nothing exceeds it. It holds after every push since
  refreshLatest scans all rows anew (`ScanFindsNewest`). `SortFacts` is the insertion sort:
  there is always a place to stop, and where `semverLess` is an order up to ties the list
  stays sorted. `NumericOrdered` and `ComparesAlike` are the comparisons: on versions of
  numerals (no sign; `Atoi` would take one) `semverLess` is such an order, a missing part, which
  is the empty text for `semverLess`, being below 0; for CompareSemver it equals 0, so the two never contradict each other.
- With parts of text `semverLess` need not be an order (2 < 10 < 1a < 2), and then the
  first version of the list and `latest_version` may differ; `Ordered` is the hypothesis
  that excludes it.

What a loop over a sequence computes is proved without the library's induction rules
(`FoldLemmas`): `UpTo` is induction as a statement about sets, from the least-number
principle; `FoldExists` gives the recursive function inside `FoldLeft`, for a step that is
a function. Each fold of the models has a lemma that reads its states off that function
(`FlowTrace`, `ScanTrace`, `SortTrace`).

Only model-checked:

- Liveness under fairness (`DeadBackendPurged`, `OrphanRowsGo`, `Recovers`, `StallIsLocal`,
  `ClosingReleases`), which is beyond the prover.
- The properties of the violation runs, which do not hold.

## 5. Not modelled

- Query filters, ETags and JSON of the HTTP views; list, mine and search of the market:
  reads without further state. (The ETag of `/v1/nodes` leaves out some of the fields that
  the body shows, so a 304 may leave those behind; no property is about it.)
- The descriptive fields of a registry entry: which of them an entry lacks after a delta
  register that created it.
- Recipe tokenizing, path syntax, builtins and process dispatch are reduced to their
  outcomes; hardware requirements are a pure comparison; market metadata and app
  validation are text parsing, of which a push carries the outcome.
- After `Close`, a dial in flight still publishes its socket, and a later send dials again;
  the model has these steps, and no property says otherwise.
- Access tokens and route classification are pure functions of text. `MuxPacketConn` is
  created nowhere in the repository.
- Framing (a frame is atomic), cryptography, the format of log lines, setup, hardware
  detection, certificates and commands: byte-level or operating-system I/O without state
  that outlives a call.

## 6. Plan

1. Done: `RVServer` first, as the part with the most concurrency; then the market, its
   nonce cache, the client, the sessions, the recipes; type correctness and the safety
   invariants of the rendezvous server and the replay window proved.
2. Done: blocking writes, the ping cadence, the health limiter, the version order, the
   admin settings with their files, the log ring and rotation; the abstract directory and
   the refinement of `RVServer` to it.
3. Done: proofs of the refinement to the directory and of the safety invariants of the
   market, the client, the include stack and the components of `parts` but `Versions`.
4. Done: the folds (the marker stack, the scan, the sort) and with them the last
   invariants: the recipe runtime against the block structure, and the version order.
5. Open: the fields an entry lacks after a delta register that created it, which would need
   the descriptive fields in `RVServer`.
