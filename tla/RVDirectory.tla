----------------------------- MODULE RVDirectory ----------------------------
(***************************************************************************)
(* The rendezvous server implements the lease directory: the registry and   *)
(* its counters, maintained by increments from concurrent handlers, look to *)
(* a client like NodeDirectory.                                            *)
(***************************************************************************)
EXTENDS RVServer

CONSTANT Unlisted

\* An absent entry is not taken for one.
ASSUME UnlistedAssumption ==
    Unlisted \notin [kind : Role \X AuthMode, addr : Addr, pinned : BOOLEAN, age : 0..MaxAge]

\* What of a ProxyInfo the directory lists.
EntryOf(p) == [kind |-> <<p.role, p.auth>>, addr |-> p.addr,
               pinned |-> p.manual, age |-> p.age]

EntryMap == [k \in Key |-> IF Registered(k) THEN EntryOf(proxies[k]) ELSE Unlisted]

KindBuckets(kind) == BucketsOf(kind[1], kind[2])

Dir == INSTANCE NodeDirectory WITH
    Listed <- Key, Host <- Ip,
    Kind <- Role \X AuthMode, Class <- Bucket, ClassesOf <- KindBuckets,
    ControlPort <- TcpPort, PunchPort <- UdpPort, Pinnable <- StaticAddr,
    Lease <- PurgeAge, OldAge <- MaxAge, Unlisted <- Unlisted,
    entry <- EntryMap, tally <- cnt, home <- helloIp

\* Every step of the server, in whatever order handlers, punches, the cleanup
\* loop and restarts interleave, is a step of the directory or changes nothing
\* in it: one announcement changes one entry, a punch never renews a lease, an
\* entry goes only when its lease is over or with all others, and the counters
\* the code moves by increments (countDelta) are a scan of the entries.
ImplementsDirectory == Dir!DirectorySpec
=============================================================================
