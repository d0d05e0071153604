---------------------------- MODULE NodeDirectory ---------------------------
(***************************************************************************)
(* What the rendezvous server promises its clients: a directory of leases.  *)
(* A node is listed from an announcement on until nothing was heard from it *)
(* for Lease ticks, at an address of a host that node was heard from or one *)
(* its operator pinned, and the counts published beside the directory are   *)
(* those of its entries at every moment.  No connections, frames or locks.  *)
(***************************************************************************)
EXTENDS Integers, FiniteSets

CONSTANTS
    Listed,       \* the nodes that may be listed
    Host,         \* hosts nodes are heard from
    Kind,         \* what a node may announce itself as
    Class,        \* what entries are counted by
    ClassesOf(_), \* the classes a kind counts in
    ControlPort,  \* the port of an address taken from an announcement
    PunchPort,    \* the ports a reachability probe may come from
    Pinnable,     \* addresses an operator may pin
    Lease,        \* ticks without a sign of life before an entry may go
    OldAge,       \* ages from here on are not told apart
    Unlisted

VARIABLES
    entry,    \* per node: Unlisted or its entry
    tally,    \* the published counts
    home      \* the hosts a node was heard from

directoryVars == <<entry, tally, home>>

IsListed(n) == entry[n] # Unlisted

\* The counts of a directory, from scratch.
Scan(e) == [b \in Class |->
              Cardinality({n \in Listed : e[n] # Unlisted /\ b \in ClassesOf(e[n].kind)})]

DirectoryInit ==
    /\ entry = [n \in Listed |-> Unlisted]
    /\ tally = Scan(entry)
    /\ home = [n \in Listed |-> {}]

Entry == [kind : Kind, pinned : BOOLEAN, age : 0..OldAge,
          addr : (Host \X ({ControlPort} \cup PunchPort)) \cup Pinnable]

\* The step concerns at most the entry of n.
Only(n) == /\ \A m \in Listed \ {n} : entry'[m] = entry[m]
           /\ UNCHANGED home

\* The node is heard from at a host, which changes no entry.
Hear(n, h) ==
    /\ home' = [home EXCEPT ![n] = @ \cup {h}]
    /\ entry' = entry

\* The node announces itself: a new lease, counted as it says, pinned to an
\* address by its operator, or at the address it had, or else at the host it
\* announces from.
Announce(n) ==
    LET e == entry'[n] IN
    /\ e # Unlisted /\ e.age = 0 /\ e \in Entry
    /\ Only(n)
    /\ \/ e.pinned /\ e.addr \in Pinnable
       \/ IsListed(n) /\ e.addr = entry[n].addr /\ e.pinned = entry[n].pinned
       \/ ~IsListed(n) /\ ~e.pinned /\ e.addr \in home[n] \X {ControlPort}

\* A sign of life renews the lease and nothing else.
Renew(n) ==
    /\ IsListed(n) /\ Only(n)
    /\ entry'[n] = [entry[n] EXCEPT !.age = 0]

\* A probe from one of the node's hosts moves an entry that is not pinned,
\* and does not renew its lease.
Reach(n, h, p) ==
    /\ IsListed(n) /\ ~entry[n].pinned /\ h \in home[n] /\ Only(n)
    /\ entry'[n] = [entry[n] EXCEPT !.addr = <<h, p>>]

\* The entries whose lease is over go, all of them at once and no other.
Expire ==
    /\ \A n \in Listed :
          entry'[n] = IF IsListed(n) /\ entry[n].age > Lease THEN Unlisted ELSE entry[n]
    /\ UNCHANGED home

Age ==
    /\ \A n \in Listed :
          entry'[n] = IF IsListed(n) /\ entry[n].age < OldAge
                      THEN [entry[n] EXCEPT !.age = @ + 1] ELSE entry[n]
    /\ UNCHANGED home

\* The directory is in memory only.
Forget ==
    /\ \A n \in Listed : entry'[n] = Unlisted
    /\ home' = [n \in Listed |-> {}]

\* Whatever happens, the counts are published with it.
DirectoryNext ==
    /\ \/ \E n \in Listed : Renew(n) \/ Announce(n)
       \/ \E n \in Listed, h \in Host, p \in PunchPort : Reach(n, h, p)
       \/ \E n \in Listed, h \in Host : Hear(n, h)
       \/ Expire
       \/ Age
       \/ Forget
    /\ tally' = Scan(entry')

DirectorySpec == DirectoryInit /\ [][DirectoryNext]_directoryVars
=============================================================================
