------------------------------ MODULE MCMarket ------------------------------
(* Concurrent requests of one author, and a stranger's reads, for one asset *)
(* with two versions; each request is served once.                          *)
EXTENDS Market, TLC

CONSTANTS Alice, Bob

MCAuthorOf == [p \in Path |-> Alice]

Push(v, b) == [op |-> "push", path |-> "p", ver |-> v, body |-> b,
               signer |-> Alice, ok |-> TRUE]
Patch(op, val) == [op |-> op, path |-> "p", val |-> val, signer |-> Alice, ok |-> TRUE]
Unpush == [op |-> "unpush", path |-> "p", signer |-> Alice]
Read(op, v, s) == [op |-> op, path |-> "p", ver |-> v, signer |-> s]

Pushes == {Push(1, "b1"), Push(2, "b1"), Push(1, "b2")}

\* What the hard interleavings are made of.
Core == Pushes \cup {Unpush, Read("install", NoVersion, Bob)}
        \cup {Patch("visibility", v) : v \in Visibility}

Rest == {[Push(1, "b1") EXCEPT !.ok = FALSE], [Unpush EXCEPT !.signer = NoSigner]}
        \cup {Patch("price", "9")} \cup {Patch("meta", e) : e \in Edit}
        \cup {Read("install", 1, Bob), Read("get", NoVersion, NoSigner),
              Read("get", 2, Alice), Read("versions", NoVersion, NoSigner)}

\* A push, and a stranger who asks for the versions.
PushAndList == {Push(1, "b1"), Patch("visibility", "public"),
                Read("versions", NoVersion, NoSigner), Read("get", NoVersion, NoSigner)}

AllRequests == Core \cup Rest

\* Four requests at most, three when one of them is not of the core.
FourthIsCore ==
    (\A r \in Req : reqs[r].pc # "idle") => \A r \in Req : reqs[r].req \in Core

Symmetry == Permutations(Req)
=============================================================================
