----------------------------- MODULE MCRouting ------------------------------
(* Control connections and addresses: a provider that reconnects from       *)
(* another IP, displacing its own connection, learns its address from       *)
(* punches and is looked up by a consumer's connect frames.                 *)
EXTENDS RVDirectory, TLC

CONSTANT Home   \* the one IP the consumer connects from

MCNodeKey == [r \in {"P:0xaa", "C:0xbb"} |-> r]

MCLower == [x \in Role \cup AuthMode |-> x]

Reg(full, addr, local) ==
    [type |-> "register", full |-> full, sig |-> full,
     cred |-> [shape |-> "none", policy |-> "unlisted", expire |-> "absent"],
     role |-> "provider", auth |-> "", addr |-> addr, local |-> local,
     svcs |-> NoServices]

\* A signed register of a static deployment, and an unsigned delta that brings
\* a local address.
Registers == {Reg(TRUE, a, NoAddr) : a \in StaticAddr}
             \cup {Reg(FALSE, NoAddr, l) : l \in LocalAddr}

MCFrame == Registers \cup {[type |-> "connect", target |-> "P:0xaa"]}

\* The consumer stays at its IP, has one connection at a time and does not
\* register; only the provider roams and reconnects.
ConsumerAtHome ==
    /\ helloIp["C:0xbb"] \subseteq {Home}
    /\ \A c \in Conn : conns[c].frame \in Registers => conns[c].id # "C:0xbb"
    /\ \E c \in Conn : conns[c].pc = "free" \/ conns[c].id # "C:0xbb"

Symmetry == Permutations(Conn)
=============================================================================
