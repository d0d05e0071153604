----------------------------- MODULE MCRegistry -----------------------------
(* The registry and its counters: two nodes, one of them written in two     *)
(* case forms, whose roles swap and AuthModes flip, in protected mode.  One *)
(* role and one mode are in capitals.  A node that is alone also sends      *)
(* service events and a metric row.                                        *)
EXTENDS RVDirectory

MCNodeKey == [r \in {"P:0xAa", "P:0xaa", "B:0xbb"} |->
                IF r = "P:0xAa" THEN "P:0xaa" ELSE r]

MCLower == [x \in Role \cup AuthMode |->
              CASE x = "Provider" -> "provider" [] x = "PUBLIC" -> "public" [] OTHER -> x]

GoodCred == [shape |-> "bearer", policy |-> "any", expire |-> "valid"]
LateCred == [shape |-> "bound", policy |-> "node", expire |-> "passed"]

Reg(full, sig, cred, role, auth) ==
    [type |-> "register", full |-> full, sig |-> sig, cred |-> cred, role |-> role,
     auth |-> auth, addr |-> NoAddr, local |-> NoAddr, svcs |-> NoServices]

ServiceFrame ==
    {[type |-> "event", svc |-> s, event |-> "ready"] : s \in Service}
    \cup {[type |-> "metrics", batch |-> <<[svc |-> s, status |-> "busy"]>>] : s \in Service}

MCFrame ==
    {Reg(TRUE, TRUE, GoodCred, "Provider", auth) : auth \in {"PUBLIC", "protected"}}
    \cup {Reg(TRUE, TRUE, GoodCred, role, "protected") : role \in {"broker", "consumer"}}
    \cup {Reg(FALSE, FALSE, LateCred, role, "") : role \in {"Provider", ""}}
    \cup {Reg(TRUE, TRUE, LateCred, "station", "public"),
          Reg(TRUE, FALSE, GoodCred, "station", "public")}
    \cup {[type |-> "ping", sig |-> b] : b \in BOOLEAN}
    \cup ServiceFrame

\* Service frames reach the server, and leave their traces, only while at most
\* the broker is registered.
ServicesAlone ==
    \/ ~Registered("P:0xaa")
    \/ /\ \A r \in RawId : metrics[r] = NoRow
       /\ \A k \in Key : Registered(k) => \A s \in Service : proxies[k].svcs[s] = "absent"
       /\ \A c \in Conn : conns[c].frame \notin ServiceFrame
=============================================================================
