----------------------------- MODULE MCMetrics ------------------------------
(* Service events, the metric cache and the cleanup loop: a node with two   *)
(* services, silent for long enough to be pruned and purged.                *)
EXTENDS RVServer

Normalised == [r \in {"P:0xaa"} |-> r]
MixedCase  == [r \in {"P:0xAa", "P:0xaa"} |-> "P:0xaa"]

MCLower == [x \in Role \cup AuthMode |-> x]

NoCred == [shape |-> "none", policy |-> "unlisted", expire |-> "absent"]

Reg(full, svcs) ==
    [type |-> "register", full |-> full, sig |-> TRUE, cred |-> NoCred,
     role |-> "provider", auth |-> "", addr |-> NoAddr, local |-> NoAddr,
     svcs |-> svcs]

Event(svc, event) == [type |-> "event", svc |-> svc, event |-> event]
Metric(svc, status) == [svc |-> svc, status |-> status]

MCFrame ==
    {Reg(TRUE, [s \in Service |-> "absent"]), Reg(FALSE, NoServices)}
    \cup {[type |-> "ping", sig |-> TRUE]}
    \cup {Event("llm", e) : e \in {"starting", "ready", "stopping", "stopped", "none"}}
    \cup {[type |-> "metrics", batch |-> b] :
            b \in {<<Metric("llm", "busy")>>,
                   <<Metric("llm", "stopped"), Metric("tts", "other")>>}}
=============================================================================
