----------------------------- MODULE MCProgress -----------------------------
(***************************************************************************)
(* What must eventually happen in the rendezvous server: entries and rows   *)
(* of dead nodes go (RVServer, with the nodes of MCMetrics), and no handler *)
(* waits for ever on someone else's connection (ControlWrites, with a node  *)
(* that may stop reading for good and another that connects and reconnects).*)
(* ControlWrites leaves out what frames do to the registry and RVServer what*)
(* it takes to write one, so a behaviour moves one of the two.              *)
(***************************************************************************)
EXTENDS MCMetrics, ControlWrites, TLC

CONSTANTS S, A1, A2

Reconnects == S :> "s" @@ A1 :> "a" @@ A2 :> "a"

VARIABLE view   \* the model that moves

progressVars == <<view, vars, controlWritesVars>>

ProgressInit == view \in {"registry", "writes"} /\ Init /\ ControlWritesInit

ProgressNext ==
    \/ view = "registry" /\ Next /\ UNCHANGED <<view, controlWritesVars>>
    \/ view = "writes" /\ ControlWritesNext /\ UNCHANGED <<view, vars>>

ProgressSpec ==
    /\ ProgressInit /\ [][ProgressNext]_progressVars
    /\ view = "registry" => Fairness
    /\ view = "writes" => ControlWritesFairness
=============================================================================
