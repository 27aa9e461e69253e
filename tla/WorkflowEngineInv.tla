------------------------- MODULE WorkflowEngineInv -------------------------
(* The inductive strengthening of WorkflowEngine's safety invariants.      *)
EXTENDS WorkflowEngine

Looping == pc \in {"poll", "batch", "offer", "spawn"}

(* Before the entry is claimed nothing has happened.                       *)
StartInv ==
    pc = "start" =>
        /\ edge = [e \in graph.edge |-> "pending"]
        /\ node = [n \in graph.node |-> "pending"]
        /\ greenlet = [n \in graph.node |-> "none"]
        /\ tracked = {} /\ affected = {}

(* What the loop knows of its nodes: those that run are tracked, but for   *)
(* the one that waits for the pool; none has failed.                       *)
LoopInv ==
    /\ Looping =>
          /\ node[graph.entry] # "pending"
          /\ \A n \in graph.node :
                /\ node[n] = "running" <=> n \in tracked \/ (pc = "spawn" /\ n = submitting)
                /\ node[n] \notin {"failed", "cancelled"}
    /\ pc \in {"poll", "batch"} => affected = {}
    /\ pc = "spawn" => submitting \in graph.node /\ submitting \notin tracked
    /\ pc \notin {"kill", "ended"} => doomed = {} /\ outcome = "none"
    /\ outcome = "finished" => pc = "ended"

(* Who may be alive: what the loop tracks, or has still to kill.           *)
GreenletInv ==
    \A n \in graph.node :
        /\ greenlet[n] # "none" => node[n] \notin {"pending", "inactive"}
        /\ greenlet[n] \in Alive /\ (pc = "start" \/ Looping) => n \in tracked
        /\ greenlet[n] \in Alive /\ pc = "kill" => n \in doomed

(* An edge is decided with its source.                                     *)
EdgeInv ==
    /\ \A n \in graph.node : n \in results <=> node[n] = "succeeded"
    /\ \A e \in graph.edge :
          /\ edge[e] = "pending" <=> node[e.source] \notin {"succeeded", "inactive"}
          /\ edge[e] = "active" => node[e.source] = "succeeded"

(* What NeverEarly says of a node holds from its claim on.                 *)
Called(n) ==
    /\ \A e \in In(graph, n) :
          \/ edge[e] = "inactive"
          \/ edge[e] = "active" /\ node[e.source] = "succeeded"
    /\ \A d \in graph.data[n] : node[d] = "succeeded"

CalledInv == \A n \in graph.node : node[n] \notin {"pending", "inactive"} => Called(n)

(* Nothing that ought to be inactive is still pending.                     *)
ClosedInv ==
    \A n \in graph.node : node[n] = "pending" =>
        /\ \A d \in graph.data[n] : node[d] # "inactive"
        /\ In(graph, n) # {} => \E e \in In(graph, n) : edge[e] # "inactive"

(* Whatever is ready has been woken up.                                    *)
WakeInv == Looping => \A n \in graph.node \ affected : ~Ready(n)

IInv ==
    /\ graph \in Graphs
    /\ TypeOK /\ StartInv /\ LoopInv /\ GreenletInv /\ EdgeInv
    /\ CalledInv /\ ClosedInv /\ WakeInv /\ NoSurvivors /\ NoNodeForgotten

(* What has been decided, and why.  An edge is active iff its source has   *)
(* selected it, and a result is not taken back.                            *)
SelectedInv ==
    /\ \A n \in results : greenlet[n] = "returned"
    /\ \A e \in graph.edge : e.source \in results => (edge[e] = "active" <=> Selected(e.source, e))

(* A node is inactive only for a reason that lasts.                        *)
ReasonInv ==
    /\ node[graph.entry] # "inactive"
    /\ \A n \in graph.node : node[n] = "inactive" =>
          \/ \E d \in graph.data[n] : node[d] = "inactive"
          \/ In(graph, n) # {} /\ \A e \in In(graph, n) : edge[e] = "inactive"

(* What has been claimed is called for by the results.                     *)
LiveInv == \A n \in graph.node : node[n] \notin {"pending", "inactive"} => n \in Live

(* A run that finishes has taken the results of all it has started.        *)
FinishedInv ==
    outcome = "finished" => \A n \in graph.node : node[n] \in {"pending", "succeeded", "inactive"}

CalledForInv == SelectedInv /\ ReasonInv /\ LiveInv /\ FinishedInv

(* What the loop has of its greenlets: those it tracks are alive or over,  *)
(* those of a batch are over, and the node it submits has none yet.        *)
WaitInv ==
    /\ Looping => \A n \in tracked : greenlet[n] \in Alive \cup {"returned", "raised"}
    /\ \A n \in batch : greenlet[n] \in {"returned", "raised"}
    /\ pc = "batch" => batch # {}
    /\ pc = "spawn" => greenlet[submitting] = "none"

(* The loop never waits for nobody: where it polls it finds a greenlet that*)
(* is over, or one that is alive and will be, or is done; a batch it is at *)
(* has a node to look at; and where the pool is full, what fills it is     *)
(* alive and tracked.                                                      *)
NeverWaitsForNobody ==
    /\ pc = "poll" => tracked = {} \/ Completed # {} \/ \E n \in tracked : greenlet[n] \in Alive
    /\ pc = "batch" => \E n \in batch : greenlet[n] \in {"returned", "raised"}
    /\ pc = "spawn" =>
          \/ Cardinality({n \in graph.node : greenlet[n] \in Alive}) < PoolSize
          \/ \E n \in tracked : greenlet[n] \in Alive

(* Nothing the scheduler has decided is ever decided anew, and what has run*)
(* never runs again: a node is started once, an edge decided once, and what*)
(* the results call for only grows.                                        *)
DecisionsAreFinal ==
    [][/\ \A e \in graph.edge : edge[e] # "pending" => edge'[e] = edge[e]
       /\ \A n \in graph.node :
             /\ node[n] \in {"succeeded", "inactive", "failed"} => node'[n] = node[n]
             /\ greenlet[n] # "none" => greenlet'[n] # "none"
             /\ greenlet[n] \notin Alive \cup {"none"} =>
                   greenlet'[n] = greenlet[n] /\ answer'[n] = answer[n]
             /\ greenlet[n] = "busy" => greenlet'[n] # "spawned"
       /\ \A n \in Live : n \in Live']_vars
=============================================================================
