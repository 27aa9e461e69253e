--------------------------- MODULE WorkflowEngine ---------------------------
(***************************************************************************)
(* The scheduler of one workflow run: WorkflowEngine._execute_core and the *)
(* readiness methods it calls.  One greenlet, the loop, decides which node *)
(* runs next; the nodes run in greenlets of a bounded pool, and the loop   *)
(* polls them.  The loop gives up the processor only where it sleeps, where*)
(* it waits for a slot of the pool and where it waits for a greenlet it has*)
(* killed; each of its other stretches is one action.                      *)
(*                                                                         *)
(* A graph is what the constructor computes from the nodes and edges of a  *)
(* workflow.  Notes, which the engine never instantiates, are left out.    *)
(* What a node computes is reduced to the handle it selects.               *)
(***************************************************************************)
EXTENDS Naturals, FiniteSets

CONSTANTS
    Graphs,     \* the graphs a run may be started with
    Handles,    \* the values of sourceHandle and selected_handle
    NoHandle,   \* selected_handle is None: every outgoing edge is taken
    NoAnswer,   \* no result yet
    NoNode,     \* no submission under way
    PoolSize    \* max_concurrent_tasks

In(g, n)         == {e \in g.edge : e.target = n}
Out(g, n)        == {e \in g.edge : e.source = n}
Dependents(g, n) == {m \in g.node : n \in g.data[m]}

(* What completing or deactivating a node may change.                      *)
Downstream(g, n) == Dependents(g, n) \cup {e.target : e \in Out(g, n)}

(* validate_graph: a finite graph has a cycle iff some set of nodes has no *)
(* node without a successor in the set.                                    *)
Acyclic(g) ==
    \A S \in SUBSET g.node \ {{}} :
        \E n \in S : \A e \in Out(g, n) : e.target \notin S

NothingIsolated(g) ==
    \A S \in SUBSET g.node :
        g.entry \in S /\ (\A e \in g.edge : e.source \in S => e.target \in S)
            => S = g.node

ValidGraph(g) ==
    /\ IsFiniteSet(g.node)
    /\ g.entry \in g.node
    /\ g.edge \subseteq [source : g.node, handle : Handles, target : g.node]
    /\ g.data \in [g.node -> SUBSET g.node]
    /\ Acyclic(g)
    /\ NothingIsolated(g)

ASSUME GraphsAssumption == \A g \in Graphs : ValidGraph(g)
ASSUME HandleAssumption == {NoHandle, NoAnswer} \cap Handles = {} /\ NoHandle # NoAnswer
ASSUME PoolAssumption   == PoolSize \in Nat \ {0}
ASSUME NodeAssumption   == \A g \in Graphs : NoNode \notin g.node

VARIABLES
    graph,       \* the graph of this run
    edge,        \* _control_edge_states
    node,        \* _node_schedule_states
    results,     \* the nodes whose result the loop has taken
    answer,      \* the handle a node has returned
    greenlet,    \* the greenlet of each node
    tracked,     \* running_greenlets
    batch,       \* completed: found ready by the last poll, not looked at yet
    affected,    \* next_nodes: to be offered before the next of the batch
    submitting,  \* the node of the submission that waits for the pool
    doomed,      \* the greenlets that are still to be killed
    pc,          \* where the loop is
    outcome      \* how the run ended

vars == <<graph, edge, node, results, answer, greenlet, tracked, batch,
          affected, submitting, doomed, pc, outcome>>

loopVars == <<graph, edge, node, results, tracked, batch, affected,
              submitting, doomed, pc, outcome>>

EdgeState == {"pending", "active", "inactive"}
NodeState == {"pending", "running", "succeeded", "inactive", "failed", "cancelled"}
Alive     == {"spawned", "busy"}
Greenlet  == Alive \cup {"none", "returned", "raised", "killed"}
Control   == {"start", "poll", "batch", "offer", "spawn", "kill", "ended"}
Outcome   == {"none", "finished", "failed", "timeout", "internal", "error", "interrupted"}

Init ==
    /\ graph \in Graphs
    /\ edge = [e \in graph.edge |-> "pending"]
    /\ node = [n \in graph.node |-> "pending"]
    /\ results = {}
    /\ answer = [n \in graph.node |-> NoAnswer]
    /\ greenlet = [n \in graph.node |-> "none"]
    /\ tracked = {}
    /\ batch = {}
    /\ affected = {}
    /\ submitting = NoNode
    /\ doomed = {}
    /\ pc = "start"
    /\ outcome = "none"

-----------------------------------------------------------------------------
(* Readiness.                                                              *)

(* Mutant: the first active edge is enough.                                *)
MutantReadyEarly(n) ==
    /\ node[n] = "pending"
    /\ \/ \E e \in In(graph, n) : edge[e] = "active"
       \/ In(graph, n) = {} /\ n = graph.entry
    /\ graph.data[n] \subseteq results

Ready(n) ==
    /\ node[n] = "pending"
    /\ \/ /\ \A e \in In(graph, n) : edge[e] # "pending"
          /\ \E e \in In(graph, n) : edge[e] = "active"
          /\ \A e \in In(graph, n) : edge[e] = "active" => e.source \in results
       \/ In(graph, n) = {} /\ n = graph.entry
    /\ graph.data[n] \subseteq results

(* Mutant: one inactive incoming edge is enough.                           *)
MutantDeactivates(states, candidates, S, n) ==
    /\ node[n] = "pending"
    /\ n \in candidates \/ \E m \in S : n \in Downstream(graph, m)
    /\ \/ \E d \in graph.data[n] : node[d] = "inactive" \/ d \in S
       \/ \E e \in In(graph, n) : states[e] = "inactive" \/ e.source \in S

(* _propagate_inactive_nodes.  The work list deactivates a pending node as *)
(* soon as one of its data sources or all its incoming edges are inactive, *)
(* and then looks at what is downstream of it: in the end, the nodes of the*)
(* least set that is closed under this.                                    *)
Deactivates(states, candidates, S, n) ==
    /\ node[n] = "pending"
    /\ n \in candidates \/ \E m \in S : n \in Downstream(graph, m)
    /\ \/ \E d \in graph.data[n] : node[d] = "inactive" \/ d \in S
       \/ /\ In(graph, n) # {}
          /\ \A e \in In(graph, n) : states[e] = "inactive" \/ e.source \in S

(* Mutant: what is downstream of a deactivated node is not looked at.      *)
MutantInactivated(states, candidates) ==
    {n \in graph.node : n \in candidates /\ Deactivates(states, candidates, {}, n)}

Inactivated(states, candidates) ==
    LET Pending == {n \in graph.node : node[n] = "pending"}
    IN  {n \in Pending :
            \A S \in SUBSET Pending :
                (\A m \in Pending : Deactivates(states, candidates, S, m) => m \in S)
                    => n \in S}

Selected(n, e) == answer[n] \in {NoHandle, e.handle}

-----------------------------------------------------------------------------
(* The loop.                                                               *)

(* The state conflict of _set_control_edge_state and the completion of a   *)
(* node that is not running are internal errors.                           *)
Conflict(n, states, gone) ==
    \/ node[n] # "running"
    \/ \E e \in Out(graph, n) : edge[e] \notin {"pending", states[e]}
    \/ \E m \in gone : \E e \in Out(graph, m) : states[e] = "active"

(* The other greenlets are cancelled and killed, and the error goes up.    *)
Stop(others, why) ==
    /\ doomed' = others
    /\ outcome' = why
    /\ pc' = "kill"

(* Mutant: the nodes started since the last poll are not killed.           *)
MutantFail(n, why) ==
    /\ node' = [m \in graph.node |->
                   IF m = n THEN "failed"
                   ELSE IF m \in tracked THEN "cancelled" ELSE node[m]]
    /\ Stop({m \in tracked \ {n} : greenlet[m] # "spawned"}, why)
    /\ UNCHANGED <<edge, affected>>

Fail(n, why) ==
    /\ node' = [m \in graph.node |->
                   IF m = n THEN "failed"
                   ELSE IF m \in tracked THEN "cancelled" ELSE node[m]]
    /\ Stop(tracked \ {n}, why)
    /\ UNCHANGED <<edge, affected>>

(* _complete_node_scheduling and the propagation that follows it.          *)
Complete(n) ==
    LET states == [e \in graph.edge |->
                      IF e.source # n THEN edge[e]
                      ELSE IF Selected(n, e) THEN "active" ELSE "inactive"]
        gone   == Inactivated(states, Downstream(graph, n))
    IN  IF Conflict(n, states, gone)
        THEN Fail(n, "internal")
        ELSE /\ node' = [m \in graph.node |->
                            IF m = n THEN "succeeded"
                            ELSE IF m \in gone THEN "inactive" ELSE node[m]]
             /\ edge' = [e \in graph.edge |->
                            IF e.source \in gone THEN "inactive" ELSE states[e]]
             /\ affected' = UNION {Downstream(graph, m) : m \in gone \cup {n}}
             /\ pc' = "offer"
             /\ UNCHANGED <<doomed, outcome>>

(* One greenlet of the batch is taken; the order, that of the submissions, *)
(* is left open.                                                           *)
TakeResult(n) ==
    /\ pc = "batch"
    /\ n \in batch
    /\ greenlet[n] = "returned"
    /\ batch' = batch \ {n}
    /\ tracked' = tracked \ {n}
    /\ results' = results \cup {n}
    /\ Complete(n)
    /\ UNCHANGED <<graph, answer, greenlet, submitting>>

TakeError(n) ==
    /\ pc = "batch"
    /\ n \in batch
    /\ greenlet[n] = "raised"
    /\ batch' = batch \ {n}
    /\ tracked' = tracked \ {n}
    /\ Fail(n, "failed")
    /\ UNCHANGED <<graph, results, answer, greenlet, submitting>>

(* _claim_node_if_ready and _submit_node up to pool.spawn.  Before a node  *)
(* is queued for the pool its start is logged and published; where that    *)
(* raises, the error leaves the loop past the code that kills.             *)
Claim(n) ==
    /\ node' = [node EXCEPT ![n] = "running"]
    /\ \/ /\ submitting' = n
          /\ pc' = "spawn"
          /\ UNCHANGED outcome
       \/ /\ pc' = "ended"
          /\ outcome' = "error"
          /\ UNCHANGED submitting

Start ==
    /\ pc = "start"
    /\ \/ /\ Ready(graph.entry)
          /\ Claim(graph.entry)
       \/ /\ ~Ready(graph.entry)
          /\ pc' = "ended"
          /\ outcome' = "error"
          /\ UNCHANGED <<node, submitting>>
    /\ UNCHANGED <<graph, edge, results, answer, greenlet, tracked, batch, affected, doomed>>

Offer(n) ==
    /\ pc = "offer"
    /\ n \in affected
    /\ Ready(n)
    /\ Claim(n)
    /\ affected' = affected \ {n}
    /\ UNCHANGED <<graph, edge, results, answer, greenlet, tracked, batch, doomed>>

NothingToOffer ==
    /\ pc = "offer"
    /\ \A n \in affected : ~Ready(n)
    /\ affected' = {}
    /\ pc' = IF batch = {} THEN "poll" ELSE "batch"
    /\ UNCHANGED <<graph, edge, node, results, answer, greenlet, tracked, batch,
                   submitting, doomed, outcome>>

(* pool.spawn waits until one of its greenlets is over.                    *)
Spawn ==
    /\ pc = "spawn"
    /\ Cardinality({n \in graph.node : greenlet[n] \in Alive}) < PoolSize
    /\ greenlet' = [greenlet EXCEPT ![submitting] = "spawned"]
    /\ tracked' = tracked \cup {submitting}
    /\ submitting' = NoNode
    /\ pc' = "offer"
    /\ UNCHANGED <<graph, edge, node, results, answer, batch, affected, doomed, outcome>>

Finish ==
    /\ pc = "poll"
    /\ tracked = {}
    /\ pc' = "ended"
    /\ outcome' = "finished"
    /\ UNCHANGED <<graph, edge, node, results, answer, greenlet, tracked, batch,
                   affected, submitting, doomed>>

(* Mutant: a greenlet that raised is not found.                            *)
MutantCompleted == {n \in tracked : greenlet[n] = "returned"}

(* Mutant: all greenlets are looked at, not only those still tracked.      *)
MutantAllCompleted == {n \in graph.node : greenlet[n] \in {"returned", "raised"}}

Completed == {n \in tracked : greenlet[n] \in {"returned", "raised"}}

Collect ==
    /\ pc = "poll"
    /\ Completed # {}
    /\ batch' = Completed
    /\ pc' = "batch"
    /\ UNCHANGED <<graph, edge, node, results, answer, greenlet, tracked,
                   affected, submitting, doomed, outcome>>

(* The time of the run is compared once per poll, and may be over at any.  *)
WorkflowTimeout ==
    /\ pc = "poll"
    /\ tracked # {}
    /\ node' = [n \in graph.node |-> IF n \in tracked THEN "cancelled" ELSE node[n]]
    /\ Stop(tracked, "timeout")
    /\ UNCHANGED <<graph, edge, results, answer, greenlet, tracked, batch, affected, submitting>>

(* kill waits for its greenlet, and meanwhile the others go on.            *)
Kill(n) ==
    /\ pc = "kill"
    /\ n \in doomed
    /\ greenlet' = [greenlet EXCEPT ![n] = IF @ \in Alive THEN "killed" ELSE @]
    /\ doomed' = doomed \ {n}
    /\ UNCHANGED <<graph, edge, node, results, answer, tracked, batch, affected,
                   submitting, pc, outcome>>

Killed ==
    /\ pc = "kill"
    /\ doomed = {}
    /\ pc' = "ended"
    /\ UNCHANGED <<graph, edge, node, results, answer, greenlet, tracked, batch,
                   affected, submitting, doomed, outcome>>

-----------------------------------------------------------------------------
(* The greenlets of the nodes, and what befalls the loop.                  *)

Begin(n) ==
    /\ greenlet[n] = "spawned"
    /\ greenlet' = [greenlet EXCEPT ![n] = "busy"]
    /\ UNCHANGED <<loopVars, answer>>

Return(n, h) ==
    /\ greenlet[n] = "busy"
    /\ greenlet' = [greenlet EXCEPT ![n] = "returned"]
    /\ answer' = [answer EXCEPT ![n] = h]
    /\ UNCHANGED loopVars

(* The node raises, or its own time is over.                               *)
Raise(n) ==
    /\ greenlet[n] = "busy"
    /\ greenlet' = [greenlet EXCEPT ![n] = "raised"]
    /\ UNCHANGED <<loopVars, answer>>

(* The engine of a child graph runs in the greenlet of a node of its       *)
(* parent.  Where that is killed or timed out, what is thrown is no        *)
(* Exception: it ends the child's loop at a point where it waits, and      *)
(* nothing there catches it.                                               *)
Interrupted ==
    /\ pc \in {"poll", "spawn", "kill"}
    /\ pc' = "ended"
    /\ outcome' = "interrupted"
    /\ UNCHANGED <<graph, edge, node, results, answer, greenlet, tracked, batch,
                   affected, submitting, doomed>>

(* The run is over and nothing is left of it.                              *)
Done ==
    /\ pc = "ended"
    /\ \A n \in graph.node : greenlet[n] \notin Alive
    /\ UNCHANGED vars

Loop ==
    \/ Start
    \/ Spawn
    \/ NothingToOffer
    \/ Finish
    \/ Collect
    \/ Killed
    \/ \E n \in graph.node : TakeResult(n) \/ TakeError(n) \/ Offer(n) \/ Kill(n)

NodeEnds(n) == Raise(n) \/ \E h \in Handles \cup {NoHandle} : Return(n, h)

Next ==
    \/ Loop
    \/ WorkflowTimeout
    \/ Interrupted
    \/ \E n \in graph.node : Begin(n) \/ NodeEnds(n)
    \/ Done

Spec == Init /\ [][Next]_vars

(* The loop never waits for anything but the pool, a greenlet that was     *)
(* spawned is switched to, and a node is bounded by its timeout.           *)
Fairness ==
    /\ WF_vars(Loop)
    /\ WF_vars(\E n \in graph.node : Begin(n))
    /\ WF_vars(\E n \in graph.node : NodeEnds(n))

FairSpec == Spec /\ Fairness

-----------------------------------------------------------------------------
(* Properties.                                                             *)

Started == {n \in graph.node : greenlet[n] # "none"}

(* Which nodes the results so far call for, defined without any scheduling:*)
(* the least set with the entry and with every node that a node of the set *)
(* has selected and whose data sources are all in the set.                 *)
Calls(S, n) ==
    /\ \E e \in In(graph, n) : e.source \in S \cap results /\ Selected(e.source, e)
    /\ graph.data[n] \subseteq S \cap results

Live ==
    LET Closed == {S \in SUBSET graph.node :
                      graph.entry \in S /\ \A n \in graph.node \ S : ~Calls(S, n)}
    IN  {n \in graph.node : \A S \in Closed : n \in S}

(* No node waits, over edges and selectors, for itself.  The validation of *)
(* the graph looks at the edges only.                                      *)
NoCyclicSelector(g) ==
    \A S \in SUBSET g.node \ {{}} : \E n \in S : Downstream(g, n) \cap S = {}

(* Types; and the state conflicts the scheduler raises as internal errors, *)
(* a node that completes twice or an edge decided anew, never occur.       *)
TypeOK ==
    /\ edge \in [graph.edge -> EdgeState]
    /\ node \in [graph.node -> NodeState]
    /\ results \subseteq graph.node
    /\ answer \in [graph.node -> Handles \cup {NoHandle, NoAnswer}]
    /\ greenlet \in [graph.node -> Greenlet]
    /\ tracked \subseteq graph.node
    /\ batch \subseteq tracked
    /\ affected \subseteq graph.node
    /\ submitting \in graph.node \cup {NoNode}
    /\ doomed \subseteq tracked
    /\ pc \in Control
    /\ outcome \in Outcome \ {"internal"}

(* FR-084: a node is started only when all its incoming edges are decided, *)
(* every active predecessor and every selector source has succeeded; and   *)
(* this stays so while it runs.                                            *)
NeverEarly ==
    \A n \in Started :
        /\ \A e \in In(graph, n) :
               \/ edge[e] = "inactive"
               \/ edge[e] = "active" /\ node[e.source] = "succeeded"
        /\ \A d \in graph.data[n] : node[d] = "succeeded"

(* Whatever the order in which nodes complete, those that are started are  *)
(* among the nodes the results call for, a deactivated node is none of     *)
(* them, and a run that finishes has run all of them, unless a selector    *)
(* makes a node wait for itself.                                           *)
RunsWhatIsCalledFor ==
    LET live == Live
    IN  /\ Started \subseteq live
        /\ \A n \in live : node[n] # "inactive"
        /\ outcome = "finished" /\ NoCyclicSelector(graph) => results = live

(* A run that finishes leaves a node undecided only if it waits, directly  *)
(* or not, for itself: no wake-up is lost.                                 *)
NoNodeForgotten ==
    outcome = "finished" =>
        \A n \in graph.node :
            node[n] = "pending" => \E m \in graph.node : node[m] = "pending" /\ n \in Downstream(graph, m)

(* Once a node has failed or the run has timed out and the error is out,   *)
(* no sibling is alive.                                                    *)
NoSurvivors ==
    pc = "ended" /\ outcome \in {"failed", "timeout", "finished"} =>
        \A n \in graph.node : greenlet[n] \notin Alive

(* Every run ends, and so does every greenlet it has started.              *)
RunEnds == <>[](pc = "ended" /\ \A n \in graph.node : greenlet[n] \notin Alive)

=============================================================================
