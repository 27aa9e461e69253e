------------------------ MODULE WorkflowEngine_proofs ------------------------

(***************************************************************************)
(* Proofs about the scheduler of a run, for every graph the validation lets*)
(* through and every size of the pool.                                     *)
(***************************************************************************)
EXTENDS WorkflowEngineInv, FiniteSetTheorems, WellFoundedInduction, TLAPS

(* What the validation of the graph gives, in the form the proofs use.     *)
Shape ==
    /\ graph.entry \in graph.node
    /\ \A e \in graph.edge : e.source \in graph.node /\ e.target \in graph.node
    /\ \A n \in graph.node : graph.data[n] \subseteq graph.node
    /\ NoNode \notin graph.node

(* The edges of a graph, and its selectors, lead from nodes to nodes.      *)
LEMMA GraphShape == ASSUME graph \in Graphs PROVE Shape
<1>1. ValidGraph(graph) /\ NoNode \notin graph.node
  BY GraphsAssumption, NodeAssumption
<1> QED  BY <1>1 DEF ValidGraph, Shape

(* The initial states satisfy the inductive invariant.                     *)
LEMMA InitInv == Init => IInv
<1> SUFFICES ASSUME Init PROVE IInv
  OBVIOUS
<1>1. graph \in Graphs /\ Shape
  BY GraphShape DEF Init
<1>2. TypeOK
  BY DEF Init, TypeOK, EdgeState, NodeState, Greenlet, Alive, Control, Outcome
<1>3. StartInv /\ LoopInv /\ GreenletInv /\ WakeInv
  BY DEF Init, StartInv, LoopInv, Looping, GreenletInv, Alive, WakeInv
<1>4. EdgeInv /\ CalledInv
  BY <1>1 DEF Init, EdgeInv, CalledInv, Shape
<1>5. ClosedInv
  BY <1>1 DEF Init, ClosedInv, Shape, In
<1>6. NoSurvivors /\ NoNodeForgotten
  BY DEF Init, NoSurvivors, NoNodeForgotten
<1> QED  BY <1>1, <1>2, <1>3, <1>4, <1>5, <1>6 DEF IInv

-----------------------------------------------------------------------------

(* Steps that decide nothing about nodes or edges.                         *)

(* What is said of nodes and edges alone survives a step that leaves both. *)
LEMMA Framed ==
  ASSUME EdgeInv, CalledInv, ClosedInv, UNCHANGED <<graph, edge, node, results>>
  PROVE  EdgeInv' /\ CalledInv' /\ ClosedInv'
<1>1. EdgeInv'
  BY DEF EdgeInv
<1>2. CalledInv'
  BY DEF CalledInv, Called, In
<1>3. ClosedInv'
  BY DEF ClosedInv, In
<1> QED  BY <1>1, <1>2, <1>3

(* Readiness depends on nodes, edges and results alone.                    *)
LEMMA ReadyFramed ==
  ASSUME UNCHANGED <<graph, edge, node, results>>
  PROVE  \A n \in graph.node : Ready(n)' = Ready(n)
BY DEF Ready, In

(* A greenlet goes on or ends by itself; the loop has not noticed yet.     *)
LEMMA GreenletStep ==
  ASSUME IInv, NEW n \in graph.node, Begin(n) \/ NodeEnds(n)
  PROVE  IInv'
<1> USE DEF NodeEnds, Begin, Return, Raise, loopVars
<1>1. UNCHANGED loopVars /\ greenlet[n] \in Alive
  BY DEF Alive
<1>2. /\ greenlet' \in [graph.node -> Greenlet]
      /\ answer' \in [graph.node -> Handles \cup {NoHandle, NoAnswer}]
      /\ \A m \in graph.node \ {n} : greenlet'[m] = greenlet[m]
      /\ greenlet'[n] # "none"
  BY DEF IInv, TypeOK, Greenlet, Alive
<1>3. TypeOK'
  BY <1>1, <1>2 DEF IInv, TypeOK
<1>4. GreenletInv'
  BY <1>1, <1>2 DEF IInv, GreenletInv, Looping, Alive
<1>5. StartInv'
  BY <1>1 DEF IInv, StartInv, TypeOK, Alive
<1>6. LoopInv' /\ NoNodeForgotten'
  BY <1>1 DEF IInv, LoopInv, Looping, NoNodeForgotten, Downstream, Dependents, Out
<1>7. EdgeInv' /\ CalledInv' /\ ClosedInv'
  BY <1>1, Framed DEF IInv
<1>8. WakeInv'
  BY <1>1, ReadyFramed DEF IInv, WakeInv, Looping
<1>9. NoSurvivors'
  BY <1>1 DEF IInv, NoSurvivors
<1> QED  BY <1>1, <1>3, <1>4, <1>5, <1>6, <1>7, <1>8, <1>9 DEF IInv

(* The steps of the loop that only move it: it is told of the greenlets    *)
(* that are over, finds nothing to offer, or comes to an end.              *)
LEMMA MovingStep ==
  ASSUME IInv, Collect \/ NothingToOffer \/ Killed \/ Interrupted
  PROVE  IInv'
<1> USE DEF Collect, NothingToOffer, Killed, Interrupted
<1>1. UNCHANGED <<graph, edge, node, results, answer, greenlet, tracked, submitting, doomed>>
  OBVIOUS
<1>2. TypeOK'
  <2>1. batch' \subseteq tracked' /\ affected' \subseteq graph.node
    BY DEF IInv, TypeOK, Completed
  <2>2. pc' \in Control /\ outcome' \in Outcome \ {"internal"}
    BY DEF IInv, TypeOK, Control, Outcome
  <2> QED  BY <1>1, <2>1, <2>2 DEF IInv, TypeOK
<1>3. StartInv'
  BY <1>1 DEF IInv, StartInv
<1>4. LoopInv'
  BY <1>1 DEF IInv, LoopInv, Looping, TypeOK, Control
<1>5. GreenletInv'
  BY <1>1 DEF IInv, GreenletInv, Looping
<1>6. EdgeInv' /\ CalledInv' /\ ClosedInv'
  BY <1>1, Framed DEF IInv
<1>7. WakeInv'
  BY <1>1, ReadyFramed DEF IInv, WakeInv, Looping
<1>8. NoSurvivors' /\ NoNodeForgotten'
  <2>1. outcome' # "finished"
    BY DEF IInv, LoopInv
  <2>2. NoSurvivors'
    BY <1>1, <2>1 DEF IInv, NoSurvivors, GreenletInv, LoopInv
  <2> QED  BY <2>1, <2>2 DEF NoNodeForgotten
<1> QED  BY <1>1, <1>2, <1>3, <1>4, <1>5, <1>6, <1>7, <1>8 DEF IInv

(* A greenlet is killed while the others go on.                            *)
LEMMA KillStep ==
  ASSUME IInv, NEW n \in graph.node, Kill(n)
  PROVE  IInv'
<1> USE DEF Kill
<1>1. /\ UNCHANGED <<graph, edge, node, results, answer, tracked, batch, affected,
                     submitting, pc, outcome>>
      /\ pc = "kill" /\ n \in doomed /\ doomed' = doomed \ {n}
  OBVIOUS
<1>2. /\ greenlet' \in [graph.node -> Greenlet]
      /\ \A m \in graph.node \ {n} : greenlet'[m] = greenlet[m]
      /\ greenlet'[n] \notin Alive
      /\ greenlet'[n] = "none" <=> greenlet[n] = "none"
  BY DEF IInv, TypeOK, Greenlet, Alive
<1>3. TypeOK'
  BY <1>1, <1>2 DEF IInv, TypeOK
<1>4. StartInv' /\ LoopInv' /\ NoSurvivors' /\ NoNodeForgotten'
  BY <1>1 DEF IInv, StartInv, LoopInv, Looping, NoSurvivors, NoNodeForgotten
<1>5. GreenletInv'
  BY <1>1, <1>2 DEF IInv, GreenletInv, Looping
<1>6. EdgeInv' /\ CalledInv' /\ ClosedInv'
  BY <1>1, Framed DEF IInv
<1>7. WakeInv'
  BY <1>1 DEF WakeInv, Looping
<1> QED  BY <1>1, <1>3, <1>4, <1>5, <1>6, <1>7 DEF IInv

(* The pool takes the greenlet of the node that was claimed.               *)
LEMMA SpawnStep ==
  ASSUME IInv, Spawn
  PROVE  IInv'
<1> USE DEF Spawn
<1>1. /\ UNCHANGED <<graph, edge, node, results, answer, batch, affected, doomed, outcome>>
      /\ pc = "spawn" /\ pc' = "offer" /\ submitting \in graph.node
      /\ tracked' = tracked \cup {submitting}
  BY DEF IInv, LoopInv
<1>2. /\ greenlet' \in [graph.node -> Greenlet]
      /\ \A m \in graph.node \ {submitting} : greenlet'[m] = greenlet[m]
      /\ node[submitting] = "running"
  BY <1>1 DEF IInv, TypeOK, Greenlet, Alive, LoopInv, Looping
<1>3. TypeOK'
  BY <1>1, <1>2 DEF IInv, TypeOK, Control
<1>4. StartInv' /\ NoSurvivors' /\ NoNodeForgotten'
  BY <1>1 DEF IInv, StartInv, LoopInv, NoSurvivors, NoNodeForgotten
<1>5. LoopInv'
  BY <1>1 DEF IInv, LoopInv, Looping
<1>6. GreenletInv'
  BY <1>1, <1>2 DEF IInv, GreenletInv, Looping
<1>7. EdgeInv' /\ CalledInv' /\ ClosedInv'
  BY <1>1, Framed DEF IInv
<1>8. WakeInv'
  BY <1>1, ReadyFramed DEF IInv, WakeInv, Looping
<1> QED  BY <1>1, <1>3, <1>4, <1>5, <1>6, <1>7, <1>8 DEF IInv

-----------------------------------------------------------------------------

(* Steps that stop the run.                                                *)

(* A run that fails, or whose time is over, cancels what it tracks and is  *)
(* left with the greenlets it has to kill.                                 *)
LEMMA StopStep ==
  ASSUME IInv, WorkflowTimeout \/ \E n \in graph.node : TakeError(n)
  PROVE  IInv'
<1>1. PICK n \in graph.node \cup {NoNode} :
        /\ node' = [m \in graph.node |->
                       IF m = n THEN "failed"
                       ELSE IF m \in tracked THEN "cancelled" ELSE node[m]]
        /\ tracked' = tracked \ {n} /\ doomed' = tracked \ {n} /\ batch' = batch \ {n}
        /\ n \in graph.node => n \in tracked /\ greenlet[n] = "raised"
        /\ outcome' \in {"timeout", "failed"}
  <2>1. CASE WorkflowTimeout
    <3>1. Shape
      BY GraphShape DEF IInv
    <3>2. NoNode \notin tracked /\ NoNode \notin batch
      BY <3>1 DEF IInv, TypeOK, Shape
    <3> QED  BY <2>1, <3>1, <3>2 DEF WorkflowTimeout, Stop, Shape
  <2>2. CASE \E n \in graph.node : TakeError(n)
    BY <2>2 DEF TakeError, Fail, Stop, IInv, TypeOK
  <2> QED  BY <2>1, <2>2
<1>2. /\ UNCHANGED <<graph, edge, results, answer, greenlet, affected, submitting>>
      /\ pc \in {"poll", "batch"} /\ pc' = "kill"
  BY DEF WorkflowTimeout, TakeError, Fail, Stop
<1>3. \A m \in tracked : node[m] = "running"
  BY <1>2 DEF IInv, LoopInv, Looping, TypeOK
<1>4. \A m \in graph.node :
         \/ node'[m] = node[m]
         \/ node[m] = "running" /\ node'[m] \in {"failed", "cancelled"}
  BY <1>1, <1>3
<1>5. TypeOK'
  <2>1. node' \in [graph.node -> NodeState]
    BY <1>1 DEF IInv, TypeOK, NodeState
  <2> QED  BY <1>1, <1>2, <2>1 DEF IInv, TypeOK, Control, Outcome
<1>6. StartInv' /\ LoopInv' /\ NoSurvivors' /\ NoNodeForgotten'
  BY <1>1, <1>2 DEF IInv, StartInv, LoopInv, Looping, NoSurvivors, NoNodeForgotten
<1>7. GreenletInv'
  BY <1>1, <1>2, <1>4 DEF IInv, GreenletInv, Looping, Alive
<1>8. Shape
  BY GraphShape DEF IInv
<1>9. EdgeInv'
  BY <1>2, <1>4, <1>8 DEF IInv, EdgeInv, Shape
<1>10. CalledInv'
  <2> SUFFICES ASSUME NEW m \in graph.node, node'[m] \notin {"pending", "inactive"}
               PROVE  Called(m)'
    BY <1>2 DEF CalledInv
  <2>1. Called(m)
    BY <1>4 DEF IInv, CalledInv
  <2> QED  BY <1>2, <1>4, <1>8, <2>1 DEF Called, In, Shape
<1>11. ClosedInv'
  BY <1>2, <1>4, <1>8 DEF IInv, ClosedInv, In, Shape
<1>12. WakeInv'
  BY <1>2 DEF WakeInv, Looping
<1> QED  BY <1>2, <1>5, <1>6, <1>7, <1>9, <1>10, <1>11, <1>12 DEF IInv

-----------------------------------------------------------------------------

(* Claims.                                                                 *)

(* What is ready has been called: all that reaches it is decided, and the  *)
(* nodes it takes from have succeeded.                                     *)
LEMMA ReadyCalled ==
  ASSUME IInv, NEW n \in graph.node, Ready(n)
  PROVE  Called(n)
<1>1. Shape
  BY GraphShape DEF IInv
<1>2. \A e \in In(graph, n) : edge[e] \in {"active", "inactive"}
                              /\ (edge[e] = "active" => node[e.source] = "succeeded")
  BY DEF IInv, EdgeInv, Ready, In, TypeOK, EdgeState
<1>3. \A d \in graph.data[n] : node[d] = "succeeded"
  BY <1>1 DEF IInv, EdgeInv, Ready, Shape
<1> QED  BY <1>2, <1>3 DEF Called

(* A ready node is claimed, by the start or by an offer.                   *)
LEMMA ClaimStep ==
  ASSUME IInv, NEW n \in graph.node, Ready(n), Claim(n),
         (Start /\ n = graph.entry) \/ Offer(n)
  PROVE  IInv'
<1> USE DEF Claim
<1>1. /\ UNCHANGED <<graph, edge, results, answer, greenlet, tracked, batch, doomed>>
      /\ pc \in {"start", "offer"} /\ affected' \subseteq affected
      /\ affected \subseteq affected' \cup {n}
      /\ pc = "start" => n = graph.entry
  BY DEF Start, Offer
<1>2. /\ node' = [node EXCEPT ![n] = "running"] /\ node[n] = "pending"
      /\ \/ pc' = "spawn" /\ submitting' = n /\ outcome' = outcome
         \/ pc' = "ended" /\ outcome' = "error" /\ submitting' = submitting
  BY DEF Ready
<1>3. node' \in [graph.node -> NodeState] /\ node'[n] = "running"
      /\ \A m \in graph.node \ {n} : node'[m] = node[m]
  BY <1>2 DEF IInv, TypeOK, NodeState
<1>4. Shape
  BY GraphShape DEF IInv
<1>5. TypeOK'
  BY <1>1, <1>2, <1>3 DEF IInv, TypeOK, Control, Outcome
<1>6. StartInv' /\ NoSurvivors' /\ NoNodeForgotten'
  <2>1. outcome' # "finished"
    BY <1>1, <1>2 DEF IInv, LoopInv
  <2> QED  BY <1>1, <1>2, <2>1 DEF StartInv, NoSurvivors, NoNodeForgotten
<1>7. LoopInv'
  <2>1. CASE pc' = "ended"
    BY <2>1, <1>2 DEF LoopInv, Looping
  <2>2. CASE pc' = "spawn"
    <3>1. n \notin tracked /\ doomed = {} /\ outcome = "none"
      BY <1>1, <1>2 DEF IInv, LoopInv, Looping, StartInv
    <3>2. \A m \in graph.node \ {n} :
             /\ node[m] = "running" <=> m \in tracked
             /\ node[m] \notin {"failed", "cancelled"}
      <4>1. CASE pc = "start"
        BY <4>1 DEF IInv, StartInv
      <4>2. CASE pc = "offer"
        BY <4>2 DEF IInv, LoopInv, Looping
      <4> QED  BY <1>1, <4>1, <4>2
    <3>3. node'[graph.entry] # "pending"
      BY <1>1, <1>3, <1>4 DEF IInv, LoopInv, Looping, Shape
    <3> QED  BY <1>1, <1>2, <1>3, <2>2, <3>1, <3>2, <3>3 DEF LoopInv, Looping
  <2> QED  BY <1>2, <2>1, <2>2
<1>8. GreenletInv'
  <2>1. \A m \in graph.node : greenlet[m] # "none" => node'[m] \notin {"pending", "inactive"}
    BY <1>3 DEF IInv, GreenletInv
  <2>2. \A m \in graph.node : greenlet[m] \in Alive => m \in tracked
    BY <1>1 DEF IInv, GreenletInv, Looping
  <2> QED  BY <1>1, <1>2, <2>1, <2>2 DEF GreenletInv
<1>9. EdgeInv'
  BY <1>1, <1>2, <1>3, <1>4 DEF IInv, EdgeInv, Shape
<1>10. CalledInv'
  <2>1. \A m \in graph.node : Called(m) => Called(m)'
    BY <1>1, <1>2, <1>3, <1>4 DEF Called, In, Shape
  <2>2. \A m \in graph.node \ {n} : node'[m] \notin {"pending", "inactive"} => Called(m)
    BY <1>3 DEF IInv, CalledInv
  <2>3. Called(n)
    BY ReadyCalled
  <2> QED  BY <1>1, <2>1, <2>2, <2>3 DEF CalledInv
<1>11. ClosedInv'
  <2>1. \A m \in graph.node : node'[m] = "pending" => node[m] = "pending"
    BY <1>3
  <2>2. \A m \in graph.node : node'[m] = "inactive" => node[m] = "inactive"
    BY <1>3
  <2> QED  BY <1>1, <1>4, <2>1, <2>2 DEF IInv, ClosedInv, In, Shape
<1>12. WakeInv'
  <2> SUFFICES ASSUME NEW m \in graph.node, m \notin affected', Ready(m)'
               PROVE  FALSE
    BY <1>1 DEF WakeInv
  <2>1. m # n /\ Ready(m)
    BY <1>1, <1>3 DEF Ready, In
  <2>2. CASE pc = "offer"
    BY <1>1, <2>1, <2>2 DEF IInv, WakeInv, Looping
  <2>3. CASE pc = "start"
    BY <1>1, <2>1, <2>3 DEF IInv, StartInv, Ready, In
  <2> QED  BY <1>1, <2>2, <2>3
<1> QED  BY <1>1, <1>5, <1>6, <1>7, <1>8, <1>9, <1>10, <1>11, <1>12 DEF IInv

(* The start claims the entry, or finds that it cannot and ends.           *)
LEMMA StartStep ==
  ASSUME IInv, Start
  PROVE  IInv'
<1>1. Shape
  BY GraphShape DEF IInv
<1>2. CASE Ready(graph.entry)
  BY <1>1, <1>2, ClaimStep DEF Start, Shape
<1>3. CASE ~Ready(graph.entry)
  <2>1. /\ UNCHANGED <<graph, edge, node, results, answer, greenlet, tracked, batch,
                       affected, submitting, doomed>>
        /\ pc = "start" /\ pc' = "ended" /\ outcome' = "error"
    BY <1>3 DEF Start
  <2>2. TypeOK'
    BY <2>1 DEF IInv, TypeOK, Control, Outcome
  <2>3. StartInv' /\ LoopInv' /\ WakeInv' /\ NoSurvivors' /\ NoNodeForgotten'
    BY <2>1 DEF StartInv, LoopInv, Looping, WakeInv, NoSurvivors, NoNodeForgotten
  <2>4. GreenletInv'
    BY <2>1 DEF IInv, GreenletInv, Looping
  <2>5. EdgeInv' /\ CalledInv' /\ ClosedInv'
    BY <2>1, Framed DEF IInv
  <2> QED  BY <2>1, <2>2, <2>3, <2>4, <2>5 DEF IInv
<1> QED  BY <1>2, <1>3

-----------------------------------------------------------------------------

(* Completion.                                                             *)

(* The propagation goes on to the end: what the nodes it deactivates would *)
(* deactivate in turn is among them.                                       *)
LEMMA PropagationCloses ==
  ASSUME NEW states, NEW candidates, NEW m \in graph.node,
         Deactivates(states, candidates, Inactivated(states, candidates), m)
  PROVE  m \in Inactivated(states, candidates)
<1> DEFINE G == Inactivated(states, candidates)
           Pending == {k \in graph.node : node[k] = "pending"}
<1>1. m \in Pending
  BY DEF Deactivates
<1>2. ASSUME NEW S \in SUBSET Pending,
             \A k \in Pending : Deactivates(states, candidates, S, k) => k \in S
      PROVE  m \in S
  <2>1. G \subseteq S
    BY <1>2 DEF Inactivated
  <2>2. Deactivates(states, candidates, S, m)
    BY <2>1 DEF Deactivates
  <2> QED  BY <1>1, <1>2, <2>2
<1> QED  BY <1>1, <1>2 DEF Inactivated

(* The result of a node is taken: it has not completed before, none of the *)
(* edges it decides was decided, and whatever is pending still is told.    *)
LEMMA ResultStep ==
  ASSUME IInv, NEW n \in graph.node, TakeResult(n)
  PROVE  IInv'
<1> DEFINE states == [e \in graph.edge |->
                         IF e.source # n THEN edge[e]
                         ELSE IF Selected(n, e) THEN "active" ELSE "inactive"]
           gone   == Inactivated(states, Downstream(graph, n))
<1>1. Shape
  BY GraphShape DEF IInv
<1>2. /\ UNCHANGED <<graph, answer, greenlet, submitting>>
      /\ pc = "batch" /\ n \in batch /\ greenlet[n] = "returned"
      /\ batch' = batch \ {n} /\ tracked' = tracked \ {n}
      /\ results' = results \cup {n}
  BY DEF TakeResult
<1>3. node[n] = "running" /\ n \in tracked /\ affected = {} /\ doomed = {} /\ outcome = "none"
  BY <1>2 DEF IInv, TypeOK, LoopInv, Looping
<1>4. \A m \in gone : m \in graph.node /\ node[m] = "pending"
  BY DEF Inactivated
<1>5. \A e \in graph.edge : e.source \in gone \cup {n} => edge[e] = "pending"
  BY <1>1, <1>3, <1>4 DEF IInv, EdgeInv, Shape
<1>6. ~Conflict(n, states, gone)
  <2>1. \A e \in Out(graph, n) : edge[e] = "pending"
    BY <1>5 DEF Out
  <2>2. \A m \in gone : \A e \in Out(graph, m) : states[e] = "pending"
    BY <1>3, <1>4, <1>5 DEF Out
  <2> QED  BY <1>3, <2>1, <2>2 DEF Conflict
<1>7. /\ node' = [m \in graph.node |->
                     IF m = n THEN "succeeded"
                     ELSE IF m \in gone THEN "inactive" ELSE node[m]]
      /\ edge' = [e \in graph.edge |-> IF e.source \in gone THEN "inactive" ELSE states[e]]
      /\ affected' = UNION {Downstream(graph, m) : m \in gone \cup {n}}
      /\ pc' = "offer" /\ UNCHANGED <<doomed, outcome>>
  BY <1>6 DEF TakeResult, Complete
<1> HIDE DEF gone
<1>8. n \notin gone
  BY <1>3, <1>4
<1>9. \A e \in graph.edge :
         /\ e.source = n => edge'[e] \in {"active", "inactive"}
         /\ e.source \in gone => edge'[e] = "inactive"
         /\ e.source \notin gone \cup {n} => edge'[e] = edge[e]
  BY <1>7, <1>8
<1>10. \A m \in graph.node :
          /\ m = n => node'[m] = "succeeded"
          /\ m \in gone => node'[m] = "inactive"
          /\ m \notin gone \cup {n} => node'[m] = node[m]
  BY <1>7, <1>8
<1>11. TypeOK'
  <2>1. edge' \in [graph.edge -> EdgeState]
    <3>1. \A e \in graph.edge : edge'[e] \in EdgeState
      BY <1>9 DEF IInv, TypeOK, EdgeState
    <3> QED  BY <1>7, <3>1
  <2>2. node' \in [graph.node -> NodeState]
    <3>1. \A m \in graph.node : node'[m] \in NodeState
      BY <1>10 DEF IInv, TypeOK, NodeState
    <3> QED  BY <1>7, <3>1
  <2>3. affected' \subseteq graph.node
    BY <1>1, <1>4, <1>7 DEF Downstream, Dependents, Out, Shape
  <2> QED  BY <1>2, <1>3, <1>7, <2>1, <2>2, <2>3 DEF IInv, TypeOK, Control
<1>12. StartInv' /\ NoSurvivors' /\ NoNodeForgotten'
  BY <1>3, <1>7 DEF StartInv, NoSurvivors, NoNodeForgotten
<1>13. LoopInv'
  <2>1. \A m \in graph.node : node[m] = "running" <=> m \in tracked
    BY <1>2 DEF IInv, LoopInv, Looping
  <2>2. \A m \in graph.node : /\ node'[m] = "running" <=> m \in tracked'
                              /\ node'[m] \notin {"failed", "cancelled"}
    BY <1>2, <1>4, <1>10, <2>1 DEF IInv, LoopInv, Looping
  <2>3. node'[graph.entry] # "pending"
    BY <1>1, <1>2, <1>10 DEF IInv, LoopInv, Looping, Shape
  <2> QED  BY <1>2, <1>3, <1>7, <2>2, <2>3 DEF LoopInv, Looping
<1>14. GreenletInv'
  <2>1. \A m \in graph.node : greenlet[m] # "none" => node'[m] \notin {"pending", "inactive"}
    BY <1>4, <1>10 DEF IInv, GreenletInv
  <2>2. \A m \in graph.node : greenlet[m] \in Alive => m \in tracked'
    BY <1>2 DEF IInv, GreenletInv, Looping, Alive
  <2> QED  BY <1>2, <1>7, <2>1, <2>2 DEF GreenletInv
<1>15. EdgeInv'
  <2>1. \A m \in graph.node : m \in results' <=> node'[m] = "succeeded"
    BY <1>2, <1>4, <1>10 DEF IInv, EdgeInv
  <2>2. \A e \in graph.edge :
           /\ edge'[e] = "pending" <=> node'[e.source] \notin {"succeeded", "inactive"}
           /\ edge'[e] = "active" => node'[e.source] = "succeeded"
    BY <1>1, <1>9, <1>10 DEF IInv, EdgeInv, Shape
  <2> QED  BY <1>2, <2>1, <2>2 DEF EdgeInv
<1>16. CalledInv'
  <2> SUFFICES ASSUME NEW m \in graph.node, node'[m] \notin {"pending", "inactive"}
               PROVE  Called(m)'
    BY <1>2 DEF CalledInv
  <2>1. Called(m)
    BY <1>3, <1>10 DEF IInv, CalledInv
  <2>2. \A e \in In(graph, m) : edge'[e] = edge[e]
    BY <1>5, <1>9, <2>1 DEF Called, In
  <2>3. \A k \in graph.node : node[k] = "succeeded" => node'[k] = "succeeded"
    BY <1>4, <1>10
  <2> QED  BY <1>1, <1>2, <2>1, <2>2, <2>3 DEF Called, In, Shape
<1>17. ClosedInv'
  <2> SUFFICES ASSUME NEW m \in graph.node, node'[m] = "pending"
               PROVE  /\ \A d \in graph.data[m] : node'[d] # "inactive"
                      /\ In(graph, m) # {} => \E e \in In(graph, m) : edge'[e] # "inactive"
    BY <1>2 DEF ClosedInv
  <2>1. node[m] = "pending" /\ m \notin gone
    BY <1>10
  <2>2. ~Deactivates(states, Downstream(graph, n), gone, m)
    BY <2>1, PropagationCloses DEF gone
  <2>3. \A d \in graph.data[m] : node'[d] # "inactive"
    <3> SUFFICES ASSUME NEW d \in graph.data[m], node'[d] = "inactive"
                 PROVE  FALSE
      OBVIOUS
    <3>1. d \in gone
      BY <1>1, <1>10, <2>1 DEF IInv, ClosedInv, Shape
    <3>2. m \in Downstream(graph, d)
      BY DEF Downstream, Dependents
    <3> QED  BY <2>1, <2>2, <3>1, <3>2 DEF Deactivates
  <2>4. ASSUME In(graph, m) # {}, \A e \in In(graph, m) : edge'[e] = "inactive"
        PROVE  FALSE
    <3>1. PICK e \in In(graph, m) : edge[e] # "inactive"
      BY <2>1, <2>4 DEF IInv, ClosedInv
    <3>2. e.source \in gone \cup {n}
      BY <1>9, <2>4, <3>1 DEF In
    <3>3. m \in Downstream(graph, e.source)
      BY DEF Downstream, In, Out
    <3>4. \A f \in In(graph, m) : states[f] = "inactive" \/ f.source \in gone
      BY <1>7, <2>4 DEF In
    <3> QED  BY <2>1, <2>2, <2>4, <3>2, <3>3, <3>4 DEF Deactivates
  <2> QED  BY <2>3, <2>4
<1>18. WakeInv'
  <2> SUFFICES ASSUME NEW m \in graph.node, m \notin affected', Ready(m)'
               PROVE  FALSE
    BY <1>2 DEF WakeInv
  <2>1. \A k \in gone \cup {n} : m \notin Downstream(graph, k)
    BY <1>7
  <2>2. node[m] = "pending"
    BY <1>2, <1>10 DEF Ready
  <2>3. \A e \in In(graph, m) : e.source \notin gone \cup {n} /\ edge'[e] = edge[e]
    BY <1>9, <2>1 DEF Downstream, In, Out
  <2>4. n \notin graph.data[m]
    BY <2>1 DEF Downstream, Dependents
  <2>5. Ready(m)
    BY <1>2, <2>2, <2>3, <2>4 DEF Ready, In
  <2> QED  BY <1>2, <1>3, <2>5 DEF IInv, WakeInv, Looping
<1> QED  BY <1>2, <1>11, <1>12, <1>13, <1>14, <1>15, <1>16, <1>17, <1>18 DEF IInv

-----------------------------------------------------------------------------

(* The end of a run.                                                       *)

(* When nothing runs and nothing that is ready was left unwoken, a node is *)
(* pending only below a node that is.                                      *)
LEMMA FinishForgetsNone ==
  ASSUME IInv, Finish, NEW n \in graph.node, node[n] = "pending",
         \A m \in graph.node : node[m] = "pending" => n \notin Downstream(graph, m)
  PROVE  FALSE
<1>1. Shape
  BY GraphShape DEF IInv
<1>2. pc = "poll" /\ tracked = {} /\ affected = {} /\ n # graph.entry
  BY DEF Finish, IInv, LoopInv, Looping
<1>3. \A m \in graph.node : node[m] \in {"pending", "succeeded", "inactive"}
  BY <1>2 DEF IInv, LoopInv, Looping, TypeOK, NodeState
<1>4. \A e \in In(graph, n) : edge[e] # "pending"
  BY <1>1, <1>3 DEF IInv, EdgeInv, In, Out, Downstream, Shape
<1>5. \A d \in graph.data[n] : node[d] # "pending"
  BY <1>1 DEF Downstream, Dependents, Shape
<1>6. graph.data[n] \subseteq results
  BY <1>1, <1>3, <1>5 DEF IInv, EdgeInv, ClosedInv, Shape
<1>7. In(graph, n) # {}
  <2> SUFFICES ASSUME In(graph, n) = {} PROVE FALSE
    OBVIOUS
  <2>1. NothingIsolated(graph)
    BY GraphsAssumption DEF IInv, ValidGraph
  <2>2. \A e \in graph.edge : e.target \in graph.node \ {n}
    BY <1>1 DEF In, Shape
  <2>3. graph.node \ {n} = graph.node
    BY <1>1, <1>2, <2>1, <2>2 DEF NothingIsolated, Shape
  <2> QED  BY <2>3
<1>8. \E e \in In(graph, n) : edge[e] = "active"
  BY <1>4, <1>7 DEF IInv, ClosedInv, TypeOK, EdgeState, In
<1>9. \A e \in In(graph, n) : edge[e] = "active" => e.source \in results
  BY <1>1 DEF IInv, EdgeInv, In, Shape
<1> QED  BY <1>2, <1>4, <1>6, <1>8, <1>9 DEF IInv, WakeInv, Looping, Ready

(* A run finishes.                                                         *)
LEMMA FinishStep ==
  ASSUME IInv, Finish
  PROVE  IInv'
<1>1. /\ UNCHANGED <<graph, edge, node, results, answer, greenlet, tracked, batch,
                     affected, submitting, doomed>>
      /\ pc = "poll" /\ tracked = {} /\ pc' = "ended" /\ outcome' = "finished"
  BY DEF Finish
<1>2. TypeOK'
  BY <1>1 DEF IInv, TypeOK, Control, Outcome
<1>3. StartInv' /\ LoopInv' /\ WakeInv'
  BY <1>1 DEF StartInv, LoopInv, Looping, WakeInv
<1>4. GreenletInv' /\ NoSurvivors'
  BY <1>1 DEF IInv, GreenletInv, Looping, NoSurvivors
<1>5. EdgeInv' /\ CalledInv' /\ ClosedInv'
  BY <1>1, Framed DEF IInv
<1>6. NoNodeForgotten'
  BY <1>1, FinishForgetsNone DEF NoNodeForgotten, Downstream, Dependents, Out
<1> QED  BY <1>1, <1>2, <1>3, <1>4, <1>5, <1>6 DEF IInv

-----------------------------------------------------------------------------

(* The theorems.                                                           *)

(* Every step of the loop, of a greenlet or of what befalls the loop keeps *)
(* the inductive invariant.                                                *)
LEMMA NextInv == IInv /\ [Next]_vars => IInv'
<1> SUFFICES ASSUME IInv, [Next]_vars PROVE IInv'
  OBVIOUS
<1>1. CASE Start
  BY <1>1, StartStep
<1>2. CASE Spawn
  BY <1>2, SpawnStep
<1>3. CASE Collect \/ NothingToOffer \/ Killed \/ Interrupted
  BY <1>3, MovingStep
<1>4. CASE Finish
  BY <1>4, FinishStep
<1>5. ASSUME NEW n \in graph.node, TakeResult(n) PROVE IInv'
  BY <1>5, ResultStep
<1>6. CASE WorkflowTimeout \/ \E n \in graph.node : TakeError(n)
  BY <1>6, StopStep
<1>7. ASSUME NEW n \in graph.node, Offer(n) PROVE IInv'
  <2>1. Ready(n) /\ Claim(n)
    BY <1>7 DEF Offer
  <2> QED  BY <1>7, <2>1, ClaimStep
<1>8. ASSUME NEW n \in graph.node, Kill(n) PROVE IInv'
  BY <1>8, KillStep
<1>9. ASSUME NEW n \in graph.node, Begin(n) \/ NodeEnds(n) PROVE IInv'
  BY <1>9, GreenletStep
<1>10. CASE Done \/ UNCHANGED vars
  <2>1. UNCHANGED vars
    BY <1>10 DEF Done
  <2>2. TypeOK' /\ StartInv' /\ LoopInv' /\ GreenletInv'
    BY <2>1 DEF IInv, vars, TypeOK, StartInv, LoopInv, GreenletInv, Looping
  <2>3. EdgeInv' /\ CalledInv' /\ ClosedInv'
    BY <2>1, Framed DEF IInv, vars
  <2>4. WakeInv' /\ NoSurvivors' /\ NoNodeForgotten'
    BY <2>1, ReadyFramed DEF IInv, vars, WakeInv, Looping, NoSurvivors, NoNodeForgotten
  <2> QED  BY <2>1, <2>2, <2>3, <2>4 DEF IInv, vars
<1> QED
  BY <1>1, <1>2, <1>3, <1>4, <1>5, <1>6, <1>7, <1>8, <1>9, <1>10 DEF Next, Loop

(* The strengthened invariant holds in every state of every run of every   *)
(* valid graph, in whatever order its nodes complete.                      *)
THEOREM Invariance == Spec => []IInv
<1>1. Init => IInv
  BY InitInv
<1>2. IInv /\ [Next]_vars => IInv'
  BY NextInv
<1> QED  BY <1>1, <1>2, PTL DEF Spec

(* Types; and the errors by which the scheduler guards its own state, a    *)
(* node that completes when it does not run or an edge that is decided     *)
(* twice, never occur.                                                     *)
THEOREM TypeCorrect == Spec => []TypeOK
<1>1. IInv => TypeOK
  BY DEF IInv
<1> QED  BY <1>1, Invariance, PTL

(* _is_ready: no node is started before all that reaches it is decided and *)
(* all it takes from has succeeded.                                        *)
THEOREM NotTooEarly == Spec => []NeverEarly
<1>1. IInv => NeverEarly
  <2> SUFFICES ASSUME IInv, NEW n \in graph.node, greenlet[n] # "none" PROVE Called(n)
    BY DEF NeverEarly, Started, Called
  <2> QED  BY DEF IInv, GreenletInv, CalledInv
<1> QED  BY <1>1, Invariance, PTL

(* _execute_core: a run that finishes leaves a node pending only below     *)
(* another pending one, so no wake-up of a ready node is lost.             *)
THEOREM NothingForgotten == Spec => []NoNodeForgotten
<1>1. IInv => NoNodeForgotten
  BY DEF IInv
<1> QED  BY <1>1, Invariance, PTL

(* _execute_core: when the error of a node or of the time-out leaves the   *)
(* loop, or the run finishes, no greenlet of it is alive.                  *)
THEOREM NothingSurvives == Spec => []NoSurvivors
<1>1. IInv => NoSurvivors
  BY DEF IInv
<1> QED  BY <1>1, Invariance, PTL

-----------------------------------------------------------------------------

(* What the results call for.                                              *)

(* The nodes called for include the entry and what they call for in turn,  *)
(* and are among those of every such set.                                  *)
LEMMA LiveIsLeast ==
  ASSUME Shape
  PROVE  /\ Live \subseteq graph.node /\ graph.entry \in Live
         /\ \A n \in graph.node : Calls(Live, n) => n \in Live
         /\ \A S \in SUBSET graph.node :
               graph.entry \in S /\ (\A n \in graph.node \ S : ~Calls(S, n)) => Live \subseteq S
<1> DEFINE Closed == {S \in SUBSET graph.node :
                         graph.entry \in S /\ \A n \in graph.node \ S : ~Calls(S, n)}
<1>1. Live = {n \in graph.node : \A S \in Closed : n \in S}
  BY DEF Live
<1>2. ASSUME NEW n \in graph.node, Calls(Live, n) PROVE n \in Live
  <2> SUFFICES ASSUME NEW S \in Closed PROVE n \in S
    BY <1>1
  <2>1. Live \subseteq S
    BY <1>1
  <2>2. Calls(S, n)
    BY <1>2, <2>1 DEF Calls
  <2> QED  BY <2>2
<1>3. graph.entry \in Live
  BY <1>1 DEF Shape
<1> QED  BY <1>1, <1>2, <1>3

(* A later result never takes back what earlier ones have called for.      *)
LEMMA LiveGrows ==
  ASSUME graph' = graph, results \subseteq results',
         \A n \in results : answer'[n] = answer[n]
  PROVE  \A n \in Live : n \in Live'
<1> SUFFICES ASSUME NEW n \in Live, NEW S \in SUBSET graph.node, graph.entry \in S,
                    \A m \in graph.node \ S : ~Calls(S, m)'
             PROVE  n \in S
  BY DEF Live
<1>1. \A m \in graph.node \ S : ~Calls(S, m)
  BY DEF Calls, In, Selected
<1> QED  BY <1>1 DEF Live

(* A node that is ready is called for: it is the entry, or has been        *)
(* selected by a node that is, and takes from nodes that are.              *)
LEMMA ReadyIsLive ==
  ASSUME IInv, CalledForInv, NEW n \in graph.node, Ready(n)
  PROVE  n \in Live
<1>1. Shape
  BY GraphShape DEF IInv
<1>2. results \subseteq Live
  BY DEF IInv, TypeOK, EdgeInv, CalledForInv, LiveInv
<1>3. CASE n = graph.entry
  BY <1>1, <1>3, LiveIsLeast
<1>4. CASE n # graph.entry
  <2>1. PICK e \in In(graph, n) : edge[e] = "active" /\ e.source \in results
    BY <1>4 DEF Ready
  <2>2. Selected(e.source, e)
    BY <2>1 DEF CalledForInv, SelectedInv, In
  <2>3. graph.data[n] \subseteq results
    BY DEF Ready
  <2>4. Calls(Live, n)
    BY <1>2, <2>1, <2>2, <2>3 DEF Calls
  <2> QED  BY <1>1, <2>4, LiveIsLeast
<1> QED  BY <1>3, <1>4
(* A step that takes no result and only moves nodes on that have been      *)
(* claimed, or claims one that is ready, undoes no decision.               *)
LEMMA DecisionsStay ==
  ASSUME IInv, CalledForInv, UNCHANGED <<graph, edge, results>>,
         \A n \in results : answer'[n] = answer[n] /\ greenlet'[n] = greenlet[n],
         \A n \in graph.node :
            \/ node'[n] = node[n]
            \/ /\ node[n] \notin {"succeeded", "inactive"} /\ node'[n] # "inactive"
               /\ node[n] = "pending" => Ready(n)
  PROVE  SelectedInv' /\ ReasonInv' /\ LiveInv'
<1>1. Shape
  BY GraphShape DEF IInv
<1>2. SelectedInv'
  BY DEF CalledForInv, SelectedInv, Selected
<1>3. \A n \in graph.node : node'[n] = "inactive" <=> node[n] = "inactive"
  OBVIOUS
<1>4. ReasonInv'
  BY <1>1, <1>3 DEF CalledForInv, ReasonInv, In, Shape
<1>5. LiveInv'
  <2> SUFFICES ASSUME NEW n \in graph.node, node'[n] \notin {"pending", "inactive"}
               PROVE  n \in Live'
    BY DEF LiveInv
  <2>1. n \in Live
    <3>1. CASE node[n] = "pending"
      BY <3>1, ReadyIsLive
    <3>2. CASE node[n] # "pending"
      BY <3>2 DEF CalledForInv, LiveInv
    <3> QED  BY <3>1, <3>2
  <2> QED  BY <2>1, LiveGrows
<1> QED  BY <1>2, <1>4, <1>5

(* What is deactivated is deactivated for a reason: one of its data        *)
(* sources, or all the edges that reach it, are inactive afterwards.       *)
LEMMA PropagationHasReasons ==
  ASSUME NEW states, NEW candidates, NEW m \in Inactivated(states, candidates)
  PROVE  Deactivates(states, candidates, Inactivated(states, candidates), m)
<1> DEFINE G == Inactivated(states, candidates)
           Pending == {k \in graph.node : node[k] = "pending"}
<1> SUFFICES ASSUME ~Deactivates(states, candidates, G, m) PROVE FALSE
  OBVIOUS
<1>1. G \subseteq Pending /\ m \in Pending
  BY DEF Inactivated
<1>2. ASSUME NEW k \in Pending, Deactivates(states, candidates, G \ {m}, k)
      PROVE  k \in G \ {m}
  <2>1. Deactivates(states, candidates, G, k)
    BY <1>2 DEF Deactivates
  <2> QED  BY <2>1, PropagationCloses
<1>3. G \ {m} \in SUBSET Pending
  BY <1>1
<1>4. \A S \in SUBSET Pending :
         (\A k \in Pending : Deactivates(states, candidates, S, k) => k \in S) => m \in S
  BY DEF Inactivated
<1> HIDE DEF G, Pending
<1> QED  BY <1>2, <1>3, <1>4

(* A result decides the edges of its node as its answer says, and nothing  *)
(* that it deactivates was called for.                                     *)
LEMMA ResultCalls ==
  ASSUME IInv, IInv', CalledForInv, NEW n \in graph.node, TakeResult(n)
  PROVE  CalledForInv'
<1> DEFINE states == [e \in graph.edge |->
                         IF e.source # n THEN edge[e]
                         ELSE IF Selected(n, e) THEN "active" ELSE "inactive"]
           gone   == Inactivated(states, Downstream(graph, n))
<1>1. Shape
  BY GraphShape DEF IInv
<1>2. /\ UNCHANGED <<graph, answer, greenlet>> /\ pc = "batch" /\ n \in batch
      /\ greenlet[n] = "returned" /\ results' = results \cup {n}
  BY DEF TakeResult
<1>3. outcome = "none" /\ node[n] = "running" /\ node[graph.entry] # "pending"
  BY <1>2 DEF IInv, TypeOK, LoopInv, Looping
<1>4. ~Conflict(n, states, gone)
  <2>1. outcome' # "internal"
    BY DEF IInv, TypeOK
  <2> QED  BY <2>1 DEF TakeResult, Complete, Fail, Stop
<1>5. /\ node' = [m \in graph.node |->
                     IF m = n THEN "succeeded"
                     ELSE IF m \in gone THEN "inactive" ELSE node[m]]
      /\ edge' = [e \in graph.edge |-> IF e.source \in gone THEN "inactive" ELSE states[e]]
      /\ UNCHANGED outcome
  BY <1>4 DEF TakeResult, Complete
<1>6. \A m \in gone : m \in graph.node /\ node[m] = "pending" /\ m # n /\ m \notin results
  BY <1>3 DEF Inactivated, IInv, EdgeInv
<1>7. \A m \in gone : Deactivates(states, Downstream(graph, n), gone, m)
  BY PropagationHasReasons
<1> HIDE DEF gone
<1>8. \A e \in graph.edge :
         /\ e.source = n => (edge'[e] = "active" <=> Selected(n, e))
         /\ e.source \in results \ {n} => edge'[e] = edge[e]
         /\ e.source \in gone => edge'[e] = "inactive"
         /\ e.source \notin gone => edge'[e] = states[e]
  BY <1>5, <1>6
<1>9. \A m \in graph.node :
         /\ m \in gone => node'[m] = "inactive"
         /\ node[m] = "inactive" => node'[m] = "inactive"
         /\ node'[m] = "inactive" => m \in gone \/ node[m] = "inactive"
         /\ node'[m] \notin {"pending", "inactive"} => node[m] \notin {"pending", "inactive"}
  BY <1>3, <1>5, <1>6
<1>10. SelectedInv'
  <2>1. \A m \in results' : greenlet'[m] = "returned"
    BY <1>2 DEF CalledForInv, SelectedInv
  <2>2. ASSUME NEW e \in graph.edge, e.source \in results'
        PROVE  edge'[e] = "active" <=> Selected(e.source, e)'
    <3>1. Selected(e.source, e)' = Selected(e.source, e)
      BY <1>2 DEF Selected
    <3>2. CASE e.source = n
      BY <1>8, <3>1, <3>2
    <3>3. CASE e.source \in results \ {n}
      BY <1>8, <3>1, <3>3 DEF CalledForInv, SelectedInv
    <3> QED  BY <1>2, <2>2, <3>2, <3>3
  <2> QED  BY <1>2, <2>1, <2>2 DEF SelectedInv
<1>11. ReasonInv'
  <2>1. node'[graph.entry] # "inactive"
    BY <1>1, <1>3, <1>6, <1>9 DEF CalledForInv, ReasonInv, Shape
  <2> SUFFICES ASSUME NEW m \in graph.node, node'[m] = "inactive"
               PROVE  \/ \E d \in graph.data[m] : node'[d] = "inactive"
                      \/ In(graph, m) # {} /\ \A e \in In(graph, m) : edge'[e] = "inactive"
    BY <1>2, <2>1 DEF ReasonInv, In
  <2>2. CASE m \in gone
    <3>1. CASE \E d \in graph.data[m] : node[d] = "inactive" \/ d \in gone
      BY <1>1, <1>9, <3>1 DEF Shape
    <3>2. CASE /\ In(graph, m) # {}
               /\ \A e \in In(graph, m) : states[e] = "inactive" \/ e.source \in gone
      <4> HIDE DEF states
      <4>1. \A e \in In(graph, m) : edge'[e] = "inactive"
        BY <1>8, <3>2 DEF In
      <4> QED  BY <3>2, <4>1
    <3> QED  BY <1>7, <2>2, <3>1, <3>2 DEF Deactivates
  <2>3. CASE node[m] = "inactive"
    <3>1. CASE \E d \in graph.data[m] : node[d] = "inactive"
      BY <1>1, <1>9, <3>1 DEF Shape
    <3>2. CASE In(graph, m) # {} /\ \A e \in In(graph, m) : edge[e] = "inactive"
      <4>1. \A e \in In(graph, m) : e.source # n
        BY <1>1, <1>3, <3>2 DEF IInv, EdgeInv, In, Shape
      <4>2. \A e \in In(graph, m) : states[e] = "inactive"
        BY <3>2, <4>1 DEF In
      <4> QED  BY <1>8, <3>2, <4>2 DEF In
    <3> QED  BY <2>3, <3>1, <3>2 DEF CalledForInv, ReasonInv
  <2> QED  BY <1>9, <2>2, <2>3
<1>12. LiveInv'
  <2>1. \A m \in Live : m \in Live'
    BY <1>2, LiveGrows
  <2> QED  BY <1>2, <1>9, <2>1 DEF CalledForInv, LiveInv
<1>13. FinishedInv'
  BY <1>3, <1>5 DEF FinishedInv
<1> QED  BY <1>10, <1>11, <1>12, <1>13 DEF CalledForInv

(* Every other step: the run finishes only when no node is running.        *)
LEMMA OtherCalls ==
  ASSUME IInv, IInv', CalledForInv, [Next]_vars, \A n \in graph.node : ~TakeResult(n)
  PROVE  CalledForInv'
<1>1. \A n \in results : n \in graph.node /\ node[n] = "succeeded" /\ greenlet[n] = "returned"
  BY DEF IInv, EdgeInv, TypeOK, CalledForInv, SelectedInv
<1> DEFINE Kept == \A n \in results : answer'[n] = answer[n] /\ greenlet'[n] = greenlet[n]
           Moved == \A n \in graph.node :
                       \/ node'[n] = node[n]
                       \/ /\ node[n] \notin {"succeeded", "inactive"} /\ node'[n] # "inactive"
                          /\ node[n] = "pending" => Ready(n)
           Fixed == UNCHANGED <<graph, edge, results>>
           Ends == outcome' = "finished" =>
                      \A n \in graph.node : node'[n] \in {"pending", "succeeded", "inactive"}
<1> SUFFICES Fixed /\ Kept /\ Moved /\ Ends
  BY DecisionsStay DEF CalledForInv, FinishedInv
<1>2. CASE UNCHANGED <<node, answer, greenlet>> /\ Fixed /\ (outcome' = outcome \/ outcome' = "error" \/ outcome' = "interrupted")
  BY <1>2 DEF CalledForInv, FinishedInv
<1>3. CASE Start /\ ~Ready(graph.entry)
  BY <1>2, <1>3 DEF Start
<1>4. ASSUME NEW n \in graph.node, Ready(n), Claim(n), Fixed, UNCHANGED <<answer, greenlet>>,
             outcome # "finished"
      PROVE  Fixed /\ Kept /\ Moved /\ Ends
  <2>1. Moved
    BY <1>4 DEF Claim, IInv, TypeOK, Ready
  <2> QED  BY <1>4, <2>1 DEF Claim
<1>5. CASE Start /\ Ready(graph.entry)
  <2>1. Shape
    BY GraphShape DEF IInv
  <2> QED  BY <1>4, <1>5, <2>1 DEF Start, Shape, IInv, LoopInv
<1>6. ASSUME NEW n \in graph.node, Offer(n) PROVE Fixed /\ Kept /\ Moved /\ Ends
  BY <1>4, <1>6 DEF Offer, IInv, LoopInv
<1>7. CASE Spawn
  <2>1. Kept
    BY <1>1, <1>7 DEF Spawn, IInv, LoopInv, Looping, TypeOK
  <2> QED  BY <1>7, <2>1 DEF Spawn, CalledForInv, FinishedInv
<1>8. CASE Collect \/ NothingToOffer \/ Killed \/ Interrupted
  BY <1>2, <1>8 DEF Collect, NothingToOffer, Killed, Interrupted
<1>9. CASE Finish
  <2>1. \A n \in graph.node : node[n] \in {"pending", "succeeded", "inactive"}
    BY <1>9 DEF Finish, IInv, LoopInv, Looping, TypeOK, NodeState
  <2> QED  BY <1>9, <2>1 DEF Finish
<1>10. CASE WorkflowTimeout \/ \E n \in graph.node : TakeError(n)
  <2>1. PICK n \in graph.node \cup {NoNode} :
          /\ node' = [m \in graph.node |->
                         IF m = n THEN "failed"
                         ELSE IF m \in tracked THEN "cancelled" ELSE node[m]]
          /\ n \in graph.node => n \in tracked
          /\ outcome' \in {"timeout", "failed"}
    <3>1. Shape
      BY GraphShape DEF IInv
    <3>2. CASE WorkflowTimeout
      BY <3>1, <3>2 DEF WorkflowTimeout, Stop, Shape
    <3>3. CASE \E n \in graph.node : TakeError(n)
      BY <3>3 DEF TakeError, Fail, Stop, IInv, TypeOK
    <3> QED  BY <1>10, <3>2, <3>3
  <2>2. \A m \in tracked : node[m] = "running"
    BY <1>10 DEF WorkflowTimeout, TakeError, IInv, LoopInv, Looping, TypeOK
  <2>3. Fixed /\ UNCHANGED <<answer, greenlet>>
    BY <1>10 DEF WorkflowTimeout, TakeError, Fail, Stop
  <2>4. Moved
    BY <2>1, <2>2
  <2> QED  BY <2>1, <2>3, <2>4
<1>11. ASSUME NEW n \in graph.node, Kill(n) PROVE Fixed /\ Kept /\ Moved /\ Ends
  <2>1. Kept
    BY <1>1, <1>11 DEF Kill, IInv, TypeOK, Alive
  <2> QED  BY <1>11, <2>1 DEF Kill, CalledForInv, FinishedInv
<1>12. ASSUME NEW n \in graph.node, Begin(n) \/ NodeEnds(n) PROVE Fixed /\ Kept /\ Moved /\ Ends
  <2>1. n \notin results
    BY <1>1, <1>12 DEF Begin, NodeEnds, Return, Raise
  <2>2. Kept
    BY <1>1, <1>12, <2>1 DEF Begin, NodeEnds, Return, Raise, IInv, TypeOK
  <2> QED  BY <1>12, <2>2 DEF Begin, NodeEnds, Return, Raise, loopVars, CalledForInv, FinishedInv
<1>13. CASE Done \/ UNCHANGED vars
  BY <1>2, <1>13 DEF Done, vars
<1> QED
  BY <1>3, <1>5, <1>6, <1>7, <1>8, <1>9, <1>10, <1>11, <1>12, <1>13 DEF Next, Loop

(* The decisions taken are inductive in company of the invariant.          *)
LEMMA NextCalls == IInv /\ CalledForInv /\ [Next]_vars => CalledForInv'
<1> SUFFICES ASSUME IInv, CalledForInv, [Next]_vars PROVE CalledForInv'
  OBVIOUS
<1>1. IInv'
  BY NextInv
<1>2. CASE \E n \in graph.node : TakeResult(n)
  BY <1>1, <1>2, ResultCalls
<1>3. CASE \A n \in graph.node : ~TakeResult(n)
  BY <1>1, <1>3, OtherCalls
<1> QED  BY <1>2, <1>3

LEMMA InitCalls == Init => CalledForInv
<1> SUFFICES ASSUME Init PROVE CalledForInv
  OBVIOUS
<1>1. Shape
  BY GraphShape DEF Init
<1> QED  BY <1>1 DEF Init, CalledForInv, SelectedInv, ReasonInv, LiveInv, FinishedInv, Shape

-----------------------------------------------------------------------------

(* Waiting for oneself.                                                    *)

(* A set of numbers has a least one.                                       *)
LEMMA NatMin ==
  ASSUME NEW S \in SUBSET Nat, S # {}
  PROVE  \E m \in S : \A y \in S : m <= y
<1>1. PICK m \in S : \A y \in S : ~(<<y, m>> \in OpToRel(<, Nat))
  BY NatLessThanWellFounded, WFMin
<1>2. \A y \in S : ~(y < m)
  BY <1>1 DEF OpToRel
<1> QED  BY <1>2

(* Where no node waits for itself, every set of nodes has one that waits   *)
(* for none of the set: take away a node none of the set waits for, and    *)
(* look among the rest.                                                    *)
LEMMA SomeNodeWaitsForNone ==
  ASSUME NEW g, IsFiniteSet(g.node), NoCyclicSelector(g),
         NEW T \in SUBSET g.node, T # {}
  PROVE  \E n \in T : \A m \in T : n \notin Downstream(g, m)
<1> DEFINE First(S) == \E n \in S : \A m \in S : n \notin Downstream(g, m)
           Bad == {S \in SUBSET g.node : S # {} /\ ~First(S)}
           Sizes == {Cardinality(S) : S \in Bad}
<1>1. \A S \in SUBSET g.node : IsFiniteSet(S) /\ Cardinality(S) \in Nat
  BY FS_Subset, FS_CardinalityType
<1> SUFFICES ASSUME Bad # {} PROVE FALSE
  OBVIOUS
<1>2. Sizes \in SUBSET Nat /\ Sizes # {}
  BY <1>1
<1>3. PICK c \in Sizes : \A d \in Sizes : c <= d
  BY <1>2, NatMin
<1>4. PICK S \in Bad : Cardinality(S) = c
  BY <1>3
<1>5. PICK n \in S : Downstream(g, n) \cap S = {}
  BY <1>4 DEF NoCyclicSelector
<1>6. S \ {n} \in SUBSET g.node /\ Cardinality(S \ {n}) = c - 1 /\ c \in Nat
  BY <1>1, <1>2, <1>4, <1>5, FS_RemoveElement
<1>7. S \ {n} \notin Bad
  <2> SUFFICES ASSUME S \ {n} \in Bad PROVE FALSE
    OBVIOUS
  <2>1. c <= Cardinality(S \ {n})
    BY <1>3
  <2> QED  BY <1>6, <2>1
<1>8. CASE S = {n}
  BY <1>4, <1>5, <1>8
<1>9. CASE S # {n}
  <2>1. PICK k \in S \ {n} : \A m \in S \ {n} : k \notin Downstream(g, m)
    BY <1>5, <1>6, <1>7, <1>9
  <2>2. k \notin Downstream(g, n)
    BY <1>5, <2>1
  <2>3. First(S)
    BY <2>1, <2>2
  <2> QED  BY <1>4, <2>3
<1> QED  BY <1>8, <1>9

(* _execute_core and _propagate_inactive_nodes: in whatever order nodes    *)
(* complete, what is started has been called for by the results, what is   *)
(* deactivated has not, and a run that finishes has run all that its       *)
(* results call for unless a selector makes a node wait for itself.        *)
THEOREM CalledForIsRun == Spec => []RunsWhatIsCalledFor
<1>1. IInv /\ CalledForInv => RunsWhatIsCalledFor
  <2> SUFFICES ASSUME IInv, CalledForInv PROVE RunsWhatIsCalledFor
    OBVIOUS
  <2>1. Shape
    BY GraphShape DEF IInv
  <2>2. Started \subseteq Live
    BY DEF Started, IInv, GreenletInv, CalledForInv, LiveInv
  <2>3. \A n \in Live : node[n] # "inactive"
    <3> DEFINE S == {n \in graph.node : node[n] # "inactive"}
    <3>1. graph.entry \in S
      BY <2>1 DEF CalledForInv, ReasonInv, Shape
    <3>2. ASSUME NEW n \in graph.node, node[n] = "inactive", Calls(S, n) PROVE FALSE
      <4>1. PICK e \in In(graph, n) : e.source \in results /\ Selected(e.source, e)
        BY <3>2 DEF Calls
      <4>2. edge[e] = "active"
        BY <4>1 DEF CalledForInv, SelectedInv, In
      <4>3. PICK d \in graph.data[n] : node[d] = "inactive"
        BY <3>2, <4>2 DEF CalledForInv, ReasonInv
      <4> QED  BY <3>2, <4>3 DEF Calls
    <3> QED  BY <2>1, <3>1, <3>2, LiveIsLeast
  <2>4. ASSUME outcome = "finished", NoCyclicSelector(graph) PROVE results = Live
    <3> DEFINE T == {n \in graph.node : node[n] = "pending"}
    <3>1. results \subseteq Live
      BY DEF IInv, TypeOK, EdgeInv, CalledForInv, LiveInv
    <3>2. T = {}
      <4> SUFFICES ASSUME T # {} PROVE FALSE
        OBVIOUS
      <4>1. IsFiniteSet(graph.node)
        BY GraphsAssumption DEF IInv, ValidGraph
      <4>2. PICK n \in T : \A m \in T : n \notin Downstream(graph, m)
        BY <2>4, <4>1, SomeNodeWaitsForNone
      <4> QED  BY <2>4, <4>2 DEF IInv, NoNodeForgotten
    <3>3. \A n \in Live : n \in graph.node /\ node[n] = "succeeded"
      BY <2>1, <2>3, <2>4, <3>2, LiveIsLeast DEF CalledForInv, FinishedInv
    <3> QED  BY <3>1, <3>3 DEF IInv, EdgeInv
  <2> QED  BY <2>2, <2>3, <2>4 DEF RunsWhatIsCalledFor
<1>2. Spec => []CalledForInv
  BY InitCalls, NextCalls, Invariance, PTL DEF Spec
<1> QED  BY <1>1, <1>2, Invariance, PTL
-----------------------------------------------------------------------------

(* Waiting for others.                                                     *)

(* What the loop has of its greenlets is inductive in company of the       *)
(* invariant.                                                              *)
LEMMA NextWaits == IInv /\ WaitInv /\ [Next]_vars => WaitInv'
<1> SUFFICES ASSUME IInv, WaitInv, [Next]_vars PROVE WaitInv'
  OBVIOUS
<1> USE DEF WaitInv, Looping
<1>1. ASSUME NEW n \in graph.node, Ready(n), Claim(n), UNCHANGED <<greenlet, tracked, batch>>,
             Looping \/ pc = "start"
      PROVE  WaitInv'
  <2>1. greenlet[n] = "none"
    BY <1>1 DEF Ready, IInv, GreenletInv
  <2> QED  BY <1>1, <2>1 DEF Claim, IInv, StartInv
<1>2. CASE Start
  <2>1. Shape
    BY GraphShape DEF IInv
  <2> QED  BY <1>1, <1>2, <2>1 DEF Start, Shape
<1>3. ASSUME NEW n \in graph.node, Offer(n) PROVE WaitInv'
  BY <1>1, <1>3 DEF Offer
<1>4. CASE Spawn
  BY <1>4 DEF Spawn, IInv, LoopInv, TypeOK, Alive
<1>5. CASE Collect
  BY <1>5 DEF Collect, Completed
<1>6. CASE NothingToOffer
  BY <1>6 DEF NothingToOffer
<1>7. CASE Finish \/ Killed \/ Interrupted
  BY <1>7 DEF Finish, Killed, Interrupted
<1>8. CASE WorkflowTimeout
  BY <1>8 DEF WorkflowTimeout, Stop
<1>9. ASSUME NEW n \in graph.node, TakeResult(n) \/ TakeError(n) PROVE WaitInv'
  <2>1. /\ UNCHANGED greenlet /\ batch' \subseteq batch /\ tracked' \subseteq tracked
        /\ pc = "batch" /\ pc' \in {"offer", "kill"}
    BY <1>9 DEF TakeResult, TakeError, Complete, Fail, Stop
  <2> QED  BY <2>1
<1>10. ASSUME NEW n \in graph.node, Kill(n) PROVE WaitInv'
  BY <1>10 DEF Kill, IInv, TypeOK, Alive
<1>11. ASSUME NEW n \in graph.node, Begin(n) \/ NodeEnds(n) PROVE WaitInv'
  <2>1. /\ UNCHANGED loopVars /\ greenlet[n] \in Alive
        /\ \A m \in graph.node \ {n} : greenlet'[m] = greenlet[m]
        /\ greenlet'[n] \in {"busy", "returned", "raised"}
    BY <1>11 DEF Begin, NodeEnds, Return, Raise, loopVars, IInv, TypeOK, Alive
  <2>2. batch \subseteq graph.node /\ tracked \subseteq graph.node
        /\ (pc = "spawn" => submitting \in graph.node)
    BY DEF IInv, TypeOK, LoopInv
  <2> QED  BY <2>1, <2>2 DEF loopVars, Alive
<1>12. CASE Done \/ UNCHANGED vars
  BY <1>12 DEF Done, vars
<1> QED
  BY <1>2, <1>3, <1>4, <1>5, <1>6, <1>7, <1>8, <1>9, <1>10, <1>11, <1>12 DEF Next, Loop

(* _execute_core and _submit_node: the loop is never left waiting for a    *)
(* greenlet that is not there, nor for a slot nobody will free, whatever   *)
(* the size of the pool.                                                   *)
THEOREM SomebodyToWaitFor == Spec => []NeverWaitsForNobody
<1>1. Init => WaitInv
  BY DEF Init, WaitInv, Looping
<1>2. Spec => []WaitInv
  BY <1>1, NextWaits, Invariance, PTL DEF Spec
<1>3. IInv /\ WaitInv => NeverWaitsForNobody
  <2> SUFFICES ASSUME IInv, WaitInv PROVE NeverWaitsForNobody
    OBVIOUS
  <2>1. pc = "poll" => tracked = {} \/ Completed # {} \/ \E n \in tracked : greenlet[n] \in Alive
    BY DEF WaitInv, Looping, Completed
  <2>2. pc = "batch" => \E n \in batch : greenlet[n] \in {"returned", "raised"}
    BY DEF WaitInv
  <2>3. ASSUME pc = "spawn", \A n \in tracked : greenlet[n] \notin Alive
        PROVE  Cardinality({n \in graph.node : greenlet[n] \in Alive}) < PoolSize
    <3>1. {n \in graph.node : greenlet[n] \in Alive} = {}
      BY <2>3 DEF IInv, GreenletInv, Looping
    <3>2. Cardinality({}) = 0
      BY FS_EmptySet
    <3> QED  BY <3>1, <3>2, PoolAssumption
  <2> QED  BY <2>1, <2>2, <2>3 DEF NeverWaitsForNobody
<1> QED  BY <1>2, <1>3, Invariance, PTL
(* _complete_node_scheduling: a result decides what was pending only.      *)
LEMMA ResultDecidesPending ==
  ASSUME IInv, IInv', NEW n \in graph.node, TakeResult(n)
  PROVE  /\ \A e \in graph.edge : edge[e] # "pending" => edge'[e] = edge[e]
         /\ \A m \in graph.node :
               node[m] \in {"succeeded", "inactive", "failed"} => node'[m] = node[m]
<1> DEFINE states == [e \in graph.edge |->
                         IF e.source # n THEN edge[e]
                         ELSE IF Selected(n, e) THEN "active" ELSE "inactive"]
           gone   == Inactivated(states, Downstream(graph, n))
<1>1. Shape
  BY GraphShape DEF IInv
<1>2. ~Conflict(n, states, gone)
  <2>1. outcome' # "internal"
    BY DEF IInv, TypeOK
  <2> QED  BY <2>1 DEF TakeResult, Complete, Fail, Stop
<1>3. /\ node' = [m \in graph.node |->
                     IF m = n THEN "succeeded"
                     ELSE IF m \in gone THEN "inactive" ELSE node[m]]
      /\ edge' = [e \in graph.edge |-> IF e.source \in gone THEN "inactive" ELSE states[e]]
  BY <1>2 DEF TakeResult, Complete
<1>4. node[n] = "running" /\ \A m \in gone : m \in graph.node /\ node[m] = "pending"
  BY <1>2 DEF Conflict, Inactivated
<1> HIDE DEF gone
<1>5. \A e \in graph.edge : e.source \in gone \cup {n} => edge[e] = "pending"
  BY <1>1, <1>4 DEF IInv, EdgeInv, Shape
<1>6. \A e \in graph.edge : edge[e] # "pending" => edge'[e] = edge[e]
  BY <1>3, <1>5
<1>7. \A m \in graph.node :
         node[m] \in {"succeeded", "inactive", "failed"} => node'[m] = node[m]
  BY <1>3, <1>4
<1> QED  BY <1>6, <1>7

(* _set_control_edge_state, _node_schedule_states, running_greenlets: what *)
(* has been decided is never decided anew, and no node is started twice.   *)
THEOREM DecidedOnce == Spec => DecisionsAreFinal
<1> DEFINE Edges == \A e \in graph.edge : edge[e] # "pending" => edge'[e] = edge[e]
           Nodes == \A n \in graph.node :
                       node[n] \in {"succeeded", "inactive", "failed"} => node'[n] = node[n]
           Runs  == \A n \in graph.node :
                       /\ greenlet[n] # "none" => greenlet'[n] # "none"
                       /\ greenlet[n] \notin Alive \cup {"none"} =>
                             greenlet'[n] = greenlet[n] /\ answer'[n] = answer[n]
                       /\ greenlet[n] = "busy" => greenlet'[n] # "spawned"
           Calling == \A n \in Live : n \in Live'
<1>1. ASSUME IInv, IInv', CalledForInv, WaitInv, [Next]_vars
      PROVE  Edges /\ Nodes /\ Runs /\ Calling
  <2>1. graph' = graph /\ results \subseteq results'
    BY <1>1 DEF Next, Loop, Start, Claim, Spawn, NothingToOffer, Finish, Collect, Killed,
         TakeResult, TakeError, Offer, Kill, WorkflowTimeout, Interrupted, Begin, NodeEnds,
         Return, Raise, Done, vars, loopVars
  <2>2. Runs
    <3>1. CASE UNCHANGED <<greenlet, answer>>
      BY <3>1 DEF Alive
    <3>2. CASE Spawn
      <4>1. submitting \in graph.node /\ greenlet[submitting] = "none"
        BY <1>1, <3>2 DEF Spawn, WaitInv, IInv, LoopInv
      <4> QED  BY <1>1, <3>2, <4>1 DEF Spawn, IInv, TypeOK
    <3>3. ASSUME NEW n \in graph.node, Kill(n) PROVE Runs
      BY <1>1, <3>3 DEF Kill, IInv, TypeOK, Alive
    <3>4. ASSUME NEW n \in graph.node, Begin(n) PROVE Runs
      BY <1>1, <3>4 DEF Begin, IInv, TypeOK, Alive
    <3>5. ASSUME NEW n \in graph.node, NodeEnds(n) PROVE Runs
      BY <1>1, <3>5 DEF NodeEnds, Return, Raise, IInv, TypeOK, Alive
    <3>6. Spawn \/ UNCHANGED <<greenlet, answer>>
          \/ \E n \in graph.node : Kill(n) \/ Begin(n) \/ NodeEnds(n)
      BY <1>1 DEF Next, Loop, Start, NothingToOffer, Finish, Collect, Killed,
           TakeResult, TakeError, Offer, WorkflowTimeout, Interrupted, Done, vars
    <3> HIDE DEF Runs
    <3> QED  BY <3>1, <3>2, <3>3, <3>4, <3>5, <3>6
  <2>3. Calling
    <3>1. \A n \in results : answer'[n] = answer[n]
      BY <1>1, <2>2 DEF CalledForInv, SelectedInv, Alive, IInv, TypeOK
    <3> QED  BY <2>1, <3>1, LiveGrows
  <2>4. Edges /\ Nodes
    <3>1. CASE UNCHANGED <<edge, node>>
      BY <3>1
    <3>2. ASSUME NEW n \in graph.node, TakeResult(n) PROVE Edges /\ Nodes
      BY <1>1, <3>2, ResultDecidesPending
    <3>3. ASSUME NEW n \in graph.node, Ready(n), Claim(n), UNCHANGED edge PROVE Edges /\ Nodes
      BY <1>1, <3>3 DEF Ready, Claim, IInv, TypeOK
    <3>4. CASE Start
      <4>1. Shape
        BY <1>1, GraphShape DEF IInv
      <4> QED  BY <3>1, <3>3, <3>4, <4>1 DEF Start, Shape
    <3>5. ASSUME NEW n \in graph.node, Offer(n) PROVE Edges /\ Nodes
      BY <3>3, <3>5 DEF Offer
    <3>6. CASE WorkflowTimeout \/ \E n \in graph.node : TakeError(n)
      <4>1. UNCHANGED edge /\ \A m \in graph.node : m \notin tracked => node'[m] = node[m]
        BY <1>1, <3>6 DEF WorkflowTimeout, TakeError, Fail, Stop, IInv, TypeOK
      <4>2. \A m \in tracked : node[m] = "running"
        BY <1>1, <3>6 DEF WorkflowTimeout, TakeError, IInv, LoopInv, Looping, TypeOK
      <4> QED  BY <4>1, <4>2
    <3>7. \/ Start \/ UNCHANGED <<edge, node>> \/ WorkflowTimeout
          \/ \E n \in graph.node : TakeResult(n) \/ TakeError(n) \/ Offer(n)
      BY <1>1 DEF Next, Loop, Spawn, NothingToOffer, Finish, Collect, Killed, Kill,
           Interrupted, Begin, NodeEnds, Return, Raise, Done, vars, loopVars
    <3> HIDE DEF Edges, Nodes
    <3> QED  BY <3>1, <3>2, <3>4, <3>5, <3>6, <3>7
  <2> QED  BY <2>2, <2>3, <2>4
<1>2. Spec => []CalledForInv
  BY InitCalls, NextCalls, Invariance, PTL DEF Spec
<1>3. Init => WaitInv
  BY DEF Init, WaitInv, Looping
<1>4. Spec => []WaitInv
  BY <1>3, NextWaits, Invariance, PTL DEF Spec
<1>5. IInv /\ IInv' /\ CalledForInv /\ WaitInv /\ [Next]_vars
        => [/\ \A e \in graph.edge : edge[e] # "pending" => edge'[e] = edge[e]
            /\ \A n \in graph.node :
                  /\ node[n] \in {"succeeded", "inactive", "failed"} => node'[n] = node[n]
                  /\ greenlet[n] # "none" => greenlet'[n] # "none"
                  /\ greenlet[n] \notin Alive \cup {"none"} =>
                        greenlet'[n] = greenlet[n] /\ answer'[n] = answer[n]
                  /\ greenlet[n] = "busy" => greenlet'[n] # "spawned"
            /\ \A n \in Live : n \in Live']_vars
  BY <1>1
<1> QED  BY <1>2, <1>4, <1>5, Invariance, PTL DEF Spec, DecisionsAreFinal
=============================================================================
