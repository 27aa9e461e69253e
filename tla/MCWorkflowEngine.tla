--------------------------- MODULE MCWorkflowEngine ---------------------------
EXTENDS WorkflowEngineInv, TLC

CONSTANTS yes, no

Upwards(size, handles) ==
    {e \in [source : 1 .. size, handle : handles, target : 1 .. size] : e.source < e.target}

(* A graph whose nodes are numbered such that edges go upwards, which      *)
(* loses no acyclic graph.  A selector <<n, m>> of n may name any node m.  *)
Graph(size, edges, selectors) ==
    [node |-> 1 .. size, entry |-> 1, edge |-> edges,
     data |-> [n \in 1 .. size |-> {m \in 1 .. size : <<n, m>> \in selectors}]]

Edge(n, h, m) == [source |-> n, handle |-> h, target |-> m]

(* Every graph of three nodes with up to three edges and one selector.     *)
SmallGraphs ==
    {g \in {Graph(3, E, D) : E \in {X \in SUBSET Upwards(3, Handles) : Cardinality(X) <= 3},
                             D \in {X \in SUBSET ((1 .. 3) \X (1 .. 3)) : Cardinality(X) <= 1}} :
        ValidGraph(g)}

(* Every graph of four nodes whose edges carry one handle.                 *)
PlainGraphs ==
    {g \in {Graph(4, E, D) : E \in {X \in SUBSET Upwards(4, {yes}) : Cardinality(X) <= 4},
                             D \in {X \in SUBSET ((1 .. 4) \X (1 .. 4)) : Cardinality(X) <= 1}} :
        ValidGraph(g)}

(* Branches of a condition that meet again.                                *)
Diamond == {Edge(1, yes, 2), Edge(1, no, 3), Edge(2, yes, 4), Edge(3, yes, 4)}
NestedJoin ==
    {Edge(1, yes, 2), Edge(1, no, 3), Edge(1, no, 4), Edge(3, yes, 5), Edge(4, yes, 5),
     Edge(5, yes, 6), Edge(2, yes, 6)}
Shaped == {Graph(4, Diamond, {}), Graph(4, Diamond, {<<4,2>>}), Graph(6, NestedJoin, {})}
MCGraphs == Shaped \cup SmallGraphs \cup PlainGraphs
=============================================================================
