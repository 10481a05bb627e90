-------------------------- MODULE DepthFirstSearch --------------------------
(* depthFirstSearch of include/graph/dfs.hh, with its explicit stack of      *)
(* iterators, and the calls it makes to its visitor.  The pre-order and the  *)
(* post-order that its wrappers collect are the logs of those calls.         *)
EXTENDS Integers, SequencesExt

CONSTANTS Nodes,
          NoNode,          \* the entry of an empty graph
          Graphs           \* the graphs to search: their entry and successor lists

ASSUME GraphsAssumption ==
    /\ IsFiniteSet(Nodes) /\ NoNode \notin Nodes
    /\ \A g \in Graphs : /\ g.entry \in Nodes \cup {NoNode}
                         /\ g.succ \in [Nodes -> Seq(Nodes)]

VARIABLES
    graph,
    color,                 \* visited; "white" is the absence of a node
    toVisit,               \* the stack: a node and the index of its next successor
    started,               \* visitNode(entry) has been called
    preOrder,              \* the calls of discoverNode
    postOrder,             \* the calls of finishNode
    backEdges              \* the calls of backEdge

dfsVars == <<graph, color, toVisit, started, preOrder, postOrder, backEdges>>

succ == graph.succ

DfsInit ==
    /\ graph \in Graphs
    /\ color = [n \in Nodes |-> "white"]
    /\ toVisit = << >>
    /\ started = FALSE
    /\ preOrder = << >>
    /\ postOrder = << >>
    /\ backEdges = << >>

(* The lambda visitNode, on the stack s.                                     *)
VisitNode(n, s) ==
    /\ color' = [color EXCEPT ![n] = "grey"]
    /\ preOrder' = Append(preOrder, n)
    /\ toVisit' = Append(s, [node |-> n, first |-> 1])

Start ==
    /\ ~started
    /\ started' = TRUE
    /\ IF graph.entry = NoNode
       THEN UNCHANGED <<color, preOrder, toVisit>>
       ELSE VisitNode(graph.entry, toVisit)
    /\ UNCHANGED <<graph, postOrder, backEdges>>

Top == Last(toVisit)
AtSuccessor == toVisit # << >> /\ Top.first <= Len(succ[Top.node])
Successor == succ[Top.node][Top.first]

(* The stack once the iterator of its top has been advanced.                 *)
Advanced == [toVisit EXCEPT ![Len(toVisit)].first = @ + 1]

(* Mutants: a grey node is not reported; a black one is reported too.        *)
PassVisitedQuietly ==
    /\ AtSuccessor
    /\ color[Successor] # "white"
    /\ toVisit' = Advanced
    /\ UNCHANGED <<graph, color, started, preOrder, postOrder, backEdges>>
PassVisitedReport ==
    /\ AtSuccessor
    /\ color[Successor] # "white"
    /\ toVisit' = Advanced
    /\ backEdges' = Append(backEdges, <<Top.node, Successor>>)
    /\ UNCHANGED <<graph, color, started, preOrder, postOrder>>

(* find_if passes a successor that was visited before; a grey one closes a   *)
(* cycle.                                                                    *)
PassVisited ==
    /\ AtSuccessor
    /\ color[Successor] # "white"
    /\ toVisit' = Advanced
    /\ backEdges' = IF color[Successor] = "grey"
                    THEN Append(backEdges, <<Top.node, Successor>>)
                    ELSE backEdges
    /\ UNCHANGED <<graph, color, started, preOrder, postOrder>>

(* find_if stops at a successor nobody has seen.                             *)
Descend ==
    /\ AtSuccessor
    /\ color[Successor] = "white"
    /\ VisitNode(Successor, Advanced)
    /\ UNCHANGED <<graph, started, postOrder, backEdges>>

(* No successor is left.                                                     *)
FinishNode ==
    /\ toVisit # << >> /\ ~AtSuccessor
    /\ color' = [color EXCEPT ![Top.node] = "black"]
    /\ postOrder' = Append(postOrder, Top.node)
    /\ toVisit' = Front(toVisit)
    /\ UNCHANGED <<graph, started, preOrder, backEdges>>

DfsNext == Start \/ PassVisited \/ Descend \/ FinishNode

DfsDone == started /\ toVisit = << >>

DfsSpec == DfsInit /\ [][DfsNext]_dfsVars

-----------------------------------------------------------------------------
(* The type invariant.                                                       *)
DfsTypeOK ==
    /\ graph.entry \in Nodes \cup {NoNode} /\ succ \in [Nodes -> Seq(Nodes)]
    /\ color \in [Nodes -> {"white", "grey", "black"}]
    /\ toVisit \in Seq([node : Nodes, first : Nat \ {0}])
    /\ started \in BOOLEAN
    /\ preOrder \in Seq(Nodes) /\ postOrder \in Seq(Nodes)
    /\ backEdges \in Seq(Nodes \X Nodes)

Edge(m, n) == \E i \in DOMAIN succ[m] : succ[m][i] = n

(* The nodes some path from the entry visits.                                *)
Reachable ==
    LET within[k \in 0 .. Cardinality(Nodes)] ==
          IF k = 0 THEN {graph.entry} \ {NoNode}
          ELSE LET ns == within[k - 1] IN ns \cup {n \in Nodes : \E m \in ns : Edge(m, n)}
    IN  within[Cardinality(Nodes)]

(* A finished search has discovered and finished every reachable node once,  *)
(* and nothing else.                                                         *)
VisitsReachable ==
    DfsDone => /\ ToSet(preOrder) = Reachable /\ IsInjective(preOrder)
               /\ ToSet(postOrder) = Reachable /\ IsInjective(postOrder)

(* Reverse post-order is an order of the reachable nodes, topological but    *)
(* for the reported back edges: on every other edge the target was finished  *)
(* before the source.                                                        *)
PostOrderTopological ==
    /\ VisitsReachable
    /\ \A i \in DOMAIN postOrder : \A n \in ToSet(succ[postOrder[i]]) :
          \/ \E j \in 1 .. i - 1 : postOrder[j] = n
          \/ <<postOrder[i], n>> \in ToSet(backEdges)

(* A reported back edge leads to a node that is still open: its target is    *)
(* discovered before and finished after its source (or is its source).       *)
BackEdgesCloseCycles ==
    \A e \in ToSet(backEdges) :
        /\ \E i, j \in DOMAIN preOrder : i <= j /\ preOrder[i] = e[2] /\ preOrder[j] = e[1]
        /\ \A i \in DOMAIN postOrder : postOrder[i] = e[2] =>
              \E j \in 1 .. i : postOrder[j] = e[1]
=============================================================================
