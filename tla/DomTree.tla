------------------------------ MODULE DomTree -------------------------------
(* DomTreeBuilder and DominatorTree of include/graph/dom_tree.hh with the    *)
(* disjoint set union of include/graph/dsu.hh: the dominator tree by         *)
(* semidominators.  The builder runs depthFirstSearch first; a DFS time is a *)
(* position in its pre-order, counted from 1.                                *)
EXTENDS DepthFirstSearch, FiniteSetsExt

(* Blocks are known by their ids; makeBBGraph asserts that there is a first. *)
(* linked has the blocks in the order in which they got their successors.    *)
ASSUME IdsAssumption ==
    /\ Nodes = 1 .. Cardinality(Nodes)
    /\ \A g \in Graphs :
          /\ g.entry \in Nodes
          /\ g.linked \in [Nodes -> Nodes]
          /\ \A n \in Nodes : \E k \in Nodes : g.linked[k] = n

VARIABLES
    phase,                 \* which of the builder's three loops runs
    at,                    \* the DFS time of the node the loop is at
    sdoms, idoms,          \* m_sdoms and m_idoms, by DFS time
    sdommed,               \* m_sdommed
    dsu,                   \* m_parents and m_labels of the DSU
    idommed                \* m_tree: the children of each node

builderVars == <<phase, at, sdoms, idoms, sdommed, dsu, idommed>>
vars == <<dfsVars, builderVars>>

Time(n) == CHOOSE t \in DOMAIN preOrder : preOrder[t] = n
Discovered == ToSet(preOrder)

(* The predecessors of n as linkBBs lists them, in the order of linking: a   *)
(* block as often as it has edges to n.                                      *)
Preds(n) ==
    LET edges(m) == {i \in DOMAIN succ[m] : succ[m][i] = n}
        copies(m) == [i \in 1 .. Cardinality(edges(m)) |-> m]
        upTo[k \in 0 .. Cardinality(Nodes)] ==
            IF k = 0 THEN << >> ELSE upTo[k - 1] \o copies(graph.linked[k])
    IN  upTo[Cardinality(Nodes)]

Init ==
    /\ DfsInit
    /\ phase = "dfs"
    /\ at = 0
    /\ sdoms = << >> /\ idoms = << >>
    /\ sdommed = [n \in Nodes |-> << >>]
    /\ dsu = [parent |-> << >>, label |-> << >>]
    /\ idommed = [n \in Nodes |-> << >>]

(* Mutant: the node discovered next is recorded.                             *)
DfsParentNext(n) == preOrder[IF Time(n) = Len(preOrder) THEN Time(n) ELSE Time(n) + 1]

(* What the callback of doDFS records as the parent of n: the node that was  *)
(* discovered before it.                                                     *)
DfsParent(n) == preOrder[IF Time(n) = 1 THEN 1 ELSE Time(n) - 1]

DfsStep == phase = "dfs" /\ DfsNext /\ UNCHANGED builderVars

(* calcSdoms begins: every node is its own semidominator, immediate          *)
(* dominator, set and label.                                                 *)
StartSdoms ==
    /\ phase = "dfs" /\ DfsDone
    /\ phase' = "sdoms"
    /\ at' = Len(preOrder)
    /\ sdoms' = [t \in DOMAIN preOrder |-> t]
    /\ idoms' = [t \in DOMAIN preOrder |-> t]
    /\ dsu' = [parent |-> [n \in Discovered |-> n], label |-> [n \in Discovered |-> n]]
    /\ UNCHANGED <<dfsVars, sdommed, idommed>>

(* The label that find leaves at a node: the parent's if its semidominator   *)
(* is smaller.                                                               *)
BetterLabel(sd, a, b) == IF sd[Time(a)] < sd[Time(b)] THEN a ELSE b

(* DSU::find behind its recursive call, which answered above for the parent  *)
(* of x: the node it answers, and the forest with the path compressed to it. *)
Compressed(sd, x, above) ==
    LET label == BetterLabel(sd, above.dsu.label[above.dsu.parent[x]], above.dsu.label[x])
    IN  [found |-> label,
         dsu |-> [parent |-> [above.dsu.parent EXCEPT ![x] = above.found],
                  label |-> [above.dsu.label EXCEPT ![x] = label]]]

(* DSU::find, with the semidominators sd.                                    *)
Find(d, sd, x) ==
    LET find[y \in Discovered] ==
            IF d.parent[y] = y THEN [found |-> y, dsu |-> d]
            ELSE Compressed(sd, y, find[d.parent[y]])
    IN  find[x]

(* findMinSdom lowers the semidominator of n to that of what it finds for a  *)
(* predecessor.                                                              *)
LowerSdom(n, pred, s) ==
    LET f == Find(s.dsu, s.sdoms, pred)
    IN  [dsu |-> f.dsu,
         sdoms |-> [s.sdoms EXCEPT ![Time(n)] = Min({@, s.sdoms[Time(f.found)]})]]

FindMinSdom(n) ==
    LET preds == Preds(n)
        after[k \in 0 .. Len(preds)] ==
            IF k = 0 THEN [dsu |-> dsu, sdoms |-> sdoms]
            ELSE LowerSdom(n, preds[k], after[k - 1])
    IN  after[Len(preds)]

(* fillIdoms gives n, whose semidominator has been reached, a provisional    *)
(* immediate dominator.                                                      *)
FillIdom(sd, n, s) ==
    LET f == Find(s.dsu, sd, n)
        own == sd[Time(n)]
    IN  [dsu |-> f.dsu,
         idoms |-> [s.idoms EXCEPT ![Time(n)] =
                      IF own = sd[Time(f.found)] THEN own ELSE Time(f.found)]]

FillIdoms(d, sd, dominatees) ==
    LET after[k \in 0 .. Len(dominatees)] ==
            IF k = 0 THEN [dsu |-> d, idoms |-> idoms]
            ELSE FillIdom(sd, dominatees[k], after[k - 1])
    IN  after[Len(dominatees)]

(* An iteration of calcSdoms, from the last DFS time to the first.  The map  *)
(* of the DFS times throws for a predecessor the search has not reached.     *)
SdomStep ==
    /\ phase = "sdoms" /\ at > 0
    /\ LET node == preOrder[at] IN
       IF ~(ToSet(Preds(node)) \subseteq Discovered)
       THEN phase' = "throw" /\ UNCHANGED <<at, sdoms, idoms, sdommed, dsu, idommed>>
       ELSE LET min == FindMinSdom(node)
                owner == preOrder[min.sdoms[at]]
                listed == IF at = 1 THEN sdommed
                          ELSE [sdommed EXCEPT ![owner] = Append(@, node)]
                fill == FillIdoms(min.dsu, min.sdoms, listed[node])
            IN  /\ sdoms' = min.sdoms
                /\ sdommed' = listed
                /\ idoms' = fill.idoms
                /\ dsu' = IF at = 1 THEN fill.dsu
                          ELSE [fill.dsu EXCEPT !.parent[node] = DfsParent(node)]
                /\ at' = at - 1
                /\ UNCHANGED <<phase, idommed>>
    /\ UNCHANGED dfsVars

StartIdoms ==
    /\ phase = "sdoms" /\ at = 0
    /\ phase' = "idoms"
    /\ at' = 2
    /\ UNCHANGED <<dfsVars, sdoms, idoms, sdommed, dsu, idommed>>

FinalIdom(t) == IF idoms[t] # sdoms[t] THEN idoms[idoms[t]] ELSE idoms[t]

(* An iteration of calcIdoms, from the second DFS time on.                   *)
IdomStep ==
    /\ phase = "idoms" /\ at <= Len(preOrder)
    /\ idoms' = [idoms EXCEPT ![at] = FinalIdom(at)]
    /\ idommed' = [idommed EXCEPT ![preOrder[FinalIdom(at)]] = Append(@, preOrder[at])]
    /\ at' = at + 1
    /\ UNCHANGED <<dfsVars, phase, sdoms, sdommed, dsu>>

Finish ==
    /\ phase = "idoms" /\ at > Len(preOrder)
    /\ phase' = "done"
    /\ UNCHANGED <<dfsVars, at, sdoms, idoms, sdommed, dsu, idommed>>

BuilderNext == DfsStep \/ StartSdoms \/ SdomStep \/ StartIdoms \/ IdomStep \/ Finish

(* The tree is built, or an exception left the builder.                      *)
Terminated == phase \in {"done", "throw"} /\ UNCHANGED vars

Next == BuilderNext \/ Terminated

Spec == Init /\ [][Next]_vars

(* isDominator: node is met on the way down the tree from dom.               *)
IsDominator(dom, node) ==
    LET below[k \in 0 .. Cardinality(Nodes)] ==
          IF k = 0 THEN {dom}
          ELSE LET ns == below[k - 1] IN ns \cup UNION {ToSet(idommed[m]) : m \in ns}
    IN  node \in below[Cardinality(Nodes)]

-----------------------------------------------------------------------------
(* Dominance by its definition: every path from the entry to n meets d.      *)
ReachableWithout(d) ==
    LET within[k \in 0 .. Cardinality(Nodes)] ==
          IF k = 0 THEN {graph.entry} \ {d}
          ELSE LET ns == within[k - 1]
               IN  ns \cup {n \in Nodes \ {d} : \E m \in ns : Edge(m, n)}
    IN  within[Cardinality(Nodes)]

Dominates(d, n) == n \in Reachable /\ n \notin ReachableWithout(d)

(* The type invariant.                                                       *)
TypeOK ==
    /\ DfsTypeOK
    /\ phase \in {"dfs", "sdoms", "idoms", "done", "throw"}
    /\ at \in 0 .. Cardinality(Nodes) + 1
    /\ DOMAIN sdoms \subseteq DOMAIN preOrder /\ DOMAIN idoms = DOMAIN sdoms
    /\ \A t \in DOMAIN sdoms : sdoms[t] \in 1 .. t /\ idoms[t] \in 1 .. t
    /\ sdommed \in [Nodes -> Seq(Nodes)] /\ idommed \in [Nodes -> Seq(Nodes)]
    /\ dsu.parent \in [DOMAIN dsu.parent -> Nodes]
    /\ dsu.label \in [DOMAIN dsu.parent -> Nodes]

(* The links of the DSU lead to smaller DFS times, whatever find compressed: *)
(* the recursion of find ends.                                               *)
ForestOrdered ==
    \A n \in DOMAIN dsu.parent :
        /\ dsu.parent[n] = n \/ Time(dsu.parent[n]) < Time(n)
        /\ Time(dsu.label[n]) <= Time(n)

(* The result is a tree over the reached nodes, rooted at the entry: every   *)
(* other node hangs exactly once, below a node of smaller DFS time, so the   *)
(* entry dominates all of them and the search of isDominator ends.           *)
TreeRooted ==
    phase = "done" =>
        /\ \A m \in Nodes : \A n \in ToSet(idommed[m]) : Time(m) < Time(n)
        /\ \A n \in Discovered :
              Cardinality({h \in Nodes \X (1 .. Cardinality(Nodes)) :
                             h[2] \in DOMAIN idommed[h[1]] /\ idommed[h[1]][h[2]] = n})
              = IF n = graph.entry THEN 0 ELSE 1
        /\ \A n \in Discovered : IsDominator(graph.entry, n)

(* The builder is left by an exception only for a reached node with a        *)
(* predecessor that is not.                                                  *)
ThrowsForReasons ==
    phase = "throw" => \E n \in Discovered : ~(ToSet(Preds(n)) \subseteq Discovered)

(* What the builder computes on the way is well-founded, and it ends with a  *)
(* tree or has a reason not to.                                              *)
TreeWellFormed == ForestOrdered /\ TreeRooted /\ ThrowsForReasons
=============================================================================
