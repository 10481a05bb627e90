---------------------------- MODULE LoopAnalyzer ----------------------------
(* LoopAnalyzer of include/analysis/loop_analyzer.hh, after the dominator    *)
(* tree was built.  It searches the graph again, with the same calls to the  *)
(* visitor as the builder had: the logs of DepthFirstSearch serve for both.  *)
(* A loop is named by its header; the root loop has none.                    *)
EXTENDS DomTree, Selection

RootLoop == NoNode

VARIABLES
    stage,                 \* where the constructor is
    nth,                   \* the next loop of loopHeadPostOrder to populate
    loopOf,                \* m_nodesToLoop
    reducible,             \* m_reducible
    body,                  \* m_body: nodes and inner loops
    outer,                 \* m_outer, where it is not null
    walk, walked           \* toVisit and visited of populate

loopVars == <<stage, nth, loopOf, reducible, body, outer, walk, walked>>
allVars == <<vars, loopVars>>

LoopInit ==
    /\ Init
    /\ stage = "collect"
    /\ nth = 1
    /\ loopOf = << >> /\ reducible = << >> /\ body = << >> /\ outer = << >>
    /\ walk = << >> /\ walked = {}

BuilderStep == BuilderNext /\ UNCHANGED loopVars

(* The targets of back edges: the keys of m_nodesToLoop after collecting.    *)
Heads == {e[2] : e \in ToSet(backEdges)}

(* They as m_loops lists them: each once, in the order in which the visitor  *)
(* first heard of it.                                                        *)
Headers ==
    LET upTo[k \in 0 .. Len(backEdges)] ==
          IF k = 0 THEN << >>
          ELSE LET hs == upTo[k - 1]
               IN  IF Contains(hs, backEdges[k][2]) THEN hs ELSE Append(hs, backEdges[k][2])
    IN  upTo[Len(backEdges)]

(* m_backEdgesSrc of the loop of h.                                          *)
BackEdgesSrc(h) ==
    LET into == Selected(backEdges, {e \in ToSet(backEdges) : e[2] = h})
    IN  [i \in DOMAIN into |-> into[i][1]]

(* finishNode sorts the nodes: every back edge to a node is reported before  *)
(* the node is finished.                                                     *)
LoopHeadPostOrder == Selected(postOrder, Heads)
NonHeadNodes == Selected(postOrder, Nodes \ Heads)

Node(n) == [kind |-> "node", id |-> n]
Loop(h) == [kind |-> "loop", id |-> h]

(* collectBackEdges; whether a loop is reducible is decided at its first     *)
(* back edge.                                                                *)
CollectBackEdges ==
    /\ phase = "done" /\ stage = "collect"
    /\ loopOf' = [h \in Heads |-> h]
    /\ reducible' = [h \in Heads |-> IsDominator(h, BackEdgesSrc(h)[1])]
    /\ body' = [h \in Heads |->
                  [i \in DOMAIN BackEdgesSrc(h) |-> Node(BackEdgesSrc(h)[i])]]
    /\ stage' = "populate"
    /\ UNCHANGED <<vars, nth, outer, walk, walked>>

Populated == LoopHeadPostOrder[nth]

(* emplace: the map, with v for the keys it does not have.                   *)
Emplaced(map, keys, v) ==
    [k \in DOMAIN map \cup keys |-> IF k \in DOMAIN map THEN map[k] ELSE v]

(* populate of the next loop begins: the sources of its back edges are its   *)
(* own unless an inner loop has them.  An irreducible loop has nothing else. *)
Populate ==
    /\ stage = "populate" /\ nth <= Len(LoopHeadPostOrder)
    /\ LET srcs == BackEdgesSrc(Populated) IN
       /\ loopOf' = Emplaced(loopOf, ToSet(srcs), Populated)
       /\ IF reducible[Populated]
          THEN /\ walk' = [i \in DOMAIN srcs |-> [node |-> srcs[i], first |-> 1]]
               /\ walked' = ToSet(srcs)
               /\ stage' = "walk"
               /\ UNCHANGED nth
          ELSE /\ nth' = nth + 1
               /\ UNCHANGED <<stage, walk, walked>>
    /\ UNCHANGED <<vars, reducible, body, outer>>

(* Mutant: the walk does not stop at the header.                             *)
UnvisitedOrHeader ==
    LET top == Last(walk)
    IN  {i \in top.first .. Len(Preds(top.node)) : Preds(top.node)[i] \notin walked}

(* The predecessors of the top of the stack that its iterator has yet to     *)
(* pass and the walk has yet to visit.                                       *)
Unvisited ==
    LET top == Last(walk)
    IN  {i \in top.first .. Len(Preds(top.node)) :
            Preds(top.node)[i] \notin walked \cup {Populated}}

(* Mutant: a node another loop has is passed over.                           *)
WalkBackIgnoresInner ==
    /\ stage = "walk" /\ walk # << >> /\ Unvisited # {}
    /\ LET i == Min(Unvisited)
           node == Preds(Last(walk).node)[i]
       IN  /\ IF node \in DOMAIN loopOf
              THEN UNCHANGED <<loopOf, body>>
              ELSE /\ loopOf' = Emplaced(loopOf, {node}, Populated)
                   /\ body' = [body EXCEPT ![Populated] = Append(@, Node(node))]
           /\ walk' = [walk EXCEPT ![Len(walk)].first = i + 1]
                      \o <<[node |-> node, first |-> 1]>>
           /\ walked' = walked \cup {node}
    /\ UNCHANGED <<vars, stage, nth, outer, reducible>>

(* The loop of populate finds a predecessor: a free one joins this loop, and *)
(* with one of another loop that loop does, unless it has an outer one.      *)
WalkBack ==
    /\ stage = "walk" /\ walk # << >> /\ Unvisited # {}
    /\ LET i == Min(Unvisited)
           node == Preds(Last(walk).node)[i]
       IN  /\ IF node \notin DOMAIN loopOf
              THEN /\ loopOf' = Emplaced(loopOf, {node}, Populated)
                   /\ body' = [body EXCEPT ![Populated] = Append(@, Node(node))]
                   /\ UNCHANGED outer
              ELSE IF loopOf[node] \notin DOMAIN outer
              THEN /\ body' = [body EXCEPT ![Populated] = Append(@, Loop(loopOf[node]))]
                   /\ outer' = Emplaced(outer, {loopOf[node]}, Populated)
                   /\ UNCHANGED loopOf
              ELSE UNCHANGED <<loopOf, body, outer>>
           /\ walk' = [walk EXCEPT ![Len(walk)].first = i + 1]
                      \o <<[node |-> node, first |-> 1]>>
           /\ walked' = walked \cup {node}
    /\ UNCHANGED <<vars, stage, nth, reducible>>

(* Mutant: the top is looked at but not taken off.                           *)
WalkUpKeepsTop ==
    /\ stage = "walk" /\ walk # << >> /\ Unvisited = {}
    /\ UNCHANGED allVars

(* Every predecessor of the top was passed.                                  *)
WalkUp ==
    /\ stage = "walk" /\ walk # << >> /\ Unvisited = {}
    /\ walk' = Front(walk)
    /\ UNCHANGED <<vars, stage, nth, loopOf, reducible, body, outer, walked>>

(* populate returns.                                                         *)
PopulateReturn ==
    /\ stage = "walk" /\ walk = << >>
    /\ stage' = "populate"
    /\ nth' = nth + 1
    /\ walked' = {}
    /\ UNCHANGED <<vars, loopOf, reducible, body, outer, walk>>

(* Mutant: the headers are left out when the nodes are counted.              *)
FillRootMiscounts ==
    /\ stage = "populate" /\ nth > Len(LoopHeadPostOrder)
    /\ IF Cardinality(DOMAIN loopOf) = Len(NonHeadNodes)
       THEN UNCHANGED <<loopOf, body, outer>>
       ELSE LET free == Selected(NonHeadNodes, Nodes \ DOMAIN loopOf)
                tops == Selected(Headers, Nodes \ DOMAIN outer)
            IN  /\ loopOf' = Emplaced(loopOf, ToSet(free), RootLoop)
                /\ body' = Emplaced(body, {RootLoop},
                                      [i \in DOMAIN free |-> Node(free[i])]
                                      \o [i \in DOMAIN tops |-> Loop(tops[i])])
                /\ outer' = Emplaced(outer, ToSet(tops), RootLoop)
    /\ stage' = "loops"
    /\ UNCHANGED <<vars, nth, reducible, walk, walked>>

(* The rest of the constructor: unless every node has a loop, the root loop  *)
(* takes the free nodes and the loops without an outer one.                  *)
FillRoot ==
    /\ stage = "populate" /\ nth > Len(LoopHeadPostOrder)
    /\ IF Cardinality(DOMAIN loopOf) = Len(postOrder)
       THEN UNCHANGED <<loopOf, body, outer>>
       ELSE LET free == Selected(NonHeadNodes, Nodes \ DOMAIN loopOf)
                tops == Selected(Headers, Nodes \ DOMAIN outer)
            IN  /\ loopOf' = Emplaced(loopOf, ToSet(free), RootLoop)
                /\ body' = Emplaced(body, {RootLoop},
                                      [i \in DOMAIN free |-> Node(free[i])]
                                      \o [i \in DOMAIN tops |-> Loop(tops[i])])
                /\ outer' = Emplaced(outer, ToSet(tops), RootLoop)
    /\ stage' = "loops"
    /\ UNCHANGED <<vars, nth, reducible, walk, walked>>

(* LoopInfo::getLinearOrder: the header, then the body from back to front.   *)
(* A nest is no deeper than there are loops.                                 *)
LinearOrderOf(h) ==
    LET upTo[d \in 0 .. Cardinality(Heads)] ==
          [l \in DOMAIN body |->
             <<l>> \o FlattenSeq([i \in DOMAIN body[l] |->
                         LET item == Reverse(body[l])[i]
                         IN  IF item.kind = "node" THEN <<item.id>>
                             ELSE IF d = 0 THEN << >> ELSE upTo[d - 1][item.id]])]
    IN  upTo[Cardinality(Heads)][h]

AnalyzerNext ==
    \/ BuilderStep \/ CollectBackEdges
    \/ Populate \/ WalkBack \/ WalkUp \/ PopulateReturn \/ FillRoot

(* The constructor has returned, or an exception left the builder.           *)
LoopsTerminated ==
    /\ stage = "loops" \/ phase = "throw"
    /\ UNCHANGED allVars

LoopNext == AnalyzerNext \/ LoopsTerminated

LoopSpec == LoopInit /\ [][LoopNext]_allVars

-----------------------------------------------------------------------------
LoopsDone == stage = "loops"

(* The type invariant.                                                       *)
LoopTypeOK ==
    /\ TypeOK
    /\ stage \in {"collect", "populate", "walk", "loops"}
    /\ nth \in 1 .. Cardinality(Nodes) + 1
    /\ loopOf \in [DOMAIN loopOf -> Heads \cup {RootLoop}]
    /\ DOMAIN loopOf \subseteq Discovered
    /\ reducible \in [DOMAIN reducible -> BOOLEAN]
    /\ \A l \in DOMAIN body : \A item \in ToSet(body[l]) :
          item \in {Node(n) : n \in Discovered} \cup {Loop(h) : h \in Heads}
    /\ outer \in [DOMAIN outer -> Heads \cup {RootLoop}]
    /\ walk \in Seq([node : Nodes, first : Nat \ {0}])
    /\ walked \subseteq Nodes
    /\ LoopsDone => DOMAIN loopOf = Discovered

(* The search of the graph ends and so does every walk of populate, whatever *)
(* cycles they go around.                                                    *)
WalksEnd == <>DfsDone /\ (stage = "walk" ~> stage # "walk")

(* The loops around l.                                                       *)
Around(l) ==
    LET up(ls) == {outer[m] : m \in ls \cap DOMAIN outer}
        upTo[k \in 0 .. Cardinality(Nodes)] ==
          IF k = 0 THEN up({l}) ELSE LET ls == upTo[k - 1] IN ls \cup up(ls)
    IN  upTo[Cardinality(Nodes)]

(* The natural loop of h by its definition: the nodes from which a source of *)
(* one of its back edges is reached without passing h.                       *)
NaturalLoop(h) ==
    LET upTo[k \in 0 .. Cardinality(Nodes)] ==
          IF k = 0 THEN {e[1] : e \in {f \in ToSet(backEdges) : f[2] = h}} \cup {h}
          ELSE LET ns == upTo[k - 1]
               IN  ns \cup {m \in Discovered : \E n \in ns \ {h} : Edge(m, n)}
    IN  upTo[Cardinality(Nodes)]

(* The graphs the walk of populate is made for: no block is its own          *)
(* successor, a loop that is taken to be reducible for its first back edge   *)
(* is entered by its header alone, and what jumps back to a header is in no  *)
(* loop further inside.                                                      *)
Structured ==
    \A e \in ToSet(backEdges) :
        /\ e[1] # e[2]
        /\ reducible[e[2]] => Dominates(e[2], e[1])
        /\ \A h \in Heads \ {e[2]} :
              e[1] \in NaturalLoop(h) => e[2] \in NaturalLoop(h)

(* The nesting of loops is a forest: the walks up by getOuterLoop and down   *)
(* by getLinearOrder and getLastBB end.                                      *)
NestAcyclic == LoopsDone /\ Structured => \A h \in Heads : h \notin Around(h)

(* Loops nest, and the body of a reducible one, inner loops unfolded, is its *)
(* natural loop: the walk neither stops short at an inner loop nor leaves by *)
(* the header.                                                               *)
BodiesNatural ==
    /\ NestAcyclic
    /\ LoopsDone /\ Structured => \A h \in Heads :
          reducible[h] => ToSet(LinearOrderOf(h)) = NaturalLoop(h)

(* Where all loops are reducible, the loops around a node are those its own  *)
(* loop is in: it is assigned to the innermost, and that is nested in the    *)
(* others.                                                                   *)
LoopsInnermost ==
    LoopsDone /\ Structured /\ (\A h \in Heads : reducible[h]) =>
        \A n \in Discovered : \A h \in Heads :
            n \in NaturalLoop(h) <=> h \in {loopOf[n]} \cup Around(loopOf[n])
=============================================================================
