------------------------- MODULE LoopAnalyzer_proofs -------------------------
(* Proofs about LoopAnalyzer, for every finite graph: what natural loops     *)
(* are, how those of a structured graph nest, and that populate finds them.  *)
EXTENDS Liveness, DomTree_proofs

-----------------------------------------------------------------------------
(* What stands still while the loops are populated: pos is the place in      *)
(* post-order, src the sources of the back edges to a header, nat the        *)
(* natural loops.                                                            *)
Sources(h) == {e[1] : e \in {f \in ToSet(backEdges) : f[2] = h}}

Pos == [n \in Discovered |-> TimeIn(postOrder, n)]

Nest ==
    [nodes |-> Discovered, heads |-> Heads, red |-> reducible,
     pos |-> Pos,
     src |-> [h \in Heads |-> Sources(h)],
     nat |-> [h \in Heads |-> NaturalLoop(h)],
     preds |-> [n \in Discovered |-> Preds(n)]]

IsNest(g) ==
    /\ g.nodes \subseteq Nodes /\ g.heads \subseteq g.nodes
    /\ g.red \in [g.heads -> BOOLEAN]
    /\ g.pos \in [g.nodes -> 0 .. Cardinality(Nodes)]
    /\ \A m, n \in g.nodes : g.pos[m] = g.pos[n] => m = n
    /\ g.src \in [g.heads -> SUBSET g.nodes] /\ g.nat \in [g.heads -> SUBSET g.nodes]
    /\ g.preds \in [g.nodes -> Seq(g.nodes)]

(* A natural loop is the least set that holds the header, the sources of its *)
(* back edges and the predecessors of what it holds but the header.          *)
ClosedAround(g, h, C) ==
    /\ h \in C /\ g.src[h] \subseteq C
    /\ \A x \in C \ {h} : ToSet(g.preds[x]) \subseteq C

Natural(g) ==
    \A h \in g.heads :
        /\ ClosedAround(g, h, g.nat[h])
        /\ \A C \in SUBSET g.nodes : ClosedAround(g, h, C) => g.nat[h] \subseteq C

(* What populate gives to the loop of h.                                     *)
Content(g, h) == IF g.red[h] THEN g.nat[h] ELSE {h} \cup g.src[h]

(* How loops nest: what is in a reducible one stands before its header; of   *)
(* two that meet, the one further back is inside; and no source of a header  *)
(* is in a reducible loop further inside.                                    *)
Orderly(g) ==
    /\ \A h \in g.heads : h \notin g.src[h]
    /\ \A h \in g.heads : g.red[h] => \A x \in g.nat[h] \ {h} : g.pos[x] < g.pos[h]
    /\ \A h, m \in g.heads : g.red[h] /\ g.pos[m] < g.pos[h] =>
          /\ \A x \in Content(g, m) : x \in g.nat[h] => m \in g.nat[h]
          /\ m \in g.nat[h] => Content(g, m) \subseteq g.nat[h]
    /\ \A h, m \in g.heads : g.red[m] /\ m # h =>
          \A s \in g.src[h] : s \in g.nat[m] => g.pos[h] < g.pos[m]

-----------------------------------------------------------------------------
(* The maps while the loops are populated: lo is loopOf, ou outer, bo body,  *)
(* and got what each loop that was begun has been given so far.              *)
Items(g) == {Node(n) : n \in g.nodes} \cup {Loop(h) : h \in g.heads}

AreMaps(g, lo, ou, bo) ==
    /\ g.heads \subseteq DOMAIN lo /\ DOMAIN lo \subseteq g.nodes
    /\ \A h \in g.heads : lo[h] = h
    /\ lo \in [DOMAIN lo -> g.heads \cup {RootLoop}]
    /\ DOMAIN ou \subseteq g.heads /\ ou \in [DOMAIN ou -> g.heads \cup {RootLoop}]
    /\ g.heads \subseteq DOMAIN bo /\ bo \in [DOMAIN bo -> Seq(Items(g))]

(* A node is assigned to a loop that has met it.                             *)
Assigned(g, lo, got) ==
    \A x \in DOMAIN lo : \A m \in g.heads :
        lo[x] = m /\ x # m => m \in DOMAIN got /\ x \in got[m]

(* A body lists the sources, the nodes assigned and the loops nested.        *)
Listing(g, lo, ou, bo) ==
    \A m \in g.heads :
        /\ \A x \in g.nodes : Node(x) \in ToSet(bo[m])
                  <=> x \in g.src[m] \/ (x \in DOMAIN lo /\ lo[x] = m /\ x # m)
        /\ \A l \in g.heads : Loop(l) \in ToSet(bo[m]) <=> l \in DOMAIN ou /\ ou[l] = m

(* A loop is nested in a reducible one that holds its header.                *)
Enclosed(g, ou, got) ==
    \A l \in DOMAIN ou : \A m \in g.heads :
        ou[l] = m => m \in DOMAIN got /\ g.red[m] /\ l \in g.nat[m] /\ l # m

(* What a reducible loop has met is a source, its own, or of a loop that is  *)
(* nested no further out.                                                    *)
CoveredBy(g, lo, ou, m, x) ==
    /\ x \in DOMAIN lo /\ lo[x] \in g.heads /\ g.pos[lo[x]] <= g.pos[m]
    /\ \/ x \in g.src[m]
       \/ lo[x] = m
       \/ lo[x] \in DOMAIN ou /\ ou[lo[x]] \in g.heads /\ g.pos[ou[lo[x]]] <= g.pos[m]

Covered(g, lo, ou, got) ==
    \A m \in DOMAIN got : g.red[m] => \A x \in got[m] : CoveredBy(g, lo, ou, m, x)

Nesting(g, lo, ou, bo, got) ==
    /\ Assigned(g, lo, got) /\ Listing(g, lo, ou, bo)
    /\ Enclosed(g, ou, got) /\ Covered(g, lo, ou, got)

(* The walk back from the sources of h: what it has met is in the natural    *)
(* loop, and the predecessors of that are met, h, or ahead of a frame.       *)
Met(g, h, wd) == wd \cup {h}

Passing(g, h, wk, wd, x) ==
    \/ ToSet(g.preds[x]) \subseteq Met(g, h, wd)
    \/ \E k \in DOMAIN wk :
          /\ wk[k].node = x
          /\ \A i \in 1 .. wk[k].first - 1 : i \in DOMAIN g.preds[x] => g.preds[x][i] \in Met(g, h, wd)

IsWalk(g, wk, wd) == wk \in Seq([node : g.nodes, first : Nat \ {0}]) /\ wd \subseteq g.nodes

Walking(g, h, wk, wd) ==
    /\ g.src[h] \subseteq wd /\ wd \subseteq g.nat[h] /\ h \notin wd
    /\ \A k \in DOMAIN wk : wk[k].node \in wd
    /\ \A x \in wd : Passing(g, h, wk, wd, x)

(* No loop is the root's yet.                                                *)
NoRoot(g, lo, ou) ==
    /\ \A x \in DOMAIN lo : lo[x] \in g.heads
    /\ \A l \in DOMAIN ou : ou[l] \in g.heads

(* The loops in the order q, of which those before n were populated, and st  *)
(* is "walk" while the one at n is: what has been given to those begun.      *)
IsQueue(g, q) ==
    /\ q \in Seq(g.heads) /\ ToSet(q) = g.heads
    /\ \A i, j \in DOMAIN q : i < j => g.pos[q[i]] < g.pos[q[j]]

Begun(q, st, n) == {q[j] : j \in 1 .. (IF st = "walk" THEN n ELSE n - 1)}

Got(g, q, st, n, wd) ==
    [m \in Begun(q, st, n) |-> IF st = "walk" /\ m = q[n] THEN wd ELSE Content(g, m) \ {m}]

(* The constructor after collecting, for any graph and for a structured one. *)
Populating(g, q, st, n, lo, ou, bo, wk, wd) ==
    /\ st \in {"populate", "walk", "loops"} /\ n \in 1 .. Len(q) + 1
    /\ AreMaps(g, lo, ou, bo)
    /\ st = "walk" => n <= Len(q) /\ g.red[q[n]] /\ IsWalk(g, wk, wd)
    /\ st # "walk" => wk = << >> /\ wd = {}
    /\ st # "loops" => NoRoot(g, lo, ou) /\ DOMAIN bo = g.heads
    /\ st = "loops" => n = Len(q) + 1 /\ DOMAIN lo = g.nodes

Nested(g, q, st, n, lo, ou, bo, wk, wd) ==
    /\ Nesting(g, lo, ou, bo, Got(g, q, st, n, wd))
    /\ st = "walk" => Walking(g, q[n], wk, wd)

-----------------------------------------------------------------------------
(* What NaturalLoop is: its recursion stops at the least set around h.       *)
GrownBack(A, h) == A \cup {m \in Discovered : \E n \in A \ {h} : Edge(m, n)}

SeedsBack(h) == Sources(h) \cup {h}

(* It is the last of a series of sets that grows from the sources.           *)
LEMMA NaturalRuns ==
    ASSUME Discovered \subseteq Nodes, NEW h, SeedsBack(h) \in SUBSET Nodes
    PROVE  \E w \in [0 .. Cardinality(Nodes) -> SUBSET Nodes] :
              /\ w[0] = SeedsBack(h)
              /\ \A k \in 1 .. Cardinality(Nodes) : w[k] = GrownBack(w[k - 1], h)
              /\ NaturalLoop(h) = w[Cardinality(Nodes)]
<1> DEFINE N == Cardinality(Nodes)
           Def(g) == [k \in 0 .. N |-> IF k = 0 THEN SeedsBack(h) ELSE GrownBack(g[k - 1], h)]
<1>1. N \in Nat
  BY GraphsAssumption, FS_CardinalityType
<1>2. \A A \in SUBSET Nodes : GrownBack(A, h) \in SUBSET Nodes
  BY DEF GrownBack
<1>3. PICK D \in Rounds(SUBSET Nodes, N) :
        \A k \in 1 .. N : \A A \in SUBSET Nodes : D[k][A] = GrownBack(A, h)
  <2> DEFINE E == [k \in 1 .. N |-> [A \in SUBSET Nodes |-> GrownBack(A, h)]]
  <2>1. E \in Rounds(SUBSET Nodes, N)
    BY <1>2 DEF Rounds
  <2>2. \A k \in 1 .. N : \A A \in SUBSET Nodes : E[k][A] = GrownBack(A, h)
    OBVIOUS
  <2> HIDE DEF E
  <2> QED BY <2>1, <2>2
<1>4. PICK w \in [0 .. N -> SUBSET Nodes] :
        w[0] = SeedsBack(h) /\ \A k \in 1 .. N : w[k] = GrownBack(w[k - 1], h)
  <2>1. PICK start : start = SeedsBack(h)
    OBVIOUS
  <2>2. start \in SUBSET Nodes
    BY <2>1
  <2>3. PICK w : w \in Executions(SUBSET Nodes, N, start, D)
    BY <1>1, <2>2, ExecutionExists
  <2>4. w \in [0 .. N -> SUBSET Nodes] /\ w[0] = SeedsBack(h)
    BY <2>1, <2>3 DEF Executions
  <2>5. ASSUME NEW k \in 1 .. N PROVE w[k] = GrownBack(w[k - 1], h)
    <3>1. w[k - 1] \in SUBSET Nodes
      BY <1>1, <2>4
    <3> QED BY <1>3, <2>3, <3>1 DEF Executions
  <2> QED BY <2>4, <2>5
<1>5. w = Def(w)
  BY <1>1, <1>4
<1> DEFINE upTo == CHOOSE f : f = Def(f)
<1>6. upTo = Def(upTo)
  <2> HIDE DEF Def
  <2> QED BY <1>5
<1>7. NaturalLoop(h) = upTo[N]
  BY DEF NaturalLoop, SeedsBack, Sources, GrownBack
<1> HIDE DEF upTo
<1>8. upTo[0] = SeedsBack(h) /\ \A k \in 1 .. N : upTo[k] = GrownBack(upTo[k - 1], h)
  <2> HIDE DEF N
  <2>1. \A k \in 0 .. N : upTo[k] = Def(upTo)[k]
    BY <1>6
  <2> QED BY <1>1, <2>1
<1> DEFINE P == {k \in 0 .. N : upTo[k] = w[k]}
<1>9. 0 \in P /\ P \in SUBSET (0 .. N)
  BY <1>1, <1>4, <1>8
<1>10. \A k \in 1 .. N : k - 1 \in P => k \in P
  BY <1>1, <1>4, <1>8
<1>11. P = 0 .. N
  <2> HIDE DEF P, N
  <2> QED BY <1>1, <1>9, <1>10, RangeInduction
<1> QED BY <1>1, <1>4, <1>7, <1>11

(* C holds h, the sources of its back edges, and what leads to what it holds *)
(* but h.                                                                    *)
GoesBack(C, h) ==
    /\ h \in C /\ Sources(h) \subseteq C
    /\ \A n \in C \ {h} : \A m \in Discovered : Edge(m, n) => m \in C

(* It is the least of these sets.                                            *)
LEMMA NaturalLeast ==
    ASSUME Discovered \subseteq Nodes, NEW h, SeedsBack(h) \in SUBSET Discovered
    PROVE  /\ GoesBack(NaturalLoop(h), h) /\ NaturalLoop(h) \subseteq Discovered
           /\ \A C \in SUBSET Discovered : GoesBack(C, h) => NaturalLoop(h) \subseteq C
<1>1. PICK n : n = Cardinality(Nodes)
  OBVIOUS
<1>2. PICK w \in [0 .. n -> SUBSET Nodes] :
        /\ w[0] = SeedsBack(h) /\ \A k \in 1 .. n : w[k] = GrownBack(w[k - 1], h)
        /\ NaturalLoop(h) = w[n]
  BY <1>1, NaturalRuns
<1>3. PICK G \in [Nodes -> SUBSET Nodes] :
        \A x \in Nodes : G[x] = {m \in Discovered : x # h /\ Edge(m, x)}
  <2> DEFINE H == [x \in Nodes |-> {m \in Discovered : x # h /\ Edge(m, x)}]
  <2>1. H \in [Nodes -> SUBSET Nodes]
        /\ \A x \in Nodes : H[x] = {m \in Discovered : x # h /\ Edge(m, x)}
    OBVIOUS
  <2> HIDE DEF H
  <2> QED BY <2>1
<1>4. n \in Nat /\ IsFiniteSet(Nodes)
  BY <1>1, GraphsAssumption, FS_CardinalityType
<1>5. PICK S : S = SeedsBack(h)
  OBVIOUS
<1>6. ASSUME NEW A \in SUBSET Nodes PROVE GrownBack(A, h) = Spread(G, A)
  BY <1>3 DEF GrownBack, Spread
<1>7. ASSUME NEW k \in 1 .. n PROVE w[k] = Spread(G, w[k - 1])
  <2>1. w[k - 1] \in SUBSET Nodes
    BY <1>4
  <2> QED BY <1>2, <1>6, <2>1
<1>8. S \in SUBSET Nodes /\ w \in Spreads(Nodes, S, G, n)
  BY <1>2, <1>5, <1>7 DEF Spreads
<1>9. /\ S \subseteq w[n] /\ Closed(G, w[n])
      /\ \A C \in SUBSET Nodes : S \subseteq C /\ Closed(G, C) => w[n] \subseteq C
  BY <1>1, <1>4, <1>8, SpreadCloses
<1>10. ASSUME NEW C \in SUBSET Nodes PROVE GoesBack(C, h) <=> S \subseteq C /\ Closed(G, C)
  <2>1. S \subseteq C <=> h \in C /\ Sources(h) \subseteq C
    BY <1>5 DEF SeedsBack
  <2>2. Closed(G, C) <=> \A x \in C \ {h} : \A m \in Discovered : Edge(m, x) => m \in C
    BY <1>3 DEF Closed
  <2> QED BY <2>1, <2>2 DEF GoesBack
<1>11. w[n] \in SUBSET Nodes
  BY <1>4
<1>12. GoesBack(w[n], h)
  BY <1>9, <1>10, <1>11
<1>13. ASSUME NEW C \in SUBSET Discovered, GoesBack(C, h) PROVE w[n] \subseteq C
  BY <1>9, <1>10, <1>13
<1>14. GoesBack(Discovered, h)
  BY DEF GoesBack, SeedsBack
<1> QED BY <1>2, <1>12, <1>13, <1>14

-----------------------------------------------------------------------------
(* What the builder leaves behind it, of which its own tree has no need: the *)
(* predecessors of the nodes it passed were reached, and a reported edge is  *)
(* an edge.                                                                  *)
PredsFound ==
    /\ phase = "sdoms" => \A t \in at + 1 .. Len(preOrder) : ToSet(Preds(preOrder[t])) \subseteq Discovered
    /\ phase \in {"idoms", "done"} =>
          \A t \in 1 .. Len(preOrder) : ToSet(Preds(preOrder[t])) \subseteq Discovered

EdgesReported == \A e \in ToSet(backEdges) : e = <<e[1], e[2]>> /\ Edge(e[1], e[2])

TreeInv == BuildInv /\ PredsFound /\ EdgesReported

(* Every step of the builder keeps the first.                                *)
LEMMA PredsFoundKeeps ==
    ASSUME BuildInv, PredsFound, [BuilderNext]_vars
    PROVE  PredsFound'
<1>1. Len(preOrder) \in Nat
  <2>1. preOrder \in Seq(Nodes)
    BY SearchOrder DEF BuildInv, IsOrder
  <2> QED BY <2>1
<1>2. CASE DfsStep
  <2>1. phase' = "dfs"
    BY <1>2 DEF DfsStep, builderVars
  <2> QED BY <2>1 DEF PredsFound
<1>3. CASE ~DfsStep
  <2>1. dfsVars' = dfsVars
    BY <1>3 DEF BuilderNext, StartSdoms, SdomStep, StartIdoms, IdomStep, Finish, vars
  <2>2. preOrder' = preOrder /\ Discovered' = Discovered
        /\ \A n : ToSet(Preds(n))' = ToSet(Preds(n))
    BY <2>1 DEF dfsVars, Discovered, Preds, succ
  <2>3. CASE StartSdoms
    <3>1. phase' = "sdoms" /\ at' = Len(preOrder)
      BY <2>3 DEF StartSdoms
    <3>2. at' + 1 .. Len(preOrder') = {}
      BY <1>1, <2>2, <3>1
    <3> QED BY <3>1, <3>2 DEF PredsFound
  <2>4. CASE SdomStep
    <3>1. PICK a : a = at
      OBVIOUS
    <3>2. phase = "sdoms" /\ a \in 1 .. Len(preOrder)
      <4>1. phase = "sdoms" /\ at > 0
        BY <2>4 DEF SdomStep
      <4>2. Building(preOrder, at, sdoms, idoms, sdommed, dsu)
        BY <4>1 DEF BuildInv
      <4>3. at \in 0 .. Len(preOrder)
        BY <4>2 DEF Building
      <4> QED BY <1>1, <3>1, <4>1, <4>3
    <3>3. CASE ToSet(Preds(preOrder[a])) \subseteq Discovered
      <4>1. phase' = "sdoms" /\ at' = a - 1
        BY <2>4, <3>1, <3>2, <3>3 DEF SdomStep
      <4>2. \A t \in a .. Len(preOrder) : ToSet(Preds(preOrder[t])) \subseteq Discovered
        <5>1. \A t \in a .. Len(preOrder) : t = a \/ t \in a + 1 .. Len(preOrder)
          BY <1>1, <3>2
        <5> QED BY <3>1, <3>2, <3>3, <5>1 DEF PredsFound
      <4>3. at' + 1 = a
        BY <3>2, <4>1
      <4>4. \A t \in at' + 1 .. Len(preOrder') : ToSet(Preds(preOrder[t]))' \subseteq Discovered'
        BY <2>2, <4>2, <4>3
      <4> QED BY <4>1, <4>4 DEF PredsFound
    <3>4. CASE ~(ToSet(Preds(preOrder[a])) \subseteq Discovered)
      <4>1. phase' = "throw"
        BY <2>4, <3>1, <3>4 DEF SdomStep
      <4> QED BY <4>1 DEF PredsFound
    <3> QED BY <3>3, <3>4
  <2>5. CASE StartIdoms
    <3>1. phase' = "idoms" /\ phase = "sdoms" /\ at = 0
      BY <2>5 DEF StartIdoms
    <3>2. \A t \in 1 .. Len(preOrder) : t \in at + 1 .. Len(preOrder)
      BY <1>1, <3>1
    <3> QED BY <2>2, <3>1, <3>2 DEF PredsFound
  <2>6. CASE IdomStep \/ Finish
    <3>1. phase = "idoms" /\ phase' \in {"idoms", "done"}
      BY <2>6 DEF IdomStep, Finish
    <3> QED BY <2>2, <3>1 DEF PredsFound
  <2>7. CASE UNCHANGED vars
    <3>1. phase' = phase /\ at' = at
      BY <2>7 DEF vars, builderVars
    <3> QED BY <2>2, <3>1 DEF PredsFound
  <2> QED BY <1>3, <2>3, <2>4, <2>5, <2>6, <2>7 DEF BuilderNext
<1> QED BY <1>2, <1>3

(* Every step of the builder keeps the second.                               *)
LEMMA EdgesReportedKeeps ==
    ASSUME BuildInv, EdgesReported, [BuilderNext]_vars
    PROVE  EdgesReported'
<1>1. \A m, n : Edge(m, n)' = Edge(m, n)
  <2>1. graph' = graph
    BY DEF BuilderNext, DfsStep, DfsNext, Start, PassVisited, Descend, FinishNode,
           StartSdoms, SdomStep, StartIdoms, IdomStep, Finish, vars, dfsVars
  <2> QED BY <2>1 DEF Edge, succ
<1>2. CASE backEdges' = backEdges
  BY <1>1, <1>2 DEF EdgesReported
<1>3. CASE backEdges' # backEdges
  <2>1. PassVisited
    BY <1>3 DEF BuilderNext, DfsStep, DfsNext, Start, Descend, FinishNode,
                StartSdoms, SdomStep, StartIdoms, IdomStep, Finish, vars, dfsVars
  <2>2. PICK e : e = <<Top.node, Successor>>
    OBVIOUS
  <2>3. backEdges' = Append(backEdges, e) /\ AtSuccessor
    BY <1>3, <2>1, <2>2 DEF PassVisited
  <2>4. Edge(Top.node, Successor) /\ Top.node \in Nodes /\ Successor \in Nodes
    BY <2>3, AtTop DEF BuildInv, SearchInv
  <2>5. PICK be : be = backEdges
    OBVIOUS
  <2>6. be \in Seq(Nodes \X Nodes) /\ e \in Nodes \X Nodes
    BY <2>2, <2>4, <2>5 DEF BuildInv, SearchInv, DfsInv, DfsTypeOK
  <2>7. ToSet(Append(be, e)) = ToSet(be) \cup {e}
    BY <2>6, Appended, PushSet
  <2>8. ToSet(backEdges') = ToSet(backEdges) \cup {e}
    BY <2>3, <2>5, <2>7
  <2>9. e = <<e[1], e[2]>> /\ Edge(e[1], e[2])
    BY <2>2, <2>4
  <2> QED BY <1>1, <2>8, <2>9 DEF EdgesReported
<1> QED BY <1>2, <1>3

(* So the invariant of the builder can be had with both.                     *)
LEMMA TreeInvStarts == ASSUME Init PROVE TreeInv
<1>1. phase = "dfs" /\ backEdges = << >>
  BY DEF Init, DfsInit
<1>2. ToSet(<< >>) = {}
  BY DEF ToSet
<1> QED BY <1>1, <1>2, BuilderStarts DEF TreeInv, PredsFound, EdgesReported

(* And kept.                                                                 *)
LEMMA TreeInvKeeps == ASSUME TreeInv, [BuilderNext]_vars PROVE TreeInv'
BY BuilderKeeps, PredsFoundKeeps, EdgesReportedKeeps DEF TreeInv

-----------------------------------------------------------------------------
(* Once the tree is built: the search has come everywhere.                   *)
LEMMA SearchFacts ==
    ASSUME TreeInv, phase = "done"
    PROVE  /\ DfsTypeOK /\ graph.entry \in Discovered /\ Discovered = Reachable
           /\ Discovered \subseteq Nodes
           /\ IsOrder(postOrder) /\ ToSet(postOrder) = Discovered
           /\ \A m \in Discovered : \A n \in Nodes : Edge(m, n) => n \in Discovered
           /\ \A n \in Discovered : Preds(n) \in Seq(Discovered)
           /\ \A n \in Discovered : \A m \in Nodes : m \in ToSet(Preds(n)) <=> Edge(m, n)
           /\ \A m \in Nodes : \A n \in Discovered : Edge(m, n) => m \in Discovered
           /\ \A e \in ToSet(backEdges) : /\ e = <<e[1], e[2]>> /\ Edge(e[1], e[2])
                                          /\ e[1] \in Discovered /\ e[2] \in Discovered
<1>1. DfsInv /\ DfsTypeOK /\ succ \in [Nodes -> Seq(Nodes)] /\ graph.entry \in Nodes /\ graph \in Graphs
  BY SearchOrder DEF TreeInv, BuildInv, SearchInv, DfsInv
<1>2. VisitsReachable /\ DfsDone
  BY <1>1, SearchReaches DEF TreeInv, BuildInv
<1>3. Discovered = Reachable /\ ToSet(postOrder) = Discovered /\ IsOrder(postOrder)
  BY <1>1, <1>2 DEF VisitsReachable, Discovered, DfsTypeOK, IsOrder
<1>4. /\ Reachable \in SUBSET Nodes /\ graph.entry \in Reachable
      /\ \A m \in Reachable : \A n \in Nodes : Edge(m, n) => n \in Reachable
  BY <1>1, ReachableLeast, GraphsAssumption DEF Seeds
<1>5. ASSUME NEW n \in Discovered
      PROVE  /\ Preds(n) \in Seq(Discovered)
             /\ \A m \in Nodes : m \in ToSet(Preds(n)) <=> Edge(m, n)
             /\ \A m \in Nodes : Edge(m, n) => m \in Discovered
  <2>1. n \in Nodes
    BY <1>3, <1>4
  <2>2. Preds(n) \in Seq(Nodes) /\ \A m \in Nodes : m \in ToSet(Preds(n)) <=> Edge(m, n)
    BY <1>1, <2>1, PredsAre
  <2>3. ToSet(Preds(n)) \subseteq Discovered
    <3>1. preOrder \in Seq(Nodes)
      BY <1>1 DEF DfsTypeOK
    <3>2. PICK t \in 1 .. Len(preOrder) : preOrder[t] = n
      BY <3>1 DEF Discovered, ToSet
    <3> QED BY <3>2 DEF TreeInv, PredsFound
  <2>4. PICK s : s = Preds(n)
    OBVIOUS
  <2>5. \A i \in DOMAIN s : s[i] \in Discovered
    BY <2>3, <2>4 DEF ToSet
  <2>6. s \in Seq(Discovered)
    BY <2>2, <2>4, <2>5
  <2> QED BY <2>2, <2>3, <2>4, <2>6
<1>6. ASSUME NEW e \in ToSet(backEdges)
      PROVE  /\ e = <<e[1], e[2]>> /\ Edge(e[1], e[2])
             /\ e[1] \in Discovered /\ e[2] \in Discovered
  <2>1. e = <<e[1], e[2]>> /\ Edge(e[1], e[2])
    BY DEF TreeInv, EdgesReported
  <2>2. e[1] \in Discovered /\ e[2] \in Discovered
    BY <1>1 DEF DfsInv, SeenInOrder, Discovered, ToSet
  <2> QED BY <2>1, <2>2
<1> QED BY <1>1, <1>3, <1>4, <1>5, <1>6

(* A node's place in post-order is its own.                                  *)
LEMMA PosFacts ==
    ASSUME TreeInv, phase = "done"
    PROVE  /\ Pos \in [Discovered -> 0 .. Cardinality(Nodes)]
           /\ \A n \in Discovered : /\ Pos[n] \in DOMAIN postOrder
                                    /\ Pos[n] = TimeIn(postOrder, n) /\ postOrder[Pos[n]] = n
           /\ \A m, n \in Discovered : Pos[m] = Pos[n] => m = n
<1>1. IsOrder(postOrder) /\ ToSet(postOrder) = Discovered
  BY SearchFacts
<1>2. /\ Len(postOrder) \in Nat /\ DOMAIN postOrder = 1 .. Len(postOrder)
      /\ \A n \in Discovered : TimeIn(postOrder, n) \in 1 .. Len(postOrder)
                               /\ postOrder[TimeIn(postOrder, n)] = n
  BY <1>1, Times
<1>3. Cardinality(Nodes) \in Nat /\ Len(postOrder) <= Cardinality(Nodes)
  BY <1>1, TimesBounded
<1>4. \A n \in Discovered : Pos[n] = TimeIn(postOrder, n)
  BY DEF Pos
<1>5. \A n \in Discovered : Pos[n] \in 0 .. Cardinality(Nodes)
  BY <1>2, <1>3, <1>4
<1>6. Pos \in [Discovered -> 0 .. Cardinality(Nodes)]
  BY <1>5 DEF Pos
<1>7. \A n \in Discovered : Pos[n] \in DOMAIN postOrder /\ postOrder[Pos[n]] = n
  BY <1>2, <1>4
<1>8. \A m, n \in Discovered : Pos[m] = Pos[n] => m = n
  BY <1>7
<1> QED BY <1>4, <1>6, <1>7, <1>8

(* Of nodes with places, one stands last.                                    *)
LEMMA Furthest ==
    ASSUME NEW b \in Nat, NEW T, T # {}, NEW f, \A x \in T : f[x] \in 0 .. b
    PROVE  \E x \in T : \A y \in T : f[y] <= f[x]
<1> DEFINE Q == {b - f[x] : x \in T}
<1>1. Q \in SUBSET Nat /\ Q # {}
  OBVIOUS
<1>2. PICK q \in Q : \A r \in Q : q <= r
  <2> HIDE DEF Q
  <2> QED BY <1>1, NatLeast
<1>3. PICK x \in T : q = b - f[x]
  OBVIOUS
<1>4. ASSUME NEW y \in T PROVE f[y] <= f[x]
  <2>1. q <= b - f[y]
    BY <1>2
  <2>2. f[x] \in 0 .. b /\ f[y] \in 0 .. b
    OBVIOUS
  <2> HIDE DEF Q
  <2> QED BY <1>3, <2>1, <2>2
<1> QED BY <1>4

(* Every node but the entry has a predecessor that is finished later.        *)
LEMMA LaterPred ==
    ASSUME TreeInv, phase = "done", NEW n \in Discovered, n # graph.entry
    PROVE  \E p \in Discovered : Edge(p, n) /\ Pos[n] < Pos[p]
<1>1. /\ preOrder \in Seq(Nodes) /\ IsInjective(preOrder)
      /\ GrownFrom(preOrder, graph.entry, succ) /\ succ \in [Nodes -> Seq(Nodes)]
  BY SearchOrder DEF TreeInv, BuildInv, IsOrder
<1>2. PICK t \in 1 .. Len(preOrder) : preOrder[t] = n
  BY <1>1 DEF Discovered, ToSet
<1>3. preOrder # << >> /\ Len(preOrder) \in Nat
  BY <1>1, <1>2
<1>4. t \in 2 .. Len(preOrder)
  BY <1>1, <1>2, <1>3 DEF GrownFrom
<1>5. PICK s \in 1 .. t - 1 : \E i \in DOMAIN succ[preOrder[s]] : succ[preOrder[s]][i] = n
  BY <1>1, <1>2, <1>4 DEF GrownFrom
<1>6. PICK p : p = preOrder[s]
  OBVIOUS
<1>7. p \in Discovered /\ Edge(p, n) /\ s \in DOMAIN preOrder
  <2>1. s \in DOMAIN preOrder
    BY <1>1, <1>3, <1>4
  <2> QED BY <1>5, <1>6, <2>1 DEF Discovered, ToSet, Edge
<1>8. <<p, n>> \notin ToSet(backEdges)
  <2> SUFFICES ASSUME <<p, n>> \in ToSet(backEdges) PROVE FALSE
    OBVIOUS
  <2>1. PICK e \in ToSet(backEdges) : e = <<p, n>>
    OBVIOUS
  <2>2. e[1] = p /\ e[2] = n
    BY <2>1
  <2>3. PICK i, j \in DOMAIN preOrder : i <= j /\ preOrder[i] = n /\ preOrder[j] = p
    BY <2>2 DEF TreeInv, BuildInv, SearchInv, DfsInv, SeenInOrder
  <2>4. i = t /\ j = s
    BY <1>1, <1>2, <1>6, <1>7, <2>3 DEF IsInjective
  <2> QED BY <1>1, <1>3, <2>3, <2>4
<1>9. PICK i : i = Pos[p]
  OBVIOUS
<1>10. i \in DOMAIN postOrder /\ postOrder[i] = p /\ Pos[n] \in DOMAIN postOrder
       /\ postOrder[Pos[n]] = n
  BY <1>7, <1>9, PosFacts
<1>11. n \in ToSet(succ[postOrder[i]])
  BY <1>7, <1>10 DEF Edge, ToSet
<1>12. \E j \in 1 .. i - 1 : postOrder[j] = n
  BY <1>8, <1>10, <1>11 DEF TreeInv, BuildInv, SearchInv, DfsInv, Finished
<1>13. PICK j \in 1 .. i - 1 : postOrder[j] = n
  BY <1>12
<1>14. j \in DOMAIN postOrder /\ j < i /\ i \in Nat
  <2>1. postOrder \in Seq(Nodes)
    BY SearchFacts DEF IsOrder
  <2>2. DOMAIN postOrder = 1 .. Len(postOrder) /\ Len(postOrder) \in Nat
    BY <2>1
  <2> QED BY <1>10, <2>2
<1>15. j = Pos[n]
  BY <1>10, <1>13, <1>14, SearchFacts DEF IsOrder, IsInjective
<1> QED BY <1>7, <1>9, <1>14, <1>15

-----------------------------------------------------------------------------
(* What dominates a node dominates the predecessors of that, but itself.     *)
LEMMA DominatesBack ==
    ASSUME TreeInv, phase = "done", NEW d, NEW n, n # d, Dominates(d, n),
           NEW p \in Discovered, Edge(p, n)
    PROVE  Dominates(d, p)
<1>1. graph.entry \in Nodes /\ Discovered = Reachable /\ Discovered \subseteq Nodes
  BY SearchFacts
<1>2. PICK C : C = ReachableWithout(d)
  OBVIOUS
<1>3. ClosedBut(C, d) /\ n \notin C /\ n \in Nodes
  BY <1>1, <1>2, WithoutLeast DEF Dominates
<1>4. p \notin C
  BY <1>1, <1>3 DEF ClosedBut
<1> QED BY <1>1, <1>2, <1>4 DEF Dominates

(* Nothing but the entry dominates the entry.                                *)
LEMMA DominatesEntry ==
    ASSUME TreeInv, phase = "done", NEW d, Dominates(d, graph.entry)
    PROVE  d = graph.entry
<1>1. graph.entry \in Nodes
  BY SearchFacts
<1>2. ClosedBut(ReachableWithout(d), d) /\ graph.entry \notin ReachableWithout(d)
  BY <1>1, WithoutLeast DEF Dominates
<1> QED BY <1>2 DEF ClosedBut

(* A node is finished before what dominates it.                              *)
LEMMA DominatedBefore ==
    ASSUME TreeInv, phase = "done", NEW h \in Discovered, NEW n, n # h, Dominates(h, n)
    PROVE  n \in Discovered /\ Pos[n] < Pos[h]
<1>1. Discovered = Reachable /\ Pos \in [Discovered -> 0 .. Cardinality(Nodes)]
      /\ Cardinality(Nodes) \in Nat
      /\ \A x, y \in Discovered : Pos[x] = Pos[y] => x = y
  BY SearchFacts, PosFacts, GraphsAssumption, FS_CardinalityType
<1>2. n \in Discovered
  BY <1>1 DEF Dominates
<1> SUFFICES ASSUME ~(Pos[n] < Pos[h]) PROVE FALSE
  BY <1>2
<1>3. PICK T : T = {x \in Discovered : x # h /\ Dominates(h, x) /\ Pos[h] < Pos[x]}
  OBVIOUS
<1>4. n \in T
  <2>1. Pos[n] # Pos[h] /\ Pos[n] \in Nat /\ Pos[h] \in Nat
    BY <1>1, <1>2
  <2> QED BY <1>2, <1>3, <2>1
<1>5. PICK x \in T : \A y \in T : Pos[y] <= Pos[x]
  <2>1. \A y \in T : Pos[y] \in 0 .. Cardinality(Nodes)
    BY <1>1, <1>3
  <2> QED BY <1>1, <1>4, <2>1, Furthest
<1>6. x \in Discovered /\ x # h /\ Dominates(h, x) /\ Pos[h] < Pos[x]
  BY <1>3
<1>7. x # graph.entry
  BY <1>6, DominatesEntry
<1>8. PICK p \in Discovered : Edge(p, x) /\ Pos[x] < Pos[p]
  BY <1>6, <1>7, LaterPred
<1>9. Dominates(h, p)
  BY <1>6, <1>8, DominatesBack
<1>10. Pos[x] \in Nat /\ Pos[p] \in Nat /\ Pos[h] \in Nat
  BY <1>1, <1>6
<1>11. p \in T /\ ~(Pos[p] <= Pos[x])
  BY <1>3, <1>6, <1>8, <1>9, <1>10
<1> QED BY <1>5, <1>11

-----------------------------------------------------------------------------
(* The nest of a graph.                                                      *)
Analyzed == TreeInv /\ phase = "done" /\ reducible \in [Heads -> BOOLEAN]

(* Its parts.                                                                *)
LEMMA NestParts ==
    /\ Nest.nodes = Discovered /\ Nest.heads = Heads /\ Nest.red = reducible /\ Nest.pos = Pos
    /\ DOMAIN Nest.src = Heads /\ DOMAIN Nest.nat = Heads /\ DOMAIN Nest.preds = Discovered
    /\ \A h \in Heads : Nest.src[h] = Sources(h) /\ Nest.nat[h] = NaturalLoop(h)
    /\ \A n \in Discovered : Nest.preds[n] = Preds(n)
BY DEF Nest

(* A header and its sources are discovered.                                  *)
LEMMA HeadFacts ==
    ASSUME TreeInv, phase = "done"
    PROVE  /\ Heads \subseteq Discovered
           /\ \A h : Sources(h) \subseteq Discovered
           /\ \A h : \A s \in Sources(h) : Edge(s, h) /\ <<s, h>> \in ToSet(backEdges)
           /\ \A h \in Heads : /\ GoesBack(NaturalLoop(h), h)
                               /\ NaturalLoop(h) \subseteq Discovered
                               /\ \A C \in SUBSET Discovered :
                                     GoesBack(C, h) => NaturalLoop(h) \subseteq C
<1>1. Heads \subseteq Discovered
  BY SearchFacts DEF Heads
<1>2. ASSUME NEW h, NEW s \in Sources(h)
      PROVE  s \in Discovered /\ Edge(s, h) /\ <<s, h>> \in ToSet(backEdges)
  <2>1. PICK e \in ToSet(backEdges) : e[2] = h /\ e[1] = s
    BY <1>2 DEF Sources
  <2> QED BY <2>1, SearchFacts
<1>3. ASSUME NEW h \in Heads
      PROVE  /\ GoesBack(NaturalLoop(h), h) /\ NaturalLoop(h) \subseteq Discovered
             /\ \A C \in SUBSET Discovered : GoesBack(C, h) => NaturalLoop(h) \subseteq C
  <2>1. SeedsBack(h) \in SUBSET Discovered
    BY <1>1, <1>2 DEF SeedsBack
  <2>2. Discovered \subseteq Nodes
    BY SearchFacts
  <2> QED BY <2>1, <2>2, NaturalLeast
<1> QED BY <1>1, <1>2, <1>3

(* The nest has the types it is meant to have, whatever is found reducible.  *)
NestOf(r) ==
    [nodes |-> Discovered, heads |-> Heads, red |-> r, pos |-> Pos,
     src |-> [h \in Heads |-> Sources(h)],
     nat |-> [h \in Heads |-> NaturalLoop(h)],
     preds |-> [n \in Discovered |-> Preds(n)]]

(* It has.                                                                   *)
LEMMA NestOfTypes ==
    ASSUME TreeInv, phase = "done", NEW r \in [Heads -> BOOLEAN] PROVE IsNest(NestOf(r))
<1>1. PICK g : g = NestOf(r)
  OBVIOUS
<1>2. /\ g.nodes = Discovered /\ g.heads = Heads /\ g.red = r /\ g.pos = Pos
      /\ g.src = [h \in Heads |-> Sources(h)] /\ g.nat = [h \in Heads |-> NaturalLoop(h)]
      /\ g.preds = [n \in Discovered |-> Preds(n)]
  BY <1>1 DEF NestOf
<1>3. g.nodes \subseteq Nodes /\ g.heads \subseteq g.nodes /\ g.red \in [g.heads -> BOOLEAN]
  BY <1>2, HeadFacts, SearchFacts
<1>4. /\ g.pos \in [g.nodes -> 0 .. Cardinality(Nodes)]
      /\ \A m, n \in g.nodes : g.pos[m] = g.pos[n] => m = n
  BY <1>2, PosFacts
<1>5. g.src \in [g.heads -> SUBSET g.nodes] /\ g.nat \in [g.heads -> SUBSET g.nodes]
  <2>1. \A h \in Heads : Sources(h) \in SUBSET Discovered /\ NaturalLoop(h) \in SUBSET Discovered
    BY HeadFacts
  <2> QED BY <1>2, <2>1
<1>6. g.preds \in [g.nodes -> Seq(g.nodes)]
  <2>1. \A n \in Discovered : Preds(n) \in Seq(Discovered)
    BY SearchFacts
  <2> QED BY <1>2, <2>1
<1> QED BY <1>1, <1>3, <1>4, <1>5, <1>6 DEF IsNest

(* Its types.                                                                *)
LEMMA NestTypes == ASSUME Analyzed PROVE IsNest(Nest)
<1>1. Nest = NestOf(reducible)
  BY DEF Nest, NestOf
<1>2. TreeInv /\ phase = "done" /\ reducible \in [Heads -> BOOLEAN]
  BY DEF Analyzed
<1>3. IsNest(NestOf(reducible))
  BY <1>2, NestOfTypes
<1> QED BY <1>1, <1>3

(* Natural loops are natural.                                                *)
LEMMA NestNatural == ASSUME Analyzed PROVE Natural(Nest)
<1>1. TreeInv /\ phase = "done"
  BY DEF Analyzed
<1>2. Discovered \subseteq Nodes
  BY <1>1, SearchFacts
<1>3. ASSUME NEW h \in Heads, NEW C \in SUBSET Discovered
      PROVE  ClosedAround(Nest, h, C) <=> GoesBack(C, h)
  <2>1. \A x \in C : x \in Nodes /\ Nest.preds[x] = Preds(x)
                     /\ \A m \in Nodes : m \in ToSet(Preds(x)) <=> Edge(m, x)
    BY <1>1, <1>2, SearchFacts, NestParts
  <2>2. \A x \in C : \A m : m \in ToSet(Preds(x)) => m \in Discovered
    <3>1. \A x \in C : Preds(x) \in Seq(Discovered)
      BY <1>1, SearchFacts
    <3> QED BY <3>1 DEF ToSet
  <2>3. \A x \in C : ToSet(Nest.preds[x]) \subseteq C
                     <=> \A m \in Discovered : Edge(m, x) => m \in C
    BY <1>2, <2>1, <2>2
  <2> QED BY <2>3, NestParts DEF ClosedAround, GoesBack
<1>4. ASSUME NEW h \in Heads
      PROVE  /\ ClosedAround(Nest, h, NaturalLoop(h))
             /\ \A C \in SUBSET Discovered : ClosedAround(Nest, h, C) => NaturalLoop(h) \subseteq C
  BY <1>1, <1>3, HeadFacts
<1> QED BY <1>4, NestParts DEF Natural

-----------------------------------------------------------------------------
(* The loops of a structured graph nest.  A reducible one is entered by its  *)
(* header.                                                                   *)
LEMMA LoopDominated ==
    ASSUME Analyzed, Structured, NEW h \in Heads, reducible[h], NEW n \in NaturalLoop(h)
    PROVE  Dominates(h, n)
<1>1. TreeInv /\ phase = "done"
  BY DEF Analyzed
<1>2. Discovered = Reachable /\ graph.entry \in Nodes /\ Heads \subseteq Discovered
      /\ Discovered \subseteq Nodes
  BY <1>1, SearchFacts, HeadFacts
<1>3. PICK C : C = {x \in Discovered : Dominates(h, x)}
  OBVIOUS
<1>4. Dominates(h, h)
  BY <1>2, WithoutLeast DEF Dominates
<1>5. ASSUME NEW s \in Sources(h) PROVE Dominates(h, s) /\ s \in Discovered
  <2>1. PICK e \in ToSet(backEdges) : e[2] = h /\ e[1] = s
    BY <1>5 DEF Sources
  <2> QED BY <1>1, <1>5, <2>1, HeadFacts DEF Structured
<1>6. ASSUME NEW x \in C \ {h}, NEW m \in Discovered, Edge(m, x) PROVE m \in C
  BY <1>1, <1>3, <1>6, DominatesBack
<1>7. GoesBack(C, h) /\ C \in SUBSET Discovered
  BY <1>2, <1>3, <1>4, <1>5, <1>6 DEF GoesBack
<1>8. NaturalLoop(h) \subseteq C
  BY <1>1, <1>7, HeadFacts
<1> QED BY <1>3, <1>8

(* What is in a reducible loop is finished before the header.                *)
LEMMA LoopBefore ==
    ASSUME Analyzed, Structured, NEW h \in Heads, reducible[h],
           NEW n \in NaturalLoop(h), n # h
    PROVE  Pos[n] < Pos[h]
<1>1. h \in Discovered
  BY HeadFacts DEF Analyzed
<1> QED BY <1>1, LoopDominated, DominatedBefore DEF Analyzed

(* Of two reducible loops that meet, the one finished first is inside.       *)
LEMMA LoopsMeet ==
    ASSUME Analyzed, Structured, NEW h \in Heads, NEW m \in Heads, reducible[h], reducible[m],
           Pos[m] < Pos[h], NEW n, n \in NaturalLoop(h), n \in NaturalLoop(m)
    PROVE  m \in NaturalLoop(h)
<1>1. /\ TreeInv /\ phase = "done" /\ h \in Discovered /\ m \in Discovered
      /\ NaturalLoop(h) \subseteq Discovered
      /\ GoesBack(NaturalLoop(h), h) /\ GoesBack(NaturalLoop(m), m)
      /\ Pos \in [Discovered -> 0 .. Cardinality(Nodes)] /\ Cardinality(Nodes) \in Nat
  BY HeadFacts, PosFacts, GraphsAssumption, FS_CardinalityType DEF Analyzed
<1>2. PICK x \in NaturalLoop(h) \cap NaturalLoop(m) :
        \A y \in NaturalLoop(h) \cap NaturalLoop(m) : Pos[y] <= Pos[x]
  <2>1. PICK T : T = NaturalLoop(h) \cap NaturalLoop(m)
    OBVIOUS
  <2>2. T # {} /\ \A y \in T : Pos[y] \in 0 .. Cardinality(Nodes)
    BY <1>1, <2>1
  <2>3. \E x \in T : \A y \in T : Pos[y] <= Pos[x]
    BY <1>1, <2>2, Furthest
  <2> QED BY <2>1, <2>3
<1>3. CASE x = m
  BY <1>3
<1>4. CASE x = h
  <2>1. h # m /\ Pos[h] \in Nat /\ Pos[m] \in Nat
    BY <1>1
  <2>2. Pos[h] < Pos[m]
    BY <1>4, <2>1, LoopBefore
  <2> QED BY <2>1, <2>2
<1>5. CASE x # m /\ x # h
  <2>1. x \in Discovered /\ Dominates(h, x)
    BY <1>1, LoopDominated
  <2>2. x # graph.entry
    BY <1>1, <1>5, <2>1, DominatesEntry
  <2>3. PICK p \in Discovered : Edge(p, x) /\ Pos[x] < Pos[p]
    BY <1>1, <2>1, <2>2, LaterPred
  <2>4. p \in NaturalLoop(h) /\ p \in NaturalLoop(m)
    BY <1>1, <1>5, <2>3 DEF GoesBack
  <2>5. Pos[p] <= Pos[x] /\ Pos[p] \in Nat /\ Pos[x] \in Nat
    BY <1>1, <1>2, <2>1, <2>4
  <2> QED BY <2>3, <2>5
<1> QED BY <1>3, <1>4, <1>5

(* What is given to a loop that meets a reducible one finished later.        *)
LEMMA ContentMeets ==
    ASSUME Analyzed, Structured, NEW h \in Heads, NEW m \in Heads, reducible[h],
           Pos[m] < Pos[h]
    PROVE  /\ \A x \in Content(Nest, m) : x \in NaturalLoop(h) => m \in NaturalLoop(h)
           /\ m \in NaturalLoop(h) => Content(Nest, m) \subseteq NaturalLoop(h)
<1>1. /\ TreeInv /\ phase = "done" /\ h \in Discovered /\ m \in Discovered
      /\ GoesBack(NaturalLoop(h), h) /\ NaturalLoop(h) \subseteq Discovered
      /\ GoesBack(NaturalLoop(m), m) /\ NaturalLoop(m) \subseteq Discovered
      /\ Pos \in [Discovered -> 0 .. Cardinality(Nodes)]
  BY HeadFacts, PosFacts DEF Analyzed
<1>2. h # m /\ Pos[h] \in Nat /\ Pos[m] \in Nat
  BY <1>1
<1>3. Content(Nest, m) = IF reducible[m] THEN NaturalLoop(m) ELSE {m} \cup Sources(m)
  BY NestParts DEF Content
<1>4. ASSUME NEW x \in Content(Nest, m), x \in NaturalLoop(h) PROVE m \in NaturalLoop(h)
  <2>1. CASE reducible[m]
    BY <1>3, <1>4, <2>1, LoopsMeet
  <2>2. CASE ~reducible[m] /\ x \in Sources(m)
    <3>1. PICK e \in ToSet(backEdges) : e[2] = m /\ e[1] = x
      BY <2>2 DEF Sources
    <3> QED BY <1>2, <1>4, <3>1 DEF Structured
  <2> QED BY <1>3, <1>4, <2>1, <2>2
<1>5. ASSUME m \in NaturalLoop(h) PROVE Content(Nest, m) \subseteq NaturalLoop(h)
  <2>1. Sources(m) \subseteq NaturalLoop(h)
    <3>1. \A s \in Sources(m) : s \in Discovered /\ Edge(s, m)
      BY <1>1, HeadFacts
    <3> QED BY <1>1, <1>2, <1>5, <3>1 DEF GoesBack
  <2>2. CASE reducible[m]
    <3>1. h \notin NaturalLoop(m)
      <4> SUFFICES ASSUME h \in NaturalLoop(m) PROVE FALSE
        OBVIOUS
      <4>1. Pos[h] < Pos[m]
        BY <1>2, <2>2, LoopBefore
      <4> QED BY <1>2, <4>1
    <3>2. PICK C : C = NaturalLoop(h) \cap NaturalLoop(m)
      OBVIOUS
    <3>3. GoesBack(C, m) /\ C \in SUBSET Discovered
      BY <1>1, <1>5, <2>1, <3>1, <3>2 DEF GoesBack
    <3>4. NaturalLoop(m) \subseteq C
      BY <1>1, <3>3, HeadFacts
    <3> QED BY <1>3, <2>2, <3>2, <3>4
  <2>3. CASE ~reducible[m]
    BY <1>3, <1>5, <2>1, <2>3
  <2> QED BY <2>2, <2>3
<1> QED BY <1>4, <1>5

(* So the nest of a structured graph is in order.                            *)
LEMMA NestOrderly == ASSUME Analyzed, Structured PROVE Orderly(Nest)
<1>1. \A h \in Heads : h \notin Sources(h)
  BY DEF Structured, Sources
<1>2. \A h \in Heads : reducible[h] => \A x \in NaturalLoop(h) \ {h} : Pos[x] < Pos[h]
  BY LoopBefore
<1>3. ASSUME NEW h \in Heads, NEW m \in Heads, reducible[m], m # h, NEW s \in Sources(h),
             s \in NaturalLoop(m)
      PROVE  Pos[h] < Pos[m]
  <2>1. PICK e \in ToSet(backEdges) : e[2] = h /\ e[1] = s
    BY <1>3 DEF Sources
  <2>2. h \in NaturalLoop(m)
    BY <1>3, <2>1 DEF Structured
  <2> QED BY <1>3, <2>2, LoopBefore
<1>4. \A h, m \in Heads : reducible[h] /\ Pos[m] < Pos[h] =>
         /\ \A x \in Content(Nest, m) : x \in NaturalLoop(h) => m \in NaturalLoop(h)
         /\ m \in NaturalLoop(h) => Content(Nest, m) \subseteq NaturalLoop(h)
  BY ContentMeets
<1> QED BY <1>1, <1>2, <1>3, <1>4, NestParts DEF Orderly

-----------------------------------------------------------------------------
(* What a map has after emplace.                                             *)
LEMMA EmplacedIs ==
    ASSUME NEW f, NEW K, NEW v
    PROVE  /\ DOMAIN Emplaced(f, K, v) = DOMAIN f \cup K
           /\ \A x \in DOMAIN f : Emplaced(f, K, v)[x] = f[x]
           /\ \A x \in K \ DOMAIN f : Emplaced(f, K, v)[x] = v
           /\ Emplaced(f, K, v) \in [DOMAIN Emplaced(f, K, v) -> {f[x] : x \in DOMAIN f} \cup {v}]
BY DEF Emplaced

(* Items are of two kinds.                                                   *)
LEMMA ItemsDiffer ==
    /\ \A m, n : Node(m) = Node(n) => m = n
    /\ \A m, n : Loop(m) = Loop(n) => m = n
    /\ \A m, n : Node(m) # Loop(n)
<1>1. ASSUME NEW m, NEW n, Node(m) = Node(n) PROVE m = n
  <2>1. Node(m).id = m /\ Node(n).id = n
    BY DEF Node
  <2> QED BY <1>1, <2>1
<1>2. ASSUME NEW m, NEW n, Loop(m) = Loop(n) PROVE m = n
  <2>1. Loop(m).id = m /\ Loop(n).id = n
    BY DEF Loop
  <2> QED BY <1>2, <2>1
<1>3. ASSUME NEW m, NEW n, Node(m) = Loop(n) PROVE FALSE
  <2>1. Node(m).kind = "node" /\ Loop(n).kind = "loop"
    BY DEF Node, Loop
  <2> QED BY <1>3, <2>1
<1> QED BY <1>1, <1>2, <1>3

-----------------------------------------------------------------------------
(* What populate does to the maps.  The loops that have been given something *)
(* were given some of their content and are finished no later than h,        *)
Ahead(g, got, h) ==
    \A m \in DOMAIN got : m \in g.heads /\ got[m] \subseteq Content(g, m) /\ g.pos[m] <= g.pos[h]

(* and then h is given what is in to.                                        *)
Extends(got, got2, h, to) ==
    /\ DOMAIN got2 = DOMAIN got \cup {h} /\ got2[h] = to
    /\ \A m \in DOMAIN got \ {h} : got2[m] = got[m]

(* The loop of h begins with its sources.                                    *)
LEMMA LoopBegins ==
    ASSUME NEW g, IsNest(g), Natural(g), Orderly(g),
           NEW lo, NEW ou, NEW bo, NEW got, AreMaps(g, lo, ou, bo), Nesting(g, lo, ou, bo, got),
           NoRoot(g, lo, ou), NEW h \in g.heads, h \notin DOMAIN got, Ahead(g, got, h),
           NEW lo2, lo2 = Emplaced(lo, g.src[h], h),
           NEW got2, Extends(got, got2, h, g.src[h])
    PROVE  Nesting(g, lo2, ou, bo, got2)
<1> USE DEF Extends
<1>1. /\ \A n \in g.nodes : g.pos[n] \in Int
      /\ g.heads \subseteq g.nodes /\ g.src[h] \subseteq g.nodes /\ h \in g.nodes
      /\ \A m \in DOMAIN got : m \in g.heads /\ g.pos[m] <= g.pos[h]
  BY DEF IsNest, Ahead
<1>2. /\ DOMAIN lo2 = DOMAIN lo \cup g.src[h]
      /\ \A x \in DOMAIN lo : lo2[x] = lo[x]
      /\ \A x \in g.src[h] \ DOMAIN lo : lo2[x] = h
  BY DEF Emplaced
<1>3. Assigned(g, lo2, got2)
  <2> SUFFICES ASSUME NEW x \in DOMAIN lo2, NEW m \in g.heads, lo2[x] = m, x # m
               PROVE  m \in DOMAIN got2 /\ x \in got2[m]
    BY DEF Assigned
  <2>1. CASE x \in DOMAIN lo
    <3>1. m \in DOMAIN got /\ x \in got[m]
      BY <1>2, <2>1 DEF Nesting, Assigned
    <3> QED BY <3>1
  <2>2. CASE x \notin DOMAIN lo
    BY <1>2, <2>2
  <2> QED BY <2>1, <2>2
<1>4. Listing(g, lo2, ou, bo)
  <2>1. ASSUME NEW m \in g.heads, NEW x
        PROVE  (x \in g.src[m] \/ (x \in DOMAIN lo2 /\ lo2[x] = m /\ x # m))
               <=> (x \in g.src[m] \/ (x \in DOMAIN lo /\ lo[x] = m /\ x # m))
    BY <1>2
  <2> QED BY <2>1 DEF Nesting, Listing
<1>5. Enclosed(g, ou, got2)
  BY DEF Nesting, Enclosed
<1>6. Covered(g, lo2, ou, got2)
  <2> SUFFICES ASSUME NEW m \in DOMAIN got2, g.red[m], NEW x \in got2[m]
               PROVE  CoveredBy(g, lo2, ou, m, x)
    BY DEF Covered
  <2>1. CASE m \in DOMAIN got
    <3>1. CoveredBy(g, lo, ou, m, x)
      BY <2>1 DEF Nesting, Covered
    <3> QED BY <1>2, <3>1 DEF CoveredBy
  <2>2. CASE m = h
    <3>1. x \in g.src[h] /\ x \in DOMAIN lo2 /\ x \in g.nodes
      BY <1>1, <1>2, <2>2
    <3>2. CASE x \in DOMAIN lo /\ lo[x] # x
      <4>1. lo[x] \in g.heads /\ lo2[x] = lo[x]
        BY <1>2, <3>2 DEF NoRoot
      <4>2. lo[x] \in DOMAIN got
        BY <3>2, <4>1 DEF Nesting, Assigned
      <4>3. g.pos[lo[x]] <= g.pos[h]
        BY <1>1, <4>1, <4>2
      <4> QED BY <2>2, <3>1, <4>1, <4>3 DEF CoveredBy
    <3>3. CASE x \in DOMAIN lo /\ lo[x] = x
      <4>1. x \in g.heads /\ lo2[x] = x
        BY <1>2, <3>3 DEF NoRoot
      <4>2. x \in g.nat[h] /\ x # h
        BY <3>1 DEF Natural, ClosedAround, Orderly
      <4>3. g.pos[x] < g.pos[h]
        BY <2>2, <4>2 DEF Orderly
      <4>4. g.pos[x] <= g.pos[h]
        BY <1>1, <3>1, <4>3
      <4> QED BY <2>2, <3>1, <4>1, <4>4 DEF CoveredBy
    <3>4. CASE x \notin DOMAIN lo
      <4>1. lo2[x] = h /\ g.pos[h] <= g.pos[h]
        BY <1>1, <1>2, <3>1, <3>4
      <4> QED BY <2>2, <3>1, <4>1 DEF CoveredBy
    <3> QED BY <3>2, <3>3, <3>4
  <2> QED BY <2>1, <2>2
<1> QED BY <1>3, <1>4, <1>5, <1>6 DEF Nesting

(* What the walk of h meets and another loop has: that is inside.            *)
LEMMA MetInside ==
    ASSUME NEW g, IsNest(g), Natural(g), Orderly(g),
           NEW lo, NEW ou, NEW bo, NEW got, AreMaps(g, lo, ou, bo), Nesting(g, lo, ou, bo, got),
           NoRoot(g, lo, ou), NEW h \in DOMAIN got, g.red[h], Ahead(g, got, h),
           NEW x \in g.nat[h], x # h, x \notin got[h], x \in DOMAIN lo
    PROVE  /\ lo[x] \in g.heads /\ lo[x] # h /\ lo[x] \in g.nat[h]
           /\ g.pos[lo[x]] <= g.pos[h]
<1>1. PICK l : l = lo[x]
  OBVIOUS
<1>2. l \in g.heads /\ h \in g.heads
  BY <1>1 DEF NoRoot, Ahead
<1>3. g.heads \subseteq g.nodes /\ (\A n \in g.nodes : g.pos[n] \in Int)
      /\ \A m, n \in g.nodes : g.pos[m] = g.pos[n] => m = n
  BY DEF IsNest
<1>4. l # x => l \in DOMAIN got /\ x \in got[l]
  BY <1>1, <1>2 DEF Nesting, Assigned
<1>5. l # h
  BY <1>1, <1>2, <1>4
<1>6. x \in Content(g, l)
  <2>1. CASE l = x
    BY <1>2, <2>1 DEF Content, Natural, ClosedAround
  <2>2. CASE l # x
    BY <1>4, <2>2 DEF Ahead
  <2> QED BY <2>1, <2>2
<1>7. g.pos[l] < g.pos[h]
  <2>1. CASE l = x
    BY <1>2, <2>1 DEF Orderly
  <2>2. CASE l # x
    <3>1. g.pos[l] <= g.pos[h] /\ g.pos[l] # g.pos[h]
      BY <1>2, <1>3, <1>4, <1>5, <2>2 DEF Ahead
    <3> QED BY <1>2, <1>3, <3>1
  <2> QED BY <2>1, <2>2
<1>8. l \in g.nat[h]
  BY <1>2, <1>6, <1>7 DEF Orderly
<1>9. g.pos[l] <= g.pos[h]
  BY <1>2, <1>3, <1>7
<1> QED BY <1>1, <1>2, <1>5, <1>8, <1>9

-----------------------------------------------------------------------------
(* What the walk of h does with the node it meets.  A free one joins h.      *)
LEMMA FreeJoins ==
    ASSUME NEW g, IsNest(g),
           NEW lo, NEW ou, NEW bo, NEW got, AreMaps(g, lo, ou, bo), Nesting(g, lo, ou, bo, got),
           NEW h \in DOMAIN got, h \in g.heads, NEW x \in g.nodes, x # h, x \notin DOMAIN lo,
           NEW lo2, lo2 = Emplaced(lo, {x}, h),
           NEW bo2, bo2 = [bo EXCEPT ![h] = Append(@, Node(x))],
           NEW got2, Extends(got, got2, h, got[h] \cup {x})
    PROVE  Nesting(g, lo2, ou, bo2, got2)
<1> USE DEF Extends
<1>0. DOMAIN got2 = DOMAIN got
  OBVIOUS
<1>1. /\ DOMAIN lo2 = DOMAIN lo \cup {x} /\ lo2[x] = h
      /\ \A y \in DOMAIN lo : lo2[y] = lo[y]
  BY DEF Emplaced
<1>2. /\ ToSet(bo2[h]) = ToSet(bo[h]) \cup {Node(x)}
      /\ \A m \in g.heads \ {h} : bo2[m] = bo[m]
  <2>1. bo[h] \in Seq(Items(g)) /\ Node(x) \in Items(g) /\ h \in DOMAIN bo
    BY DEF AreMaps, Items
  <2>2. PICK b, v : b = bo[h] /\ v = Node(x)
    OBVIOUS
  <2>3. ToSet(Append(b, v)) = ToSet(b) \cup {v}
    BY <2>1, <2>2, Appended, PushSet
  <2> QED BY <2>1, <2>2, <2>3
<1>3. Assigned(g, lo2, got2)
  <2> SUFFICES ASSUME NEW y \in DOMAIN lo2, NEW m \in g.heads, lo2[y] = m, y # m
               PROVE  m \in DOMAIN got2 /\ y \in got2[m]
    BY DEF Assigned
  <2>1. CASE y \in DOMAIN lo
    <3>1. m \in DOMAIN got /\ y \in got[m]
      BY <1>1, <2>1 DEF Nesting, Assigned
    <3> QED BY <3>1
  <2>2. CASE y = x
    BY <1>1, <2>2
  <2> QED BY <1>1, <2>1, <2>2
<1>4. Listing(g, lo2, ou, bo2)
  <2>1. ASSUME NEW m \in g.heads, NEW y \in g.nodes
        PROVE  Node(y) \in ToSet(bo2[m])
               <=> y \in g.src[m] \/ (y \in DOMAIN lo2 /\ lo2[y] = m /\ y # m)
    <3>1. Node(y) \in ToSet(bo[m])
          <=> y \in g.src[m] \/ (y \in DOMAIN lo /\ lo[y] = m /\ y # m)
      BY DEF Nesting, Listing
    <3>2. CASE m = h
      <4>1. Node(y) \in ToSet(bo2[m]) <=> Node(y) \in ToSet(bo[m]) \/ y = x
        BY <1>2, <3>2, ItemsDiffer
      <4> QED BY <1>1, <3>1, <3>2, <4>1
    <3>3. CASE m # h
      BY <1>1, <1>2, <3>1, <3>3
    <3> QED BY <3>2, <3>3
  <2>2. ASSUME NEW m \in g.heads, NEW l \in g.heads
        PROVE  Loop(l) \in ToSet(bo2[m]) <=> l \in DOMAIN ou /\ ou[l] = m
    <3>1. Loop(l) \in ToSet(bo[m]) <=> l \in DOMAIN ou /\ ou[l] = m
      BY DEF Nesting, Listing
    <3>2. Loop(l) # Node(x)
      BY ItemsDiffer
    <3> QED BY <1>2, <3>1, <3>2
  <2> QED BY <2>1, <2>2 DEF Listing
<1>5. Enclosed(g, ou, got2)
  BY DEF Nesting, Enclosed
<1>6. Covered(g, lo2, ou, got2)
  <2> SUFFICES ASSUME NEW m \in DOMAIN got2, g.red[m], NEW y \in got2[m]
               PROVE  CoveredBy(g, lo2, ou, m, y)
    BY DEF Covered
  <2>1. CASE y \in got[m]
    <3>1. CoveredBy(g, lo, ou, m, y)
      BY <2>1 DEF Nesting, Covered
    <3> QED BY <1>1, <3>1 DEF CoveredBy
  <2>2. CASE y \notin got[m]
    <3>1. m = h /\ y = x
      BY <2>2
    <3>2. g.pos[h] <= g.pos[h]
      BY DEF IsNest
    <3> QED BY <1>1, <3>1, <3>2 DEF CoveredBy
  <2> QED BY <2>1, <2>2
<1> QED BY <1>3, <1>4, <1>5, <1>6 DEF Nesting

(* With one of a loop that has no outer one, that loop joins h.              *)
LEMMA LoopJoins ==
    ASSUME NEW g, IsNest(g),
           NEW lo, NEW ou, NEW bo, NEW got, AreMaps(g, lo, ou, bo), Nesting(g, lo, ou, bo, got),
           NEW h \in DOMAIN got, h \in g.heads, g.red[h], NEW x \in DOMAIN lo,
           NEW l, l = lo[x], l \in g.heads, l # h, l \in g.nat[h], g.pos[l] <= g.pos[h],
           l \notin DOMAIN ou,
           NEW ou2, ou2 = Emplaced(ou, {l}, h),
           NEW bo2, bo2 = [bo EXCEPT ![h] = Append(@, Loop(l))],
           NEW got2, Extends(got, got2, h, got[h] \cup {x})
    PROVE  Nesting(g, lo, ou2, bo2, got2)
<1> USE DEF Extends
<1>0. DOMAIN got2 = DOMAIN got
  OBVIOUS
<1>1. /\ DOMAIN ou2 = DOMAIN ou \cup {l} /\ ou2[l] = h
      /\ \A k \in DOMAIN ou : ou2[k] = ou[k]
  BY DEF Emplaced
<1>2. /\ ToSet(bo2[h]) = ToSet(bo[h]) \cup {Loop(l)}
      /\ \A m \in g.heads \ {h} : bo2[m] = bo[m]
  <2>1. bo[h] \in Seq(Items(g)) /\ Loop(l) \in Items(g) /\ h \in DOMAIN bo
    BY DEF AreMaps, Items
  <2>2. PICK b, v : b = bo[h] /\ v = Loop(l)
    OBVIOUS
  <2>3. ToSet(Append(b, v)) = ToSet(b) \cup {v}
    BY <2>1, <2>2, Appended, PushSet
  <2> QED BY <2>1, <2>2, <2>3
<1>3. Assigned(g, lo, got2)
  <2> SUFFICES ASSUME NEW y \in DOMAIN lo, NEW m \in g.heads, lo[y] = m, y # m
               PROVE  m \in DOMAIN got2 /\ y \in got2[m]
    BY DEF Assigned
  <2>1. m \in DOMAIN got /\ y \in got[m]
    BY DEF Nesting, Assigned
  <2> QED BY <2>1
<1>4. Listing(g, lo, ou2, bo2)
  <2>1. ASSUME NEW m \in g.heads, NEW y \in g.nodes
        PROVE  Node(y) \in ToSet(bo2[m])
               <=> y \in g.src[m] \/ (y \in DOMAIN lo /\ lo[y] = m /\ y # m)
    <3>1. Node(y) \in ToSet(bo[m])
          <=> y \in g.src[m] \/ (y \in DOMAIN lo /\ lo[y] = m /\ y # m)
      BY DEF Nesting, Listing
    <3>2. Node(y) # Loop(l)
      BY ItemsDiffer
    <3>3. Node(y) \in ToSet(bo2[m]) <=> Node(y) \in ToSet(bo[m])
      BY <1>2, <3>2
    <3> QED BY <3>1, <3>3
  <2>2. ASSUME NEW m \in g.heads, NEW k \in g.heads
        PROVE  Loop(k) \in ToSet(bo2[m]) <=> k \in DOMAIN ou2 /\ ou2[k] = m
    <3>1. Loop(k) \in ToSet(bo[m]) <=> k \in DOMAIN ou /\ ou[k] = m
      BY DEF Nesting, Listing
    <3>2. CASE m = h
      <4>1. Loop(k) \in ToSet(bo2[m]) <=> Loop(k) \in ToSet(bo[m]) \/ k = l
        BY <1>2, <3>2, ItemsDiffer
      <4> QED BY <1>1, <3>1, <3>2, <4>1
    <3>3. CASE m # h
      BY <1>1, <1>2, <3>1, <3>3
    <3> QED BY <3>2, <3>3
  <2> QED BY <2>1, <2>2 DEF Listing
<1>5. Enclosed(g, ou2, got2)
  <2>1. ASSUME NEW k \in DOMAIN ou2, NEW m \in g.heads, ou2[k] = m
        PROVE  m \in DOMAIN got2 /\ g.red[m] /\ k \in g.nat[m] /\ k # m
    <3>1. CASE k \in DOMAIN ou
      <4>1. ou[k] = m /\ m \in g.heads
        BY <1>1, <2>1, <3>1
      <4>2. Enclosed(g, ou, got)
        BY DEF Nesting
      <4> QED BY ONLY <1>0, <3>1, <4>1, <4>2 DEF Enclosed
    <3>2. CASE k = l
      BY <1>1, <2>1, <3>2
    <3> QED BY <1>1, <3>1, <3>2
  <2> QED BY <2>1 DEF Enclosed
<1>6. Covered(g, lo, ou2, got2)
  <2> SUFFICES ASSUME NEW m \in DOMAIN got2, g.red[m], NEW y \in got2[m]
               PROVE  CoveredBy(g, lo, ou2, m, y)
    BY DEF Covered
  <2>1. CASE y \in got[m]
    <3>1. CoveredBy(g, lo, ou, m, y)
      BY <2>1 DEF Nesting, Covered
    <3> QED BY <1>1, <3>1 DEF CoveredBy
  <2>2. CASE y \notin got[m]
    <3>1. m = h /\ y = x
      BY <2>2
    <3>2. g.pos[h] <= g.pos[h]
      BY DEF IsNest
    <3> QED BY <1>1, <3>1, <3>2 DEF CoveredBy
  <2> QED BY <2>1, <2>2
<1> QED BY <1>3, <1>4, <1>5, <1>6 DEF Nesting

(* One of a loop that has an outer one is inside as it is.                   *)
LEMMA NestedStays ==
    ASSUME NEW g, IsNest(g),
           NEW lo, NEW ou, NEW bo, NEW got, Nesting(g, lo, ou, bo, got), NoRoot(g, lo, ou),
           NEW h \in DOMAIN got, Ahead(g, got, h),
           NEW x \in DOMAIN lo, NEW l, l = lo[x], l \in g.heads, g.pos[l] <= g.pos[h],
           l \in DOMAIN ou,
           NEW got2, Extends(got, got2, h, got[h] \cup {x})
    PROVE  Nesting(g, lo, ou, bo, got2)
<1> USE DEF Extends
<1>0. DOMAIN got2 = DOMAIN got
  OBVIOUS
<1>1. Assigned(g, lo, got2)
  <2> SUFFICES ASSUME NEW y \in DOMAIN lo, NEW m \in g.heads, lo[y] = m, y # m
               PROVE  m \in DOMAIN got2 /\ y \in got2[m]
    BY DEF Assigned
  <2>1. m \in DOMAIN got /\ y \in got[m]
    BY DEF Nesting, Assigned
  <2> QED BY <2>1
<1>2. Enclosed(g, ou, got2)
  BY DEF Nesting, Enclosed
<1>3. Covered(g, lo, ou, got2)
  <2> SUFFICES ASSUME NEW m \in DOMAIN got2, g.red[m], NEW y \in got2[m]
               PROVE  CoveredBy(g, lo, ou, m, y)
    BY DEF Covered
  <2>1. CASE y \in got[m]
    BY <2>1 DEF Nesting, Covered
  <2>2. CASE y \notin got[m]
    <3>1. m = h /\ y = x
      BY <2>2
    <3>2. ou[l] \in g.heads
      BY DEF NoRoot
    <3>3. ou[l] \in DOMAIN got
      BY <3>2 DEF Nesting, Enclosed
    <3>4. g.pos[ou[l]] <= g.pos[h]
      BY <3>3 DEF Ahead
    <3> QED BY <3>1, <3>2, <3>4 DEF CoveredBy
  <2> QED BY <2>1, <2>2
<1> QED BY <1>1, <1>2, <1>3 DEF Nesting

-----------------------------------------------------------------------------
(* What a walk does.  It begins with the sources.                            *)
LEMMA WalkBegins ==
    ASSUME NEW g, IsNest(g), NEW h \in g.heads, NEW srcs \in Seq(g.nodes),
           ToSet(srcs) = g.src[h],
           NEW wk, wk = [i \in DOMAIN srcs |-> [node |-> srcs[i], first |-> 1]]
    PROVE  /\ IsWalk(g, wk, g.src[h])
           /\ Natural(g) /\ Orderly(g) => Walking(g, h, wk, g.src[h])
<1>1. DOMAIN wk = DOMAIN srcs /\ DOMAIN srcs = 1 .. Len(srcs) /\ Len(srcs) \in Nat
      /\ \A k \in DOMAIN srcs : wk[k] = [node |-> srcs[k], first |-> 1] /\ srcs[k] \in g.nodes
  OBVIOUS
<1>2. \A k \in 1 .. Len(srcs) : wk[k] \in [node : g.nodes, first : Nat \ {0}]
  BY <1>1
<1>3. wk \in Seq([node : g.nodes, first : Nat \ {0}])
  BY <1>1, <1>2
<1>4. \A k \in DOMAIN wk : wk[k].node \in g.src[h]
  BY <1>1 DEF ToSet
<1>5. ASSUME NEW x \in g.src[h] PROVE Passing(g, h, wk, g.src[h], x)
  <2>1. PICK k \in DOMAIN srcs : srcs[k] = x
    BY DEF ToSet
  <2>2. wk[k].node = x /\ 1 .. wk[k].first - 1 = {}
    BY <1>1, <2>1
  <2> QED BY <1>1, <2>1, <2>2 DEF Passing
<1>6. IsWalk(g, wk, g.src[h])
  BY <1>3 DEF IsWalk, IsNest
<1>7. ASSUME Natural(g), Orderly(g) PROVE g.src[h] \subseteq g.nat[h] /\ h \notin g.src[h]
  BY <1>7 DEF Natural, ClosedAround, Orderly
<1> QED BY <1>4, <1>5, <1>6, <1>7 DEF Walking

(* It meets the first predecessor of the top that it has not visited: that   *)
(* is in the natural loop and has a frame.                                   *)
LEMMA FrameMeets ==
    ASSUME NEW g, IsNest(g), NEW h \in g.heads, NEW wk, NEW wd, IsWalk(g, wk, wd), wk # << >>,
           NEW top, top = wk[Len(wk)], NEW ps, ps = g.preds[top.node],
           NEW i \in top.first .. Len(ps), NEW x, x = ps[i], x \notin Met(g, h, wd),
           \A j \in top.first .. Len(ps) : j < i => ps[j] \in Met(g, h, wd),
           NEW wk2, wk2 = [wk EXCEPT ![Len(wk)].first = i + 1] \o <<[node |-> x, first |-> 1]>>
    PROVE  /\ x \in g.nodes /\ IsWalk(g, wk2, wd \cup {x})
           /\ Natural(g) /\ Walking(g, h, wk, wd) =>
                 x \in g.nat[h] /\ Walking(g, h, wk2, wd \cup {x})
<1>1. PICK F : F = [node : g.nodes, first : Nat \ {0}]
  OBVIOUS
<1>2. wk \in Seq(F) /\ wd \subseteq g.nodes
  BY <1>1 DEF IsWalk
<1>3. PICK n : n = Len(wk)
  OBVIOUS
<1>4. n \in Nat \ {0} /\ DOMAIN wk = 1 .. n /\ n \in 1 .. n
  BY <1>2, <1>3
<1>5. wk[n] \in F
  BY <1>2, <1>4
<1>6. top \in F /\ top.node \in g.nodes /\ top.first \in Nat \ {0}
  BY <1>1, <1>3, <1>5
<1>7. ps \in Seq(g.nodes) /\ i \in DOMAIN ps /\ i \in Nat \ {0}
  <2>1. ps \in Seq(g.nodes)
    BY <1>6 DEF IsNest
  <2> QED BY <1>6, <2>1
<1>8. x \in g.nodes
  BY <1>7
<1>9. PICK up : up = [wk EXCEPT ![n].first = i + 1]
  OBVIOUS
<1>10. PICK f : f = [node |-> x, first |-> 1]
  OBVIOUS
<1>11. up[n] = [node |-> top.node, first |-> i + 1] /\ DOMAIN up = 1 .. n
       /\ \A k \in 1 .. n : k # n => up[k] = wk[k]
  BY <1>1, <1>3, <1>4, <1>6, <1>9
<1>12. up \in Seq(F) /\ f \in F /\ Len(up) = n
  <2>1. \A k \in 1 .. n : wk[k] \in F
    BY <1>2, <1>4
  <2>2. up[n] \in F
    BY <1>1, <1>6, <1>7, <1>11
  <2>3. \A k \in 1 .. n : up[k] \in F
    BY <1>11, <2>1, <2>2
  <2>4. up \in [1 .. n -> F]
    <3>1. up = [k \in 1 .. n |-> up[k]]
      BY <1>4, <1>9
    <3> QED BY <2>3, <3>1
  <2>5. f \in F
    BY <1>1, <1>8, <1>10
  <2>6. up \in Seq(F)
    BY <1>4, <2>4
  <2> QED BY <1>4, <1>11, <2>5, <2>6
<1>13. wk2 = up \o <<f>>
  BY <1>3, <1>9, <1>10
<1>14. wk2 \in Seq(F) /\ DOMAIN wk2 = 1 .. n + 1
       /\ (\A k \in 1 .. n : wk2[k] = up[k]) /\ wk2[n + 1] = f
  <2>1. <<f>> \in Seq(F) /\ Len(<<f>>) = 1 /\ <<f>>[1] = f
    BY <1>12
  <2>2. PICK v : v = <<f>>
    OBVIOUS
  <2>3. v \in Seq(F) /\ Len(v) = 1 /\ v[1] = f /\ wk2 = up \o v
    BY <1>13, <2>1, <2>2
  <2>4. /\ up \o v \in Seq(F) /\ Len(up \o v) = n + 1
        /\ \A k \in 1 .. n + 1 : (up \o v)[k] = IF k <= n THEN up[k] ELSE v[k - n]
    BY <1>4, <1>12, <2>3
  <2>5. (up \o v)[n + 1] = f
    <3>1. n + 1 \in 1 .. n + 1 /\ ~(n + 1 <= n) /\ (n + 1) - n = 1
      BY <1>4
    <3> QED BY <2>3, <2>4, <3>1
  <2>6. \A k \in 1 .. n : (up \o v)[k] = up[k]
    <3>1. \A k \in 1 .. n : k \in 1 .. n + 1 /\ k <= n
      BY <1>4
    <3> QED BY <2>4, <3>1
  <2>7. PICK u : u = up \o v
    OBVIOUS
  <2>8. u \in Seq(F) /\ Len(u) = n + 1
    BY <2>4, <2>7
  <2>9. DOMAIN u = 1 .. n + 1
    BY <2>8
  <2>10. wk2 = u
    BY <2>3, <2>7
  <2>11. \A k \in 1 .. n : u[k] = up[k]
    BY <2>6, <2>7
  <2>12. u[n + 1] = f
    BY <2>5, <2>7
  <2> QED BY <2>8, <2>9, <2>10, <2>11, <2>12
<1>15. IsWalk(g, wk2, wd \cup {x})
  BY <1>1, <1>2, <1>8, <1>14 DEF IsWalk
<1>0. /\ h \in g.heads /\ x = ps[i] /\ x \notin Met(g, h, wd)
      /\ ps = g.preds[top.node] /\ i \in top.first .. Len(ps)
  OBVIOUS
<1>16. ASSUME Natural(g), Walking(g, h, wk, wd)
       PROVE  x \in g.nat[h] /\ Walking(g, h, wk2, wd \cup {x})
  <2>1. top.node \in wd /\ wd \subseteq g.nat[h] /\ h \notin wd /\ g.src[h] \subseteq wd
    BY <1>3, <1>4, <1>16 DEF Walking
  <2>2. x \in ToSet(g.preds[top.node])
    BY <1>7 DEF ToSet
  <2>3. x \in g.nat[h]
    BY ONLY <1>0, <1>16, <2>1, <2>2 DEF Natural, ClosedAround
  <2>4. x # h
    BY DEF Met
  <2>5. ASSUME NEW k \in 1 .. n + 1 PROVE wk2[k].node \in wd \cup {x}
    <3>1. CASE k = n + 1
      BY ONLY <1>10, <1>14, <3>1
    <3>2. CASE k = n
      BY ONLY <1>4, <1>11, <1>14, <2>1, <3>2
    <3>3. CASE k # n /\ k # n + 1
      <4>1. k \in 1 .. n
        BY <1>4, <3>3
      <4>2. wk2[k] = wk[k] /\ wk[k].node \in wd
        BY <1>4, <1>11, <1>14, <1>16, <3>3, <4>1 DEF Walking
      <4> QED BY <4>2
    <3> QED BY <3>1, <3>2, <3>3
  <2>6. ASSUME NEW y \in wd \cup {x} PROVE Passing(g, h, wk2, wd \cup {x}, y)
    <3>1. \A z : z \in Met(g, h, wd) => z \in Met(g, h, wd \cup {x})
      BY DEF Met
    <3>2. CASE y = x /\ y \notin wd
      <4>1. n + 1 \in DOMAIN wk2 /\ wk2[n + 1].node = y /\ wk2[n + 1].first = 1
        BY ONLY <1>4, <1>10, <1>14, <3>2
      <4>2. 1 .. wk2[n + 1].first - 1 = {}
        BY ONLY <4>1
      <4> QED BY <4>1, <4>2 DEF Passing
    <3>3. CASE y \in wd /\ ToSet(g.preds[y]) \subseteq Met(g, h, wd)
      BY <3>1, <3>3 DEF Passing
    <3>4. CASE y \in wd /\ ~(ToSet(g.preds[y]) \subseteq Met(g, h, wd))
      <4>1. Passing(g, h, wk, wd, y)
        BY <1>16, <3>4 DEF Walking
      <4>2. PICK k \in DOMAIN wk :
              /\ wk[k].node = y
              /\ \A j \in 1 .. wk[k].first - 1 :
                    j \in DOMAIN g.preds[y] => g.preds[y][j] \in Met(g, h, wd)
        BY <3>4, <4>1 DEF Passing
      <4>3. CASE k # n
        <5>1. wk2[k] = wk[k] /\ k \in DOMAIN wk2
          <6>1. k \in 1 .. n /\ k \in 1 .. n + 1
            BY ONLY <1>4, <4>2
          <6> QED BY <1>11, <1>14, <4>3, <6>1
        <5>2. \A j \in 1 .. wk2[k].first - 1 :
                j \in DOMAIN g.preds[y] => g.preds[y][j] \in Met(g, h, wd \cup {x})
          BY <3>1, <4>2, <5>1
        <5> QED BY <4>2, <5>1, <5>2 DEF Passing
      <4>4. CASE k = n
        <5>1. y = top.node /\ wk[k] = top
          BY <1>3, <4>2, <4>4
        <5>2. wk2[n].node = y /\ wk2[n].first = i + 1 /\ n \in DOMAIN wk2
          <6>1. n \in 1 .. n + 1
            BY ONLY <1>4
          <6> QED BY ONLY <1>4, <1>11, <1>14, <5>1, <6>1
        <5>3. ASSUME NEW j \in 1 .. wk2[n].first - 1, j \in DOMAIN g.preds[y]
              PROVE  g.preds[y][j] \in Met(g, h, wd \cup {x})
          <6>0. j \in 1 .. i
            BY ONLY <1>7, <5>2, <5>3
          <6>1. CASE j = i
            BY <5>1, <6>1 DEF Met
          <6>2. CASE j < top.first
            <7>1. j \in 1 .. wk[k].first - 1
              BY ONLY <1>6, <5>1, <6>0, <6>2
            <7> QED BY <3>1, <4>2, <5>3, <7>1
          <6>3. CASE ~(j < top.first) /\ j # i
            <7>1. j \in top.first .. Len(ps) /\ j < i
              BY ONLY <1>0, <1>6, <1>7, <6>0, <6>3
            <7>2. ps[j] \in Met(g, h, wd)
              BY <7>1
            <7> QED BY <3>1, <5>1, <7>2
          <6> QED BY <6>1, <6>2, <6>3
        <5>4. \A j \in 1 .. wk2[n].first - 1 :
                j \in DOMAIN g.preds[y] => g.preds[y][j] \in Met(g, h, wd \cup {x})
          BY ONLY <5>3
        <5> QED BY ONLY <5>2, <5>4 DEF Passing
      <4> QED BY <4>3, <4>4
    <3> QED BY <3>2, <3>3, <3>4
  <2> QED BY <1>14, <2>1, <2>3, <2>4, <2>5, <2>6 DEF Walking
<1> QED BY <1>8, <1>15, <1>16

(* The step, whatever is on the stack.                                       *)
Meets(g, h, wk, wd, x, wk2) ==
    \E top, ps : \E i \in top.first .. Len(ps) :
        /\ wk # << >> /\ top = wk[Len(wk)] /\ ps = g.preds[top.node]
        /\ x = ps[i] /\ x \notin Met(g, h, wd)
        /\ \A j \in top.first .. Len(ps) : j < i => ps[j] \in Met(g, h, wd)
        /\ wk2 = [wk EXCEPT ![Len(wk)].first = i + 1] \o <<[node |-> x, first |-> 1]>>

(* It does so.                                                               *)
LEMMA WalkMeets ==
    ASSUME NEW g, IsNest(g), NEW h \in g.heads, NEW wk, NEW wd, IsWalk(g, wk, wd),
           NEW x, NEW wk2, Meets(g, h, wk, wd, x, wk2)
    PROVE  /\ x \in g.nodes /\ IsWalk(g, wk2, wd \cup {x})
           /\ Natural(g) /\ Walking(g, h, wk, wd) =>
                 x \in g.nat[h] /\ Walking(g, h, wk2, wd \cup {x})
<1>1. PICK top, ps : \E i \in top.first .. Len(ps) :
        /\ wk # << >> /\ top = wk[Len(wk)] /\ ps = g.preds[top.node]
        /\ x = ps[i] /\ x \notin Met(g, h, wd)
        /\ \A j \in top.first .. Len(ps) : j < i => ps[j] \in Met(g, h, wd)
        /\ wk2 = [wk EXCEPT ![Len(wk)].first = i + 1] \o <<[node |-> x, first |-> 1]>>
  BY DEF Meets
<1>2. PICK i \in top.first .. Len(ps) :
        /\ wk # << >> /\ top = wk[Len(wk)] /\ ps = g.preds[top.node]
        /\ x = ps[i] /\ x \notin Met(g, h, wd)
        /\ \A j \in top.first .. Len(ps) : j < i => ps[j] \in Met(g, h, wd)
        /\ wk2 = [wk EXCEPT ![Len(wk)].first = i + 1] \o <<[node |-> x, first |-> 1]>>
  BY <1>1
<1>3. /\ x \in g.nodes /\ IsWalk(g, wk2, wd \cup {x})
      /\ Natural(g) /\ Walking(g, h, wk, wd) =>
            x \in g.nat[h] /\ Walking(g, h, wk2, wd \cup {x})
  <2> USE <1>2
  <2>1. wk # << >> /\ x \notin Met(g, h, wd)
    OBVIOUS
  <2>2. top = wk[Len(wk)]
    OBVIOUS
  <2>3. ps = g.preds[top.node] /\ x = ps[i]
    OBVIOUS
  <2>4. \A j \in top.first .. Len(ps) : j < i => ps[j] \in Met(g, h, wd)
    OBVIOUS
  <2>5. wk2 = [wk EXCEPT ![Len(wk)].first = i + 1] \o <<[node |-> x, first |-> 1]>>
    OBVIOUS
  <2> QED BY <2>1, <2>2, <2>3, <2>4, <2>5, FrameMeets
<1> QED BY <1>3

(* It leaves the top when all its predecessors are visited.                  *)
LEMMA WalkLeaves ==
    ASSUME NEW g, IsNest(g), NEW h \in g.heads, NEW wk, NEW wd, IsWalk(g, wk, wd), wk # << >>,
           NEW top, top = wk[Len(wk)], NEW ps, ps = g.preds[top.node],
           \A j \in top.first .. Len(ps) : ps[j] \in Met(g, h, wd),
           NEW wk2, wk2 = Front(wk)
    PROVE  /\ IsWalk(g, wk2, wd)
           /\ Walking(g, h, wk, wd) => Walking(g, h, wk2, wd)
<1>1. PICK F : F = [node : g.nodes, first : Nat \ {0}]
  OBVIOUS
<1>2. wk \in Seq(F) /\ wd \subseteq g.nodes
  BY <1>1 DEF IsWalk
<1>3. PICK n : n = Len(wk)
  OBVIOUS
<1>4. n \in Nat \ {0} /\ DOMAIN wk = 1 .. n /\ n \in 1 .. n
  BY <1>2, <1>3
<1>5. wk2 = SubSeq(wk, 1, n - 1)
  BY <1>3 DEF Front
<1>6. wk2 \in Seq(F) /\ DOMAIN wk2 = 1 .. n - 1 /\ \A k \in 1 .. n - 1 : wk2[k] = wk[k]
  BY <1>2, <1>3, <1>4, <1>5
<1>7. ASSUME Walking(g, h, wk, wd) PROVE Walking(g, h, wk2, wd)
  <2>1. \A k \in DOMAIN wk2 : wk2[k].node \in wd
    <3>1. \A k \in 1 .. n - 1 : k \in 1 .. n
      BY <1>4
    <3> QED BY <1>4, <1>6, <1>7, <3>1 DEF Walking
  <2>2. ASSUME NEW y \in wd PROVE Passing(g, h, wk2, wd, y)
    <3> SUFFICES ASSUME ~(ToSet(g.preds[y]) \subseteq Met(g, h, wd))
                 PROVE  Passing(g, h, wk2, wd, y)
      BY DEF Passing
    <3>1. Passing(g, h, wk, wd, y)
      BY <1>7 DEF Walking
    <3>2. PICK k \in DOMAIN wk :
            /\ wk[k].node = y
            /\ \A j \in 1 .. wk[k].first - 1 :
                  j \in DOMAIN g.preds[y] => g.preds[y][j] \in Met(g, h, wd)
      BY <3>1 DEF Passing
    <3>3. k # n
      <4> SUFFICES ASSUME k = n PROVE FALSE
        OBVIOUS
      <4>1. wk[k] = top /\ g.preds[y] = ps /\ y \in g.nodes
        BY <1>2, <1>3, <3>2
      <4>2. ps \in Seq(g.nodes)
        BY <4>1 DEF IsNest
      <4>3. top.first \in Nat \ {0}
        <5>1. wk[n] \in F
          BY <1>2, <1>4
        <5> QED BY <1>1, <1>3, <5>1
      <4>4. ASSUME NEW j \in DOMAIN ps PROVE ps[j] \in Met(g, h, wd)
        <5>1. j \in 1 .. Len(ps) /\ Len(ps) \in Nat
          BY <4>2
        <5>2. j \in 1 .. top.first - 1 \/ j \in top.first .. Len(ps)
          BY <4>3, <5>1
        <5> QED BY <3>2, <4>1, <5>2
      <4> QED BY <4>1, <4>4 DEF ToSet
    <3>4. k \in DOMAIN wk2 /\ wk2[k] = wk[k]
      <4>1. k \in 1 .. n - 1
        BY <1>4, <3>2, <3>3
      <4> QED BY <1>6, <4>1
    <3> QED BY <3>2, <3>4 DEF Passing
  <2> QED BY <1>7, <2>1, <2>2 DEF Walking
<1> QED BY <1>1, <1>2, <1>6, <1>7 DEF IsWalk

(* When nothing is left to leave, it has met the natural loop.               *)
LEMMA WalkDone ==
    ASSUME NEW g, IsNest(g), Natural(g), NEW h \in g.heads, NEW wd, wd \subseteq g.nodes,
           Walking(g, h, << >>, wd)
    PROVE  wd = g.nat[h] \ {h}
<1>1. g.src[h] \subseteq wd /\ wd \subseteq g.nat[h] /\ h \notin wd /\ h \in g.nodes
  BY DEF Walking, IsNest
<1>2. \A x \in wd : ToSet(g.preds[x]) \subseteq wd \cup {h}
  <2>1. ASSUME NEW x \in wd PROVE Passing(g, h, << >>, wd, x)
    BY DEF Walking
  <2>2. DOMAIN << >> = {}
    OBVIOUS
  <2> QED BY <2>1, <2>2 DEF Passing, Met
<1>3. ClosedAround(g, h, wd \cup {h}) /\ wd \cup {h} \in SUBSET g.nodes
  BY <1>1, <1>2 DEF ClosedAround
<1>4. g.nat[h] \subseteq wd \cup {h}
  BY <1>3 DEF Natural
<1> QED BY <1>1, <1>4

-----------------------------------------------------------------------------
(* The maps stay maps: when nodes are given to a loop,                       *)
LEMMA MapsGive ==
    ASSUME NEW g, NEW lo, NEW ou, NEW bo, AreMaps(g, lo, ou, bo),
           NEW K, K \subseteq g.nodes, NEW h \in g.heads \cup {RootLoop},
           NEW lo2, lo2 = Emplaced(lo, K, h)
    PROVE  /\ AreMaps(g, lo2, ou, bo)
           /\ NoRoot(g, lo, ou) /\ h \in g.heads => NoRoot(g, lo2, ou)
<1>1. /\ DOMAIN lo2 = DOMAIN lo \cup K
      /\ \A x \in DOMAIN lo : lo2[x] = lo[x]
      /\ \A x \in K \ DOMAIN lo : lo2[x] = h
      /\ lo2 = [x \in DOMAIN lo2 |-> lo2[x]]
  BY DEF Emplaced
<1>2. /\ g.heads \subseteq DOMAIN lo /\ DOMAIN lo \subseteq g.nodes
      /\ \A l \in g.heads : lo[l] = l
      /\ \A x \in DOMAIN lo : lo[x] \in g.heads \cup {RootLoop}
  BY DEF AreMaps
<1>3. ASSUME NEW x \in DOMAIN lo2 PROVE lo2[x] \in g.heads \cup {RootLoop}
  <2>1. CASE x \in DOMAIN lo
    BY <1>1, <1>2, <2>1
  <2>2. CASE x \notin DOMAIN lo
    BY <1>1, <2>2
  <2> QED BY <2>1, <2>2
<1>4. lo2 \in [DOMAIN lo2 -> g.heads \cup {RootLoop}]
  BY <1>1, <1>3
<1>5. g.heads \subseteq DOMAIN lo2 /\ DOMAIN lo2 \subseteq g.nodes
      /\ \A l \in g.heads : lo2[l] = l
  BY <1>1, <1>2
<1>6. AreMaps(g, lo2, ou, bo)
  BY <1>4, <1>5 DEF AreMaps
<1>7. ASSUME NoRoot(g, lo, ou), h \in g.heads, NEW x \in DOMAIN lo2 PROVE lo2[x] \in g.heads
  <2>1. CASE x \in DOMAIN lo
    BY <1>1, <1>7, <2>1 DEF NoRoot
  <2>2. CASE x \notin DOMAIN lo
    BY <1>1, <1>7, <2>2
  <2> QED BY <2>1, <2>2
<1> QED BY <1>6, <1>7 DEF NoRoot

(* when loops are nested in one,                                             *)
LEMMA MapsNest ==
    ASSUME NEW g, NEW lo, NEW ou, NEW bo, AreMaps(g, lo, ou, bo),
           NEW K, K \subseteq g.heads, NEW h \in g.heads \cup {RootLoop},
           NEW ou2, ou2 = Emplaced(ou, K, h)
    PROVE  /\ AreMaps(g, lo, ou2, bo)
           /\ NoRoot(g, lo, ou) /\ h \in g.heads => NoRoot(g, lo, ou2)
<1>1. /\ DOMAIN ou2 = DOMAIN ou \cup K
      /\ \A x \in DOMAIN ou : ou2[x] = ou[x]
      /\ \A x \in K \ DOMAIN ou : ou2[x] = h
      /\ ou2 = [x \in DOMAIN ou2 |-> ou2[x]]
  BY DEF Emplaced
<1>2. /\ DOMAIN ou \subseteq g.heads
      /\ \A x \in DOMAIN ou : ou[x] \in g.heads \cup {RootLoop}
  BY DEF AreMaps
<1>3. ASSUME NEW x \in DOMAIN ou2 PROVE ou2[x] \in g.heads \cup {RootLoop}
  <2>1. CASE x \in DOMAIN ou
    BY <1>1, <1>2, <2>1
  <2>2. CASE x \notin DOMAIN ou
    BY <1>1, <2>2
  <2> QED BY <2>1, <2>2
<1>4. ou2 \in [DOMAIN ou2 -> g.heads \cup {RootLoop}]
  BY <1>1, <1>3
<1>5. DOMAIN ou2 \subseteq g.heads
  BY <1>1, <1>2
<1>6. AreMaps(g, lo, ou2, bo)
  BY <1>4, <1>5 DEF AreMaps
<1>7. ASSUME NoRoot(g, lo, ou), h \in g.heads, NEW x \in DOMAIN ou2 PROVE ou2[x] \in g.heads
  <2>1. CASE x \in DOMAIN ou
    BY <1>1, <1>7, <2>1 DEF NoRoot
  <2>2. CASE x \notin DOMAIN ou
    BY <1>1, <1>7, <2>2
  <2> QED BY <2>1, <2>2
<1> QED BY <1>6, <1>7 DEF NoRoot

(* when an item is added to a body,                                          *)
LEMMA MapsAdd ==
    ASSUME NEW g, NEW lo, NEW ou, NEW bo, AreMaps(g, lo, ou, bo), NEW h \in g.heads,
           NEW item \in Items(g), NEW bo2, bo2 = [bo EXCEPT ![h] = Append(@, item)]
    PROVE  AreMaps(g, lo, ou, bo2) /\ DOMAIN bo2 = DOMAIN bo
<1>1. g.heads \subseteq DOMAIN bo /\ bo \in [DOMAIN bo -> Seq(Items(g))]
  BY DEF AreMaps
<1>2. Append(bo[h], item) \in Seq(Items(g))
  BY <1>1
<1>3. bo2 \in [DOMAIN bo -> Seq(Items(g))]
  BY <1>1, <1>2
<1> QED BY <1>1, <1>3 DEF AreMaps

(* and when the root has a body.                                             *)
LEMMA MapsRoot ==
    ASSUME NEW g, NEW lo, NEW ou, NEW bo, AreMaps(g, lo, ou, bo),
           NEW items \in Seq(Items(g)), NEW bo2, bo2 = Emplaced(bo, {RootLoop}, items)
    PROVE  AreMaps(g, lo, ou, bo2)
<1>1. g.heads \subseteq DOMAIN bo /\ bo \in [DOMAIN bo -> Seq(Items(g))]
  BY DEF AreMaps
<1>2. /\ DOMAIN bo2 = DOMAIN bo \cup {RootLoop}
      /\ \A x \in DOMAIN bo : bo2[x] = bo[x]
      /\ RootLoop \notin DOMAIN bo => bo2[RootLoop] = items
      /\ bo2 = [x \in DOMAIN bo2 |-> bo2[x]]
  BY DEF Emplaced
<1>3. ASSUME NEW x \in DOMAIN bo2 PROVE bo2[x] \in Seq(Items(g))
  <2>1. CASE x \in DOMAIN bo
    BY <1>1, <1>2, <2>1
  <2>2. CASE x \notin DOMAIN bo
    BY <1>2, <2>2
  <2> QED BY <2>1, <2>2
<1>4. bo2 \in [DOMAIN bo2 -> Seq(Items(g))] /\ g.heads \subseteq DOMAIN bo2
  BY <1>1, <1>2, <1>3
<1> QED BY <1>4 DEF AreMaps

(* The root loop disturbs no nesting.                                        *)
LEMMA RootFills ==
    ASSUME NEW g, RootLoop \notin g.heads, NEW lo, NEW ou, NEW bo, NEW got,
           Nesting(g, lo, ou, bo, got),
           NEW K, NEW lo2, lo2 = Emplaced(lo, K, RootLoop),
           NEW T, NEW ou2, ou2 = Emplaced(ou, T, RootLoop),
           NEW bo2, \A m \in g.heads : bo2[m] = bo[m]
    PROVE  Nesting(g, lo2, ou2, bo2, got)
<1>1. /\ DOMAIN lo2 = DOMAIN lo \cup K
      /\ \A x \in DOMAIN lo : lo2[x] = lo[x]
      /\ \A x \in K \ DOMAIN lo : lo2[x] = RootLoop
  BY DEF Emplaced
<1>2. /\ DOMAIN ou2 = DOMAIN ou \cup T
      /\ \A x \in DOMAIN ou : ou2[x] = ou[x]
      /\ \A x \in T \ DOMAIN ou : ou2[x] = RootLoop
  BY DEF Emplaced
<1>3. \A m \in g.heads : \A x : x \in DOMAIN lo2 /\ lo2[x] = m <=> x \in DOMAIN lo /\ lo[x] = m
  BY <1>1
<1>4. \A m \in g.heads : \A x : x \in DOMAIN ou2 /\ ou2[x] = m <=> x \in DOMAIN ou /\ ou[x] = m
  BY <1>2
<1>5. Assigned(g, lo2, got)
  <2>1. \A x \in DOMAIN lo : \A m \in g.heads :
           lo[x] = m /\ x # m => m \in DOMAIN got /\ x \in got[m]
    BY DEF Nesting, Assigned
  <2> QED BY <1>3, <2>1 DEF Assigned
<1>6. Listing(g, lo2, ou2, bo2)
  <2>1. ASSUME NEW m \in g.heads, NEW x \in g.nodes
        PROVE  Node(x) \in ToSet(bo2[m])
               <=> x \in g.src[m] \/ (x \in DOMAIN lo2 /\ lo2[x] = m /\ x # m)
    <3>1. Node(x) \in ToSet(bo[m])
          <=> x \in g.src[m] \/ (x \in DOMAIN lo /\ lo[x] = m /\ x # m)
      BY DEF Nesting, Listing
    <3> QED BY <1>3, <3>1
  <2>2. ASSUME NEW m \in g.heads, NEW l \in g.heads
        PROVE  Loop(l) \in ToSet(bo2[m]) <=> l \in DOMAIN ou2 /\ ou2[l] = m
    <3>1. Loop(l) \in ToSet(bo[m]) <=> l \in DOMAIN ou /\ ou[l] = m
      BY DEF Nesting, Listing
    <3> QED BY <1>4, <3>1
  <2> QED BY <2>1, <2>2 DEF Listing
<1>7. Enclosed(g, ou2, got)
  <2>1. \A l \in DOMAIN ou : \A m \in g.heads :
           ou[l] = m => m \in DOMAIN got /\ g.red[m] /\ l \in g.nat[m] /\ l # m
    BY DEF Nesting, Enclosed
  <2> QED BY <1>4, <2>1 DEF Enclosed
<1>8. Covered(g, lo2, ou2, got)
  <2> SUFFICES ASSUME NEW m \in DOMAIN got, g.red[m], NEW x \in got[m]
               PROVE  CoveredBy(g, lo2, ou2, m, x)
    BY DEF Covered
  <2>1. CoveredBy(g, lo, ou, m, x)
    BY DEF Nesting, Covered
  <2> QED BY <1>1, <1>2, <2>1 DEF CoveredBy
<1> QED BY <1>5, <1>6, <1>7, <1>8 DEF Nesting

-----------------------------------------------------------------------------
(* The loops in the order in which they are populated: each once, and one    *)
(* after all that are finished before it.                                    *)
LEMMA OrderFacts ==
    ASSUME TreeInv, phase = "done"
    PROVE  /\ LoopHeadPostOrder \in Seq(Heads) /\ ToSet(LoopHeadPostOrder) = Heads
           /\ Len(LoopHeadPostOrder) \in 0 .. Cardinality(Nodes)
           /\ \A i, j \in DOMAIN LoopHeadPostOrder :
                 i < j => Pos[LoopHeadPostOrder[i]] < Pos[LoopHeadPostOrder[j]]
<1>1. PICK s, T, t : s = postOrder /\ T = Heads /\ t = Selected(s, T)
  OBVIOUS
<1>2. s \in Seq(Nodes) /\ IsInjective(s) /\ ToSet(s) = Discovered /\ T \subseteq Discovered
      /\ IsFiniteSet(Nodes) /\ Cardinality(Nodes) \in Nat /\ Discovered \subseteq Nodes
  BY <1>1, SearchFacts, HeadFacts, GraphsAssumption, FS_CardinalityType DEF IsOrder
<1>3. t \in Seq(Nodes) /\ SelectedOf(s, T, Len(s), t)
  BY <1>1, <1>2, SelectedIs
<1>4. Len(s) \in Nat /\ DOMAIN s = 1 .. Len(s) /\ Len(t) \in Nat /\ DOMAIN t = 1 .. Len(t)
  BY <1>2, <1>3
<1>5. \A x : x \in ToSet(t) <=> x \in T
  <2>1. \A x : x \in ToSet(t) <=> \E m \in DOMAIN t : t[m] = x
    BY DEF ToSet
  <2>2. \A x : x \in ToSet(s) <=> \E a \in 1 .. Len(s) : s[a] = x
    BY <1>4 DEF ToSet
  <2>3. \A x : x \in ToSet(t) <=> x \in T /\ x \in ToSet(s)
    BY <1>3, <2>1, <2>2 DEF SelectedOf
  <2> QED BY <1>2, <2>3
<1>6. ASSUME NEW i \in DOMAIN t, NEW j \in DOMAIN t, i < j PROVE Pos[t[i]] < Pos[t[j]]
  <2>1. PICK a, b \in 1 .. Len(s) : a < b /\ s[a] = t[i] /\ s[b] = t[j]
    BY <1>3, <1>6 DEF SelectedOf
  <2>2. ASSUME NEW c \in 1 .. Len(s) PROVE Pos[s[c]] = c
    <3>1. s[c] \in Discovered
      BY <1>2, <1>4 DEF ToSet
    <3>2. Pos[s[c]] \in DOMAIN s /\ s[Pos[s[c]]] = s[c]
      BY <1>1, <3>1, PosFacts
    <3> QED BY <1>2, <1>4, <3>2 DEF IsInjective
  <2> QED BY <2>1, <2>2
<1>7. \A i \in 1 .. Len(t) : t[i] \in T
  BY <1>4, <1>5 DEF ToSet
<1>8. t \in Seq(T)
  BY <1>3, <1>4, <1>7
<1>9. IsOrder(t)
  <2>1. ASSUME NEW i \in DOMAIN t, NEW j \in DOMAIN t, t[i] = t[j], i # j PROVE FALSE
    <3>1. \A x \in T : Pos[x] \in Nat
      BY <1>2, PosFacts
    <3>2. i < j \/ j < i
      BY <1>4, <2>1
    <3>3. Pos[t[i]] \in Nat /\ Pos[t[j]] \in Nat
      BY <1>4, <1>7, <3>1
    <3> QED BY <1>6, <2>1, <3>2, <3>3
  <2> QED BY <1>3, <2>1 DEF IsOrder, IsInjective
<1>10. Len(t) \in 0 .. Cardinality(Nodes)
  BY <1>4, <1>9, TimesBounded
<1> QED BY <1>1, <1>5, <1>6, <1>8, <1>10 DEF LoopHeadPostOrder

(* What jumps back to a header is listed.                                    *)
LEMMA SourcesListed ==
    ASSUME TreeInv, phase = "done", NEW h
    PROVE  BackEdgesSrc(h) \in Seq(Discovered) /\ ToSet(BackEdgesSrc(h)) = Sources(h)
<1>1. PICK s, T, t : s = backEdges /\ T = {e \in ToSet(s) : e[2] = h} /\ t = Selected(s, T)
  OBVIOUS
<1>2. s \in Seq(Nodes \X Nodes)
  BY <1>1, SearchFacts DEF DfsTypeOK
<1>3. t \in Seq(Nodes \X Nodes) /\ SelectedOf(s, T, Len(s), t)
  BY <1>1, <1>2, SelectedIs
<1>4. Len(s) \in Nat /\ DOMAIN s = 1 .. Len(s) /\ Len(t) \in Nat /\ DOMAIN t = 1 .. Len(t)
  BY <1>2, <1>3
<1>5. \A x : (\E m \in DOMAIN t : t[m] = x) <=> x \in T
  <2>1. \A x : x \in ToSet(s) <=> \E a \in 1 .. Len(s) : s[a] = x
    BY <1>4 DEF ToSet
  <2>2. \A x : x \in T => x \in ToSet(s)
    BY <1>1
  <2>3. \A x : (\E m \in DOMAIN t : t[m] = x) <=> (x \in T /\ \E a \in 1 .. Len(s) : s[a] = x)
    BY <1>3 DEF SelectedOf
  <2> QED BY <2>1, <2>2, <2>3
<1>6. PICK src : src = BackEdgesSrc(h)
  OBVIOUS
<1>7. src = [i \in 1 .. Len(t) |-> t[i][1]]
  BY <1>1, <1>4, <1>6 DEF BackEdgesSrc
<1>8. \A x : x \in ToSet(src) <=> \E e \in T : e[1] = x
  <2>1. \A x : x \in ToSet(src) <=> \E m \in 1 .. Len(t) : t[m][1] = x
    BY <1>7 DEF ToSet
  <2> QED BY <1>4, <1>5, <2>1
<1>9. \A x : x \in Sources(h) <=> \E e \in T : e[1] = x
  BY <1>1 DEF Sources
<1>10. ToSet(src) = Sources(h)
  BY <1>8, <1>9
<1>11. Sources(h) \subseteq Discovered
  BY HeadFacts
<1>12. \A i \in 1 .. Len(t) : src[i] \in Discovered
  BY <1>7, <1>10, <1>11 DEF ToSet
<1>13. src \in Seq(Discovered)
  BY <1>4, <1>7, <1>12
<1> QED BY <1>6, <1>10, <1>13

-----------------------------------------------------------------------------
(* The loops begun come before those that are not, and none has been given   *)
(* what is not its own.                                                      *)
LEMMA GotAhead ==
    ASSUME NEW g, IsNest(g), NEW q, IsQueue(g, q), NEW n \in 1 .. Len(q), NEW st, NEW wd,
           st = "walk" => g.red[q[n]] /\ wd \subseteq g.nat[q[n]]
    PROVE  Ahead(g, Got(g, q, st, n, wd), q[n])
<1>1. PICK B, G : B = Begun(q, st, n) /\ G = Got(g, q, st, n, wd)
  OBVIOUS
<1>2. /\ q \in Seq(g.heads) /\ Len(q) \in Nat /\ DOMAIN q = 1 .. Len(q)
      /\ \A i, j \in DOMAIN q : i < j => g.pos[q[i]] < g.pos[q[j]]
      /\ (\A i \in DOMAIN q : q[i] \in g.heads)
      /\ \A x \in g.heads : g.pos[x] \in Nat
  BY DEF IsQueue, IsNest
<1>3. DOMAIN G = B /\ \A m \in B : G[m] = IF st = "walk" /\ m = q[n] THEN wd ELSE Content(g, m) \ {m}
  BY <1>1 DEF Got
<1>4. ASSUME NEW m \in B PROVE \E j \in DOMAIN q : q[j] = m /\ j <= n
  <2>1. PICK j \in 1 .. (IF st = "walk" THEN n ELSE n - 1) : q[j] = m
    BY <1>1 DEF Begun
  <2>2. j \in DOMAIN q /\ j <= n
    BY <1>2, <2>1
  <2> QED BY <2>1, <2>2
<1>5. B \subseteq g.heads
  BY <1>2, <1>4
<1>6. ASSUME NEW m \in B PROVE g.pos[m] <= g.pos[q[n]]
  <2>1. PICK j \in DOMAIN q : q[j] = m /\ j <= n
    BY <1>4
  <2>2. n \in DOMAIN q /\ (j < n \/ j = n)
    BY <1>2, <2>1
  <2>3. g.pos[q[j]] \in Nat /\ g.pos[q[n]] \in Nat
    BY <1>2, <2>2
  <2>4. j < n => g.pos[q[j]] < g.pos[q[n]]
    BY <1>2, <2>2
  <2> QED BY <2>1, <2>2, <2>3, <2>4
<1>7. ASSUME NEW m \in B PROVE G[m] \subseteq Content(g, m)
  <2>1. CASE st = "walk" /\ m = q[n]
    BY <1>3, <1>5, <2>1 DEF Content
  <2>2. CASE ~(st = "walk" /\ m = q[n])
    BY <1>3, <1>5, <2>2
  <2> QED BY <2>1, <2>2
<1>8. Ahead(g, G, q[n])
  BY <1>3, <1>5, <1>6, <1>7 DEF Ahead
<1> QED BY <1>1, <1>8

(* The loop at n is begun when it is walked and not before.                  *)
LEMMA GotHead ==
    ASSUME NEW g, IsNest(g), NEW q, IsQueue(g, q), NEW n \in 1 .. Len(q), NEW wd
    PROVE  q[n] \in DOMAIN Got(g, q, "walk", n, wd) /\ Got(g, q, "walk", n, wd)[q[n]] = wd
<1>1. q[n] \in Begun(q, "walk", n)
  BY DEF Begun, IsQueue
<1> QED BY <1>1 DEF Got

(* Not before:                                                               *)
LEMMA GotNotYet ==
    ASSUME NEW g, IsNest(g), NEW q, IsQueue(g, q), NEW n \in 1 .. Len(q), NEW wd
    PROVE  q[n] \notin DOMAIN Got(g, q, "populate", n, wd)
<1>1. /\ Len(q) \in Nat /\ DOMAIN q = 1 .. Len(q)
      /\ \A i, j \in DOMAIN q : i < j => g.pos[q[i]] < g.pos[q[j]]
      /\ (\A i \in DOMAIN q : q[i] \in g.heads)
      /\ \A x \in g.heads : g.pos[x] \in Nat
  BY DEF IsQueue, IsNest
<1> SUFFICES ASSUME q[n] \in DOMAIN Got(g, q, "populate", n, wd) PROVE FALSE
  OBVIOUS
<1>2. q[n] \in Begun(q, "populate", n)
  BY DEF Got
<1>3. "populate" # "walk"
  OBVIOUS
<1>4. PICK j \in 1 .. n - 1 : q[j] = q[n]
  BY <1>2, <1>3 DEF Begun
<1>5. j \in DOMAIN q /\ n \in DOMAIN q /\ j < n
  BY <1>1
<1>6. g.pos[q[j]] < g.pos[q[n]] /\ g.pos[q[n]] \in Nat
  BY <1>1, <1>5
<1> QED BY <1>4, <1>6

(* What has been given grows by what the loop at n is given first,           *)
LEMMA GotBegins ==
    ASSUME NEW g, IsNest(g), NEW q, IsQueue(g, q), NEW n \in 1 .. Len(q), NEW wd, NEW to
    PROVE  Extends(Got(g, q, "populate", n, wd), Got(g, q, "walk", n, to), q[n], to)
<1>1. n \in Nat \ {0} /\ "populate" # "walk"
  BY DEF IsQueue
<1>2. Begun(q, "walk", n) = {q[j] : j \in 1 .. n}
  BY DEF Begun
<1>3. Begun(q, "populate", n) = {q[j] : j \in 1 .. n - 1}
  BY <1>1 DEF Begun
<1>4. Begun(q, "walk", n) = Begun(q, "populate", n) \cup {q[n]}
  <2>1. \A j \in 1 .. n : j = n \/ j \in 1 .. n - 1
    BY <1>1
  <2>2. \A j \in 1 .. n - 1 : j \in 1 .. n
    BY <1>1
  <2>3. n \in 1 .. n
    BY <1>1
  <2> QED BY <1>2, <1>3, <2>1, <2>2, <2>3
<1>5. \A m \in Begun(q, "populate", n) \ {q[n]} :
         Got(g, q, "walk", n, to)[m] = Got(g, q, "populate", n, wd)[m]
  BY <1>1, <1>4 DEF Got
<1>6. /\ DOMAIN Got(g, q, "walk", n, to) = Begun(q, "walk", n)
      /\ DOMAIN Got(g, q, "populate", n, wd) = Begun(q, "populate", n)
  BY DEF Got
<1>7. Got(g, q, "walk", n, to)[q[n]] = to
  BY GotHead
<1> QED BY <1>4, <1>5, <1>6, <1>7 DEF Extends

(* then by what it meets.                                                    *)
LEMMA GotGrows ==
    ASSUME NEW g, IsNest(g), NEW q, IsQueue(g, q), NEW n \in 1 .. Len(q), NEW wd, NEW to
    PROVE  Extends(Got(g, q, "walk", n, wd), Got(g, q, "walk", n, to), q[n], to)
<1>1. q[n] \in Begun(q, "walk", n)
  BY DEF Begun, IsQueue
<1>2. /\ DOMAIN Got(g, q, "walk", n, to) = Begun(q, "walk", n)
      /\ DOMAIN Got(g, q, "walk", n, wd) = Begun(q, "walk", n)
  BY DEF Got
<1>3. \A m \in Begun(q, "walk", n) \ {q[n]} :
         Got(g, q, "walk", n, to)[m] = Got(g, q, "walk", n, wd)[m]
  BY DEF Got
<1>4. Got(g, q, "walk", n, to)[q[n]] = to
  BY <1>1 DEF Got
<1> QED BY <1>1, <1>2, <1>3, <1>4 DEF Extends

(* In the end it has all its content.                                        *)
LEMMA GotEnds ==
    ASSUME NEW g, NEW q, IsQueue(g, q), NEW n \in 1 .. Len(q), NEW wd, NEW to,
           to = Content(g, q[n]) \ {q[n]}
    PROVE  Got(g, q, "populate", n + 1, wd) = Got(g, q, "walk", n, to)
<1>1. n \in Nat \ {0} /\ "populate" # "walk" /\ (n + 1) - 1 = n
  BY DEF IsQueue
<1>2. Begun(q, "populate", n + 1) = Begun(q, "walk", n)
  BY <1>1 DEF Begun
<1> QED BY <1>1, <1>2 DEF Got

-----------------------------------------------------------------------------
(* What the steps of the constructor do.  Populate gives the next loop its   *)
(* sources and starts to walk,                                               *)
LEMMA PopulateWalks ==
    ASSUME NEW g, IsNest(g), Natural(g), NEW q, IsQueue(g, q), NEW n \in 1 .. Len(q),
           NEW lo, NEW ou, NEW bo, NEW wk, NEW wd,
           Populating(g, q, "populate", n, lo, ou, bo, wk, wd), NEW h, h = q[n], g.red[h],
           NEW srcs \in Seq(g.nodes), ToSet(srcs) = g.src[h],
           NEW lo2, lo2 = Emplaced(lo, g.src[h], h),
           NEW wk2, wk2 = [i \in DOMAIN srcs |-> [node |-> srcs[i], first |-> 1]]
    PROVE  /\ Populating(g, q, "walk", n, lo2, ou, bo, wk2, g.src[h])
           /\ Orderly(g) /\ Nested(g, q, "populate", n, lo, ou, bo, wk, wd) =>
                 Nested(g, q, "walk", n, lo2, ou, bo, wk2, g.src[h])
<1>1. "populate" # "walk" /\ "populate" # "loops" /\ "walk" # "loops" /\ "walk" # "populate"
  OBVIOUS
<1>2. h \in g.heads /\ n \in 1 .. Len(q) + 1 /\ n <= Len(q) /\ g.src[h] \subseteq g.nodes
  BY DEF IsQueue, IsNest
<1>3. AreMaps(g, lo, ou, bo) /\ NoRoot(g, lo, ou) /\ DOMAIN bo = g.heads
  BY <1>1 DEF Populating
<1>4. AreMaps(g, lo2, ou, bo) /\ NoRoot(g, lo2, ou)
  BY <1>2, <1>3, MapsGive
<1>5. /\ IsWalk(g, wk2, g.src[h])
      /\ Natural(g) /\ Orderly(g) => Walking(g, h, wk2, g.src[h])
  BY <1>2, WalkBegins
<1>6. Populating(g, q, "walk", n, lo2, ou, bo, wk2, g.src[h])
  BY <1>1, <1>2, <1>3, <1>4, <1>5 DEF Populating
<1>7. ASSUME Orderly(g), Nested(g, q, "populate", n, lo, ou, bo, wk, wd)
      PROVE  Nested(g, q, "walk", n, lo2, ou, bo, wk2, g.src[h])
  <2>1. PICK got, got2 : got = Got(g, q, "populate", n, wd) /\ got2 = Got(g, q, "walk", n, g.src[h])
    OBVIOUS
  <2>2. Nesting(g, lo, ou, bo, got)
    BY <1>7, <2>1 DEF Nested
  <2>3. Extends(got, got2, h, g.src[h])
    BY <2>1, GotBegins
  <2>4. h \notin DOMAIN got /\ Ahead(g, got, h)
    <3>1. "populate" = "walk" => g.red[q[n]] /\ wd \subseteq g.nat[q[n]]
      BY <1>1
    <3>2. Ahead(g, Got(g, q, "populate", n, wd), q[n])
      BY <3>1, GotAhead
    <3>3. q[n] \notin DOMAIN Got(g, q, "populate", n, wd)
      BY GotNotYet
    <3> QED BY <2>1, <3>2, <3>3
  <2>5. Nesting(g, lo2, ou, bo, got2)
    BY <1>2, <1>3, <1>7, <2>2, <2>3, <2>4, LoopBegins
  <2> QED BY <1>5, <1>7, <2>1, <2>5 DEF Nested
<1> QED BY <1>6, <1>7

(* or is done with an irreducible one.                                       *)
LEMMA PopulatePasses ==
    ASSUME NEW g, IsNest(g), Natural(g), NEW q, IsQueue(g, q), NEW n \in 1 .. Len(q),
           NEW lo, NEW ou, NEW bo, NEW wk, NEW wd,
           Populating(g, q, "populate", n, lo, ou, bo, wk, wd), NEW h, h = q[n], ~g.red[h],
           NEW lo2, lo2 = Emplaced(lo, g.src[h], h)
    PROVE  /\ Populating(g, q, "populate", n + 1, lo2, ou, bo, wk, wd)
           /\ Orderly(g) /\ Nested(g, q, "populate", n, lo, ou, bo, wk, wd) =>
                 Nested(g, q, "populate", n + 1, lo2, ou, bo, wk, wd)
<1>1. "populate" # "walk" /\ "populate" # "loops"
  OBVIOUS
<1>2. /\ h \in g.heads /\ n \in 1 .. Len(q) + 1 /\ n <= Len(q) /\ g.src[h] \subseteq g.nodes
      /\ n + 1 \in 1 .. Len(q) + 1
  BY DEF IsQueue, IsNest
<1>3. AreMaps(g, lo, ou, bo) /\ NoRoot(g, lo, ou) /\ DOMAIN bo = g.heads /\ wk = << >> /\ wd = {}
  BY <1>1 DEF Populating
<1>4. AreMaps(g, lo2, ou, bo) /\ NoRoot(g, lo2, ou)
  BY <1>2, <1>3, MapsGive
<1>5. Populating(g, q, "populate", n + 1, lo2, ou, bo, wk, wd)
  BY <1>1, <1>2, <1>3, <1>4 DEF Populating
<1>6. ASSUME Orderly(g), Nested(g, q, "populate", n, lo, ou, bo, wk, wd)
      PROVE  Nested(g, q, "populate", n + 1, lo2, ou, bo, wk, wd)
  <2>1. PICK given : given = Content(g, h) \ {h}
    OBVIOUS
  <2>2. given = g.src[h]
    BY <1>2, <1>6, <2>1 DEF Content, Orderly
  <2>3. PICK got, got2 : got = Got(g, q, "populate", n, wd) /\ got2 = Got(g, q, "walk", n, given)
    OBVIOUS
  <2>4. Nesting(g, lo, ou, bo, got)
    BY <1>6, <2>3 DEF Nested
  <2>5. Extends(got, got2, h, g.src[h])
    <3>1. Extends(got, got2, q[n], given)
      BY <2>3, GotBegins
    <3> QED BY <2>2, <3>1
  <2>6. h \notin DOMAIN got /\ Ahead(g, got, h)
    <3>1. "populate" = "walk" => g.red[q[n]] /\ wd \subseteq g.nat[q[n]]
      BY <1>1
    <3>2. Ahead(g, Got(g, q, "populate", n, wd), q[n])
      BY <3>1, GotAhead
    <3>3. q[n] \notin DOMAIN Got(g, q, "populate", n, wd)
      BY GotNotYet
    <3> QED BY <2>3, <3>2, <3>3
  <2>7. Nesting(g, lo2, ou, bo, got2)
    BY <1>2, <1>3, <1>6, <2>4, <2>5, <2>6, LoopBegins
  <2>8. Got(g, q, "populate", n + 1, wd) = got2
    BY <2>1, <2>3, GotEnds
  <2> QED BY <1>1, <2>7, <2>8 DEF Nested
<1> QED BY <1>5, <1>6

(* What the walk meets joins the loop of h, or the loop that has it does,    *)
(* unless that has an outer one.                                             *)
Joins(lo, ou, bo, h, x, lo2, ou2, bo2) ==
    \/ /\ x \notin DOMAIN lo
       /\ lo2 = Emplaced(lo, {x}, h) /\ bo2 = [bo EXCEPT ![h] = Append(@, Node(x))] /\ ou2 = ou
    \/ /\ x \in DOMAIN lo /\ lo[x] \notin DOMAIN ou
       /\ bo2 = [bo EXCEPT ![h] = Append(@, Loop(lo[x]))] /\ ou2 = Emplaced(ou, {lo[x]}, h)
       /\ lo2 = lo
    \/ /\ x \in DOMAIN lo /\ lo[x] \in DOMAIN ou
       /\ lo2 = lo /\ ou2 = ou /\ bo2 = bo

(* The walk meets a node,                                                    *)
LEMMA WalkBackKeeps ==
    ASSUME NEW g, IsNest(g), Natural(g), NEW q, IsQueue(g, q), NEW n \in 1 .. Len(q),
           NEW lo, NEW ou, NEW bo, NEW wk, NEW wd,
           Populating(g, q, "walk", n, lo, ou, bo, wk, wd), NEW h, h = q[n],
           NEW x, NEW wk2, Meets(g, h, wk, wd, x, wk2),
           NEW lo2, NEW ou2, NEW bo2, Joins(lo, ou, bo, h, x, lo2, ou2, bo2)
    PROVE  /\ Populating(g, q, "walk", n, lo2, ou2, bo2, wk2, wd \cup {x})
           /\ Orderly(g) /\ Nested(g, q, "walk", n, lo, ou, bo, wk, wd) =>
                 Nested(g, q, "walk", n, lo2, ou2, bo2, wk2, wd \cup {x})
<1>1. "populate" # "walk" /\ "walk" # "loops" /\ "loops" # "walk"
  OBVIOUS
<1>2. h \in g.heads /\ n \in 1 .. Len(q) + 1 /\ n <= Len(q)
  BY DEF IsQueue
<1>3. AreMaps(g, lo, ou, bo) /\ NoRoot(g, lo, ou) /\ DOMAIN bo = g.heads /\ IsWalk(g, wk, wd)
      /\ g.red[h]
  BY <1>1 DEF Populating
<1>4. /\ x \in g.nodes /\ IsWalk(g, wk2, wd \cup {x})
      /\ Natural(g) /\ Walking(g, h, wk, wd) =>
            x \in g.nat[h] /\ Walking(g, h, wk2, wd \cup {x})
  BY <1>2, <1>3, WalkMeets
<1>5. PICK l : l = lo[x]
  OBVIOUS
<1>6. x \in DOMAIN lo => l \in g.heads
  BY <1>3, <1>5 DEF NoRoot
<1>7. AreMaps(g, lo2, ou2, bo2) /\ NoRoot(g, lo2, ou2) /\ DOMAIN bo2 = g.heads
  <2>1. CASE x \notin DOMAIN lo
    <3>1. lo2 = Emplaced(lo, {x}, h) /\ bo2 = [bo EXCEPT ![h] = Append(@, Node(x))] /\ ou2 = ou
      BY <2>1 DEF Joins
    <3>2. AreMaps(g, lo2, ou, bo) /\ NoRoot(g, lo2, ou)
      <4>1. {x} \subseteq g.nodes
        BY <1>4
      <4> QED BY <1>2, <1>3, <3>1, <4>1, MapsGive
    <3>3. Node(x) \in Items(g)
      BY <1>4 DEF Items
    <3>4. AreMaps(g, lo2, ou, bo2) /\ DOMAIN bo2 = DOMAIN bo
      BY <1>2, <3>1, <3>2, <3>3, MapsAdd
    <3> QED BY <1>3, <3>1, <3>2, <3>4
  <2>2. CASE x \in DOMAIN lo /\ l \notin DOMAIN ou
    <3>1. /\ bo2 = [bo EXCEPT ![h] = Append(@, Loop(l))]
          /\ ou2 = Emplaced(ou, {l}, h) /\ lo2 = lo
      BY <1>5, <2>2 DEF Joins
    <3>2. AreMaps(g, lo, ou2, bo) /\ NoRoot(g, lo, ou2)
      <4>1. {l} \subseteq g.heads
        BY <1>6, <2>2
      <4> QED BY <1>2, <1>3, <3>1, <4>1, MapsNest
    <3>3. Loop(l) \in Items(g)
      BY <1>6, <2>2 DEF Items
    <3>4. AreMaps(g, lo, ou2, bo2) /\ DOMAIN bo2 = DOMAIN bo
      BY <1>2, <3>1, <3>2, <3>3, MapsAdd
    <3> QED BY <1>3, <3>1, <3>2, <3>4
  <2>3. CASE x \in DOMAIN lo /\ l \in DOMAIN ou
    BY <1>3, <1>5, <2>3 DEF Joins
  <2> QED BY <2>1, <2>2, <2>3
<1>8. Populating(g, q, "walk", n, lo2, ou2, bo2, wk2, wd \cup {x})
  BY <1>1, <1>2, <1>3, <1>4, <1>7 DEF Populating
<1>9. ASSUME Orderly(g), Nested(g, q, "walk", n, lo, ou, bo, wk, wd)
      PROVE  Nested(g, q, "walk", n, lo2, ou2, bo2, wk2, wd \cup {x})
  <2>1. PICK got, got2 : got = Got(g, q, "walk", n, wd) /\ got2 = Got(g, q, "walk", n, wd \cup {x})
    OBVIOUS
  <2>2. Nesting(g, lo, ou, bo, got) /\ Walking(g, h, wk, wd)
    BY <1>9, <2>1 DEF Nested
  <2>3. Extends(got, got2, h, wd \cup {x})
    BY <2>1, GotGrows
  <2>4. wd \subseteq g.nat[h]
    BY <2>2 DEF Walking
  <2>5. h \in DOMAIN got /\ got[h] = wd /\ Ahead(g, got, h)
    <3>1. "walk" = "walk" => g.red[q[n]] /\ wd \subseteq g.nat[q[n]]
      BY <1>3, <2>4
    <3>2. Ahead(g, Got(g, q, "walk", n, wd), q[n])
      BY <3>1, GotAhead
    <3>3. q[n] \in DOMAIN Got(g, q, "walk", n, wd) /\ Got(g, q, "walk", n, wd)[q[n]] = wd
      BY GotHead
    <3> QED BY <2>1, <3>2, <3>3
  <2>6. Extends(got, got2, h, got[h] \cup {x})
    BY <2>3, <2>5
  <2>7. x # h /\ x \notin wd /\ x \in g.nat[h] /\ Walking(g, h, wk2, wd \cup {x})
    BY <1>4, <2>2 DEF Meets, Met
  <2>8. Nesting(g, lo2, ou2, bo2, got2)
    <3>1. CASE x \notin DOMAIN lo
      <4>1. lo2 = Emplaced(lo, {x}, h) /\ bo2 = [bo EXCEPT ![h] = Append(@, Node(x))] /\ ou2 = ou
        BY <3>1 DEF Joins
      <4>2. Nesting(g, lo2, ou, bo2, got2)
        BY <1>2, <1>3, <1>4, <2>2, <2>3, <2>5, <2>6, <2>7, <3>1, <4>1, FreeJoins
      <4> QED BY <4>1, <4>2
    <3>2. CASE x \in DOMAIN lo
      <4>1. x \notin got[h]
        BY <2>5, <2>7
      <4>2. /\ lo[x] \in g.heads /\ lo[x] # h /\ lo[x] \in g.nat[h]
            /\ g.pos[lo[x]] <= g.pos[h]
        BY <1>3, <1>9, <2>2, <2>5, <2>7, <3>2, <4>1, MetInside
      <4>3. l \in g.heads /\ l # h /\ l \in g.nat[h] /\ g.pos[l] <= g.pos[h]
        BY <1>5, <4>2
      <4>4. CASE l \notin DOMAIN ou
        <5>1. /\ bo2 = [bo EXCEPT ![h] = Append(@, Loop(l))]
              /\ ou2 = Emplaced(ou, {l}, h) /\ lo2 = lo
          BY <1>5, <3>2, <4>4 DEF Joins
        <5>2. Nesting(g, lo, ou2, bo2, got2)
          BY <1>2, <1>3, <1>5, <2>2, <2>3, <2>5, <2>6, <3>2, <4>3, <4>4, <5>1, LoopJoins
        <5> QED BY <5>1, <5>2
      <4>5. CASE l \in DOMAIN ou
        <5>1. lo2 = lo /\ ou2 = ou /\ bo2 = bo
          BY <1>5, <3>2, <4>5 DEF Joins
        <5>2. Nesting(g, lo, ou, bo, got2)
          BY <1>3, <1>5, <2>2, <2>3, <2>5, <2>6, <3>2, <4>3, <4>5, NestedStays
        <5> QED BY <5>1, <5>2
      <4> QED BY <4>4, <4>5
    <3> QED BY <3>1, <3>2
  <2> QED BY <2>1, <2>7, <2>8 DEF Nested
<1> QED BY <1>8, <1>9

(* leaves one,                                                               *)
LEMMA WalkUpKeeps ==
    ASSUME NEW g, IsNest(g), NEW q, IsQueue(g, q), NEW n \in 1 .. Len(q),
           NEW lo, NEW ou, NEW bo, NEW wk, NEW wd,
           Populating(g, q, "walk", n, lo, ou, bo, wk, wd), NEW h, h = q[n], wk # << >>,
           NEW top, top = wk[Len(wk)], NEW ps, ps = g.preds[top.node],
           \A j \in top.first .. Len(ps) : ps[j] \in Met(g, h, wd),
           NEW wk2, wk2 = Front(wk)
    PROVE  /\ Populating(g, q, "walk", n, lo, ou, bo, wk2, wd)
           /\ Nested(g, q, "walk", n, lo, ou, bo, wk, wd) =>
                 Nested(g, q, "walk", n, lo, ou, bo, wk2, wd)
<1>1. h \in g.heads /\ IsWalk(g, wk, wd)
  BY DEF IsQueue, Populating
<1>2. IsWalk(g, wk2, wd) /\ (Walking(g, h, wk, wd) => Walking(g, h, wk2, wd))
  BY <1>1, WalkLeaves
<1>3. Populating(g, q, "walk", n, lo, ou, bo, wk2, wd)
  BY <1>2 DEF Populating
<1> QED BY <1>2, <1>3 DEF Nested

(* and ends.                                                                 *)
LEMMA ReturnKeeps ==
    ASSUME NEW g, IsNest(g), Natural(g), NEW q, IsQueue(g, q), NEW n \in 1 .. Len(q),
           NEW lo, NEW ou, NEW bo, NEW wd,
           Populating(g, q, "walk", n, lo, ou, bo, << >>, wd)
    PROVE  /\ Populating(g, q, "populate", n + 1, lo, ou, bo, << >>, {})
           /\ Nested(g, q, "walk", n, lo, ou, bo, << >>, wd) =>
                 Nested(g, q, "populate", n + 1, lo, ou, bo, << >>, {})
<1>1. "populate" # "walk" /\ "populate" # "loops" /\ "walk" # "loops"
  OBVIOUS
<1>2. n + 1 \in 1 .. Len(q) + 1
  BY DEF IsQueue
<1>3. Populating(g, q, "populate", n + 1, lo, ou, bo, << >>, {})
  BY <1>1, <1>2 DEF Populating
<1>4. ASSUME Nested(g, q, "walk", n, lo, ou, bo, << >>, wd)
      PROVE  Nested(g, q, "populate", n + 1, lo, ou, bo, << >>, {})
  <2>1. PICK h : h = q[n]
    OBVIOUS
  <2>2. h \in g.heads /\ g.red[h] /\ wd \subseteq g.nodes /\ Walking(g, h, << >>, wd)
        /\ Nesting(g, lo, ou, bo, Got(g, q, "walk", n, wd))
    BY <1>4, <2>1 DEF Nested, Populating, IsQueue, IsWalk
  <2>3. wd = g.nat[h] \ {h}
    BY <2>2, WalkDone
  <2>4. wd = Content(g, q[n]) \ {q[n]}
    BY <2>1, <2>2, <2>3 DEF Content
  <2>5. Got(g, q, "populate", n + 1, {}) = Got(g, q, "walk", n, wd)
    BY <2>4, GotEnds
  <2> QED BY <1>1, <2>2, <2>5 DEF Nested
<1> QED BY <1>3, <1>4

(* The root loop takes the rest.                                             *)
LEMMA RootKeeps ==
    ASSUME NEW g, IsNest(g), RootLoop \notin g.heads, NEW q, IsQueue(g, q),
           NEW n, n = Len(q) + 1, NEW lo, NEW ou, NEW bo,
           Populating(g, q, "populate", n, lo, ou, bo, << >>, {}),
           NEW lo2, NEW ou2, NEW bo2,
           \/ lo2 = lo /\ ou2 = ou /\ bo2 = bo
           \/ \E K \in SUBSET g.nodes, T \in SUBSET g.heads, items \in Seq(Items(g)) :
                 /\ lo2 = Emplaced(lo, K, RootLoop) /\ ou2 = Emplaced(ou, T, RootLoop)
                 /\ bo2 = Emplaced(bo, {RootLoop}, items),
           DOMAIN lo2 = g.nodes
    PROVE  /\ Populating(g, q, "loops", n, lo2, ou2, bo2, << >>, {})
           /\ Nested(g, q, "populate", n, lo, ou, bo, << >>, {}) =>
                 Nested(g, q, "loops", n, lo2, ou2, bo2, << >>, {})
<1>1. "populate" # "walk" /\ "populate" # "loops" /\ "loops" # "walk"
  OBVIOUS
<1>2. AreMaps(g, lo, ou, bo) /\ n \in 1 .. Len(q) + 1
  BY <1>1 DEF Populating
<1>3. Got(g, q, "loops", n, {}) = Got(g, q, "populate", n, {})
  BY <1>1 DEF Got, Begun
<1>4. CASE lo2 = lo /\ ou2 = ou /\ bo2 = bo
  <2>1. Populating(g, q, "loops", n, lo2, ou2, bo2, << >>, {})
    BY <1>1, <1>2, <1>4 DEF Populating
  <2> QED BY <1>1, <1>3, <1>4, <2>1 DEF Nested
<1>5. ASSUME NEW K \in SUBSET g.nodes, NEW T \in SUBSET g.heads, NEW items \in Seq(Items(g)),
             lo2 = Emplaced(lo, K, RootLoop), ou2 = Emplaced(ou, T, RootLoop),
             bo2 = Emplaced(bo, {RootLoop}, items)
      PROVE  /\ Populating(g, q, "loops", n, lo2, ou2, bo2, << >>, {})
             /\ Nested(g, q, "populate", n, lo, ou, bo, << >>, {}) =>
                   Nested(g, q, "loops", n, lo2, ou2, bo2, << >>, {})
  <2>1. AreMaps(g, lo2, ou, bo)
    BY <1>2, <1>5, MapsGive
  <2>2. AreMaps(g, lo2, ou2, bo)
    BY <1>5, <2>1, MapsNest
  <2>3. AreMaps(g, lo2, ou2, bo2)
    BY <1>5, <2>2, MapsRoot
  <2>4. Populating(g, q, "loops", n, lo2, ou2, bo2, << >>, {})
    BY <1>1, <1>2, <2>3 DEF Populating
  <2>5. ASSUME Nested(g, q, "populate", n, lo, ou, bo, << >>, {})
        PROVE  Nested(g, q, "loops", n, lo2, ou2, bo2, << >>, {})
    <3>1. PICK got : got = Got(g, q, "populate", n, {})
      OBVIOUS
    <3>2. Nesting(g, lo, ou, bo, got)
      BY <2>5, <3>1 DEF Nested
    <3>3. \A m \in g.heads : bo2[m] = bo[m]
      BY <1>2, <1>5 DEF AreMaps, Emplaced
    <3>4. Nesting(g, lo2, ou2, bo2, got)
      BY <1>5, <3>2, <3>3, RootFills
    <3> QED BY <1>1, <1>3, <3>1, <3>4 DEF Nested
  <2> QED BY <2>4, <2>5
<1> QED BY <1>4, <1>5

(* Collecting makes every header a loop that lists its sources.              *)
LEMMA CollectingStarts ==
    ASSUME NEW g, IsNest(g), NEW q, IsQueue(g, q),
           NEW lo, lo = [h \in g.heads |-> h],
           NEW bo, DOMAIN bo = g.heads,
           \A h \in g.heads : \E srcs \in Seq(g.nodes) :
              ToSet(srcs) = g.src[h] /\ bo[h] = [i \in DOMAIN srcs |-> Node(srcs[i])],
           bo = [h \in g.heads |-> bo[h]]
    PROVE  /\ Populating(g, q, "populate", 1, lo, << >>, bo, << >>, {})
           /\ Nested(g, q, "populate", 1, lo, << >>, bo, << >>, {})
<1>1. "populate" # "walk" /\ "populate" # "loops" /\ DOMAIN << >> = {}
  OBVIOUS
<1>2. g.heads \subseteq g.nodes /\ 1 \in 1 .. Len(q) + 1
  BY DEF IsNest, IsQueue
<1>3. ASSUME NEW h \in g.heads
      PROVE  bo[h] \in Seq(Items(g)) /\ \A it : it \in ToSet(bo[h]) <=> \E s \in g.src[h] : it = Node(s)
  <2>1. PICK srcs \in Seq(g.nodes) :
          ToSet(srcs) = g.src[h] /\ bo[h] = [i \in DOMAIN srcs |-> Node(srcs[i])]
    OBVIOUS
  <2>2. PICK b : b = bo[h]
    OBVIOUS
  <2>3. DOMAIN srcs = 1 .. Len(srcs) /\ Len(srcs) \in Nat /\ DOMAIN b = 1 .. Len(srcs)
        /\ \A i \in 1 .. Len(srcs) : b[i] = Node(srcs[i]) /\ srcs[i] \in g.nodes
    BY <2>1, <2>2
  <2>4. \A i \in 1 .. Len(srcs) : b[i] \in Items(g)
    BY <2>3 DEF Items
  <2>5. b \in Seq(Items(g))
    <3>1. b = [i \in 1 .. Len(srcs) |-> b[i]]
      BY <2>1, <2>2, <2>3
    <3>2. b \in [1 .. Len(srcs) -> Items(g)]
      BY <2>4, <3>1
    <3> QED BY <2>3, <3>2
  <2>6. \A it : it \in ToSet(b) <=> \E i \in 1 .. Len(srcs) : it = Node(srcs[i])
    BY <2>3 DEF ToSet
  <2>7. \A s : s \in g.src[h] <=> \E i \in 1 .. Len(srcs) : s = srcs[i]
    BY <2>1, <2>3 DEF ToSet
  <2> QED BY <2>2, <2>5, <2>6, <2>7
<1>4. AreMaps(g, lo, << >>, bo)
  <2>1. DOMAIN lo = g.heads /\ (\A h \in g.heads : lo[h] = h)
        /\ lo \in [DOMAIN lo -> g.heads \cup {RootLoop}]
    OBVIOUS
  <2>2. DOMAIN << >> \subseteq g.heads /\ << >> \in [DOMAIN << >> -> g.heads \cup {RootLoop}]
    OBVIOUS
  <2>3. bo \in [DOMAIN bo -> Seq(Items(g))]
    BY <1>3
  <2> QED BY <1>2, <2>1, <2>2, <2>3 DEF AreMaps
<1>5. NoRoot(g, lo, << >>)
  BY <1>1 DEF NoRoot
<1>6. Populating(g, q, "populate", 1, lo, << >>, bo, << >>, {})
  BY <1>1, <1>2, <1>4, <1>5 DEF Populating
<1>7. PICK got : got = Got(g, q, "populate", 1, {})
  OBVIOUS
<1>8. DOMAIN got = {}
  <2>1. Begun(q, "populate", 1) = {}
    BY <1>1 DEF Begun
  <2> QED BY <1>7, <2>1 DEF Got
<1>9. Nesting(g, lo, << >>, bo, got)
  <2>1. Assigned(g, lo, got)
    BY DEF Assigned
  <2>2. Enclosed(g, << >>, got)
    BY <1>1 DEF Enclosed
  <2>3. Covered(g, lo, << >>, got)
    BY <1>8 DEF Covered
  <2>4. Listing(g, lo, << >>, bo)
    <3>1. ASSUME NEW m \in g.heads, NEW x \in g.nodes
          PROVE  Node(x) \in ToSet(bo[m]) <=> x \in g.src[m] \/ (x \in DOMAIN lo /\ lo[x] = m /\ x # m)
      <4>1. Node(x) \in ToSet(bo[m]) <=> \E s \in g.src[m] : Node(x) = Node(s)
        BY <1>3
      <4>2. Node(x) \in ToSet(bo[m]) <=> x \in g.src[m]
        BY <4>1, ItemsDiffer
      <4>3. ~(x \in DOMAIN lo /\ lo[x] = m /\ x # m)
        OBVIOUS
      <4> QED BY <4>2, <4>3
    <3>2. ASSUME NEW m \in g.heads, NEW l \in g.heads
          PROVE  Loop(l) \in ToSet(bo[m]) <=> l \in DOMAIN << >> /\ << >>[l] = m
      <4>1. \A it \in ToSet(bo[m]) : \E s \in g.src[m] : it = Node(s)
        BY <1>3
      <4>2. \A s : Loop(l) # Node(s)
        BY ItemsDiffer
      <4>3. Loop(l) \notin ToSet(bo[m])
        BY <4>1, <4>2
      <4> QED BY <1>1, <4>3
    <3> QED BY <3>1, <3>2 DEF Listing
  <2> QED BY <2>1, <2>2, <2>3, <2>4 DEF Nesting
<1> QED BY <1>1, <1>6, <1>7, <1>9 DEF Nested

-----------------------------------------------------------------------------
(* What m_loops lists are headers.                                           *)
LEMMA HeadersListed ==
    ASSUME backEdges \in Seq(Nodes \X Nodes)
    PROVE  Headers \in Seq(Heads)
<1> DEFINE S == Heads
           n == Len(backEdges)
           Take(u, k) == IF Contains(u, backEdges[k][2]) THEN u ELSE Append(u, backEdges[k][2])
           D == [k \in 1 .. n |-> [u \in Seq(S) |-> Take(u, k)]]
           Def(h) == [k \in 0 .. n |-> IF k = 0 THEN << >>
                                       ELSE IF Contains(h[k - 1], backEdges[k][2]) THEN h[k - 1]
                                            ELSE Append(h[k - 1], backEdges[k][2])]
<1>1. PICK e : e = << >>
  OBVIOUS
<1>2. n \in Nat /\ DOMAIN backEdges = 1 .. n /\ e \in Seq(S)
  BY <1>1
<1>3. \A k \in 1 .. n : backEdges[k][2] \in S
  <2>1. \A k \in 1 .. n : backEdges[k] \in ToSet(backEdges)
    BY DEF ToSet
  <2> QED BY <2>1 DEF Heads
<1> HIDE DEF S
<1>4. \A k \in 1 .. n : \A u \in Seq(S) : Take(u, k) \in Seq(S)
  BY <1>3, AppendFacts
<1>5. D \in Rounds(Seq(S), n)
  <2> HIDE DEF Take
  <2> QED BY <1>4 DEF Rounds
<1>6. PICK g : g \in Executions(Seq(S), n, e, D)
  <2> HIDE DEF D, n
  <2> QED BY <1>2, <1>5, ExecutionExists
<1>7. /\ g \in [0 .. n -> Seq(S)] /\ g[0] = e
      /\ \A k \in 1 .. n : g[k] = D[k][g[k - 1]]
  BY <1>6 DEF Executions
<1>8. \A k \in 1 .. n : g[k - 1] \in Seq(S) /\ k - 1 \in 0 .. n
  <2>1. \A k \in 1 .. n : k - 1 \in 0 .. n
    BY <1>2
  <2> HIDE DEF n, D
  <2> QED BY <1>7, <2>1
<1>9. \A k \in 1 .. n : g[k] = Take(g[k - 1], k)
  <2> HIDE DEF Take
  <2> QED BY <1>7, <1>8
<1>10. g = Def(g)
  <2>1. \A k \in 0 .. n : g[k] = IF k = 0 THEN e ELSE Take(g[k - 1], k)
    <3> SUFFICES ASSUME NEW k \in 0 .. n PROVE g[k] = IF k = 0 THEN e ELSE Take(g[k - 1], k)
      OBVIOUS
    <3>1. k = 0 \/ k \in 1 .. n
      BY <1>2
    <3> HIDE DEF Take
    <3> QED BY <1>7, <1>9, <3>1
  <2> HIDE DEF D
  <2> QED BY <1>1, <1>7, <2>1
<1>11. PICK f : f = CHOOSE h : h = Def(h)
  OBVIOUS
<1>12. f = Def(f)
  <2> HIDE DEF Def
  <2> QED BY <1>10, <1>11
<1>13. Headers = f[n]
  BY <1>11 DEF Headers
<1>14. f[0] = e /\ \A k \in 1 .. n : f[k] = Take(f[k - 1], k)
  <2>1. \A k \in 0 .. n : f[k] = IF k = 0 THEN e ELSE Take(f[k - 1], k)
    BY <1>1, <1>12
  <2>2. 0 \in 0 .. n /\ \A k \in 1 .. n : k \in 0 .. n /\ k # 0
    BY <1>2
  <2> HIDE DEF Take
  <2> QED BY <2>1, <2>2
<1> HIDE DEF Def, D
<1> DEFINE P == {k \in 0 .. n : f[k] \in Seq(S)}
<1>15. 0 \in P /\ P \in SUBSET (0 .. n)
  BY <1>2, <1>14
<1>16. ASSUME NEW k \in 1 .. n, k - 1 \in P PROVE k \in P
  <2>1. f[k] \in Seq(S)
    <3> HIDE DEF Take
    <3> QED BY <1>4, <1>14, <1>16
  <2>2. k \in 0 .. n
    BY <1>2
  <2> HIDE DEF Take
  <2> QED BY <2>1, <2>2
<1>17. P = 0 .. n
  <2> HIDE DEF P, n
  <2> QED BY <1>2, <1>15, <1>16, RangeInduction
<1>18. f[n] \in Seq(S)
  BY <1>2, <1>17
<1> QED BY <1>13, <1>18 DEF S

(* Nothing that the builder left changes while the loops are populated.      *)
LEMMA StandsStill ==
    ASSUME UNCHANGED vars
    PROVE  /\ Discovered' = Discovered /\ Heads' = Heads /\ Pos' = Pos
           /\ LoopHeadPostOrder' = LoopHeadPostOrder
           /\ \A h : Sources(h)' = Sources(h) /\ NaturalLoop(h)' = NaturalLoop(h)
           /\ \A n : Preds(n)' = Preds(n)
<1>1. graph' = graph /\ preOrder' = preOrder /\ postOrder' = postOrder /\ backEdges' = backEdges
  BY DEF vars, dfsVars
<1>2. Discovered' = Discovered
  BY <1>1 DEF Discovered
<1>3. Heads' = Heads
  BY <1>1 DEF Heads
<1>4. Pos' = Pos
  BY <1>1, <1>2 DEF Pos, TimeIn
<1>5. LoopHeadPostOrder' = LoopHeadPostOrder
  BY <1>1, <1>3 DEF LoopHeadPostOrder
<1>6. \A h : Sources(h)' = Sources(h)
  BY <1>1 DEF Sources
<1>7. \A h : NaturalLoop(h)' = NaturalLoop(h)
  BY <1>1 DEF NaturalLoop, Discovered, Edge, succ
<1>8. \A n : Preds(n)' = Preds(n)
  BY <1>1 DEF Preds, succ
<1> QED BY <1>2, <1>3, <1>4, <1>5, <1>6, <1>7, <1>8

(* So the nest stands, and a structured graph is one.                        *)
LEMMA NestStands ==
    ASSUME UNCHANGED vars, reducible' = reducible
    PROVE  Nest' = Nest /\ (Structured' <=> Structured)
<1>1. Nest' = Nest
  BY StandsStill DEF Nest
<1>2. graph' = graph /\ backEdges' = backEdges
  BY DEF vars, dfsVars
<1>3. \A d, n : Dominates(d, n)' <=> Dominates(d, n)
  BY <1>2 DEF Dominates, Reachable, ReachableWithout, Edge, succ
<1>4. Structured' <=> Structured
  BY <1>2, <1>3, StandsStill DEF Structured
<1> QED BY <1>1, <1>4

-----------------------------------------------------------------------------
(* The invariant of the constructor: the nesting can be told in a structured *)
(* graph only, the types of the maps in any.                                 *)
LoopInv ==
    /\ TreeInv
    /\ stage \in {"collect", "populate", "walk", "loops"}
    /\ stage = "collect" =>
          /\ nth = 1 /\ loopOf = << >> /\ reducible = << >> /\ body = << >> /\ outer = << >>
          /\ walk = << >> /\ walked = {}
    /\ stage # "collect" =>
          /\ phase = "done" /\ reducible \in [Heads -> BOOLEAN]
          /\ Populating(Nest, LoopHeadPostOrder, stage, nth, loopOf, outer, body, walk, walked)
          /\ Structured =>
                Nested(Nest, LoopHeadPostOrder, stage, nth, loopOf, outer, body, walk, walked)

(* The headers are populated in order, whatever is found reducible.          *)
LEMMA QueueIs ==
    ASSUME TreeInv, phase = "done", NEW r PROVE IsQueue(NestOf(r), LoopHeadPostOrder)
<1>1. PICK g : g = NestOf(r)
  OBVIOUS
<1>2. g.heads = Heads /\ g.pos = Pos
  BY <1>1 DEF NestOf
<1> QED BY <1>1, <1>2, OrderFacts DEF IsQueue

(* What holds of the nest once it is there.                                  *)
LEMMA NestFacts ==
    ASSUME LoopInv, stage # "collect"
    PROVE  /\ Analyzed /\ IsNest(Nest) /\ Natural(Nest) /\ IsQueue(Nest, LoopHeadPostOrder)
           /\ Structured => Orderly(Nest)
<1>1. Analyzed
  BY DEF LoopInv, Analyzed
<1>2. Nest = NestOf(reducible)
  BY DEF Nest, NestOf
<1>3. TreeInv /\ phase = "done"
  BY <1>1 DEF Analyzed
<1>4. IsQueue(NestOf(reducible), LoopHeadPostOrder)
  BY <1>3, QueueIs
<1> QED BY <1>1, <1>2, <1>4, NestTypes, NestNatural, NestOrderly

(* It is enough that a step keeps the maps in order.                         *)
LEMMA MapsSuffice ==
    ASSUME LoopInv, stage # "collect", UNCHANGED vars, reducible' = reducible,
           Populating(Nest, LoopHeadPostOrder, stage', nth', loopOf', outer', body', walk', walked'),
           Structured => Nested(Nest, LoopHeadPostOrder, stage', nth', loopOf', outer', body',
                                walk', walked')
    PROVE  LoopInv'
<1>1. Nest' = Nest /\ (Structured' <=> Structured) /\ LoopHeadPostOrder' = LoopHeadPostOrder
      /\ Heads' = Heads
  BY NestStands, StandsStill
<1>2. TreeInv'
  BY TreeInvKeeps DEF LoopInv
<1>3. stage' \in {"populate", "walk", "loops"}
  BY DEF Populating
<1>4. phase' = "done" /\ reducible' \in [Heads' -> BOOLEAN]
  BY <1>1 DEF LoopInv, vars, builderVars
<1>5. Populating(Nest, LoopHeadPostOrder, stage, nth, loopOf, outer, body, walk, walked)'
  BY <1>1
<1>6. (Structured =>
         Nested(Nest, LoopHeadPostOrder, stage, nth, loopOf, outer, body, walk, walked))'
  BY <1>1
<1> QED BY <1>2, <1>3, <1>4, <1>5, <1>6 DEF LoopInv

(* The constructor starts with nothing.                                      *)
LEMMA LoopsStart == ASSUME LoopInit PROVE LoopInv
BY TreeInvStarts DEF LoopInit, LoopInv

(* Before collecting, the builder is at work.                                *)
LEMMA BuilderKeepsLoops == ASSUME LoopInv, BuilderStep PROVE LoopInv'
<1>1. TreeInv'
  BY TreeInvKeeps DEF LoopInv, BuilderStep
<1>2. UNCHANGED loopVars
  BY DEF BuilderStep
<1>3. phase # "done"
  <2>1. BuilderNext
    BY DEF BuilderStep
  <2>2. CASE DfsStep
    BY <2>2 DEF DfsStep
  <2>3. CASE StartSdoms \/ SdomStep \/ StartIdoms \/ IdomStep \/ Finish
    BY <2>3 DEF StartSdoms, SdomStep, StartIdoms, IdomStep, Finish
  <2> QED BY <2>1, <2>2, <2>3 DEF BuilderNext
<1>4. stage = "collect"
  BY <1>3 DEF LoopInv
<1> QED BY <1>1, <1>2, <1>4 DEF LoopInv, loopVars

(* Collecting keeps the invariant,                                           *)
LEMMA CollectKeeps == ASSUME LoopInv, CollectBackEdges PROVE LoopInv'
<1>1. /\ TreeInv /\ phase = "done" /\ stage = "collect" /\ nth = 1 /\ outer = << >>
      /\ walk = << >> /\ walked = {}
  BY DEF LoopInv, CollectBackEdges
<1>2. /\ UNCHANGED vars /\ stage' = "populate" /\ nth' = 1 /\ outer' = << >>
      /\ walk' = << >> /\ walked' = {}
  BY <1>1 DEF CollectBackEdges
<1>3. PICK r, lo, bo : r = reducible' /\ lo = loopOf' /\ bo = body'
  OBVIOUS
<1>4. r \in [Heads -> BOOLEAN]
  <2>1. \A d, n : IsDominator(d, n) \in BOOLEAN
    BY DEF IsDominator
  <2>2. r = [h \in Heads |-> IsDominator(h, BackEdgesSrc(h)[1])]
    BY <1>3 DEF CollectBackEdges
  <2> QED BY <2>1, <2>2
<1>5. PICK g, q : g = NestOf(r) /\ q = LoopHeadPostOrder
  OBVIOUS
<1>6. IsNest(g) /\ IsQueue(g, q)
  BY <1>1, <1>4, <1>5, NestOfTypes, QueueIs
<1>7. g.heads = Heads /\ g.nodes = Discovered /\ \A h \in Heads : g.src[h] = Sources(h)
  BY <1>5 DEF NestOf
<1>8. lo = [h \in g.heads |-> h]
  BY <1>3, <1>7 DEF CollectBackEdges
<1>9. /\ DOMAIN bo = g.heads /\ bo = [h \in g.heads |-> bo[h]]
      /\ \A h \in Heads : bo[h] = [i \in DOMAIN BackEdgesSrc(h) |-> Node(BackEdgesSrc(h)[i])]
  BY <1>3, <1>7 DEF CollectBackEdges
<1>10. \A h \in g.heads : \E srcs \in Seq(g.nodes) :
          ToSet(srcs) = g.src[h] /\ bo[h] = [i \in DOMAIN srcs |-> Node(srcs[i])]
  <2> SUFFICES ASSUME NEW h \in Heads
               PROVE  \E srcs \in Seq(g.nodes) :
                         ToSet(srcs) = g.src[h] /\ bo[h] = [i \in DOMAIN srcs |-> Node(srcs[i])]
    BY <1>7
  <2>1. PICK s : s = BackEdgesSrc(h)
    OBVIOUS
  <2>2. s \in Seq(Discovered) /\ ToSet(s) = Sources(h)
    BY <1>1, <2>1, SourcesListed
  <2>3. bo[h] = [i \in DOMAIN s |-> Node(s[i])]
    BY <1>9, <2>1
  <2> QED BY <1>7, <2>2, <2>3
<1>11. /\ Populating(g, q, "populate", 1, lo, << >>, bo, << >>, {})
       /\ Nested(g, q, "populate", 1, lo, << >>, bo, << >>, {})
  BY <1>6, <1>8, <1>9, <1>10, CollectingStarts
<1>12. Nest' = g /\ LoopHeadPostOrder' = q /\ Heads' = Heads
  BY <1>2, <1>3, <1>5, StandsStill DEF Nest, NestOf
<1>13. TreeInv'
  BY <1>1, <1>2, TreeInvKeeps
<1>14. phase' = "done" /\ reducible' \in [Heads' -> BOOLEAN]
  BY <1>1, <1>2, <1>3, <1>4, <1>12 DEF vars, builderVars
<1>15. Populating(Nest, LoopHeadPostOrder, stage, nth, loopOf, outer, body, walk, walked)'
  BY <1>2, <1>3, <1>11, <1>12
<1>16. Nested(Nest, LoopHeadPostOrder, stage, nth, loopOf, outer, body, walk, walked)'
  BY <1>2, <1>3, <1>11, <1>12
<1> QED BY <1>2, <1>13, <1>14, <1>15, <1>16 DEF LoopInv

(* populate of a loop does when it begins,                                   *)
LEMMA PopulateKeeps == ASSUME LoopInv, Populate PROVE LoopInv'
<1>1. /\ stage = "populate" /\ stage # "collect" /\ nth <= Len(LoopHeadPostOrder)
      /\ UNCHANGED vars /\ reducible' = reducible /\ body' = body /\ outer' = outer
  BY DEF Populate
<1>2. PICK g, q, n, h : g = Nest /\ q = LoopHeadPostOrder /\ n = nth /\ h = q[n]
  OBVIOUS
<1>3. PICK lo, ou, bo, wk, wd : lo = loopOf /\ ou = outer /\ bo = body /\ wk = walk /\ wd = walked
  OBVIOUS
<1>4. PICK lo2, srcs : lo2 = loopOf' /\ srcs = BackEdgesSrc(h)
  OBVIOUS
<1>5. TreeInv /\ phase = "done" /\ IsNest(g) /\ Natural(g) /\ IsQueue(g, q)
      /\ (Structured => Orderly(g))
  BY <1>1, <1>2, NestFacts DEF Analyzed
<1>6. /\ Populating(g, q, "populate", n, lo, ou, bo, wk, wd)
      /\ Structured => Nested(g, q, "populate", n, lo, ou, bo, wk, wd)
  BY <1>1, <1>2, <1>3 DEF LoopInv
<1>7. n \in 1 .. Len(q)
  BY <1>1, <1>2, <1>5, <1>6 DEF Populating, IsQueue
<1>8. h \in Heads /\ g.nodes = Discovered /\ g.src[h] = Sources(h) /\ g.red = reducible
      /\ Populated = h
  BY <1>2, <1>5, <1>7, NestParts DEF IsQueue, Populated
<1>9. srcs \in Seq(g.nodes) /\ ToSet(srcs) = g.src[h]
  BY <1>4, <1>5, <1>8, SourcesListed
<1>10. lo2 = Emplaced(lo, g.src[h], h)
  BY <1>3, <1>4, <1>8, <1>9 DEF Populate
<1>11. CASE g.red[h]
  <2>1. PICK wk2 : wk2 = walk'
    OBVIOUS
  <2>2. /\ wk2 = [i \in DOMAIN srcs |-> [node |-> srcs[i], first |-> 1]]
        /\ walked' = g.src[h] /\ stage' = "walk" /\ nth' = n
    BY <1>2, <1>4, <1>8, <1>9, <1>11, <2>1 DEF Populate
  <2>3. /\ Populating(g, q, "walk", n, lo2, ou, bo, wk2, g.src[h])
        /\ Orderly(g) /\ Nested(g, q, "populate", n, lo, ou, bo, wk, wd) =>
              Nested(g, q, "walk", n, lo2, ou, bo, wk2, g.src[h])
    BY <1>2, <1>5, <1>6, <1>7, <1>9, <1>10, <1>11, <2>2, PopulateWalks
  <2>4. Populating(Nest, LoopHeadPostOrder, stage', nth', loopOf', outer', body', walk', walked')
    BY <1>1, <1>2, <1>3, <1>4, <2>1, <2>2, <2>3
  <2>5. Structured => Nested(Nest, LoopHeadPostOrder, stage', nth', loopOf', outer', body',
                             walk', walked')
    BY <1>1, <1>2, <1>3, <1>4, <1>5, <1>6, <2>1, <2>2, <2>3
  <2> QED BY <1>1, <2>4, <2>5, MapsSuffice
<1>12. CASE ~g.red[h]
  <2>1. nth' = n + 1 /\ stage' = "populate" /\ walk' = wk /\ walked' = wd
    BY <1>1, <1>2, <1>3, <1>8, <1>12 DEF Populate
  <2>2. /\ Populating(g, q, "populate", n + 1, lo2, ou, bo, wk, wd)
        /\ Orderly(g) /\ Nested(g, q, "populate", n, lo, ou, bo, wk, wd) =>
              Nested(g, q, "populate", n + 1, lo2, ou, bo, wk, wd)
    BY <1>2, <1>5, <1>6, <1>7, <1>10, <1>12, PopulatePasses
  <2>3. Populating(Nest, LoopHeadPostOrder, stage', nth', loopOf', outer', body', walk', walked')
    BY <1>1, <1>2, <1>3, <1>4, <2>1, <2>2
  <2>4. Structured => Nested(Nest, LoopHeadPostOrder, stage', nth', loopOf', outer', body',
                             walk', walked')
    BY <1>1, <1>2, <1>3, <1>4, <1>5, <1>6, <2>1, <2>2
  <2> QED BY <1>1, <2>3, <2>4, MapsSuffice
<1> QED BY <1>11, <1>12

(* What a step of the walk finds: the loop, its maps and the top.            *)
WalksAt(g, q, n, h, top, ps) ==
    /\ g = Nest /\ q = LoopHeadPostOrder /\ n = nth /\ h = q[n]
    /\ IsNest(g) /\ Natural(g) /\ IsQueue(g, q) /\ (Structured => Orderly(g))
    /\ n \in 1 .. Len(q) /\ Populated = h
    /\ Populating(g, q, "walk", n, loopOf, outer, body, walk, walked)
    /\ Structured => Nested(g, q, "walk", n, loopOf, outer, body, walk, walked)
    /\ walk # << >> => /\ top = walk[Len(walk)] /\ top = Last(walk)
                       /\ ps = g.preds[top.node] /\ ps = Preds(top.node)
                       /\ top.first \in Nat \ {0}

(* There are such.                                                           *)
LEMMA WalkIsAt ==
    ASSUME LoopInv, stage = "walk" PROVE \E g, q, n, h, top, ps : WalksAt(g, q, n, h, top, ps)
<1>1. PICK g, q, n, h : g = Nest /\ q = LoopHeadPostOrder /\ n = nth /\ h = q[n]
  OBVIOUS
<1>2. PICK top, ps : top = Last(walk) /\ ps = Preds(top.node)
  OBVIOUS
<1>3. stage # "collect"
  OBVIOUS
<1>4. IsNest(g) /\ Natural(g) /\ IsQueue(g, q) /\ (Structured => Orderly(g))
  BY <1>1, <1>3, NestFacts
<1>5. /\ Populating(g, q, "walk", n, loopOf, outer, body, walk, walked)
      /\ Structured => Nested(g, q, "walk", n, loopOf, outer, body, walk, walked)
  BY <1>1, <1>3 DEF LoopInv
<1>6. n \in 1 .. Len(q) /\ Populated = h /\ IsWalk(g, walk, walked)
  <2>1. n \in 1 .. Len(q) + 1 /\ n <= Len(q) /\ IsWalk(g, walk, walked)
    BY <1>5 DEF Populating
  <2> QED BY <1>1, <1>4, <2>1 DEF IsQueue, Populated
<1>7. ASSUME walk # << >>
      PROVE  top = walk[Len(walk)] /\ ps = g.preds[top.node] /\ top.first \in Nat \ {0}
  <2>1. top = walk[Len(walk)]
    BY <1>2 DEF Last
  <2>2. PICK w : w = walk
    OBVIOUS
  <2>3. w \in Seq([node : g.nodes, first : Nat \ {0}]) /\ w # << >>
    BY <1>6, <1>7, <2>2 DEF IsWalk
  <2>4. w[Len(w)] \in [node : g.nodes, first : Nat \ {0}]
    <3>1. PICK F : F = [node : g.nodes, first : Nat \ {0}]
      OBVIOUS
    <3>2. w \in Seq(F) /\ w # << >>
      BY <2>3, <3>1
    <3>3. w[Len(w)] \in F
      BY <3>2
    <3> QED BY <3>1, <3>3
  <2>5. top.node \in Discovered /\ top.first \in Nat \ {0}
    BY <1>1, <2>1, <2>2, <2>4, NestParts
  <2> QED BY <1>1, <1>2, <2>1, <2>5, NestParts
<1>8. WalksAt(g, q, n, h, top, ps)
  BY <1>1, <1>2, <1>4, <1>5, <1>6, <1>7 DEF WalksAt
<1> QED BY <1>8

(* as it meets a node,                                                       *)
LEMMA MeetingKeeps == ASSUME LoopInv, WalkBack PROVE LoopInv'
<1>1. /\ stage = "walk" /\ stage # "collect" /\ walk # << >> /\ Unvisited # {}
      /\ UNCHANGED vars /\ reducible' = reducible /\ stage' = "walk" /\ nth' = nth
  BY DEF WalkBack
<1>2. PICK g, q, n, h, top, ps : WalksAt(g, q, n, h, top, ps)
  BY <1>1, WalkIsAt
<1>3. PICK lo, ou, bo, wk, wd : lo = loopOf /\ ou = outer /\ bo = body /\ wk = walk /\ wd = walked
  OBVIOUS
<1>4. PICK lo2, ou2, bo2, wk2 : lo2 = loopOf' /\ ou2 = outer' /\ bo2 = body' /\ wk2 = walk'
  OBVIOUS
<1>5. /\ IsNest(g) /\ Natural(g) /\ IsQueue(g, q) /\ n \in 1 .. Len(q) /\ h = q[n]
      /\ Populating(g, q, "walk", n, lo, ou, bo, wk, wd)
      /\ Structured => Orderly(g) /\ Nested(g, q, "walk", n, lo, ou, bo, wk, wd)
  BY <1>2, <1>3 DEF WalksAt
<1>6. /\ top = wk[Len(wk)] /\ ps = g.preds[top.node] /\ top.first \in Nat \ {0}
      /\ top = Last(walk) /\ ps = Preds(top.node) /\ Populated = h
  BY <1>1, <1>2, <1>3 DEF WalksAt
<1>7. PICK U : U = Unvisited
  OBVIOUS
<1>8. U = {j \in top.first .. Len(ps) : ps[j] \notin Met(g, h, wd)}
  BY <1>3, <1>6, <1>7 DEF Unvisited, Met
<1>9. PICK i : i = Min(Unvisited)
  OBVIOUS
<1>10. i \in U /\ \A j \in U : i <= j
  <2>1. U \in SUBSET Nat /\ U # {}
    BY <1>1, <1>6, <1>7, <1>8
  <2>2. \E k \in U : \A j \in U : k <= j
    BY <2>1, NatLeast
  <2> QED BY <1>7, <1>9, <2>2 DEF Min
<1>11. PICK x : x = ps[i]
  OBVIOUS
<1>12. Meets(g, h, wk, wd, x, wk2)
  <2>1. i \in top.first .. Len(ps) /\ x \notin Met(g, h, wd)
    BY <1>8, <1>10, <1>11
  <2>2. ASSUME NEW j \in top.first .. Len(ps), j < i PROVE ps[j] \in Met(g, h, wd)
    <3>1. i \in Int /\ j \in Int /\ ~(i <= j)
      BY <1>6, <2>1, <2>2
    <3> QED BY <1>8, <1>10, <3>1
  <2>3. wk2 = [wk EXCEPT ![Len(wk)].first = i + 1] \o <<[node |-> x, first |-> 1]>>
    BY <1>3, <1>4, <1>6, <1>9, <1>11 DEF WalkBack
  <2>4. wk # << >>
    BY <1>1, <1>3
  <2> QED BY <1>6, <1>11, <2>1, <2>2, <2>3, <2>4 DEF Meets
<1>13. Joins(lo, ou, bo, h, x, lo2, ou2, bo2)
  BY <1>3, <1>4, <1>6, <1>9, <1>11 DEF WalkBack, Joins
<1>14. walked' = wd \cup {x}
  BY <1>3, <1>6, <1>9, <1>11 DEF WalkBack
<1>15. /\ Populating(g, q, "walk", n, lo2, ou2, bo2, wk2, wd \cup {x})
       /\ Orderly(g) /\ Nested(g, q, "walk", n, lo, ou, bo, wk, wd) =>
             Nested(g, q, "walk", n, lo2, ou2, bo2, wk2, wd \cup {x})
  BY <1>5, <1>12, <1>13, WalkBackKeeps
<1>16. g = Nest /\ q = LoopHeadPostOrder /\ n = nth
  BY <1>2 DEF WalksAt
<1>17. Populating(Nest, LoopHeadPostOrder, stage', nth', loopOf', outer', body', walk', walked')
  BY <1>1, <1>4, <1>14, <1>15, <1>16
<1>18. Structured => Nested(Nest, LoopHeadPostOrder, stage', nth', loopOf', outer', body',
                            walk', walked')
  BY <1>1, <1>4, <1>5, <1>14, <1>15, <1>16
<1> QED BY <1>1, <1>17, <1>18, MapsSuffice

(* leaves one,                                                               *)
LEMMA LeavingKeeps == ASSUME LoopInv, WalkUp PROVE LoopInv'
<1>1. /\ stage = "walk" /\ stage # "collect" /\ walk # << >> /\ Unvisited = {}
      /\ UNCHANGED vars /\ reducible' = reducible /\ stage' = "walk" /\ nth' = nth
      /\ loopOf' = loopOf /\ outer' = outer /\ body' = body /\ walked' = walked
      /\ walk' = Front(walk)
  BY DEF WalkUp
<1>2. PICK g, q, n, h, top, ps : WalksAt(g, q, n, h, top, ps)
  BY <1>1, WalkIsAt
<1>3. PICK lo, ou, bo, wk, wd : lo = loopOf /\ ou = outer /\ bo = body /\ wk = walk /\ wd = walked
  OBVIOUS
<1>4. PICK wk2 : wk2 = walk'
  OBVIOUS
<1>5. /\ IsNest(g) /\ IsQueue(g, q) /\ n \in 1 .. Len(q) /\ h = q[n]
      /\ Populating(g, q, "walk", n, lo, ou, bo, wk, wd)
      /\ Structured => Nested(g, q, "walk", n, lo, ou, bo, wk, wd)
  BY <1>2, <1>3 DEF WalksAt
<1>6. /\ top = wk[Len(wk)] /\ ps = g.preds[top.node]
      /\ top = Last(walk) /\ ps = Preds(top.node) /\ Populated = h
  BY <1>1, <1>2, <1>3 DEF WalksAt
<1>7. wk2 = Front(wk) /\ wk # << >>
  BY <1>1, <1>3, <1>4
<1>8. \A j \in top.first .. Len(ps) : ps[j] \in Met(g, h, wd)
  BY <1>1, <1>3, <1>6 DEF Unvisited, Met
<1>9. /\ Populating(g, q, "walk", n, lo, ou, bo, wk2, wd)
      /\ Nested(g, q, "walk", n, lo, ou, bo, wk, wd) =>
            Nested(g, q, "walk", n, lo, ou, bo, wk2, wd)
  BY <1>5, <1>6, <1>7, <1>8, WalkUpKeeps
<1>10. g = Nest /\ q = LoopHeadPostOrder /\ n = nth
  BY <1>2 DEF WalksAt
<1>11. Populating(Nest, LoopHeadPostOrder, stage', nth', loopOf', outer', body', walk', walked')
  BY <1>1, <1>3, <1>4, <1>9, <1>10
<1>12. Structured => Nested(Nest, LoopHeadPostOrder, stage', nth', loopOf', outer', body',
                            walk', walked')
  BY <1>1, <1>3, <1>4, <1>5, <1>9, <1>10
<1> QED BY <1>1, <1>11, <1>12, MapsSuffice

(* and returns.                                                              *)
LEMMA ReturningKeeps == ASSUME LoopInv, PopulateReturn PROVE LoopInv'
<1>1. /\ stage = "walk" /\ stage # "collect" /\ walk = << >>
      /\ UNCHANGED vars /\ reducible' = reducible /\ stage' = "populate" /\ nth' = nth + 1
      /\ loopOf' = loopOf /\ outer' = outer /\ body' = body /\ walked' = {} /\ walk' = << >>
  BY DEF PopulateReturn
<1>2. PICK g, q, n, h, top, ps : WalksAt(g, q, n, h, top, ps)
  BY <1>1, WalkIsAt
<1>3. PICK lo, ou, bo, wd : lo = loopOf /\ ou = outer /\ bo = body /\ wd = walked
  OBVIOUS
<1>4. /\ IsNest(g) /\ Natural(g) /\ IsQueue(g, q) /\ n \in 1 .. Len(q)
      /\ Populating(g, q, "walk", n, lo, ou, bo, << >>, wd)
      /\ Structured => Nested(g, q, "walk", n, lo, ou, bo, << >>, wd)
  BY <1>1, <1>2, <1>3 DEF WalksAt
<1>5. /\ Populating(g, q, "populate", n + 1, lo, ou, bo, << >>, {})
      /\ Nested(g, q, "walk", n, lo, ou, bo, << >>, wd) =>
            Nested(g, q, "populate", n + 1, lo, ou, bo, << >>, {})
  BY <1>4, ReturnKeeps
<1>6. g = Nest /\ q = LoopHeadPostOrder /\ n = nth
  BY <1>2 DEF WalksAt
<1>7. Populating(Nest, LoopHeadPostOrder, stage', nth', loopOf', outer', body', walk', walked')
  BY <1>1, <1>3, <1>5, <1>6
<1>8. Structured => Nested(Nest, LoopHeadPostOrder, stage', nth', loopOf', outer', body',
                           walk', walked')
  BY <1>1, <1>3, <1>4, <1>5, <1>6
<1> QED BY <1>1, <1>7, <1>8, MapsSuffice


(* An order has as many places as nodes.                                     *)
LEMMA OrderCounts ==
    ASSUME NEW pre, IsOrder(pre)
    PROVE  IsFiniteSet(ToSet(pre)) /\ Cardinality(ToSet(pre)) = Len(pre)
<1>1. PICK T : T = ToSet(pre)
  OBVIOUS
<1>2. /\ Len(pre) \in Nat /\ DOMAIN pre = 1 .. Len(pre) /\ pre \in [1 .. Len(pre) -> Nodes]
      /\ T = {pre[t] : t \in 1 .. Len(pre)}
  BY <1>1 DEF IsOrder, ToSet
<1>3. IsFiniteSet(1 .. Len(pre)) /\ Cardinality(1 .. Len(pre)) = Len(pre)
  <2>1. PICK a, b : a = 1 /\ b = Len(pre)
    OBVIOUS
  <2>2. a \in Int /\ b \in Int /\ a <= b + 1 /\ b - a + 1 = Len(pre)
    BY <1>2, <2>1
  <2>3. IsFiniteSet(a .. b) /\ Cardinality(a .. b) = IF a > b THEN 0 ELSE b - a + 1
    BY <2>2, FS_Interval
  <2> QED BY <2>1, <2>2, <2>3
<1>4. PICK D : D = 1 .. Len(pre)
  OBVIOUS
<1>5. pre \in [D -> T] /\ \A x \in T : \E t \in D : pre[t] = x
  BY <1>2, <1>4
<1>6. pre \in Surjection(D, T)
  BY <1>5 DEF Surjection
<1>7. pre \in Injection(D, T)
  BY <1>2, <1>4, <1>5 DEF IsOrder, IsInjective, Injection
<1>8. pre \in Surjection(D, T) /\ IsFiniteSet(D)
  BY <1>3, <1>4, <1>6
<1>9. IsFiniteSet(T) /\ (Cardinality(T) = Cardinality(D) <=> pre \in Injection(D, T))
  BY <1>8, FS_Surjection
<1> QED BY <1>1, <1>3, <1>4, <1>7, <1>9

(* Of a sequence, those in a set are selected.                               *)
LEMMA SelectedOnes ==
    ASSUME NEW S, NEW s \in Seq(S), NEW T
    PROVE  /\ Selected(s, T) \in Seq(S)
           /\ \A x : x \in ToSet(Selected(s, T)) <=> x \in T /\ x \in ToSet(s)
<1>1. PICK t : t = Selected(s, T)
  OBVIOUS
<1>2. t \in Seq(S) /\ SelectedOf(s, T, Len(s), t)
  BY <1>1, SelectedIs
<1>3. DOMAIN s = 1 .. Len(s)
  OBVIOUS
<1>4. \A x : x \in ToSet(t) <=> \E m \in DOMAIN t : t[m] = x
  BY DEF ToSet
<1>5. \A x : x \in ToSet(s) <=> \E a \in 1 .. Len(s) : s[a] = x
  BY <1>3 DEF ToSet
<1>6. \A x : x \in ToSet(t) <=> x \in T /\ x \in ToSet(s)
  BY <1>2, <1>4, <1>5 DEF SelectedOf
<1> QED BY <1>1, <1>2, <1>6

(* What the root loop takes.                                                 *)
RootTaking(g, lo, ou, free, tops, items) ==
    /\ g.nodes = Discovered /\ g.heads = Heads
    /\ g.heads \subseteq DOMAIN lo /\ DOMAIN lo \subseteq g.nodes
    /\ free = Selected(NonHeadNodes, Nodes \ DOMAIN lo)
    /\ tops = Selected(Headers, Nodes \ DOMAIN ou)
    /\ items = [i \in DOMAIN free |-> Node(free[i])] \o [i \in DOMAIN tops |-> Loop(tops[i])]

(* It takes what is free, and every node has a loop then.                    *)
LEMMA RootTakes ==
    ASSUME TreeInv, phase = "done", NEW g, NEW lo, NEW ou, NEW free, NEW tops, NEW items,
           RootTaking(g, lo, ou, free, tops, items)
    PROVE  /\ ToSet(free) \in SUBSET g.nodes /\ ToSet(tops) \in SUBSET g.heads
           /\ items \in Seq(Items(g)) /\ DOMAIN lo \cup ToSet(free) = g.nodes
<1>1. /\ g.nodes = Discovered /\ g.heads = Heads
      /\ g.heads \subseteq DOMAIN lo /\ DOMAIN lo \subseteq g.nodes
  BY DEF RootTaking
<1>2. /\ postOrder \in Seq(Nodes) /\ ToSet(postOrder) = Discovered /\ Discovered \subseteq Nodes
      /\ backEdges \in Seq(Nodes \X Nodes)
  BY SearchFacts DEF DfsTypeOK, IsOrder
<1>3. PICK others : others = NonHeadNodes
  OBVIOUS
<1>4. others \in Seq(Nodes) /\ \A x : x \in ToSet(others) <=> x \in Discovered \ Heads
  <2>1. PICK T : T = Nodes \ Heads
    OBVIOUS
  <2>2. /\ Selected(postOrder, T) \in Seq(Nodes)
        /\ \A x : x \in ToSet(Selected(postOrder, T)) <=> x \in T /\ x \in ToSet(postOrder)
    BY <1>2, SelectedOnes
  <2> QED BY <1>2, <1>3, <2>1, <2>2 DEF NonHeadNodes
<1>5. free \in Seq(Nodes) /\ \A x : x \in ToSet(free) <=> x \in (Discovered \ Heads) \ DOMAIN lo
  <2>1. PICK T : T = Nodes \ DOMAIN lo
    OBVIOUS
  <2>2. /\ Selected(others, T) \in Seq(Nodes)
        /\ \A x : x \in ToSet(Selected(others, T)) <=> x \in T /\ x \in ToSet(others)
    BY <1>4, SelectedOnes
  <2> QED BY <1>2, <1>3, <1>4, <2>1, <2>2 DEF RootTaking
<1>6. ToSet(free) \in SUBSET g.nodes /\ DOMAIN lo \cup ToSet(free) = g.nodes
  BY <1>1, <1>5
<1>7. tops \in Seq(Heads)
  <2>1. Headers \in Seq(Heads)
    BY <1>2, HeadersListed
  <2> QED BY <2>1, SelectedOnes DEF RootTaking
<1>8. ToSet(tops) \in SUBSET g.heads
  <2>1. PICK S : S = Heads
    OBVIOUS
  <2>2. tops \in Seq(S)
    BY <1>7, <2>1
  <2>3. \A i \in DOMAIN tops : tops[i] \in S
    BY ONLY <2>2
  <2> QED BY <1>1, <2>1, <2>3 DEF ToSet
<1>9. PICK I, J : I = [i \in DOMAIN free |-> Node(free[i])] /\ J = [i \in DOMAIN tops |-> Loop(tops[i])]
  OBVIOUS
<1>10. I \in Seq(Items(g))
  <2>1. PICK k : k = Len(free)
    OBVIOUS
  <2>2. k \in Nat /\ DOMAIN free = 1 .. k
    BY <1>5, <2>1
  <2>3. PICK S : S = Items(g)
    OBVIOUS
  <2>4. \A i \in 1 .. k : Node(free[i]) \in S
    BY <1>6, <2>2, <2>3 DEF ToSet, Items
  <2>5. I = [i \in 1 .. k |-> Node(free[i])]
    BY <1>9, <2>2
  <2>6. I \in [1 .. k -> S]
    BY <2>4, <2>5
  <2>7. I \in Seq(S)
    BY <2>2, <2>6
  <2> QED BY <2>3, <2>7
<1>11. J \in Seq(Items(g))
  <2>1. PICK k : k = Len(tops)
    OBVIOUS
  <2>2. k \in Nat /\ DOMAIN tops = 1 .. k
    BY <1>7, <2>1
  <2>3. PICK S : S = Items(g)
    OBVIOUS
  <2>4. \A i \in 1 .. k : Loop(tops[i]) \in S
    BY <1>8, <2>2, <2>3 DEF ToSet, Items
  <2>5. J = [i \in 1 .. k |-> Loop(tops[i])]
    BY <1>9, <2>2
  <2>6. J \in [1 .. k -> S]
    BY <2>4, <2>5
  <2>7. J \in Seq(S)
    BY <2>2, <2>6
  <2> QED BY <2>3, <2>7
<1>12. items \in Seq(Items(g))
  <2>1. PICK S : S = Items(g)
    OBVIOUS
  <2>2. I \in Seq(S) /\ J \in Seq(S)
    BY <1>10, <1>11, <2>1
  <2>3. I \o J \in Seq(S)
    BY <2>2
  <2> QED BY <1>9, <2>1, <2>3 DEF RootTaking
<1> QED BY <1>6, <1>8, <1>12

(* What is left is the root's,                                               *)
LEMMA FillRootKeeps == ASSUME LoopInv, FillRoot PROVE LoopInv'
<1>1. /\ stage = "populate" /\ stage # "collect" /\ nth > Len(LoopHeadPostOrder)
      /\ UNCHANGED vars /\ reducible' = reducible /\ stage' = "loops" /\ nth' = nth
      /\ walk' = walk /\ walked' = walked
  BY DEF FillRoot
<1>2. PICK g, q, n : g = Nest /\ q = LoopHeadPostOrder /\ n = nth
  OBVIOUS
<1>3. PICK lo, ou, bo : lo = loopOf /\ ou = outer /\ bo = body
  OBVIOUS
<1>4. PICK lo2, ou2, bo2 : lo2 = loopOf' /\ ou2 = outer' /\ bo2 = body'
  OBVIOUS
<1>5. IsNest(g) /\ IsQueue(g, q)
  BY <1>1, <1>2, NestFacts
<1>6. TreeInv /\ phase = "done" /\ g.nodes = Discovered /\ g.heads = Heads
  BY <1>1, <1>2, NestFacts, NestParts DEF Analyzed
<1>7. /\ Populating(g, q, "populate", n, lo, ou, bo, walk, walked)
      /\ Structured => Nested(g, q, "populate", n, lo, ou, bo, walk, walked)
  BY <1>1, <1>2, <1>3 DEF LoopInv
<1>8. walk = << >> /\ walked = {} /\ n = Len(q) + 1 /\ AreMaps(g, lo, ou, bo)
  <2>1. walk = << >> /\ walked = {} /\ n \in 1 .. Len(q) + 1 /\ AreMaps(g, lo, ou, bo)
    BY <1>7 DEF Populating
  <2>2. n > Len(q)
    BY <1>1, <1>2
  <2>3. Len(q) \in Nat
    BY <1>5 DEF IsQueue
  <2> QED BY <2>1, <2>2, <2>3
<1>9. g.heads \subseteq DOMAIN lo /\ DOMAIN lo \subseteq g.nodes
  BY <1>8 DEF AreMaps
<1>10. /\ \/ lo2 = lo /\ ou2 = ou /\ bo2 = bo
          \/ \E K \in SUBSET g.nodes, T \in SUBSET g.heads, items \in Seq(Items(g)) :
                /\ lo2 = Emplaced(lo, K, RootLoop) /\ ou2 = Emplaced(ou, T, RootLoop)
                /\ bo2 = Emplaced(bo, {RootLoop}, items)
       /\ DOMAIN lo2 = g.nodes
  <2>1. CASE Cardinality(DOMAIN loopOf) = Len(postOrder)
    <3>1. lo2 = lo /\ ou2 = ou /\ bo2 = bo
      BY <1>3, <1>4, <2>1 DEF FillRoot
    <3>2. DOMAIN lo = g.nodes
      <4>1. IsFiniteSet(g.nodes) /\ Cardinality(g.nodes) = Len(postOrder)
        <5>1. IsOrder(postOrder) /\ ToSet(postOrder) = g.nodes
          BY <1>6, SearchFacts
        <5> QED BY <5>1, OrderCounts
      <4> QED BY <1>3, <1>9, <2>1, <4>1, FS_Subset, FS_CardinalityType
    <3> QED BY <3>1, <3>2
  <2>2. CASE Cardinality(DOMAIN loopOf) # Len(postOrder)
    <3>1. PICK free, tops : /\ free = Selected(NonHeadNodes, Nodes \ DOMAIN lo)
                            /\ tops = Selected(Headers, Nodes \ DOMAIN ou)
      OBVIOUS
    <3>2. PICK items : items = [i \in DOMAIN free |-> Node(free[i])]
                               \o [i \in DOMAIN tops |-> Loop(tops[i])]
      OBVIOUS
    <3>3. /\ lo2 = Emplaced(lo, ToSet(free), RootLoop) /\ ou2 = Emplaced(ou, ToSet(tops), RootLoop)
          /\ bo2 = Emplaced(bo, {RootLoop}, items)
      BY <1>3, <1>4, <2>2, <3>1, <3>2 DEF FillRoot
    <3>4. /\ ToSet(free) \in SUBSET g.nodes /\ ToSet(tops) \in SUBSET g.heads
          /\ items \in Seq(Items(g)) /\ DOMAIN lo \cup ToSet(free) = g.nodes
      <4>1. RootTaking(g, lo, ou, free, tops, items)
        BY <1>6, <1>9, <3>1, <3>2 DEF RootTaking
      <4>2. TreeInv /\ phase = "done"
        BY <1>6
      <4> QED BY ONLY <4>1, <4>2, RootTakes
    <3>5. DOMAIN lo2 = g.nodes
      BY <3>3, <3>4 DEF Emplaced
    <3> QED BY <3>3, <3>4, <3>5
  <2> QED BY <2>1, <2>2
<1>11. RootLoop \notin g.heads
  <2>1. RootLoop \notin Nodes
    BY GraphsAssumption DEF RootLoop
  <2> QED BY <1>5, <2>1 DEF IsNest
<1>12. /\ Populating(g, q, "populate", n, lo, ou, bo, << >>, {})
       /\ Structured => Nested(g, q, "populate", n, lo, ou, bo, << >>, {})
  BY <1>7, <1>8
<1>13. /\ Populating(g, q, "loops", n, lo2, ou2, bo2, << >>, {})
       /\ Nested(g, q, "populate", n, lo, ou, bo, << >>, {}) =>
             Nested(g, q, "loops", n, lo2, ou2, bo2, << >>, {})
  BY <1>5, <1>8, <1>10, <1>11, <1>12, RootKeeps
<1>14. Populating(Nest, LoopHeadPostOrder, stage', nth', loopOf', outer', body', walk', walked')
  BY <1>1, <1>2, <1>4, <1>8, <1>13
<1>15. Structured => Nested(Nest, LoopHeadPostOrder, stage', nth', loopOf', outer', body',
                            walk', walked')
  BY <1>1, <1>2, <1>4, <1>8, <1>12, <1>13
<1> QED BY <1>1, <1>14, <1>15, MapsSuffice

(* and a stutter changes nothing.                                            *)
LEMMA StutterKeepsLoops == ASSUME LoopInv, UNCHANGED allVars PROVE LoopInv'
<1>1. UNCHANGED vars /\ reducible' = reducible /\ stage' = stage /\ nth' = nth /\ loopOf' = loopOf
      /\ outer' = outer /\ body' = body /\ walk' = walk /\ walked' = walked
  BY DEF allVars, loopVars
<1>2. CASE stage = "collect"
  <2>1. TreeInv'
    BY <1>1, TreeInvKeeps DEF LoopInv
  <2> QED BY <1>1, <1>2, <2>1 DEF LoopInv
<1>3. CASE stage # "collect"
  <2>1. /\ Populating(Nest, LoopHeadPostOrder, stage, nth, loopOf, outer, body, walk, walked)
        /\ Structured =>
              Nested(Nest, LoopHeadPostOrder, stage, nth, loopOf, outer, body, walk, walked)
    BY <1>3 DEF LoopInv
  <2>2. Populating(Nest, LoopHeadPostOrder, stage', nth', loopOf', outer', body', walk', walked')
    BY <1>1, <2>1
  <2>3. Structured => Nested(Nest, LoopHeadPostOrder, stage', nth', loopOf', outer', body',
                             walk', walked')
    BY <1>1, <2>1
  <2> QED BY <1>1, <1>3, <2>2, <2>3, MapsSuffice
<1> QED BY <1>2, <1>3

(* Every step keeps it.                                                      *)
LEMMA LoopStepsKeep == ASSUME LoopInv, [LoopNext]_allVars PROVE LoopInv'
<1>1. CASE UNCHANGED allVars
  BY <1>1, StutterKeepsLoops
<1>2. CASE AnalyzerNext
  BY <1>2, BuilderKeepsLoops, CollectKeeps, PopulateKeeps, MeetingKeeps, LeavingKeeps,
     ReturningKeeps, FillRootKeeps DEF AnalyzerNext
<1>3. CASE LoopsTerminated
  BY <1>3, StutterKeepsLoops DEF LoopsTerminated
<1> QED BY <1>1, <1>2, <1>3 DEF LoopNext

(* The invariant of the constructor of LoopAnalyzer: on every graph its maps *)
(* have their types; on a structured one, what a body lists is what its loop *)
(* was given, loops nest inside those that hold their headers, and what the  *)
(* walk has met is covered.                                                  *)
THEOREM LoopInvariance == LoopSpec => []LoopInv
<1>1. LoopInit => LoopInv
  BY LoopsStart
<1>2. LoopInv /\ [LoopNext]_allVars => LoopInv'
  BY LoopStepsKeep
<1> QED BY <1>1, <1>2, PTL DEF LoopSpec

(* The maps of LoopAnalyzer have the types the code gives them, on every     *)
(* graph, and when the constructor returns every node that the search came   *)
(* to has a loop.                                                            *)
THEOREM LoopTypes == LoopSpec => []LoopTypeOK
<1>1. LoopInv => LoopTypeOK
  <2> SUFFICES ASSUME LoopInv PROVE LoopTypeOK
    OBVIOUS
  <2>1. TypeOK /\ stage \in {"collect", "populate", "walk", "loops"}
    BY BuildTypes DEF LoopInv, TreeInv
  <2>2. Cardinality(Nodes) \in Nat
    BY GraphsAssumption, FS_CardinalityType
  <2>3. CASE stage = "collect"
    <3>1. /\ nth = 1 /\ loopOf = << >> /\ reducible = << >> /\ body = << >> /\ outer = << >>
          /\ walk = << >> /\ walked = {}
      BY <2>3 DEF LoopInv
    <3>2. PICK e : e = << >>
      OBVIOUS
    <3>3. DOMAIN e = {} /\ \A S : e \in [DOMAIN e -> S]
      BY <3>2
    <3>4. loopOf \in [DOMAIN loopOf -> Heads \cup {RootLoop}] /\ DOMAIN loopOf \subseteq Discovered
      BY <3>1, <3>2, <3>3
    <3>5. reducible \in [DOMAIN reducible -> BOOLEAN]
      BY <3>1, <3>2, <3>3
    <3>6. outer \in [DOMAIN outer -> Heads \cup {RootLoop}] /\ DOMAIN body = {}
      BY <3>1, <3>2, <3>3
    <3>7. nth \in 1 .. Cardinality(Nodes) + 1
      BY <2>2, <3>1
    <3>8. walk \in Seq([node : Nodes, first : Nat \ {0}]) /\ walked \subseteq Nodes
      BY <3>1
    <3> QED BY <2>1, <2>3, <3>4, <3>5, <3>6, <3>7, <3>8 DEF LoopTypeOK, LoopsDone
  <2>4. CASE stage # "collect"
    <3>1. PICK g, q : g = Nest /\ q = LoopHeadPostOrder
      OBVIOUS
    <3>2. IsNest(g) /\ g.nodes = Discovered /\ g.heads = Heads
      BY <2>4, <3>1, NestFacts, NestParts
    <3>3. Populating(g, q, stage, nth, loopOf, outer, body, walk, walked)
      BY <2>4, <3>1 DEF LoopInv
    <3>4. /\ nth \in 1 .. Len(q) + 1 /\ AreMaps(g, loopOf, outer, body)
          /\ stage = "walk" => IsWalk(g, walk, walked)
          /\ stage # "walk" => walk = << >> /\ walked = {}
          /\ stage = "loops" => DOMAIN loopOf = g.nodes
      BY <3>3 DEF Populating
    <3>5. nth \in 1 .. Cardinality(Nodes) + 1
      <4>1. Len(q) \in 0 .. Cardinality(Nodes)
        BY <2>4, <3>1, OrderFacts DEF LoopInv
      <4> QED BY <2>2, <3>4, <4>1
    <3>6. loopOf \in [DOMAIN loopOf -> Heads \cup {RootLoop}] /\ DOMAIN loopOf \subseteq Discovered
      BY <3>2, <3>4 DEF AreMaps
    <3>7. outer \in [DOMAIN outer -> Heads \cup {RootLoop}]
      BY <3>2, <3>4 DEF AreMaps
    <3>8. reducible \in [DOMAIN reducible -> BOOLEAN]
      <4>1. reducible \in [Heads -> BOOLEAN]
        BY <2>4 DEF LoopInv
      <4> QED BY <4>1
    <3>9. ASSUME NEW l \in DOMAIN body, NEW item \in ToSet(body[l])
          PROVE  item \in {Node(n) : n \in Discovered} \cup {Loop(h) : h \in Heads}
      <4>1. PICK S : S = Items(g)
        OBVIOUS
      <4>2. body[l] \in Seq(S)
        BY <3>4, <4>1 DEF AreMaps
      <4>3. \A i \in DOMAIN body[l] : body[l][i] \in S
        BY ONLY <4>2
      <4>4. item \in S
        BY <4>3 DEF ToSet
      <4> QED BY <3>2, <4>1, <4>4 DEF Items
    <3>10. walk \in Seq([node : Nodes, first : Nat \ {0}]) /\ walked \subseteq Nodes
      <4>1. CASE stage = "walk"
        <5>1. PICK S, T : S = [node : g.nodes, first : Nat \ {0}] /\ T = [node : Nodes, first : Nat \ {0}]
          OBVIOUS
        <5>2. S \subseteq T /\ walk \in Seq(S) /\ walked \subseteq Nodes
          BY <3>2, <3>4, <4>1, <5>1 DEF IsNest, IsWalk
        <5>3. walk \in Seq(T)
          BY <5>2
        <5> QED BY <5>1, <5>2, <5>3
      <4>2. CASE stage # "walk"
        BY <3>4, <4>2
      <4> QED BY <4>1, <4>2
    <3>11. LoopsDone => DOMAIN loopOf = Discovered
      BY <3>2, <3>4 DEF LoopsDone
    <3> QED BY <2>1, <3>5, <3>6, <3>7, <3>8, <3>9, <3>10, <3>11 DEF LoopTypeOK
  <2> QED BY <2>3, <2>4
<1> QED BY <1>1, LoopInvariance, PTL

-----------------------------------------------------------------------------
(* The loops around a loop: a recursion over the map of outer loops,         *)
Above(ou, ls) == {ou[m] : m \in ls \cap DOMAIN ou}

(* which is the last of a series of sets that grows upwards.                 *)
LEMMA AroundRuns ==
    ASSUME NEW X, NEW l, outer \in [DOMAIN outer -> X]
    PROVE  \E w \in [0 .. Cardinality(Nodes) -> SUBSET X] :
              /\ w[0] = Above(outer, {l})
              /\ \A k \in 1 .. Cardinality(Nodes) : w[k] = w[k - 1] \cup Above(outer, w[k - 1])
              /\ Around(l) = w[Cardinality(Nodes)]
<1> DEFINE N == Cardinality(Nodes)
           Wider(A) == A \cup Above(outer, A)
           Def(g) == [k \in 0 .. N |-> IF k = 0 THEN Above(outer, {l}) ELSE Wider(g[k - 1])]
<1>1. N \in Nat
  BY GraphsAssumption, FS_CardinalityType
<1>2. \A A : Above(outer, A) \in SUBSET X
  BY DEF Above
<1>3. \A A \in SUBSET X : Wider(A) \in SUBSET X
  BY <1>2
<1>4. PICK start : start = Above(outer, {l})
  OBVIOUS
<1>5. start \in SUBSET X
  BY <1>2, <1>4
<1>6. PICK D \in Rounds(SUBSET X, N) : \A k \in 1 .. N : \A A \in SUBSET X : D[k][A] = Wider(A)
  <2> DEFINE E == [k \in 1 .. N |-> [A \in SUBSET X |-> Wider(A)]]
  <2>1. E \in Rounds(SUBSET X, N)
    BY <1>3 DEF Rounds
  <2>2. \A k \in 1 .. N : \A A \in SUBSET X : E[k][A] = Wider(A)
    OBVIOUS
  <2> HIDE DEF E
  <2> QED BY <2>1, <2>2
<1>7. PICK w \in [0 .. N -> SUBSET X] : w[0] = start /\ \A k \in 1 .. N : w[k] = Wider(w[k - 1])
  <2>1. PICK w : w \in Executions(SUBSET X, N, start, D)
    BY <1>1, <1>5, ExecutionExists
  <2>2. w \in [0 .. N -> SUBSET X] /\ w[0] = start
    BY <2>1 DEF Executions
  <2>3. ASSUME NEW k \in 1 .. N PROVE w[k] = Wider(w[k - 1])
    <3>1. w[k - 1] \in SUBSET X
      BY <1>1, <2>2
    <3> HIDE DEF Wider
    <3> QED BY <1>6, <2>1, <3>1 DEF Executions
  <2> HIDE DEF Wider
  <2> QED BY <2>2, <2>3
<1>8. w = Def(w)
  <2> HIDE DEF Wider
  <2> QED BY <1>1, <1>4, <1>7
<1> DEFINE upTo == CHOOSE f : f = Def(f)
<1>9. upTo = Def(upTo)
  <2> HIDE DEF Def
  <2> QED BY <1>8
<1>10. Around(l) = upTo[N]
  BY DEF Around, Above
<1> HIDE DEF upTo
<1>11. upTo[0] = start /\ \A k \in 1 .. N : upTo[k] = Wider(upTo[k - 1])
  <2> HIDE DEF N
  <2>1. \A k \in 0 .. N : upTo[k] = Def(upTo)[k]
    BY <1>9
  <2>2. 0 \in 0 .. N /\ \A k \in 1 .. N : k \in 0 .. N /\ k # 0
    BY <1>1
  <2> HIDE DEF Wider
  <2> QED BY <1>4, <2>1, <2>2
<1> HIDE DEF Wider
<1> DEFINE P == {k \in 0 .. N : upTo[k] = w[k]}
<1>12. 0 \in P /\ P \in SUBSET (0 .. N)
  BY <1>1, <1>7, <1>11
<1>13. \A k \in 1 .. N : k - 1 \in P => k \in P
  BY <1>1, <1>7, <1>11
<1>14. P = 0 .. N
  <2> HIDE DEF P, N
  <2> QED BY <1>1, <1>12, <1>13, RangeInduction
<1> QED BY <1>1, <1>4, <1>7, <1>10, <1>14 DEF Wider

(* C holds the loop around l and those around what it holds.                 *)
ClosedUp(ou, l, C) == \A m \in DOMAIN ou : m \in C \cup {l} /\ ou[m] # RootLoop => ou[m] \in C

(* The loops around l are the least such set.                                *)
LEMMA AroundLeast ==
    ASSUME NEW H \in SUBSET Nodes, DOMAIN outer \subseteq H,
           outer \in [DOMAIN outer -> H \cup {RootLoop}], NEW l
    PROVE  /\ ClosedUp(outer, l, Around(l) \cap H)
           /\ \A C \in SUBSET H : ClosedUp(outer, l, C) => Around(l) \cap H \subseteq C
<1>1. PICK n, ou, X : n = Cardinality(Nodes) /\ ou = outer /\ X = H \cup {RootLoop}
  OBVIOUS
<1>2. PICK w \in [0 .. n -> SUBSET X] :
        /\ w[0] = Above(ou, {l}) /\ \A k \in 1 .. n : w[k] = w[k - 1] \cup Above(ou, w[k - 1])
        /\ Around(l) = w[n]
  <2>1. outer \in [DOMAIN outer -> X]
    BY <1>1
  <2>2. PICK w \in [0 .. Cardinality(Nodes) -> SUBSET X] :
          /\ w[0] = Above(outer, {l})
          /\ \A k \in 1 .. Cardinality(Nodes) : w[k] = w[k - 1] \cup Above(outer, w[k - 1])
          /\ Around(l) = w[Cardinality(Nodes)]
    BY <2>1, AroundRuns
  <2> QED BY <1>1, <2>2
<1>3. n \in Nat /\ IsFiniteSet(Nodes) /\ RootLoop \notin Nodes
  BY <1>1, GraphsAssumption, FS_CardinalityType DEF RootLoop
<1>4. DOMAIN ou \subseteq H /\ \A m \in DOMAIN ou : ou[m] # RootLoop => ou[m] \in H
  BY <1>1
<1>5. PICK G \in [Nodes -> SUBSET Nodes] :
        \A m \in Nodes : G[m] = {x \in H : m \in DOMAIN ou /\ x = ou[m]}
  <2> DEFINE F == [m \in Nodes |-> {x \in H : m \in DOMAIN ou /\ x = ou[m]}]
  <2>1. F \in [Nodes -> SUBSET Nodes]
    OBVIOUS
  <2>2. \A m \in Nodes : F[m] = {x \in H : m \in DOMAIN ou /\ x = ou[m]}
    OBVIOUS
  <2> HIDE DEF F
  <2> QED BY <2>1, <2>2
<1>6. PICK S : S = Above(ou, {l}) \cap H
  OBVIOUS
<1>7. PICK v : v = [k \in 0 .. n |-> w[k] \cap H]
  OBVIOUS
<1>8. S \in SUBSET Nodes /\ v \in Spreads(Nodes, S, G, n)
  <2>1. v \in [0 .. n -> SUBSET Nodes] /\ v[0] = S
    BY <1>2, <1>3, <1>6, <1>7
  <2>2. ASSUME NEW k \in 1 .. n PROVE v[k] = Spread(G, v[k - 1])
    <3>1. PICK A : A = w[k - 1]
      OBVIOUS
    <3>2. v[k - 1] = A \cap H /\ v[k] = (A \cup Above(ou, A)) \cap H
      BY <1>2, <1>3, <1>7, <3>1
    <3>3. \A x : x \in Above(ou, A) \cap H <=> \E m \in A \cap H : x \in G[m]
      BY <1>4, <1>5 DEF Above
    <3>4. \A x : x \in Spread(G, A \cap H) <=> x \in A \cap H \/ \E m \in A \cap H : x \in G[m]
      BY DEF Spread
    <3> QED BY <3>2, <3>3, <3>4
  <2> QED BY <1>6, <2>1, <2>2 DEF Spreads
<1>9. /\ S \subseteq v[n] /\ Closed(G, v[n])
      /\ \A C \in SUBSET Nodes : S \subseteq C /\ Closed(G, C) => v[n] \subseteq C
  BY <1>1, <1>3, <1>8, SpreadCloses
<1>10. v[n] = Around(l) \cap H
  BY <1>2, <1>3, <1>7
<1>11. ASSUME NEW C \in SUBSET H PROVE ClosedUp(ou, l, C) <=> S \subseteq C /\ Closed(G, C)
  <2>1. S \subseteq C <=> (l \in DOMAIN ou /\ ou[l] # RootLoop => ou[l] \in C)
    BY <1>3, <1>4, <1>6 DEF Above
  <2>2. Closed(G, C) <=> \A m \in DOMAIN ou : m \in C /\ ou[m] # RootLoop => ou[m] \in C
    BY <1>3, <1>4, <1>5 DEF Closed
  <2> QED BY <2>1, <2>2 DEF ClosedUp
<1>12. ClosedUp(ou, l, Around(l) \cap H)
  BY <1>9, <1>10, <1>11
<1>13. ASSUME NEW C \in SUBSET H, ClosedUp(ou, l, C) PROVE Around(l) \cap H \subseteq C
  BY <1>9, <1>10, <1>11, <1>13
<1> QED BY <1>1, <1>12, <1>13

-----------------------------------------------------------------------------
(* The maps when the constructor has returned: every loop has been given its *)
(* content.                                                                  *)
Given(g) == [m \in g.heads |-> Content(g, m) \ {m}]

AllGiven(g, lo, ou, bo) ==
    /\ IsNest(g) /\ Natural(g) /\ Orderly(g) /\ AreMaps(g, lo, ou, bo) /\ DOMAIN lo = g.nodes
    /\ Nesting(g, lo, ou, bo, Given(g))

(* Those of a structured graph are.                                          *)
LEMMA NestFinished ==
    ASSUME LoopInv, LoopsDone, Structured PROVE AllGiven(Nest, loopOf, outer, body)
<1>1. PICK g, q : g = Nest /\ q = LoopHeadPostOrder
  OBVIOUS
<1>2. stage = "loops" /\ stage # "collect"
  BY DEF LoopsDone
<1>3. IsNest(g) /\ Natural(g) /\ Orderly(g) /\ IsQueue(g, q)
  BY <1>1, <1>2, NestFacts
<1>4. /\ Populating(g, q, "loops", nth, loopOf, outer, body, walk, walked)
      /\ Nested(g, q, "loops", nth, loopOf, outer, body, walk, walked)
  BY <1>1, <1>2 DEF LoopInv
<1>5. AreMaps(g, loopOf, outer, body) /\ nth = Len(q) + 1 /\ DOMAIN loopOf = g.nodes
  BY <1>4 DEF Populating
<1>6. Nesting(g, loopOf, outer, body, Got(g, q, "loops", nth, walked))
  BY <1>4 DEF Nested
<1>7. Begun(q, "loops", nth) = g.heads
  <2>1. Len(q) \in Nat /\ DOMAIN q = 1 .. Len(q) /\ ToSet(q) = g.heads
    BY <1>3 DEF IsQueue
  <2>2. nth - 1 = Len(q)
    BY <1>5, <2>1
  <2> QED BY <2>1, <2>2 DEF Begun, ToSet
<1>8. Got(g, q, "loops", nth, walked) = Given(g)
  BY <1>7 DEF Got, Given
<1> QED BY <1>1, <1>3, <1>5, <1>6, <1>8 DEF AllGiven

(* The outer loop comes later and holds the content of the inner one.        *)
LEMMA OuterHolds ==
    ASSUME NEW g, NEW lo, NEW ou, NEW bo, AllGiven(g, lo, ou, bo),
           NEW l \in DOMAIN ou, ou[l] # RootLoop
    PROVE  /\ l \in g.heads /\ ou[l] \in g.heads /\ g.red[ou[l]] /\ l \in g.nat[ou[l]]
           /\ l # ou[l] /\ g.pos[l] < g.pos[ou[l]] /\ Content(g, l) \subseteq g.nat[ou[l]]
<1>1. IsNest(g) /\ Orderly(g) /\ AreMaps(g, lo, ou, bo) /\ Enclosed(g, ou, Given(g))
  BY DEF AllGiven, Nesting
<1>2. l \in g.heads /\ ou[l] \in g.heads
  BY <1>1 DEF AreMaps
<1>3. PICK m : m = ou[l]
  OBVIOUS
<1>4. m \in g.heads /\ g.red[m] /\ l \in g.nat[m] /\ l # m
  BY <1>1, <1>2, <1>3 DEF Enclosed
<1>5. g.pos[l] < g.pos[m]
  BY <1>1, <1>4 DEF Orderly
<1>6. Content(g, l) \subseteq g.nat[m]
  BY <1>1, <1>2, <1>4, <1>5 DEF Orderly
<1> QED BY <1>2, <1>3, <1>4, <1>5, <1>6

(* A node is in its own loop, and what a reducible one has is covered.       *)
LEMMA OwnLoop ==
    ASSUME NEW g, NEW lo, NEW ou, NEW bo, AllGiven(g, lo, ou, bo)
    PROVE  /\ \A x \in g.nodes : lo[x] \in g.heads => x \in Content(g, lo[x])
           /\ \A m \in g.heads : g.red[m] =>
                 \A x \in g.nat[m] \ {m} : CoveredBy(g, lo, ou, m, x)
<1>1. /\ IsNest(g) /\ Natural(g) /\ DOMAIN lo = g.nodes /\ Assigned(g, lo, Given(g))
      /\ Covered(g, lo, ou, Given(g))
  BY DEF AllGiven, Nesting
<1>2. \A m \in g.heads : m \in Content(g, m)
  BY <1>1 DEF Natural, ClosedAround, Content
<1>3. ASSUME NEW x \in g.nodes, lo[x] \in g.heads PROVE x \in Content(g, lo[x])
  <2>1. PICK m : m = lo[x]
    OBVIOUS
  <2>2. CASE x = m
    BY <1>2, <1>3, <2>1, <2>2
  <2>3. CASE x # m
    BY <1>1, <1>3, <2>1, <2>3 DEF Assigned, Given
  <2> QED BY <2>2, <2>3
<1>4. ASSUME NEW m \in g.heads, g.red[m], NEW x \in g.nat[m] \ {m} PROVE CoveredBy(g, lo, ou, m, x)
  <2>1. m \in DOMAIN Given(g) /\ x \in Given(g)[m]
    BY <1>4 DEF Given, Content
  <2> QED BY <1>1, <1>4, <2>1 DEF Covered
<1> QED BY <1>3, <1>4

(* The walk up by getOuterLoop leads to later headers.                       *)
LEMMA NestIsAcyclic == ASSUME LoopInv, LoopsDone, Structured, NEW h \in Heads PROVE h \notin Around(h)
<1>1. PICK g : g = Nest
  OBVIOUS
<1>2. AllGiven(g, loopOf, outer, body) /\ g.heads = Heads
  BY <1>1, NestFinished, NestParts
<1>3. IsNest(g) /\ AreMaps(g, loopOf, outer, body)
  BY <1>2 DEF AllGiven
<1>4. Heads \in SUBSET Nodes /\ DOMAIN outer \subseteq Heads
      /\ outer \in [DOMAIN outer -> Heads \cup {RootLoop}]
  BY <1>2, <1>3 DEF IsNest, AreMaps
<1>5. PICK C : C = {m \in Heads : g.pos[h] < g.pos[m]}
  OBVIOUS
<1>6. ClosedUp(outer, h, C)
  <2>1. ASSUME NEW m \in DOMAIN outer, m \in C \cup {h}, outer[m] # RootLoop PROVE outer[m] \in C
    <3>1. outer[m] \in Heads /\ g.pos[m] < g.pos[outer[m]] /\ m \in Heads
      BY <1>2, <2>1, OuterHolds
    <3>2. g.pos[m] \in Int /\ g.pos[outer[m]] \in Int /\ g.pos[h] \in Int
      BY <1>2, <1>3, <3>1 DEF IsNest
    <3>3. m = h \/ g.pos[h] < g.pos[m]
      BY <1>5, <2>1
    <3> QED BY <1>5, <3>1, <3>2, <3>3
  <2> QED BY <2>1 DEF ClosedUp
<1>7. Around(h) \cap Heads \subseteq C
  BY <1>4, <1>5, <1>6, AroundLeast
<1>8. h \notin C
  <2>1. g.pos[h] \in Int
    BY <1>2, <1>3 DEF IsNest
  <2> QED BY <1>5, <2>1
<1> QED BY <1>7, <1>8

(* The nesting of the loops of a structured graph is a forest.               *)
THEOREM NestIsForest == LoopSpec => []NestAcyclic
<1>1. LoopInv => NestAcyclic
  BY NestIsAcyclic DEF NestAcyclic
<1> QED BY <1>1, LoopInvariance, PTL

-----------------------------------------------------------------------------
(* The loops around a node, if all are reducible: A is what is reached from  *)
(* k, the node's own loop, over the map of outer loops.                      *)
Reached(g, ou, k, A) ==
    /\ A \subseteq g.heads /\ (k \in g.heads => k \in A)
    /\ \A m \in A \cap DOMAIN ou : ou[m] # RootLoop => ou[m] \in A
    /\ \A C \in SUBSET g.heads : (k \in g.heads => k \in C)
          /\ (\A m \in C \cap DOMAIN ou : ou[m] # RootLoop => ou[m] \in C) => A \subseteq C

(* All of them hold the node,                                                *)
LEMMA ReachedHold ==
    ASSUME NEW g, NEW lo, NEW ou, NEW bo, AllGiven(g, lo, ou, bo), \A m \in g.heads : g.red[m],
           NEW n \in g.nodes, NEW A, Reached(g, ou, lo[n], A)
    PROVE  \A m \in A : n \in g.nat[m]
<1>1. PICK C : C = {m \in g.heads : n \in g.nat[m]}
  OBVIOUS
<1>2. lo[n] \in g.heads => lo[n] \in C
  BY <1>1, OwnLoop DEF Content
<1>3. ASSUME NEW m \in C \cap DOMAIN ou, ou[m] # RootLoop PROVE ou[m] \in C
  <2>1. ou[m] \in g.heads /\ Content(g, m) \subseteq g.nat[ou[m]]
    BY <1>3, OuterHolds
  <2> QED BY <1>1, <2>1 DEF Content
<1>4. A \subseteq C
  BY <1>1, <1>2, <1>3 DEF Reached
<1> QED BY <1>1, <1>4

(* and whatever loop holds the node is one of them.                          *)
LEMMA HoldersReached ==
    ASSUME NEW g, NEW lo, NEW ou, NEW bo, AllGiven(g, lo, ou, bo), \A m \in g.heads : g.red[m],
           NEW n \in g.nodes, NEW A, Reached(g, ou, lo[n], A), NEW h \in g.heads, n \in g.nat[h]
    PROVE  h \in A
<1>1. IsNest(g) /\ Natural(g) /\ Orderly(g) /\ AreMaps(g, lo, ou, bo)
  BY DEF AllGiven
<1>2. \A m \in g.heads : lo[m] = m /\ m \in g.nat[m]
  BY <1>1 DEF AreMaps, Natural, ClosedAround
<1>3. \A m \in g.heads : g.pos[m] \in Int
  BY <1>1 DEF IsNest
<1>4. A \subseteq g.heads /\ (lo[n] \in g.heads => lo[n] \in A)
      /\ \A m \in A \cap DOMAIN ou : ou[m] # RootLoop => ou[m] \in A
  BY DEF Reached
<1>5. \A m \in A : n \in g.nat[m]
  BY ReachedHold
<1>6. CASE n = h
  BY <1>2, <1>4, <1>6
<1>7. CASE n # h
  <2> SUFFICES ASSUME h \notin A PROVE FALSE
    OBVIOUS
  <2>1. CoveredBy(g, lo, ou, h, n)
    BY <1>7, OwnLoop
  <2>2. lo[n] \in A /\ g.pos[lo[n]] <= g.pos[h]
    BY <1>4, <2>1 DEF CoveredBy
  <2>3. PICK T : T = {m \in A : g.pos[m] <= g.pos[h]}
    OBVIOUS
  <2>4. PICK m \in T : \A k \in T : g.pos[k] <= g.pos[m]
    <3>1. T # {} /\ \A k \in T : g.pos[k] \in 0 .. Cardinality(Nodes)
      BY <1>1, <1>4, <2>2, <2>3 DEF IsNest
    <3>2. Cardinality(Nodes) \in Nat
      BY GraphsAssumption, FS_CardinalityType
    <3>3. PICK f : f = g.pos
      OBVIOUS
    <3>4. \A k \in T : f[k] \in 0 .. Cardinality(Nodes)
      BY <3>1, <3>3
    <3>5. \E x \in T : \A y \in T : f[y] <= f[x]
      BY <3>1, <3>2, <3>4, Furthest
    <3> QED BY <3>3, <3>5
  <2>5. m \in A /\ m \in g.heads /\ m # h /\ g.pos[m] <= g.pos[h]
    BY <1>4, <2>3
  <2>6. g.pos[m] < g.pos[h]
    <3>1. g.pos[m] # g.pos[h]
      BY <1>1, <2>5 DEF IsNest
    <3> QED BY <1>3, <2>5, <3>1
  <2>7. m \in g.nat[h]
    <3>1. n \in Content(g, m)
      BY <1>5, <2>5 DEF Content
    <3> QED BY <1>1, <2>5, <2>6, <3>1 DEF Orderly
  <2>8. CoveredBy(g, lo, ou, h, m)
    BY <2>5, <2>7, OwnLoop
  <2>9. m \notin g.src[h]
    <3>1. SUFFICES ASSUME m \in g.src[h] PROVE FALSE
      OBVIOUS
    <3>2. g.pos[h] < g.pos[m]
      BY <1>1, <1>2, <2>5, <3>1 DEF Orderly
    <3> QED BY <1>3, <2>5, <2>6, <3>2
  <2>10. m \in DOMAIN ou /\ ou[m] \in g.heads /\ g.pos[ou[m]] <= g.pos[h]
    BY <1>2, <2>5, <2>8, <2>9 DEF CoveredBy
  <2>11. ou[m] # RootLoop
    <3>1. RootLoop \notin Nodes
      BY GraphsAssumption DEF RootLoop
    <3> QED BY <1>1, <2>10, <3>1 DEF IsNest
  <2>12. ou[m] \in A /\ g.pos[m] < g.pos[ou[m]]
    BY <1>4, <2>5, <2>10, <2>11, OuterHolds
  <2>13. g.pos[ou[m]] <= g.pos[m]
    BY <2>3, <2>4, <2>10, <2>12
  <2> QED BY <1>3, <2>5, <2>10, <2>12, <2>13
<1> QED BY <1>6, <1>7

(* Where all loops are reducible, the loops around a node are those its own  *)
(* loop is in.                                                               *)
LEMMA InnermostLoops ==
    ASSUME LoopInv, LoopsDone, Structured, \A m \in Heads : reducible[m],
           NEW n \in Discovered, NEW h \in Heads
    PROVE  n \in NaturalLoop(h) <=> h \in {loopOf[n]} \cup Around(loopOf[n])
<1>1. PICK g, lo, ou, bo : g = Nest /\ lo = loopOf /\ ou = outer /\ bo = body
  OBVIOUS
<1>2. /\ AllGiven(g, lo, ou, bo) /\ g.heads = Heads /\ g.nodes = Discovered
      /\ \A m \in g.heads : g.red[m]
      /\ g.nat[h] = NaturalLoop(h)
  BY <1>1, NestFinished, NestParts
<1>3. IsNest(g) /\ AreMaps(g, lo, ou, bo)
  BY <1>2 DEF AllGiven
<1>4. Heads \in SUBSET Nodes /\ DOMAIN outer \subseteq Heads
      /\ outer \in [DOMAIN outer -> Heads \cup {RootLoop}]
  BY <1>1, <1>2, <1>3 DEF IsNest, AreMaps
<1>5. PICK k, R : k = loopOf[n] /\ R = Around(k) \cap Heads
  OBVIOUS
<1>6. ClosedUp(ou, k, R) /\ \A C \in SUBSET Heads : ClosedUp(ou, k, C) => R \subseteq C
  BY <1>1, <1>4, <1>5, AroundLeast
<1>7. PICK A : A = ({k} \cup Around(k)) \cap Heads
  OBVIOUS
<1>8. Reached(g, ou, k, A)
  <2>1. A \subseteq g.heads /\ (k \in g.heads => k \in A)
    BY <1>2, <1>7
  <2>2. ASSUME NEW m \in A \cap DOMAIN ou, ou[m] # RootLoop PROVE ou[m] \in A
    BY <1>5, <1>6, <1>7, <2>2 DEF ClosedUp
  <2>3. ASSUME NEW C \in SUBSET g.heads, k \in g.heads => k \in C,
               \A m \in C \cap DOMAIN ou : ou[m] # RootLoop => ou[m] \in C
        PROVE  A \subseteq C
    <3>1. DOMAIN ou \subseteq Heads
      BY <1>1, <1>4
    <3>2. ClosedUp(ou, k, C)
      BY <1>2, <2>3, <3>1 DEF ClosedUp
    <3>3. R \subseteq C
      BY <1>2, <1>6, <3>2
    <3> QED BY <1>2, <1>5, <1>7, <2>3, <3>3
  <2> QED BY <2>1, <2>2, <2>3 DEF Reached
<1>9. Reached(g, ou, lo[n], A)
  BY <1>1, <1>5, <1>8
<1>10. h \in A => n \in g.nat[h]
  BY <1>2, <1>9, ReachedHold
<1>11. n \in g.nat[h] => h \in A
  BY <1>2, <1>9, HoldersReached
<1> QED BY <1>2, <1>5, <1>7, <1>10, <1>11

(* The loops that hold a node of a structured graph with reducible loops are *)
(* its own and those around it: it is assigned to the innermost.             *)
THEOREM InnermostFound == LoopSpec => []LoopsInnermost
<1>1. LoopInv => LoopsInnermost
  BY InnermostLoops DEF LoopsInnermost
<1> QED BY <1>1, LoopInvariance, PTL

-----------------------------------------------------------------------------
(* What a loop was given is what its body lists, its inner loops unfolded.   *)
NodesOf(g, bo, l) == {x \in g.nodes : Node(x) \in ToSet(bo[l])}

InnersOf(g, bo, l) == {k \in g.heads : Loop(k) \in ToSet(bo[l])}

(* Inner loops come earlier, and nothing else is listed.                     *)
LEMMA InnerEarlier ==
    ASSUME NEW g, NEW lo, NEW ou, NEW bo, AllGiven(g, lo, ou, bo), NEW l \in g.heads
    PROVE  /\ \A k \in InnersOf(g, bo, l) : k \in DOMAIN ou /\ ou[k] = l /\ g.red[l]
                                          /\ g.pos[k] < g.pos[l] /\ Content(g, k) \subseteq Content(g, l)
           /\ \A k \in g.heads : k \in DOMAIN ou /\ ou[k] = l => k \in InnersOf(g, bo, l)
<1>1. IsNest(g) /\ Listing(g, lo, ou, bo)
  BY DEF AllGiven, Nesting
<1>2. \A k \in g.heads : Loop(k) \in ToSet(bo[l]) <=> k \in DOMAIN ou /\ ou[k] = l
  BY <1>1 DEF Listing
<1>3. l # RootLoop
  <2>1. RootLoop \notin Nodes
    BY GraphsAssumption DEF RootLoop
  <2> QED BY <1>1, <2>1 DEF IsNest
<1>4. ASSUME NEW k \in InnersOf(g, bo, l)
      PROVE  /\ k \in DOMAIN ou /\ ou[k] = l /\ g.red[l]
             /\ g.pos[k] < g.pos[l] /\ Content(g, k) \subseteq Content(g, l)
  <2>1. k \in DOMAIN ou /\ ou[k] = l
    BY <1>2, <1>4 DEF InnersOf
  <2>2. g.red[ou[k]] /\ g.pos[k] < g.pos[ou[k]] /\ Content(g, k) \subseteq g.nat[ou[k]]
    BY <1>3, <2>1, OuterHolds
  <2> QED BY <2>1, <2>2 DEF Content
<1> QED BY <1>2, <1>4 DEF InnersOf

(* A node of a reducible loop that is not listed is in an inner loop.        *)
LEMMA InnerHolds ==
    ASSUME NEW g, NEW lo, NEW ou, NEW bo, AllGiven(g, lo, ou, bo), NEW l \in g.heads, g.red[l],
           NEW x \in g.nat[l], x # l, x \notin g.src[l], lo[x] # l
    PROVE  \E k \in DOMAIN ou : ou[k] = l /\ x \in Content(g, k)
<1>1. IsNest(g) /\ Natural(g) /\ Orderly(g) /\ AreMaps(g, lo, ou, bo) /\ DOMAIN lo = g.nodes
  BY DEF AllGiven
<1>2. \A m \in g.heads : g.pos[m] \in Int /\ lo[m] = m
  BY <1>1 DEF IsNest, AreMaps
<1>3. RootLoop \notin g.heads
  <2>1. RootLoop \notin Nodes
    BY GraphsAssumption DEF RootLoop
  <2> QED BY <1>1, <2>1 DEF IsNest
<1>4. \A y \in g.nat[l] \ {l} : CoveredBy(g, lo, ou, l, y)
  BY OwnLoop
<1>5. PICK k : k = lo[x]
  OBVIOUS
<1>6. k \in DOMAIN ou /\ k \in g.heads /\ ou[k] \in g.heads /\ g.pos[ou[k]] <= g.pos[l]
  BY <1>4, <1>5 DEF CoveredBy
<1>7. x \in Content(g, k)
  <2>1. x \in g.nodes
    BY <1>1 DEF IsNest
  <2> QED BY <1>5, <1>6, <2>1, OwnLoop
<1>8. CASE ou[k] = l
  BY <1>6, <1>7, <1>8
<1>9. CASE ou[k] # l
  <2>1. PICK T : T = {m \in g.heads : g.red[m] /\ x \in g.nat[m] /\ g.pos[m] < g.pos[l]}
    OBVIOUS
  <2>2. ASSUME NEW m \in g.heads, m \in DOMAIN ou, ou[m] \in g.heads, ou[m] # l,
               g.pos[ou[m]] <= g.pos[l], x \in Content(g, m)
        PROVE  ou[m] \in T /\ g.pos[m] < g.pos[ou[m]]
    <3>1. /\ g.red[ou[m]] /\ g.pos[m] < g.pos[ou[m]] /\ Content(g, m) \subseteq g.nat[ou[m]]
      BY <1>3, <2>2, OuterHolds
    <3>2. g.pos[ou[m]] # g.pos[l]
      BY <1>1, <2>2 DEF IsNest
    <3>3. g.pos[ou[m]] < g.pos[l]
      BY <1>2, <2>2, <3>2
    <3> QED BY <2>1, <2>2, <3>1, <3>3
  <2>3. ou[k] \in T
    BY <1>6, <1>7, <1>9, <2>2
  <2>4. PICK m \in T : \A j \in T : g.pos[j] <= g.pos[m]
    <3>1. T # {} /\ \A j \in T : g.pos[j] \in 0 .. Cardinality(Nodes)
      BY <1>1, <2>1, <2>3 DEF IsNest
    <3>2. Cardinality(Nodes) \in Nat
      BY GraphsAssumption, FS_CardinalityType
    <3>3. PICK f : f = g.pos
      OBVIOUS
    <3>4. \A j \in T : f[j] \in 0 .. Cardinality(Nodes)
      BY <3>1, <3>3
    <3>5. \E z \in T : \A y \in T : f[y] <= f[z]
      BY <3>1, <3>2, <3>4, Furthest
    <3> QED BY <3>3, <3>5
  <2>5. m \in g.heads /\ g.red[m] /\ x \in g.nat[m] /\ g.pos[m] < g.pos[l] /\ x \in Content(g, m)
        /\ m # l
    BY <1>2, <2>1 DEF Content
  <2>6. m \in g.nat[l]
    BY <1>1, <2>5 DEF Orderly
  <2>7. CoveredBy(g, lo, ou, l, m)
    BY <1>4, <2>5, <2>6
  <2>8. m \notin g.src[l]
    <3>1. SUFFICES ASSUME m \in g.src[l] PROVE FALSE
      OBVIOUS
    <3>2. m \in g.nat[m]
      BY <1>1, <2>5 DEF Natural, ClosedAround
    <3>3. g.pos[l] < g.pos[m]
      BY <1>1, <2>5, <3>1, <3>2 DEF Orderly
    <3> QED BY <1>2, <2>5, <3>3
  <2>9. m \in DOMAIN ou /\ ou[m] \in g.heads /\ g.pos[ou[m]] <= g.pos[l]
    BY <1>2, <2>5, <2>7, <2>8 DEF CoveredBy
  <2>10. CASE ou[m] = l
    BY <2>5, <2>9, <2>10
  <2>11. CASE ou[m] # l
    <3>1. ou[m] \in T /\ g.pos[m] < g.pos[ou[m]]
      BY <2>2, <2>5, <2>9, <2>11
    <3>2. g.pos[ou[m]] <= g.pos[m]
      BY <2>4, <3>1
    <3> QED BY <1>2, <2>5, <2>9, <3>1, <3>2
  <2> QED BY <2>10, <2>11
<1> QED BY <1>8, <1>9

(* So the body unfolds to the content.                                       *)
LEMMA BodyUnfolds ==
    ASSUME NEW g, NEW lo, NEW ou, NEW bo, AllGiven(g, lo, ou, bo), NEW l \in g.heads
    PROVE  Content(g, l) = {l} \cup NodesOf(g, bo, l)
                           \cup UNION {Content(g, k) : k \in InnersOf(g, bo, l)}
<1>1. /\ IsNest(g) /\ Natural(g) /\ DOMAIN lo = g.nodes /\ Listing(g, lo, ou, bo)
      /\ Assigned(g, lo, Given(g))
  BY DEF AllGiven, Nesting
<1>2. \A x \in g.nodes : x \in NodesOf(g, bo, l) <=> x \in g.src[l] \/ (lo[x] = l /\ x # l)
  BY <1>1 DEF Listing, NodesOf
<1>3. l \in Content(g, l) /\ g.src[l] \subseteq Content(g, l) /\ Content(g, l) \subseteq g.nodes
  BY <1>1 DEF Natural, ClosedAround, Content, IsNest
<1>4. ASSUME NEW x \in NodesOf(g, bo, l) PROVE x \in Content(g, l)
  <2>1. x \in g.nodes
    BY <1>4 DEF NodesOf
  <2>2. x \in g.src[l] \/ (lo[x] = l /\ x # l)
    BY <1>2, <1>4, <2>1
  <2> QED BY <1>1, <1>3, <2>1, <2>2 DEF Assigned, Given
<1>5. \A k \in InnersOf(g, bo, l) : Content(g, k) \subseteq Content(g, l)
  BY InnerEarlier
<1>6. ASSUME NEW x \in Content(g, l), x # l, x \notin NodesOf(g, bo, l)
      PROVE  \E k \in InnersOf(g, bo, l) : x \in Content(g, k)
  <2>1. x \in g.nodes /\ x \notin g.src[l] /\ lo[x] # l
    BY <1>2, <1>3, <1>6
  <2>2. g.red[l] /\ x \in g.nat[l]
    BY <1>6, <2>1 DEF Content
  <2>3. PICK k \in DOMAIN ou : ou[k] = l /\ x \in Content(g, k)
    BY <1>6, <2>1, <2>2, InnerHolds
  <2>4. k \in g.heads
    BY DEF AllGiven, AreMaps
  <2> QED BY <2>3, <2>4, InnerEarlier
<1> QED BY <1>3, <1>4, <1>5, <1>6

-----------------------------------------------------------------------------
(* getLinearOrder: what is put down for the items of a body, the inner loops *)
(* unfolded as u says, and for the loop.                                     *)
Parts(b, l, u) ==
    [i \in DOMAIN b[l] |-> IF Reverse(b[l])[i].kind = "node" THEN <<Reverse(b[l])[i].id>>
                           ELSE u[Reverse(b[l])[i].id]]

Unfolded(b, l, u) == <<l>> \o FlattenSeq(Parts(b, l, u))

(* A body from back to front has the same items.                             *)
LEMMA ReverseItems ==
    ASSUME NEW S, NEW s \in Seq(S)
    PROVE  /\ \A i \in DOMAIN s : Reverse(s)[i] \in ToSet(s)
           /\ \A x \in ToSet(s) : \E i \in DOMAIN s : Reverse(s)[i] = x
<1>1. PICK n : n = Len(s)
  OBVIOUS
<1>2. n \in Nat /\ DOMAIN s = 1 .. n
  BY <1>1
<1>3. \A i \in 1 .. n : n - i + 1 \in 1 .. n /\ Reverse(s)[i] = s[n - i + 1]
  BY <1>1, <1>2 DEF Reverse
<1>4. \A i \in 1 .. n : Reverse(s)[i] \in ToSet(s)
  BY <1>2, <1>3 DEF ToSet
<1>5. ASSUME NEW x \in ToSet(s) PROVE \E i \in 1 .. n : Reverse(s)[i] = x
  <2>1. PICK j \in 1 .. n : s[j] = x
    BY <1>2 DEF ToSet
  <2>2. PICK i : i = n - j + 1
    OBVIOUS
  <2>3. i \in 1 .. n /\ n - i + 1 = j
    BY <1>2, <2>2
  <2> QED BY <1>3, <2>1, <2>3
<1> QED BY <1>2, <1>4, <1>5

(* An item is a node or a loop.                                              *)
LEMMA ItemsAre ==
    ASSUME NEW g, NEW item \in Items(g)
    PROVE  \/ item.kind = "node" /\ item.id \in g.nodes /\ item = Node(item.id)
           \/ item.kind = "loop" /\ item.id \in g.heads /\ item = Loop(item.id)
<1>1. CASE \E n \in g.nodes : item = Node(n)
  BY <1>1 DEF Node
<1>2. CASE \E h \in g.heads : item = Loop(h)
  BY <1>2 DEF Loop
<1> QED BY <1>1, <1>2 DEF Items

(* What is unfolded has items, and the loops have something to unfold to.    *)
Unfolding(g, b, l, Y, u) ==
    /\ b \in [DOMAIN b -> Seq(Items(g))] /\ g.heads \subseteq DOMAIN b
    /\ l \in DOMAIN b /\ g.nodes \subseteq Y /\ l \in Y
    /\ \A k \in g.heads : u[k] \in Seq(Y)

(* A loop unfolds to itself, the nodes and what its inner loops unfold to.   *)
LEMMA UnfoldedHas ==
    ASSUME NEW g, NEW b, NEW l, NEW Y, NEW u, Unfolding(g, b, l, Y, u)
    PROVE  /\ Unfolded(b, l, u) \in Seq(Y)
           /\ ToSet(Unfolded(b, l, u)) = {l} \cup NodesOf(g, b, l)
                                         \cup UNION {ToSet(u[k]) : k \in InnersOf(g, b, l)}
<1>1. PICK s, r, ss, I : s = b[l] /\ r = Reverse(s) /\ ss = Parts(b, l, u) /\ I = Items(g)
  OBVIOUS
<1>0. /\ b \in [DOMAIN b -> Seq(Items(g))] /\ l \in DOMAIN b /\ l \in Y /\ g.nodes \subseteq Y
      /\ \A k \in g.heads : u[k] \in Seq(Y)
  BY DEF Unfolding
<1>2. s \in Seq(I)
  BY <1>0, <1>1
<1>3. PICK n : n = Len(s)
  OBVIOUS
<1>4. n \in Nat /\ DOMAIN s = 1 .. n /\ ToSet(s) \subseteq I
  BY <1>2, <1>3 DEF ToSet
<1>5. /\ \A i \in 1 .. n : r[i] \in ToSet(s)
      /\ \A x \in ToSet(s) : \E i \in 1 .. n : r[i] = x
  BY <1>1, <1>2, <1>4, ReverseItems
<1>6. ss = [i \in 1 .. n |-> IF r[i].kind = "node" THEN <<r[i].id>> ELSE u[r[i].id]]
  BY <1>1, <1>4 DEF Parts
<1>7. ASSUME NEW i \in 1 .. n
      PROVE  \/ r[i] = Node(r[i].id) /\ r[i].id \in NodesOf(g, b, l) /\ ss[i] = <<r[i].id>>
             \/ r[i] = Loop(r[i].id) /\ r[i].id \in InnersOf(g, b, l) /\ ss[i] = u[r[i].id]
  <2>1. r[i] \in Items(g) /\ r[i] \in ToSet(b[l])
    BY <1>1, <1>4, <1>5
  <2>2. CASE r[i].kind = "node" /\ r[i].id \in g.nodes /\ r[i] = Node(r[i].id)
    BY <1>6, <2>1, <2>2 DEF NodesOf
  <2>3. CASE r[i].kind = "loop" /\ r[i].id \in g.heads /\ r[i] = Loop(r[i].id)
    BY <1>6, <2>1, <2>3 DEF InnersOf
  <2> QED BY <2>1, <2>2, <2>3, ItemsAre
<1>8. \A i \in 1 .. n : ss[i] \in Seq(Y)
  <2> SUFFICES ASSUME NEW i \in 1 .. n PROVE ss[i] \in Seq(Y)
    OBVIOUS
  <2>1. PICK x : x = r[i].id
    OBVIOUS
  <2>2. CASE x \in NodesOf(g, b, l) /\ ss[i] = <<x>>
    <3>1. x \in Y
      BY <1>0, <2>2 DEF NodesOf
    <3> QED BY <2>2, <3>1
  <2>3. CASE x \in InnersOf(g, b, l) /\ ss[i] = u[x]
    BY <1>0, <2>3 DEF InnersOf
  <2> QED BY <1>7, <2>1, <2>2, <2>3
<1>9. ss \in Seq(Seq(Y))
  <2>1. PICK Z : Z = Seq(Y)
    OBVIOUS
  <2>2. ss \in [1 .. n -> Z]
    BY <1>6, <1>8, <2>1
  <2>3. ss \in Seq(Z)
    BY <1>4, <2>2
  <2> QED BY <2>1, <2>3
<1>10. PICK t, e : t = FlattenSeq(ss) /\ e = <<l>>
  OBVIOUS
<1>11. t \in Seq(Y) /\ ToSet(t) = Pieces(ss, n)
  <2>1. Len(ss) = n
    BY <1>4, <1>6
  <2> QED BY <1>9, <1>10, <2>1, FlattenHolds
<1>12. e \in Seq(Y) /\ ToSet(e) = {l}
  BY <1>0, <1>10 DEF ToSet
<1>13. ToSet(e \o t) = {l} \cup Pieces(ss, n) /\ e \o t \in Seq(Y)
  BY <1>11, <1>12, ConcatSet
<1>14. \A x : x \in Pieces(ss, n) <=> \E i \in 1 .. n : x \in ToSet(ss[i])
  BY DEF Pieces
<1>15. \A x : ToSet(<<x>>) = {x}
  BY DEF ToSet
<1>16. ASSUME NEW x \in Pieces(ss, n)
       PROVE  x \in NodesOf(g, b, l) \/ \E k \in InnersOf(g, b, l) : x \in ToSet(u[k])
  <2>1. PICK i \in 1 .. n : x \in ToSet(ss[i])
    BY <1>14
  <2>2. PICK y : y = r[i].id
    OBVIOUS
  <2>3. CASE y \in NodesOf(g, b, l) /\ ss[i] = <<y>>
    BY <1>15, <2>1, <2>3
  <2>4. CASE y \in InnersOf(g, b, l) /\ ss[i] = u[y]
    BY <2>1, <2>4
  <2> QED BY <1>7, <2>2, <2>3, <2>4
<1>17. ASSUME NEW x \in NodesOf(g, b, l) PROVE x \in Pieces(ss, n)
  <2>1. PICK i \in 1 .. n : r[i] = Node(x)
    BY <1>1, <1>5 DEF NodesOf
  <2>2. r[i].id = x /\ \A k : r[i] # Loop(k)
    BY <2>1, ItemsDiffer DEF Node
  <2>3. ss[i] = <<x>>
    BY <1>7, <2>2
  <2>4. x \in ToSet(ss[i])
    BY <1>15, <2>3
  <2> QED BY <1>14, <2>4
<1>18. ASSUME NEW k \in InnersOf(g, b, l), NEW x \in ToSet(u[k]) PROVE x \in Pieces(ss, n)
  <2>1. PICK i \in 1 .. n : r[i] = Loop(k)
    BY <1>1, <1>5 DEF InnersOf
  <2>2. r[i].id = k /\ \A y : r[i] # Node(y)
    BY <2>1, ItemsDiffer DEF Loop
  <2>3. ss[i] = u[k]
    BY <1>7, <2>2
  <2> QED BY <1>14, <1>18, <2>3
<1>19. Unfolded(b, l, u) = e \o t
  BY <1>1, <1>10 DEF Unfolded
<1> QED BY <1>13, <1>16, <1>17, <1>18, <1>19

(* The recursion over the depth of the nest: what is put down in d rounds.   *)
LinearRounds(b, n, f) ==
    \A d \in 0 .. n : \A l \in DOMAIN b :
        f[d][l] = Unfolded(b, l, IF d = 0 THEN [k \in DOMAIN b |-> << >>] ELSE f[d - 1])

(* LinearOrderOf is the last of these.                                       *)
LEMMA LinearRuns ==
    ASSUME NEW g, body \in [DOMAIN body -> Seq(Items(g))], g.heads \subseteq DOMAIN body,
           g.nodes \subseteq Nodes, g.heads = Heads, Heads \subseteq Nodes
    PROVE  \E f : /\ LinearRounds(body, Cardinality(Heads), f)
                  /\ \A h : LinearOrderOf(h) = f[Cardinality(Heads)][h]
<1> DEFINE N == Cardinality(Heads)
           B == DOMAIN body
           Y == Nodes \cup B
           X == [B -> Seq(Y)]
           none == [k \in B |-> << >>]
           Round(u) == [l \in B |-> Unfolded(body, l, u)]
           Later(f) == [d \in 0 .. N |-> Round(IF d = 0 THEN none ELSE f[d - 1])]
           Def(f) == [d \in 0 .. N |->
                        [l \in DOMAIN body |->
                           <<l>> \o FlattenSeq([i \in DOMAIN body[l] |->
                               LET item == Reverse(body[l])[i]
                               IN  IF item.kind = "node" THEN <<item.id>>
                                   ELSE IF d = 0 THEN << >> ELSE f[d - 1][item.id]])]]
<1>1. N \in Nat
  <2>1. IsFiniteSet(Heads)
    BY GraphsAssumption, FS_Subset
  <2> QED BY <2>1, FS_CardinalityType
<1>2. ASSUME NEW f, NEW d \in 0 .. N, NEW l \in B, NEW i \in DOMAIN body[l]
      PROVE  (IF Reverse(body[l])[i].kind = "node" THEN <<Reverse(body[l])[i].id>>
              ELSE IF d = 0 THEN << >> ELSE f[d - 1][Reverse(body[l])[i].id])
             = (IF Reverse(body[l])[i].kind = "node" THEN <<Reverse(body[l])[i].id>>
                ELSE (IF d = 0 THEN none ELSE f[d - 1])[Reverse(body[l])[i].id])
  <2>1. PICK item, S, s : item = Reverse(body[l])[i] /\ S = Items(g) /\ s = body[l]
    OBVIOUS
  <2>2. s \in Seq(S)
    BY <2>1
  <2>3. item \in ToSet(s)
    BY <2>1, <2>2, ReverseItems
  <2>4. item \in Items(g)
    BY <2>1, <2>2, <2>3 DEF ToSet
  <2>5. item.kind = "node" \/ item.id \in B
    BY <2>4, ItemsAre
  <2>6. item.id \in B => none[item.id] = << >>
    OBVIOUS
  <2> HIDE DEF none, B
  <2> QED BY <2>1, <2>5, <2>6
<1>3. \A f : Def(f) = Later(f)
  <2> SUFFICES ASSUME NEW f PROVE Def(f) = Later(f)
    OBVIOUS
  <2>1. ASSUME NEW d \in 0 .. N, NEW l \in B
        PROVE  [i \in DOMAIN body[l] |->
                  LET item == Reverse(body[l])[i]
                  IN  IF item.kind = "node" THEN <<item.id>>
                      ELSE IF d = 0 THEN << >> ELSE f[d - 1][item.id]]
               = Parts(body, l, IF d = 0 THEN none ELSE f[d - 1])
    BY <1>2 DEF Parts
  <2>2. \A d \in 0 .. N : \A l \in B : Def(f)[d][l] = Unfolded(body, l, IF d = 0 THEN none ELSE f[d - 1])
    BY <2>1 DEF Unfolded
  <2>3. \A d \in 0 .. N : Def(f)[d] = Round(IF d = 0 THEN none ELSE f[d - 1])
    BY <2>2
  <2> QED BY <2>3
<1> HIDE DEF Def
<1>4. none \in X
  BY DEF X
<1>5. \A u \in X : Round(u) \in X
  <2> SUFFICES ASSUME NEW u \in X PROVE Round(u) \in X
    OBVIOUS
  <2>1. \A k \in g.heads : u[k] \in Seq(Y)
    OBVIOUS
  <2>2. ASSUME NEW l \in B PROVE Unfolded(body, l, u) \in Seq(Y)
    <3>1. Unfolding(g, body, l, Y, u)
      BY <2>1 DEF Unfolding
    <3> QED BY <3>1, UnfoldedHas
  <2> QED BY <2>2
<1> HIDE DEF X, Round, none
<1>6. PICK w \in [0 .. N -> X] : w[0] = Round(none) /\ \A k \in 1 .. N : w[k] = Round(w[k - 1])
  <2>1. PICK D \in Rounds(X, N) : \A k \in 1 .. N : \A u \in X : D[k][u] = Round(u)
    <3> DEFINE E == [k \in 1 .. N |-> [u \in X |-> Round(u)]]
    <3>1. E \in Rounds(X, N)
      BY <1>5 DEF Rounds
    <3>2. \A k \in 1 .. N : \A u \in X : E[k][u] = Round(u)
      OBVIOUS
    <3> HIDE DEF E
    <3> QED BY <3>1, <3>2
  <2>2. PICK start : start = Round(none)
    OBVIOUS
  <2>3. start \in X
    BY <1>4, <1>5, <2>2
  <2>4. PICK w : w \in Executions(X, N, start, D)
    BY <1>1, <2>1, <2>3, ExecutionExists
  <2>5. w \in [0 .. N -> X] /\ w[0] = start
    BY <2>4 DEF Executions
  <2>6. ASSUME NEW k \in 1 .. N PROVE w[k] = Round(w[k - 1])
    <3>1. w[k - 1] \in X
      BY <1>1, <2>5
    <3> QED BY <2>1, <2>4, <3>1 DEF Executions
  <2> QED BY <2>2, <2>5, <2>6
<1>7. w = Later(w)
  BY <1>1, <1>6
<1>8. PICK f : f = CHOOSE h : h = Def(h)
  OBVIOUS
<1>9. f = Def(f)
  BY <1>3, <1>7, <1>8
<1>10. \A h : LinearOrderOf(h) = f[N][h]
  BY <1>8 DEF LinearOrderOf, Def
<1>11. f = Later(f)
  BY <1>3, <1>9
<1>12. LinearRounds(body, N, f)
  <2>1. \A d \in 0 .. N : f[d] = Later(f)[d]
    BY <1>11
  <2>2. \A d \in 0 .. N : f[d] = Round(IF d = 0 THEN none ELSE f[d - 1])
    BY <2>1
  <2>3. ASSUME NEW d \in 0 .. N, NEW l \in DOMAIN body
        PROVE  f[d][l] = Unfolded(body, l, IF d = 0 THEN none ELSE f[d - 1])
    <3>1. f[d] = Round(IF d = 0 THEN none ELSE f[d - 1])
      BY <2>2
    <3>2. \A u : Round(u)[l] = Unfolded(body, l, u)
      BY DEF Round
    <3> QED BY ONLY <3>1, <3>2
  <2> QED BY <2>3 DEF LinearRounds, none
<1> QED BY <1>10, <1>12

(* As many rounds as there are loops                                         *)
Unrolled(g, lo, ou, bo, q, n, f) ==
    /\ AllGiven(g, lo, ou, bo) /\ IsQueue(g, q) /\ n \in Nat /\ n = Len(q)
    /\ LinearRounds(bo, n, f)

(* unfold them all: the loop at the place j of the queue takes j - 1.        *)
LEMMA RoundsUnfold ==
    ASSUME NEW g, NEW lo, NEW ou, NEW bo, NEW q, NEW n, NEW f, Unrolled(g, lo, ou, bo, q, n, f)
    PROVE  \A j \in DOMAIN q : ToSet(f[n][q[j]]) = Content(g, q[j])
<1>0. /\ AllGiven(g, lo, ou, bo) /\ IsQueue(g, q) /\ n \in Nat /\ n = Len(q)
      /\ LinearRounds(bo, n, f)
  BY DEF Unrolled
<1>1. /\ IsNest(g) /\ bo \in [DOMAIN bo -> Seq(Items(g))] /\ g.heads \subseteq DOMAIN bo
      /\ g.nodes \subseteq Nodes /\ g.heads \subseteq Nodes
  BY <1>0 DEF AllGiven, AreMaps, IsNest
<1>2. /\ Len(q) \in Nat /\ DOMAIN q = 1 .. Len(q) /\ \A i \in DOMAIN q : q[i] \in g.heads
      /\ \A h \in g.heads : \E i \in DOMAIN q : q[i] = h
      /\ \A i, k \in DOMAIN q : i < k => g.pos[q[i]] < g.pos[q[k]]
  BY <1>0 DEF IsQueue, ToSet
<1>3. ASSUME NEW i \in DOMAIN q, NEW k \in DOMAIN q, g.pos[q[i]] < g.pos[q[k]] PROVE i < k
  <2>1. g.pos[q[i]] \in Int /\ g.pos[q[k]] \in Int
    BY <1>1, <1>2 DEF IsNest
  <2>2. i \in Int /\ k \in Int
    BY <1>2
  <2>3. ~(k < i) /\ i # k
    BY <1>2, <1>3, <2>1
  <2> QED BY <2>2, <2>3
<1>4. PICK Y, none : Y = Nodes \cup DOMAIN bo /\ none = [k \in DOMAIN bo |-> << >>]
  OBVIOUS
<1> DEFINE Done(d) == \A i \in DOMAIN q : /\ f[d][q[i]] \in Seq(Y)
                                          /\ i <= d + 1 => ToSet(f[d][q[i]]) = Content(g, q[i])
<1>5. ASSUME NEW d \in 0 .. n, NEW u, u = (IF d = 0 THEN none ELSE f[d - 1]),
             \A k \in g.heads : u[k] \in Seq(Y),
             \A i \in DOMAIN q : i <= d => ToSet(u[q[i]]) = Content(g, q[i])
      PROVE  Done(d)
  <2> SUFFICES ASSUME NEW i \in DOMAIN q
               PROVE  /\ f[d][q[i]] \in Seq(Y)
                      /\ i <= d + 1 => ToSet(f[d][q[i]]) = Content(g, q[i])
    OBVIOUS
  <2>1. PICK l : l = q[i]
    OBVIOUS
  <2>2. l \in g.heads /\ l \in DOMAIN bo /\ l \in Y /\ g.nodes \subseteq Y
    BY <1>1, <1>2, <1>4, <2>1
  <2>3. f[d][l] = Unfolded(bo, l, u)
    BY <1>0, <1>4, <1>5, <2>2 DEF LinearRounds
  <2>4. /\ f[d][l] \in Seq(Y)
        /\ ToSet(f[d][l]) = {l} \cup NodesOf(g, bo, l) \cup UNION {ToSet(u[k]) : k \in InnersOf(g, bo, l)}
    <3>1. \A k \in g.heads : u[k] \in Seq(Y)
      BY <1>5
    <3>2. Unfolding(g, bo, l, Y, u)
      BY <1>1, <2>2, <3>1 DEF Unfolding
    <3>3. /\ Unfolded(bo, l, u) \in Seq(Y)
          /\ ToSet(Unfolded(bo, l, u)) = {l} \cup NodesOf(g, bo, l)
                                         \cup UNION {ToSet(u[k]) : k \in InnersOf(g, bo, l)}
      BY ONLY <3>2, UnfoldedHas
    <3> QED BY ONLY <2>3, <3>3
  <2>5. ASSUME i <= d + 1, NEW k \in InnersOf(g, bo, l) PROVE ToSet(u[k]) = Content(g, k)
    <3>1. k \in g.heads /\ g.pos[k] < g.pos[l]
      BY <1>0, <2>2, <2>5, InnerEarlier DEF InnersOf
    <3>2. PICK m \in DOMAIN q : q[m] = k
      BY <1>2, <3>1
    <3>3. m < i
      BY <1>3, <2>1, <3>1, <3>2
    <3>4. m \in Nat /\ i \in Nat
      BY <1>2
    <3>5. m <= d
      BY <2>5, <3>3, <3>4
    <3> QED BY <1>5, <3>2, <3>5
  <2>6. Content(g, l) = {l} \cup NodesOf(g, bo, l) \cup UNION {Content(g, k) : k \in InnersOf(g, bo, l)}
    BY <1>0, <2>2, BodyUnfolds
  <2>7. ASSUME i <= d + 1 PROVE ToSet(f[d][l]) = Content(g, l)
    BY <2>4, <2>5, <2>6, <2>7
  <2> QED BY <2>1, <2>4, <2>7
<1> DEFINE P == {d \in 0 .. n : Done(d)}
<1>6. 0 \in P
  <2>1. \A k \in g.heads : none[k] = << >>
    BY <1>1, <1>4
  <2>2. \A k \in g.heads : none[k] \in Seq(Y)
    <3>1. << >> \in Seq(Y)
      OBVIOUS
    <3> QED BY ONLY <2>1, <3>1
  <2>3. \A i \in DOMAIN q : ~(i <= 0)
    BY <1>2
  <2>4. 0 \in 0 .. n
    BY <1>0
  <2>5. Done(0)
    <3> HIDE DEF Done
    <3> QED BY <1>5, <2>2, <2>3, <2>4
  <2> QED BY <2>4, <2>5
<1>7. ASSUME NEW d \in 1 .. n, d - 1 \in P PROVE d \in P
  <2>1. PICK u : u = f[d - 1]
    OBVIOUS
  <2>2. \A i \in DOMAIN q : /\ u[q[i]] \in Seq(Y)
                            /\ i <= (d - 1) + 1 => ToSet(u[q[i]]) = Content(g, q[i])
    BY <1>7, <2>1
  <2>3. (d - 1) + 1 = d /\ d \in 0 .. n /\ d # 0
    BY <1>0
  <2>4. \A k \in g.heads : u[k] \in Seq(Y)
    BY <1>2, <2>2
  <2>5. \A i \in DOMAIN q : i <= d => ToSet(u[q[i]]) = Content(g, q[i])
    BY <2>2, <2>3
  <2>6. Done(d)
    <3> HIDE DEF Done
    <3> QED BY <1>5, <2>1, <2>3, <2>4, <2>5
  <2> QED BY <2>3, <2>6
<1>8. P \in SUBSET (0 .. n)
  OBVIOUS
<1>9. P = 0 .. n
  <2> HIDE DEF P
  <2> QED BY <1>0, <1>6, <1>7, <1>8, RangeInduction
<1>10. Done(n)
  <2>1. n \in P
    BY <1>0, <1>9
  <2> QED BY <2>1
<1>11. \A j \in DOMAIN q : j <= n + 1
  BY <1>0, <1>2
<1> QED BY <1>10, <1>11

(* The linear order of a loop is its content.                                *)
LEMMA LinearOrderHas ==
    ASSUME LoopInv, LoopsDone, Structured, NEW h \in Heads
    PROVE  ToSet(LinearOrderOf(h)) = Content(Nest, h)
<1>1. PICK g, q : g = Nest /\ q = LoopHeadPostOrder
  OBVIOUS
<1>2. AllGiven(g, loopOf, outer, body) /\ g.heads = Heads
  BY <1>1, NestFinished, NestParts
<1>3. IsQueue(g, q) /\ TreeInv /\ phase = "done"
  BY <1>1, NestFacts DEF LoopsDone, Analyzed
<1>4. /\ IsNest(g) /\ body \in [DOMAIN body -> Seq(Items(g))] /\ g.heads \subseteq DOMAIN body
      /\ g.nodes \subseteq Nodes /\ Heads \subseteq Nodes
  BY <1>2 DEF AllGiven, AreMaps, IsNest
<1>5. PICK n : n = Cardinality(Heads)
  OBVIOUS
<1>6. PICK f : LinearRounds(body, n, f) /\ \A x : LinearOrderOf(x) = f[n][x]
  BY <1>2, <1>4, <1>5, LinearRuns
<1>7. Len(q) = n /\ n \in Nat
  <2>1. IsOrder(q)
    <3>1. q \in Seq(Nodes)
      BY <1>2, <1>3, <1>4 DEF IsQueue
    <3>2. \A i \in DOMAIN q : g.pos[q[i]] \in Int /\ i \in Int
      BY <1>2, <1>3, <1>4 DEF IsQueue, IsNest
    <3>3. ASSUME NEW i \in DOMAIN q, NEW j \in DOMAIN q, q[i] = q[j] PROVE i = j
      <4>1. ~(i < j) /\ ~(j < i)
        BY <1>3, <3>2, <3>3 DEF IsQueue
      <4> QED BY <3>2, <4>1
    <3> QED BY <3>1, <3>3 DEF IsOrder, IsInjective
  <2>2. Cardinality(ToSet(q)) = Len(q) /\ ToSet(q) = Heads /\ Len(q) \in Nat
    BY <1>2, <1>3, <2>1, OrderCounts DEF IsQueue
  <2> QED BY <1>5, <2>2
<1>8. PICK j \in DOMAIN q : q[j] = h
  BY <1>2, <1>3 DEF IsQueue, ToSet
<1>9. Unrolled(g, loopOf, outer, body, q, n, f)
  BY <1>2, <1>3, <1>6, <1>7 DEF Unrolled
<1>10. ToSet(f[n][q[j]]) = Content(g, q[j])
  BY ONLY <1>8, <1>9, RoundsUnfold
<1> QED BY <1>1, <1>6, <1>8, <1>10

(* The loops of a structured graph nest, and the body of a reducible one,    *)
(* inner loops unfolded, is its natural loop.                                *)
THEOREM BodiesAreNatural == LoopSpec => []BodiesNatural
<1>1. LoopInv => BodiesNatural
  <2> SUFFICES ASSUME LoopInv PROVE BodiesNatural
    OBVIOUS
  <2>1. NestAcyclic
    BY NestIsAcyclic DEF NestAcyclic
  <2>2. ASSUME LoopsDone, Structured, NEW h \in Heads, reducible[h]
        PROVE  ToSet(LinearOrderOf(h)) = NaturalLoop(h)
    <3>1. Nest.red[h] /\ Nest.nat[h] = NaturalLoop(h)
      BY <2>2, NestParts
    <3>2. ToSet(LinearOrderOf(h)) = Content(Nest, h)
      BY <2>2, LinearOrderHas
    <3> QED BY <3>1, <3>2 DEF Content
  <2> QED BY <2>1, <2>2 DEF BodiesNatural
<1> QED BY <1>1, LoopInvariance, PTL

-----------------------------------------------------------------------------
(* The analysis of liveness, which asks for the linear order and the loops   *)
(* of blocks, changes nothing of what LoopAnalyzer found: its behaviours are *)
(* those of the constructor.                                                 *)
THEOREM LivenessKeepsLoops == LiveSpec => LoopSpec
<1>1. LiveInit => LoopInit
  BY DEF LiveInit
<1>2. [LiveNext]_everyVar => [LoopNext]_allVars
  <2> SUFFICES ASSUME [LiveNext]_everyVar PROVE LoopNext \/ UNCHANGED allVars
    OBVIOUS
  <2>1. CASE LoopStep
    BY <2>1 DEF LoopStep, LoopNext
  <2>2. CASE BuildLinearOrder \/ WalkBlock \/ Shrink
    BY <2>2 DEF BuildLinearOrder, WalkBlock, Shrink, allVars
  <2>3. CASE LivenessTerminated \/ UNCHANGED everyVar
    BY <2>3 DEF LivenessTerminated, everyVar
  <2> QED BY <2>1, <2>2, <2>3 DEF LiveNext
<1> QED BY <1>1, <1>2, PTL DEF LiveSpec, LoopSpec

(* So what holds of the loops holds of them wherever the analysis of         *)
(* liveness looks at them.                                                   *)
THEOREM LoopsOfLiveness == LiveSpec => [](LoopTypeOK /\ BodiesNatural /\ LoopsInnermost)
BY LivenessKeepsLoops, LoopTypes, BodiesAreNatural, InnermostFound, PTL
=============================================================================
