--------------------------- MODULE DomTree_proofs ---------------------------
(* Proofs about DepthFirstSearch and DomTree, for every finite graph: the    *)
(* search, the forest that find compresses, the times that fall, the tree,   *)
(* and what dominance is.                                                    *)
EXTENDS DomTree, FiniteIteration, SequenceTheorems

-----------------------------------------------------------------------------
(* The inductive invariant, in parts: col the colours, stk a stack, pre and  *)
(* post the orders, be the reported edges, suc the successors.               *)

(* Grey are the nodes on the stack, black the finished ones.                 *)
Colors(col, stk, pre, post) ==
    \A n \in Nodes :
        /\ col[n] = "grey" <=> \E i \in DOMAIN stk : stk[i].node = n
        /\ col[n] = "black" <=> n \in ToSet(post)
        /\ col[n] # "white" <=> n \in ToSet(pre)

(* No node is open twice.                                                    *)
OpenOnce(stk) == \A i, j \in DOMAIN stk : stk[i].node = stk[j].node => i = j

(* The open nodes were discovered from the bottom of the stack to its top.   *)
InOrder(stk, pre) ==
    \A i, j \in DOMAIN stk : i <= j =>
        \E p, q \in DOMAIN pre : p <= q /\ pre[p] = stk[i].node /\ pre[q] = stk[j].node

(* Of the successors that an open node has been asked for, all are finished  *)
(* or reported, but the last one if the frame above is about it; n is what   *)
(* is about to be above the top.                                             *)
Settled(m, n, post, be) == n \in ToSet(post) \/ <<m, n>> \in ToSet(be)

Passed(stk, n, post, be, suc) ==
    \A i \in DOMAIN stk :
        /\ stk[i].first <= Len(suc[stk[i].node]) + 1
        /\ \A l \in 1 .. stk[i].first - 1 :
              \/ Settled(stk[i].node, suc[stk[i].node][l], post, be)
              \/ /\ l = stk[i].first - 1
                 /\ suc[stk[i].node][l] = IF i < Len(stk) THEN stk[i + 1].node ELSE n

(* Every successor of a finished node was finished before it or is reported. *)
Finished(post, be, suc) ==
    \A i \in DOMAIN post : \A n \in ToSet(suc[post[i]]) :
       \/ \E j \in 1 .. i - 1 : post[j] = n
       \/ <<post[i], n>> \in ToSet(be)

(* The target of a reported edge is open, below its source or after the      *)
(* source was finished, or finished no earlier than the source.              *)
Reported(stk, post, be) ==
    \A e \in ToSet(be) :
        \/ \E i, j \in DOMAIN stk : i <= j /\ stk[i].node = e[2] /\ stk[j].node = e[1]
        \/ e[1] \in ToSet(post) /\ \E i \in DOMAIN stk : stk[i].node = e[2]
        \/ \E i, j \in DOMAIN post : j <= i /\ post[i] = e[2] /\ post[j] = e[1]

SeenInOrder(pre, be) ==
    \A e \in ToSet(be) :
        \E i, j \in DOMAIN pre : i <= j /\ pre[i] = e[2] /\ pre[j] = e[1]

(* What is discovered is reachable, and the entry is among it.               *)
DiscoveredReachable ==
    /\ ToSet(preOrder) \subseteq Reachable
    /\ started => graph.entry \in ToSet(preOrder) \cup {NoNode}
    /\ ~started => toVisit = << >> /\ preOrder = << >>

DfsInv ==
    /\ DfsTypeOK
    /\ Colors(color, toVisit, preOrder, postOrder)
    /\ OpenOnce(toVisit) /\ IsInjective(preOrder) /\ IsInjective(postOrder)
    /\ InOrder(toVisit, preOrder)
    /\ Passed(toVisit, NoNode, postOrder, backEdges, succ)
    /\ Finished(postOrder, backEdges, succ)
    /\ Reported(toVisit, postOrder, backEdges) /\ SeenInOrder(preOrder, backEdges)
    /\ DiscoveredReachable

-----------------------------------------------------------------------------
(* What Reachable is: its recursion stops at the least set of nodes that     *)
(* holds the entry and every successor of a node it holds.                   *)
Grown(A) == A \cup {n \in Nodes : \E m \in A : Edge(m, n)}

Seeds == {graph.entry} \ {NoNode}

(* Reachable is the last of a series of sets that grows from the seeds.      *)
LEMMA GrowthRuns ==
    ASSUME DfsTypeOK
    PROVE  \E w \in [0 .. Cardinality(Nodes) -> SUBSET Nodes] :
              /\ w[0] = Seeds
              /\ \A k \in 1 .. Cardinality(Nodes) : w[k] = Grown(w[k - 1])
              /\ Reachable = w[Cardinality(Nodes)]
<1> DEFINE N == Cardinality(Nodes)
           Def(g) == [k \in 0 .. N |-> IF k = 0 THEN Seeds ELSE Grown(g[k - 1])]
<1>1. N \in Nat
  BY GraphsAssumption, FS_CardinalityType
<1>2. Seeds \in SUBSET Nodes /\ \A A \in SUBSET Nodes : Grown(A) \in SUBSET Nodes
  BY DEF DfsTypeOK, Seeds, Grown
<1>3. PICK D \in Rounds(SUBSET Nodes, N) :
        \A k \in 1 .. N : \A A \in SUBSET Nodes : D[k][A] = Grown(A)
  <2> DEFINE E == [k \in 1 .. N |-> [A \in SUBSET Nodes |-> Grown(A)]]
  <2>1. E \in Rounds(SUBSET Nodes, N)
    BY <1>2 DEF Rounds
  <2>2. \A k \in 1 .. N : \A A \in SUBSET Nodes : E[k][A] = Grown(A)
    OBVIOUS
  <2> HIDE DEF E
  <2> QED BY <2>1, <2>2
<1>4. PICK w \in [0 .. N -> SUBSET Nodes] :
        w[0] = Seeds /\ \A k \in 1 .. N : w[k] = Grown(w[k - 1])
  <2>1. PICK start : start = Seeds
    OBVIOUS
  <2>2. start \in SUBSET Nodes
    BY <1>2, <2>1
  <2>3. PICK w : w \in Executions(SUBSET Nodes, N, start, D)
    BY <1>1, <2>2, ExecutionExists
  <2>4. w \in [0 .. N -> SUBSET Nodes] /\ w[0] = Seeds
    BY <2>1, <2>3 DEF Executions
  <2>5. ASSUME NEW k \in 1 .. N PROVE w[k] = Grown(w[k - 1])
    <3>1. w[k - 1] \in SUBSET Nodes
      BY <1>1, <2>4
    <3> QED BY <1>3, <2>3, <3>1 DEF Executions
  <2> QED BY <2>4, <2>5
<1>5. w = Def(w)
  BY <1>1, <1>4
<1> DEFINE within == CHOOSE f : f = Def(f)
<1>6. within = Def(within)
  <2> HIDE DEF Def
  <2> QED BY <1>5
<1>7. Reachable = within[N]
  BY DEF Reachable, Seeds, Grown
<1> HIDE DEF within
<1>8. within[0] = Seeds /\ \A k \in 1 .. N : within[k] = Grown(within[k - 1])
  <2> HIDE DEF N
  <2>1. \A k \in 0 .. N : within[k] = Def(within)[k]
    BY <1>6
  <2> QED BY <1>1, <2>1
<1> DEFINE P == {k \in 0 .. N : within[k] = w[k]}
<1>9. 0 \in P /\ P \in SUBSET (0 .. N)
  BY <1>1, <1>4, <1>8
<1>10. \A k \in 1 .. N : k - 1 \in P => k \in P
  BY <1>1, <1>4, <1>8
<1>11. P = 0 .. N
  <2> HIDE DEF P, N
  <2> QED BY <1>1, <1>9, <1>10, RangeInduction
<1> QED BY <1>1, <1>4, <1>7, <1>11

(* Reachable is the least set of nodes with the seeds that edges do not leave. *)
LEMMA ReachableLeast ==
    ASSUME DfsTypeOK
    PROVE  /\ Reachable \in SUBSET Nodes
           /\ Seeds \subseteq Reachable
           /\ \A m \in Reachable : \A n \in Nodes : Edge(m, n) => n \in Reachable
           /\ \A C \in SUBSET Nodes :
                 /\ Seeds \subseteq C
                 /\ \A m \in C : \A n \in Nodes : Edge(m, n) => n \in C
                 => Reachable \subseteq C
<1>1. PICK n : n = Cardinality(Nodes)
  OBVIOUS
<1>2. PICK w \in [0 .. n -> SUBSET Nodes] :
        /\ w[0] = Seeds /\ \A k \in 1 .. n : w[k] = Grown(w[k - 1])
        /\ Reachable = w[n]
  BY <1>1, GrowthRuns
<1>3. PICK G \in [Nodes -> SUBSET Nodes] :
        \A m \in Nodes : G[m] = {x \in Nodes : Edge(m, x)}
  <2> DEFINE H == [m \in Nodes |-> {x \in Nodes : Edge(m, x)}]
  <2>1. H \in [Nodes -> SUBSET Nodes] /\ \A m \in Nodes : H[m] = {x \in Nodes : Edge(m, x)}
    OBVIOUS
  <2> HIDE DEF H
  <2> QED BY <2>1
<1>4. n \in Nat /\ IsFiniteSet(Nodes)
  BY <1>1, GraphsAssumption, FS_CardinalityType
<1>5. Seeds \in SUBSET Nodes
  BY DEF DfsTypeOK, Seeds
<1>6. \A A \in SUBSET Nodes : Grown(A) = Spread(G, A)
  BY <1>3 DEF Grown, Spread
<1>7. ASSUME NEW k \in 1 .. n PROVE w[k] = Spread(G, w[k - 1])
  <2>1. w[k - 1] \in SUBSET Nodes
    BY <1>4
  <2> QED BY <1>2, <1>6, <2>1
<1>8. /\ Seeds \subseteq w[n] /\ Closed(G, w[n])
      /\ \A C \in SUBSET Nodes : Seeds \subseteq C /\ Closed(G, C) => w[n] \subseteq C
  <2>1. PICK S : S = Seeds
    OBVIOUS
  <2>2. S \in SUBSET Nodes /\ w \in Spreads(Nodes, S, G, n)
    BY <1>2, <1>5, <1>7, <2>1 DEF Spreads
  <2>3. /\ S \subseteq w[n] /\ Closed(G, w[n])
        /\ \A C \in SUBSET Nodes : S \subseteq C /\ Closed(G, C) => w[n] \subseteq C
    BY <1>1, <1>4, <2>2, SpreadCloses
  <2> QED BY <2>1, <2>3
<1>9. Reachable \in SUBSET Nodes
  BY <1>2, <1>4
<1>10. \A m \in Reachable : \A x \in Nodes : Edge(m, x) => x \in Reachable
  BY <1>2, <1>3, <1>8, <1>9 DEF Closed
<1>11. ASSUME NEW C \in SUBSET Nodes, Seeds \subseteq C,
              \A m \in C : \A x \in Nodes : Edge(m, x) => x \in C
       PROVE  Reachable \subseteq C
  <2>1. Closed(G, C)
    BY <1>3, <1>11 DEF Closed
  <2> QED BY <1>2, <1>8, <1>11, <2>1
<1> QED BY <1>2, <1>8, <1>9, <1>10, <1>11

-----------------------------------------------------------------------------
(* The sequences the search keeps: t is s with x at its end.                 *)
IsPush(s, t, x) ==
    /\ Len(s) \in Nat /\ DOMAIN s = 1 .. Len(s)
    /\ Len(t) = Len(s) + 1 /\ DOMAIN t = 1 .. Len(s) + 1
    /\ \A i \in 1 .. Len(s) : t[i] = s[i]
    /\ t[Len(s) + 1] = x

(* Appending puts one element on the end.                                    *)
LEMMA Appended ==
    ASSUME NEW S, NEW s \in Seq(S), NEW x \in S
    PROVE  IsPush(s, Append(s, x), x) /\ Append(s, x) \in Seq(S)
BY DEF IsPush

(* A stack with something on it is its rest with the top pushed.             *)
LEMMA Popped ==
    ASSUME NEW S, NEW s \in Seq(S), s # << >>
    PROVE  IsPush(Front(s), s, Last(s)) /\ Front(s) \in Seq(S) /\ Last(s) \in S
<1>1. Len(s) \in Nat \ {0} /\ DOMAIN s = 1 .. Len(s) /\ Last(s) = s[Len(s)] /\ Last(s) \in S
  BY DEF Last
<1>2. PICK f : f = Front(s)
  OBVIOUS
<1>3. /\ f \in Seq(S) /\ Len(f) = Len(s) - 1 /\ DOMAIN f = 1 .. Len(s) - 1
      /\ \A i \in 1 .. Len(s) - 1 : f[i] = s[i]
  BY <1>1, <1>2 DEF Front
<1>4. IsPush(f, s, Last(s))
  BY <1>1, <1>3 DEF IsPush
<1> QED BY <1>1, <1>2, <1>3, <1>4

(* What is on a list after a push.                                           *)
LEMMA PushSet ==
    ASSUME NEW s, NEW t, NEW x, IsPush(s, t, x)
    PROVE  ToSet(t) = ToSet(s) \cup {x}
<1> USE DEF IsPush
<1>1. ASSUME NEW y \in ToSet(t) PROVE y \in ToSet(s) \cup {x}
  BY DEF ToSet
<1>2. ASSUME NEW y \in ToSet(s) PROVE y \in ToSet(t)
  <2>1. PICK i \in 1 .. Len(s) : s[i] = y
    BY DEF ToSet
  <2>2. i \in DOMAIN t /\ t[i] = y
    BY <2>1
  <2> QED BY <2>2 DEF ToSet
<1>3. x \in ToSet(t)
  <2>1. Len(s) + 1 \in DOMAIN t /\ t[Len(s) + 1] = x
    OBVIOUS
  <2> QED BY <2>1 DEF ToSet
<1> QED BY <1>1, <1>2, <1>3

(* A push of something new repeats nothing.                                  *)
LEMMA PushInjective ==
    ASSUME NEW s, NEW t, NEW x, IsPush(s, t, x), IsInjective(s), x \notin ToSet(s)
    PROVE  IsInjective(t)
<1> USE DEF IsPush
<1>1. \A i \in 1 .. Len(s) : t[i] # x
  BY DEF ToSet
<1>2. \A i, j \in 1 .. Len(s) : t[i] = t[j] => i = j
  BY DEF IsInjective
<1>3. \A i, j \in DOMAIN t : t[i] = t[j] => i = j
  BY <1>1, <1>2
<1> QED BY <1>3 DEF IsInjective

-----------------------------------------------------------------------------
(* A stack whose top iterator has moved holds the same nodes.                *)
SameNodes(stk, base) ==
    /\ DOMAIN base = DOMAIN stk /\ Len(base) = Len(stk)
    /\ \A i \in DOMAIN stk : base[i].node = stk[i].node

(* Advancing the iterator on top changes no node of the stack, and keeps what is said of them. *)
LEMMA SameNodesKeeps ==
    ASSUME NEW col, NEW stk, NEW pre, NEW post, NEW be, NEW base, SameNodes(stk, base),
           Colors(col, stk, pre, post), OpenOnce(stk), InOrder(stk, pre),
           Reported(stk, post, be)
    PROVE  /\ Colors(col, base, pre, post) /\ OpenOnce(base) /\ InOrder(base, pre)
           /\ Reported(base, post, be)
<1> USE DEF SameNodes
<1>1. Colors(col, base, pre, post)
  BY DEF Colors
<1>2. OpenOnce(base)
  BY DEF OpenOnce
<1>3. InOrder(base, pre)
  BY DEF InOrder
<1>4. Reported(base, post, be)
  BY DEF Reported
<1> QED BY <1>1, <1>2, <1>3, <1>4

(* Discovering n, on a stack base.                                           *)
LEMMA PushKeeps ==
    ASSUME NEW n \in Nodes, NEW col, NEW base, NEW pre, NEW post, NEW be,
           NEW col2, NEW stk2, NEW pre2, NEW fr, fr.node = n,
           col[n] = "white", \A m \in Nodes : col2[m] = IF m = n THEN "grey" ELSE col[m],
           IsPush(base, stk2, fr), IsPush(pre, pre2, n),
           Colors(col, base, pre, post), OpenOnce(base), InOrder(base, pre),
           Reported(base, post, be), SeenInOrder(pre, be)
    PROVE  /\ Colors(col2, stk2, pre2, post) /\ OpenOnce(stk2) /\ InOrder(stk2, pre2)
           /\ Reported(stk2, post, be) /\ SeenInOrder(pre2, be)
<1> DEFINE top == Len(base)
<1>1. /\ top \in Nat /\ DOMAIN base = 1 .. top /\ DOMAIN stk2 = 1 .. top + 1
      /\ stk2[top + 1].node = n
  BY DEF IsPush
<1>2. \A i \in 1 .. top : i \in DOMAIN stk2 /\ stk2[i].node = base[i].node
  BY DEF IsPush
<1>3. \A i \in DOMAIN pre : i \in DOMAIN pre2 /\ pre2[i] = pre[i]
  BY DEF IsPush
<1>4. \A i \in 1 .. top : base[i].node # n
  BY <1>1 DEF Colors
<1> HIDE DEF top
<1>5. Colors(col2, stk2, pre2, post)
  <2> SUFFICES ASSUME NEW m \in Nodes
               PROVE  /\ col2[m] = "grey" <=> \E i \in DOMAIN stk2 : stk2[i].node = m
                      /\ col2[m] = "black" <=> m \in ToSet(post)
                      /\ col2[m] # "white" <=> m \in ToSet(pre2)
    BY DEF Colors
  <2>1. ToSet(pre2) = ToSet(pre) \cup {n}
    BY PushSet
  <2>2. CASE m = n
    <3>1. top + 1 \in DOMAIN stk2 /\ stk2[top + 1].node = m
      BY <1>1, <2>2
    <3> QED BY <2>1, <2>2, <3>1 DEF Colors
  <2>3. CASE m # n
    <3>1. (\E i \in DOMAIN stk2 : stk2[i].node = m) <=> \E i \in DOMAIN base : base[i].node = m
      BY <1>1, <1>2, <2>3
    <3> QED BY <2>1, <2>3, <3>1 DEF Colors
  <2> QED BY <2>2, <2>3
<1>6. OpenOnce(stk2)
  <2> SUFFICES ASSUME NEW i \in 1 .. top + 1, NEW j \in 1 .. top + 1,
                      stk2[i].node = stk2[j].node
               PROVE  i = j
    BY <1>1 DEF OpenOnce
  <2>1. CASE i \in 1 .. top /\ j \in 1 .. top
    BY <1>1, <1>2, <2>1 DEF OpenOnce
  <2>2. CASE i = top + 1 /\ j \in 1 .. top
    BY <1>1, <1>2, <1>4, <2>2
  <2>3. CASE i \in 1 .. top /\ j = top + 1
    BY <1>1, <1>2, <1>4, <2>3
  <2> QED BY <1>1, <2>1, <2>2, <2>3
<1>7. InOrder(stk2, pre2)
  <2>1. Len(pre) \in Nat /\ DOMAIN pre = 1 .. Len(pre)
        /\ Len(pre) + 1 \in DOMAIN pre2 /\ pre2[Len(pre) + 1] = n
    BY DEF IsPush
  <2> SUFFICES ASSUME NEW i \in 1 .. top + 1, NEW j \in 1 .. top + 1, i <= j
               PROVE  \E p, q \in DOMAIN pre2 :
                         p <= q /\ pre2[p] = stk2[i].node /\ pre2[q] = stk2[j].node
    BY <1>1 DEF InOrder
  <2>2. CASE j \in 1 .. top
    <3>1. i \in 1 .. top
      BY <1>1, <2>2
    <3>2. PICK p, q \in DOMAIN pre : p <= q /\ pre[p] = base[i].node /\ pre[q] = base[j].node
      BY <1>1, <2>2, <3>1 DEF InOrder
    <3> QED BY <1>2, <1>3, <2>2, <3>1, <3>2
  <2>3. CASE i = top + 1 /\ j = top + 1
    <3>1. Len(pre) + 1 <= Len(pre) + 1
      BY <2>1
    <3> QED BY <1>1, <2>1, <2>3, <3>1
  <2>4. CASE i \in 1 .. top /\ j = top + 1
    <3>1. PICK p \in DOMAIN pre : pre[p] = base[i].node
      BY <1>1, <2>4 DEF InOrder
    <3>2. p \in DOMAIN pre2 /\ pre2[p] = stk2[i].node /\ p <= Len(pre) + 1
      BY <1>2, <1>3, <2>1, <2>4, <3>1
    <3> QED BY <1>1, <2>1, <2>4, <3>2
  <2> QED BY <1>1, <2>2, <2>3, <2>4
<1>8. Reported(stk2, post, be)
  BY <1>1, <1>2 DEF Reported
<1>9. SeenInOrder(pre2, be)
  BY <1>3 DEF SeenInOrder
<1> QED BY <1>5, <1>6, <1>7, <1>8, <1>9

(* The node pushed has passed no successor yet.                              *)
LEMMA PushPassed ==
    ASSUME NEW n \in Nodes, NEW base, NEW stk2, NEW fr, NEW post, NEW be, NEW suc,
           fr.node = n, fr.first = 1, IsPush(base, stk2, fr), Len(suc[n]) \in Nat,
           Passed(base, n, post, be, suc)
    PROVE  Passed(stk2, NoNode, post, be, suc)
<1> DEFINE top == Len(base)
<1>1. /\ top \in Nat /\ DOMAIN base = 1 .. top /\ DOMAIN stk2 = 1 .. top + 1
      /\ Len(stk2) = top + 1 /\ stk2[top + 1] = fr
  BY DEF IsPush
<1>2. \A i \in 1 .. top : i \in DOMAIN stk2 /\ stk2[i] = base[i]
  BY DEF IsPush
<1> SUFFICES ASSUME NEW i \in 1 .. top + 1
             PROVE  /\ stk2[i].first <= Len(suc[stk2[i].node]) + 1
                    /\ \A l \in 1 .. stk2[i].first - 1 :
                          \/ Settled(stk2[i].node, suc[stk2[i].node][l], post, be)
                          \/ /\ l = stk2[i].first - 1
                             /\ suc[stk2[i].node][l]
                                = IF i < Len(stk2) THEN stk2[i + 1].node ELSE NoNode
  BY <1>1 DEF Passed
<1> HIDE DEF top
<1>3. CASE i = top + 1
  BY <1>1, <1>3
<1>4. CASE i \in 1 .. top
  <2>1. /\ base[i].first <= Len(suc[base[i].node]) + 1
        /\ \A l \in 1 .. base[i].first - 1 :
              \/ Settled(base[i].node, suc[base[i].node][l], post, be)
              \/ /\ l = base[i].first - 1
                 /\ suc[base[i].node][l] = IF i < top THEN base[i + 1].node ELSE n
    BY <1>1, <1>4 DEF Passed, top
  <2>2. stk2[i + 1].node = IF i < top THEN base[i + 1].node ELSE n
    <3>1. CASE i < top
      BY <1>1, <1>2, <1>4, <3>1
    <3>2. CASE i = top
      BY <1>1, <3>2
    <3> QED BY <1>1, <1>4, <3>1, <3>2
  <2>3. stk2[i] = base[i] /\ i < Len(stk2)
    BY <1>1, <1>2, <1>4
  <2> QED BY <2>1, <2>2, <2>3
<1> QED BY <1>1, <1>3, <1>4

(* Passing the successor n, the last one the top has been asked for.         *)
LEMMA AdvancePassed ==
    ASSUME NEW n \in Nodes, NEW stk, NEW base, NEW post, NEW be, NEW suc,
           NEW top \in Nat \ {0}, Len(stk) = top, DOMAIN stk = 1 .. top, SameNodes(stk, base),
           NEW m \in Nodes, m = stk[top].node, NEW k \in Nat \ {0}, k = stk[top].first,
           \A i \in 1 .. top - 1 : base[i] = stk[i], base[top].first = k + 1,
           DOMAIN suc[m] = 1 .. Len(suc[m]), Len(suc[m]) \in Nat, k <= Len(suc[m]),
           suc[m][k] = n, NoNode \notin ToSet(suc[m]),
           Passed(stk, NoNode, post, be, suc)
    PROVE  Passed(base, n, post, be, suc)
<1>1. /\ DOMAIN base = 1 .. top /\ Len(base) = top
      /\ \A i \in 1 .. top : base[i].node = stk[i].node
  BY DEF SameNodes
<1> SUFFICES ASSUME NEW i \in 1 .. top
             PROVE  /\ base[i].first <= Len(suc[base[i].node]) + 1
                    /\ \A l \in 1 .. base[i].first - 1 :
                          \/ Settled(base[i].node, suc[base[i].node][l], post, be)
                          \/ /\ l = base[i].first - 1
                             /\ suc[base[i].node][l]
                                = IF i < Len(base) THEN base[i + 1].node ELSE n
  BY <1>1 DEF Passed
<1>2. i \in DOMAIN stk /\ base[i].node = stk[i].node /\ Len(base) = top
  BY <1>1
<1>3. CASE i < top
  <2>1. base[i] = stk[i] /\ base[i + 1].node = stk[i + 1].node
    BY <1>1, <1>3
  <2> QED BY <1>2, <1>3, <2>1 DEF Passed
<1>4. CASE i = top
  <2>1. stk[i].node = m /\ stk[i].first = k /\ base[i].first = k + 1 /\ ~(i < top)
    BY <1>4
  <2>2. \A l \in 1 .. k - 1 : suc[m][l] # NoNode
    <3>1. \A l \in 1 .. k - 1 : l \in DOMAIN suc[m]
      OBVIOUS
    <3> QED BY <3>1 DEF ToSet
  <2>3. \A l \in 1 .. k - 1 : Settled(m, suc[m][l], post, be)
    BY <1>2, <2>1, <2>2, SMTT(30) DEF Passed
  <2>4. k + 1 <= Len(suc[m]) + 1
    OBVIOUS
  <2>5. ASSUME NEW l \in 1 .. (k + 1) - 1
        PROVE  Settled(m, suc[m][l], post, be) \/ (l = (k + 1) - 1 /\ suc[m][l] = n)
    <3>1. l \in 1 .. k - 1 \/ l = k
      OBVIOUS
    <3> QED BY <2>3, <3>1
  <2> QED BY <1>2, <2>1, <2>4, <2>5
<1> QED BY <1>3, <1>4

(* Once what stood above the top is settled, nothing stands there.           *)
LEMMA SettlePassed ==
    ASSUME NEW n, NEW stk, NEW post, NEW be, NEW post2, NEW be2, NEW suc,
           ToSet(post) \subseteq ToSet(post2), ToSet(be) \subseteq ToSet(be2),
           Len(stk) \in Nat, DOMAIN stk = 1 .. Len(stk),
           stk # << >> => Settled(stk[Len(stk)].node, n, post2, be2),
           Passed(stk, n, post, be, suc)
    PROVE  Passed(stk, NoNode, post2, be2, suc)
<1> SUFFICES ASSUME NEW i \in DOMAIN stk, NEW l \in 1 .. stk[i].first - 1
             PROVE  \/ Settled(stk[i].node, suc[stk[i].node][l], post2, be2)
                    \/ /\ l = stk[i].first - 1
                       /\ suc[stk[i].node][l] = IF i < Len(stk) THEN stk[i + 1].node ELSE NoNode
  BY DEF Passed
<1>1. \/ Settled(stk[i].node, suc[stk[i].node][l], post, be)
      \/ /\ l = stk[i].first - 1
         /\ suc[stk[i].node][l] = IF i < Len(stk) THEN stk[i + 1].node ELSE n
  BY DEF Passed
<1>2. \A a, b : Settled(a, b, post, be) => Settled(a, b, post2, be2)
  BY DEF Settled
<1>3. CASE i < Len(stk)
  BY <1>1, <1>2, <1>3
<1>4. CASE ~(i < Len(stk))
  <2>1. i = Len(stk) /\ stk # << >>
    BY <1>4
  <2> QED BY <1>1, <1>2, <2>1
<1> QED BY <1>3, <1>4

(* Reporting the edge from the top to an open node n.                        *)
LEMMA ReportKeeps ==
    ASSUME NEW n, NEW stk, NEW pre, NEW post, NEW be, NEW be2,
           Len(stk) \in Nat, DOMAIN stk = 1 .. Len(stk),
           \E i \in DOMAIN stk : stk[i].node = n,
           ToSet(be2) = ToSet(be) \cup {<<stk[Len(stk)].node, n>>},
           Reported(stk, post, be), SeenInOrder(pre, be), InOrder(stk, pre)
    PROVE  Reported(stk, post, be2) /\ SeenInOrder(pre, be2)
<1>1. PICK i \in DOMAIN stk : stk[i].node = n
  OBVIOUS
<1>2. i <= Len(stk) /\ Len(stk) \in DOMAIN stk
  BY <1>1
<1>3. PICK e : e = <<stk[Len(stk)].node, n>>
  OBVIOUS
<1>4. e[1] = stk[Len(stk)].node /\ e[2] = n
  BY <1>3
<1>5. Reported(stk, post, be2)
  BY <1>1, <1>2, <1>3, <1>4 DEF Reported
<1>6. SeenInOrder(pre, be2)
  <2>1. PICK p, q \in DOMAIN pre : p <= q /\ pre[p] = e[2] /\ pre[q] = e[1]
    BY <1>1, <1>2, <1>4 DEF InOrder
  <2> QED BY <1>3, <2>1 DEF SeenInOrder
<1> QED BY <1>5, <1>6

(* More edges reported.                                                      *)
LEMMA MoreReported ==
    ASSUME NEW post, NEW be, NEW be2, NEW suc, ToSet(be) \subseteq ToSet(be2),
           Finished(post, be, suc)
    PROVE  Finished(post, be2, suc)
BY DEF Finished

(* Finishing the node of the top.                                            *)
LEMMA PopKeeps ==
    ASSUME NEW col, NEW base, NEW stk, NEW pre, NEW post, NEW be, NEW fr,
           NEW col2, NEW post2, fr.node \in Nodes,
           \A m \in Nodes : col2[m] = IF m = fr.node THEN "black" ELSE col[m],
           IsPush(base, stk, fr), IsPush(post, post2, fr.node),
           Colors(col, stk, pre, post), OpenOnce(stk), InOrder(stk, pre),
           Reported(stk, post, be)
    PROVE  /\ Colors(col2, base, pre, post2) /\ OpenOnce(base) /\ InOrder(base, pre)
           /\ Reported(base, post2, be) /\ fr.node \notin ToSet(post)
<1> PICK top, n : top = Len(base) /\ n = fr.node
  OBVIOUS
<1>1. /\ top \in Nat /\ DOMAIN base = 1 .. top /\ DOMAIN stk = 1 .. top + 1
      /\ stk[top + 1].node = n
  BY DEF IsPush
<1>2. \A i \in 1 .. top : i \in DOMAIN stk /\ stk[i].node = base[i].node
  BY DEF IsPush
<1>3. \A i \in 1 .. top : base[i].node # n
  <2> SUFFICES ASSUME NEW i \in 1 .. top, base[i].node = n PROVE FALSE
    OBVIOUS
  <2>1. i \in DOMAIN stk /\ top + 1 \in DOMAIN stk /\ stk[i].node = stk[top + 1].node
    BY <1>1, <1>2
  <2>2. i = top + 1
    BY <2>1 DEF OpenOnce
  <2> QED BY <1>1, <2>2
<1>4. col[n] = "grey"
  <2>1. top + 1 \in DOMAIN stk /\ n \in Nodes
    BY <1>1
  <2> QED BY <1>1, <2>1 DEF Colors
<1>5. n \notin ToSet(post) /\ ToSet(post2) = ToSet(post) \cup {n} /\ n \in ToSet(pre)
  BY <1>4, PushSet DEF Colors
<1>6. Colors(col2, base, pre, post2)
  <2> SUFFICES ASSUME NEW m \in Nodes
               PROVE  /\ col2[m] = "grey" <=> \E i \in DOMAIN base : base[i].node = m
                      /\ col2[m] = "black" <=> m \in ToSet(post2)
                      /\ col2[m] # "white" <=> m \in ToSet(pre)
    BY DEF Colors
  <2>1. CASE m = n
    BY <1>1, <1>3, <1>5, <2>1
  <2>2. CASE m # n
    <3>1. (\E i \in DOMAIN stk : stk[i].node = m) <=> \E i \in DOMAIN base : base[i].node = m
      BY <1>1, <1>2, <2>2
    <3> QED BY <1>5, <2>2, <3>1 DEF Colors
  <2> QED BY <2>1, <2>2
<1>7. OpenOnce(base)
  BY <1>1, <1>2 DEF OpenOnce
<1>8. InOrder(base, pre)
  BY <1>1, <1>2 DEF InOrder
<1>9. Reported(base, post2, be)
  <2> DEFINE last == Len(post) + 1
  <2>1. last \in DOMAIN post2 /\ post2[last] = n /\ Len(post) \in Nat
        /\ \A i \in DOMAIN post : i \in DOMAIN post2 /\ post2[i] = post[i] /\ i <= last
    BY DEF IsPush
  <2> HIDE DEF last
  <2> SUFFICES ASSUME NEW e \in ToSet(be)
               PROVE  \/ \E i, j \in DOMAIN base :
                            i <= j /\ base[i].node = e[2] /\ base[j].node = e[1]
                      \/ e[1] \in ToSet(post2) /\ \E i \in DOMAIN base : base[i].node = e[2]
                      \/ \E i, j \in DOMAIN post2 :
                            j <= i /\ post2[i] = e[2] /\ post2[j] = e[1]
    BY DEF Reported
  <2>2. CASE \E i, j \in DOMAIN stk : i <= j /\ stk[i].node = e[2] /\ stk[j].node = e[1]
    <3>1. PICK i, j \in 1 .. top + 1 : i <= j /\ stk[i].node = e[2] /\ stk[j].node = e[1]
      BY <1>1, <2>2
    <3>2. CASE j \in 1 .. top
      <4>1. i \in 1 .. top
        BY <1>1, <3>1, <3>2
      <4> QED BY <1>1, <1>2, <3>1, <3>2, <4>1
    <3>3. CASE i \in 1 .. top /\ j = top + 1
      <4>1. e[1] \in ToSet(post2) /\ base[i].node = e[2]
        BY <1>1, <1>2, <1>5, <3>1, <3>3
      <4> QED BY <1>1, <3>3, <4>1
    <3>4. CASE i = top + 1 /\ j = top + 1
      <4>1. post2[last] = e[2] /\ post2[last] = e[1] /\ last <= last
        BY <1>1, <2>1, <3>1, <3>4 DEF last
      <4> QED BY <2>1, <4>1
    <3> QED BY <1>1, <3>1, <3>2, <3>3, <3>4
  <2>3. CASE e[1] \in ToSet(post) /\ \E i \in DOMAIN stk : stk[i].node = e[2]
    <3>1. PICK i \in 1 .. top + 1 : stk[i].node = e[2]
      BY <1>1, <2>3
    <3>2. CASE i \in 1 .. top
      BY <1>1, <1>2, <1>5, <2>3, <3>1, <3>2
    <3>3. CASE i = top + 1
      <4>1. PICK j \in DOMAIN post : post[j] = e[1]
        BY <2>3 DEF ToSet
      <4>2. j \in DOMAIN post2 /\ post2[j] = e[1] /\ j <= last /\ post2[last] = e[2]
        BY <1>1, <2>1, <3>1, <3>3, <4>1
      <4> QED BY <2>1, <4>2
    <3> QED BY <1>1, <3>1, <3>2, <3>3
  <2>4. CASE \E i, j \in DOMAIN post : j <= i /\ post[i] = e[2] /\ post[j] = e[1]
    BY <2>1, <2>4
  <2> QED BY <2>2, <2>3, <2>4 DEF Reported
<1> QED BY <1>5, <1>6, <1>7, <1>8, <1>9

(* What was passed stays passed when the top is taken away, the top finished among it. *)
LEMMA PopPassed ==
    ASSUME NEW base, NEW stk, NEW fr, NEW post, NEW be, NEW suc, IsPush(base, stk, fr),
           Passed(stk, NoNode, post, be, suc)
    PROVE  Passed(base, fr.node, post, be, suc)
<1> PICK top : top = Len(base)
  OBVIOUS
<1>1. /\ top \in Nat /\ DOMAIN base = 1 .. top /\ DOMAIN stk = 1 .. top + 1
      /\ Len(stk) = top + 1 /\ stk[top + 1] = fr
      /\ \A i \in 1 .. top : stk[i] = base[i]
  BY DEF IsPush
<1> SUFFICES ASSUME NEW i \in 1 .. top
             PROVE  /\ base[i].first <= Len(suc[base[i].node]) + 1
                    /\ \A l \in 1 .. base[i].first - 1 :
                          \/ Settled(base[i].node, suc[base[i].node][l], post, be)
                          \/ /\ l = base[i].first - 1
                             /\ suc[base[i].node][l]
                                = IF i < top THEN base[i + 1].node ELSE fr.node
  BY <1>1 DEF Passed
<1>2. i \in DOMAIN stk /\ i < Len(stk) /\ stk[i] = base[i]
  BY <1>1
<1>3. stk[i + 1].node = IF i < top THEN base[i + 1].node ELSE fr.node
  <2>1. CASE i < top
    BY <1>1, <2>1
  <2>2. CASE i = top
    BY <1>1, <2>2
  <2> QED BY <1>1, <2>1, <2>2
<1> QED BY <1>2, <1>3 DEF Passed

(* A node that has passed all successors is finished by the rules when it is taken away. *)
LEMMA PopFinished ==
    ASSUME NEW fr, NEW post, NEW post2, NEW be, NEW suc, NEW stk, NEW base,
           IsPush(base, stk, fr), IsPush(post, post2, fr.node), fr.node \in Nodes,
           fr.first \in Nat, DOMAIN suc[fr.node] = 1 .. Len(suc[fr.node]),
           Len(suc[fr.node]) \in Nat, Len(suc[fr.node]) < fr.first,
           NoNode \notin ToSet(suc[fr.node]),
           Passed(stk, NoNode, post, be, suc), Finished(post, be, suc)
    PROVE  Finished(post2, be, suc)
<1>1. /\ Len(post) \in Nat /\ DOMAIN post = 1 .. Len(post)
      /\ DOMAIN post2 = 1 .. Len(post) + 1 /\ post2[Len(post) + 1] = fr.node
      /\ \A i \in 1 .. Len(post) : post2[i] = post[i]
  BY DEF IsPush
<1> SUFFICES ASSUME NEW i \in 1 .. Len(post) + 1, NEW n \in ToSet(suc[post2[i]])
             PROVE  \/ \E j \in 1 .. i - 1 : post2[j] = n
                    \/ <<post2[i], n>> \in ToSet(be)
  BY <1>1 DEF Finished
<1>2. CASE i \in 1 .. Len(post)
  <2>1. \/ \E j \in 1 .. i - 1 : post[j] = n
        \/ <<post[i], n>> \in ToSet(be)
    BY <1>1, <1>2 DEF Finished
  <2>2. \A j \in 1 .. i - 1 : post2[j] = post[j]
    BY <1>1, <1>2
  <2> QED BY <1>1, <1>2, <2>1, <2>2
<1>3. CASE i = Len(post) + 1
  <2>1. post2[i] = fr.node /\ i - 1 = Len(post)
    BY <1>1, <1>3
  <2>2. PICK l \in 1 .. Len(suc[fr.node]) : suc[fr.node][l] = n
    BY <2>1 DEF ToSet
  <2>3. n # NoNode
    BY <2>1
  <2>4. /\ Len(base) \in Nat /\ Len(stk) = Len(base) + 1 /\ stk[Len(stk)] = fr
        /\ Len(stk) \in DOMAIN stk
    BY DEF IsPush
  <2>5. fr.first <= Len(suc[fr.node]) + 1
    BY <2>4 DEF Passed
  <2>6. l \in 1 .. fr.first - 1
    BY <2>2, <2>5
  <2>7. Settled(fr.node, n, post, be)
    BY <2>2, <2>3, <2>4, <2>6, SMTT(30) DEF Passed
  <2>8. CASE n \in ToSet(post)
    <3>1. PICK j \in 1 .. Len(post) : post[j] = n
      BY <1>1, <2>8 DEF ToSet
    <3> QED BY <1>1, <2>1, <3>1
  <2> QED BY <2>1, <2>7, <2>8 DEF Settled
<1> QED BY <1>1, <1>2, <1>3

-----------------------------------------------------------------------------
(* The steps of the search.                                                  *)
Frames == [node : Nodes, first : Nat \ {0}]

(* The stack and the successors of a node, as the type invariant has them.   *)
LEMMA StackTypes ==
    ASSUME DfsInv
    PROVE  /\ toVisit \in Seq(Frames) /\ preOrder \in Seq(Nodes) /\ postOrder \in Seq(Nodes)
           /\ Len(toVisit) \in Nat /\ DOMAIN toVisit = 1 .. Len(toVisit)
           /\ \A i \in DOMAIN toVisit : toVisit[i] \in Frames
           /\ \A m \in Nodes : /\ Len(succ[m]) \in Nat /\ DOMAIN succ[m] = 1 .. Len(succ[m])
                               /\ \A l \in 1 .. Len(succ[m]) : succ[m][l] \in Nodes
                               /\ NoNode \notin ToSet(succ[m])
<1>1. /\ toVisit \in Seq(Frames) /\ preOrder \in Seq(Nodes) /\ postOrder \in Seq(Nodes)
      /\ succ \in [Nodes -> Seq(Nodes)]
  BY DEF DfsInv, DfsTypeOK, Frames
<1>2. /\ Len(toVisit) \in Nat /\ DOMAIN toVisit = 1 .. Len(toVisit)
      /\ \A i \in DOMAIN toVisit : toVisit[i] \in Frames
  BY <1>1
<1>3. ASSUME NEW m \in Nodes
      PROVE  /\ Len(succ[m]) \in Nat /\ DOMAIN succ[m] = 1 .. Len(succ[m])
             /\ \A l \in 1 .. Len(succ[m]) : succ[m][l] \in Nodes
             /\ NoNode \notin ToSet(succ[m])
  <2>1. PICK s \in Seq(Nodes) : s = succ[m]
    BY <1>1
  <2>2. Len(s) \in Nat /\ DOMAIN s = 1 .. Len(s) /\ \A l \in 1 .. Len(s) : s[l] \in Nodes
    OBVIOUS
  <2>3. NoNode \notin ToSet(s)
    BY <2>2, GraphsAssumption DEF ToSet
  <2> QED BY <2>1, <2>2, <2>3
<1> QED BY <1>1, <1>2, <1>3

(* Discovering n on a stack base with the nodes of toVisit, the last of them *)
(* having been asked for n.                                                  *)
LEMMA DiscoverKeeps ==
    ASSUME NEW n \in Nodes, NEW base \in Seq(Frames), DfsInv, color[n] = "white",
           n \in Reachable, started \/ n = graph.entry,
           SameNodes(toVisit, base), Passed(base, n, postOrder, backEdges, succ),
           VisitNode(n, base), started' = TRUE, UNCHANGED <<graph, postOrder, backEdges>>
    PROVE  DfsInv'
<1>1. PICK col, col2, pre, stk2, pre2, post, be, suc :
        /\ col = color /\ col2 = color' /\ pre = preOrder /\ stk2 = toVisit'
        /\ pre2 = preOrder' /\ post = postOrder /\ be = backEdges /\ suc = succ
  OBVIOUS
<1>2. /\ post = postOrder' /\ be = backEdges' /\ suc = succ' /\ n \in Nodes
  BY <1>1 DEF succ
<1>3. PICK fr \in Frames : fr = [node |-> n, first |-> 1]
  <2>1. [node |-> n, first |-> 1] \in Frames
    BY DEF Frames
  <2> QED BY <2>1
<1>4. fr.node = n /\ fr.first = 1 /\ stk2 = Append(base, fr) /\ pre2 = Append(pre, n)
  BY <1>1, <1>3 DEF VisitNode
<1>5. pre \in Seq(Nodes) /\ Len(suc[n]) \in Nat
  BY <1>1, StackTypes
<1>6. IsPush(base, stk2, fr) /\ stk2 \in Seq(Frames)
  BY <1>4, Appended
<1>7. IsPush(pre, pre2, n) /\ pre2 \in Seq(Nodes)
  BY <1>4, <1>5, Appended
<1>8. /\ col2 \in [Nodes -> {"white", "grey", "black"}] /\ col[n] = "white"
      /\ \A m \in Nodes : col2[m] = IF m = n THEN "grey" ELSE col[m]
  BY <1>1 DEF VisitNode, DfsInv, DfsTypeOK
<1>9. /\ Colors(col, base, pre, post) /\ OpenOnce(base) /\ InOrder(base, pre)
      /\ Reported(base, post, be) /\ SeenInOrder(pre, be)
  <2>1. PICK stk : stk = toVisit
    OBVIOUS
  <2>2. /\ Colors(col, stk, pre, post) /\ OpenOnce(stk) /\ InOrder(stk, pre)
        /\ Reported(stk, post, be) /\ SeenInOrder(pre, be) /\ SameNodes(stk, base)
    BY <1>1, <2>1 DEF DfsInv
  <2> QED BY <2>2, SameNodesKeeps
<1>10. /\ Colors(col2, stk2, pre2, post) /\ OpenOnce(stk2) /\ InOrder(stk2, pre2)
       /\ Reported(stk2, post, be) /\ SeenInOrder(pre2, be)
  BY <1>2, <1>4, <1>6, <1>7, <1>8, <1>9, PushKeeps
<1>11. Passed(stk2, NoNode, post, be, suc)
  <2>1. Passed(base, n, post, be, suc)
    BY <1>1
  <2> QED BY <1>4, <1>5, <1>6, <2>1, PushPassed
<1>12. IsInjective(pre2) /\ ToSet(pre2) = ToSet(pre) \cup {n}
  <2>1. n \notin ToSet(pre) /\ IsInjective(pre)
    BY <1>1, <1>8, <1>9 DEF Colors, DfsInv
  <2> QED BY <1>7, <2>1, PushInjective, PushSet
<1>13. DfsTypeOK'
  BY <1>1, <1>2, <1>6, <1>7, <1>8 DEF DfsInv, DfsTypeOK, Frames
<1>14. DiscoveredReachable'
  <2>1. Reachable' = Reachable
    BY DEF Reachable, Edge, succ
  <2>2. graph.entry \in ToSet(pre2) \cup {NoNode}
    BY <1>1, <1>12 DEF DfsInv, DiscoveredReachable
  <2>3. ToSet(pre2) \subseteq Reachable
    BY <1>1, <1>12 DEF DfsInv, DiscoveredReachable
  <2> QED BY <1>1, <2>1, <2>2, <2>3 DEF DiscoveredReachable
<1>15. IsInjective(post) /\ Finished(post, be, suc)
  BY <1>1 DEF DfsInv
<1> QED BY <1>1, <1>2, <1>10, <1>11, <1>12, <1>13, <1>14, <1>15 DEF DfsInv

(* Visiting the first node keeps the invariant.                              *)
LEMMA StartKeeps ==
    ASSUME DfsInv, Start
    PROVE  DfsInv'
<1>1. toVisit = << >> /\ preOrder = << >>
  BY DEF Start, DfsInv, DiscoveredReachable
<1>2. CASE graph.entry = NoNode
  <2>1. started' = TRUE /\ UNCHANGED <<graph, color, toVisit, preOrder, postOrder, backEdges>>
    BY <1>2 DEF Start
  <2>3. succ' = succ
    BY <2>1 DEF succ
  <2>4. Reachable' = Reachable
    BY <2>1, <2>3 DEF Reachable, Edge
  <2>5. ToSet(preOrder) \subseteq Reachable /\ graph.entry \in ToSet(preOrder) \cup {NoNode}
    BY <1>2 DEF DfsInv, DiscoveredReachable
  <2>6. DiscoveredReachable'
    BY <2>1, <2>4, <2>5 DEF DiscoveredReachable
  <2>2. DfsTypeOK' /\ DiscoveredReachable'
    BY <2>1, <2>3, <2>6 DEF DfsInv, DfsTypeOK
  <2> QED BY <2>1, <2>2, <2>3 DEF DfsInv
<1>3. CASE graph.entry # NoNode
  <2>1. VisitNode(graph.entry, toVisit) /\ started' = TRUE
        /\ UNCHANGED <<graph, postOrder, backEdges>>
    BY <1>3 DEF Start
  <2>2. PICK n \in Nodes : n = graph.entry
    BY <1>3 DEF DfsInv, DfsTypeOK
  <2>3. n \in Reachable
    BY <1>3, <2>2, ReachableLeast DEF DfsInv, Seeds
  <2>4. color[n] = "white"
    <3>1. ToSet(preOrder) = {}
      BY <1>1 DEF ToSet
    <3> QED BY <3>1 DEF DfsInv, Colors
  <2>5. PICK base : base = toVisit
    OBVIOUS
  <2>6. base \in Seq(Frames) /\ SameNodes(toVisit, base) /\ base = << >>
    BY <1>1, <2>5, StackTypes DEF SameNodes
  <2>7. Passed(base, n, postOrder, backEdges, succ)
    BY <2>6 DEF Passed
  <2> QED BY <2>1, <2>2, <2>3, <2>4, <2>5, <2>6, <2>7, DiscoverKeeps
<1> QED BY <1>2, <1>3

(* The top of the stack, the next successor of its node, and the stack once  *)
(* the iterator has moved past it.                                           *)
LEMMA AtTop ==
    ASSUME DfsInv, AtSuccessor
    PROVE  /\ Successor \in Nodes /\ Advanced \in Seq(Frames) /\ SameNodes(toVisit, Advanced)
           /\ Passed(Advanced, Successor, postOrder, backEdges, succ)
           /\ Len(toVisit) \in Nat \ {0} /\ Edge(Top.node, Successor)
           /\ Top = toVisit[Len(toVisit)] /\ Top.node \in Nodes
<1>1. PICK stk, top, suc, adv : /\ stk = toVisit /\ top = Len(toVisit) /\ suc = succ
                                /\ adv = Advanced
  OBVIOUS
<1>2. /\ stk \in Seq(Frames) /\ stk # << >> /\ top = Len(stk) /\ DOMAIN stk = 1 .. top
      /\ top \in Nat /\ \A i \in 1 .. top : stk[i] \in Frames
  BY <1>1, StackTypes DEF AtSuccessor
<1>3. top \in Nat \ {0}
  BY <1>2
<1>4. PICK m, k : m = stk[top].node /\ k = stk[top].first
  OBVIOUS
<1>5. m \in Nodes /\ k \in Nat \ {0} /\ stk[top] \in Frames
  BY <1>2, <1>3, <1>4 DEF Frames
<1>6. Top = stk[top]
  BY <1>1 DEF Top, Last
<1>7. /\ DOMAIN suc[m] = 1 .. Len(suc[m]) /\ Len(suc[m]) \in Nat /\ NoNode \notin ToSet(suc[m])
      /\ \A l \in 1 .. Len(suc[m]) : suc[m][l] \in Nodes
  BY <1>1, <1>5, StackTypes
<1>8. k <= Len(suc[m]) /\ Successor = suc[m][k]
  BY <1>1, <1>4, <1>6 DEF AtSuccessor, Successor
<1>9. PICK n \in Nodes : n = Successor
  BY <1>5, <1>7, <1>8
<1>10. adv = [stk EXCEPT ![top] = [stk[top] EXCEPT !.first = k + 1]]
  BY <1>1, <1>4 DEF Advanced
<1>11. PICK fr : fr = [stk[top] EXCEPT !.first = k + 1]
  OBVIOUS
<1>12. fr \in Frames /\ fr.node = m /\ fr.first = k + 1
  BY <1>4, <1>5, <1>11 DEF Frames
<1>13. /\ adv \in Seq(Frames) /\ DOMAIN adv = 1 .. top /\ Len(adv) = top /\ adv[top] = fr
       /\ \A i \in 1 .. top - 1 : adv[i] = stk[i]
  BY <1>2, <1>3, <1>10, <1>11, <1>12
<1>14. SameNodes(stk, adv)
  <2>1. \A i \in 1 .. top : i \in 1 .. top - 1 \/ i = top
    BY <1>2
  <2>2. \A i \in 1 .. top : adv[i].node = stk[i].node
    BY <1>4, <1>12, <1>13, <2>1
  <2> QED BY <1>2, <1>13, <2>2 DEF SameNodes
<1>15. Passed(adv, n, postOrder, backEdges, suc)
  <2>1. PICK post, be : post = postOrder /\ be = backEdges
    OBVIOUS
  <2>2. Passed(stk, NoNode, post, be, suc)
    BY <1>1, <2>1 DEF DfsInv
  <2>3. Passed(adv, n, post, be, suc)
    <3>1. /\ Len(stk) = top /\ DOMAIN stk = 1 .. top /\ SameNodes(stk, adv)
          /\ m = stk[top].node /\ k = stk[top].first /\ adv[top].first = k + 1
          /\ k <= Len(suc[m]) /\ suc[m][k] = n
      BY <1>2, <1>4, <1>8, <1>9, <1>12, <1>13, <1>14
    <3>2. top \in Nat \ {0} /\ m \in Nodes /\ k \in Nat \ {0}
      BY <1>3, <1>5
    <3> QED BY <1>7, <1>13, <2>2, <3>1, <3>2, AdvancePassed
  <2> QED BY <2>1, <2>3
<1>16. Edge(m, n)
  BY <1>1, <1>5, <1>7, <1>8, <1>9 DEF Edge
<1> QED BY <1>1, <1>3, <1>4, <1>5, <1>6, <1>9, <1>13, <1>14, <1>15, <1>16

(* Going down to a successor not met before keeps the invariant.             *)
LEMMA DescendKeeps ==
    ASSUME DfsInv, Descend
    PROVE  DfsInv'
<1>1. PICK n, base : n = Successor /\ base = Advanced
  OBVIOUS
<1>2. /\ n \in Nodes /\ base \in Seq(Frames) /\ SameNodes(toVisit, base)
      /\ Passed(base, n, postOrder, backEdges, succ) /\ toVisit # << >>
      /\ Edge(Top.node, n) /\ Top.node \in Nodes /\ Top = toVisit[Len(toVisit)]
      /\ Len(toVisit) \in Nat \ {0}
  BY <1>1, AtTop DEF Descend, AtSuccessor
<1>3. started = TRUE
  BY <1>2 DEF DfsInv, DiscoveredReachable, DfsTypeOK
<1>4. n \in Reachable
  <2>1. Top.node \in ToSet(preOrder)
    <3>1. Len(toVisit) \in DOMAIN toVisit
      BY <1>2, StackTypes
    <3>2. color[Top.node] = "grey"
      BY <1>2, <3>1 DEF DfsInv, Colors
    <3> QED BY <1>2, <3>2 DEF DfsInv, Colors
  <2>2. Top.node \in Reachable
    BY <2>1 DEF DfsInv, DiscoveredReachable
  <2> QED BY <1>2, <2>2, ReachableLeast DEF DfsInv
<1>5. /\ color[n] = "white" /\ VisitNode(n, base) /\ started' = TRUE
      /\ UNCHANGED <<graph, postOrder, backEdges>>
  BY <1>1, <1>3 DEF Descend
<1> QED BY <1>2, <1>3, <1>4, <1>5, DiscoverKeeps

(* Passing a successor already met keeps the invariant.                      *)
LEMMA PassKeeps ==
    ASSUME DfsInv, PassVisited
    PROVE  DfsInv'
<1>1. PICK n, stk, stk2, col, pre, post, be, be2, suc, m :
        /\ n = Successor /\ stk = toVisit /\ stk2 = toVisit' /\ col = color /\ pre = preOrder
        /\ post = postOrder /\ be = backEdges /\ be2 = backEdges' /\ suc = succ /\ m = Top.node
  OBVIOUS
<1>2. /\ AtSuccessor /\ col[n] # "white" /\ stk2 = Advanced
      /\ be2 = IF col[n] = "grey" THEN Append(be, <<m, n>>) ELSE be
      /\ UNCHANGED <<graph, color, started, preOrder, postOrder>>
  BY <1>1 DEF PassVisited
<1>3. /\ n \in Nodes /\ stk2 \in Seq(Frames) /\ SameNodes(stk, stk2)
      /\ Passed(stk2, n, post, be, suc) /\ Len(stk) \in Nat \ {0}
      /\ m = stk[Len(stk)].node /\ m \in Nodes /\ DOMAIN stk = 1 .. Len(stk)
  BY <1>1, <1>2, AtTop, StackTypes
<1>4. /\ Colors(col, stk, pre, post) /\ OpenOnce(stk) /\ InOrder(stk, pre)
      /\ Reported(stk, post, be) /\ SeenInOrder(pre, be) /\ Finished(post, be, suc)
      /\ IsInjective(pre) /\ IsInjective(post)
  BY <1>1 DEF DfsInv
<1>5. succ' = suc /\ Reachable' = Reachable
  BY <1>1, <1>2 DEF succ, Reachable, Edge
<1>6. /\ Colors(col, stk2, pre, post) /\ OpenOnce(stk2) /\ InOrder(stk2, pre)
      /\ Reported(stk2, post, be)
  BY <1>3, <1>4, SameNodesKeeps
<1>7. /\ Len(stk2) \in Nat /\ DOMAIN stk2 = 1 .. Len(stk2) /\ stk2[Len(stk2)].node = m
  BY <1>3 DEF SameNodes
<1>8. DiscoveredReachable'
  <2>1. ToSet(preOrder) \subseteq Reachable /\ (started => graph.entry \in ToSet(preOrder) \cup {NoNode})
    BY DEF DfsInv, DiscoveredReachable
  <2>2. started
    BY <1>2 DEF DfsInv, DiscoveredReachable, AtSuccessor, DfsTypeOK
  <2> QED BY <1>2, <1>5, <2>1, <2>2 DEF DiscoveredReachable
<1>9. CASE col[n] = "grey"
  <2>1. be \in Seq(Nodes \X Nodes) /\ <<m, n>> \in Nodes \X Nodes /\ be2 = Append(be, <<m, n>>)
    BY <1>1, <1>2, <1>3, <1>9 DEF DfsInv, DfsTypeOK
  <2>2. IsPush(be, be2, <<m, n>>) /\ be2 \in Seq(Nodes \X Nodes)
    BY <2>1, Appended
  <2>3. ToSet(be2) = ToSet(be) \cup {<<m, n>>}
    BY <2>2, PushSet
  <2>4. \E i \in DOMAIN stk2 : stk2[i].node = n
    BY <1>3, <1>6, <1>9 DEF Colors
  <2>5. Reported(stk2, post, be2) /\ SeenInOrder(pre, be2)
    <3>1. ToSet(be2) = ToSet(be) \cup {<<stk2[Len(stk2)].node, n>>}
      BY <1>7, <2>3
    <3> QED BY <1>4, <1>6, <1>7, <2>4, <3>1, ReportKeeps
  <2>6. Finished(post, be2, suc)
    BY <1>4, <2>3, MoreReported
  <2>7. Passed(stk2, NoNode, post, be2, suc)
    <3>1. Settled(stk2[Len(stk2)].node, n, post, be2)
      BY <1>7, <2>3 DEF Settled
    <3>2. ToSet(post) \subseteq ToSet(post) /\ ToSet(be) \subseteq ToSet(be2)
      BY <2>3
    <3> QED BY <1>3, <1>7, <3>1, <3>2, SettlePassed
  <2>8. DfsTypeOK'
    BY <1>1, <1>2, <1>3, <1>5, <2>2 DEF DfsInv, DfsTypeOK, Frames
  <2> QED BY <1>1, <1>2, <1>4, <1>5, <1>6, <1>8, <2>5, <2>6, <2>7, <2>8 DEF DfsInv
<1>10. CASE col[n] # "grey"
  <2>1. be2 = be
    BY <1>2, <1>10
  <2>2. n \in ToSet(post)
    <3>1. col[n] \in {"white", "grey", "black"}
      BY <1>1, <1>3 DEF DfsInv, DfsTypeOK
    <3> QED BY <1>2, <1>3, <1>4, <1>10, <3>1 DEF Colors
  <2>3. Passed(stk2, NoNode, post, be, suc)
    <3>1. Settled(stk2[Len(stk2)].node, n, post, be)
      BY <2>2 DEF Settled
    <3>2. ToSet(post) \subseteq ToSet(post) /\ ToSet(be) \subseteq ToSet(be)
      OBVIOUS
    <3> QED BY <1>3, <1>7, <3>1, <3>2, SettlePassed
  <2>4. DfsTypeOK'
    BY <1>1, <1>2, <1>3, <1>5, <2>1 DEF DfsInv, DfsTypeOK, Frames
  <2> QED BY <1>1, <1>2, <1>4, <1>5, <1>6, <1>8, <2>1, <2>3, <2>4 DEF DfsInv
<1> QED BY <1>9, <1>10

(* Finishing a node keeps the invariant.                                     *)
LEMMA FinishKeeps ==
    ASSUME DfsInv, FinishNode
    PROVE  DfsInv'
<1>1. PICK fr, stk, base, col, col2, pre, post, post2, be, suc :
        /\ fr = Top /\ stk = toVisit /\ base = toVisit' /\ col = color /\ col2 = color'
        /\ pre = preOrder /\ post = postOrder /\ post2 = postOrder' /\ be = backEdges /\ suc = succ
  OBVIOUS
<1>2. /\ stk # << >> /\ ~(fr.first <= Len(suc[fr.node]))
      /\ base = Front(stk) /\ fr = Last(stk) /\ post2 = Append(post, fr.node)
      /\ col2 = [col EXCEPT ![fr.node] = "black"]
      /\ UNCHANGED <<graph, started, preOrder, backEdges>>
  BY <1>1 DEF FinishNode, AtSuccessor, Top
<1>3. /\ stk \in Seq(Frames) /\ post \in Seq(Nodes)
      /\ col \in [Nodes -> {"white", "grey", "black"}]
  BY <1>1, StackTypes DEF DfsInv, DfsTypeOK
<1>4. IsPush(base, stk, fr) /\ base \in Seq(Frames) /\ fr \in Frames
  BY <1>2, <1>3, Popped
<1>5. fr.node \in Nodes /\ fr.first \in Nat
  BY <1>4 DEF Frames
<1>6. IsPush(post, post2, fr.node) /\ post2 \in Seq(Nodes)
  BY <1>2, <1>3, <1>5, Appended
<1>7. /\ col2 \in [Nodes -> {"white", "grey", "black"}]
      /\ \A m \in Nodes : col2[m] = IF m = fr.node THEN "black" ELSE col[m]
  BY <1>2, <1>3, <1>5
<1>8. /\ Colors(col, stk, pre, post) /\ OpenOnce(stk) /\ InOrder(stk, pre)
      /\ Reported(stk, post, be) /\ SeenInOrder(pre, be) /\ Finished(post, be, suc)
      /\ Passed(stk, NoNode, post, be, suc) /\ IsInjective(pre) /\ IsInjective(post)
  BY <1>1 DEF DfsInv
<1>9. /\ Colors(col2, base, pre, post2) /\ OpenOnce(base) /\ InOrder(base, pre)
      /\ Reported(base, post2, be) /\ fr.node \notin ToSet(post)
  BY <1>4, <1>5, <1>6, <1>7, <1>8, PopKeeps
<1>10. IsInjective(post2) /\ ToSet(post2) = ToSet(post) \cup {fr.node}
  BY <1>6, <1>8, <1>9, PushInjective, PushSet
<1>11. /\ DOMAIN suc[fr.node] = 1 .. Len(suc[fr.node]) /\ Len(suc[fr.node]) \in Nat
       /\ NoNode \notin ToSet(suc[fr.node])
  BY <1>1, <1>5, StackTypes
<1>12. Finished(post2, be, suc)
  <2>1. Len(suc[fr.node]) < fr.first
    BY <1>2, <1>5, <1>11
  <2> QED BY <1>4, <1>5, <1>6, <1>8, <1>11, <2>1, PopFinished
<1>13. Passed(base, NoNode, post2, be, suc)
  <2>1. Passed(base, fr.node, post, be, suc)
    BY <1>4, <1>8, PopPassed
  <2>2. ToSet(post) \subseteq ToSet(post2) /\ ToSet(be) \subseteq ToSet(be)
    BY <1>10
  <2>3. Len(base) \in Nat /\ DOMAIN base = 1 .. Len(base)
    BY <1>4 DEF IsPush
  <2>4. Settled(base[Len(base)].node, fr.node, post2, be)
    BY <1>10 DEF Settled
  <2> QED BY <2>1, <2>2, <2>3, <2>4, SettlePassed
<1>14. succ' = suc /\ Reachable' = Reachable
  BY <1>1, <1>2 DEF succ, Reachable, Edge
<1>15. DiscoveredReachable'
  <2>1. ToSet(preOrder) \subseteq Reachable /\ (started => graph.entry \in ToSet(preOrder) \cup {NoNode})
    BY DEF DfsInv, DiscoveredReachable
  <2>2. started
    BY <1>1, <1>2 DEF DfsInv, DiscoveredReachable, DfsTypeOK
  <2> QED BY <1>2, <1>14, <2>1, <2>2 DEF DiscoveredReachable
<1>16. DfsTypeOK'
  BY <1>1, <1>2, <1>4, <1>6, <1>7, <1>14 DEF DfsInv, DfsTypeOK, Frames
<1> QED BY <1>1, <1>2, <1>8, <1>9, <1>10, <1>12, <1>13, <1>14, <1>15, <1>16 DEF DfsInv

-----------------------------------------------------------------------------
(* The invariant holds before the search.                                    *)
LEMMA InitDfsInv == ASSUME DfsInit PROVE DfsInv
<1>1. /\ graph \in Graphs /\ color = [n \in Nodes |-> "white"] /\ toVisit = << >>
      /\ started = FALSE /\ preOrder = << >> /\ postOrder = << >> /\ backEdges = << >>
  BY DEF DfsInit
<1>2. ToSet(<< >>) = {} /\ DOMAIN << >> = {}
  BY DEF ToSet
<1>3. DfsTypeOK
  <2>1. graph.entry \in Nodes \cup {NoNode} /\ succ \in [Nodes -> Seq(Nodes)]
    BY <1>1, GraphsAssumption DEF succ
  <2>2. color \in [Nodes -> {"white", "grey", "black"}] /\ started \in BOOLEAN
    BY <1>1
  <2>3. toVisit \in Seq([node : Nodes, first : Nat \ {0}])
    BY <1>1
  <2>4. preOrder \in Seq(Nodes) /\ postOrder \in Seq(Nodes) /\ backEdges \in Seq(Nodes \X Nodes)
    BY <1>1
  <2> QED BY <2>1, <2>2, <2>3, <2>4 DEF DfsTypeOK
<1>4. Colors(color, toVisit, preOrder, postOrder)
  BY <1>1, <1>2 DEF Colors
<1>5. OpenOnce(toVisit) /\ IsInjective(preOrder) /\ IsInjective(postOrder)
  BY <1>1, <1>2 DEF OpenOnce, IsInjective
<1>6. InOrder(toVisit, preOrder) /\ Passed(toVisit, NoNode, postOrder, backEdges, succ)
  BY <1>1, <1>2 DEF InOrder, Passed
<1>7. /\ Finished(postOrder, backEdges, succ) /\ Reported(toVisit, postOrder, backEdges)
      /\ SeenInOrder(preOrder, backEdges)
  BY <1>1, <1>2 DEF Finished, Reported, SeenInOrder
<1>8. DiscoveredReachable
  BY <1>1, <1>2 DEF DiscoveredReachable
<1> QED BY <1>3, <1>4, <1>5, <1>6, <1>7, <1>8 DEF DfsInv

(* Every step keeps it.                                                      *)
LEMMA StepDfsInv == ASSUME DfsInv, [DfsNext]_dfsVars PROVE DfsInv'
<1>1. CASE UNCHANGED dfsVars
  <2>1. succ' = succ
    BY <1>1 DEF dfsVars, succ
  <2>2. Reachable' = Reachable
    BY <1>1, <2>1 DEF dfsVars, Reachable, Edge
  <2>3. DfsTypeOK'
    BY <1>1, <2>1 DEF dfsVars, DfsInv, DfsTypeOK
  <2>4. DiscoveredReachable'
    BY <1>1, <2>2 DEF dfsVars, DfsInv, DiscoveredReachable
  <2> QED BY <1>1, <2>1, <2>3, <2>4 DEF dfsVars, DfsInv
<1> QED BY <1>1, StartKeeps, DescendKeeps, PassKeeps, FinishKeeps DEF DfsNext

(* The colours, the stack and the three logs of the search agree.            *)
THEOREM DfsInvariance == DfsSpec => []DfsInv
<1> QED BY InitDfsInv, StepDfsInv, PTL DEF DfsSpec

(* The state of the search has the types the code gives it.                  *)
THEOREM DfsTypes == DfsSpec => []DfsTypeOK
<1>1. DfsInv => DfsTypeOK
  BY DEF DfsInv
<1> QED BY <1>1, DfsInvariance, PTL

(* A reported back edge closes a cycle: its target is discovered before its  *)
(* source and finished after it.                                             *)
THEOREM BackEdgesReported == DfsSpec => []BackEdgesCloseCycles
<1>1. DfsInv => BackEdgesCloseCycles
  <2> SUFFICES ASSUME DfsInv, NEW e \in ToSet(backEdges)
               PROVE  /\ \E i, j \in DOMAIN preOrder :
                            i <= j /\ preOrder[i] = e[2] /\ preOrder[j] = e[1]
                      /\ \A i \in DOMAIN postOrder : postOrder[i] = e[2] =>
                            \E j \in 1 .. i : postOrder[j] = e[1]
    BY DEF BackEdgesCloseCycles
  <2>1. \E i, j \in DOMAIN preOrder : i <= j /\ preOrder[i] = e[2] /\ preOrder[j] = e[1]
    BY DEF DfsInv, SeenInOrder
  <2>2. ASSUME NEW i \in DOMAIN postOrder, postOrder[i] = e[2]
        PROVE  \E j \in 1 .. i : postOrder[j] = e[1]
    <3>1. postOrder \in Seq(Nodes) /\ DOMAIN postOrder = 1 .. Len(postOrder)
      BY DEF DfsInv, DfsTypeOK
    <3>2. e[2] \in Nodes /\ e[2] \in ToSet(postOrder)
      BY <2>2, <3>1 DEF ToSet
    <3>3. ~\E k \in DOMAIN toVisit : toVisit[k].node = e[2]
      BY <3>2 DEF DfsInv, Colors
    <3>4. PICK k, j \in DOMAIN postOrder : j <= k /\ postOrder[k] = e[2] /\ postOrder[j] = e[1]
      BY <3>3 DEF DfsInv, Reported
    <3>5. k = i
      BY <2>2, <3>4 DEF DfsInv, IsInjective
    <3> QED BY <3>1, <3>4, <3>5
  <2> QED BY <2>1, <2>2
<1> QED BY <1>1, DfsInvariance, PTL

(* A search that has ended has discovered and finished the reachable nodes.  *)
LEMMA SearchReaches == ASSUME DfsInv PROVE VisitsReachable
<1> SUFFICES ASSUME started, toVisit = << >>
             PROVE  /\ ToSet(preOrder) = Reachable /\ IsInjective(preOrder)
                    /\ ToSet(postOrder) = Reachable /\ IsInjective(postOrder)
  BY DEF VisitsReachable, DfsDone
<1>1. ToSet(preOrder) \subseteq Nodes /\ ToSet(postOrder) \subseteq Nodes
  BY DEF DfsInv, DfsTypeOK, ToSet
<1>2. ToSet(preOrder) = ToSet(postOrder)
  <2>1. ASSUME NEW m \in Nodes PROVE m \in ToSet(preOrder) <=> m \in ToSet(postOrder)
    <3>1. color[m] # "grey" /\ color[m] \in {"white", "grey", "black"}
      BY DEF DfsInv, DfsTypeOK, Colors
    <3> QED BY <3>1 DEF DfsInv, Colors
  <2> QED BY <1>1, <2>1
<1>3. Reachable \subseteq ToSet(postOrder)
  <2>1. PICK C : C = ToSet(postOrder)
    OBVIOUS
  <2>2. C \in SUBSET Nodes /\ Seeds \subseteq C
    BY <1>1, <1>2, <2>1 DEF DfsInv, DiscoveredReachable, Seeds
  <2>3. ASSUME NEW m \in C, NEW n \in Nodes, Edge(m, n) PROVE n \in C
    <3>1. PICK i \in DOMAIN postOrder : postOrder[i] = m
      BY <2>1 DEF ToSet
    <3>2. n \in ToSet(succ[m])
      BY <2>3 DEF Edge, ToSet
    <3>3. CASE \E j \in 1 .. i - 1 : postOrder[j] = n
      <4>1. PICK j \in 1 .. i - 1 : postOrder[j] = n
        BY <3>3
      <4>2. j \in DOMAIN postOrder
        <5>1. DOMAIN postOrder = 1 .. Len(postOrder) /\ Len(postOrder) \in Nat
          BY DEF DfsInv, DfsTypeOK
        <5> QED BY <4>1, <5>1
      <4> QED BY <2>1, <4>1, <4>2 DEF ToSet
    <3>4. CASE <<m, n>> \in ToSet(backEdges)
      <4>1. PICK e \in ToSet(backEdges) : e = <<m, n>>
        BY <3>4
      <4>2. n \in ToSet(preOrder)
        BY <4>1 DEF DfsInv, SeenInOrder, ToSet
      <4> QED BY <1>2, <2>1, <4>2
    <3> QED BY <3>1, <3>2, <3>3, <3>4 DEF DfsInv, Finished
  <2> QED BY <2>1, <2>2, <2>3, ReachableLeast DEF DfsInv
<1>4. ToSet(preOrder) \subseteq Reachable
  BY DEF DfsInv, DiscoveredReachable
<1> QED BY <1>2, <1>3, <1>4 DEF DfsInv

(* A search that has ended has discovered and finished each reachable node   *)
(* once, and its post-order is topological but for the reported back edges.  *)
THEOREM PostOrderIsTopological == DfsSpec => []PostOrderTopological
<1>1. DfsInv => PostOrderTopological
  BY SearchReaches DEF PostOrderTopological, DfsInv, Finished
<1> QED BY <1>1, DfsInvariance, PTL

-----------------------------------------------------------------------------
(* The order of discovery: pre is the pre-order, e the entry, suc the        *)
(* successors.                                                               *)

(* The entry is discovered first, and everything else over an edge from      *)
(* something discovered before it.                                           *)
GrownFrom(pre, e, suc) ==
    /\ pre # << >> => pre[1] = e
    /\ \A t \in 2 .. Len(pre) : \E s \in 1 .. t - 1 :
          \E i \in DOMAIN suc[pre[s]] : suc[pre[s]][i] = pre[t]

SearchInv == /\ DfsInv /\ graph \in Graphs
             /\ GrownFrom(preOrder, graph.entry, succ)

(* The search starts with nothing discovered.                                *)
LEMMA SearchStarts == ASSUME DfsInit PROVE SearchInv
<1>1. DfsInv /\ graph \in Graphs
  BY InitDfsInv DEF DfsInit
<1>2. preOrder = << >> /\ Len(<< >>) = 0
  BY DEF DfsInit
<1>3. GrownFrom(preOrder, graph.entry, succ)
  BY <1>2 DEF GrownFrom
<1> QED BY <1>1, <1>3 DEF SearchInv

(* A node pushed on the order of discovery keeps it grown from the entry, if *)
(* it is the entry or a successor of something discovered.                   *)
LEMMA GrownAppend ==
    ASSUME NEW pre \in Seq(Nodes), NEW e, NEW suc, NEW n \in Nodes, GrownFrom(pre, e, suc),
           \/ pre = << >> /\ n = e
           \/ \E m \in ToSet(pre) : \E i \in DOMAIN suc[m] : suc[m][i] = n
    PROVE  GrownFrom(Append(pre, n), e, suc)
<1> DEFINE new == Append(pre, n)
<1>1. /\ Len(new) = Len(pre) + 1 /\ Len(pre) \in Nat
      /\ \A t \in 1 .. Len(pre) : new[t] = pre[t]
      /\ new[Len(pre) + 1] = n
  OBVIOUS
<1> HIDE DEF new
<1>2. new[1] = e
  <2>1. CASE pre = << >>
    <3>1. ToSet(pre) = {} /\ Len(pre) = 0
      BY <2>1 DEF ToSet
    <3> QED BY <1>1, <2>1, <3>1
  <2>2. CASE pre # << >>
    <3>1. Len(pre) >= 1
      BY <2>2
    <3> QED BY <1>1, <2>2, <3>1 DEF GrownFrom
  <2> QED BY <2>1, <2>2
<1>3. ASSUME NEW t \in 2 .. Len(new)
      PROVE  \E s \in 1 .. t - 1 : \E i \in DOMAIN suc[new[s]] : suc[new[s]][i] = new[t]
  <2>1. CASE t <= Len(pre)
    <3>1. t \in 2 .. Len(pre) /\ new[t] = pre[t]
      BY <1>1, <2>1
    <3>2. PICK s \in 1 .. t - 1 : \E i \in DOMAIN suc[pre[s]] : suc[pre[s]][i] = pre[t]
      BY <3>1 DEF GrownFrom
    <3>3. new[s] = pre[s]
      BY <1>1, <3>1
    <3> QED BY <3>1, <3>2, <3>3
  <2>2. CASE t > Len(pre)
    <3>1. t = Len(pre) + 1 /\ new[t] = n /\ pre # << >>
      BY <1>1, <2>2
    <3>2. PICK m \in ToSet(pre) : \E i \in DOMAIN suc[m] : suc[m][i] = n
      BY <3>1
    <3>3. PICK s \in 1 .. Len(pre) : pre[s] = m
      BY <3>2 DEF ToSet
    <3>4. s \in 1 .. t - 1 /\ new[s] = m
      BY <1>1, <3>1, <3>3
    <3> QED BY <3>1, <3>2, <3>4
  <2> QED BY <1>1, <2>1, <2>2
<1>4. GrownFrom(new, e, suc)
  BY <1>2, <1>3 DEF GrownFrom
<1> QED BY <1>4 DEF new

(* Every step of the search keeps it so.                                     *)
LEMMA SearchGoesOn == ASSUME SearchInv, [DfsNext]_dfsVars PROVE SearchInv'
<1>1. DfsInv'
  BY StepDfsInv DEF SearchInv
<1>2. graph' = graph /\ succ' = succ
  BY DEF DfsNext, Start, PassVisited, Descend, FinishNode, dfsVars, succ
<1>3. GrownFrom(preOrder, graph.entry, succ) /\ preOrder \in Seq(Nodes)
  BY DEF SearchInv, DfsInv, DfsTypeOK
<1>4. GrownFrom(preOrder', graph.entry, succ)
  <2>1. CASE preOrder' = preOrder
    BY <1>3, <2>1
  <2>2. CASE Start /\ preOrder' # preOrder
    <3>1. graph.entry \in Nodes /\ preOrder' = Append(preOrder, graph.entry) /\ ~started
      BY <2>2 DEF Start, VisitNode, SearchInv, DfsInv, DfsTypeOK
    <3>2. preOrder = << >>
      BY <3>1 DEF SearchInv, DfsInv, DiscoveredReachable
    <3> QED BY <1>3, <3>1, <3>2, GrownAppend
  <2>3. CASE Descend
    <3>1. preOrder' = Append(preOrder, Successor) /\ AtSuccessor
      BY <2>3 DEF Descend, VisitNode
    <3>2. /\ Top.node \in Nodes /\ Successor \in Nodes /\ Edge(Top.node, Successor)
          /\ Len(toVisit) \in DOMAIN toVisit /\ Top = toVisit[Len(toVisit)]
      <4>1. toVisit \in Seq(Frames)
        BY StackTypes DEF SearchInv
      <4>2. Len(toVisit) \in DOMAIN toVisit
        BY <3>1, <4>1, AtTop DEF SearchInv
      <4> QED BY <3>1, <4>2, AtTop DEF SearchInv
    <3>3. Top.node \in ToSet(preOrder)
      BY <3>2 DEF SearchInv, DfsInv, Colors
    <3> QED BY <1>3, <3>1, <3>2, <3>3, GrownAppend DEF Edge
  <2> QED BY <2>1, <2>2, <2>3 DEF DfsNext, PassVisited, FinishNode, dfsVars
<1> QED BY <1>1, <1>2, <1>4 DEF SearchInv

-----------------------------------------------------------------------------
(* DFS times: the place of a node in an order pre without repetitions.       *)
TimeIn(pre, n) == CHOOSE t \in DOMAIN pre : pre[t] = n

IsOrder(pre) == pre \in Seq(Nodes) /\ IsInjective(pre)

(* A DFS time of the builder is such a place.                                *)
LEMMA TimeIs == \A n : Time(n) = TimeIn(preOrder, n)
BY DEF Time, TimeIn

(* A node's time is its place, and a place's time is itself.                 *)
LEMMA Times ==
    ASSUME NEW pre, IsOrder(pre)
    PROVE  /\ Len(pre) \in Nat /\ DOMAIN pre = 1 .. Len(pre)
           /\ ToSet(pre) \subseteq Nodes
           /\ \A n \in ToSet(pre) : TimeIn(pre, n) \in 1 .. Len(pre) /\ pre[TimeIn(pre, n)] = n
           /\ \A t \in 1 .. Len(pre) : pre[t] \in ToSet(pre) /\ TimeIn(pre, pre[t]) = t
<1>1. Len(pre) \in Nat /\ DOMAIN pre = 1 .. Len(pre) /\ \A t \in 1 .. Len(pre) : pre[t] \in Nodes
  BY DEF IsOrder
<1>2. \A n \in ToSet(pre) : n \in Nodes /\ \E t \in DOMAIN pre : pre[t] = n
  BY <1>1 DEF ToSet
<1>3. \A n \in ToSet(pre) : TimeIn(pre, n) \in 1 .. Len(pre) /\ pre[TimeIn(pre, n)] = n
  BY <1>1, <1>2 DEF TimeIn
<1>4. \A t \in 1 .. Len(pre) : pre[t] \in ToSet(pre)
  BY <1>1 DEF ToSet
<1>5. \A s, t \in 1 .. Len(pre) : pre[s] = pre[t] => s = t
  BY <1>1 DEF IsOrder, IsInjective
<1> QED BY <1>1, <1>2, <1>3, <1>4, <1>5

(* There are no more times than nodes.                                       *)
LEMMA TimesBounded ==
    ASSUME NEW pre, IsOrder(pre)
    PROVE  Cardinality(Nodes) \in Nat /\ Len(pre) <= Cardinality(Nodes)
<1>1. IsFiniteSet(Nodes) /\ Cardinality(Nodes) \in Nat
  BY GraphsAssumption, FS_CardinalityType
<1>2. Len(pre) \in Nat /\ pre \in [1 .. Len(pre) -> Nodes]
  BY DEF IsOrder
<1>3. IsFiniteSet(1 .. Len(pre)) /\ Cardinality(1 .. Len(pre)) = Len(pre)
  <2>1. PICK a, b : a = 1 /\ b = Len(pre)
    OBVIOUS
  <2>2. a \in Int /\ b \in Int /\ a <= b + 1 /\ b - a + 1 = Len(pre)
    BY <1>2, <2>1
  <2>3. IsFiniteSet(a .. b) /\ Cardinality(a .. b) = IF a > b THEN 0 ELSE b - a + 1
    BY <2>2, FS_Interval
  <2> QED BY <2>1, <2>2, <2>3
<1>4. pre \in Injection(1 .. Len(pre), Nodes)
  BY <1>2 DEF IsOrder, IsInjective, Injection
<1>5. Cardinality(1 .. Len(pre)) <= Cardinality(Nodes)
  BY <1>1, <1>4, FS_Injection
<1> QED BY <1>1, <1>3, <1>5

-----------------------------------------------------------------------------
(* The forest of the DSU: links lead to smaller times, labels to no greater. *)
Links(pre) == [parent : [ToSet(pre) -> ToSet(pre)], label : [ToSet(pre) -> ToSet(pre)]]

Falls(pre, d) ==
    \A n \in ToSet(pre) :
        /\ d.parent[n] = n \/ TimeIn(pre, d.parent[n]) < TimeIn(pre, n)
        /\ TimeIn(pre, d.label[n]) <= TimeIn(pre, n)

(* The nodes up to time a have not been united with anything.                *)
RootsUpTo(pre, a, d) == \A n \in ToSet(pre) : TimeIn(pre, n) <= a => d.parent[n] = n

Forests(pre, a) == {d \in Links(pre) : Falls(pre, d) /\ RootsUpTo(pre, a, d)}

(* One call of find, above being the answers of the others.                  *)
FindRound(pre, d, sd, above) ==
    [y \in ToSet(pre) |-> IF d.parent[y] = y THEN [found |-> y, dsu |-> d]
                          ELSE Compressed(sd, y, above[d.parent[y]])]

Answers(pre) == [ToSet(pre) -> [found : ToSet(pre), dsu : Links(pre)]]

(* What is compressed is a forest of links again.                            *)
LEMMA CompressedLinks ==
    ASSUME NEW pre, NEW y \in ToSet(pre), NEW sd,
           NEW r \in [found : ToSet(pre), dsu : Links(pre)]
    PROVE  Compressed(sd, y, r) \in [found : ToSet(pre), dsu : Links(pre)]
<1>1. /\ r.found \in ToSet(pre) /\ r.dsu.parent \in [ToSet(pre) -> ToSet(pre)]
      /\ r.dsu.label \in [ToSet(pre) -> ToSet(pre)]
  BY DEF Links
<1>2. PICK label : label = BetterLabel(sd, r.dsu.label[r.dsu.parent[y]], r.dsu.label[y])
  OBVIOUS
<1>3. label \in ToSet(pre)
  <2>1. r.dsu.label[r.dsu.parent[y]] \in ToSet(pre) /\ r.dsu.label[y] \in ToSet(pre)
    BY <1>1
  <2> QED BY <1>2, <2>1 DEF BetterLabel
<1>4. Compressed(sd, y, r) = [found |-> label,
                              dsu |-> [parent |-> [r.dsu.parent EXCEPT ![y] = r.found],
                                       label |-> [r.dsu.label EXCEPT ![y] = label]]]
  BY <1>2 DEF Compressed
<1> QED BY <1>1, <1>3, <1>4 DEF Links

(* The recursion of find ends: its answers are those of one function.        *)
LEMMA FindRuns ==
    ASSUME IsOrder(preOrder), NEW sd, NEW d \in Links(preOrder), Falls(preOrder, d)
    PROVE  \E f : /\ f = FindRound(preOrder, d, sd, f)
                  /\ \A x \in ToSet(preOrder) : Find(d, sd, x) = f[x]
<1>1. PICK pre, n : pre = preOrder /\ n = Len(preOrder)
  OBVIOUS
<1>2. /\ IsOrder(pre) /\ n \in Nat /\ DOMAIN pre = 1 .. n /\ d \in Links(pre) /\ Falls(pre, d)
      /\ \A y \in ToSet(pre) : TimeIn(pre, y) \in 1 .. n
      /\ d.parent \in [ToSet(pre) -> ToSet(pre)]
  BY <1>1, Times DEF Links
<1> DEFINE D == [k \in 1 .. n |-> [above \in Answers(pre) |-> FindRound(pre, d, sd, above)]]
<1>3. \A above \in Answers(pre) : FindRound(pre, d, sd, above) \in Answers(pre)
  <2> SUFFICES ASSUME NEW above \in Answers(pre), NEW y \in ToSet(pre)
               PROVE  (IF d.parent[y] = y THEN [found |-> y, dsu |-> d]
                       ELSE Compressed(sd, y, above[d.parent[y]]))
                      \in [found : ToSet(pre), dsu : Links(pre)]
    BY DEF FindRound, Answers
  <2>1. above[d.parent[y]] \in [found : ToSet(pre), dsu : Links(pre)]
    BY <1>2 DEF Answers
  <2> QED BY <1>2, <2>1, CompressedLinks
<1>4. D \in Rounds(Answers(pre), n)
  BY <1>3 DEF Rounds
<1>5. PICK x0 : x0 = [y \in ToSet(pre) |-> [found |-> y, dsu |-> d]]
  OBVIOUS
<1>6. x0 \in Answers(pre)
  BY <1>2, <1>5 DEF Answers
<1>7. PICK g : g \in Executions(Answers(pre), n, x0, D)
  <2> HIDE DEF D
  <2> QED BY <1>2, <1>4, <1>6, ExecutionExists
<1>8. /\ \A k \in 0 .. n : g[k] \in Answers(pre)
      /\ \A k \in 1 .. n : g[k] = FindRound(pre, d, sd, g[k - 1])
  <2>1. g \in [0 .. n -> Answers(pre)] /\ \A k \in 1 .. n : g[k] = D[k][g[k - 1]]
    <3> HIDE DEF D
    <3> QED BY <1>7 DEF Executions
  <2>2. ASSUME NEW k \in 1 .. n PROVE g[k] = FindRound(pre, d, sd, g[k - 1])
    <3>1. k - 1 \in 0 .. n /\ g[k - 1] \in Answers(pre)
      BY <1>2, <2>1
    <3> QED BY <2>1, <3>1
  <2> QED BY <2>1, <2>2
<1> HIDE DEF D
<1> DEFINE P == {k \in 0 .. n : k < n => \A y \in ToSet(pre) : TimeIn(pre, y) <= k =>
                                                            g[k][y] = g[k + 1][y]}
<1>9. 0 \in P
  BY <1>2
<1>10. ASSUME NEW k \in 1 .. n, k - 1 \in P PROVE k \in P
  <2> SUFFICES ASSUME k < n, NEW y \in ToSet(pre), TimeIn(pre, y) <= k
               PROVE  g[k][y] = g[k + 1][y]
    BY <1>2
  <2>1. g[k] = FindRound(pre, d, sd, g[k - 1]) /\ g[k + 1] = FindRound(pre, d, sd, g[k])
    <3>1. k + 1 \in 1 .. n /\ k + 1 - 1 = k
      BY <1>2
    <3> QED BY <1>8, <3>1
  <2>2. CASE d.parent[y] = y
    BY <2>1, <2>2 DEF FindRound
  <2>3. CASE d.parent[y] # y
    <3>1. d.parent[y] \in ToSet(pre) /\ TimeIn(pre, d.parent[y]) < TimeIn(pre, y)
      BY <1>2, <2>3 DEF Falls
    <3>2. TimeIn(pre, d.parent[y]) <= k - 1 /\ k - 1 < n
      BY <1>2, <3>1
    <3>3. g[k - 1][d.parent[y]] = g[k - 1 + 1][d.parent[y]] /\ k - 1 + 1 = k
      BY <1>10, <3>1, <3>2
    <3> QED BY <2>1, <3>1, <3>3, SMTT(30) DEF FindRound
  <2> QED BY <2>2, <2>3
<1>11. P = 0 .. n
  <2>1. P \in SUBSET (0 .. n)
    OBVIOUS
  <2> HIDE DEF P
  <2> QED BY <1>2, <1>9, <1>10, <2>1, RangeInduction
<1>12. g[n] = FindRound(pre, d, sd, g[n])
  <2>1. CASE n = 0
    <3>1. ToSet(pre) = {}
      BY <1>2, <2>1
    <3>2. g[n] \in Answers(pre)
      BY <1>2, <1>8
    <3>3. DOMAIN g[n] = {} /\ g[n] = [y \in DOMAIN g[n] |-> g[n][y]]
      BY <3>1, <3>2 DEF Answers
    <3>4. FindRound(pre, d, sd, g[n]) = [y \in {} |-> g[n][y]]
      BY <3>1 DEF FindRound
    <3> QED BY <3>3, <3>4
  <2>2. CASE n # 0
    <3>0. n \in 1 .. n /\ n - 1 \in 0 .. n /\ n - 1 < n /\ n - 1 + 1 = n
      BY <1>2, <2>2
    <3>1. g[n] = FindRound(pre, d, sd, g[n - 1]) /\ n - 1 \in P
      <4> HIDE DEF P
      <4> QED BY <1>8, <1>11, <3>0
    <3>2. ASSUME NEW y \in ToSet(pre), d.parent[y] # y
          PROVE  g[n - 1][d.parent[y]] = g[n][d.parent[y]]
      <4>1. /\ d.parent[y] \in ToSet(pre) /\ TimeIn(pre, d.parent[y]) < TimeIn(pre, y)
            /\ TimeIn(pre, d.parent[y]) \in 1 .. n /\ TimeIn(pre, y) \in 1 .. n
        BY <1>2, <3>2 DEF Falls
      <4>2. TimeIn(pre, d.parent[y]) <= n - 1
        BY <1>2, <4>1
      <4> QED BY <3>0, <3>1, <4>1, <4>2
    <3>3. FindRound(pre, d, sd, g[n - 1]) = FindRound(pre, d, sd, g[n])
      <4> HIDE DEF P
      <4> QED BY <3>2 DEF FindRound
    <3> QED BY <3>1, <3>3
  <2> QED BY <2>1, <2>2
<1>13. PICK f : f = CHOOSE h : h = FindRound(pre, d, sd, h)
  OBVIOUS
<1>14. f = FindRound(pre, d, sd, f)
  <2> HIDE DEF P
  <2>1. \E h : h = FindRound(pre, d, sd, h)
    BY <1>12
  <2> QED BY <1>13, <2>1
<1>15. \A x \in ToSet(preOrder) : Find(d, sd, x) = f[x]
  BY <1>1, <1>13 DEF Find, FindRound, Discovered
<1> QED BY <1>1, <1>14, <1>15

(* What find has to answer for y, nodes up to time a being roots: a node     *)
(* discovered no later than y, y itself if it is a root, and a forest.       *)
AnswersFor(pre, a, y, r) ==
    /\ r.found \in ToSet(pre) /\ TimeIn(pre, r.found) <= TimeIn(pre, y)
    /\ r.dsu \in Forests(pre, a)
    /\ TimeIn(pre, y) <= a => r.found = y

(* Compressing a path leads to smaller times again.                          *)
LEMMA CompressedAnswers ==
    ASSUME NEW pre, IsOrder(pre), NEW a, NEW d \in Forests(pre, a), NEW y \in ToSet(pre),
           d.parent[y] # y, NEW sd, NEW above, AnswersFor(pre, a, d.parent[y], above)
    PROVE  AnswersFor(pre, a, y, Compressed(sd, y, above))
<1>1. /\ d.parent[y] \in ToSet(pre) /\ TimeIn(pre, d.parent[y]) < TimeIn(pre, y)
      /\ ~(TimeIn(pre, y) <= a)
  BY DEF Forests, Links, Falls, RootsUpTo
<1>2. /\ \A n \in ToSet(pre) : TimeIn(pre, n) \in 1 .. Len(pre)
      /\ Len(pre) \in Nat
  BY Times
<1>3. PICK up, lab, fnd : up = above.dsu.parent /\ lab = above.dsu.label /\ fnd = above.found
  OBVIOUS
<1>4. /\ up \in [ToSet(pre) -> ToSet(pre)] /\ lab \in [ToSet(pre) -> ToSet(pre)]
      /\ fnd \in ToSet(pre) /\ TimeIn(pre, fnd) <= TimeIn(pre, d.parent[y])
      /\ \A n \in ToSet(pre) : /\ up[n] = n \/ TimeIn(pre, up[n]) < TimeIn(pre, n)
                               /\ TimeIn(pre, lab[n]) <= TimeIn(pre, n)
                               /\ TimeIn(pre, n) <= a => up[n] = n
  BY <1>3 DEF AnswersFor, Forests, Links, Falls, RootsUpTo
<1>5. PICK new : new = BetterLabel(sd, lab[up[y]], lab[y])
  OBVIOUS
<1>6. new \in ToSet(pre) /\ TimeIn(pre, new) <= TimeIn(pre, y)
  <2>1. PICK u \in ToSet(pre) : u = up[y]
    BY <1>4
  <2>2. /\ lab[u] \in ToSet(pre) /\ lab[y] \in ToSet(pre)
        /\ TimeIn(pre, lab[u]) <= TimeIn(pre, u) /\ TimeIn(pre, lab[y]) <= TimeIn(pre, y)
        /\ u = y \/ TimeIn(pre, u) < TimeIn(pre, y)
    BY <1>4, <2>1
  <2>3. /\ TimeIn(pre, lab[u]) \in Int /\ TimeIn(pre, u) \in Int /\ TimeIn(pre, y) \in Int
        /\ TimeIn(pre, lab[y]) \in Int
    BY <1>2, <2>1, <2>2
  <2>4. TimeIn(pre, lab[u]) <= TimeIn(pre, y)
    BY <2>2, <2>3
  <2>5. new = lab[u] \/ new = lab[y]
    BY <1>5, <2>1 DEF BetterLabel
  <2> QED BY <2>2, <2>4, <2>5
<1>7. PICK d2 : d2 = [parent |-> [up EXCEPT ![y] = fnd], label |-> [lab EXCEPT ![y] = new]]
  OBVIOUS
<1>8. Compressed(sd, y, above) = [found |-> new, dsu |-> d2]
  BY <1>3, <1>5, <1>7 DEF Compressed
<1>9. d2 \in Links(pre)
  BY <1>4, <1>6, <1>7 DEF Links
<1>10. \A n \in ToSet(pre) : /\ d2.parent[n] = IF n = y THEN fnd ELSE up[n]
                             /\ d2.label[n] = IF n = y THEN new ELSE lab[n]
  BY <1>4, <1>7
<1>11. TimeIn(pre, fnd) < TimeIn(pre, y)
  BY <1>1, <1>2, <1>4, SMTT(30)
<1>12. Falls(pre, d2)
  <2> SUFFICES ASSUME NEW n \in ToSet(pre)
               PROVE  /\ d2.parent[n] = n \/ TimeIn(pre, d2.parent[n]) < TimeIn(pre, n)
                      /\ TimeIn(pre, d2.label[n]) <= TimeIn(pre, n)
    BY DEF Falls
  <2>1. CASE n = y
    BY <1>6, <1>10, <1>11, <2>1
  <2>2. CASE n # y
    BY <1>4, <1>10, <2>2
  <2> QED BY <2>1, <2>2
<1>13. RootsUpTo(pre, a, d2)
  BY <1>1, <1>4, <1>10 DEF RootsUpTo
<1>14. d2 \in Forests(pre, a)
  BY <1>9, <1>12, <1>13 DEF Forests
<1> QED BY <1>1, <1>6, <1>8, <1>14 DEF AnswersFor

(* What find answers, and the forest it leaves, whatever was compressed.     *)
LEMMA FindAnswers ==
    ASSUME IsOrder(preOrder), NEW a, NEW sd, NEW d \in Forests(preOrder, a),
           NEW x \in ToSet(preOrder)
    PROVE  AnswersFor(preOrder, a, x, Find(d, sd, x))
<1>1. d \in Links(preOrder) /\ Falls(preOrder, d)
  BY DEF Forests
<1>2. PICK f : /\ f = FindRound(preOrder, d, sd, f)
               /\ \A y \in ToSet(preOrder) : Find(d, sd, y) = f[y]
  BY <1>1, FindRuns
<1>3. PICK pre, n : pre = preOrder /\ n = Len(preOrder)
  OBVIOUS
<1>4. /\ IsOrder(pre) /\ n \in Nat /\ d \in Forests(pre, a) /\ f = FindRound(pre, d, sd, f)
      /\ \A y \in ToSet(pre) : TimeIn(pre, y) \in 1 .. n
  BY <1>2, <1>3, Times
<1> DEFINE P == {k \in 0 .. n : \A y \in ToSet(pre) : TimeIn(pre, y) <= k =>
                                                      AnswersFor(pre, a, y, f[y])}
<1>5. 0 \in P
  BY <1>4
<1>6. ASSUME NEW k \in 1 .. n, k - 1 \in P PROVE k \in P
  <2> SUFFICES ASSUME NEW y \in ToSet(pre), TimeIn(pre, y) <= k
               PROVE  AnswersFor(pre, a, y, f[y])
    BY <1>4
  <2>1. CASE d.parent[y] = y
    <3>1. f[y] = [found |-> y, dsu |-> d]
      BY <1>4, <2>1 DEF FindRound
    <3> QED BY <1>4, <3>1 DEF AnswersFor
  <2>2. CASE d.parent[y] # y
    <3>1. f[y] = Compressed(sd, y, f[d.parent[y]])
      BY <1>4, <2>2 DEF FindRound
    <3>2. d.parent[y] \in ToSet(pre) /\ TimeIn(pre, d.parent[y]) < TimeIn(pre, y)
      BY <1>4, <2>2 DEF Forests, Links, Falls
    <3>3. TimeIn(pre, d.parent[y]) <= k - 1
      BY <1>4, <3>2
    <3>4. AnswersFor(pre, a, d.parent[y], f[d.parent[y]])
      BY <1>6, <3>2, <3>3
    <3> QED BY <1>4, <2>2, <3>1, <3>4, CompressedAnswers
  <2> QED BY <2>1, <2>2
<1>7. P = 0 .. n
  <2>1. P \in SUBSET (0 .. n)
    OBVIOUS
  <2> HIDE DEF P
  <2> QED BY <1>4, <1>5, <1>6, <2>1, RangeInduction
<1>8. n \in P
  <2> HIDE DEF P
  <2> QED BY <1>4, <1>7
<1>9. AnswersFor(pre, a, x, f[x])
  BY <1>3, <1>4, <1>8
<1> HIDE DEF P
<1> QED BY <1>2, <1>3, <1>9

-----------------------------------------------------------------------------
(* What is in two sequences, one behind the other.                           *)
LEMMA ConcatSet ==
    ASSUME NEW S, NEW s \in Seq(S), NEW e \in Seq(S)
    PROVE  ToSet(s \o e) = ToSet(s) \cup ToSet(e) /\ s \o e \in Seq(S)
<1>1. PICK k, l, t : k = Len(s) /\ l = Len(e) /\ t = s \o e
  OBVIOUS
<1>2. /\ k \in Nat /\ l \in Nat /\ DOMAIN s = 1 .. k /\ DOMAIN e = 1 .. l
      /\ t \in Seq(S) /\ Len(t) = k + l
      /\ \A i \in 1 .. k + l : t[i] = IF i <= k THEN s[i] ELSE e[i - k]
  BY <1>1, ConcatProperties
<1>3. DOMAIN t = 1 .. k + l
  BY <1>2
<1>4. ASSUME NEW i \in 1 .. k PROVE s[i] \in ToSet(t)
  <2>1. i \in 1 .. k + l /\ t[i] = s[i]
    BY <1>2
  <2> QED BY <1>3, <2>1 DEF ToSet
<1>5. ASSUME NEW i \in 1 .. l PROVE e[i] \in ToSet(t)
  <2>1. k + i \in 1 .. k + l /\ ~(k + i <= k) /\ k + i - k = i
    BY <1>2
  <2>2. t[k + i] = e[i]
    BY <1>2, <2>1
  <2> QED BY <1>3, <2>1, <2>2 DEF ToSet
<1>6. ASSUME NEW i \in 1 .. k + l PROVE t[i] \in ToSet(s) \cup ToSet(e)
  <2>1. CASE i <= k
    <3>1. i \in 1 .. k /\ t[i] = s[i]
      BY <1>2, <2>1
    <3> QED BY <1>2, <3>1 DEF ToSet
  <2>2. CASE ~(i <= k)
    <3>1. i - k \in 1 .. l /\ t[i] = e[i - k]
      BY <1>2, <2>2
    <3> QED BY <1>2, <3>1 DEF ToSet
  <2> QED BY <2>1, <2>2
<1>7. ToSet(t) = {t[i] : i \in 1 .. k + l} /\ ToSet(s) = {s[i] : i \in 1 .. k}
      /\ ToSet(e) = {e[i] : i \in 1 .. l}
  BY <1>2, <1>3 DEF ToSet
<1>8. ToSet(t) = ToSet(s) \cup ToSet(e)
  BY <1>4, <1>5, <1>6, <1>7
<1> QED BY <1>1, <1>2, <1>8

(* The places of n among the successors of m.                                *)
EdgesTo(m, n) == {i \in DOMAIN succ[m] : succ[m][i] = n}

(* The predecessors of a node are the sources of its edges.                  *)
LEMMA PredsAre ==
    ASSUME graph \in Graphs, succ \in [Nodes -> Seq(Nodes)], NEW n \in Nodes
    PROVE  /\ Preds(n) \in Seq(Nodes)
           /\ \A m \in Nodes : m \in ToSet(Preds(n)) <=> Edge(m, n)
<1>1. PICK c, q : c = Cardinality(Nodes) /\ q = graph.linked
  OBVIOUS
<1>2. c \in Nat /\ Nodes = 1 .. c
  BY <1>1, GraphsAssumption, IdsAssumption, FS_CardinalityType
<1>q. q \in [Nodes -> Nodes] /\ \A m \in Nodes : \E k \in Nodes : q[k] = m
  BY <1>1, IdsAssumption
<1>3. ASSUME NEW m \in Nodes
      PROVE  /\ Cardinality(EdgesTo(m, n)) \in Nat
             /\ Cardinality(EdgesTo(m, n)) = 0 <=> ~Edge(m, n)
  <2>1. succ[m] \in Seq(Nodes)
    OBVIOUS
  <2>2. PICK a, b : a = 1 /\ b = Len(succ[m])
    OBVIOUS
  <2>3. DOMAIN succ[m] = a .. b /\ a \in Int /\ b \in Int
    BY <2>1, <2>2
  <2>4. IsFiniteSet(a .. b)
    BY <2>3, FS_Interval
  <2>5. EdgesTo(m, n) \subseteq a .. b
    BY <2>3 DEF EdgesTo
  <2>6. IsFiniteSet(EdgesTo(m, n)) /\ Cardinality(EdgesTo(m, n)) \in Nat
    BY <2>4, <2>5, FS_Subset, FS_CardinalityType
  <2>7. Cardinality(EdgesTo(m, n)) = 0 <=> EdgesTo(m, n) = {}
    BY <2>6, FS_EmptySet
  <2>8. EdgesTo(m, n) = {} <=> ~Edge(m, n)
    BY DEF EdgesTo, Edge
  <2> QED BY <2>6, <2>7, <2>8
<1> DEFINE copies(m) == [i \in 1 .. Cardinality(EdgesTo(m, n)) |-> m]
<1>4. ASSUME NEW m \in Nodes, NEW s \in Seq(Nodes)
      PROVE  /\ s \o copies(m) \in Seq(Nodes)
             /\ ToSet(s \o copies(m)) = ToSet(s) \cup (IF Edge(m, n) THEN {m} ELSE {})
  <2>1. PICK l : l = Cardinality(EdgesTo(m, n))
    OBVIOUS
  <2>2. l \in Nat /\ (l = 0 <=> ~Edge(m, n))
    BY <1>3, <2>1
  <2>3. PICK e : e = [i \in 1 .. l |-> m]
    OBVIOUS
  <2>4. e \in Seq(Nodes) /\ Len(e) = l /\ DOMAIN e = 1 .. l /\ \A i \in 1 .. l : e[i] = m
    BY <2>2, <2>3
  <2>5. ToSet(e) = IF Edge(m, n) THEN {m} ELSE {}
    <3>1. CASE l = 0
      <4>1. DOMAIN e = {}
        BY <2>4, <3>1
      <4> QED BY <2>2, <3>1, <4>1 DEF ToSet
    <3>2. CASE l # 0
      <4>1. 1 \in DOMAIN e
        BY <2>2, <2>4, <3>2
      <4> QED BY <2>2, <2>4, <3>2, <4>1 DEF ToSet
    <3> QED BY <3>1, <3>2
  <2>6. ToSet(s \o e) = ToSet(s) \cup ToSet(e) /\ s \o e \in Seq(Nodes)
    BY <2>4, ConcatSet
  <2> QED BY <2>1, <2>3, <2>5, <2>6
<1> DEFINE D == [k \in 1 .. c |-> [s \in Seq(Nodes) |-> s \o copies(q[k])]]
           Def(h) == [k \in 0 .. c |-> IF k = 0 THEN << >> ELSE h[k - 1] \o copies(q[k])]
<1>5. D \in Rounds(Seq(Nodes), c)
  <2>1. \A k \in 1 .. c : q[k] \in Nodes
    BY <1>q, <1>2
  <2> HIDE DEF copies
  <2> QED BY <1>2, <1>4, <2>1 DEF Rounds
<1>6. << >> \in Seq(Nodes)
  OBVIOUS
<1>7. PICK g : g \in Executions(Seq(Nodes), c, << >>, D)
  <2> HIDE DEF D
  <2> QED BY <1>2, <1>5, <1>6, ExecutionExists
<1>8. g = Def(g)
  <2>1. /\ g \in [0 .. c -> Seq(Nodes)] /\ g[0] = << >>
        /\ \A k \in 1 .. c : g[k] = D[k][g[k - 1]]
    <3> HIDE DEF D
    <3> QED BY <1>7 DEF Executions
  <2>2. ASSUME NEW k \in 1 .. c PROVE g[k] = g[k - 1] \o copies(q[k])
    <3>1. k - 1 \in 0 .. c /\ g[k - 1] \in Seq(Nodes)
      BY <1>2, <2>1
    <3> QED BY <2>1, <3>1
  <2>3. \A k \in 0 .. c : g[k] = IF k = 0 THEN << >> ELSE g[k - 1] \o copies(q[k])
    <3> SUFFICES ASSUME NEW k \in 0 .. c
                 PROVE  g[k] = IF k = 0 THEN << >> ELSE g[k - 1] \o copies(q[k])
      OBVIOUS
    <3>1. CASE k = 0
      BY <2>1, <3>1
    <3>2. CASE k # 0
      <4>1. k \in 1 .. c
        BY <1>2, <3>2
      <4> HIDE DEF copies
      <4> QED BY <2>2, <3>2, <4>1
    <3> QED BY <3>1, <3>2
  <2> HIDE DEF copies, D
  <2> QED BY <2>1, <2>3
<1> HIDE DEF D
<1>9. PICK f : f = CHOOSE h : h = Def(h)
  OBVIOUS
<1>10. f = Def(f)
  <2> HIDE DEF Def
  <2> QED BY <1>8, <1>9
<1>11. Preds(n) = f[c]
  BY <1>1, <1>9 DEF Preds, EdgesTo
<1>12. f[0] = << >> /\ \A k \in 1 .. c : f[k] = f[k - 1] \o copies(q[k])
  <2>1. \A k \in 0 .. c : f[k] = IF k = 0 THEN << >> ELSE f[k - 1] \o copies(q[k])
    <3> HIDE DEF copies
    <3> QED BY <1>10
  <2>2. 0 \in 0 .. c /\ \A k \in 1 .. c : k \in 0 .. c /\ k # 0
    BY <1>2
  <2> HIDE DEF copies
  <2> QED BY <2>1, <2>2
<1> HIDE DEF Def
<1> DEFINE P == {k \in 0 .. c : f[k] \in Seq(Nodes)
                                /\ ToSet(f[k]) = {m \in {q[l] : l \in 1 .. k} : Edge(m, n)}}
<1>13. 0 \in P
  <2>1. DOMAIN << >> = {} /\ << >> \in Seq(Nodes)
    OBVIOUS
  <2>2. ToSet(<< >>) = {}
    BY <2>1 DEF ToSet
  <2>3. f[0] \in Seq(Nodes) /\ ToSet(f[0]) = {} /\ {q[l] : l \in 1 .. 0} = {}
    BY <1>12, <2>1, <2>2
  <2> QED BY <1>2, <2>3
<1>14. ASSUME NEW k \in 1 .. c, k - 1 \in P PROVE k \in P
  <2>1. q[k] \in Nodes /\ f[k - 1] \in Seq(Nodes) /\ f[k] = f[k - 1] \o copies(q[k])
    <3> HIDE DEF copies
    <3> QED BY <1>q, <1>2, <1>12, <1>14
  <2>2. /\ f[k] \in Seq(Nodes)
        /\ ToSet(f[k]) = ToSet(f[k - 1]) \cup (IF Edge(q[k], n) THEN {q[k]} ELSE {})
    <3> HIDE DEF copies
    <3> QED BY <1>4, <2>1
  <2>3. ToSet(f[k - 1]) = {m \in {q[l] : l \in 1 .. k - 1} : Edge(m, n)}
    BY <1>14
  <2>4. ToSet(f[k]) = {m \in {q[l] : l \in 1 .. k} : Edge(m, n)}
    <3>1. 1 .. k = (1 .. k - 1) \cup {k} /\ k \in 0 .. c
      BY <1>2
    <3>2. {q[l] : l \in 1 .. k} = {q[l] : l \in 1 .. k - 1} \cup {q[k]}
      BY <3>1
    <3> QED BY <2>2, <2>3, <3>2
  <2> QED BY <1>2, <2>2, <2>4
<1>15. P = 0 .. c
  <2>1. P \in SUBSET (0 .. c)
    OBVIOUS
  <2> HIDE DEF P
  <2> QED BY <1>2, <1>13, <1>14, <2>1, RangeInduction
<1>16. c \in P
  <2> HIDE DEF P
  <2> QED BY <1>2, <1>15
<1>17. {q[l] : l \in 1 .. c} = Nodes
  BY <1>q, <1>2
<1> QED BY <1>2, <1>11, <1>16, <1>17

-----------------------------------------------------------------------------
(* The semidominators while the node of time a is being worked at: those     *)
(* before it are untouched, those after it are smaller than their node.      *)
Sdoms(n, a) ==
    {sd \in [1 .. n -> 1 .. n] :
        \A t \in 1 .. n : /\ sd[t] <= t
                          /\ t < a => sd[t] = t
                          /\ t > a /\ t > 1 => sd[t] < t}

SdomStates(pre, a) == [dsu : Forests(pre, a), sdoms : Sdoms(Len(pre), a)]

(* Of two numbers, Min is the lesser.                                        *)
LEMMA MinOfTwo ==
    ASSUME NEW v \in Int, NEW w \in Int
    PROVE  Min({v, w}) = IF v <= w THEN v ELSE w
BY DEF Min

(* A round of findMinSdom lowers the semidominator, below its node if the    *)
(* predecessor was discovered earlier.                                       *)
LEMMA LowerSdomKeeps ==
    ASSUME IsOrder(preOrder), NEW a \in 1 .. Len(preOrder), NEW p \in ToSet(preOrder),
           NEW s \in SdomStates(preOrder, a), NEW r, r = LowerSdom(preOrder[a], p, s)
    PROVE  /\ r \in SdomStates(preOrder, a)
           /\ r.sdoms[a] <= s.sdoms[a]
           /\ TimeIn(preOrder, p) < a => r.sdoms[a] < a
<1>1. PICK pre, n, sd, f : /\ pre = preOrder /\ n = Len(preOrder) /\ sd = s.sdoms
                           /\ f = Find(s.dsu, sd, p)
  OBVIOUS
<1>2. /\ n \in Nat /\ a \in 1 .. n /\ sd \in Sdoms(n, a) /\ s.dsu \in Forests(pre, a)
  BY <1>1, Times DEF SdomStates
<1>3. AnswersFor(pre, a, p, f)
  BY <1>1, <1>2, FindAnswers
<1>4. PICK u : u = TimeIn(pre, f.found)
  OBVIOUS
<1>5. /\ u \in 1 .. n /\ TimeIn(pre, p) \in 1 .. n /\ u <= TimeIn(pre, p)
      /\ TimeIn(pre, pre[a]) = a /\ f.dsu \in Forests(pre, a)
      /\ TimeIn(pre, p) <= a => u = TimeIn(pre, p)
  BY <1>1, <1>2, <1>3, <1>4, Times DEF AnswersFor
<1>6. /\ sd \in [1 .. n -> 1 .. n]
      /\ \A t \in 1 .. n : sd[t] <= t /\ (t < a => sd[t] = t) /\ (t > a /\ t > 1 => sd[t] < t)
  BY <1>2 DEF Sdoms
<1>7. PICK low : low = IF sd[a] <= sd[u] THEN sd[a] ELSE sd[u]
  OBVIOUS
<1>8. sd[a] \in 1 .. n /\ sd[u] \in 1 .. n
  BY <1>2, <1>5, <1>6
<1>9. Min({sd[a], sd[u]}) = low
  <2>1. sd[a] \in Int /\ sd[u] \in Int
    BY <1>2, <1>8
  <2> QED BY <1>7, <2>1, MinOfTwo
<1>10. r = [dsu |-> f.dsu, sdoms |-> [sd EXCEPT ![a] = low]]
  <2>1. Time(preOrder[a]) = a /\ Time(f.found) = u
    BY <1>1, <1>4, <1>5, TimeIs
  <2> QED BY <1>1, <1>9, <2>1 DEF LowerSdom
<1>11. low \in 1 .. n /\ low <= sd[a] /\ low <= a /\ low <= sd[u]
  <2>1. sd[a] <= a
    BY <1>2, <1>6
  <2>2. PICK x, y : x = sd[a] /\ y = sd[u]
    OBVIOUS
  <2>3. x \in 1 .. n /\ y \in 1 .. n /\ x <= a /\ low = IF x <= y THEN x ELSE y
    BY <1>7, <1>8, <2>1, <2>2
  <2>4. low \in 1 .. n /\ low <= x /\ low <= a /\ low <= y
    BY ONLY <1>2, <2>3
  <2> QED BY <2>2, <2>4
<1>12. PICK sd2 : sd2 = [sd EXCEPT ![a] = low]
  OBVIOUS
<1>13. sd2 \in [1 .. n -> 1 .. n] /\ \A t \in 1 .. n : sd2[t] = IF t = a THEN low ELSE sd[t]
  BY <1>6, <1>11, <1>12
<1>14. sd2 \in Sdoms(n, a)
  <2> SUFFICES ASSUME NEW t \in 1 .. n
               PROVE  /\ sd2[t] <= t /\ (t < a => sd2[t] = t)
                      /\ (t > a /\ t > 1 => sd2[t] < t)
    BY <1>13 DEF Sdoms
  <2>1. CASE t = a
    BY <1>2, <1>11, <1>13, <2>1
  <2>2. CASE t # a
    BY <1>6, <1>13, <2>2
  <2> QED BY <2>1, <2>2
<1>15. r \in SdomStates(pre, a)
  BY <1>1, <1>5, <1>10, <1>12, <1>14 DEF SdomStates
<1>16. r.sdoms[a] = low
  BY <1>2, <1>10, <1>12, <1>13
<1>17. ASSUME TimeIn(pre, p) < a PROVE low < a
  <2>1. u < a /\ sd[u] = u
    BY <1>2, <1>5, <1>6, <1>17, SMTT(30)
  <2> QED BY <1>2, <1>5, <1>8, <1>11, <2>1
<1> QED BY <1>1, <1>11, <1>15, <1>16, <1>17

(* findMinSdom leaves the semidominator of every node but the first below    *)
(* it: one of the predecessors was discovered before the node.               *)
LEMMA MinSdomFound ==
    ASSUME IsOrder(preOrder), graph \in Graphs, succ \in [Nodes -> Seq(Nodes)],
           NEW a \in 1 .. Len(preOrder), ToSet(Preds(preOrder[a])) \subseteq ToSet(preOrder),
           dsu \in Forests(preOrder, a), sdoms \in Sdoms(Len(preOrder), a),
           a > 1 => \E t \in 1 .. a - 1 : Edge(preOrder[t], preOrder[a]),
           NEW r, r = FindMinSdom(preOrder[a])
    PROVE  r \in SdomStates(preOrder, a) /\ (a > 1 => r.sdoms[a] < a)
<1>1. PICK S, n, node, preds, c, x0 :
         /\ S = SdomStates(preOrder, a) /\ n = Len(preOrder) /\ node = preOrder[a]
         /\ preds = Preds(node) /\ c = Len(preds) /\ x0 = [dsu |-> dsu, sdoms |-> sdoms]
  OBVIOUS
<1>2. /\ x0 \in S /\ node \in Nodes /\ n \in Nat /\ a \in 1 .. n
      /\ \A s \in S : s.sdoms[a] \in 1 .. n
  <2>1. x0 \in S
    BY <1>1 DEF SdomStates
  <2>2. n \in Nat /\ a \in 1 .. n /\ node \in Nodes
    BY <1>1, Times
  <2>3. ASSUME NEW s \in S PROVE s.sdoms[a] \in 1 .. n
    <3>1. s.sdoms \in [1 .. n -> 1 .. n]
      BY <1>1 DEF SdomStates, Sdoms
    <3> QED BY <2>2, <3>1
  <2> QED BY <2>1, <2>2, <2>3
<1>3. preds \in Seq(Nodes) /\ \A m \in Nodes : m \in ToSet(preds) <=> Edge(m, node)
  BY <1>1, <1>2, PredsAre
<1>4. c \in Nat /\ DOMAIN preds = 1 .. c /\ \A k \in 1 .. c : preds[k] \in ToSet(preOrder)
  <2>1. c \in Nat /\ DOMAIN preds = 1 .. c
    BY <1>1, <1>3
  <2>2. \A k \in 1 .. c : preds[k] \in ToSet(preds)
    BY <2>1 DEF ToSet
  <2> QED BY <1>1, <2>1, <2>2
<1>5. ASSUME NEW k \in 1 .. c, NEW s \in S
      PROVE  /\ LowerSdom(node, preds[k], s) \in S
             /\ LowerSdom(node, preds[k], s).sdoms[a] <= s.sdoms[a]
             /\ TimeIn(preOrder, preds[k]) < a => LowerSdom(node, preds[k], s).sdoms[a] < a
  BY <1>1, <1>4, LowerSdomKeeps
<1> DEFINE D == [k \in 1 .. c |-> [s \in S |-> LowerSdom(node, preds[k], s)]]
           Def(h) == [k \in 0 .. c |-> IF k = 0 THEN x0 ELSE LowerSdom(node, preds[k], h[k - 1])]
<1>6. D \in Rounds(S, c)
  BY <1>5 DEF Rounds
<1>7. PICK g : g \in Executions(S, c, x0, D)
  <2> HIDE DEF D
  <2> QED BY <1>2, <1>4, <1>6, ExecutionExists
<1>8. g = Def(g)
  <2>1. g \in [0 .. c -> S] /\ g[0] = x0 /\ \A k \in 1 .. c : g[k] = D[k][g[k - 1]]
    <3> HIDE DEF D
    <3> QED BY <1>7 DEF Executions
  <2>2. ASSUME NEW k \in 1 .. c PROVE g[k] = LowerSdom(node, preds[k], g[k - 1])
    <3>1. k - 1 \in 0 .. c /\ g[k - 1] \in S
      BY <1>4, <2>1
    <3> QED BY <2>1, <3>1
  <2>3. ASSUME NEW k \in 0 .. c
        PROVE  g[k] = IF k = 0 THEN x0 ELSE LowerSdom(node, preds[k], g[k - 1])
    <3>1. CASE k = 0
      BY <2>1, <3>1
    <3>2. CASE k # 0
      <4>1. k \in 1 .. c
        BY <1>4, <3>2
      <4> QED BY <2>2, <3>2, <4>1
    <3> QED BY <3>1, <3>2
  <2> HIDE DEF D
  <2> QED BY <2>1, <2>3
<1> HIDE DEF D
<1>9. PICK f : f = CHOOSE h : h = Def(h)
  OBVIOUS
<1>10. f = Def(f)
  <2> HIDE DEF Def
  <2> QED BY <1>8, <1>9
<1>11. r = f[c]
  BY <1>1, <1>9 DEF FindMinSdom
<1>12. f[0] = x0 /\ \A k \in 1 .. c : f[k] = LowerSdom(node, preds[k], f[k - 1])
  <2>1. \A k \in 0 .. c : f[k] = IF k = 0 THEN x0 ELSE LowerSdom(node, preds[k], f[k - 1])
    BY <1>10
  <2>2. 0 \in 0 .. c /\ \A k \in 1 .. c : k \in 0 .. c /\ k # 0
    BY <1>4
  <2> QED BY <2>1, <2>2
<1> HIDE DEF Def
<1> DEFINE P == {k \in 0 .. c : /\ f[k] \in S
                                /\ \A j \in 1 .. k : TimeIn(preOrder, preds[j]) < a
                                                     => f[k].sdoms[a] < a}
<1>13. 0 \in P
  BY <1>2, <1>4, <1>12
<1>14. ASSUME NEW k \in 1 .. c, k - 1 \in P PROVE k \in P
  <2>1. PICK s : s = f[k - 1]
    OBVIOUS
  <2>2. s \in S /\ \A j \in 1 .. k - 1 : TimeIn(preOrder, preds[j]) < a => s.sdoms[a] < a
    BY <1>14, <2>1
  <2>3. f[k] = LowerSdom(node, preds[k], s)
    BY <1>12, <2>1
  <2>4. /\ f[k] \in S /\ f[k].sdoms[a] <= s.sdoms[a]
        /\ TimeIn(preOrder, preds[k]) < a => f[k].sdoms[a] < a
    BY <1>5, <2>2, <2>3
  <2>5. f[k].sdoms[a] \in 1 .. n /\ s.sdoms[a] \in 1 .. n
    BY <1>2, <2>2, <2>4
  <2>6. ASSUME NEW j \in 1 .. k, TimeIn(preOrder, preds[j]) < a PROVE f[k].sdoms[a] < a
    <3>1. CASE j = k
      BY <2>4, <2>6, <3>1
    <3>2. CASE j # k
      <4>1. j \in 1 .. k - 1
        BY <1>4, <3>2
      <4> QED BY <1>2, <2>2, <2>4, <2>5, <2>6, <4>1
    <3> QED BY <3>1, <3>2
  <2>7. k \in 0 .. c
    BY <1>4
  <2> QED BY <2>4, <2>6, <2>7
<1>15. P = 0 .. c
  <2>1. P \in SUBSET (0 .. c)
    OBVIOUS
  <2> HIDE DEF P
  <2> QED BY <1>4, <1>13, <1>14, <2>1, RangeInduction
<1>16. c \in P
  <2> HIDE DEF P
  <2> QED BY <1>4, <1>15
<1>17. ASSUME a > 1 PROVE r.sdoms[a] < a
  <2>1. PICK t \in 1 .. a - 1 : Edge(preOrder[t], node)
    BY <1>1, <1>17
  <2>2. t \in 1 .. n /\ t < a
    BY <1>2, <2>1
  <2>3. preOrder[t] \in Nodes /\ TimeIn(preOrder, preOrder[t]) = t
    BY <1>1, <2>2, Times
  <2>4. preOrder[t] \in ToSet(preds)
    BY <1>3, <2>1, <2>3
  <2>5. PICK j \in 1 .. c : preds[j] = preOrder[t]
    BY <1>4, <2>4 DEF ToSet
  <2> QED BY <1>11, <1>16, <2>2, <2>3, <2>5
<1> QED BY <1>1, <1>11, <1>16, <1>17

-----------------------------------------------------------------------------
(* The immediate dominators while they are provisional, and what fillIdoms   *)
(* works on.                                                                 *)
Idoms(n) == {id \in [1 .. n -> 1 .. n] : \A t \in 1 .. n : id[t] <= t}

FillStates(pre, a) == [dsu : Forests(pre, a), idoms : Idoms(Len(pre))]

(* A round of fillIdoms gives its node a dominator of smaller time: what     *)
(* find answers is not the node itself, or has its semidominator.            *)
LEMMA FillIdomKeeps ==
    ASSUME IsOrder(preOrder), NEW a, NEW sd \in [1 .. Len(preOrder) -> 1 .. Len(preOrder)],
           NEW node \in ToSet(preOrder), NEW t, t = TimeIn(preOrder, node), sd[t] < t,
           NEW s \in FillStates(preOrder, a), NEW r, r = FillIdom(sd, node, s)
    PROVE  /\ r \in FillStates(preOrder, a)
           /\ r.idoms[t] < t
           /\ \A u \in 1 .. Len(preOrder) : u # t => r.idoms[u] = s.idoms[u]
<1>1. PICK pre, n, id, f : /\ pre = preOrder /\ n = Len(preOrder) /\ id = s.idoms
                           /\ f = Find(s.dsu, sd, node)
  OBVIOUS
<1>2. /\ n \in Nat /\ t \in 1 .. n /\ sd \in [1 .. n -> 1 .. n] /\ s.dsu \in Forests(pre, a)
      /\ id \in [1 .. n -> 1 .. n] /\ \A u \in 1 .. n : id[u] <= u
  BY <1>1, Times DEF FillStates, Idoms
<1>3. AnswersFor(pre, a, node, f)
  BY <1>1, <1>2, FindAnswers
<1>4. PICK u : u = TimeIn(pre, f.found)
  OBVIOUS
<1>5. u \in 1 .. n /\ u <= t /\ f.dsu \in Forests(pre, a)
  BY <1>1, <1>3, <1>4, Times DEF AnswersFor
<1>6. PICK new : new = IF sd[t] = sd[u] THEN sd[t] ELSE u
  OBVIOUS
<1>7. new \in 1 .. n /\ new < t
  <2>1. CASE sd[t] = sd[u]
    BY <1>2, <1>6, <2>1
  <2>2. CASE sd[t] # sd[u]
    BY <1>2, <1>5, <1>6, <2>2
  <2> QED BY <2>1, <2>2
<1>8. r = [dsu |-> f.dsu, idoms |-> [id EXCEPT ![t] = new]]
  <2>1. Time(node) = t /\ Time(f.found) = u
    BY <1>1, <1>4, TimeIs
  <2> QED BY <1>1, <1>6, <2>1 DEF FillIdom
<1>9. PICK id2 : id2 = [id EXCEPT ![t] = new]
  OBVIOUS
<1>10. id2 \in [1 .. n -> 1 .. n] /\ \A v \in 1 .. n : id2[v] = IF v = t THEN new ELSE id[v]
  BY <1>2, <1>7, <1>9
<1>11. id2 \in Idoms(n)
  <2> SUFFICES ASSUME NEW v \in 1 .. n PROVE id2[v] <= v
    BY <1>10 DEF Idoms
  <2>1. CASE v = t
    BY <1>2, <1>7, <1>10, <2>1
  <2>2. CASE v # t
    BY <1>2, <1>10, <2>2
  <2> QED BY <2>1, <2>2
<1>12. r \in FillStates(pre, a)
  BY <1>1, <1>5, <1>8, <1>9, <1>11 DEF FillStates
<1>13. r.idoms = id2
  BY <1>8, <1>9
<1> QED BY <1>1, <1>2, <1>7, <1>10, <1>12, <1>13

(* The nodes of a list can be given dominators of smaller time.              *)
Ready(pre, sd, list) ==
    \A i \in DOMAIN list : /\ list[i] \in ToSet(pre)
                           /\ sd[TimeIn(pre, list[i])] < TimeIn(pre, list[i])

(* fillIdoms gives every node of its list one, and takes none away.          *)
LEMMA IdomsFilled ==
    ASSUME IsOrder(preOrder), NEW a, NEW sd \in [1 .. Len(preOrder) -> 1 .. Len(preOrder)],
           NEW d \in Forests(preOrder, a), idoms \in Idoms(Len(preOrder)),
           NEW list \in Seq(Nodes),
           Ready(preOrder, sd, list),
           NEW r, r = FillIdoms(d, sd, list)
    PROVE  /\ r \in FillStates(preOrder, a)
           /\ \A i \in DOMAIN list : r.idoms[TimeIn(preOrder, list[i])] < TimeIn(preOrder, list[i])
           /\ \A u \in 1 .. Len(preOrder) : idoms[u] < u => r.idoms[u] < u
<1>1. PICK S, n, c, x0, id0 :
         /\ S = FillStates(preOrder, a) /\ n = Len(preOrder) /\ id0 = idoms
         /\ c = Len(list) /\ x0 = [dsu |-> d, idoms |-> idoms]
  OBVIOUS
<1>2. /\ x0 \in S /\ x0.idoms = id0 /\ n \in Nat /\ c \in Nat /\ DOMAIN list = 1 .. c
  BY <1>1, Times DEF FillStates
<1>3. PICK T : T = [k \in 1 .. c |-> TimeIn(preOrder, list[k])]
  OBVIOUS
<1>4. \A k \in 1 .. c : T[k] = TimeIn(preOrder, list[k]) /\ T[k] \in 1 .. n
  BY <1>1, <1>2, <1>3, Times DEF Ready
<1>5. ASSUME NEW k \in 1 .. c, NEW s \in S
      PROVE  /\ FillIdom(sd, list[k], s) \in S
             /\ FillIdom(sd, list[k], s).idoms[T[k]] < T[k]
             /\ \A u \in 1 .. n : u # T[k] => FillIdom(sd, list[k], s).idoms[u] = s.idoms[u]
  <2>1. list[k] \in ToSet(preOrder) /\ sd[T[k]] < T[k] /\ T[k] = TimeIn(preOrder, list[k])
    BY <1>2, <1>4 DEF Ready
  <2> QED BY <1>1, <2>1, FillIdomKeeps
<1> DEFINE D == [k \in 1 .. c |-> [s \in S |-> FillIdom(sd, list[k], s)]]
           Def(h) == [k \in 0 .. c |-> IF k = 0 THEN x0 ELSE FillIdom(sd, list[k], h[k - 1])]
<1>6. D \in Rounds(S, c)
  BY <1>5 DEF Rounds
<1>7. PICK g : g \in Executions(S, c, x0, D)
  <2> HIDE DEF D
  <2> QED BY <1>2, <1>6, ExecutionExists
<1>8. g = Def(g)
  <2>1. g \in [0 .. c -> S] /\ g[0] = x0 /\ \A k \in 1 .. c : g[k] = D[k][g[k - 1]]
    <3> HIDE DEF D
    <3> QED BY <1>7 DEF Executions
  <2>2. ASSUME NEW k \in 1 .. c PROVE g[k] = FillIdom(sd, list[k], g[k - 1])
    <3>1. k - 1 \in 0 .. c /\ g[k - 1] \in S
      BY <1>2, <2>1
    <3> QED BY <2>1, <3>1
  <2>3. ASSUME NEW k \in 0 .. c
        PROVE  g[k] = IF k = 0 THEN x0 ELSE FillIdom(sd, list[k], g[k - 1])
    <3>1. CASE k = 0
      BY <2>1, <3>1
    <3>2. CASE k # 0
      <4>1. k \in 1 .. c
        BY <1>2, <3>2
      <4> QED BY <2>2, <3>2, <4>1
    <3> QED BY <3>1, <3>2
  <2> HIDE DEF D
  <2> QED BY <2>1, <2>3
<1> HIDE DEF D
<1>9. PICK f : f = CHOOSE h : h = Def(h)
  OBVIOUS
<1>10. f = Def(f)
  <2> HIDE DEF Def
  <2> QED BY <1>8, <1>9
<1>11. r = f[c]
  BY <1>1, <1>9 DEF FillIdoms
<1>12. f[0] = x0 /\ \A k \in 1 .. c : f[k] = FillIdom(sd, list[k], f[k - 1])
  <2>1. \A k \in 0 .. c : f[k] = IF k = 0 THEN x0 ELSE FillIdom(sd, list[k], f[k - 1])
    BY <1>10
  <2>2. 0 \in 0 .. c /\ \A k \in 1 .. c : k \in 0 .. c /\ k # 0
    BY <1>2
  <2> QED BY <2>1, <2>2
<1> HIDE DEF Def
<1> DEFINE P == {k \in 0 .. c : /\ f[k] \in S
                                /\ \A j \in 1 .. k : f[k].idoms[T[j]] < T[j]
                                /\ \A u \in 1 .. n : id0[u] < u => f[k].idoms[u] < u}
<1>13. 0 \in P
  BY <1>2, <1>12
<1>14. ASSUME NEW k \in 1 .. c, k - 1 \in P PROVE k \in P
  <2>1. PICK s : s = f[k - 1]
    OBVIOUS
  <2>2. /\ s \in S /\ \A j \in 1 .. k - 1 : s.idoms[T[j]] < T[j]
        /\ \A u \in 1 .. n : id0[u] < u => s.idoms[u] < u
    BY <1>14, <2>1
  <2>3. f[k] = FillIdom(sd, list[k], s)
    BY <1>12, <2>1
  <2>4. /\ f[k] \in S /\ f[k].idoms[T[k]] < T[k]
        /\ \A u \in 1 .. n : u # T[k] => f[k].idoms[u] = s.idoms[u]
    BY <1>5, <2>2, <2>3
  <2>5. ASSUME NEW u \in 1 .. n, s.idoms[u] < u PROVE f[k].idoms[u] < u
    BY <2>4, <2>5
  <2>6. ASSUME NEW j \in 1 .. k PROVE f[k].idoms[T[j]] < T[j]
    <3>1. CASE j = k
      BY <2>4, <3>1
    <3>2. CASE j # k
      <4>1. j \in 1 .. k - 1 /\ j \in 1 .. c
        BY <1>2, <3>2
      <4> QED BY <1>4, <2>2, <2>5, <4>1
    <3> QED BY <3>1, <3>2
  <2>7. k \in 0 .. c
    BY <1>2
  <2> QED BY <2>2, <2>4, <2>5, <2>6, <2>7
<1>15. P = 0 .. c
  <2>1. P \in SUBSET (0 .. c)
    OBVIOUS
  <2> HIDE DEF P
  <2> QED BY <1>2, <1>13, <1>14, <2>1, RangeInduction
<1>16. c \in P
  <2> HIDE DEF P
  <2> QED BY <1>2, <1>15
<1>17. /\ f[c] \in S /\ \A j \in 1 .. c : f[c].idoms[T[j]] < T[j]
       /\ \A u \in 1 .. n : id0[u] < u => f[c].idoms[u] < u
  BY <1>16
<1> HIDE DEF P
<1> QED BY <1>1, <1>2, <1>4, <1>11, <1>17

-----------------------------------------------------------------------------
(* The tree when the nodes before time b hang in it: each but the first      *)
(* once, below one discovered earlier.                                       *)
Places(tree) == {h \in Nodes \X Nat : h[2] \in DOMAIN tree[h[1]]}

Held(tree, h) == tree[h[1]][h[2]]

Hung(pre, b, tree) ==
    /\ tree \in [Nodes -> Seq(Nodes)]
    /\ \A m \in Nodes : Len(tree[m]) <= b - 2
    /\ \A h \in Places(tree) : \E s, t \in 1 .. b - 1 : /\ s < t /\ h[1] = pre[s]
                                                        /\ Held(tree, h) = pre[t]
    /\ \A t \in 2 .. b - 1 : \E h \in Places(tree) : Held(tree, h) = pre[t]
    /\ \A h, k \in Places(tree) : Held(tree, h) = Held(tree, k) => h = k

(* Before the second node nothing hangs in the tree.                         *)
LEMMA NothingHangs ==
    ASSUME NEW pre, NEW tree, tree = [m \in Nodes |-> << >>]
    PROVE  Hung(pre, 2, tree)
<1>1. tree \in [Nodes -> Seq(Nodes)] /\ \A m \in Nodes : tree[m] = << >>
  OBVIOUS
<1>2. DOMAIN << >> = {} /\ Len(<< >>) = 0
  OBVIOUS
<1>3. Places(tree) = {}
  BY <1>1, <1>2 DEF Places
<1>4. \A m \in Nodes : Len(tree[m]) <= 2 - 2
  BY <1>1, <1>2
<1>5. 2 .. 2 - 1 = {}
  OBVIOUS
<1> QED BY <1>1, <1>3, <1>4, <1>5 DEF Hung

(* The node of time b hung below the node of an earlier time.                *)
LEMMA HangKeeps ==
    ASSUME NEW pre, IsOrder(pre), NEW b \in 2 .. Len(pre), NEW s \in 1 .. b - 1,
           NEW tree, Hung(pre, b, tree),
           NEW tree2, tree2 = [tree EXCEPT ![pre[s]] = Append(@, pre[b])]
    PROVE  Hung(pre, b + 1, tree2)
<1>1. PICK x, n, l : x = pre[s] /\ n = pre[b] /\ l = Len(tree[x])
  OBVIOUS
<1>2. /\ Len(pre) \in Nat /\ b \in Nat /\ s \in Nat /\ s < b /\ b >= 2 /\ s >= 1
      /\ \A t \in 1 .. Len(pre) : TimeIn(pre, pre[t]) = t /\ pre[t] \in Nodes
  BY Times
<1>3. /\ x \in Nodes /\ n \in Nodes /\ tree \in [Nodes -> Seq(Nodes)]
      /\ \A t \in 1 .. b - 1 : pre[t] # n
  <2>1. \A t \in 1 .. b - 1 : t \in 1 .. Len(pre) /\ t # b
    BY <1>2
  <2> QED BY <1>1, <1>2, <2>1 DEF Hung
<1>4. tree2 = [tree EXCEPT ![x] = Append(tree[x], n)]
  BY <1>1, <1>3
<1>5. /\ l \in Nat /\ Append(tree[x], n) \in Seq(Nodes) /\ Len(Append(tree[x], n)) = l + 1
      /\ \A i \in 1 .. l : Append(tree[x], n)[i] = tree[x][i]
      /\ Append(tree[x], n)[l + 1] = n
  <2>1. tree[x] \in Seq(Nodes)
    BY <1>3
  <2> QED BY <1>1, <1>3, <2>1
<1>6. /\ tree2 \in [Nodes -> Seq(Nodes)]
      /\ \A m \in Nodes : tree2[m] = IF m = x THEN Append(tree[x], n) ELSE tree[m]
  BY <1>3, <1>4, <1>5
<1>7. \A m \in Nodes : /\ Len(tree[m]) \in Nat /\ DOMAIN tree[m] = 1 .. Len(tree[m])
                       /\ Len(tree2[m]) \in Nat /\ DOMAIN tree2[m] = 1 .. Len(tree2[m])
                       /\ Len(tree2[m]) = IF m = x THEN l + 1 ELSE Len(tree[m])
  <2> SUFFICES ASSUME NEW m \in Nodes
               PROVE  /\ Len(tree[m]) \in Nat /\ DOMAIN tree[m] = 1 .. Len(tree[m])
                      /\ Len(tree2[m]) \in Nat /\ DOMAIN tree2[m] = 1 .. Len(tree2[m])
                      /\ Len(tree2[m]) = IF m = x THEN l + 1 ELSE Len(tree[m])
    OBVIOUS
  <2>1. tree[m] \in Seq(Nodes) /\ tree2[m] \in Seq(Nodes)
    BY <1>3, <1>6
  <2>2. Len(tree2[m]) = IF m = x THEN l + 1 ELSE Len(tree[m])
    BY <1>5, <1>6
  <2> QED BY <2>1, <2>2
<1>8. <<x, l + 1>> \in Places(tree2) /\ Held(tree2, <<x, l + 1>>) = n
  <2>1. tree2[x] = Append(tree[x], n) /\ DOMAIN tree2[x] = 1 .. l + 1 /\ l + 1 \in Nat
    BY <1>3, <1>5, <1>6, <1>7
  <2>2. l + 1 \in 1 .. l + 1
    BY <1>5
  <2>3. l + 1 \in DOMAIN tree2[x] /\ tree2[x][l + 1] = n
    BY <1>5, <2>1, <2>2
  <2> QED BY <1>3, <2>1, <2>3 DEF Places, Held
<1>9. ASSUME NEW h \in Places(tree2), h # <<x, l + 1>>
      PROVE  h \in Places(tree) /\ Held(tree2, h) = Held(tree, h)
  <2>1. PICK m \in Nodes, i \in Nat : h = <<m, i>> /\ i \in DOMAIN tree2[m]
    BY DEF Places
  <2>2. i \in DOMAIN tree[m] /\ tree2[m][i] = tree[m][i]
    <3>1. CASE m = x
      <4>1. i \in 1 .. l + 1 /\ i # l + 1
        BY <1>7, <1>9, <2>1, <3>1
      <4>2. i \in 1 .. l
        BY <1>5, <4>1
      <4> QED BY <1>1, <1>3, <1>5, <1>6, <1>7, <3>1, <4>2
    <3>2. CASE m # x
      BY <1>6, <2>1, <3>2
    <3> QED BY <3>1, <3>2
  <2> QED BY <2>1, <2>2 DEF Places, Held
<1>10. ASSUME NEW h \in Places(tree)
       PROVE  h \in Places(tree2) /\ Held(tree2, h) = Held(tree, h)
  <2>1. PICK m \in Nodes, i \in Nat : h = <<m, i>> /\ i \in DOMAIN tree[m]
    BY DEF Places
  <2>2. i \in DOMAIN tree2[m] /\ tree2[m][i] = tree[m][i]
    <3>1. CASE m = x
      <4>1. i \in 1 .. l /\ i \in 1 .. l + 1
        BY <1>1, <1>5, <1>7, <2>1, <3>1
      <4> QED BY <1>3, <1>5, <1>6, <1>7, <3>1, <4>1
    <3>2. CASE m # x
      BY <1>6, <2>1, <3>2
    <3> QED BY <3>1, <3>2
  <2> QED BY <2>1, <2>2 DEF Places, Held
<1>11. \A m \in Nodes : Len(tree2[m]) <= b + 1 - 2
  <2> SUFFICES ASSUME NEW m \in Nodes PROVE Len(tree2[m]) <= b + 1 - 2
    OBVIOUS
  <2>1. Len(tree[m]) <= b - 2 /\ Len(tree[x]) <= b - 2
    BY <1>3 DEF Hung
  <2> QED BY <1>1, <1>2, <1>5, <1>7, <2>1
<1>12. \A h \in Places(tree) : \E u, t \in 1 .. b - 1 : /\ u < t /\ h[1] = pre[u]
                                                        /\ Held(tree, h) = pre[t]
  BY DEF Hung
<1>13. ASSUME NEW h \in Places(tree2)
       PROVE  \E u, t \in 1 .. b : u < t /\ h[1] = pre[u] /\ Held(tree2, h) = pre[t]
  <2>1. CASE h = <<x, l + 1>>
    <3>1. s \in 1 .. b /\ b \in 1 .. b /\ h[1] = pre[s] /\ Held(tree2, h) = pre[b]
      BY <1>1, <1>2, <1>8, <2>1
    <3> QED BY <1>2, <3>1
  <2>2. CASE h # <<x, l + 1>>
    <3>1. h \in Places(tree) /\ Held(tree2, h) = Held(tree, h)
      BY <1>9, <2>2
    <3>2. PICK u, t \in 1 .. b - 1 : u < t /\ h[1] = pre[u] /\ Held(tree, h) = pre[t]
      BY <1>12, <3>1
    <3>3. u \in 1 .. b /\ t \in 1 .. b
      BY <1>2
    <3> QED BY <3>1, <3>2, <3>3
  <2> QED BY <2>1, <2>2
<1>14. ASSUME NEW t \in 2 .. b PROVE \E h \in Places(tree2) : Held(tree2, h) = pre[t]
  <2>1. CASE t = b
    BY <1>1, <1>8, <2>1
  <2>2. CASE t # b
    <3>1. t \in 2 .. b - 1
      BY <1>2, <2>2
    <3>2. PICK h \in Places(tree) : Held(tree, h) = pre[t]
      BY <3>1 DEF Hung
    <3> QED BY <1>10, <3>2
  <2> QED BY <2>1, <2>2
<1>15. ASSUME NEW h \in Places(tree) PROVE Held(tree, h) # n
  BY <1>3, <1>12
<1>16. ASSUME NEW h \in Places(tree2), NEW k \in Places(tree2), Held(tree2, h) = Held(tree2, k)
       PROVE  h = k
  <2>1. CASE h = <<x, l + 1>> /\ k # <<x, l + 1>>
    BY <1>8, <1>9, <1>15, <1>16, <2>1
  <2>2. CASE h # <<x, l + 1>> /\ k = <<x, l + 1>>
    BY <1>8, <1>9, <1>15, <1>16, <2>2
  <2>3. CASE h # <<x, l + 1>> /\ k # <<x, l + 1>>
    BY <1>9, <1>16, <2>3 DEF Hung
  <2> QED BY <2>1, <2>2, <2>3
<1>17. PICK c : c = b + 1
  OBVIOUS
<1>18. 1 .. c - 1 = 1 .. b /\ 2 .. c - 1 = 2 .. b
  BY <1>2, <1>17
<1>19. \A m \in Nodes : Len(tree2[m]) <= c - 2
  BY <1>11, <1>17
<1>20. \A h \in Places(tree2) : \E u, t \in 1 .. c - 1 : /\ u < t /\ h[1] = pre[u]
                                                         /\ Held(tree2, h) = pre[t]
  BY <1>13, <1>18
<1>21. \A t \in 2 .. c - 1 : \E h \in Places(tree2) : Held(tree2, h) = pre[t]
  BY <1>14, <1>18
<1>22. Hung(pre, c, tree2)
  BY <1>6, <1>16, <1>19, <1>20, <1>21 DEF Hung
<1> QED BY <1>17, <1>22

(* A tree in which all nodes hang leads to smaller times upwards.            *)
LEMMA TreeFalls ==
    ASSUME NEW pre, IsOrder(pre), NEW tree, Hung(pre, Len(pre) + 1, tree),
           NEW m \in Nodes, NEW n \in ToSet(tree[m])
    PROVE  TimeIn(pre, m) < TimeIn(pre, n)
<1>1. Len(pre) \in Nat /\ \A t \in 1 .. Len(pre) : TimeIn(pre, pre[t]) = t
  BY Times
<1>2. tree[m] \in Seq(Nodes)
  BY DEF Hung
<1>3. PICK i \in DOMAIN tree[m] : tree[m][i] = n
  BY DEF ToSet
<1>4. i \in Nat
  BY <1>2, <1>3
<1>5. <<m, i>> \in Places(tree) /\ Held(tree, <<m, i>>) = n
  BY <1>3, <1>4 DEF Places, Held
<1>6. PICK s, t \in 1 .. Len(pre) + 1 - 1 : s < t /\ m = pre[s] /\ n = pre[t]
  <2>1. \A h \in Places(tree) : \E s, t \in 1 .. Len(pre) + 1 - 1 :
           s < t /\ h[1] = pre[s] /\ Held(tree, h) = pre[t]
    BY DEF Hung
  <2>2. PICK h \in Places(tree) : h[1] = m /\ Held(tree, h) = n
    BY <1>5
  <2> QED BY <2>1, <2>2
<1>7. s \in 1 .. Len(pre) /\ t \in 1 .. Len(pre)
  BY <1>1
<1> QED BY <1>1, <1>6, <1>7

(* Where a node hangs, as the property counts it.                            *)
Hangs(tree, c, n) ==
    {h \in Nodes \X (1 .. c) : h[2] \in DOMAIN tree[h[1]] /\ tree[h[1]][h[2]] = n}

(* Every node hangs in it once, but the first, which hangs nowhere.          *)
LEMMA HangsOnce ==
    ASSUME NEW pre, IsOrder(pre), NEW tree, Hung(pre, Len(pre) + 1, tree),
           NEW n \in ToSet(pre)
    PROVE  Cardinality(Hangs(tree, Cardinality(Nodes), n)) = IF n = pre[1] THEN 0 ELSE 1
<1>1. PICK N, c, H : N = Len(pre) /\ c = Cardinality(Nodes) /\ H = Hangs(tree, c, n)
  OBVIOUS
<1>2. /\ N \in Nat /\ c \in Nat /\ N <= c
      /\ \A t \in 1 .. N : TimeIn(pre, pre[t]) = t
      /\ TimeIn(pre, n) \in 1 .. N /\ pre[TimeIn(pre, n)] = n
  BY <1>1, Times, TimesBounded
<1>3. /\ tree \in [Nodes -> Seq(Nodes)]
      /\ \A m \in Nodes : Len(tree[m]) <= N + 1 - 2
      /\ \A h, k \in Places(tree) : Held(tree, h) = Held(tree, k) => h = k
  BY <1>1 DEF Hung
<1>4. \A h \in H : h \in Places(tree) /\ Held(tree, h) = n
  <2> SUFFICES ASSUME NEW h \in H PROVE h \in Places(tree) /\ Held(tree, h) = n
    OBVIOUS
  <2>1. h \in Nodes \X (1 .. c) /\ h[2] \in DOMAIN tree[h[1]] /\ tree[h[1]][h[2]] = n
    BY <1>1 DEF Hangs
  <2>2. h \in Nodes \X Nat
    BY <1>2, <2>1
  <2> QED BY <2>1, <2>2 DEF Places, Held
<1>5. ASSUME NEW h \in Places(tree), Held(tree, h) = n PROVE h \in H
  <2>1. /\ h \in Nodes \X Nat /\ h[2] \in DOMAIN tree[h[1]] /\ tree[h[1]][h[2]] = n
    BY <1>5 DEF Places, Held
  <2>2. PICK m \in Nodes, i \in Nat : h = <<m, i>>
    BY <2>1
  <2>3. tree[m] \in Seq(Nodes) /\ Len(tree[m]) <= N + 1 - 2
    BY <1>3
  <2>4. i \in 1 .. Len(tree[m]) /\ Len(tree[m]) \in Nat
    BY <2>1, <2>2, <2>3
  <2>5. i \in 1 .. c
    BY <1>2, <2>3, <2>4
  <2>6. h \in Nodes \X (1 .. c)
    BY <2>2, <2>5
  <2> QED BY <1>1, <2>1, <2>6 DEF Hangs
<1>6. CASE n = pre[1]
  <2>1. ASSUME NEW h \in H PROVE FALSE
    <3>1. h \in Places(tree) /\ Held(tree, h) = n
      BY <1>4
    <3>2. PICK s, t \in 1 .. N + 1 - 1 : s < t /\ Held(tree, h) = pre[t]
      BY <1>1, <3>1 DEF Hung
    <3>3. t \in 1 .. N /\ 1 \in 1 .. N /\ t # 1
      BY <1>2, <3>2
    <3> QED BY <1>2, <1>6, <3>1, <3>2, <3>3
  <2>2. H = {}
    BY <2>1
  <2>3. Cardinality(H) = 0
    BY <2>2, FS_EmptySet
  <2> QED BY <1>1, <1>6, <2>3
<1>7. CASE n # pre[1]
  <2>1. TimeIn(pre, n) \in 2 .. N + 1 - 1
    BY <1>2, <1>7
  <2>2. PICK h \in Places(tree) : Held(tree, h) = pre[TimeIn(pre, n)]
    BY <1>1, <2>1 DEF Hung
  <2>3. h \in H
    BY <1>2, <1>5, <2>2
  <2>4. H = {h}
    BY <1>3, <1>4, <2>3
  <2>5. Cardinality({h}) = 1
    BY FS_Singleton
  <2> QED BY <1>1, <1>7, <2>4, <2>5
<1> QED BY <1>6, <1>7

(* The search of isDominator, one level of the tree a round.                 *)
Lower(tree, ns) == ns \cup UNION {ToSet(tree[m]) : m \in ns}

(* The levels it comes to from e.                                            *)
LEMMA BelowRuns ==
    ASSUME idommed \in [Nodes -> Seq(Nodes)], NEW e \in Nodes
    PROVE  \E f \in [0 .. Cardinality(Nodes) -> SUBSET Nodes] :
              /\ f[0] = {e}
              /\ \A k \in 1 .. Cardinality(Nodes) : f[k] = Lower(idommed, f[k - 1])
              /\ \A n : IsDominator(e, n) <=> n \in f[Cardinality(Nodes)]
<1>1. PICK c, tree : c = Cardinality(Nodes) /\ tree = idommed
  OBVIOUS
<1>2. c \in Nat /\ tree \in [Nodes -> Seq(Nodes)]
  BY <1>1, GraphsAssumption, FS_CardinalityType
<1>3. \A A \in SUBSET Nodes : Lower(tree, A) \in SUBSET Nodes
  BY <1>2 DEF Lower, ToSet
<1>4. {e} \in SUBSET Nodes
  OBVIOUS
<1> DEFINE D == [k \in 1 .. c |-> [A \in SUBSET Nodes |-> Lower(tree, A)]]
           Def(h) == [k \in 0 .. c |-> IF k = 0 THEN {e} ELSE Lower(tree, h[k - 1])]
<1>5. D \in Rounds(SUBSET Nodes, c)
  BY <1>3 DEF Rounds
<1>6. PICK g : g \in Executions(SUBSET Nodes, c, {e}, D)
  <2> HIDE DEF D
  <2> QED BY <1>2, <1>4, <1>5, ExecutionExists
<1>7. g = Def(g)
  <2>1. /\ g \in [0 .. c -> SUBSET Nodes] /\ g[0] = {e}
        /\ \A k \in 1 .. c : g[k] = D[k][g[k - 1]]
    <3> HIDE DEF D
    <3> QED BY <1>6 DEF Executions
  <2>2. ASSUME NEW k \in 1 .. c PROVE g[k] = Lower(tree, g[k - 1])
    <3>1. k - 1 \in 0 .. c /\ g[k - 1] \in SUBSET Nodes
      BY <1>2, <2>1
    <3> QED BY <2>1, <3>1
  <2>3. ASSUME NEW k \in 0 .. c PROVE g[k] = IF k = 0 THEN {e} ELSE Lower(tree, g[k - 1])
    <3>1. CASE k = 0
      BY <2>1, <3>1
    <3>2. CASE k # 0
      <4>1. k \in 1 .. c
        BY <1>2, <3>2
      <4> QED BY <2>2, <3>2, <4>1
    <3> QED BY <3>1, <3>2
  <2> HIDE DEF D
  <2> QED BY <2>1, <2>3
<1> HIDE DEF D
<1>8. PICK f : f = CHOOSE h : h = Def(h)
  OBVIOUS
<1>9. f = Def(f)
  <2> HIDE DEF Def
  <2> QED BY <1>7, <1>8
<1>10. \A n : IsDominator(e, n) <=> n \in f[c]
  BY <1>1, <1>8 DEF IsDominator, Lower
<1>11. f[0] = {e} /\ \A k \in 1 .. c : f[k] = Lower(tree, f[k - 1])
  <2>1. \A k \in 0 .. c : f[k] = IF k = 0 THEN {e} ELSE Lower(tree, f[k - 1])
    BY <1>9
  <2>2. 0 \in 0 .. c /\ \A k \in 1 .. c : k \in 0 .. c /\ k # 0
    BY <1>2
  <2> QED BY <2>1, <2>2
<1>12. f = [k \in 0 .. c |-> f[k]]
  BY <1>9
<1> HIDE DEF Def
<1> DEFINE P == {k \in 0 .. c : f[k] \in SUBSET Nodes}
<1>13. P = 0 .. c
  <2>1. 0 \in P /\ P \in SUBSET (0 .. c)
    BY <1>2, <1>4, <1>11
  <2>2. ASSUME NEW k \in 1 .. c, k - 1 \in P PROVE k \in P
    <3>1. f[k] = Lower(tree, f[k - 1]) /\ f[k - 1] \in SUBSET Nodes
      BY <1>11, <2>2
    <3>2. f[k] \in SUBSET Nodes
      BY <1>3, <3>1
    <3>3. k \in 0 .. c
      BY <1>2
    <3> QED BY <3>2, <3>3
  <2> HIDE DEF P
  <2> QED BY <1>2, <2>1, <2>2, RangeInduction
<1>14. f \in [0 .. c -> SUBSET Nodes]
  <2>1. \A k \in 0 .. c : f[k] \in SUBSET Nodes
    BY <1>13
  <2> HIDE DEF P
  <2> QED BY <1>12, <2>1
<1> HIDE DEF P
<1> QED BY <1>1, <1>10, <1>11, <1>14

(* From the first node it comes to all the others.                           *)
LEMMA AllBelowFirst ==
    ASSUME IsOrder(preOrder), Hung(preOrder, Len(preOrder) + 1, idommed),
           NEW n \in ToSet(preOrder)
    PROVE  IsDominator(preOrder[1], n)
<1>1. PICK pre, N, c, e : pre = preOrder /\ N = Len(pre) /\ c = Cardinality(Nodes) /\ e = pre[1]
  OBVIOUS
<1>2. /\ N \in Nat /\ c \in Nat /\ N <= c
      /\ \A t \in 1 .. N : pre[t] \in Nodes
      /\ TimeIn(pre, n) \in 1 .. N /\ pre[TimeIn(pre, n)] = n
  BY <1>1, Times, TimesBounded
<1>3. PICK tree : tree = idommed
  OBVIOUS
<1>4. /\ tree \in [Nodes -> Seq(Nodes)]
      /\ \A h \in Places(tree) : \E s, t \in 1 .. N + 1 - 1 :
            s < t /\ h[1] = pre[s] /\ Held(tree, h) = pre[t]
      /\ \A t \in 2 .. N + 1 - 1 : \E h \in Places(tree) : Held(tree, h) = pre[t]
  BY <1>1, <1>3 DEF Hung
<1>5. e \in Nodes
  BY <1>1, <1>2
<1>6. PICK f \in [0 .. c -> SUBSET Nodes] :
        /\ f[0] = {e} /\ \A k \in 1 .. c : f[k] = Lower(tree, f[k - 1])
        /\ \A x : IsDominator(e, x) <=> x \in f[c]
  <2>1. idommed \in [Nodes -> Seq(Nodes)]
    BY <1>3, <1>4
  <2>2. PICK f \in [0 .. Cardinality(Nodes) -> SUBSET Nodes] :
          /\ f[0] = {e}
          /\ \A k \in 1 .. Cardinality(Nodes) : f[k] = Lower(idommed, f[k - 1])
          /\ \A x : IsDominator(e, x) <=> x \in f[Cardinality(Nodes)]
    BY <1>5, <2>1, BelowRuns
  <2> QED BY <1>1, <1>3, <2>2
<1> DEFINE P == {k \in 0 .. c : \A t \in 1 .. N : t <= k + 1 => pre[t] \in f[k]}
<1>7. 0 \in P
  <2>1. \A t \in 1 .. N : t <= 0 + 1 => pre[t] = e
    BY <1>1, <1>2
  <2> QED BY <1>2, <1>6, <2>1
<1>8. ASSUME NEW k \in 1 .. c, k - 1 \in P PROVE k \in P
  <2>1. k \in 0 .. c
    BY <1>2
  <2> SUFFICES ASSUME NEW t \in 1 .. N, t <= k + 1 PROVE pre[t] \in f[k]
    BY <2>1
  <2>2. f[k] = Lower(tree, f[k - 1])
    BY <1>6
  <2>3. \A u \in 1 .. N : u <= k => pre[u] \in f[k - 1]
    <3>1. k - 1 + 1 = k
      OBVIOUS
    <3> QED BY <1>8, <3>1
  <2>4. CASE t <= k
    BY <2>2, <2>3, <2>4 DEF Lower
  <2>5. CASE t = k + 1
    <3>1. t \in 2 .. N + 1 - 1
      BY <1>2, <2>5
    <3>2. PICK h \in Places(tree) : Held(tree, h) = pre[t]
      BY <1>4, <3>1
    <3>3. PICK s, u \in 1 .. N + 1 - 1 : s < u /\ h[1] = pre[s] /\ Held(tree, h) = pre[u]
      BY <1>4
    <3>4. s \in 1 .. N /\ u \in 1 .. N
      BY <1>2
    <3>5. u = t
      <4>1. \A v \in 1 .. N : TimeIn(pre, pre[v]) = v
        BY <1>1, Times
      <4> QED BY <3>2, <3>3, <3>4, <4>1
    <3>6. pre[s] \in f[k - 1]
      BY <2>3, <2>5, <3>3, <3>4, <3>5
    <3>7. pre[t] \in ToSet(tree[pre[s]])
      BY <3>2, <3>3 DEF Places, Held, ToSet
    <3> QED BY <2>2, <3>6, <3>7 DEF Lower
  <2> QED BY <2>4, <2>5
<1>9. P = 0 .. c
  <2>1. P \in SUBSET (0 .. c)
    OBVIOUS
  <2> HIDE DEF P
  <2> QED BY <1>2, <1>7, <1>8, <2>1, RangeInduction
<1>10. c \in P
  <2> HIDE DEF P
  <2> QED BY <1>2, <1>9
<1>11. TimeIn(pre, n) <= c + 1
  BY <1>2
<1>12. n \in f[c]
  BY <1>2, <1>10, <1>11
<1> QED BY <1>1, <1>6, <1>12

(* So the tree is rooted at the entry.                                       *)
LEMMA HungIsRooted ==
    ASSUME IsOrder(preOrder), graph.entry = preOrder[1],
           Hung(preOrder, Len(preOrder) + 1, idommed)
    PROVE  TreeRooted
<1>1. \A m \in Nodes : \A n \in ToSet(idommed[m]) : Time(m) < Time(n)
  BY TreeFalls, TimeIs
<1>2. \A n \in Discovered : Cardinality(Hangs(idommed, Cardinality(Nodes), n))
                            = IF n = graph.entry THEN 0 ELSE 1
  BY HangsOnce DEF Discovered
<1>3. \A n \in Discovered : IsDominator(graph.entry, n)
  BY AllBelowFirst DEF Discovered
<1> QED BY <1>1, <1>2, <1>3 DEF TreeRooted, Hangs

-----------------------------------------------------------------------------
(* The inductive invariant.                                                  *)

(* What the sets of dominatees hold was discovered after time a.             *)
Listed(pre, a, sdl) ==
    /\ sdl \in [Nodes -> Seq(Nodes)]
    /\ \A m \in Nodes : \A i \in DOMAIN sdl[m] :
          sdl[m][i] \in ToSet(pre) /\ TimeIn(pre, sdl[m][i]) > a

(* The node of time t waits in the set of a node discovered by time a.       *)
Waits(pre, t, a, sdl) ==
    \E s \in 1 .. a : \E i \in DOMAIN sdl[pre[s]] : sdl[pre[s]][i] = pre[t]

(* A node discovered after time a has an immediate dominator of smaller time *)
(* or waits in the set of a node that the loop has yet to come to.           *)
Due(pre, a, id, sdl) ==
    \A t \in 2 .. Len(pre) : t > a => id[t] < t \/ Waits(pre, t, a, sdl)

(* calcSdoms has come down to time a.                                        *)
Building(pre, a, sd, id, sdl, d) ==
    /\ a \in 0 .. Len(pre)
    /\ sd \in Sdoms(Len(pre), a)
    /\ id \in Idoms(Len(pre))
    /\ Listed(pre, a, sdl)
    /\ Due(pre, a, id, sdl)
    /\ d \in Forests(pre, a)

(* calcIdoms has come up to time b.                                          *)
Treeing(pre, b, sd, id, sdl, d, tree) ==
    /\ b \in 2 .. Len(pre) + 1
    /\ sd \in Sdoms(Len(pre), 0)
    /\ id \in Idoms(Len(pre)) /\ \A t \in 2 .. Len(pre) : id[t] < t
    /\ Listed(pre, 0, sdl)
    /\ d \in Forests(pre, 0)
    /\ Hung(pre, b, tree)

Untouched ==
    /\ at = 0 /\ sdoms = << >> /\ idoms = << >>
    /\ sdommed = [n \in Nodes |-> << >>]
    /\ dsu = [parent |-> << >>, label |-> << >>]

BuildInv ==
    /\ SearchInv
    /\ phase \in {"dfs", "sdoms", "idoms", "done", "throw"}
    /\ phase = "dfs" => Untouched
    /\ phase \in {"dfs", "sdoms", "throw"} => idommed = [n \in Nodes |-> << >>]
    /\ phase # "dfs" => preOrder # << >> /\ DfsDone
    /\ phase \in {"sdoms", "throw"} => Building(preOrder, at, sdoms, idoms, sdommed, dsu)
    /\ phase = "throw" => \E n \in Discovered : ~(ToSet(Preds(n)) \subseteq Discovered)
    /\ phase \in {"idoms", "done"} =>
          Treeing(preOrder, at, sdoms, idoms, sdommed, dsu, idommed)
    /\ phase = "done" => at = Len(preOrder) + 1

(* What the search has left is an order of nodes grown from the entry.       *)
LEMMA SearchOrder ==
    ASSUME SearchInv
    PROVE  /\ IsOrder(preOrder) /\ succ \in [Nodes -> Seq(Nodes)]
           /\ GrownFrom(preOrder, graph.entry, succ) /\ graph.entry \in Nodes
BY IdsAssumption DEF SearchInv, DfsInv, DfsTypeOK, IsOrder

(* Before calcSdoms comes to a node, nothing is to be done.                  *)
LEMMA NothingDue ==
    ASSUME NEW pre, IsOrder(pre), NEW n, n = Len(pre),
           NEW own, own = [t \in DOMAIN pre |-> t],
           NEW sdl, sdl = [m \in Nodes |-> << >>],
           NEW self, self = [m \in ToSet(pre) |-> m]
    PROVE  Building(pre, n, own, own, sdl, [parent |-> self, label |-> self])
<1>1. /\ n \in Nat /\ DOMAIN pre = 1 .. n /\ n \in 0 .. n
      /\ \A x \in ToSet(pre) : TimeIn(pre, x) \in 1 .. n
  BY Times
<1>2. own \in [1 .. n -> 1 .. n] /\ \A t \in 1 .. n : own[t] = t
  BY <1>1
<1>3. own \in Sdoms(n, n) /\ own \in Idoms(n)
  BY <1>1, <1>2 DEF Sdoms, Idoms
<1>4. Listed(pre, n, sdl)
  BY DEF Listed
<1>5. Due(pre, n, own, sdl)
  BY <1>1 DEF Due
<1>6. PICK d : d = [parent |-> self, label |-> self]
  OBVIOUS
<1>7. d \in Links(pre) /\ \A x \in ToSet(pre) : d.parent[x] = x /\ d.label[x] = x
  BY <1>6 DEF Links
<1>8. d \in Forests(pre, n)
  BY <1>1, <1>7 DEF Forests, Falls, RootsUpTo
<1> QED BY <1>1, <1>3, <1>4, <1>5, <1>6, <1>8 DEF Building

(* calcSdoms begins.                                                         *)
LEMMA StartSdomsKeeps == ASSUME BuildInv, StartSdoms PROVE BuildInv'
<1>1. /\ SearchInv /\ phase = "dfs" /\ started /\ toVisit = << >>
      /\ sdommed = [n \in Nodes |-> << >>] /\ idommed = [n \in Nodes |-> << >>]
  BY DEF BuildInv, StartSdoms, DfsDone, Untouched
<1>2. /\ dfsVars' = dfsVars /\ phase' = "sdoms" /\ at' = Len(preOrder)
      /\ sdoms' = [t \in DOMAIN preOrder |-> t] /\ idoms' = [t \in DOMAIN preOrder |-> t]
      /\ dsu' = [parent |-> [n \in Discovered |-> n], label |-> [n \in Discovered |-> n]]
      /\ sdommed' = sdommed /\ idommed' = idommed
  BY DEF StartSdoms
<1>3. SearchInv' /\ preOrder' = preOrder /\ DfsDone'
  BY <1>1, <1>2, SearchGoesOn DEF dfsVars, DfsDone
<1>4. preOrder # << >>
  <2>1. graph.entry \in ToSet(preOrder)
    BY <1>1, SearchOrder, GraphsAssumption DEF SearchInv, DfsInv, DiscoveredReachable
  <2> QED BY <2>1 DEF ToSet
<1>5. Building(preOrder, at', sdoms', idoms', sdommed', dsu')
  BY <1>1, <1>2, SearchOrder, NothingDue DEF Discovered
<1>6. Building(preOrder, at, sdoms, idoms, sdommed, dsu)'
  BY <1>3, <1>5
<1>7. phase' # "throw" /\ phase' # "idoms" /\ phase' # "done" /\ phase' # "dfs"
  BY <1>2
<1> QED BY <1>1, <1>2, <1>3, <1>4, <1>6, <1>7 DEF BuildInv

(* The node of time a put into the set of one discovered before it.          *)
LEMMA ListNode ==
    ASSUME NEW pre, IsOrder(pre), NEW a \in 1 .. Len(pre), NEW id, NEW sdl,
           Listed(pre, a, sdl), Due(pre, a, id, sdl),
           NEW s \in 1 .. Len(pre), a > 1 => s < a,
           NEW sdl2, sdl2 = IF a = 1 THEN sdl ELSE [sdl EXCEPT ![pre[s]] = Append(@, pre[a])]
    PROVE  /\ Listed(pre, a - 1, sdl2)
           /\ \A m \in Nodes : \A i \in DOMAIN sdl2[m] : TimeIn(pre, sdl2[m][i]) > 1
           /\ \A t \in 2 .. Len(pre) : t > a - 1 => id[t] < t \/ Waits(pre, t, a, sdl2)
<1>1. PICK n, x : n = Len(pre) /\ x = pre[s]
  OBVIOUS
<1>2. /\ n \in Nat /\ a \in 1 .. n /\ x \in Nodes /\ pre[a] \in Nodes /\ pre[a] \in ToSet(pre)
      /\ TimeIn(pre, pre[a]) = a /\ \A y \in ToSet(pre) : TimeIn(pre, y) \in 1 .. n
      /\ \A t \in 1 .. n : pre[t] \in Nodes
  BY <1>1, Times
<1>3. /\ sdl \in [Nodes -> Seq(Nodes)]
      /\ \A m \in Nodes : \A i \in DOMAIN sdl[m] :
            sdl[m][i] \in ToSet(pre) /\ TimeIn(pre, sdl[m][i]) > a
  BY DEF Listed
<1>4. \A t \in 2 .. n : t > a => id[t] < t \/ Waits(pre, t, a, sdl)
  BY <1>1 DEF Due
<1>5. CASE a = 1
  <2>1. sdl2 = sdl
    BY <1>5
  <2>2. \A m \in Nodes : \A i \in DOMAIN sdl[m] :
           sdl[m][i] \in ToSet(pre) /\ TimeIn(pre, sdl[m][i]) > a - 1
    BY <1>2, <1>3
  <2>3. Listed(pre, a - 1, sdl)
    BY <1>3, <2>2 DEF Listed
  <2>4. \A m \in Nodes : \A i \in DOMAIN sdl[m] : TimeIn(pre, sdl[m][i]) > 1
    BY <1>3, <1>5
  <2>5. \A t \in 2 .. n : t > a - 1 => id[t] < t \/ Waits(pre, t, a, sdl)
    BY <1>4, <1>5
  <2> QED BY <1>1, <2>1, <2>3, <2>4, <2>5
<1>6. CASE a # 1
  <2>1. sdl2 = [sdl EXCEPT ![x] = Append(sdl[x], pre[a])]
    BY <1>1, <1>2, <1>3, <1>6
  <2>2. PICK l, y : l = Len(sdl[x]) /\ y = Append(sdl[x], pre[a])
    OBVIOUS
  <2>3. /\ y \in Seq(Nodes) /\ l \in Nat /\ DOMAIN sdl[x] = 1 .. l /\ DOMAIN y = 1 .. l + 1
        /\ y[l + 1] = pre[a] /\ \A i \in 1 .. l : y[i] = sdl[x][i]
    <3>1. sdl[x] \in Seq(Nodes)
      BY <1>2, <1>3
    <3> QED BY <1>2, <2>2, <3>1
  <2>4. \A m \in Nodes : sdl2[m] = IF m = x THEN y ELSE sdl[m]
    BY <1>3, <2>1, <2>2
  <2>5. sdl2 \in [Nodes -> Seq(Nodes)]
    BY <1>3, <2>1, <2>2, <2>3
  <2>6. ASSUME NEW m \in Nodes, NEW i \in DOMAIN sdl2[m]
        PROVE  sdl2[m][i] \in ToSet(pre) /\ TimeIn(pre, sdl2[m][i]) >= a
    <3>1. CASE m = x /\ i = l + 1
      <4>1. sdl2[m][i] = pre[a]
        BY <2>3, <2>4, <3>1
      <4> QED BY <1>2, <4>1
    <3>2. CASE m = x /\ i # l + 1
      <4>1. i \in 1 .. l
        BY <2>3, <2>4, <2>6, <3>2
      <4>2. sdl2[m][i] = sdl[m][i] /\ i \in DOMAIN sdl[m]
        BY <2>3, <2>4, <3>2, <4>1
      <4>3. sdl[m][i] \in ToSet(pre) /\ TimeIn(pre, sdl[m][i]) > a
        BY <1>3, <4>2
      <4> QED BY <1>2, <4>2, <4>3
    <3>3. CASE m # x
      <4>1. sdl2[m] = sdl[m]
        BY <2>4, <3>3
      <4>2. sdl[m][i] \in ToSet(pre) /\ TimeIn(pre, sdl[m][i]) > a
        BY <1>3, <2>6, <4>1
      <4> QED BY <1>2, <4>1, <4>2
    <3> QED BY <3>1, <3>2, <3>3
  <2>7. Listed(pre, a - 1, sdl2)
    <3>1. \A m \in Nodes : \A i \in DOMAIN sdl2[m] :
             sdl2[m][i] \in ToSet(pre) /\ TimeIn(pre, sdl2[m][i]) > a - 1
      BY <1>2, <2>6
    <3> QED BY <2>5, <3>1 DEF Listed
  <2>8. \A m \in Nodes : \A i \in DOMAIN sdl2[m] : TimeIn(pre, sdl2[m][i]) > 1
    BY <1>2, <1>6, <2>6
  <2>9. ASSUME NEW t \in 2 .. n, t > a - 1 PROVE id[t] < t \/ Waits(pre, t, a, sdl2)
    <3>1. CASE t = a
      <4>1. s \in 1 .. a /\ l + 1 \in DOMAIN y
        BY <1>2, <1>6, <2>3
      <4>2. l + 1 \in DOMAIN sdl2[pre[s]] /\ sdl2[pre[s]][l + 1] = pre[t]
        BY <1>1, <1>2, <2>3, <2>4, <3>1, <4>1
      <4> QED BY <4>1, <4>2 DEF Waits
    <3>2. CASE t # a /\ ~(id[t] < t)
      <4>1. Waits(pre, t, a, sdl)
        BY <1>2, <1>4, <2>9, <3>2
      <4>2. PICK u \in 1 .. a : \E i \in DOMAIN sdl[pre[u]] : sdl[pre[u]][i] = pre[t]
        BY <4>1 DEF Waits
      <4>3. PICK i \in DOMAIN sdl[pre[u]] : sdl[pre[u]][i] = pre[t]
        BY <4>2
      <4>4. pre[u] \in Nodes
        BY <1>2
      <4>5. i \in DOMAIN sdl2[pre[u]] /\ sdl2[pre[u]][i] = pre[t]
        <5>1. CASE pre[u] = x
          <6>1. i \in 1 .. l /\ i \in 1 .. l + 1
            BY <2>3, <4>3, <5>1
          <6> QED BY <2>3, <2>4, <4>3, <4>4, <5>1, <6>1
        <5>2. CASE pre[u] # x
          BY <2>4, <4>3, <4>4, <5>2
        <5> QED BY <5>1, <5>2
      <4> QED BY <4>5 DEF Waits
    <3> QED BY <3>1, <3>2
  <2> QED BY <1>1, <2>7, <2>8, <2>9
<1> QED BY <1>5, <1>6

(* Once the set of the node of time a has been filled, nobody waits in it.   *)
LEMMA SetFilled ==
    ASSUME NEW pre, IsOrder(pre), NEW a \in 1 .. Len(pre), NEW id, NEW id2, NEW sdl,
           \A t \in 2 .. Len(pre) : t > a - 1 => id[t] < t \/ Waits(pre, t, a, sdl),
           \A i \in DOMAIN sdl[pre[a]] :
              id2[TimeIn(pre, sdl[pre[a]][i])] < TimeIn(pre, sdl[pre[a]][i]),
           \A u \in 1 .. Len(pre) : id[u] < u => id2[u] < u
    PROVE  Due(pre, a - 1, id2, sdl)
<1>1. Len(pre) \in Nat /\ \A t \in 1 .. Len(pre) : TimeIn(pre, pre[t]) = t
  BY Times
<1> SUFFICES ASSUME NEW t \in 2 .. Len(pre), t > a - 1, ~(id2[t] < t)
             PROVE  Waits(pre, t, a - 1, sdl)
  BY DEF Due
<1>2. t \in 1 .. Len(pre) /\ TimeIn(pre, pre[t]) = t
  BY <1>1
<1>3. Waits(pre, t, a, sdl)
  BY <1>2
<1>4. PICK s \in 1 .. a : \E i \in DOMAIN sdl[pre[s]] : sdl[pre[s]][i] = pre[t]
  BY <1>3 DEF Waits
<1>5. s # a
  BY <1>2, <1>4
<1>6. s \in 1 .. a - 1
  BY <1>1, <1>4, <1>5
<1> QED BY <1>4, <1>6 DEF Waits

(* A node united with the one discovered before it.                          *)
LEMMA UnionKeeps ==
    ASSUME NEW pre, IsOrder(pre), NEW a \in 1 .. Len(pre), NEW d \in Forests(pre, a), NEW d2,
           d2 = IF a = 1 THEN d ELSE [d EXCEPT !.parent[pre[a]] = pre[a - 1]]
    PROVE  d2 \in Forests(pre, a - 1)
<1>1. PICK n : n = Len(pre)
  OBVIOUS
<1>2. /\ n \in Nat /\ a \in 1 .. n
      /\ \A t \in 1 .. n : pre[t] \in ToSet(pre) /\ TimeIn(pre, pre[t]) = t
      /\ \A y \in ToSet(pre) : TimeIn(pre, y) \in 1 .. n
  BY <1>1, Times
<1>3. /\ d \in Links(pre) /\ Falls(pre, d) /\ RootsUpTo(pre, a, d)
  BY DEF Forests
<1>4. \A y \in ToSet(pre) : TimeIn(pre, y) <= a - 1 => TimeIn(pre, y) <= a
  BY <1>2
<1>5. CASE a = 1
  <2>1. d2 = d
    BY <1>5
  <2>2. RootsUpTo(pre, a - 1, d)
    BY <1>3, <1>4 DEF RootsUpTo
  <2> QED BY <1>3, <2>1, <2>2 DEF Forests
<1>6. CASE a # 1
  <2>1. PICK up, lab : up = d.parent /\ lab = d.label
    OBVIOUS
  <2>2. /\ d = [parent |-> up, label |-> lab]
        /\ up \in [ToSet(pre) -> ToSet(pre)] /\ lab \in [ToSet(pre) -> ToSet(pre)]
    BY <1>3, <2>1 DEF Links
  <2>3. PICK up2 : up2 = [up EXCEPT ![pre[a]] = pre[a - 1]]
    OBVIOUS
  <2>4. d2 = [parent |-> up2, label |-> lab]
    BY <1>6, <2>2, <2>3
  <2>5. a - 1 \in 1 .. n /\ pre[a] \in ToSet(pre) /\ pre[a - 1] \in ToSet(pre)
        /\ TimeIn(pre, pre[a - 1]) = a - 1 /\ TimeIn(pre, pre[a]) = a
    BY <1>2, <1>6
  <2>6. /\ up2 \in [ToSet(pre) -> ToSet(pre)]
        /\ \A y \in ToSet(pre) : up2[y] = IF y = pre[a] THEN pre[a - 1] ELSE up[y]
    BY <2>2, <2>3, <2>5
  <2>7. d2 \in Links(pre) /\ d2.parent = up2 /\ d2.label = lab
    BY <2>2, <2>4, <2>6 DEF Links
  <2>8. Falls(pre, d2)
    <3>1. ASSUME NEW y \in ToSet(pre)
          PROVE  up2[y] = y \/ TimeIn(pre, up2[y]) < TimeIn(pre, y)
      <4>1. CASE y = pre[a]
        BY <1>2, <2>5, <2>6, <4>1
      <4>2. CASE y # pre[a]
        BY <1>3, <2>1, <2>6, <4>2 DEF Falls
      <4> QED BY <4>1, <4>2
    <3>2. \A y \in ToSet(pre) : TimeIn(pre, lab[y]) <= TimeIn(pre, y)
      BY <1>3, <2>1 DEF Falls
    <3> QED BY <2>7, <3>1, <3>2 DEF Falls
  <2>9. RootsUpTo(pre, a - 1, d2)
    <3>1. ASSUME NEW y \in ToSet(pre), TimeIn(pre, y) <= a - 1 PROVE up2[y] = y
      <4>1. y # pre[a]
        BY <1>2, <2>5, <3>1
      <4> QED BY <1>3, <1>4, <2>1, <2>6, <3>1, <4>1 DEF RootsUpTo
    <3> QED BY <2>7, <3>1 DEF RootsUpTo
  <2> QED BY <2>7, <2>8, <2>9 DEF Forests
<1> QED BY <1>5, <1>6

(* What an iteration of calcSdoms makes of the sets and of the forest.       *)
NodeListed(node, min) ==
    IF at = 1 THEN sdommed ELSE [sdommed EXCEPT ![preOrder[min.sdoms[at]]] = Append(@, node)]

NodeUnited(node, fill) ==
    IF at = 1 THEN fill.dsu ELSE [fill.dsu EXCEPT !.parent[node] = DfsParent(node)]

(* An iteration of calcSdoms that does not throw.                            *)
LEMMA SdomRound ==
    ASSUME IsOrder(preOrder), graph \in Graphs, succ \in [Nodes -> Seq(Nodes)],
           GrownFrom(preOrder, graph.entry, succ),
           at > 0, Building(preOrder, at, sdoms, idoms, sdommed, dsu),
           NEW node, node = preOrder[at], ToSet(Preds(node)) \subseteq Discovered,
           NEW min, min = FindMinSdom(node),
           NEW listed, listed = NodeListed(node, min),
           NEW fill, fill = FillIdoms(min.dsu, min.sdoms, listed[node]),
           NEW d, d = NodeUnited(node, fill)
    PROVE  Building(preOrder, at - 1, min.sdoms, fill.idoms, listed, d)
<1>1. PICK pre, n, a : pre = preOrder /\ n = Len(preOrder) /\ a = at
  OBVIOUS
<1>2. /\ IsOrder(pre) /\ n \in Nat /\ n = Len(pre) /\ a \in 1 .. n /\ node = pre[a]
      /\ node \in Nodes /\ TimeIn(pre, node) = a
      /\ \A y \in ToSet(pre) : TimeIn(pre, y) \in 1 .. n
  <2>1. at \in 0 .. Len(preOrder)
    BY DEF Building
  <2>2. n \in Nat
    BY <1>1, Times
  <2>4. a \in 0 .. n /\ a > 0
    BY <1>1, <2>1
  <2>5. a \in 1 .. n
    BY <2>2, <2>4
  <2>3. node = pre[a] /\ node \in ToSet(pre) /\ TimeIn(pre, node) = a
    BY <1>1, <2>5, Times
  <2> QED BY <1>1, <2>2, <2>3, <2>5, Times
<1>3. /\ sdoms \in Sdoms(n, a) /\ idoms \in Idoms(n) /\ Listed(pre, a, sdommed)
      /\ Due(pre, a, idoms, sdommed) /\ dsu \in Forests(pre, a)
  BY <1>1 DEF Building
<1>4. a > 1 => \E t \in 1 .. a - 1 : Edge(preOrder[t], preOrder[a])
  <2> SUFFICES ASSUME a > 1 PROVE \E t \in 1 .. a - 1 : Edge(preOrder[t], preOrder[a])
    OBVIOUS
  <2>1. a \in 2 .. Len(preOrder)
    BY <1>1, <1>2
  <2>2. PICK s \in 1 .. a - 1 : \E i \in DOMAIN succ[preOrder[s]] :
          succ[preOrder[s]][i] = preOrder[a]
    BY <2>1 DEF GrownFrom
  <2> QED BY <2>2 DEF Edge
<1>5. min \in SdomStates(preOrder, a) /\ (a > 1 => min.sdoms[a] < a)
  <2>1. a \in 1 .. Len(preOrder) /\ ToSet(Preds(preOrder[a])) \subseteq ToSet(preOrder)
    BY <1>1, <1>2 DEF Discovered
  <2>2. dsu \in Forests(preOrder, a) /\ sdoms \in Sdoms(Len(preOrder), a)
    BY <1>1, <1>3
  <2>3. min = FindMinSdom(preOrder[a])
    BY <1>1
  <2> QED BY <1>4, <2>1, <2>2, <2>3, MinSdomFound
<1>6. PICK sd : sd = min.sdoms
  OBVIOUS
<1>7. min.dsu \in Forests(pre, a) /\ sd \in Sdoms(n, a) /\ (a > 1 => sd[a] < a)
  BY <1>1, <1>5, <1>6 DEF SdomStates
<1>8. sd \in [1 .. n -> 1 .. n] /\ \A t \in 1 .. n : t > a /\ t > 1 => sd[t] < t
  BY <1>7 DEF Sdoms
<1>9. sd \in Sdoms(n, a - 1)
  <2>1. \A t \in 1 .. n : /\ sd[t] <= t
                          /\ t < a - 1 => sd[t] = t
                          /\ t > a - 1 /\ t > 1 => sd[t] < t
    BY <1>2, <1>7 DEF Sdoms
  <2> QED BY <1>8, <2>1 DEF Sdoms
<1>10. /\ Listed(pre, a - 1, listed)
       /\ \A m \in Nodes : \A i \in DOMAIN listed[m] : TimeIn(pre, listed[m][i]) > 1
       /\ \A t \in 2 .. n : t > a - 1 => idoms[t] < t \/ Waits(pre, t, a, listed)
  <2>1. PICK s, sdl, id : s = sd[a] /\ sdl = sdommed /\ id = idoms
    OBVIOUS
  <2>2. s \in 1 .. Len(pre) /\ (a > 1 => s < a) /\ a \in 1 .. Len(pre)
    BY <1>2, <1>7, <1>8, <2>1
  <2>3. listed = IF a = 1 THEN sdl ELSE [sdl EXCEPT ![pre[s]] = Append(@, pre[a])]
    BY <1>1, <1>6, <2>1 DEF NodeListed
  <2>4. Listed(pre, a, sdl) /\ Due(pre, a, id, sdl)
    BY <1>3, <2>1
  <2>5. IsOrder(pre) /\ s \in 1 .. Len(pre) /\ a \in 1 .. Len(pre)
    BY <1>2, <2>2
  <2>6. a > 1 => s < a
    BY <2>2
  <2>7. Listed(pre, a - 1, listed)
    BY <2>3, <2>4, <2>5, <2>6, ListNode
  <2>8. \A m \in Nodes : \A i \in DOMAIN listed[m] : TimeIn(pre, listed[m][i]) > 1
    BY <2>3, <2>4, <2>5, <2>6, ListNode
  <2>9. \A t \in 2 .. Len(pre) : t > a - 1 => id[t] < t \/ Waits(pre, t, a, listed)
    BY <2>3, <2>4, <2>5, <2>6, ListNode
  <2> QED BY <1>2, <2>1, <2>7, <2>8, <2>9
<1>11. PICK list : list = listed[node]
  OBVIOUS
<1>12. /\ list \in Seq(Nodes)
       /\ \A i \in DOMAIN list : /\ list[i] \in ToSet(pre)
                                 /\ sd[TimeIn(pre, list[i])] < TimeIn(pre, list[i])
  <2>1. list \in Seq(Nodes)
    BY <1>2, <1>10, <1>11 DEF Listed
  <2>2. ASSUME NEW i \in DOMAIN list
        PROVE  list[i] \in ToSet(pre) /\ sd[TimeIn(pre, list[i])] < TimeIn(pre, list[i])
    <3>1. list[i] \in ToSet(pre) /\ TimeIn(pre, list[i]) > a - 1 /\ TimeIn(pre, list[i]) > 1
      BY <1>2, <1>10, <1>11, <2>2 DEF Listed
    <3>2. PICK t : t = TimeIn(pre, list[i])
      OBVIOUS
    <3>3. t \in 1 .. n /\ t > 1 /\ t > a - 1
      BY <1>2, <3>1, <3>2
    <3>4. sd[t] < t
      BY <1>2, <1>7, <1>8, <3>3
    <3> QED BY <3>1, <3>2, <3>4
  <2> QED BY <2>1, <2>2
<1>13. /\ fill \in FillStates(pre, a)
       /\ \A i \in DOMAIN list : fill.idoms[TimeIn(pre, list[i])] < TimeIn(pre, list[i])
       /\ \A u \in 1 .. n : idoms[u] < u => fill.idoms[u] < u
  <2>1. sd \in [1 .. Len(preOrder) -> 1 .. Len(preOrder)] /\ min.dsu \in Forests(preOrder, a)
    BY <1>1, <1>7, <1>8
  <2>2. idoms \in Idoms(Len(preOrder))
    BY <1>1, <1>3
  <2>3. Ready(preOrder, sd, list)
    BY <1>1, <1>12 DEF Ready
  <2>4. fill = FillIdoms(min.dsu, sd, list)
    BY <1>6, <1>11
  <2>5. PICK f : f = min.dsu
    OBVIOUS
  <2>6. f \in Forests(preOrder, a) /\ fill = FillIdoms(f, sd, list) /\ list \in Seq(Nodes)
    BY <1>12, <2>1, <2>4, <2>5
  <2>7. fill \in FillStates(preOrder, a)
    BY <2>1, <2>2, <2>3, <2>6, IdomsFilled, SMTT(30)
  <2>8. \A i \in DOMAIN list : fill.idoms[TimeIn(preOrder, list[i])] < TimeIn(preOrder, list[i])
    BY <2>1, <2>2, <2>3, <2>6, IdomsFilled
  <2>9. \A u \in 1 .. Len(preOrder) : idoms[u] < u => fill.idoms[u] < u
    BY <2>1, <2>2, <2>3, <2>6, IdomsFilled
  <2> QED BY <1>1, <2>7, <2>8, <2>9
<1>14. fill.idoms \in Idoms(n) /\ fill.dsu \in Forests(pre, a)
  BY <1>2, <1>13 DEF FillStates
<1>15. Due(pre, a - 1, fill.idoms, listed)
  <2>1. PICK id, id2 : id = idoms /\ id2 = fill.idoms
    OBVIOUS
  <2>2. a \in 1 .. Len(pre)
    BY <1>2
  <2>3. \A t \in 2 .. Len(pre) : t > a - 1 => id[t] < t \/ Waits(pre, t, a, listed)
    BY <1>2, <1>10, <2>1
  <2>4. \A i \in DOMAIN listed[pre[a]] :
           id2[TimeIn(pre, listed[pre[a]][i])] < TimeIn(pre, listed[pre[a]][i])
    BY <1>2, <1>11, <1>13, <2>1
  <2>5. \A u \in 1 .. Len(pre) : id[u] < u => id2[u] < u
    BY <1>2, <1>13, <2>1
  <2>6. Due(pre, a - 1, id2, listed)
    BY <1>2, <2>2, <2>3, <2>4, <2>5, SetFilled
  <2> QED BY <2>1, <2>6
<1>16. d \in Forests(pre, a - 1)
  <2>1. Time(node) = a
    BY <1>1, <1>2, TimeIs
  <2>2. DfsParent(node) = preOrder[IF a = 1 THEN 1 ELSE a - 1]
    BY <2>1 DEF DfsParent
  <2>3. d = IF a = 1 THEN fill.dsu ELSE [fill.dsu EXCEPT !.parent[pre[a]] = pre[a - 1]]
    BY <1>1, <2>2 DEF NodeUnited
  <2>4. a \in 1 .. Len(pre)
    BY <1>2
  <2> QED BY <1>2, <1>14, <2>3, <2>4, UnionKeeps
<1>17. a - 1 \in 0 .. n
  BY <1>2
<1>18. Building(pre, a - 1, sd, fill.idoms, listed, d)
  BY <1>2, <1>9, <1>10, <1>14, <1>15, <1>16, <1>17 DEF Building
<1> QED BY <1>1, <1>6, <1>18

(* An iteration of calcSdoms.                                                *)
LEMMA SdomStepKeeps == ASSUME BuildInv, SdomStep PROVE BuildInv'
<1>1. /\ SearchInv /\ phase = "sdoms" /\ at > 0 /\ preOrder # << >> /\ DfsDone
      /\ Building(preOrder, at, sdoms, idoms, sdommed, dsu)
      /\ idommed = [n \in Nodes |-> << >>]
  BY DEF BuildInv, SdomStep
<1>2. dfsVars' = dfsVars
  BY DEF SdomStep
<1>3. SearchInv' /\ preOrder' = preOrder /\ Discovered' = Discovered /\ DfsDone'
  BY <1>1, <1>2, SearchGoesOn DEF dfsVars, Discovered, DfsDone
<1>4. PICK node : node = preOrder[at]
  OBVIOUS
<1>5. CASE ~(ToSet(Preds(node)) \subseteq Discovered)
  <2>1. phase' = "throw" /\ UNCHANGED <<at, sdoms, idoms, sdommed, dsu, idommed>>
    BY <1>4, <1>5 DEF SdomStep
  <2>2. node \in Discovered /\ node \in Nodes
    <3>1. at \in 1 .. Len(preOrder)
      <4>1. at \in 0 .. Len(preOrder) /\ Len(preOrder) \in Nat
        BY <1>1, SearchOrder, Times DEF Building
      <4> QED BY <1>1, <4>1
    <3> QED BY <1>1, <1>4, <3>1, SearchOrder, Times DEF Discovered
  <2>3. (\E n \in Discovered : ~(ToSet(Preds(n)) \subseteq Discovered))' =
        (\E n \in Discovered : ~(ToSet(Preds(n)) \subseteq Discovered))
    BY <1>2 DEF dfsVars, Discovered, Preds, succ
  <2>4. (\E n \in Discovered : ~(ToSet(Preds(n)) \subseteq Discovered))'
    BY <1>5, <2>2, <2>3
  <2>5. Building(preOrder, at, sdoms, idoms, sdommed, dsu)'
    BY <1>1, <1>3, <2>1
  <2>6. phase' # "dfs" /\ phase' # "idoms" /\ phase' # "done"
    BY <2>1
  <2> QED BY <1>1, <1>3, <2>1, <2>4, <2>5, <2>6 DEF BuildInv
<1>6. CASE ToSet(Preds(node)) \subseteq Discovered
  <2>1. PICK min : min = FindMinSdom(node)
    OBVIOUS
  <2>2. PICK listed : listed = NodeListed(node, min)
    OBVIOUS
  <2>3. PICK fill : fill = FillIdoms(min.dsu, min.sdoms, listed[node])
    OBVIOUS
  <2>4. PICK d : d = NodeUnited(node, fill)
    OBVIOUS
  <2>5. /\ sdoms' = min.sdoms /\ sdommed' = listed /\ idoms' = fill.idoms /\ dsu' = d
        /\ at' = at - 1 /\ phase' = phase /\ idommed' = idommed
    BY <1>4, <1>6, <2>1, <2>2, <2>3, <2>4 DEF SdomStep, NodeListed, NodeUnited
  <2>9. graph \in Graphs
    BY <1>1 DEF SearchInv
  <2>6. Building(preOrder, at - 1, min.sdoms, fill.idoms, listed, d)
    BY <1>1, <1>4, <1>6, <2>1, <2>2, <2>3, <2>4, <2>9, SearchOrder, SdomRound
  <2>7. Building(preOrder, at, sdoms, idoms, sdommed, dsu)'
    BY <1>3, <2>5, <2>6
  <2>8. phase' = "sdoms" /\ idommed' = [n \in Nodes |-> << >>] /\ preOrder' # << >>
    BY <1>1, <1>3, <2>5
  <2> QED BY <1>3, <2>7, <2>8 DEF BuildInv
<1> QED BY <1>5, <1>6

(* calcIdoms begins.                                                         *)
LEMMA StartIdomsKeeps == ASSUME BuildInv, StartIdoms PROVE BuildInv'
<1>1. /\ SearchInv /\ phase = "sdoms" /\ at = 0 /\ preOrder # << >> /\ DfsDone
      /\ Building(preOrder, 0, sdoms, idoms, sdommed, dsu)
      /\ idommed = [n \in Nodes |-> << >>]
  BY DEF BuildInv, StartIdoms
<1>2. dfsVars' = dfsVars /\ phase' = "idoms" /\ at' = 2
      /\ UNCHANGED <<sdoms, idoms, sdommed, dsu, idommed>>
  BY DEF StartIdoms
<1>3. SearchInv' /\ preOrder' = preOrder /\ DfsDone'
  BY <1>1, <1>2, SearchGoesOn DEF dfsVars, DfsDone
<1>4. Len(preOrder) \in Nat /\ 2 \in 2 .. Len(preOrder) + 1
  <2>1. preOrder \in Seq(Nodes)
    BY <1>1, SearchOrder DEF IsOrder
  <2> QED BY <1>1, <2>1
<1>5. \A t \in 2 .. Len(preOrder) : idoms[t] < t
  <2> SUFFICES ASSUME NEW t \in 2 .. Len(preOrder), ~(idoms[t] < t) PROVE FALSE
    OBVIOUS
  <2>1. Waits(preOrder, t, 0, sdommed)
    BY <1>1, <1>4 DEF Building, Due
  <2> QED BY <2>1 DEF Waits
<1>6. Hung(preOrder, 2, idommed)
  BY <1>1, NothingHangs
<1>7. Treeing(preOrder, 2, sdoms, idoms, sdommed, dsu, idommed)
  BY <1>1, <1>4, <1>5, <1>6 DEF Building, Treeing
<1>8. Treeing(preOrder, at, sdoms, idoms, sdommed, dsu, idommed)'
  BY <1>2, <1>3, <1>7
<1> QED BY <1>1, <1>2, <1>3, <1>8 DEF BuildInv

(* An iteration of calcIdoms.                                                *)
LEMMA IdomStepKeeps == ASSUME BuildInv, IdomStep PROVE BuildInv'
<1>1. /\ SearchInv /\ phase = "idoms" /\ at <= Len(preOrder) /\ preOrder # << >> /\ DfsDone
      /\ Treeing(preOrder, at, sdoms, idoms, sdommed, dsu, idommed)
  BY DEF BuildInv, IdomStep
<1>2. dfsVars' = dfsVars /\ phase' = "idoms" /\ at' = at + 1
      /\ UNCHANGED <<sdoms, sdommed, dsu>>
  BY <1>1 DEF IdomStep
<1>3. SearchInv' /\ preOrder' = preOrder /\ DfsDone'
  BY <1>1, <1>2, SearchGoesOn DEF dfsVars, DfsDone
<1>4. PICK n, b, s : n = Len(preOrder) /\ b = at /\ s = FinalIdom(at)
  OBVIOUS
<1>5. /\ n \in Nat /\ b \in 2 .. n /\ idoms \in [1 .. n -> 1 .. n]
      /\ \A t \in 1 .. n : idoms[t] <= t
      /\ \A t \in 2 .. n : idoms[t] < t
  <2>1. n \in Nat /\ b \in 2 .. n + 1 /\ b <= n
    BY <1>1, <1>4, SearchOrder, Times DEF Treeing
  <2>2. b \in 2 .. n
    BY <2>1
  <2> QED BY <1>1, <1>4, <2>1, <2>2 DEF Treeing, Idoms
<1>6. s \in 1 .. b - 1
  <2>1. PICK t : t = idoms[b]
    OBVIOUS
  <2>2. t \in 1 .. n /\ t < b /\ t \in 1 .. b - 1
    BY <1>5, <2>1
  <2>3. idoms[t] \in 1 .. n /\ idoms[t] <= t
    BY <1>5, <2>2
  <2>4. s = t \/ s = idoms[t]
    BY <1>4, <2>1 DEF FinalIdom
  <2> QED BY <1>5, <2>2, <2>3, <2>4
<1>7. PICK id2, tree2 : /\ id2 = [idoms EXCEPT ![b] = s]
                        /\ tree2 = [idommed EXCEPT ![preOrder[s]] = Append(@, preOrder[b])]
  OBVIOUS
<1>8. idoms' = id2 /\ idommed' = tree2
  BY <1>4, <1>7 DEF IdomStep
<1>9. id2 \in Idoms(n) /\ \A t \in 2 .. n : id2[t] < t
  <2>1. s \in 1 .. n /\ s < b /\ b \in 1 .. n
    BY <1>5, <1>6
  <2>2. id2 \in [1 .. n -> 1 .. n] /\ \A t \in 1 .. n : id2[t] = IF t = b THEN s ELSE idoms[t]
    BY <1>5, <1>7, <2>1
  <2>3. ASSUME NEW t \in 1 .. n PROVE id2[t] <= t /\ (t \in 2 .. n => id2[t] < t)
    <3>1. CASE t = b
      <4>1. id2[t] = s
        BY <2>2, <3>1
      <4> QED BY <1>5, <2>1, <3>1, <4>1
    <3>2. CASE t # b
      <4>1. id2[t] = idoms[t]
        BY <2>2, <3>2
      <4> QED BY <1>5, <4>1
    <3> QED BY <3>1, <3>2
  <2>4. \A t \in 2 .. n : t \in 1 .. n
    BY <1>5
  <2> QED BY <2>2, <2>3, <2>4 DEF Idoms
<1>10. Hung(preOrder, b + 1, tree2)
  <2>1. PICK tree : tree = idommed
    OBVIOUS
  <2>2. Hung(preOrder, b, tree) /\ b \in 2 .. Len(preOrder) /\ IsOrder(preOrder)
    BY <1>1, <1>4, <1>5, <2>1, SearchOrder DEF Treeing
  <2>3. tree2 = [tree EXCEPT ![preOrder[s]] = Append(@, preOrder[b])]
    BY <1>7, <2>1
  <2>4. PICK pre : pre = preOrder
    OBVIOUS
  <2>5. Hung(pre, b + 1, tree2)
    BY <1>6, <2>2, <2>3, <2>4, HangKeeps
  <2> QED BY <2>4, <2>5
<1>11. b + 1 \in 2 .. Len(preOrder) + 1
  BY <1>4, <1>5
<1>12. Treeing(preOrder, b + 1, sdoms, id2, sdommed, dsu, tree2)
  BY <1>1, <1>4, <1>9, <1>10, <1>11 DEF Treeing
<1>13. Treeing(preOrder, at, sdoms, idoms, sdommed, dsu, idommed)'
  BY <1>2, <1>3, <1>4, <1>8, <1>12
<1> QED BY <1>1, <1>2, <1>3, <1>13 DEF BuildInv

(* The tree is done.                                                         *)
LEMMA FinishKeepsTree == ASSUME BuildInv, Finish PROVE BuildInv'
<1>1. /\ SearchInv /\ phase = "idoms" /\ at > Len(preOrder) /\ preOrder # << >> /\ DfsDone
      /\ Treeing(preOrder, at, sdoms, idoms, sdommed, dsu, idommed)
  BY DEF BuildInv, Finish
<1>2. dfsVars' = dfsVars /\ phase' = "done"
      /\ UNCHANGED <<at, sdoms, idoms, sdommed, dsu, idommed>>
  BY DEF Finish
<1>3. SearchInv' /\ preOrder' = preOrder /\ DfsDone'
  BY <1>1, <1>2, SearchGoesOn DEF dfsVars, DfsDone
<1>4. at = Len(preOrder) + 1
  <2>1. Len(preOrder) \in Nat /\ at \in 2 .. Len(preOrder) + 1
    BY <1>1, SearchOrder, Times DEF Treeing
  <2> QED BY <1>1, <2>1
<1>5. Treeing(preOrder, at, sdoms, idoms, sdommed, dsu, idommed)'
  BY <1>1, <1>2, <1>3
<1>6. at' = Len(preOrder') + 1
  BY <1>2, <1>3, <1>4
<1> QED BY <1>1, <1>2, <1>3, <1>5, <1>6 DEF BuildInv

(* A step of the search.                                                     *)
LEMMA DfsStepKeeps == ASSUME BuildInv, DfsStep PROVE BuildInv'
<1>1. SearchInv' /\ phase = "dfs" /\ builderVars' = builderVars
  BY SearchGoesOn DEF BuildInv, DfsStep
<1> QED BY <1>1 DEF BuildInv, builderVars, Untouched

(* No step.                                                                  *)
LEMMA StutterKeeps == ASSUME BuildInv, UNCHANGED vars PROVE BuildInv'
<1>1. SearchInv' /\ dfsVars' = dfsVars /\ builderVars' = builderVars
  BY SearchGoesOn DEF BuildInv, vars
<1>2. /\ preOrder' = preOrder /\ Discovered' = Discovered /\ DfsDone' = DfsDone
      /\ \A n : ToSet(Preds(n))' = ToSet(Preds(n))
  BY <1>1 DEF dfsVars, Discovered, Preds, succ, DfsDone
<1>3. (\E n \in Discovered : ~(ToSet(Preds(n)) \subseteq Discovered))' =
      (\E n \in Discovered : ~(ToSet(Preds(n)) \subseteq Discovered))
  BY <1>1 DEF dfsVars, Discovered, Preds, succ
<1> QED BY <1>1, <1>2, <1>3 DEF BuildInv, builderVars, Untouched

(* The builder starts with nothing done.                                     *)
LEMMA BuilderStarts == ASSUME Init PROVE BuildInv
BY SearchStarts DEF Init, BuildInv, Untouched

(* The builder keeps its invariant.                                          *)
LEMMA BuilderKeeps == ASSUME BuildInv, [BuilderNext]_vars PROVE BuildInv'
BY DfsStepKeeps, StartSdomsKeeps, SdomStepKeeps, StartIdomsKeeps, IdomStepKeeps,
   FinishKeepsTree, StutterKeeps DEF BuilderNext

(* It holds in every state of the builder.                                   *)
THEOREM BuilderInvariance == Spec => []BuildInv
<1>1. Init => BuildInv
  BY BuilderStarts
<1>2. BuildInv /\ [Next]_vars => BuildInv'
  BY BuilderKeeps DEF Next, Terminated
<1> QED BY <1>1, <1>2, PTL DEF Spec

(* A state of the invariant has the types of the builder.                    *)
LEMMA BuildTypes == ASSUME BuildInv PROVE TypeOK
<1>1. DfsTypeOK /\ IsOrder(preOrder)
  BY SearchOrder DEF BuildInv, SearchInv, DfsInv
<1>2. PICK n : n = Len(preOrder)
  OBVIOUS
<1>3. n \in Nat /\ DOMAIN preOrder = 1 .. n /\ ToSet(preOrder) \subseteq Nodes
  BY <1>1, <1>2, Times
<1>4. Cardinality(Nodes) \in Nat /\ n <= Cardinality(Nodes)
  BY <1>1, <1>2, TimesBounded
<1>5. CASE phase = "dfs"
  <2>1. Untouched /\ idommed = [m \in Nodes |-> << >>]
    BY <1>5 DEF BuildInv
  <2>2. DOMAIN << >> = {}
    OBVIOUS
  <2>3. sdommed \in [Nodes -> Seq(Nodes)] /\ idommed \in [Nodes -> Seq(Nodes)]
    BY <2>1 DEF Untouched
  <2>4. /\ dsu.parent \in [DOMAIN dsu.parent -> Nodes]
        /\ dsu.label \in [DOMAIN dsu.parent -> Nodes]
    BY <2>1 DEF Untouched
  <2>5. at \in 0 .. Cardinality(Nodes) + 1
    BY <1>4, <2>1 DEF Untouched
  <2> QED BY <1>1, <1>5, <2>1, <2>2, <2>3, <2>4, <2>5 DEF TypeOK, Untouched
<1>6. CASE phase # "dfs"
  <2>1. /\ at \in 0 .. n + 1 /\ \E a : sdoms \in Sdoms(n, a)
        /\ idoms \in Idoms(n) /\ sdommed \in [Nodes -> Seq(Nodes)]
        /\ idommed \in [Nodes -> Seq(Nodes)] /\ dsu \in Links(preOrder)
    <3>1. CASE phase \in {"sdoms", "throw"}
      <4>1. Building(preOrder, at, sdoms, idoms, sdommed, dsu)
            /\ idommed = [m \in Nodes |-> << >>]
        BY <3>1 DEF BuildInv
      <4>2. at \in 0 .. n + 1
        BY <1>2, <1>3, <4>1 DEF Building
      <4>3. idommed \in [Nodes -> Seq(Nodes)]
        BY <4>1
      <4> QED BY <1>2, <4>1, <4>2, <4>3 DEF Building, Listed, Forests
    <3>2. CASE phase \in {"idoms", "done"}
      <4>1. Treeing(preOrder, at, sdoms, idoms, sdommed, dsu, idommed)
        BY <3>2 DEF BuildInv
      <4>2. at \in 0 .. n + 1
        BY <1>2, <1>3, <4>1 DEF Treeing
      <4> QED BY <1>2, <4>1, <4>2 DEF Treeing, Listed, Hung, Forests
    <3> QED BY <1>6, <3>1, <3>2 DEF BuildInv
  <2>2. /\ sdoms \in [1 .. n -> 1 .. n] /\ idoms \in [1 .. n -> 1 .. n]
        /\ \A t \in 1 .. n : sdoms[t] <= t /\ idoms[t] <= t
    BY <2>1 DEF Sdoms, Idoms
  <2>3. \A t \in DOMAIN sdoms : sdoms[t] \in 1 .. t /\ idoms[t] \in 1 .. t
    BY <1>3, <2>2
  <2>4. at \in 0 .. Cardinality(Nodes) + 1
    BY <1>3, <1>4, <2>1
  <2>5. /\ dsu.parent \in [DOMAIN dsu.parent -> Nodes]
        /\ dsu.label \in [DOMAIN dsu.parent -> Nodes]
    BY <1>3, <2>1 DEF Links
  <2>6. DOMAIN sdoms = 1 .. n /\ DOMAIN idoms = 1 .. n
    BY <2>2
  <2>7. phase \in {"dfs", "sdoms", "idoms", "done", "throw"}
    BY DEF BuildInv
  <2> QED BY <1>1, <1>3, <2>1, <2>3, <2>4, <2>5, <2>6, <2>7 DEF TypeOK
<1> QED BY <1>5, <1>6

(* The state of the builder has the types the code gives it: times stay      *)
(* within the order, semidominators and dominators do not exceed their node. *)
THEOREM BuilderTypes == Spec => []TypeOK
BY BuildTypes, BuilderInvariance, PTL

(* What the builder computes on the way is well-founded, and it ends with a  *)
(* tree over the reached nodes, rooted at the entry, or by the exception     *)
(* that a reached node with an unreached predecessor raises.                 *)
THEOREM TreeIsRooted == Spec => []TreeWellFormed
<1>1. BuildInv => TreeWellFormed
  <2> SUFFICES ASSUME BuildInv PROVE TreeWellFormed
    OBVIOUS
  <2>1. SearchInv /\ IsOrder(preOrder) /\ GrownFrom(preOrder, graph.entry, succ)
    BY SearchOrder DEF BuildInv
  <2>2. ForestOrdered
    <3>1. CASE phase = "dfs"
      <4>1. dsu.parent = << >> /\ DOMAIN << >> = {}
        BY <3>1 DEF BuildInv, Untouched
      <4> QED BY <4>1 DEF ForestOrdered
    <3>2. CASE phase # "dfs"
      <4>1. dsu \in Links(preOrder) /\ Falls(preOrder, dsu)
        BY <3>2 DEF BuildInv, Building, Treeing, Forests
      <4>2. DOMAIN dsu.parent = ToSet(preOrder)
        BY <4>1 DEF Links
      <4> QED BY <4>1, <4>2, TimeIs DEF ForestOrdered, Falls
    <3> QED BY <3>1, <3>2
  <2>3. TreeRooted
    <3>1. CASE phase = "done"
      <4>1. /\ Treeing(preOrder, at, sdoms, idoms, sdommed, dsu, idommed)
            /\ at = Len(preOrder) + 1 /\ preOrder # << >>
        BY <3>1 DEF BuildInv
      <4>2. Hung(preOrder, Len(preOrder) + 1, idommed)
        BY <4>1 DEF Treeing
      <4>3. preOrder[1] = graph.entry
        BY <2>1, <4>1 DEF GrownFrom
      <4> QED BY <2>1, <4>2, <4>3, HungIsRooted
    <3>2. CASE phase # "done"
      BY <3>2 DEF TreeRooted
    <3> QED BY <3>1, <3>2
  <2>4. ThrowsForReasons
    BY DEF BuildInv, ThrowsForReasons
  <2> QED BY <2>2, <2>3, <2>4 DEF TreeWellFormed
<1> QED BY <1>1, BuilderInvariance, PTL

-----------------------------------------------------------------------------
(* What ReachableWithout is: the least set of nodes that holds the entry and *)
(* every successor of a node it holds, but for the one left out.             *)
GrownBut(A, d) == A \cup {n \in Nodes \ {d} : \E m \in A : Edge(m, n)}

SeedsBut(d) == {graph.entry} \ {d}

(* It is the last of a series of sets that grows from the entry.             *)
LEMMA WithoutRuns ==
    ASSUME graph.entry \in Nodes, NEW d
    PROVE  \E w \in [0 .. Cardinality(Nodes) -> SUBSET Nodes] :
              /\ w[0] = SeedsBut(d)
              /\ \A k \in 1 .. Cardinality(Nodes) : w[k] = GrownBut(w[k - 1], d)
              /\ ReachableWithout(d) = w[Cardinality(Nodes)]
<1> DEFINE N == Cardinality(Nodes)
           Def(g) == [k \in 0 .. N |-> IF k = 0 THEN SeedsBut(d) ELSE GrownBut(g[k - 1], d)]
<1>1. N \in Nat
  BY GraphsAssumption, FS_CardinalityType
<1>2. SeedsBut(d) \in SUBSET Nodes /\ \A A \in SUBSET Nodes : GrownBut(A, d) \in SUBSET Nodes
  BY DEF SeedsBut, GrownBut
<1>3. PICK D \in Rounds(SUBSET Nodes, N) :
        \A k \in 1 .. N : \A A \in SUBSET Nodes : D[k][A] = GrownBut(A, d)
  <2> DEFINE E == [k \in 1 .. N |-> [A \in SUBSET Nodes |-> GrownBut(A, d)]]
  <2>1. E \in Rounds(SUBSET Nodes, N)
    BY <1>2 DEF Rounds
  <2>2. \A k \in 1 .. N : \A A \in SUBSET Nodes : E[k][A] = GrownBut(A, d)
    OBVIOUS
  <2> HIDE DEF E
  <2> QED BY <2>1, <2>2
<1>4. PICK w \in [0 .. N -> SUBSET Nodes] :
        w[0] = SeedsBut(d) /\ \A k \in 1 .. N : w[k] = GrownBut(w[k - 1], d)
  <2>1. PICK start : start = SeedsBut(d)
    OBVIOUS
  <2>2. start \in SUBSET Nodes
    BY <1>2, <2>1
  <2>3. PICK w : w \in Executions(SUBSET Nodes, N, start, D)
    BY <1>1, <2>2, ExecutionExists
  <2>4. w \in [0 .. N -> SUBSET Nodes] /\ w[0] = SeedsBut(d)
    BY <2>1, <2>3 DEF Executions
  <2>5. ASSUME NEW k \in 1 .. N PROVE w[k] = GrownBut(w[k - 1], d)
    <3>1. w[k - 1] \in SUBSET Nodes
      BY <1>1, <2>4
    <3> QED BY <1>3, <2>3, <3>1 DEF Executions
  <2> QED BY <2>4, <2>5
<1>5. w = Def(w)
  BY <1>1, <1>4
<1> DEFINE within == CHOOSE f : f = Def(f)
<1>6. within = Def(within)
  <2> HIDE DEF Def
  <2> QED BY <1>5
<1>7. ReachableWithout(d) = within[N]
  BY DEF ReachableWithout, SeedsBut, GrownBut
<1> HIDE DEF within
<1>8. within[0] = SeedsBut(d) /\ \A k \in 1 .. N : within[k] = GrownBut(within[k - 1], d)
  <2> HIDE DEF N
  <2>1. \A k \in 0 .. N : within[k] = Def(within)[k]
    BY <1>6
  <2> QED BY <1>1, <2>1
<1> DEFINE P == {k \in 0 .. N : within[k] = w[k]}
<1>9. 0 \in P /\ P \in SUBSET (0 .. N)
  BY <1>1, <1>4, <1>8
<1>10. \A k \in 1 .. N : k - 1 \in P => k \in P
  BY <1>1, <1>4, <1>8
<1>11. P = 0 .. N
  <2> HIDE DEF P, N
  <2> QED BY <1>1, <1>9, <1>10, RangeInduction
<1> QED BY <1>1, <1>4, <1>7, <1>11

(* C holds the entry and what edges lead to, but for d.                      *)
ClosedBut(C, d) ==
    /\ C \in SUBSET Nodes
    /\ graph.entry # d => graph.entry \in C
    /\ \A m \in C : \A n \in Nodes \ {d} : Edge(m, n) => n \in C

(* It is the least of these sets, and d is not in it.                        *)
LEMMA WithoutLeast ==
    ASSUME graph.entry \in Nodes, NEW d
    PROVE  /\ ClosedBut(ReachableWithout(d), d) /\ d \notin ReachableWithout(d)
           /\ \A C : ClosedBut(C, d) => ReachableWithout(d) \subseteq C
<1>1. PICK n : n = Cardinality(Nodes)
  OBVIOUS
<1>2. PICK w \in [0 .. n -> SUBSET Nodes] :
        /\ w[0] = SeedsBut(d) /\ \A k \in 1 .. n : w[k] = GrownBut(w[k - 1], d)
        /\ ReachableWithout(d) = w[n]
  BY <1>1, WithoutRuns
<1>3. PICK G \in [Nodes -> SUBSET Nodes] :
        \A m \in Nodes : G[m] = {x \in Nodes \ {d} : Edge(m, x)}
  <2> DEFINE H == [m \in Nodes |-> {x \in Nodes \ {d} : Edge(m, x)}]
  <2>1. H \in [Nodes -> SUBSET Nodes]
        /\ \A m \in Nodes : H[m] = {x \in Nodes \ {d} : Edge(m, x)}
    OBVIOUS
  <2> HIDE DEF H
  <2> QED BY <2>1
<1>4. n \in Nat /\ IsFiniteSet(Nodes)
  BY <1>1, GraphsAssumption, FS_CardinalityType
<1>5. PICK S : S = SeedsBut(d)
  OBVIOUS
<1>6. \A A \in SUBSET Nodes : GrownBut(A, d) = Spread(G, A)
  BY <1>3 DEF GrownBut, Spread
<1>7. ASSUME NEW k \in 1 .. n PROVE w[k] = Spread(G, w[k - 1])
  <2>1. w[k - 1] \in SUBSET Nodes
    BY <1>4
  <2> QED BY <1>2, <1>6, <2>1
<1>8. S \in SUBSET Nodes /\ w \in Spreads(Nodes, S, G, n)
  BY <1>2, <1>5, <1>7 DEF SeedsBut, Spreads
<1>9. /\ S \subseteq w[n] /\ Closed(G, w[n])
      /\ \A C \in SUBSET Nodes : S \subseteq C /\ Closed(G, C) => w[n] \subseteq C
  BY <1>1, <1>4, <1>8, SpreadCloses
<1>10. ASSUME NEW C \in SUBSET Nodes
       PROVE  ClosedBut(C, d) <=> S \subseteq C /\ Closed(G, C)
  <2>1. S \subseteq C <=> (graph.entry # d => graph.entry \in C)
    BY <1>5 DEF SeedsBut
  <2>2. Closed(G, C) <=> \A m \in C : \A x \in Nodes \ {d} : Edge(m, x) => x \in C
    BY <1>3 DEF Closed
  <2> QED BY <2>1, <2>2 DEF ClosedBut
<1>11. w[n] \in SUBSET Nodes
  BY <1>4
<1>12. ClosedBut(w[n], d)
  BY <1>9, <1>10, <1>11
<1>13. ASSUME NEW C, ClosedBut(C, d) PROVE w[n] \subseteq C
  <2>1. C \in SUBSET Nodes
    BY <1>13 DEF ClosedBut
  <2> QED BY <1>9, <1>10, <1>13, <2>1
<1>14. d \notin w[n]
  <2>1. ClosedBut(Nodes \ {d}, d)
    BY DEF ClosedBut
  <2> QED BY <1>13, <2>1
<1> QED BY <1>2, <1>12, <1>13, <1>14

-----------------------------------------------------------------------------
(* Dominance is an order of the reachable nodes.                             *)

(* What holds the entry and what edges lead to holds what is reachable.      *)
LEMMA ReachableIn ==
    ASSUME DfsTypeOK, NEW C \in SUBSET Nodes, graph.entry \in C,
           \A m \in C : \A n \in Nodes : Edge(m, n) => n \in C
    PROVE  Reachable \subseteq C
<1>1. Seeds \subseteq C
  BY DEF Seeds
<1> QED BY <1>1, ReachableLeast

(* Without d, no more is reachable.                                          *)
LEMMA WithoutReaches ==
    ASSUME DfsTypeOK, graph.entry \in Nodes, NEW d
    PROVE  ReachableWithout(d) \subseteq Reachable
<1>1. Reachable \in SUBSET Nodes /\ graph.entry \in Reachable
      /\ \A m \in Reachable : \A n \in Nodes : Edge(m, n) => n \in Reachable
  BY ReachableLeast, GraphsAssumption DEF Seeds
<1>2. ClosedBut(Reachable, d)
  BY <1>1 DEF ClosedBut
<1> QED BY <1>2, WithoutLeast

(* What is not reachable dominates nothing.                                  *)
LEMMA UnreachedDominatesNone ==
    ASSUME DfsTypeOK, graph.entry \in Nodes, NEW d, d \notin Reachable, NEW n
    PROVE  ~Dominates(d, n)
<1>1. PICK C : C = ReachableWithout(d)
  OBVIOUS
<1>2. ClosedBut(C, d) /\ C \subseteq Reachable /\ C \in SUBSET Nodes
  BY <1>1, WithoutLeast, WithoutReaches DEF ClosedBut
<1>3. graph.entry \in Reachable
      /\ \A m \in Reachable : \A x \in Nodes : Edge(m, x) => x \in Reachable
  BY ReachableLeast, GraphsAssumption DEF Seeds
<1>4. graph.entry \in C /\ \A m \in C : \A x \in Nodes : Edge(m, x) => x \in C
  BY <1>2, <1>3 DEF ClosedBut
<1>5. Reachable \subseteq C
  BY <1>2, <1>4, ReachableIn
<1> QED BY <1>1, <1>5 DEF Dominates

(* What dominates a dominator dominates what that dominates.                 *)
LEMMA DominatesTransitive ==
    ASSUME graph.entry \in Nodes, NEW a, NEW b, NEW c, Dominates(a, b), Dominates(b, c)
    PROVE  Dominates(a, c)
<1> SUFFICES ASSUME c \in ReachableWithout(a) PROVE FALSE
  BY DEF Dominates
<1>1. b \notin ReachableWithout(a) /\ c \notin ReachableWithout(b) /\ b \in Reachable
  BY DEF Dominates
<1>2. PICK C, D : C = ReachableWithout(a) /\ D = ReachableWithout(b)
  OBVIOUS
<1>3. ClosedBut(C, a) /\ ClosedBut(D, b)
  BY <1>2, WithoutLeast
<1>4. ClosedBut(C \cap D, a)
  <2>1. graph.entry # a => graph.entry \in C \cap D
    BY <1>1, <1>2, <1>3 DEF ClosedBut
  <2>2. ASSUME NEW m \in C \cap D, NEW n \in Nodes \ {a}, Edge(m, n) PROVE n \in C \cap D
    <3>1. n \in C
      BY <1>3, <2>2 DEF ClosedBut
    <3>2. n # b
      BY <1>1, <1>2, <3>1
    <3> QED BY <1>3, <2>2, <3>1, <3>2 DEF ClosedBut
  <2> QED BY <1>3, <2>1, <2>2 DEF ClosedBut
<1>5. C \subseteq D
  BY <1>2, <1>4, WithoutLeast
<1> QED BY <1>1, <1>2, <1>5

(* Two nodes do not dominate each other.                                     *)
LEMMA DominatesAntisymmetric ==
    ASSUME DfsTypeOK, graph.entry \in Nodes, NEW a, NEW b, a # b, Dominates(a, b)
    PROVE  ~Dominates(b, a)
<1> SUFFICES ASSUME Dominates(b, a) PROVE FALSE
  OBVIOUS
<1>1. PICK C, D : C = ReachableWithout(a) /\ D = ReachableWithout(b)
  OBVIOUS
<1>2. ClosedBut(C, a) /\ ClosedBut(D, b) /\ b \notin C /\ a \notin D /\ a \in Reachable
  BY <1>1, WithoutLeast DEF Dominates
<1>3. graph.entry \in C \cap D
  BY <1>2 DEF ClosedBut
<1>4. ASSUME NEW m \in C \cap D, NEW n \in Nodes, Edge(m, n) PROVE n \in C \cap D
  BY <1>2, <1>4 DEF ClosedBut
<1>5. C \cap D \in SUBSET Nodes
  BY <1>2 DEF ClosedBut
<1>6. Reachable \subseteq C \cap D
  BY <1>3, <1>4, <1>5, ReachableIn
<1> QED BY <1>2, <1>6

-----------------------------------------------------------------------------
(* Sequences put together.                                                   *)

(* Two sequences without a repetition that share nothing, one behind the     *)
(* other, have none.                                                         *)
LEMMA ConcatInjective ==
    ASSUME NEW S, NEW s \in Seq(S), NEW e \in Seq(S), IsInjective(s), IsInjective(e),
           ToSet(s) \cap ToSet(e) = {}
    PROVE  IsInjective(s \o e)
<1>1. PICK k, l, t : k = Len(s) /\ l = Len(e) /\ t = s \o e
  OBVIOUS
<1>2. /\ k \in Nat /\ l \in Nat /\ DOMAIN s = 1 .. k /\ DOMAIN e = 1 .. l
      /\ t \in Seq(S) /\ Len(t) = k + l
      /\ \A i \in 1 .. k + l : t[i] = IF i <= k THEN s[i] ELSE e[i - k]
  BY <1>1, ConcatProperties
<1>3. DOMAIN t = 1 .. k + l
  BY <1>2
<1>4. ASSUME NEW i \in 1 .. k + l, NEW j \in 1 .. k + l, t[i] = t[j] PROVE i = j
  <2>1. CASE i <= k /\ j <= k
    <3>1. i \in 1 .. k /\ j \in 1 .. k /\ s[i] = s[j]
      BY <1>2, <1>4, <2>1
    <3> QED BY <1>2, <3>1 DEF IsInjective
  <2>2. CASE ~(i <= k) /\ ~(j <= k)
    <3>1. i - k \in 1 .. l /\ j - k \in 1 .. l /\ e[i - k] = e[j - k]
      BY <1>2, <1>4, <2>2
    <3>2. i - k = j - k
      BY <1>2, <3>1 DEF IsInjective
    <3> QED BY <1>2, <3>2
  <2>3. ASSUME NEW x \in 1 .. k + l, NEW y \in 1 .. k + l, x <= k, ~(y <= k), t[x] = t[y]
        PROVE  FALSE
    <3>1. x \in 1 .. k /\ y - k \in 1 .. l /\ s[x] = e[y - k]
      BY <1>2, <2>3
    <3>2. s[x] \in ToSet(s) /\ e[y - k] \in ToSet(e)
      BY <1>2, <3>1 DEF ToSet
    <3> QED BY <3>1, <3>2
  <2> QED BY <1>4, <2>1, <2>2, <2>3
<1> QED BY <1>1, <1>3, <1>4 DEF IsInjective

(* No element of the pieces of a sequence of sequences is there twice.       *)
Scattered(ss) ==
    \A i, j \in DOMAIN ss : \A k \in DOMAIN ss[i], l \in DOMAIN ss[j] :
        ss[i][k] = ss[j][l] => i = j /\ k = l

Pieces(ss, n) == UNION {ToSet(ss[i]) : i \in 1 .. n}

(* Flattened, it has the elements of its pieces, each once if they are there *)
(* once.                                                                     *)
LEMMA FlattenHolds ==
    ASSUME NEW S, NEW ss \in Seq(Seq(S))
    PROVE  /\ FlattenSeq(ss) \in Seq(S)
           /\ ToSet(FlattenSeq(ss)) = Pieces(ss, Len(ss))
           /\ Scattered(ss) => IsInjective(FlattenSeq(ss))
<1>1. PICK n : n = Len(ss)
  OBVIOUS
<1>2. n \in Nat /\ DOMAIN ss = 1 .. n /\ \A i \in 1 .. n : ss[i] \in Seq(S)
  BY <1>1
<1>3. CASE n = 0
  <2>1. FlattenSeq(ss) = ss /\ ss = << >>
    <3>1. Len(ss) = 0
      BY <1>1, <1>3
    <3>2. ss = << >>
      BY <3>1
    <3> QED BY <3>1, <3>2 DEF FlattenSeq
  <2>2. ss \in Seq(S) /\ DOMAIN ss = {}
    BY <1>2, <1>3, <2>1
  <2>3. ToSet(ss) = {} /\ Pieces(ss, n) = {}
    BY <1>3, <2>2 DEF ToSet, Pieces
  <2> QED BY <1>1, <2>1, <2>2, <2>3 DEF IsInjective
<1>4. CASE n # 0
  <2> DEFINE D == [k \in 1 .. n |-> [t \in Seq(S) |-> t \o ss[k]]]
             Def(h) == [i \in 1 .. n |-> IF i = 1 THEN ss[i] ELSE h[i - 1] \o ss[i]]
  <2>1. D \in Rounds(Seq(S), n)
    <3>1. ASSUME NEW k \in 1 .. n, NEW t \in Seq(S) PROVE t \o ss[k] \in Seq(S)
      BY <1>2, ConcatProperties
    <3> QED BY <3>1 DEF Rounds
  <2>2. PICK g : g \in Executions(Seq(S), n, << >>, D)
    <3>1. << >> \in Seq(S)
      OBVIOUS
    <3> HIDE DEF D
    <3> QED BY <1>2, <2>1, <3>1, ExecutionExists
  <2>3. g \in [0 .. n -> Seq(S)] /\ g[0] = << >> /\ \A k \in 1 .. n : g[k] = D[k][g[k - 1]]
    <3> HIDE DEF D
    <3> QED BY <2>2 DEF Executions
  <2>4. ASSUME NEW k \in 1 .. n PROVE g[k - 1] \in Seq(S) /\ g[k] = g[k - 1] \o ss[k]
    <3>1. g[k - 1] \in Seq(S)
      BY <1>2, <2>3
    <3> QED BY <2>3, <3>1
  <2> HIDE DEF D
  <2> DEFINE h == [i \in 1 .. n |-> g[i]]
  <2>5. h = Def(h)
    <3>1. ASSUME NEW i \in 1 .. n PROVE g[i] = IF i = 1 THEN ss[i] ELSE h[i - 1] \o ss[i]
      <4>1. CASE i = 1
        <5>1. g[i] = << >> \o ss[i] /\ ss[i] \in Seq(S)
          <6>1. i - 1 = 0
            BY <4>1
          <6>2. g[i] = g[0] \o ss[i]
            BY <2>4, <6>1
          <6> QED BY <1>2, <2>3, <6>2
        <5>2. << >> \o ss[i] = ss[i]
          BY <5>1, ConcatEmptySeq
        <5> QED BY <4>1, <5>1, <5>2
      <4>2. CASE i # 1
        <5>1. i - 1 \in 1 .. n
          BY <1>2, <4>2
        <5> QED BY <2>4, <4>2, <5>1
      <4> QED BY <4>1, <4>2
    <3> QED BY <3>1
  <2>6. PICK f : f = CHOOSE x : x = Def(x)
    OBVIOUS
  <2> HIDE DEF h
  <2>7. f = Def(f)
    <3> HIDE DEF Def
    <3> QED BY <2>5, <2>6
  <2>8. FlattenSeq(ss) = f[n]
    BY <1>1, <1>4, <2>6 DEF FlattenSeq
  <2>9. \A i \in 1 .. n : f[i] = IF i = 1 THEN ss[i] ELSE f[i - 1] \o ss[i]
    BY <2>7
  <2> HIDE DEF Def
  <2> DEFINE P == {k \in 0 .. n : k # 0 =>
                     /\ f[k] \in Seq(S) /\ ToSet(f[k]) = Pieces(ss, k)
                     /\ Scattered(ss) => IsInjective(f[k])}
  <2>10. 0 \in P /\ P \in SUBSET (0 .. n)
    BY <1>2
  <2>11. ASSUME Scattered(ss), NEW k \in 1 .. n PROVE IsInjective(ss[k])
    BY <1>2, <2>11 DEF Scattered, IsInjective
  <2>12. ASSUME NEW k \in 1 .. n, k - 1 \in P PROVE k \in P
    <3>1. k \in 0 .. n /\ ss[k] \in Seq(S)
      BY <1>2
    <3>2. CASE k = 1
      <4>1. f[k] = ss[k]
        BY <2>9, <3>2
      <4>2. Pieces(ss, k) = ToSet(ss[k])
        <5>1. 1 .. k = {k}
          BY <3>2
        <5> QED BY <5>1 DEF Pieces
      <4> QED BY <2>11, <3>1, <4>1, <4>2
    <3>3. CASE k # 1
      <4>1. k - 1 # 0 /\ k - 1 \in 1 .. n
        BY <1>2, <3>3
      <4>2. /\ f[k - 1] \in Seq(S) /\ ToSet(f[k - 1]) = Pieces(ss, k - 1)
            /\ Scattered(ss) => IsInjective(f[k - 1])
        BY <2>12, <4>1
      <4>3. f[k] = f[k - 1] \o ss[k]
        BY <2>9, <3>3
      <4>4. f[k] \in Seq(S) /\ ToSet(f[k]) = ToSet(f[k - 1]) \cup ToSet(ss[k])
        BY <3>1, <4>2, <4>3, ConcatSet
      <4>5. Pieces(ss, k) = Pieces(ss, k - 1) \cup ToSet(ss[k])
        <5>1. 1 .. k = (1 .. k - 1) \cup {k}
          BY <1>2
        <5> QED BY <5>1 DEF Pieces
      <4>6. ASSUME Scattered(ss) PROVE IsInjective(f[k])
        <5>1. ASSUME NEW x, x \in Pieces(ss, k - 1), x \in ToSet(ss[k]) PROVE FALSE
          <6>1. PICK i \in 1 .. k - 1 : x \in ToSet(ss[i])
            BY <5>1 DEF Pieces
          <6>2. PICK a \in DOMAIN ss[i] : ss[i][a] = x
            BY <6>1 DEF ToSet
          <6>3. PICK b \in DOMAIN ss[k] : ss[k][b] = x
            BY <5>1 DEF ToSet
          <6>4. i \in DOMAIN ss /\ k \in DOMAIN ss /\ i # k
            BY <1>2
          <6> QED BY <4>6, <6>2, <6>3, <6>4 DEF Scattered
        <5>2. Pieces(ss, k - 1) \cap ToSet(ss[k]) = {}
          BY <5>1
        <5>3. IsInjective(ss[k])
          BY <2>11, <4>6
        <5> QED BY <3>1, <4>2, <4>3, <4>6, <5>2, <5>3, ConcatInjective
      <4> QED BY <3>1, <4>2, <4>4, <4>5, <4>6
    <3> QED BY <3>2, <3>3
  <2>13. P = 0 .. n
    <3> HIDE DEF P
    <3> QED BY <1>2, <2>10, <2>12, RangeInduction
  <2>14. n \in P
    <3> HIDE DEF P
    <3> QED BY <1>2, <2>13
  <2>15. f[n] \in Seq(S) /\ ToSet(f[n]) = Pieces(ss, n) /\ (Scattered(ss) => IsInjective(f[n]))
    BY <1>4, <2>14
  <2> HIDE DEF P
  <2> QED BY <1>1, <2>8, <2>15
<1> QED BY <1>3, <1>4
=============================================================================
