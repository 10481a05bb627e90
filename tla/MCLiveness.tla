----------------------------- MODULE MCLiveness -----------------------------
(* Small instances of Liveness for TLC.                                      *)
EXTENDS MCLoopAnalyzer, Liveness

(* Every block ends with an effect, named as the block; x and y are values   *)
(* computed in the middle of a block, p is a phi of both.                    *)
x == 11
y == 12
p == 13

ReachedWithout(g, d) ==
    LET upTo[k \in 0 .. 6] ==
          IF k = 0 THEN {g.entry} \ {d}
          ELSE LET ns == upTo[k - 1] IN ns \cup (UNION {ToSet(g.succ[n]) : n \in ns} \ {d})
    IN  upTo[6]

ReachedIn(g) == ReachedWithout(g, NoNode)
Below(g, d) == ReachedIn(g) \ ReachedWithout(g, d)
PredsIn(g, n) == {m \in ReachedIn(g) : n \in ToSet(g.succ[m])}

(* The program that defines x in dx and y in dy, with the users ux and uy    *)
(* among the effects, and, in the block join, the phi of x from bx and y     *)
(* from by, used at the end of that block.                                   *)
Program(dx, ux, dy, uy, join, bx, by) ==
    [code |-> [b \in SixNodes |->
                 (IF b = join THEN <<p>> ELSE << >>)
                 \o (IF b = dx THEN <<x>> ELSE << >>) \o (IF b = dy THEN <<y>> ELSE << >>)
                 \o <<b>>],
     type |-> [i \in SixNodes \cup {x, y, p} |->
                 CASE i \in {x, y} -> "value" [] i = p -> "phi" [] OTHER -> "effect"],
     uses |-> [i \in SixNodes \cup {x, y, p} |->
                 (IF i \in ux THEN {x} ELSE {}) \cup (IF i \in uy THEN {y} ELSE {})
                 \cup (IF i = join THEN {p} ELSE {})],
     entries |-> [i \in SixNodes \cup {x, y, p} |->
                    IF i = p /\ join # NoNode THEN {<<x, bx>>, <<y, by>>} ELSE {}]]

AtMostOne(S) == {{}} \cup {{n} : n \in S}

WithoutPhi(g) ==
    {Program(d[1], u[1], d[2], u[2], NoNode, NoNode, NoNode) :
        <<d, u>> \in {<<d, u>> \in (ReachedIn(g) \X ReachedIn(g))
                                   \X (AtMostOne(ReachedIn(g)) \X AtMostOne(ReachedIn(g))) :
                        d[1] <= d[2] /\ u[1] \subseteq Below(g, d[1]) /\ u[2] \subseteq Below(g, d[2])}}

WithPhi(g) ==
    UNION {UNION {{Program(dx, {}, dy, {}, j, bx, by) :
                      dx \in {d \in ReachedIn(g) : bx \in Below(g, d)},
                      dy \in {d \in ReachedIn(g) : by \in Below(g, d)}}
                  : <<bx, by>> \in {e \in PredsIn(g, j) \X PredsIn(g, j) : e[1] # e[2]}}
           : j \in ReachedIn(g)}

(* The exits return nothing.                                                 *)
VoidReturns(g) ==
    LET none == Program(g.entry, {}, g.entry, {}, NoNode, NoNode, NoNode) IN
    {[none EXCEPT !.type = [i \in DOMAIN @ |->
        IF i \in ReachedIn(g) /\ g.succ[i] = << >> THEN "void" ELSE @[i]]]}

(* Two branches that meet behind a loop; a branch inside of a loop, numbered *)
(* so that the order of the predecessors puts it in the order of the edges.  *)
Branches ==
    {GraphOf(<< <<2, 3>>, <<4>>, <<4>>, <<5>>, <<4, 6>>, << >> >>),
     GraphOf(<< <<3, 5>>, <<4>>, <<2, 4>>, <<1>>, << >> >>)}

LiveGraphs == GraphsOf3 \cup Nests \cup Branches \cup LinkedBackwards(Branches)

(* A loop whose body is a condition with two branches.                       *)
BranchInLoop == {GraphOf(<< <<2, 6>>, <<3, 4>>, <<5>>, <<5>>, <<1>>, << >> >>)}

(* The search, the tree and the loops of graphs of four nodes, and of nests  *)
(* linked in the other order, need no programs to choose from.               *)
AllGraphs == LiveGraphs \cup ConnectedOf4 \cup LinkedBackwards(Nests)

AllPrograms(g) ==
    VoidReturns(g) \cup IF g \in LiveGraphs THEN WithoutPhi(g) \cup WithPhi(g) ELSE {}
=============================================================================
