------------------------ MODULE MCChecksElimination -------------------------
(* Small instances of ChecksElimination for TLC.                             *)
EXTENDS ChecksElimination

FourNodes == 1 .. 4
SixNodes == 1 .. 6
GraphOf(N, s) ==
    [entry |-> 1, succ |-> [n \in N |-> IF n \in DOMAIN s THEN s[n] ELSE << >>],
     linked |-> [k \in N |-> k]]

(* A condition that meets again, one that does not, a loop with an exit, a   *)
(* loop with a condition in its body, and a block nothing leads to.          *)
CheckGraphs ==
    {GraphOf(FourNodes, s) :
        s \in {<< <<2, 3>>, <<4>>, <<4>> >>, << <<2, 3>>, <<4>> >>, << <<2>>, <<3, 4>>, <<2>> >>,
               << <<2>>, <<3, 4>>, <<4>>, <<1>> >>, << <<2>>, <<4>>, << >> >>}}

Zero(v) == [oper |-> "zero", input |-> v]
Bounds(v, b) == [oper |-> "bounds", input |-> v, bound |-> b]

(* c1, c2, c3 are in the blocks p, in the order of their numbers.            *)
Placed(N, cs, p) ==
    [checks |-> cs,
     code |-> [b \in N |-> SelectSeq([i \in DOMAIN cs |-> i], LAMBDA i : p[i] = b)]]

SomeChecks == {Zero("x"), Zero("y"), Bounds("x", "y"), Bounds("y", "x"), Bounds("x", "x")}

(* Three checks, not all different or one with the value as its own bound,   *)
(* numbered in the order of their blocks.                                    *)
AllPlacements(g) ==
    {Placed(FourNodes, cs, p) :
        cs \in {f \in [1 .. 3 -> SomeChecks] : ~IsInjective(f) \/ Bounds("x", "x") \in ToSet(f)},
        p \in {q \in [1 .. 3 -> FourNodes] : q[1] <= q[2] /\ q[2] <= q[3]}}

(* A chain of conditions, each of which may skip the next, with a check in   *)
(* two of its blocks.                                                        *)
SkippedConditions == {GraphOf(SixNodes, << <<2>>, <<3, 4>>, <<4, 5>>, <<5, 6>>, <<6>>, << >> >>)}
TwoZeroChecks(g) ==
    {Placed(SixNodes, [i \in 1 .. 2 |-> Zero("x")], p) : p \in [1 .. 2 -> SixNodes]}
=============================================================================
