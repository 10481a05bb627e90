--------------------------- MODULE MCLoopAnalyzer ---------------------------
(* Small instances of LoopAnalyzer for TLC.                                  *)
EXTENDS LoopAnalyzer

SixNodes == 1 .. 6

SuccLists(N) == {<< >>} \cup {<<a>> : a \in N} \cup {<<a, b>> : a, b \in N}

(* The graph of six nodes with the lists s, nothing leading to the rest; the *)
(* nodes linked in the order of their ids, or the other way around.          *)
GraphOf(s) ==
    [entry |-> 1, succ |-> s \o [i \in 1 .. 6 - Len(s) |-> << >>], linked |-> [k \in 1 .. 6 |-> k]]
LinkedBackwards(gs) == {[g EXCEPT !.linked = Reverse(@)] : g \in gs}

(* Graphs of four nodes, none its own successor, in which every node but the *)
(* entry has an edge from a smaller one: up to renaming, all that are        *)
(* reachable throughout.                                                     *)
ConnectedOf4 ==
    {GraphOf(s) : s \in {f \in [1 .. 4 -> {l \in SuccLists(1 .. 4) : IsInjective(l)}] :
        /\ \A n \in 1 .. 4 : n \notin ToSet(f[n])
        /\ \A n \in 2 .. 4 : \E m \in 1 .. n - 1 : n \in ToSet(f[m])}}

(* Every graph of three nodes, beside others nothing leads to: predecessors  *)
(* that the search does not reach, parallel edges.                           *)
GraphsOf3 == {GraphOf(s) : s \in [1 .. 3 -> SuccLists(1 .. 3)]}

(* A loop with two inner loops one behind the other; three loops in each     *)
(* other; a loop whose body branches and meets again.                        *)
Nests ==
    {GraphOf(<< <<2>>, <<3>>, <<2, 4>>, <<5>>, <<4, 6>>, <<1>> >>),
     GraphOf(<< <<2>>, <<3>>, <<4>>, <<3, 5>>, <<2, 6>>, <<1>> >>),
     GraphOf(<< <<2, 6>>, <<3, 4>>, <<5>>, <<5>>, <<1>>, << >> >>)}

=============================================================================
