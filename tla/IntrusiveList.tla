--------------------------- MODULE IntrusiveList ----------------------------
(* IListNode, IListSentinel, IListBase and IListImpl of                      *)
(* include/intrusive_list/intrusive_list.hh: circular doubly linked lists    *)
(* whose links live in the nodes.  A list is named by its sentinel.          *)
EXTENDS Integers, FiniteSets, SequencesExt

CONSTANTS Lists,           \* the sentinels
          Nodes,           \* the addresses nodes are allocated at
          Null             \* nullptr

Cells == Lists \cup Nodes

ASSUME CellsAssumption ==
    IsFiniteSet(Nodes) /\ Lists \cap Nodes = {} /\ Null \notin Cells

VARIABLES
    next, prev,            \* m_next and m_prev of every cell
    alive,                 \* the nodes that are allocated
    task                   \* the erase loop that is running

vars == <<next, prev, alive, task>>

(* erase(first, last) is a loop; clear and the move assignment contain it.   *)
(* into and from are the lists of the move assignment that called it.        *)
Idle == [op |-> "none", first |-> Null, last |-> Null, into |-> Null, from |-> Null]
EraseRange(f, l) == [op |-> "erase", first |-> f, last |-> l, into |-> Null, from |-> Null]
AssignTask(l, m) == [op |-> "assign", first |-> next[l], last |-> l, into |-> l, from |-> m]

Init ==
    /\ next = [c \in Cells |-> IF c \in Lists THEN c ELSE Null]
    /\ prev = [c \in Cells |-> IF c \in Lists THEN c ELSE Null]
    /\ alive = {}
    /\ task = Idle

Linked(c) == next[c] # Null

(* The cells that a walk by operator++ from first visits before it reaches   *)
(* last; a walk that never does is cut off.                                  *)
Path(first, last) ==
    LET bound == Cardinality(Nodes) + 1
        at[k \in 0 .. bound] ==
          IF k = 0 THEN first
          ELSE LET c == at[k - 1] IN IF c = Null THEN Null ELSE next[c]
        stops == {k \in 0 .. bound : at[k] \in {last, Null}}
    IN  [k \in 1 .. Min(stops \cup {bound}) |-> at[k - 1]]

(* [first, last) is a range of nodes of one list.                            *)
IsRange(first, last) ==
    LET path == Path(first, last)
    IN  /\ Linked(first) /\ ToSet(path) \subseteq Nodes
        /\ first # last => next[Last(path)] = last

(* The nodes of list l, from begin() to end().                               *)
Elements(l) == Path(next[l], l)

(* An EXCEPT at Null changes nothing: the test prev != nullptr.              *)
InsertBefore(point, n) ==
    /\ next' = [next EXCEPT ![prev[point]] = n, ![n] = point]
    /\ prev' = [prev EXCEPT ![n] = prev[point], ![point] = n]

(* IListBase::remove.                                                        *)
Unlink(n) ==
    /\ prev' = [prev EXCEPT ![next[n]] = prev[n], ![n] = Null]
    /\ next' = [next EXCEPT ![prev[n]] = next[n], ![n] = Null]

(* Mutant: the range is taken to include last.                               *)
MoveBeforeInclusive(point, first, last) ==
    LET prev1 == [prev EXCEPT ![next[last]] = prev[first]]
        next1 == [next EXCEPT ![prev[first]] = next[last]]
    IN  /\ prev' = [prev1 EXCEPT ![point] = last, ![first] = prev1[point]]
        /\ next' = [next1 EXCEPT ![prev1[point]] = first, ![last] = point]

(* Mutant: the gap the range leaves is closed in one direction only.         *)
MoveBeforeHalf(point, first, last) ==
    LET next1 == [next EXCEPT ![prev[first]] = last]
    IN  /\ prev' = [prev EXCEPT ![point] = prev[last], ![first] = prev[point]]
        /\ next' = [next1 EXCEPT ![prev[point]] = first, ![prev[last]] = point]

(* moveBefore where point # first: the assertion has passed.                 *)
MoveBefore(point, first, last) ==
    IF last = point \/ first = last
    THEN UNCHANGED <<next, prev>>
    ELSE LET lastToIns == prev[last]
             prev1 == [prev EXCEPT ![last] = prev[first]]
             next1 == [next EXCEPT ![prev[first]] = last]
         IN  /\ prev' = [prev1 EXCEPT ![point] = lastToIns, ![first] = prev1[point]]
             /\ next' = [next1 EXCEPT ![prev1[point]] = first, ![lastToIns] = point]

(* An assertion fails: the process ends.                                   *)
Abort == task' = [Idle EXCEPT !.op = "abort"] /\ UNCHANGED <<next, prev, alive>>

SpliceOrAbort(point, first, last) ==
    IF point = first
    THEN Abort
    ELSE MoveBefore(point, first, last) /\ task' = Idle /\ UNCHANGED alive

-----------------------------------------------------------------------------
(* emplaceToList: a new node goes before pos.                                *)
Emplace(n, pos) ==
    /\ task = Idle
    /\ n \notin alive
    /\ Linked(pos)
    /\ InsertBefore(pos, n)
    /\ alive' = alive \cup {n}
    /\ UNCHANGED task

(* insert of a node the caller holds, one that was removed before.           *)
Insert(n, pos) ==
    /\ task = Idle
    /\ n \in alive /\ ~Linked(n)
    /\ Linked(pos)
    /\ InsertBefore(pos, n)
    /\ UNCHANGED <<alive, task>>

(* remove: the node stays allocated.                                         *)
RemoveNode(n) ==
    /\ task = Idle
    /\ n \in Nodes /\ Linked(n)
    /\ Unlink(n)
    /\ UNCHANGED <<alive, task>>

(* erase of one node.                                                        *)
Erase(n) ==
    /\ task = Idle
    /\ n \in Nodes /\ Linked(n)
    /\ Unlink(n)
    /\ alive' = alive \ {n}
    /\ UNCHANGED task

(* erase(first, last); clear, and so the destructor, is the range that the   *)
(* whole list is.                                                            *)
StartErase(first, last) ==
    /\ task = Idle
    /\ IsRange(first, last)
    /\ task' = EraseRange(first, last)
    /\ UNCHANGED <<next, prev, alive>>

(* operator=(IListImpl &&): clear, then splice(end(), that).                 *)
StartAssign(l, m) ==
    /\ task = Idle
    /\ task' = AssignTask(l, m)
    /\ UNCHANGED <<next, prev, alive>>

(* Mutant: the iterator is advanced after the node has been removed.         *)
EraseStepLate ==
    /\ task.op \in {"erase", "assign"}
    /\ task.first # task.last
    /\ Unlink(task.first)
    /\ alive' = alive \ {task.first}
    /\ task' = [task EXCEPT !.first = next'[task.first]]

(* Mutant: the iterator is not advanced.                                     *)
EraseStepStuck ==
    /\ task.op \in {"erase", "assign"}
    /\ task.first # task.last
    /\ Unlink(task.first)
    /\ alive' = alive \ {task.first}
    /\ UNCHANGED task

(* An iteration of erase(first, last): end() is never erased, and pos++      *)
(* reads the link before remove clears it.                                   *)
EraseStep ==
    /\ task.op \in {"erase", "assign"}
    /\ task.first # task.last
    /\ IF task.first \in Lists
       THEN Abort
       ELSE /\ Unlink(task.first)
            /\ alive' = alive \ {task.first}
            /\ task' = [task EXCEPT !.first = next[task.first]]

EraseReturn ==
    /\ task.op = "erase"
    /\ task.first = task.last
    /\ task' = Idle
    /\ UNCHANGED <<next, prev, alive>>

(* The splice that ends the move assignment: begin() of an empty from is its *)
(* end(), and the end() of into itself when the two lists are one.           *)
AssignReturn ==
    /\ task.op = "assign"
    /\ task.first = task.last
    /\ SpliceOrAbort(task.into, next[task.from], task.from)

(* splice(pos, first, last), and with it its two shorter forms: the range is *)
(* one of some list and pos is not behind its first cell.                    *)
Splice(pos, first, last) ==
    /\ task = Idle
    /\ Linked(pos)
    /\ IsRange(first, last)
    /\ pos \notin ToSet(Path(first, last)) \ {first}
    /\ SpliceOrAbort(pos, first, last)

Next ==
    \/ \E n \in Nodes : \E pos \in Cells : Emplace(n, pos) \/ Insert(n, pos)
    \/ \E n \in Nodes : RemoveNode(n) \/ Erase(n)
    \/ \E first, last \in Cells : StartErase(first, last)
    \/ \E l, m \in Lists : StartAssign(l, m)
    \/ EraseStep \/ EraseReturn \/ AssignReturn
    \/ \E pos, first, last \in Cells : Splice(pos, first, last)

Spec == Init /\ [][Next]_vars

(* A loop that was entered goes on; nothing forces a caller to call.         *)
FairSpec == Spec /\ WF_vars(EraseStep \/ EraseReturn \/ AssignReturn)

-----------------------------------------------------------------------------
(* The type invariant.                                                       *)
TypeOK ==
    /\ next \in [Cells -> Cells \cup {Null}]
    /\ prev \in [Cells -> Cells \cup {Null}]
    /\ alive \subseteq Nodes
    /\ task \in [op : {"none", "erase", "assign", "abort"}, first : Cells \cup {Null},
                 last : Cells \cup {Null}, into : Lists \cup {Null}, from : Lists \cup {Null}]
    /\ task.op \in {"erase", "assign"} => task.first \in Cells /\ task.last \in Cells

(* m_next and m_prev are inverse to each other on the cells in use, and no   *)
(* link leads to a node that is in no list or has been freed.                *)
LinksInverse ==
    /\ \A c \in Cells : Linked(c) => /\ next[c] \in Lists \cup alive /\ prev[next[c]] = c
                                     /\ prev[c] \in Lists \cup alive /\ next[prev[c]] = c
    /\ \A c \in Cells : ~Linked(c) => prev[c] = Null
    /\ \A c \in Cells : Linked(c) => c \in Lists \cup alive

(* The links are those of lists, and every node in use is in exactly one,    *)
(* once: splicing neither loses nodes nor closes a cycle outside the         *)
(* sentinels.                                                                *)
ListsPartitionNodes ==
    /\ LinksInverse
    /\ \A n \in Nodes : Linked(n) =>
          \E l \in Lists : /\ n \in ToSet(Elements(l))
                            /\ IsInjective(Elements(l))
                            /\ \A m \in Lists \ {l} : n \notin ToSet(Elements(m))

(* Every erase loop reaches its end or, in a self assignment, the assertion. *)
LoopsTerminate == (task.op \in {"erase", "assign"}) ~> (task.op \in {"none", "abort"})

(* The pointers implement sequences.                                         *)
Seqs == INSTANCE ListSpec WITH
    lists <- [l \in Lists |-> Elements(l)],
    loose <- {n \in alive : ~Linked(n)}

ListSpecImplemented == Seqs!Spec
=============================================================================
