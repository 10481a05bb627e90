------------------------------ MODULE ListSpec ------------------------------
(* What the intrusive list promises: every list is a sequence of nodes, a    *)
(* node is in at most one place of one list, and the operations are those of *)
(* sequences.  Removed nodes stay with the caller, erased ones are freed.    *)
EXTENDS Integers, SequencesExt

CONSTANTS Lists, Nodes

VARIABLES lists,           \* the sequence each list holds
          loose            \* allocated nodes that are in no list

Init == lists = [l \in Lists |-> << >>] /\ loose = {}

Held == UNION {ToSet(lists[l]) : l \in Lists}

(* n, a new node or a loose one, becomes the element of index i of l.        *)
Insert(l, i, n) ==
    /\ n \notin Held
    /\ lists' = [lists EXCEPT ![l] = InsertAt(@, i, n)]
    /\ loose' = loose \ {n}

TakeOut(l, i) ==
    /\ lists' = [lists EXCEPT ![l] = RemoveAt(@, i)]
    /\ loose' = loose \cup {lists[l][i]}

Erase(l, i) ==
    /\ lists' = [lists EXCEPT ![l] = RemoveAt(@, i)]
    /\ UNCHANGED loose

(* The elements i .. j of m go, in their order, behind the first k elements  *)
(* that l holds without them.                                                *)
Splice(l, k, m, i, j) ==
    LET moved == SubSeq(lists[m], i, j)
        rest == [lists EXCEPT ![m] = SubSeq(@, 1, i - 1) \o SubSeq(@, j + 1, Len(@))]
    IN  /\ k <= Len(rest[l])
        /\ lists' = [rest EXCEPT ![l] = SubSeq(@, 1, k) \o moved \o SubSeq(@, k + 1, Len(@))]
        /\ UNCHANGED loose

Next ==
    \/ \E l \in Lists : \E n \in Nodes : \E i \in 1 .. Len(lists[l]) + 1 : Insert(l, i, n)
    \/ \E l \in Lists : \E i \in DOMAIN lists[l] : TakeOut(l, i) \/ Erase(l, i)
    \/ \E l, m \in Lists : \E i, j \in DOMAIN lists[m] :
          \E k \in 0 .. Len(lists[l]) : i <= j /\ Splice(l, k, m, i, j)

Spec == Init /\ [][Next]_<<lists, loose>>
=============================================================================
