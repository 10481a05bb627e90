-------------------------- MODULE MCIntrusiveList ---------------------------
(* Small instances of IntrusiveList for TLC.                                 *)
EXTENDS IntrusiveList

CONSTANTS l1, l2, n1, n2, n3, n4

TwoLists == {l1, l2}
FourNodes == {n1, n2, n3, n4}
=============================================================================
