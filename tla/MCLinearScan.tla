---------------------------- MODULE MCLinearScan ----------------------------
(* Small instances of LinearScan for TLC.                                    *)
EXTENDS LinearScan

CONSTANTS v1, v2, v3, v4

FourVals == {v1, v2, v3, v4}
UpTo3 == 0 .. 3
=============================================================================
