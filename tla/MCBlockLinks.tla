---------------------------- MODULE MCBlockLinks ----------------------------
(* Small instances of BlockLinks for TLC.                                    *)
EXTENDS BlockLinks, TLC

(* Nothing tells the addresses of blocks apart.                              *)
Symmetry == Permutations(BBs)
=============================================================================
