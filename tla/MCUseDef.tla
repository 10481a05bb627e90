------------------------------ MODULE MCUseDef ------------------------------
(* Small instances of UseDef for TLC.                                        *)
EXTENDS UseDef, TLC

(* Instructions differ by their kind only.                                   *)
Symmetry == Permutations(Insts)
=============================================================================
