-------------------------- MODULE ConstantFolding ---------------------------
(* ConstantFolding of include/opt/constant_folding.hh over one block: the    *)
(* instructions on constants are collected, then each is evaluated and       *)
(* replaced by a constant.                                                   *)
EXTENDS BlockCode

Foldable(i) == oper[i] \in BinOps \cup {"cast"} /\ \A v \in InputSet(i) : IsConst(v)

(* castEval reads the constant of type s as if it were one of the type t of  *)
(* the cast: the bytes behind a narrower one may hold anything, and so may a *)
(* bool made of another byte than 0 and 1.                                   *)
StoredBits(t) == IF t = "I1" THEN Bits["I8"] ELSE Bits[t]
CastEval(t, s, a) ==
    IF t = "I1"
    THEN LET byte == a % TwoTo(Bits["I8"]) IN IF byte \in {0, 1} THEN {byte} ELSE {0, 1}
    ELSE LET known == TwoTo(Min({StoredBits(s), Bits[t]}))
         IN  {v \in Values(t) : v % known = a % known}

(* The values a folded i may get.                                            *)
Folded(i) ==
    LET lhs == inputs[i][1] IN
    IF oper[i] = "cast" THEN CastEval(type[i], type[lhs], val[lhs])
    ELSE {BinEval(oper[i], type[lhs], val[lhs], val[inputs[i][2]])}

(* The assertion that both sides have one type, and the operations for which *)
(* binEval has no case.                                                      *)
FoldAborts(i) ==
    /\ oper[i] # "cast"
    /\ oper[i] = "div" \/ type[inputs[i][1]] # type[inputs[i][2]]

(* Mutant: the last amount in range throws too.                              *)
FoldThrowsEarly(i) ==
    oper[i] = "shr" /\ ShiftThrows(type[inputs[i][1]], val[inputs[i][2]] + 1)

FoldThrows(i) == oper[i] = "shr" /\ ShiftThrows(type[inputs[i][1]], val[inputs[i][2]])

CollectFoldable == Collect("fold", {i \in ToSet(block) : Foldable(i)})

FoldAbort ==
    /\ Visiting("fold", "visit") /\ todo # << >>
    /\ FoldAborts(Head(todo))
    /\ Abort
    /\ UNCHANGED <<codeVars, passVars>>

(* ArithmeticError leaves run in the middle.                                 *)
FoldThrow ==
    /\ Visiting("fold", "visit") /\ todo # << >>
    /\ ~FoldAborts(Head(todo)) /\ FoldThrows(Head(todo))
    /\ outcome' = "thrown"
    /\ UNCHANGED <<vars, codeVars, passes, todo, step, fresh, old, departs>>

(* fold: the constant is made.  It belongs to no block.                      *)
Fold ==
    /\ Visiting("fold", "visit") /\ todo # << >>
    /\ LET i == Head(todo) IN
       /\ ~FoldAborts(i) /\ ~FoldThrows(i)
       /\ NewOp(FreeInst, << >>)
       /\ fresh' = FreeInst /\ old' = i
       /\ \E v \in Folded(i) :
             /\ val' = [val EXCEPT ![FreeInst] = v]
             /\ departs' = IF oper[i] = "cast" /\ v # Narrow(type[i], val[inputs[i][1]])
                           THEN departs \cup {"cast"} ELSE departs
       /\ oper' = [oper EXCEPT ![FreeInst] = "const"]
       /\ type' = [type EXCEPT ![FreeInst] = IF oper[i] = "cast" THEN type[i]
                                             ELSE type[inputs[i][1]]]
    /\ step' = "put"
    /\ UNCHANGED <<block, placed, meant, passes, todo, outcome>>

FoldingNext ==
    CollectFoldable \/ FoldAbort \/ FoldThrow \/ Fold \/ PutInPlace("fold") \/ EndPass("fold")
=============================================================================
