------------------------------ MODULE PeepHole ------------------------------
(* PeepHole of include/opt/peephole.hh over one block: the rules for add,    *)
(* shr and or, tried once on every binary operation.                         *)
EXTENDS BlockCode

CollectCandidates == Collect("peephole", {i \in ToSet(block) : oper[i] \in BinOps})

Candidate == Head(todo)
At(s) == Visiting("peephole", s) /\ todo # << >>
Left == inputs[Candidate][1]
Right == inputs[Candidate][2]

ConstOnLeft ==
    oper[Candidate] \in {"add", "or"} /\ IsConst(Left) /\ ~IsConst(Right)

(* doBinFold: nothing to do without users; the constant of add and or is     *)
(* moved to the right.                                                       *)
SkipUnused ==
    /\ At("visit") /\ users[Candidate] = {}
    /\ NextVisit
    /\ UNCHANGED <<vars, codeVars, passes, fresh, old, outcome, departs>>

TrySwap ==
    /\ At("visit") /\ users[Candidate] # {}
    /\ step' = "rules"
    /\ IF ConstOnLeft THEN SwapInputs(Candidate, 1, 2) ELSE UNCHANGED vars
    /\ UNCHANGED <<codeVars, passes, todo, fresh, old, outcome, departs>>

(* checkForVal for 0 and for -1, which is true for a bool.                   *)
RightIs(n) == IsConst(Right) /\ val[Right] = Narrow(type[Right], n)

IdentityRule == oper[Candidate] \in {"add", "shr", "or"} /\ RightIs(0)
AllOnesRule == oper[Candidate] = "or" /\ ~RightIs(0) /\ RightIs(-1)

(* Mutant: the number of users of the first shift is not looked at.          *)
TwoShiftsRuleAnyUsers ==
    /\ oper[Candidate] = "shr" /\ IsConst(Right) /\ ~RightIs(0)
    /\ oper[Left] = "shr" /\ IsConst(inputs[Left][2])

(* shr (shr v0, const_1), const_2 where nothing else uses the inner shift.   *)
TwoShiftsRule ==
    /\ oper[Candidate] = "shr" /\ IsConst(Right) /\ ~RightIs(0)
    /\ oper[Left] = "shr" /\ Cardinality(users[Left]) <= 1
    /\ IsConst(inputs[Left][2])

NoRule ==
    /\ At("rules") /\ ~IdentityRule /\ ~AllOnesRule /\ ~TwoShiftsRule
    /\ NextVisit
    /\ UNCHANGED <<vars, codeVars, passes, fresh, old, outcome, departs>>

(* The other operand, or the constant, takes over the users.                 *)
TakeOver ==
    /\ At("rules") /\ (IdentityRule \/ AllOnesRule)
    /\ SetUsersFrom(IF IdentityRule THEN Left ELSE Right, Candidate)
    /\ step' = "remove"
    /\ UNCHANGED <<codeVars, passes, todo, fresh, old, outcome, departs>>

(* removeInst, through the block the instruction believes to be in.          *)
RemoveCandidate ==
    /\ At("remove")
    /\ IF ClearAsserts(Candidate) /\ Candidate \notin placed
       THEN /\ outcome' = "crashed"
            /\ UNCHANGED <<vars, block, placed, todo, step>>
       ELSE /\ RemoveInst(Candidate)
            /\ IF ClearAsserts(Candidate)
               THEN /\ block' = Selected(block, Insts \ {Candidate})
                    /\ placed' = placed \ {Candidate}
                    /\ NextVisit
               ELSE UNCHANGED <<block, placed, todo, step>>
            /\ UNCHANGED outcome
    /\ UNCHANGED <<oper, type, val, meant, passes, fresh, old, departs>>

(* The rule loses the meaning if the sum of the amounts is out of range, and *)
(* if the second amount stands behind the place of the sum.                  *)
Losses(amount1, amount2) ==
    LET t == type[amount2]
        Position(i) == CHOOSE k \in DOMAIN block : block[k] = i
    IN  (IF ShiftThrows(t, Narrow(t, val[amount1] + val[amount2])) THEN {"amount"} ELSE {})
        \cup (IF Position(amount2) > Position(Left) THEN {"order"} ELSE {})

(* The sum of the amounts is made; the outer shift takes the operand of the  *)
(* inner one and the sum; the sum will take the place of the inner one.      *)
MakeSum ==
    /\ At("rules") /\ TwoShiftsRule
    /\ LET amount1 == inputs[Left][2] IN
       /\ NewOp(FreeInst, <<amount1, Right>>)
       /\ oper' = [oper EXCEPT ![FreeInst] = "add"]
       /\ type' = [type EXCEPT ![FreeInst] = type[Right]]
       /\ departs' = departs \cup Losses(amount1, Right)
    /\ fresh' = FreeInst /\ old' = Left
    /\ step' = "operand"
    /\ UNCHANGED <<block, val, placed, meant, passes, todo, outcome>>

TakeOperand ==
    /\ At("operand")
    /\ SetInput(Candidate, 1, inputs[old][1])
    /\ step' = "amount"
    /\ UNCHANGED <<codeVars, passes, todo, fresh, old, outcome, departs>>

TakeSum ==
    /\ At("amount")
    /\ SetInput(Candidate, 2, fresh)
    /\ step' = "put"
    /\ UNCHANGED <<codeVars, passes, todo, fresh, old, outcome, departs>>

PeepHoleNext ==
    \/ CollectCandidates \/ SkipUnused \/ TrySwap \/ NoRule \/ TakeOver \/ RemoveCandidate
    \/ MakeSum \/ TakeOperand \/ TakeSum
    \/ PutInPlace("peephole") \/ EndPass("peephole")
=============================================================================
