---------------------------- MODULE LocalPasses -----------------------------
(* The local optimizations run one after the other over one block, in the    *)
(* orders the programs name.  Both see what the other left.                  *)
EXTENDS ConstantFolding, PeepHole

Stopped == ~Running /\ UNCHANGED allVars

PassesNext == FoldingNext \/ PeepHoleNext \/ Stopped

PassesSpec == CodeInit /\ [][PassesNext]_allVars

-----------------------------------------------------------------------------
(* Between two visits.                                                       *)
Settled == ~aborted /\ step \in {"start", "visit"}

(* The type invariant.                                                       *)
PassesTypeOK ==
    /\ TypeOK
    /\ block \in Seq(Insts) /\ placed \subseteq Insts
    /\ \A i \in Alive : oper[i] \in BinOps \cup {"const", "param", "ret", "cast"}
    /\ \A i \in Alive : IsConst(i) => val[i] \in Values(type[i])
    /\ step \in {"start", "visit", "put", "rules", "remove", "operand", "amount"}
    /\ {fresh, old} \subseteq Insts \cup {None}
    /\ outcome \in {"run", "done", "thrown", "crashed"}
    /\ departs \subseteq {"cast", "amount", "order"}

(* Whatever the passes have done to the block, also when an exception has    *)
(* left one in the middle, it returns what it returned before, as far as     *)
(* that was defined; but for the three rewritings that departs records.      *)
MeaningKept ==
    Settled /\ departs = {} =>
        \A arg \in DOMAIN Meaning : meant[arg] \in {None, Meaning[arg]}

(* The list of the block has exactly the instructions that were neither      *)
(* freed nor are about to be inserted, each once, though links and list are  *)
(* changed in separate calls; and no visit frees an instruction that is left *)
(* to be visited.                                                            *)
BlockHoldsAlive ==
    /\ ToSet(block) = Alive \ {fresh} /\ IsInjective(block)
    /\ ToSet(todo) \subseteq ToSet(block)

(* An exception is due to a shift by more than the bits of the value, a      *)
(* failed assertion to a division, to operands of two types or to an         *)
(* instruction with one value twice; and the first pass over a block never   *)
(* asks an instruction for a block it does not have.                         *)
StopsHaveReasons ==
    /\ outcome = "thrown" =>
          LET shift == Head(todo)
              amount == inputs[shift][2]
          IN  oper[shift] = "shr" /\ val[amount] \notin 0 .. Digits(type[inputs[shift][1]]) - 1
    /\ aborted => \E i \in Alive :
          \/ ~ClearAsserts(i)
          \/ oper[i] = "div" \/ (oper[i] \in BinOps /\ type[inputs[i][1]] # type[inputs[i][2]])
    /\ outcome = "crashed" => \A p \in Programs : Len(passes) < Len(p.passes)
=============================================================================
