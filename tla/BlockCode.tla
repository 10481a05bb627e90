----------------------------- MODULE BlockCode ------------------------------
(* A basic block with the instructions the local optimizations look at, and  *)
(* what running it yields.  The inputs and users of the instructions are     *)
(* those of UseDef; the optimizations change them by its actions only.       *)
EXTENDS UseDef, Selection, SequencesExt, FiniteSetsExt

CONSTANTS Programs,        \* the blocks to optimize
          Bits,            \* the width of each type of include/ir/inst.hh
          None             \* neither a value nor an instruction

Types == DOMAIN Bits
BinOps == {"add", "sub", "mul", "le", "eq", "shr", "or", "div"}

ASSUME BitsAssumption ==
    /\ {"I1", "I8"} \subseteq Types /\ Bits["I1"] = 1
    /\ \A t \in Types \ {"I1"} : Bits[t] \in Nat /\ Bits[t] >= Bits["I8"] /\ Bits["I8"] > 1

VARIABLES
    block,                 \* m_instructions
    oper, type, val,       \* of every instruction; val of a constant
    placed,                \* the instructions whose m_bb is the block
    passes,                \* the passes yet to run
    todo,                  \* m_toFold and m_candidates: what the pass will visit
    step,                  \* where the visit of the first of todo is
    fresh, old,            \* the instruction made in it, and whose place it will take
    outcome,               \* "run", "done", "thrown" or "crashed"
    meant,                 \* history: what the block returned before the passes
    departs                \* history: which rewritings lost that

codeVars == <<block, oper, type, val, placed, meant>>
passVars == <<passes, todo, step, fresh, old, outcome, departs>>
allVars == <<vars, codeVars, passVars>>

(* 2 ^ n, by doubling: the provers know nothing of exponents.                *)
TwoTo(n) ==
    LET power[k \in 0 .. n] == IF k = 0 THEN 1 ELSE 2 * power[k - 1]
    IN  power[n]

(* The numbers a type has; static_cast to it.                                *)
Values(t) == IF t = "I1" THEN {0, 1} ELSE -TwoTo(Bits[t] - 1) .. TwoTo(Bits[t] - 1) - 1

(* Mutant: the value is left as it is.                                       *)
NarrowNot(t, n) == n

Narrow(t, n) ==
    IF t = "I1" THEN IF n = 0 THEN 0 ELSE 1
    ELSE ((n + TwoTo(Bits[t] - 1)) % TwoTo(Bits[t])) - TwoTo(Bits[t] - 1)

(* std::numeric_limits<T>::digits.                                           *)
Digits(t) == IF t = "I1" THEN 1 ELSE Bits[t] - 1

Bit(n, k) == (n \div TwoTo(k)) % 2
Or(t, a, b) ==
    LET bits[k \in 0 .. Bits[t]] ==
          IF k = 0 THEN 0
          ELSE bits[k - 1] + IF 1 \in {Bit(a, k - 1), Bit(b, k - 1)} THEN TwoTo(k - 1) ELSE 0
    IN  Narrow(t, bits[Bits[t]])

ShiftThrows(t, amount) == amount < 0 \/ amount >= Digits(t)

(* binEval: numbers are promoted, combined, and cast back to the type.       *)
BinEval(o, t, a, b) ==
    CASE o = "add" -> Narrow(t, a + b)
      [] o = "sub" -> Narrow(t, a - b)
      [] o = "mul" -> Narrow(t, a * b)
      [] o = "le" -> IF a < b THEN 1 ELSE 0
      [] o = "eq" -> IF a = b THEN 1 ELSE 0
      [] o = "shr" -> IF ShiftThrows(t, b) THEN None ELSE a \div TwoTo(b)
      [] o = "or" -> Or(t, a, b)
      [] o = "div" -> IF b = 0 THEN None ELSE Narrow(t, a \div b)

(* What i yields when its inputs have the values of env and the parameter    *)
(* is arg: None if an input has not been computed or a shift is out of range.*)
ValueOf(i, env, arg) ==
    IF None \in {env[v] : v \in InputSet(i)} THEN None
    ELSE CASE oper[i] = "const" -> val[i]
           [] oper[i] = "param" -> arg
           [] oper[i] = "ret" -> env[inputs[i][1]]
           [] oper[i] = "cast" -> Narrow(type[i], env[inputs[i][1]])
           [] oper[i] \in BinOps ->
                BinEval(oper[i], type[inputs[i][1]], env[inputs[i][1]], env[inputs[i][2]])

(* What the block returns for each value of its parameter, its instructions  *)
(* run in their order.                                                       *)
Meaning ==
    [arg \in Values("I64") |->
       LET env == FoldLeft(LAMBDA e, i : [e EXCEPT ![i] = ValueOf(i, e, arg)],
                           [i \in Insts |-> None], block)
       IN  env[Last(block)]]

(* A block whose instructions have what their kinds ask for and come behind  *)
(* their inputs, with an address left for a new one, and the passes over it. *)
Arity(o) == IF o \in BinOps THEN 2 ELSE IF o \in {"ret", "cast"} THEN 1 ELSE 0

WellFormed(p) ==
    /\ p.order \in Seq(Insts) /\ IsInjective(p.order) /\ ToSet(p.order) # Insts
    /\ DOMAIN p.oper = Insts /\ DOMAIN p.type = Insts /\ DOMAIN p.val = Insts
    /\ p.inputs \in [Insts -> Seq(Insts)]
    /\ \A i \in Insts \ ToSet(p.order) : p.inputs[i] = << >>
    /\ \A k \in DOMAIN p.order :
          LET i == p.order[k] IN
          /\ p.oper[i] \in BinOps \cup {"const", "param", "ret", "cast"}
          /\ p.type[i] \in Types
          /\ p.oper[i] = "const" => p.val[i] \in Values(p.type[i])
          /\ Len(p.inputs[i]) = Arity(p.oper[i]) /\ Arity(p.oper[i]) <= MaxInputs
          /\ \A j \in DOMAIN p.inputs[i] : \E l \in 1 .. k - 1 : p.order[l] = p.inputs[i][j]
    /\ p.passes \in Seq({"fold", "peephole"}) /\ p.passes # << >>

ASSUME ProgramsAssumption ==
    /\ None \notin Insts
    /\ \A p \in Programs : WellFormed(p)
    /\ \A m, n \in {Len(p.passes) : p \in Programs} : m = n

CodeInit ==
    /\ \E p \in Programs :
          /\ block = p.order /\ oper = p.oper /\ type = p.type /\ val = p.val
          /\ inputs = p.inputs /\ passes = p.passes
    /\ placed = ToSet(block)
    /\ kind = [i \in Insts |-> IF i \in ToSet(block) THEN "op" ELSE "dead"]
    /\ users = [v \in Insts |-> {i \in Insts : \E k \in DOMAIN inputs[i] : inputs[i][k] = v}]
    /\ entries = [i \in Insts |-> << >>]
    /\ aborted = FALSE
    /\ todo = << >> /\ step = "start" /\ fresh = None /\ old = None
    /\ outcome = "run" /\ departs = {}
    /\ meant = Meaning

IsConst(i) == oper[i] = "const"
Running == outcome = "run" /\ ~aborted
Visiting(pass, s) == Running /\ step = s /\ passes # << >> /\ Head(passes) = pass

(* An address operator new may return.                                       *)
FreeInst == CHOOSE i \in Insts : kind[i] = "dead"

(* A pass begins: findFoldable, findCandidates.                              *)
Collect(pass, wanted) ==
    /\ Visiting(pass, "start")
    /\ todo' = Selected(block, wanted)
    /\ step' = "visit"
    /\ UNCHANGED <<vars, codeVars, passes, fresh, old, outcome, departs>>

(* A pass has visited every instruction it collected.                        *)
EndPass(pass) ==
    /\ Visiting(pass, "visit") /\ todo = << >>
    /\ passes' = Tail(passes)
    /\ step' = "start"
    /\ outcome' = IF Len(passes) = 1 THEN "done" ELSE outcome
    /\ UNCHANGED <<vars, codeVars, todo, fresh, old, departs>>

(* The visit of the first of todo is over.                                   *)
NextVisit == todo' = Tail(todo) /\ step' = "visit"

(* Mutant: what is replaced stays in the list.                               *)
InPlaceBeside(i, new) ==
    FlattenSeq([k \in DOMAIN block |-> IF block[k] = i THEN <<i, new>> ELSE <<block[k]>>])

(* erase, and insert where it pointed.                                       *)
InPlace(i, new) == [k \in DOMAIN block |-> IF block[k] = i THEN new ELSE block[k]]

(* clearInputs of old, then replaceInst: fresh takes its place and keeps the *)
(* m_bb it was made with, which is null.  old may have none either.          *)
PutInPlace(pass) ==
    /\ Visiting(pass, "put")
    /\ IF ClearAsserts(old) /\ old \notin placed
       THEN /\ outcome' = "crashed"
            /\ UNCHANGED <<vars, block, placed, todo, step, fresh, old>>
       ELSE /\ ReplaceInst(old, fresh)
            /\ IF ClearAsserts(old)
               THEN /\ block' = InPlace(old, fresh)
                    /\ placed' = placed \ {old}
                    /\ fresh' = None /\ old' = None
                    /\ NextVisit
               ELSE UNCHANGED <<block, placed, fresh, old, todo, step>>
            /\ UNCHANGED outcome
    /\ UNCHANGED <<oper, type, val, meant, passes, departs>>
=============================================================================
