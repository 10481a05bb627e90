------------------------------- MODULE UseDef -------------------------------
(* The def-use links of include/ir/inst.hh: every instruction lists its      *)
(* inputs, every value the set of its users, a phi repeats its inputs in its *)
(* entries.  The actions are the methods that change them, together with     *)
(* removeInst and replaceInst of include/ir/basic_block.hh.                  *)
EXTENDS Integers, Sequences

CONSTANTS Insts,           \* the addresses of instructions
          MaxInputs        \* bound: the longest input list

ASSUME MaxInputsAssumption == MaxInputs \in Nat

VARIABLES
    kind,                  \* "dead", "op", "phi" or "call"
    inputs,                \* m_inputs
    users,                 \* m_users
    entries,               \* the values in m_vars of a phi
    aborted                \* an assertion failed

vars == <<kind, inputs, users, entries, aborted>>

Alive == {i \in Insts : kind[i] # "dead"}
InputSet(i) == {inputs[i][k] : k \in DOMAIN inputs[i]}

Init ==
    /\ kind = [i \in Insts |-> "dead"]
    /\ inputs = [i \in Insts |-> << >>]
    /\ users = [i \in Insts |-> {}]
    /\ entries = [i \in Insts |-> << >>]
    /\ aborted = FALSE

(* The constructors of UnaryOp, BinOp, Ret, Cast, IfInstr (and, without      *)
(* inputs, ConstVal, Param and JumpInstr) call addInput for each argument.   *)
NewOp(i, args) ==
    /\ ~aborted /\ kind[i] = "dead"
    /\ kind' = [kind EXCEPT ![i] = "op"]
    /\ inputs' = [inputs EXCEPT ![i] = args]
    /\ users' = [v \in Insts |-> IF \E k \in DOMAIN args : args[k] = v
                                 THEN users[v] \cup {i} ELSE users[v]]
    /\ UNCHANGED <<entries, aborted>>

(* The constructors of Phi and Call add no input.                            *)
NewEmpty(i, what) ==
    /\ ~aborted /\ kind[i] = "dead"
    /\ kind' = [kind EXCEPT ![i] = what]
    /\ UNCHANGED <<inputs, users, entries, aborted>>

AddInput(i, v) ==
    /\ users' = [users EXCEPT ![v] = @ \cup {i}]
    /\ inputs' = [inputs EXCEPT ![i] = Append(@, v)]

(* Phi::addNode and Call::appendArg.                                         *)
AddNode(i, v) ==
    /\ ~aborted /\ kind[i] \in {"phi", "call"} /\ v \in Alive
    /\ Len(inputs[i]) < MaxInputs
    /\ AddInput(i, v)
    /\ entries' = IF kind[i] = "phi" THEN [entries EXCEPT ![i] = Append(@, v)] ELSE entries
    /\ UNCHANGED <<kind, aborted>>

(* Mutant: the old input is always forgotten.                                *)
OnlyUseAlways(i, k) == TRUE

(* The test std::count(...) == 1 of setInput.                                *)
OnlyUse(i, k) == \A j \in DOMAIN inputs[i] : inputs[i][j] = inputs[i][k] => j = k

SetInput(i, k, v) ==
    /\ ~aborted /\ kind[i] = "op" /\ v \in Alive
    /\ k \in DOMAIN inputs[i]
    /\ LET old == inputs[i][k]
           left == IF OnlyUse(i, k) THEN [users EXCEPT ![old] = @ \ {i}] ELSE users
       IN  users' = [left EXCEPT ![v] = @ \cup {i}]
    /\ inputs' = [inputs EXCEPT ![i] = [@ EXCEPT ![k] = v]]
    /\ UNCHANGED <<kind, entries, aborted>>

SwapInputs(i, k, l) ==
    /\ ~aborted /\ kind[i] = "op"
    /\ k \in DOMAIN inputs[i] /\ l \in DOMAIN inputs[i]
    /\ inputs' = [inputs EXCEPT ![i] = [@ EXCEPT ![k] = inputs[i][l], ![l] = inputs[i][k]]]
    /\ UNCHANGED <<kind, users, entries, aborted>>

(* std::replace over the inputs of a user.                                   *)
Redirected(i, v, other) ==
    [k \in DOMAIN inputs[i] |-> IF inputs[i][k] = other THEN v ELSE inputs[i][k]]

(* v.setUsersFrom(other): v takes over the users of other, and the inputs of *)
(* all its users are redirected.  us are the users as the caller left them.  *)
TakeUsers(v, other, us) ==
    LET all == us[v] \cup us[other] IN
    /\ users' = [us EXCEPT ![v] = all, ![other] = {}]
    /\ inputs' = [i \in Insts |-> IF i \in all THEN Redirected(i, v, other) ELSE inputs[i]]

SetUsersFrom(v, other) ==
    /\ ~aborted /\ v \in Alive /\ other \in Alive /\ v # other
    /\ TakeUsers(v, other, users)
    /\ UNCHANGED <<kind, entries, aborted>>

(* The assertion of clearInputs holds: erase(this) finds the user for each   *)
(* of the inputs in turn.                                                    *)
ClearAsserts(i) == \A k, l \in DOMAIN inputs[i] : inputs[i][k] = inputs[i][l] => k = l

(* users after clearInputs of i.                                             *)
Cleared(i) == [v \in Insts |-> users[v] \ {i}]

Abort == aborted' = TRUE /\ UNCHANGED <<kind, inputs, users, entries>>

(* removeInst, which the optimizations call once nothing uses i any more.    *)
RemoveInst(i) ==
    /\ ~aborted /\ i \in Alive /\ users[i] = {}
    /\ IF ClearAsserts(i)
       THEN /\ users' = Cleared(i)
            /\ inputs' = [inputs EXCEPT ![i] = << >>]
            /\ entries' = [entries EXCEPT ![i] = << >>]
            /\ kind' = [kind EXCEPT ![i] = "dead"]
            /\ UNCHANGED aborted
       ELSE Abort

(* Mutant: the inputs of the replaced instruction are not cleared.           *)
ReplaceInstUncleared(old, new) ==
    /\ ~aborted /\ kind[old] = "op" /\ kind[new] = "op" /\ old # new
    /\ users' = [users EXCEPT ![new] = @ \cup users[old], ![old] = {}]
    /\ inputs' = [i \in Insts |->
                    IF i = old THEN << >>
                    ELSE IF i \in users[new] \cup users[old] THEN Redirected(i, new, old)
                    ELSE inputs[i]]
    /\ kind' = [kind EXCEPT ![old] = "dead"]
    /\ UNCHANGED <<entries, aborted>>

(* old.clearInputs(), then replaceInst(old, new): what constant folding and  *)
(* the peephole rules do with the instruction that new stands for.           *)
ReplaceInst(old, new) ==
    /\ ~aborted /\ kind[old] = "op" /\ kind[new] = "op" /\ old # new
    /\ IF ClearAsserts(old)
       THEN LET us == Cleared(old)
                all == us[new] \cup us[old]
            IN  /\ users' = [us EXCEPT ![new] = all, ![old] = {}]
                /\ inputs' = [i \in Insts |->
                                IF i = old THEN << >>
                                ELSE IF i \in all THEN Redirected(i, new, old)
                                ELSE inputs[i]]
                /\ kind' = [kind EXCEPT ![old] = "dead"]
                /\ UNCHANGED <<entries, aborted>>
       ELSE Abort

ArgLists == UNION {[1 .. n -> Alive] : n \in 0 .. MaxInputs}

Next ==
    \/ \E i \in Insts : \E args \in ArgLists : NewOp(i, args)
    \/ \E i \in Insts : \E what \in {"phi", "call"} : NewEmpty(i, what)
    \/ \E i, v \in Insts : AddNode(i, v) \/ SetUsersFrom(i, v) \/ ReplaceInst(i, v)
    \/ \E i, v \in Insts : \E k \in 1 .. MaxInputs : SetInput(i, k, v)
    \/ \E i \in Insts : \E k, l \in 1 .. MaxInputs : SwapInputs(i, k, l)
    \/ \E i \in Insts : RemoveInst(i)

Spec == Init /\ [][Next]_vars

-----------------------------------------------------------------------------
(* The type invariant.                                                       *)
TypeOK ==
    /\ kind \in [Insts -> {"dead", "op", "phi", "call"}]
    /\ inputs \in [Insts -> Seq(Insts)]
    /\ users \in [Insts -> SUBSET Insts]
    /\ entries \in [Insts -> Seq(Insts)]
    /\ aborted \in BOOLEAN
    /\ \A i \in Insts : Len(inputs[i]) <= MaxInputs

(* An instruction is among the users of a value exactly if the value is one  *)
(* of its inputs, however often it is: the two directions never come apart   *)
(* over constructions, redirections, replacements and removals.              *)
UsersMatchInputs == \A i, v \in Insts : i \in users[v] <=> v \in InputSet(i)

(* A freed instruction is neither an input nor a user of anything.           *)
NoDeadOperands ==
    \A i \in Insts : kind[i] = "dead" =>
        /\ inputs[i] = << >> /\ users[i] = {}
        /\ \A j \in Insts : i \notin InputSet(j) /\ i \notin users[j]
=============================================================================
