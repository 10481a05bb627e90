------------------------------ MODULE Inlining ------------------------------
(* Inlining of include/opt/inlining.hh: every call of a function is replaced *)
(* by the blocks of its callee.  The links of the blocks are those of        *)
(* BlockLinks, inputs and users of the instructions those of UseDef; the     *)
(* helpers of doInline are one action each, and the loops in them one for    *)
(* each round.                                                               *)
EXTENDS CallSemantics, FiniteSets

CONSTANTS Programs,        \* functions with calls, and what is in their blocks
          Insts, BBs,      \* addresses, never reused
          Caller           \* the function whose calls are inlined

VARIABLES
    program,               \* what is inlined, as it was at the start
    funcs,                 \* m_bbs of each function
    ids,                   \* m_id of each block
    code,                  \* m_instructions of each block
    oper, bbOf,            \* the kind, "dead" once freed, and m_bb of an instruction
    type,                  \* m_type of a value
    names,                 \* the targets of a jump, the blocks in m_vars of a phi
    inputs, users, entries,
    life, succ, pred,
    aborted

irVars == <<funcs, ids, code, oper, bbOf, type, names, inputs, users, entries, life, succ, pred>>

VARIABLES
    stage,                 \* where doInline is; "done", "crashed"
    calls,                 \* m_candidates that are left, from the present one on
    after,                 \* afterCallBB
    params, args,          \* paramIt and inpIt to their ends
    rets,                  \* rets that are yet to be replaced
    result,                \* what takes the place of the call's value
    wild                   \* freed memory was written

passVars == <<stage, calls, after, params, args, rets, result, wild>>
vars == <<program, irVars, aborted, passVars>>

TargetsOf(s) ==
    IF s = << >> \/ oper[Last(s)] \notin {"jump", "if"} THEN << >> ELSE names[Last(s)]

Links == INSTANCE BlockLinks WITH MaxSucc <- 2, targets <- [b \in BBs |-> TargetsOf(code[b])]
Uses == INSTANCE UseDef WITH MaxInputs <- 2, kind <- oper

Init ==
    /\ program \in Programs
    /\ funcs = program.funcs /\ ids = program.ids /\ code = program.code
    /\ oper = program.oper /\ type = program.type /\ names = program.names
    /\ inputs = program.inputs /\ entries = program.entries
    /\ users = [v \in Insts |-> {i \in Insts : Contains(inputs[i], v)}]
    /\ bbOf = [i \in Insts |-> CHOOSE b \in BBs : Contains(code[b], i) \/ oper[i] = "new"]
    /\ life = [b \in BBs |-> IF code[b] = << >> THEN "new" ELSE "alive"]
    /\ succ = [b \in BBs |-> TargetsOf(code[b])]
    /\ pred = [c \in BBs |-> [b \in BBs |-> Links!Count(TargetsOf(code[b]), c)]]
    /\ aborted = FALSE /\ wild = FALSE
    /\ stage = "start"
    /\ calls = << >> /\ after = << >> /\ params = << >> /\ args = << >>
    /\ rets = << >> /\ result = << >>

(* Mutant: the links are left.                                               *)
RelinkNot(b, ts) == UNCHANGED <<succ, pred>>

(* updateLinks of b, whose last instruction has the targets ts.              *)
Relink(b, ts) == Links!UpdateLinks(b, ts)

Call == Head(calls)
Callee == program.callee[Call]
First == Head(funcs[Callee])
At(s) == stage = s /\ ~aborted

Abort == aborted' = TRUE /\ UNCHANGED <<program, irVars, passVars>>

(* Addresses operator new may return.                                        *)
FreshBB == CHOOSE b \in BBs : life[b] = "new"
FreshInst == CHOOSE i \in Insts : oper[i] = "new"

(* Both orders of depthFirstSearch over the blocks reached from root.        *)
RECURSIVE Visit(_, _)
Visit(b, s) ==
    IF Contains(s.pre, b) THEN s
    ELSE LET r == FoldLeft(LAMBDA t, c : Visit(c, t), [s EXCEPT !.pre = Append(@, b)], succ[b])
         IN  [r EXCEPT !.post = Append(@, b)]
Search(root) == Visit(root, [pre |-> << >>, post |-> << >>])

(* fillCandidates: the calls in reverse post-order.                          *)
FillCandidates ==
    /\ At("start")
    /\ LET bbs == Reverse(Search(Head(funcs[Caller])).post) IN
       calls' = FlattenSeq([k \in DOMAIN bbs |->
                               SelectSeq(code[bbs[k]], LAMBDA i : oper[i] = "call")])
    /\ stage' = "visit"
    /\ UNCHANGED <<program, irVars, aborted, after, params, args, rets, result, wild>>

(* Call::verify: the call has the type of the callee's result, and its       *)
(* inputs are as many as the parameters declared, of their types.            *)
Verified ==
    /\ type[Call] = program.res[Callee]
    /\ [k \in DOMAIN inputs[Call] |-> type[inputs[Call][k]]] = program.args[Callee]

(* Mutant: the call goes with what is behind it.                             *)
PivotBefore(bb) == SelectInSeq(code[bb], LAMBDA i : i = Call) - 1

(* The place of the call: what is behind it moves to the new block.          *)
Pivot(bb) == SelectInSeq(code[bb], LAMBDA i : i = Call)

(* doInline begins: appendBB, and the splice of splitBBAfter.                *)
SplitBBAfter ==
    /\ At("visit") /\ calls # << >>
    /\ IF ~Verified THEN Abort
       ELSE LET bb == bbOf[Call]
                new == FreshBB
                tail == SubSeq(code[bb], Pivot(bb) + 1, Len(code[bb]))
            IN  /\ after' = new
                /\ funcs' = [funcs EXCEPT ![Caller] = Append(@, new)]
                /\ ids' = [ids EXCEPT ![new] = ids[Last(funcs[Caller])] + 1]
                /\ life' = [life EXCEPT ![new] = "alive"]
                /\ code' = [code EXCEPT ![bb] = SubSeq(@, 1, Pivot(bb)), ![new] = tail]
                /\ bbOf' = [i \in Insts |-> IF Contains(tail, i) THEN new ELSE bbOf[i]]
                /\ Relink(new, TargetsOf(tail))
                /\ stage' = "inputs"
                /\ UNCHANGED <<program, oper, type, names, inputs, users, entries, aborted,
                               calls, params, args, rets, result, wild>>

(* adjustInputs begins.  makeBBGraph asserts that the callee has blocks.     *)
CollectParams ==
    /\ At("inputs")
    /\ IF funcs[Callee] = << >> THEN Abort
       ELSE /\ params' = SelectSeq(code[First], LAMBDA i : oper[i] = "param")
            /\ args' = inputs[Call]
            /\ stage' = "params"
            /\ UNCHANGED <<program, irVars, aborted, calls, after, rets, result, wild>>

(* eraseInst: the links to its inputs are not cleared.                       *)
Without(c, i) == [c EXCEPT ![bbOf[i]] = SelectSeq(@, LAMBDA j : j # i)]

(* setUsersFrom writes to every user, also to those that were freed.         *)
WritesFreed(v, other) == \E i \in users[v] \cup users[other] : oper[i] = "dead"

(* Mutant: the users are forgotten.                                          *)
RedirectForgetsUsers(v, other) ==
    /\ users' = [users EXCEPT ![other] = {}]
    /\ inputs' = [i \in Insts |-> Uses!Redirected(i, v, other)]
    /\ UNCHANGED wild

(* v.setUsersFrom(other), the memory of freed users being still there.       *)
Redirect(v, other) ==
    /\ Uses!TakeUsers(v, other, users)
    /\ wild' = (wild \/ WritesFreed(v, other))

(* It is not.                                                                *)
Crash ==
    /\ \/ At("params") /\ params # << >> /\ args # << >> /\ WritesFreed(Head(args), Head(params))
       \/ At("result") /\ WritesFreed(result, Call)
    /\ wild' = TRUE
    /\ stage' = "crashed"
    /\ UNCHANGED <<program, irVars, aborted, calls, after, params, args, rets, result>>

AdjustInput ==
    /\ At("params") /\ params # << >> /\ args # << >>
    /\ Redirect(Head(args), Head(params))
    /\ code' = Without(code, Head(params))
    /\ oper' = [oper EXCEPT ![Head(params)] = "dead"]
    /\ params' = Tail(params) /\ args' = Tail(args)
    /\ UNCHANGED <<program, funcs, ids, bbOf, type, names, entries, life, succ, pred, aborted,
                   stage, calls, after, rets, result>>

EndInputs ==
    /\ At("params") /\ (params = << >> \/ args = << >>)
    /\ stage' = IF program.res[Callee] = "None" THEN "first" ELSE "outputs"
    /\ UNCHANGED <<program, irVars, aborted, calls, after, params, args, rets, result, wild>>

Returns == SelectSeq([k \in DOMAIN Search(First).pre |-> Last(code[Search(First).pre[k]])],
                     LAMBDA i : oper[i] = "ret")

(* Mutant: the phi has no type.                                              *)
ResultTypeNone == "None"

(* The type of the phi that joins the values returned.                       *)
ResultType == program.res[Callee]

(* adjustOutputs: one return has the value, or a phi at the front of after   *)
(* will have it.  A return without a value is asked for one.                 *)
FindReturns ==
    /\ At("outputs")
    /\ IF \E k \in DOMAIN Returns : inputs[Returns[k]] = << >> THEN Abort
       ELSE LET vals == [k \in DOMAIN Returns |-> inputs[Returns[k]][1]]
                phi == FreshInst
            IN  /\ rets' = Returns
                /\ stage' = "result"
                /\ IF Len(Returns) = 1 THEN result' = vals[1] /\ UNCHANGED irVars
                   ELSE /\ result' = phi
                        /\ oper' = [oper EXCEPT ![phi] = "phi"]
                        /\ type' = [type EXCEPT ![phi] = ResultType]
                        /\ bbOf' = [bbOf EXCEPT ![phi] = after]
                        /\ code' = [code EXCEPT ![after] = <<phi>> \o @]
                        /\ inputs' = [inputs EXCEPT ![phi] = vals]
                        /\ entries' = [entries EXCEPT ![phi] = vals]
                        /\ names' = [names EXCEPT ![phi] =
                                        [k \in DOMAIN Returns |-> bbOf[Returns[k]]]]
                        /\ users' = [v \in Insts |-> IF Contains(vals, v) THEN users[v] \cup {phi}
                                                     ELSE users[v]]
                        /\ UNCHANGED <<funcs, ids, life, succ, pred>>
                /\ UNCHANGED <<program, aborted, calls, after, params, args, wild>>

TakeResult ==
    /\ At("result")
    /\ Redirect(result, Call)
    /\ stage' = "returns"
    /\ UNCHANGED <<program, funcs, ids, code, oper, bbOf, type, names, entries, life, succ,
                   pred, aborted, calls, after, params, args, rets, result>>

(* A return is erased and a jump to after pushed to its block.               *)
ReplaceReturn ==
    /\ At("returns") /\ rets # << >>
    /\ LET ret == Head(rets)
           bb == bbOf[ret]
           jump == FreshInst
       IN  /\ oper' = [oper EXCEPT ![ret] = "dead", ![jump] = "jump"]
           /\ names' = [names EXCEPT ![jump] = <<after>>]
           /\ bbOf' = [bbOf EXCEPT ![jump] = bb]
           /\ code' = [Without(code, ret) EXCEPT ![bb] = Append(@, jump)]
           /\ Relink(bb, <<after>>)
    /\ rets' = Tail(rets)
    /\ UNCHANGED <<program, funcs, ids, type, inputs, users, entries, life, aborted,
                   stage, calls, after, params, args, result, wild>>

EndOutputs ==
    /\ At("returns") /\ rets = << >>
    /\ stage' = "first"
    /\ UNCHANGED <<program, irVars, aborted, calls, after, params, args, rets, result, wild>>

(* The first block of the callee is spliced to the end of the block of the   *)
(* call, and erased.                                                         *)
SpliceFirst ==
    /\ At("first")
    /\ LET bb == bbOf[Call]
           joined == code[bb] \o code[First]
       IN  IF ~Links!UnlinkLoop(bb).ok THEN Abort
           ELSE /\ code' = [code EXCEPT ![bb] = joined, ![First] = << >>]
                /\ bbOf' = [i \in Insts |-> IF Contains(code[First], i) THEN bb ELSE bbOf[i]]
                /\ Relink(bb, TargetsOf(joined))
                /\ life' = [life EXCEPT ![First] = "erased"]
                /\ funcs' = [funcs EXCEPT ![Callee] = Tail(@)]
                /\ stage' = "blocks"
                /\ UNCHANGED <<program, ids, oper, type, names, inputs, users, entries, aborted,
                               calls, after, params, args, rets, result, wild>>

(* Mutant: the blocks of the callee are not moved to the caller.             *)
InsertedNowhere(s) == s

(* s with the blocks of the callee in front of after.                        *)
Inserted(s) ==
    LET k == SelectInSeq(s, LAMBDA b : b = after)
    IN  SubSeq(s, 1, k - 1) \o funcs[Callee] \o SubSeq(s, k, Len(s))

(* The call is erased, and Function::splice takes the blocks of the callee.  *)
SpliceBlocks ==
    /\ At("blocks")
    /\ code' = Without(code, Call)
    /\ oper' = [oper EXCEPT ![Call] = "dead"]
    /\ funcs' = [f \in DOMAIN funcs |-> CASE f = Caller -> Inserted(funcs[f])
                                          [] f = Callee -> << >>
                                          [] OTHER -> funcs[f]]
    /\ calls' = Tail(calls)
    /\ stage' = "visit"
    /\ UNCHANGED <<program, ids, bbOf, type, names, inputs, users, entries, life, succ, pred,
                   aborted, after, params, args, rets, result, wild>>

Finish ==
    /\ At("visit") /\ calls = << >>
    /\ stage' = "done"
    /\ UNCHANGED <<program, irVars, aborted, calls, after, params, args, rets, result, wild>>

Stopped == (stage \in {"done", "crashed"} \/ aborted) /\ UNCHANGED vars

Next ==
    \/ FillCandidates \/ SplitBBAfter \/ CollectParams \/ AdjustInput \/ EndInputs
    \/ FindReturns \/ TakeResult \/ ReplaceReturn \/ EndOutputs
    \/ SpliceFirst \/ SpliceBlocks \/ Crash \/ Finish \/ Stopped

Spec == Init /\ [][Next]_vars
-----------------------------------------------------------------------------
(* Between two calls.                                                        *)
Settled == stage \in {"start", "visit", "done"} /\ ~aborted

(* The instructions and blocks there are.                                    *)
Present == {i \in Insts : oper[i] \notin {"new", "dead"}}
Standing == {b \in BBs : life[b] = "alive"}

(* The type invariant.                                                       *)
InlTypeOK ==
    /\ Links!TypeOK
    /\ funcs \in [DOMAIN program.funcs -> Seq(BBs)] /\ ids \in [BBs -> Nat]
    /\ code \in [BBs -> Seq(Insts)] /\ bbOf \in [Insts -> BBs]
    /\ users \in [Insts -> SUBSET Insts]
    /\ inputs \in [Insts -> Seq(Insts)] /\ entries \in [Insts -> Seq(Insts)]
    /\ names \in [Insts -> Seq(BBs)]
    /\ type \in [Insts -> {"None"} \cup Range(program.type) \cup Range(program.res)]
    /\ stage \in {"start", "visit", "inputs", "params", "outputs", "result", "returns",
                  "first", "blocks", "done", "crashed"}

(* The calls of the program, and the functions they call.                    *)
Calls == DOMAIN program.callee
CalleesIn == Range(program.callee)
EntryOf(f) == Head(program.funcs[f])
ParamsOf(f) == SelectSeq(program.code[EntryOf(f)], LAMBDA i : program.oper[i] = "param")
Phis == {i \in Insts : program.oper[i] = "phi"}

(* What inlining does not preserve: a callee without a result; parameters    *)
(* that do not stand in the order of their numbers at the entry; an entry    *)
(* something jumps back to; a phi that takes a parameter or the result of a  *)
(* call, and one behind a block that calls.                                  *)
Preserved ==
    /\ \A f \in CalleesIn :
          /\ program.res[f] # "None"
          /\ \A k \in DOMAIN ParamsOf(f) : program.index[ParamsOf(f)[k]] = k
          /\ \A i \in Insts : program.oper[i] \in {"jump", "if"} =>
                                   ~Contains(program.names[i], EntryOf(f))
    /\ \A p \in Phis :
          /\ \A v \in ToSet(program.entries[p]) : program.oper[v] \notin {"param", "call"}
          /\ \A b \in ToSet(program.names[p]) : Calls \cap ToSet(program.code[b]) = {}

Now == [funcs |-> funcs, code |-> code, oper |-> oper, names |-> names, inputs |-> inputs,
        entries |-> entries, callee |-> program.callee, index |-> program.index]

(* Three conditions go either way.                                           *)
Ways == [1 .. 3 -> {1, 2}]

RunsAsBefore ==
    \A cs \in Ways : Behaviour(Now, Caller, cs) = Behaviour(program, Caller, cs)

(* The caller, once its calls are inlined, computes the same values in the   *)
(* same order and returns what it did, whichever way its conditions and      *)
(* those of its callees go.                                                  *)
InliningKeepsMeaning == stage = "done" /\ Preserved => RunsAsBefore

(* The same for callees without a result.                                    *)
VoidCallsKeepMeaning == stage = "done" => RunsAsBefore

(* The successors of a block are the targets of its last instruction, and    *)
(* every block knows its predecessors; what else it takes for one is the     *)
(* freed entry of a callee that was inlined.                                 *)
GraphFollowsCode ==
    Settled => \A b \in Standing :
        /\ succ[b] = TargetsOf(code[b])
        /\ \A p \in Standing : pred[b][p] = Links!Count(succ[p], b)
        /\ \A p \in BBs \ Standing : pred[b][p] > 0 =>
              life[p] = "erased" /\ p \in {EntryOf(f) : f \in CalleesIn}

(* Users and inputs agree, but for the calls and returns that were freed and *)
(* are still listed as users; freed memory is touched only by a call after   *)
(* another one was inlined.                                                  *)
OnlyCallsAndReturnsStale ==
    /\ \A v, i \in Present : i \in users[v] <=> Contains(inputs[i], v)
    /\ \A v \in Present : \A i \in users[v] \ Present :
          oper[i] = "dead" /\ program.oper[i] \in {"call", "ret"}
    /\ wild => \E c \in Calls : oper[c] = "dead"

(* Every instruction is in the block it believes to be in and no other, and  *)
(* every block in one function: all that was the callee's is the caller's.   *)
EverythingPlacedOnce ==
    /\ InlTypeOK
    /\ \A i \in Present, b \in BBs : Contains(code[b], i) <=> bbOf[i] = b
    /\ \A b \in BBs : IsInjective(code[b]) /\ ToSet(code[b]) \subseteq Present
    /\ Settled => \A b \in Standing :
          /\ Cardinality({f \in DOMAIN funcs : Contains(funcs[f], b)}) = 1
          /\ \A c \in Calls : oper[c] = "dead" => ~Contains(funcs[program.callee[c]], b)

Inlined == {c \in Calls : oper[c] = "dead"}
TypesAtFirst(is) == [k \in DOMAIN is |-> program.type[is[k]]]

(* The values that f returns, and those of a type it does not have, are as   *)
(* it was written.                                                           *)
ReturnsOf(f) ==
    {i \in UNION {ToSet(program.code[b]) : b \in ToSet(program.funcs[f])} : program.oper[i] = "ret"}
Valueless(f) == \E i \in ReturnsOf(f) : program.inputs[i] = << >>
Mistyped(f) ==
    \/ \E i \in ReturnsOf(f) : TypesAtFirst(program.inputs[i]) # <<program.res[f]>>
    \/ \E k \in DOMAIN ParamsOf(f) : program.index[ParamsOf(f)[k]] # k

(* Inlining a call makes an assertion fail for a later one only if that has  *)
(* the same callee, or takes its result and that is not of the type it was   *)
(* declared with.  Otherwise the later one was wrong as the program had it:  *)
(* its arguments were not those of its callee in number or type, or that has *)
(* a result but returns without one.                                         *)
AbortsHaveReasons ==
    aborted =>
        \/ \E c \in Inlined : program.callee[c] = Callee
        \/ \E c \in Inlined \cap ToSet(program.inputs[Call]) : Mistyped(program.callee[c])
        \/ TypesAtFirst(program.inputs[Call]) # program.args[Callee]
        \/ Valueless(Callee)

(* The ids by which the dominator tree knows the blocks tell them apart.     *)
BlocksToldApart ==
    stage = "done" =>
        \A b, c \in ToSet(funcs[Caller]) : b # c => ids[b] # ids[c]
=============================================================================
