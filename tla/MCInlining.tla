----------------------------- MODULE MCInlining -----------------------------
(* Small instances of Inlining for TLC.  A function is a sequence of blocks, *)
(* each a sequence of instructions that name others of the function by their *)
(* position in it, blocks by theirs.                                         *)
EXTENDS Inlining

Functions == {"main", "f", "g"}
AllInsts == (Functions \X (1 .. 9)) \cup ({"new"} \X (1 .. 8))
AllBBs == (Functions \X (1 .. 4)) \cup ({"new"} \X (1 .. 2))

Ins(o, ins) == [oper |-> o, type |-> "None", inputs |-> ins, names |-> << >>, more |-> << >>]
Typed(i, t) == [i EXCEPT !.type = t]
Val(ins) == Typed(Ins("value", ins), "I32")
Val8(ins) == Typed(Val(ins), "I8")
Param(k) == Typed([Ins("param", << >>) EXCEPT !.more = <<k>>], "I32")
Param8(k) == Typed(Param(k), "I8")
CallOf(f, ins) == [Ins("call", ins) EXCEPT !.more = <<f>>]
Ret(ins) == Ins("ret", ins)
Jump(b) == [Ins("jump", << >>) EXCEPT !.names = <<b>>]
If(i, b, c) == [Ins("if", <<i>>) EXCEPT !.names = <<b, c>>]
Phi(is, bs) == Typed([Ins("phi", is) EXCEPT !.names = bs], "I32")

(* A function with the types of its parameters and of its result; most have  *)
(* two parameters and a result, of one type.                                 *)
Fn(sig, res, blocks) == [args |-> sig, res |-> res, blocks |-> blocks]
Two == <<"I32", "I32">>
Main(blocks) == Fn(<< >>, "I32", blocks)

Flat(fn) == FlattenSeq(fn.blocks)
NumBefore(fn, b) == Len(FlattenSeq(SubSeq(fn.blocks, 1, b - 1)))

(* The functions fns, their blocks numbered from 0.                          *)
Program(fns) ==
    LET has(i) == i[1] \in Functions /\ i[2] \in DOMAIN Flat(fns[i[1]])
        at(i) == IF has(i) THEN Flat(fns[i[1]])[i[2]] ELSE Ins("new", << >>)
        local(i, s) == [k \in DOMAIN s |-> <<i[1], s[k]>>]
    IN  [funcs |-> [f \in Functions |-> [k \in DOMAIN fns[f].blocks |-> <<f, k>>]],
         ids |-> [b \in AllBBs |-> b[2] - 1],
         code |-> [b \in AllBBs |->
                     IF b[1] \in Functions /\ b[2] \in DOMAIN fns[b[1]].blocks
                     THEN [k \in DOMAIN fns[b[1]].blocks[b[2]] |->
                             <<b[1], NumBefore(fns[b[1]], b[2]) + k>>]
                     ELSE << >>],
         oper |-> [i \in AllInsts |-> at(i).oper],
         type |-> [i \in AllInsts |->
                     IF at(i).oper = "call" THEN fns[at(i).more[1]].res ELSE at(i).type],
         names |-> [i \in AllInsts |-> local(i, at(i).names)],
         inputs |-> [i \in AllInsts |-> local(i, at(i).inputs)],
         entries |-> [i \in AllInsts |->
                        IF at(i).oper = "phi" THEN local(i, at(i).inputs) ELSE << >>],
         args |-> [f \in Functions |-> fns[f].args],
         res |-> [f \in Functions |-> fns[f].res],
         callee |-> [i \in {j \in AllInsts : at(j).oper = "call"} |-> at(i).more[1]],
         index |-> [i \in {j \in AllInsts : at(j).oper = "param"} |-> at(i).more[1]]]

-----------------------------------------------------------------------------
(* One block; a value on the parameters, or a parameter itself.              *)
Straight == Fn(Two, "I32", << <<Param(1), Param(2), Val(<<1, 2>>), Ret(<<3>>)>> >>)
Same == Fn(Two, "I32", << <<Param(1), Param(2), Ret(<<2>>)>> >>)

(* A return in each of two branches, and one nothing leads to.               *)
TwoReturns ==
    Fn(Two, "I32", << <<Param(1), Param(2), If(1, 2, 3)>>, <<Val(<<2>>), Ret(<<4>>)>>,
                    <<Ret(<<2>>)>>, <<Ret(<<1>>)>> >>)

(* A loop behind the entry, around the entry, and one without end.           *)
Loop == Fn(Two, "I32", << <<Param(1), Param(2), Jump(2)>>, <<Val(<<1>>), If(4, 2, 3)>>,
                        <<Ret(<<2>>)>> >>)
EntryLoop == Fn(Two, "I32", << <<Param(1), Param(2), Val(<<1, 2>>), If(3, 1, 2)>>, <<Ret(<<3>>)>> >>)
Endless == Fn(Two, "I32", << <<Param(1), Jump(2)>>, <<Val(<<1>>), Jump(2)>> >>)

(* A phi of values, and one of a parameter.                                  *)
WithPhi ==
    Fn(Two, "I32", << <<Param(1), Param(2), If(2, 2, 3)>>, <<Val(<<1>>), Jump(4)>>,
                    <<Val(<<2>>), Jump(4)>>, <<Phi(<<4, 6>>, <<2, 3>>), Ret(<<8>>)>> >>)
PhiOfParam ==
    Fn(Two, "I32", << <<Param(1), Param(2), If(2, 2, 3)>>, <<Val(<<1>>), Jump(4)>>,
                    <<Jump(4)>>, <<Phi(<<4, 1>>, <<2, 3>>), Ret(<<7>>)>> >>)

(* The parameters in another order, and only the second of them.             *)
Swapped == Fn(Two, "I32", << <<Param(2), Param(1), Val(<<1>>), Ret(<<3>>)>> >>)
SecondOnly == Fn(Two, "I32", << <<Param(2), Val(<<1>>), Ret(<<2>>)>> >>)

Void == Fn(Two, "None", << <<Param(1), Param(2), Val(<<1>>), Ret(<< >>)>> >>)
VoidBranch == Fn(Two, "None", << <<Param(1), Param(2), If(1, 2, 3)>>, <<Val(<<2>>), Ret(<< >>)>>,
                             <<Ret(<< >>)>> >>)

(* Parameters of two types, the same in another order, a value of another    *)
(* type than the result has, and a return without a value.                   *)
Mixed == Fn(<<"I32", "I8">>, "I8", << <<Param(1), Param8(2), Ret(<<2>>)>> >>)
MixedSwapped == Fn(<<"I32", "I8">>, "I8", << <<Param8(2), Param(1), Ret(<<1>>)>> >>)
Narrower == Fn(Two, "I32", << <<Param(1), Param(2), Val8(<<1>>), Ret(<<3>>)>> >>)
NoResult == Fn(Two, "I32", << <<Param(1), Param(2), If(1, 2, 3)>>, <<Ret(<<2>>)>>,
                              <<Ret(<< >>)>> >>)

Callees == {Straight, Same, TwoReturns, Loop, EntryLoop, Endless, WithPhi, PhiOfParam, Swapped,
            SecondOnly, Void, VoidBranch, Mixed, MixedSwapped, Narrower, NoResult}

(* The result of a call is used if there is one.                             *)
Used(fn, i, other) == IF fn.res = "None" THEN other ELSE i

(* A call at the end of the block, of arguments of one type and of two, and  *)
(* between others; a wrong number of arguments.                              *)
OneCall(fn) ==
    {Main(<< <<Val(<< >>), Val(<< >>), CallOf("f", <<1, 2>>), Ret(<<Used(fn, 3, 1)>>)>> >>),
     Main(<< <<Val(<< >>), Val8(<< >>), CallOf("f", <<1, 2>>), Ret(<<Used(fn, 3, 1)>>)>> >>),
     Main(<< <<Val(<< >>), CallOf("f", <<1>>), Ret(<<1>>)>> >>),
     Main(<< <<Val(<< >>), CallOf("f", <<1, 1>>), Val(<<Used(fn, 2, 1), 1>>),
                       If(3, 2, 3)>>, <<Val(<<3>>), Ret(<<5>>)>>, <<Ret(<<1>>)>> >>)}

(* A call in a loop; one in a branch; two whose block a phi names.           *)
PlacedCalls(fn) ==
    {Main(<< <<Val(<< >>), Jump(2)>>, <<CallOf("f", <<1, 1>>), If(1, 2, 3)>>,
                     <<Ret(<<Used(fn, 3, 1)>>)>> >>),
     Main(<< <<Val(<< >>), If(1, 2, 3)>>, <<CallOf("f", <<1, 1>>), Jump(3)>>,
                     <<Ret(<<1>>)>> >>),
     Main(<< <<Val(<< >>), If(1, 2, 3)>>, <<CallOf("f", <<1, 1>>), Jump(3)>>,
                     <<Phi(<<1, Used(fn, 3, 1)>>, <<1, 2>>), Ret(<<5>>)>> >>),
     Main(<< <<Val(<< >>), If(1, 2, 3)>>, <<Val(<<1>>), CallOf("f", <<1, 3>>), Jump(3)>>,
                     <<Phi(<<1, 3>>, <<1, 2>>), Ret(<<6>>)>> >>)}

(* Two calls, of f and f or g, with and without a common argument, one on    *)
(* the result of the other; the same with arguments of two types.            *)
TwoCalls(fn, gn) ==
    {Main(<< <<Val(<< >>), CallOf("f", <<1, 1>>), Val(<< >>),
               CallOf(h, <<3, y>>), Ret(<<Used(gn, 4, 1)>>)>> >>) :
        h \in {"f", "g"}, y \in {1, 3, Used(fn, 2, 3)}}
    \cup
    {Main(<< <<Val(<< >>), Val8(<< >>), CallOf("f", <<1, 2>>),
               CallOf("g", <<1, Used(fn, 3, 2)>>), Ret(<<1>>)>> >>)}

AllPrograms ==
    {Program(("main" :> m) @@ ("f" :> fn) @@ ("g" :> Same)) :
        <<fn, m>> \in UNION {{fn} \X (OneCall(fn) \cup PlacedCalls(fn)) : fn \in Callees}}
    \cup
    {Program(("main" :> m[3]) @@ ("f" :> m[1]) @@ ("g" :> m[2])) :
        m \in UNION {UNION {{fn} \X {gn} \X TwoCalls(fn, gn) : gn \in Callees} : fn \in Callees}}

(* A call of a function without a result.                                    *)
VoidCall ==
    {Program(("main" :> m) @@ ("f" :> Void) @@ ("g" :> Same)) : m \in OneCall(Void)}

(* A call of a function with two returns.                                    *)
BranchingCall ==
    {Program(("main" :> m) @@ ("f" :> TwoReturns) @@ ("g" :> Same)) : m \in OneCall(TwoReturns)}
=============================================================================
