--------------------------- MODULE MCLocalPasses ----------------------------
(* Small instances of LocalPasses for TLC.  The instructions of a block are  *)
(* numbered in its order; each makes its inputs of smaller ones.             *)
EXTENDS LocalPasses

SevenInsts == 1 .. 7
SmallBits == [t \in {"I1", "I8", "I64"} |-> CASE t = "I1" -> 1 [] t = "I8" -> 3 [] t = "I64" -> 4]

Ins(o, t, v, args) == [oper |-> o, type |-> t, val |-> v, inputs |-> args]
Const(t, v) == Ins("const", t, v, << >>)
Param == Ins("param", "I64", 0, << >>)
Bin(o, t, l, r) == Ins(o, t, 0, <<l, r>>)
Ret(i) == Ins("ret", "I64", 0, <<i>>)

Program(code, ps) ==
    LET at(i) == IF i \in DOMAIN code THEN code[i] ELSE Ins("none", "I64", 0, << >>)
    IN  [order |-> [i \in DOMAIN code |-> i],
         oper |-> [i \in SevenInsts |-> at(i).oper],
         type |-> [i \in SevenInsts |-> at(i).type],
         val |-> [i \in SevenInsts |-> at(i).val],
         inputs |-> [i \in SevenInsts |-> at(i).inputs],
         passes |-> ps]

Pipelines == {<<"peephole", "fold">>, <<"peephole", "peephole">>, <<"fold", "peephole">>}
RuleOps == {"add", "shr", "or", "mul"}

(* Two operations, the second on the first, on a parameter and constants.    *)
Rewritten ==
    {<<Param, Const("I64", a), Const("I64", b),
       Bin(o1, "I64", l, r), Bin(o2, "I64", x[1], x[2]), Ret(5)>> :
        a \in {0, 1}, b \in {-1, 2}, o1 \in RuleOps, o2 \in RuleOps,
        l \in 1 .. 3, r \in 1 .. 3,
        x \in {y \in (1 .. 4) \X (1 .. 4) : 4 \in {y[1], y[2]}}}

(* The second constant stands behind the first operation.                    *)
LateConstant ==
    {<<Param, Const("I64", a), Bin(o1, "I64", 1, 2), Const("I64", b),
       Bin(o2, "I64", x[1], x[2]), Ret(5)>> :
        a \in {0, 1, 2}, b \in {-1, 0, 1}, o1 \in RuleOps, o2 \in RuleOps,
        x \in {<<3, 4>>, <<4, 3>>}}

(* A chain of three, with other users of its middle.                         *)
Chains ==
    {<<Param, Const("I64", 1), Bin(o, "I64", 1, 2), Bin(o, "I64", 3, 2),
       Bin(q, "I64", l, 4), Ret(5)>> :
        o \in {"shr", "add"}, q \in {"add", "or", "shr"}, l \in {2, 3, 4}}

(* Every operation on constants, of one type and of two.                     *)
Folds ==
    {<<Const(t, a), Const(u, b), Bin(o, u, 1, 2), Bin("add", u, 3, 2), Ret(3)>> :
        o \in BinOps, t \in {"I1", "I8"}, u \in {"I1", "I8"}, a \in {0, 1}, b \in {0, 1}}
    \cup {<<Const("I8", a), Const("I8", b), Bin(o, "I8", 1, 2), Bin("sub", "I8", 3, 1), Ret(4)>> :
        o \in BinOps, a \in Values("I8"), b \in Values("I8")}

(* A cast of a constant.                                                     *)
Casts ==
    {<<Const(s, a), Ins("cast", t, 0, <<1>>), Bin("or", t, 2, 2), Ret(2)>> :
        <<s, a>> \in UNION {{t} \X Values(t) : t \in Types}, t \in Types}

AllPrograms ==
    {Program(c, ps) : c \in Rewritten \cup LateConstant \cup Chains \cup Folds \cup Casts,
                      ps \in Pipelines}
=============================================================================
