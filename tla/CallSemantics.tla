--------------------------- MODULE CallSemantics ----------------------------
(* What running a function yields that calls others: the reference that      *)
(* Inlining is checked against.  s is the code, with the fields code, oper,  *)
(* names, inputs, entries, funcs, callee and index; a computed value is a    *)
(* term over the instructions, and each condition goes the way that is next  *)
(* in choices.  No function calls itself.                                    *)
EXTENDS Integers, Sequences, SequencesExt

NoValue == <<"no value">>

(* Bounds: the longest run that is observed, in values and in steps.         *)
MaxTrace == 8
MaxSteps == 60

(* m is a run that has come to instruction pc of block at from block from.   *)
Entered(s, f, m) == [m EXCEPT !.at = Head(s.funcs[f]), !.pc = 1, !.from = << >>]

JumpedTo(m, b) == [m EXCEPT !.from = m.at, !.at = b, !.pc = 1]

Computed(m, i, v) == [m EXCEPT !.env = [@ EXCEPT ![i] = v], !.pc = @ + 1]

Arguments(s, m, i) == [k \in DOMAIN s.inputs[i] |-> m.env[s.inputs[i][k]]]

(* The value of a phi when its block was entered from m.from.                *)
PhiValue(s, m, i) ==
    LET k == SelectInSeq(s.names[i], LAMBDA b : b = m.from)
    IN  IF k = 0 THEN NoValue ELSE m.env[s.entries[i][k]]

Returned(s, m, v) ==
    IF m.callers = << >> THEN [m EXCEPT !.out = <<"returns", v>>]
    ELSE LET c == Last(m.callers)
             back == [m EXCEPT !.at = c.at, !.pc = c.pc, !.from = c.from, !.args = c.args,
                               !.callers = Front(@)]
         IN  Computed(back, c.call, v)

Called(s, m, i) ==
    Entered(s, s.callee[i],
            [m EXCEPT !.callers = Append(@, [at |-> m.at, pc |-> m.pc, from |-> m.from,
                                             args |-> m.args, call |-> i]),
                      !.args = Arguments(s, m, i)])

RunStep(s, m) ==
    IF m.pc > Len(s.code[m.at]) THEN [m EXCEPT !.out = <<"leaves its blocks">>]
    ELSE IF Len(m.trace) = MaxTrace THEN [m EXCEPT !.out = <<"goes on">>]
    ELSE LET i == s.code[m.at][m.pc] IN
         CASE s.oper[i] = "value" ->
                LET v == <<i, Arguments(s, m, i)>>
                IN  [Computed(m, i, v) EXCEPT !.trace = Append(@, v)]
           [] s.oper[i] = "param" ->
                Computed(m, i, IF s.index[i] \in DOMAIN m.args THEN m.args[s.index[i]]
                               ELSE NoValue)
           [] s.oper[i] = "phi" -> Computed(m, i, PhiValue(s, m, i))
           [] s.oper[i] = "jump" -> JumpedTo(m, s.names[i][1])
           [] s.oper[i] = "if" ->
                IF m.choices = << >> THEN [m EXCEPT !.out = <<"goes on">>]
                ELSE [JumpedTo(m, s.names[i][Head(m.choices)]) EXCEPT !.choices = Tail(@)]
           [] s.oper[i] = "call" -> Called(s, m, i)
           [] s.oper[i] = "ret" ->
                Returned(s, m, IF s.inputs[i] = << >> THEN NoValue
                               ELSE Arguments(s, m, i)[1])

(* What f computes and returns, as far as choices and bounds go.             *)
Behaviour(s, f, choices) ==
    LET start == Entered(s, f, [at |-> << >>, pc |-> 1, from |-> << >>, args |-> << >>,
                                callers |-> << >>, choices |-> choices, trace |-> << >>,
                                env |-> [i \in DOMAIN s.oper |-> NoValue], out |-> << >>])
        end == FoldLeft(LAMBDA m, n : IF m.out = << >> THEN RunStep(s, m) ELSE m,
                        start, [n \in 1 .. MaxSteps |-> n])
    IN  [trace |-> end.trace, out |-> end.out]
=============================================================================
