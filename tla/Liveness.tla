------------------------------ MODULE Liveness ------------------------------
(* LivenessAnalyzer of include/analysis/liveness.hh, on the loops that       *)
(* LoopAnalyzer found: the linear order of the blocks, the live numbers of   *)
(* the instructions, and the live interval of every value.                   *)
EXTENDS LoopAnalyzer

(* The functions over the graph: code is the instructions of each block, the *)
(* phis first; type is "phi", "value", "effect" for what does not produce a  *)
(* value, or "void", for a return without one; uses are the inputs that      *)
(* processInputs consumes, entries the pairs of value and block of a phi.    *)
CONSTANT Programs(_)

VARIABLES
    liveStage,             \* "order", "ranges", "done" or "abort"
    program,               \* the function that is analysed
    linearOrder,           \* m_linearOrder
    left,                  \* the blocks calcLiveRanges has yet to walk
    liveSets,              \* m_liveSets
    intervals              \* m_liveIntervals

liveVars == <<liveStage, program, linearOrder, left, liveSets, intervals>>
everyVar == <<allVars, liveVars>>

kLiveNumStep == 2

Phis(b) == SelectSeq(program.code[b], LAMBDA i : program.type[i] = "phi")
NonPhis(b) == SelectSeq(program.code[b], LAMBDA i : program.type[i] # "phi")

LiveInit ==
    /\ LoopInit
    /\ liveStage = "order"
    /\ program = << >> /\ linearOrder = << >> /\ left = 0
    /\ liveSets = << >> /\ intervals = << >>

LoopStep == AnalyzerNext /\ UNCHANGED liveVars

(* Mutant: post-order.                                                       *)
LinearOrderPost ==
    FoldLeft(LAMBDA res, b :
                IF Contains(res, b) THEN res
                ELSE IF loopOf[b] = b /\ reducible[b] THEN res \o LinearOrderOf(b)
                ELSE Append(res, b),
             << >>, postOrder)

(* buildLinearOrder: reverse post-order, but a reducible loop as a whole     *)
(* where its header is met.                                                  *)
LinearOrder ==
    FoldLeft(LAMBDA res, b :
                IF Contains(res, b) THEN res
                ELSE IF loopOf[b] = b /\ reducible[b] THEN res \o LinearOrderOf(b)
                ELSE Append(res, b),
             << >>, Reverse(postOrder))

(* The assertions of buildLinearOrder and validateLinOrder; a cycle of loops *)
(* that contain each other ends in neither.                                  *)
OrderAsserts ==
    /\ \A h \in Heads : h \notin Around(h)
    /\ Len(LinearOrder) = Len(postOrder)
    /\ IsInjective(LinearOrder)

(* The linear order is built.  What is in the blocks is looked at for the    *)
(* first time: the function may be any.                                      *)
BuildLinearOrder ==
    /\ LoopsDone /\ liveStage = "order"
    /\ IF OrderAsserts
       THEN /\ linearOrder' = LinearOrder
            /\ left' = Len(LinearOrder)
            /\ program' \in Programs(graph)
            /\ liveStage' = "ranges"
       ELSE /\ liveStage' = "abort"
            /\ UNCHANGED <<linearOrder, left, program>>
    /\ UNCHANGED <<allVars, liveSets, intervals>>

(* fillLiveNumbers: the interval of a block, and the number of its k-th      *)
(* instruction that is not a phi.  Phis have the number of the block.        *)
BlockStart(b) ==
    LET before == SubSeq(linearOrder, 1, SelectInSeq(linearOrder, LAMBDA c : c = b) - 1)
    IN  FoldLeft(LAMBDA n, c : n + kLiveNumStep * (Len(NonPhis(c)) + 1), 0, before)
BlockEnd(b) == BlockStart(b) + kLiveNumStep * (Len(NonPhis(b)) + 1)
LiveNum(b, k) == BlockStart(b) + kLiveNumStep * k

(* updateLiveInterval of each value in vs.                                   *)
Updated(ivs, vs, s, e) ==
    [v \in DOMAIN ivs \cup vs |->
        IF v \notin vs THEN ivs[v]
        ELSE IF v \notin DOMAIN ivs THEN [start |-> s, end |-> e]
        ELSE [start |-> Min({s, ivs[v].start}), end |-> Max({e, ivs[v].end})]]

(* Mutant: the phis of the successors are not looked at.                     *)
InitLiveSetNoPhis(b) == UNION {liveSets[s] : s \in ToSet(succ[b]) \cap DOMAIN liveSets}

(* calcInitLiveSet: what is live into the successors that were walked, and   *)
(* what their phis take from b.  b has its own set by then, an empty one, so *)
(* that its phis count if it leads to itself.                                *)
InitLiveSet(b) ==
    LET met == ToSet(succ[b]) \cap (DOMAIN liveSets \cup {b})
        phiEntries == UNION {program.entries[p] : p \in UNION {ToSet(Phis(s)) : s \in met}}
    IN  UNION {liveSets[s] : s \in met \ {b}} \cup {e[1] : e \in {f \in phiEntries : f[2] = b}}

(* The walk of calcLiveRanges over the instructions of b from the last to    *)
(* the first.  ok: setStart turned no interval around, and processInputs did *)
(* not ask a return without a value for it.                                  *)
WalkInsts(b, live, ivs) ==
    LET insts == NonPhis(b) IN
    FoldRight(LAMBDA k, s :
                LET i == insts[k]
                    num == LiveNum(b, k)
                    own == IF i \in DOMAIN s.ivs
                           THEN [s.ivs EXCEPT ![i].start = num]
                           ELSE s.ivs @@ (i :> [start |-> num, end |-> num + kLiveNumStep])
                IN  [live |-> (s.live \ {i}) \cup program.uses[i],
                     ivs |-> Updated(own, program.uses[i], BlockStart(b), num),
                     ok |-> s.ok /\ own[i].start <= own[i].end /\ program.type[i] # "void"],
              [k \in DOMAIN insts |-> k],
              [live |-> live, ivs |-> ivs, ok |-> TRUE])

(* Mutant: the other end of the body.                                        *)
LastBBBack(h) == Last(body[h]).id

(* getLastBB: the body begins with the source of a back edge, always a node. *)
LastBB(h) == body[h][1].id

(* An iteration of the loop of calcLiveRanges.  What is live into the header *)
(* of a reducible loop is so up to the end of the loop.                      *)
WalkBlock ==
    /\ liveStage = "ranges" /\ left > 0
    /\ LET b == linearOrder[left]
           init == InitLiveSet(b)
           walked1 == WalkInsts(b, init, Updated(intervals, init, BlockStart(b), BlockEnd(b)))
           liveIn == walked1.live \ ToSet(Phis(b))
       IN  IF ~walked1.ok
           THEN liveStage' = "abort" /\ UNCHANGED <<left, liveSets, intervals>>
           ELSE /\ liveSets' = liveSets @@ (b :> liveIn)
                /\ intervals' = IF loopOf[b] = b /\ reducible[b]
                                THEN Updated(walked1.ivs, liveIn, BlockStart(b), BlockEnd(LastBB(b)))
                                ELSE walked1.ivs
                /\ left' = left - 1
                /\ UNCHANGED liveStage
    /\ UNCHANGED <<allVars, program, linearOrder>>

(* The end of calcLiveRanges: what produces no value has an empty interval.  *)
Shrink ==
    /\ liveStage = "ranges" /\ left = 0
    /\ intervals' = [v \in DOMAIN intervals |->
                       IF program.type[v] \in {"effect", "void"}
                       THEN [intervals[v] EXCEPT !.end = intervals[v].start]
                       ELSE intervals[v]]
    /\ liveStage' = "done"
    /\ UNCHANGED <<allVars, program, linearOrder, left, liveSets>>

(* The constructor has returned, or did not get so far.                      *)
LivenessTerminated ==
    /\ liveStage \in {"done", "abort"} \/ phase = "throw"
    /\ UNCHANGED everyVar

LiveNext == LoopStep \/ BuildLinearOrder \/ WalkBlock \/ Shrink \/ LivenessTerminated

LiveSpec == LiveInit /\ [][LiveNext]_everyVar

(* A search and a walk that were begun go on.                                *)
LiveFairSpec ==
    LiveSpec /\ WF_everyVar(DfsStep /\ UNCHANGED <<loopVars, liveVars>>)
             /\ WF_everyVar((WalkBack \/ WalkUp \/ PopulateReturn) /\ UNCHANGED liveVars)

-----------------------------------------------------------------------------
(* What is live where, by definition.  A value is used in a block by an      *)
(* instruction, and at the end of a block by a phi behind it.                *)
Values ==
    {i \in UNION {ToSet(program.code[b]) : b \in Discovered} : program.type[i] \in {"value", "phi"}}

Position(v) ==
    CHOOSE p \in {<<b, k>> : b \in Discovered, k \in 1 .. Cardinality(DOMAIN program.type)} :
        p[2] \in DOMAIN program.code[p[1]] /\ program.code[p[1]][p[2]] = v
Block(v) == Position(v)[1]

UsedAfter(v, b, k) ==
    \E j \in DOMAIN program.code[b] : j > k /\ v \in program.uses[program.code[b][j]]

UsedAtEnd(v, b) ==
    \E s \in ToSet(succ[b]) : \E p \in ToSet(Phis(s)) : <<v, b>> \in program.entries[p]

(* The blocks into which v is live: from their first instruction some path   *)
(* leads to a use and does not pass the definition.                          *)
LiveInBlocks(v) ==
    LET upTo[k \in 0 .. Cardinality(Nodes)] ==
          IF k = 0 THEN {b \in Discovered \ {Block(v)} : UsedAfter(v, b, 0) \/ UsedAtEnd(v, b)}
          ELSE LET bs == upTo[k - 1]
               IN  bs \cup {b \in Discovered \ {Block(v)} : ToSet(succ[b]) \cap bs # {}}
    IN  upTo[Cardinality(Nodes)]

LiveOut(v, b) == UsedAtEnd(v, b) \/ ToSet(succ[b]) \cap LiveInBlocks(v) # {}

(* v is needed after the definition of w, and was there before or with it.   *)
LiveAcross(v, w) ==
    LET b == Position(w)[1]
        k == IF program.type[w] = "phi" THEN Len(Phis(b)) ELSE Position(w)[2]
    IN  /\ b \in LiveInBlocks(v) \/ (Block(v) = b /\ Position(v)[2] <= k)
        /\ UsedAfter(v, b, k) \/ LiveOut(v, b)

Apart(v, w) ==
    \/ {v, w} \subseteq DOMAIN intervals /\ intervals[v].start < intervals[w].end
                                         /\ intervals[w].start < intervals[v].end
    \/ w \notin DOMAIN intervals

(* The type invariant.                                                       *)
LiveTypeOK ==
    /\ LoopTypeOK
    /\ liveStage \in {"order", "ranges", "done", "abort"}
    /\ ToSet(linearOrder) \subseteq Discovered
    /\ left \in 0 .. Cardinality(Nodes)
    /\ DOMAIN liveSets \subseteq Discovered
    /\ \A b \in DOMAIN liveSets : liveSets[b] \subseteq Values
    /\ \A v \in DOMAIN intervals : intervals[v].start \in Nat /\ intervals[v].end \in Nat
    /\ liveStage = "done" => \A v \in DOMAIN intervals : intervals[v].start <= intervals[v].end

(* Every loop of the function has one header, the walk of populate is made   *)
(* for it, and no block jumps back twice.                                    *)
Reducible ==
    Structured /\ IsInjective(backEdges) /\ \A h \in Heads : reducible[h]

Rank(b) == SelectInSeq(linearOrder, LAMBDA c : c = b)

(* In the linear order of a reducible function the blocks of a loop stand    *)
(* side by side, from the header to the block that getLastBB answers.        *)
LoopsContiguous ==
    linearOrder # << >> /\ Reducible =>
        \A h \in Heads :
            {Rank(b) : b \in NaturalLoop(h)} = Rank(h) .. Rank(LastBB(h))

(* v is what a phi takes over a back edge.                                   *)
LoopCarried(v) ==
    \E e \in ToSet(backEdges) : \E q \in ToSet(Phis(e[2])) : <<v, e[1]>> \in program.entries[q]

(* No edge but the back edges leads back in the linear order.                *)
ForwardOrder ==
    \A b \in Discovered : \A s \in ToSet(succ[b]) :
        Rank(b) < Rank(s) \/ Contains(backEdges, <<b, s>>)

(* Two values of which one is needed after the other is defined have         *)
(* overlapping intervals: the register allocator keeps them apart.           *)
IntervalsKeepApart ==
    liveStage = "done" /\ Reducible /\ ForwardOrder =>
        \A v, w \in Values : v # w /\ ~LoopCarried(v) /\ LiveAcross(v, w) => Apart(v, w)

(* The analysis of a reducible function ends early only for a return without *)
(* a value.                                                                  *)
RangesComplete ==
    liveStage = "abort" /\ Reducible =>
        linearOrder # << >> /\ \E b \in Discovered : program.type[Last(program.code[b])] = "void"

(* What is live into a successor is united with what is live out of a block, *)
(* whichever of the two stands first in the linear order: the intervals of   *)
(* every two values of a reducible function that may not share a register    *)
(* overlap.                                                                  *)
AllKeptApart ==
    liveStage = "done" /\ Reducible =>
        \A v, w \in Values : v # w /\ LiveAcross(v, w) => Apart(v, w)
=============================================================================
