----------------------------- MODULE BlockLinks -----------------------------
(* The control-flow links of include/ir/basic_block.hh and the block list of *)
(* include/ir/function.hh.  A link is stored twice, in m_succ of one block   *)
(* and in m_pred of the other, and beside both stands the terminator it was  *)
(* made from; updateLinks rebuilds the links from the last instruction.      *)
(* A block is modelled by the targets of its last instruction: none, one     *)
(* (JumpInstr) or two (IfInstr); the instructions before it have none.       *)
EXTENDS Integers, Sequences, FiniteSets

CONSTANTS BBs,             \* the addresses of basic blocks, never reused
          MaxSucc          \* bound: the longest m_succ

ASSUME MaxSuccAssumption == MaxSucc \in Nat

VARIABLES
    life,                  \* "new", "alive" or "erased"
    targets,               \* the targets of the last instruction
    succ,                  \* m_succ
    pred,                  \* m_pred: how often each block is in it
    aborted                \* an assertion failed or freed memory was used

vars == <<life, targets, succ, pred, aborted>>

Alive == {b \in BBs : life[b] = "alive"}
Count(s, x) == Cardinality({k \in DOMAIN s : s[k] = x})

Init ==
    /\ life = [b \in BBs |-> "new"]
    /\ targets = [b \in BBs |-> << >>]
    /\ succ = [b \in BBs |-> << >>]
    /\ pred = [b \in BBs |-> [p \in BBs |-> 0]]
    /\ aborted = FALSE

(* Function::appendBB.                                                       *)
AppendBB(b) ==
    /\ ~aborted /\ life[b] = "new"
    /\ life' = [life EXCEPT ![b] = "alive"]
    /\ UNCHANGED <<targets, succ, pred, aborted>>

(* Mutant: the successor does not learn of its predecessor.                  *)
LinkPredsNone(p, b, ts) == p

(* linkBBs for each of ts, in a graph with predecessors p.                   *)
LinkPreds(p, b, ts) == [c \in BBs |-> [p[c] EXCEPT ![b] = @ + Count(ts, c)]]

(* linkSucc and linkPred.                                                    *)
LinkSucc(b, c) ==
    /\ ~aborted /\ b \in Alive /\ c \in Alive /\ Len(succ[b]) < MaxSucc
    /\ succ' = [succ EXCEPT ![b] = Append(@, c)]
    /\ pred' = LinkPreds(pred, b, <<c>>)
    /\ UNCHANGED <<life, targets, aborted>>

(* vector::erase of element k among the first n: the ones behind it move     *)
(* down, and the memory past the new end keeps what it held.                 *)
EraseAt(mem, n, k) == [j \in DOMAIN mem |-> IF k <= j /\ j < n THEN mem[j + 1] ELSE mem[j]]

(* Mutant: the walk leaves its last successor linked.                        *)
UnlinkLoopAborts(b) == [mem |-> succ[b], n |-> 1, pred |-> pred, ok |-> Len(succ[b]) < 2]

(* Where std::find stops: the first of the slots F.                          *)
First(F) == CHOOSE j \in F : \A l \in F : j <= l

(* One round of the loop below, unlinkBBs(b, x): the first entry of x in     *)
(* m_succ and one of b in m_pred of x go; a missing one fails an assertion.  *)
UnlinkRound(b, r, k) ==
    LET x == r.mem[k]
        found == {j \in 1 .. r.n : r.mem[j] = x}
    IN  IF ~r.ok \/ x \notin Alive \/ r.pred[x][b] = 0 \/ found = {}
        THEN [r EXCEPT !.ok = FALSE]
        ELSE [mem |-> EraseAt(r.mem, r.n, First(found)),
              n |-> r.n - 1,
              pred |-> [r.pred EXCEPT ![x][b] = @ - 1],
              ok |-> TRUE]

(* The loop of updateLinks over m_succ, from which unlinkBBs erases while    *)
(* the loop walks it: the k-th round reads slot k of the memory that the     *)
(* vector had at the start, whatever the erasures have left there.  mem is   *)
(* that memory, n the number of its slots still in the vector.               *)
UnlinkLoop(b) ==
    LET total == Len(succ[b])
        round[k \in 0 .. total] ==
            IF k = 0 THEN [mem |-> succ[b], n |-> total, pred |-> pred, ok |-> TRUE]
            ELSE UnlinkRound(b, round[k - 1], k)
    IN  round[total]

Abort == aborted' = TRUE /\ UNCHANGED <<life, targets, succ, pred>>

(* updateLinks of b, whose last instruction has the targets ts; a terminator *)
(* names blocks of the function.                                             *)
UpdateLinks(b, ts) ==
    LET r == UnlinkLoop(b) IN
    /\ r.ok
    /\ succ' = [succ EXCEPT ![b] = ts]
    /\ pred' = LinkPreds(r.pred, b, ts)

(* pushInstBack of an instruction with targets ts.                           *)
PushInstBack(b, ts) ==
    /\ ~aborted /\ b \in Alive
    /\ \/ /\ UpdateLinks(b, ts)
          /\ targets' = [targets EXCEPT ![b] = ts]
          /\ UNCHANGED <<life, aborted>>
       \/ ~UnlinkLoop(b).ok /\ Abort

(* Mutant: the links of the receiving block are not updated.                 *)
SpliceTailStale(b, c) ==
    /\ ~aborted /\ b \in Alive /\ c \in Alive /\ b # c
    /\ targets' = [targets EXCEPT ![b] = targets[c], ![c] = << >>]
    /\ UNCHANGED <<life, succ, pred, aborted>>

(* b.splice(b.end(), pivot, c.end()): b gets the end of c, c keeps its links *)
(* to the targets of a terminator it has no longer.                          *)
SpliceTail(b, c) ==
    /\ ~aborted /\ b \in Alive /\ c \in Alive /\ b # c
    /\ \A k \in DOMAIN targets[c] : targets[c][k] \in Alive
    /\ \/ /\ UpdateLinks(b, targets[c])
          /\ targets' = [targets EXCEPT ![b] = targets[c], ![c] = << >>]
          /\ UNCHANGED <<life, aborted>>
       \/ ~UnlinkLoop(b).ok /\ Abort

(* Function::eraseBB frees the block; no link is undone.  Inlining erases    *)
(* the first block of the callee, emptied by splice just before.             *)
EraseBB(b) ==
    /\ ~aborted /\ b \in Alive /\ targets[b] = << >>
    /\ life' = [life EXCEPT ![b] = "erased"]
    /\ UNCHANGED <<targets, succ, pred, aborted>>

TargetLists == {<< >>} \cup {<<t>> : t \in Alive} \cup {<<t, f>> : t, f \in Alive}

Next ==
    \/ \E b \in BBs : AppendBB(b) \/ EraseBB(b)
    \/ \E b \in BBs : \E ts \in TargetLists : PushInstBack(b, ts)
    \/ \E b, c \in BBs : LinkSucc(b, c) \/ SpliceTail(b, c)

Spec == Init /\ [][Next]_vars

-----------------------------------------------------------------------------
(* The type invariant.                                                       *)
TypeOK ==
    /\ life \in [BBs -> {"new", "alive", "erased"}]
    /\ targets \in [BBs -> Seq(BBs)]
    /\ succ \in [BBs -> Seq(BBs)]
    /\ pred \in [BBs -> [BBs -> Nat]]
    /\ aborted \in BOOLEAN

(* Every link is stored at both its ends, as often at one as at the other:   *)
(* no order of links, terminators, splices and erasures separates m_succ     *)
(* from m_pred.                                                              *)
LinksPaired == \A b, c \in BBs : Count(succ[b], c) = pred[c][b]

(* Walking m_succ while erasing from it does no harm to a block with at most *)
(* two successors whose targets have not been erased: the assertions of      *)
(* updateLinks and unlinkBBs fail only beyond that.                          *)
AbortOnlyBeyondTwo ==
    [][aborted' /\ ~aborted =>
          \E b \in BBs : \/ Len(succ[b]) > 2
                         \/ \E k \in DOMAIN succ[b] : succ[b][k] \notin Alive]_vars

(* Where an instruction with targets is last, the block's successors are its *)
(* targets, in its order, before those anyone linked by hand.                *)
LinksFollowTerminator ==
    \A b \in Alive : targets[b] # << >> =>
        /\ Len(targets[b]) <= Len(succ[b])
        /\ \A k \in DOMAIN targets[b] : succ[b][k] = targets[b][k]
=============================================================================
