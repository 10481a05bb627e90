---------------------------- MODULE RegisterPool ----------------------------
(* RegisterPool<NumRegs> of include/analysis/regalloc.hh: a bit set of the   *)
(* registers in use beside a counter of them.  The two are redundant; both   *)
(* assertions of deallocateReg and the unreachable end of allocateReg rely   *)
(* on their agreement.                                                       *)
EXTENDS Integers, FiniteSets

CONSTANT kNumRegs          \* the template argument NumRegs

ASSUME NumRegsAssumption == kNumRegs \in Nat \ {0}

VARIABLES useCount,        \* m_useCount
          regs             \* m_regs, as the set of the indices whose bit is set

poolVars == <<useCount, regs>>

RegIds == 0 .. kNumRegs - 1

PoolInit == useCount = 0 /\ regs = {}

(* allocateReg answers nullopt when the counter says so, and falls off the   *)
(* end of its loop (LJIT_UNREACHABLE) when no bit is clear.                  *)
AllocateFails == useCount = kNumRegs \/ regs = RegIds

(* The register allocateReg takes is the lowest clear bit.                   *)
AllocateReg(i) ==
    /\ i \in RegIds \ regs
    /\ \A j \in RegIds \ regs : i <= j
    /\ regs' = regs \cup {i}
    /\ useCount' = useCount + 1

(* The three assertions of deallocateReg.                                    *)
DeallocateAsserts(i) == useCount # 0 /\ i \in RegIds /\ i \in regs

(* Mutants: the counter is not decremented; it is decremented twice.         *)
DeallocateRegKeepsCount(i) == regs' = regs \ {i} /\ UNCHANGED useCount
DeallocateRegTwice(i) == regs' = regs \ {i} /\ useCount' = useCount - 2

DeallocateReg(i) ==
    /\ regs' = regs \ {i}
    /\ useCount' = useCount - 1
=============================================================================
