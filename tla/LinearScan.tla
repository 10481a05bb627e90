----------------------------- MODULE LinearScan -----------------------------
(* RegAllocator of include/analysis/regalloc.hh: the linear scan over the    *)
(* live intervals the liveness analysis produced.  The scan is sequential;   *)
(* what varies is the intervals and the order among intervals that start     *)
(* together, which std::sort leaves open over an unordered_map.              *)
EXTENDS RegisterPool

CONSTANTS Vals,            \* the values with a live interval
          Positions,       \* the live numbers of the linear order
          NoInterval       \* no interval is being placed

ASSUME PositionsAssumption == Positions \subseteq Nat
ASSUME ValsAssumption == IsFiniteSet(Vals) /\ NoInterval \notin Vals

kIvalidRegId == -1         \* the largest size_t in the code: no register, no slot

VARIABLES
    start, end,            \* m_start and m_end of every LiveInterval
    locId, onStack,        \* m_locationId and m_onStack of every LiveInterval
    pending,               \* the rest of m_liveIntervals, to be scanned
    liveIn,                \* the interval in the body of linearScan's loop
    active,                \* m_active, ordered by end
    stackPos,              \* m_stackPos
    pc                     \* where linearScan is

scanVars == <<start, end, locId, onStack, pending, liveIn, active, stackPos, pc>>
vars == <<poolVars, scanVars>>

intervals == <<start, end>>

Empty(v) == start[v] = end[v]

(* Every interval satisfies validate(); buildSortedLiveIntervals keeps the   *)
(* ones that are not empty.                                                  *)
Init ==
    /\ PoolInit
    /\ start \in [Vals -> Positions]
    /\ end \in [Vals -> Positions]
    /\ \A v \in Vals : start[v] <= end[v]
    /\ locId = [v \in Vals |-> kIvalidRegId]
    /\ onStack = [v \in Vals |-> FALSE]
    /\ pending = {v \in Vals : ~Empty(v)}
    /\ liveIn = NoInterval
    /\ active = {}
    /\ stackPos = 0
    /\ pc = "next"

(* An LJIT_ASSERT fails: the process ends.                                   *)
Abort ==
    /\ pc' = "abort"
    /\ UNCHANGED <<poolVars, intervals, locId, onStack, pending, liveIn, active, stackPos>>

(* The end of the body of linearScan's loop.                                 *)
EndBody == pc' = "next" /\ liveIn' = NoInterval

(* Mutant: the interval stays in the list.                                   *)
NextIntervalAgain(v) ==
    /\ pc = "next"
    /\ v \in pending
    /\ \A w \in pending : start[v] <= start[w]
    /\ liveIn' = v
    /\ pc' = "expire"
    /\ UNCHANGED <<poolVars, intervals, locId, onStack, pending, active, stackPos>>

(* The loop header of linearScan: the next interval in order of start.       *)
NextInterval(v) ==
    /\ pc = "next"
    /\ v \in pending
    /\ \A w \in pending : start[v] <= start[w]
    /\ liveIn' = v
    /\ pending' = pending \ {v}
    /\ pc' = "expire"
    /\ UNCHANGED <<poolVars, intervals, locId, onStack, active, stackPos>>

(* Mutants: expiry one position early and one position late.                 *)
ExpiredEarly(a) == end[a] <= start[liveIn] + 1
ExpiredLate(a) == end[a] < start[liveIn]

(* The exit test of expireOldIntervals, negated.                             *)
Expired(a) == end[a] <= start[liveIn]

(* *m_active.begin() and *std::prev(m_active.end()): m_active is ordered by  *)
(* the ends alone, so either is any interval with an extremal end.           *)
FirstActive(a) == a \in active /\ \A b \in active : end[a] <= end[b]

LastActive(a) == a \in active /\ \A b \in active : end[b] <= end[a]

(* An iteration of expireOldIntervals.                                       *)
Expire(a) ==
    /\ pc = "expire"
    /\ FirstActive(a)
    /\ Expired(a)
    /\ IF ~onStack[a] /\ DeallocateAsserts(locId[a])
       THEN /\ DeallocateReg(locId[a])
            /\ active' = active \ {a}
            /\ UNCHANGED <<intervals, locId, onStack, pending, liveIn, stackPos, pc>>
       ELSE Abort

(* expireOldIntervals returns: m_active is exhausted, or its first interval  *)
(* outlives the start of liveIn.                                             *)
ExpireReturn ==
    /\ pc = "expire"
    /\ active = {} \/ \E a \in active : FirstActive(a) /\ ~Expired(a)
    /\ pc' = "place"
    /\ UNCHANGED <<poolVars, intervals, locId, onStack, pending, liveIn, active, stackPos>>

(* linearScan gives liveIn a free register.                                  *)
Allocate ==
    /\ pc = "place"
    /\ Cardinality(active) # kNumRegs
    /\ IF AllocateFails
       THEN Abort
       ELSE /\ \E i \in RegIds : /\ AllocateReg(i)
                                 /\ locId' = [locId EXCEPT ![liveIn] = i]
            /\ active' = active \cup {liveIn}
            /\ EndBody
            /\ UNCHANGED <<intervals, onStack, pending, stackPos>>

(* Mutant: the slot counter stands still.                                    *)
MoveToStackSameSlot(v, ids) ==
    /\ locId' = [ids EXCEPT ![v] = stackPos]
    /\ onStack' = [onStack EXCEPT ![v] = TRUE]
    /\ UNCHANGED stackPos

(* moveToStack(v); ids is locId as the caller left it.                       *)
MoveToStack(v, ids) ==
    /\ locId' = [ids EXCEPT ![v] = stackPos]
    /\ onStack' = [onStack EXCEPT ![v] = TRUE]
    /\ stackPos' = stackPos + 1

(* Mutant: the comparison is the other way round.                            *)
OutlivesSwapped(s) == end[s] < end[liveIn]

(* The test of spillAtInterval, whose first branch makes s give way.         *)
Outlives(s) == end[s] > end[liveIn]

(* Mutant: liveIn does not receive the register it takes over.               *)
SpillActiveKeepsRegister(spill) ==
    /\ pc = "place"
    /\ Cardinality(active) = kNumRegs
    /\ LastActive(spill)
    /\ Outlives(spill)
    /\ MoveToStack(spill, locId)
    /\ active' = (active \ {spill}) \cup {liveIn}
    /\ EndBody
    /\ UNCHANGED <<poolVars, intervals, pending>>

(* spillAtInterval hands the register of spill to liveIn.                    *)
SpillActive(spill) ==
    /\ pc = "place"
    /\ Cardinality(active) = kNumRegs
    /\ LastActive(spill)
    /\ Outlives(spill)
    /\ IF onStack[spill]
       THEN Abort
       ELSE /\ MoveToStack(spill, [locId EXCEPT ![liveIn] = locId[spill]])
            /\ active' = (active \ {spill}) \cup {liveIn}
            /\ EndBody
            /\ UNCHANGED <<poolVars, intervals, pending>>

(* spillAtInterval moves liveIn itself to the stack.                         *)
SpillCurrent ==
    /\ pc = "place"
    /\ Cardinality(active) = kNumRegs
    /\ \E s \in active : LastActive(s) /\ ~Outlives(s)
    /\ MoveToStack(liveIn, locId)
    /\ EndBody
    /\ UNCHANGED <<poolVars, intervals, pending, active>>

(* linearScan returns; from here on getLocation answers queries.             *)
Finish ==
    /\ pc = "next"
    /\ pending = {}
    /\ pc' = "done"
    /\ UNCHANGED <<poolVars, intervals, locId, onStack, pending, liveIn, active, stackPos>>

Next ==
    \/ \E v \in Vals : NextInterval(v) \/ Expire(v) \/ SpillActive(v)
    \/ ExpireReturn
    \/ Allocate
    \/ SpillCurrent
    \/ Finish

Spec == Init /\ [][Next]_vars

(* The scan is a plain function call: it runs as long as it has a step.      *)
FairSpec == Spec /\ WF_vars(Next)

-----------------------------------------------------------------------------
(* The type invariant.                                                       *)
TypeOK ==
    /\ useCount \in Nat
    /\ regs \subseteq RegIds
    /\ start \in [Vals -> Positions] /\ end \in [Vals -> Positions]
    /\ locId \in [Vals -> Nat \cup {kIvalidRegId}]
    /\ onStack \in [Vals -> BOOLEAN]
    /\ pending \subseteq Vals /\ active \subseteq Vals
    /\ liveIn \in Vals \cup {NoInterval}
    /\ pc \in {"expire", "place"} => liveIn \in Vals
    /\ stackPos \in Nat
    /\ pc \in {"next", "expire", "place", "done", "abort"}

Overlap(v, w) == start[v] < end[w] /\ start[w] < end[v]

Placed(v) == locId[v] # kIvalidRegId
InRegister(v) == Placed(v) /\ ~onStack[v]

(* No LJIT_ASSERT of RegAllocator or RegisterPool ever fires.                *)
NoAssertionFails == pc # "abort"

(* Two values whose live intervals overlap never hold the same register,     *)
(* whatever was expired and handed on in between.                            *)
NoRegisterConflict ==
    \A v, w \in Vals : v # w /\ InRegister(v) /\ InRegister(w) /\ Overlap(v, w)
                       => locId[v] # locId[w]

(* m_stackPos hands out every stack slot once: no two spilled values share   *)
(* one, even when their intervals are disjoint.                              *)
StackSlotsDistinct ==
    \A v, w \in Vals : v # w /\ onStack[v] /\ onStack[w] => locId[v] # locId[w]

(* The pool's bits are exactly the registers of the active intervals and its *)
(* counter is their number: what lets linearScan test m_active.size() and    *)
(* then rely on the pool to have a register.                                 *)
PoolMatchesActive ==
    /\ regs = {locId[a] : a \in active}
    /\ useCount = Cardinality(active)

LiveAt(p) == {u \in Vals : start[u] <= p /\ p < end[u]}

(* A value goes to the stack only if, somewhere in its live interval, more   *)
(* values than there are registers are live.                                 *)
SpillOnlyUnderPressure ==
    \A v \in Vals : onStack[v] =>
        \E p \in Positions : v \in LiveAt(p) /\ Cardinality(LiveAt(p)) > kNumRegs

(* When the scan is over every value that is live anywhere has a location    *)
(* and the others have none: getLocation never shows kIvalidRegId.           *)
AllPlacedWhenDone == pc = "done" => \A v \in Vals : Placed(v) <=> ~Empty(v)

Kept == {v \in Vals : InRegister(v)}

(* S could be kept in registers altogether.                                  *)
Fits(S) == \A p \in Positions : Cardinality(S \cap LiveAt(p)) <= kNumRegs

(* Spilling the interval that ends last keeps as many values in registers as *)
(* any set of values that fits the registers at every position.              *)
MinimalSpills ==
    pc = "done" =>
        \A S \in SUBSET {v \in Vals : ~Empty(v)} :
            Fits(S) => Cardinality(S) <= Cardinality(Kept)

(* A spill is final: a value on the stack keeps its slot, and a value with a *)
(* register keeps it or goes to the stack, never to another register.        *)
SpillIsFinal ==
    [][\A v \in Vals : Placed(v) =>
          (locId'[v] = locId[v] /\ onStack'[v] = onStack[v])
          \/ (~onStack[v] /\ onStack'[v])]_vars

(* The scan ends: expireOldIntervals and linearScan terminate.               *)
Termination == <>(pc = "done")

-----------------------------------------------------------------------------
(* The inductive invariant behind the theorems of LinearScan_proofs: the     *)
(* scan's bookkeeping, by the fate of each value.                            *)
InBody == pc \in {"expire", "place"}

(* The intervals still to be placed: the rest of the list and liveIn.        *)
Waiting(v) == v \in pending \/ (InBody /\ v = liveIn)

WaitingInv ==
    /\ \A v \in Vals : Waiting(v) => ~Placed(v) /\ ~onStack[v] /\ start[v] < end[v]
    /\ \A v \in Vals : Placed(v) \/ Waiting(v) \/ Empty(v)
    /\ \A v \in Vals : Placed(v) => start[v] < end[v]
    /\ InBody => liveIn \notin pending /\ \A w \in pending : start[liveIn] <= start[w]

(* Intervals are placed in the order of their starts.                        *)
OrderInv == \A v, w \in Vals : Placed(v) /\ Waiting(w) => start[v] <= start[w]

ActiveInv ==
    /\ \A a \in active : ~onStack[a] /\ locId[a] \in RegIds
    /\ \A a, b \in active : locId[a] = locId[b] => a = b
    /\ Cardinality(regs) = useCount
    /\ useCount <= kNumRegs

(* A value whose register was given back is dead for all that is to come.    *)
RetiredInv ==
    \A v, w \in Vals : InRegister(v) /\ v \notin active /\ Waiting(w) => end[v] <= start[w]

ExpiredInv == pc = "place" => \A a \in active : start[liveIn] < end[a]

StackInv == \A v \in Vals : onStack[v] => locId[v] \in 0 .. stackPos - 1

IndInv ==
    /\ TypeOK /\ NoAssertionFails /\ PoolMatchesActive
    /\ WaitingInv /\ OrderInv /\ ActiveInv /\ RetiredInv /\ ExpiredInv /\ StackInv
    /\ NoRegisterConflict /\ StackSlotsDistinct /\ SpillOnlyUnderPressure
    /\ pc = "done" => pending = {}

(* Why the greedy choice is the best: against any rival set S that fits, the *)
(* scan has never spilled more than S left out, and where it keeps more      *)
(* values beyond a position than S does it has spilled fewer by as many.     *)
Seen == {v \in Vals : Placed(v)}
Spilled == {v \in Vals : onStack[v]}
Past(T, p) == {v \in T : end[v] > p}

GreedyInv ==
    \A S \in SUBSET Vals : Fits(S) =>
        /\ Cardinality(Spilled) <= Cardinality(Seen \ S)
        /\ \A p \in Positions :
              Cardinality(Past(Kept, p)) + Cardinality(Spilled)
              <= Cardinality(Past(S \cap Seen, p)) + Cardinality(Seen \ S)

-----------------------------------------------------------------------------
(* The scan implements the abstract assignment of locations.                 *)
Assignment == INSTANCE LocationAssignment WITH
    loc <- [v \in Vals |->
              IF locId[v] = kIvalidRegId THEN [kind |-> "none", id |-> 0]
              ELSE [kind |-> IF onStack[v] THEN "stack" ELSE "reg", id |-> locId[v]]]

AssignmentSpec == Assignment!Spec
=============================================================================
