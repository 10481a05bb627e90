-------------------------- MODULE LinearScan_proofs --------------------------
(* Proofs about LinearScan, for every number of registers, every finite set  *)
(* of values and every set of positions.                                     *)
EXTENDS LinearScan, FiniteSetTheorems, TLAPS

(* RegIds has kNumRegs elements, and sets of registers and values are finite *)
LEMMA FiniteFacts ==
    /\ IsFiniteSet(RegIds) /\ Cardinality(RegIds) = kNumRegs
    /\ \A S \in SUBSET RegIds : IsFiniteSet(S) /\ Cardinality(S) \in Nat
    /\ \A S \in SUBSET Vals : IsFiniteSet(S) /\ Cardinality(S) \in Nat
<1>1. kNumRegs \in Nat \ {0}
  BY NumRegsAssumption
<1>2. IsFiniteSet(RegIds) /\ Cardinality(RegIds) = kNumRegs
  BY <1>1, FS_Interval DEF RegIds
<1>3. \A S \in SUBSET RegIds : IsFiniteSet(S) /\ Cardinality(S) \in Nat
  BY <1>2, FS_Subset, FS_CardinalityType
<1>4. \A S \in SUBSET Vals : IsFiniteSet(S) /\ Cardinality(S) \in Nat
  BY ValsAssumption, FS_Subset, FS_CardinalityType
<1> QED BY <1>2, <1>3, <1>4

(* Positions are numbers.                                                    *)
LEMMA PositionsNat ==
    ASSUME NEW f \in [Vals -> Positions]
    PROVE  f \in [Vals -> Nat]
BY PositionsAssumption

(* Where kNumRegs intervals and one more are live together, the pressure     *)
(* exceeds the registers.                                                    *)
LEMMA Pressure ==
    ASSUME IndInv, pc = "place", Cardinality(active) = kNumRegs
    PROVE  /\ Cardinality(LiveAt(start[liveIn])) > kNumRegs
           /\ active \cup {liveIn} \subseteq LiveAt(start[liveIn])
           /\ start[liveIn] \in Positions
<1> DEFINE A == active \cup {liveIn}
           L == LiveAt(start[liveIn])
<1>1. liveIn \in Vals /\ active \subseteq Vals /\ start[liveIn] \in Positions
  BY DEF IndInv, TypeOK
<1>2. liveIn \notin active
  BY <1>1 DEF IndInv, WaitingInv, Waiting, InBody, ActiveInv, Placed, kIvalidRegId, RegIds
<1>3. A \subseteq L
  <2>1. liveIn \in L
    <3>1. Waiting(liveIn)
      BY DEF Waiting, InBody
    <3>2. start[liveIn] < end[liveIn]
      BY <3>1, <1>1 DEF IndInv, WaitingInv
    <3>3. start[liveIn] <= start[liveIn]
      BY <1>1, PositionsNat DEF IndInv, TypeOK
    <3> QED BY <3>2, <3>3, <1>1 DEF LiveAt
  <2>2. ASSUME NEW a \in active PROVE a \in L
    <3>1. Placed(a)
      BY DEF IndInv, ActiveInv, Placed, kIvalidRegId, RegIds
    <3>2. start[a] <= start[liveIn]
      BY <3>1, <1>1 DEF IndInv, OrderInv, Waiting, InBody
    <3>3. start[liveIn] < end[a] /\ a \in Vals
      BY <1>1 DEF IndInv, ExpiredInv
    <3> QED BY <3>2, <3>3 DEF LiveAt
  <2> QED BY <2>1, <2>2
<1>4. L \subseteq Vals
  BY DEF LiveAt
<1>5. Cardinality(A) = kNumRegs + 1
  BY <1>1, <1>2, FiniteFacts, FS_AddElement
<1>6. Cardinality(A) <= Cardinality(L)
  BY <1>3, <1>4, FiniteFacts, FS_Subset
<1>7. Cardinality(L) \in Nat /\ kNumRegs \in Nat
  BY <1>4, FiniteFacts, NumRegsAssumption
<1> QED BY <1>1, <1>3, <1>5, <1>6, <1>7

(* Before the scan nothing is placed, and every live value waits.            *)
LEMMA InitInv == Init => IndInv
<1> SUFFICES ASSUME Init PROVE IndInv
  OBVIOUS
<1> USE NumRegsAssumption, PositionsAssumption
<1>1. TypeOK /\ NoAssertionFails
  BY DEF Init, PoolInit, TypeOK, NoAssertionFails, kIvalidRegId
<1>2. PoolMatchesActive /\ ActiveInv
  BY SMT, FS_EmptySet DEF Init, PoolInit, PoolMatchesActive, ActiveInv
<1>3. WaitingInv
  <2>1. \A v \in Vals : ~Placed(v) /\ ~onStack[v] /\ (Waiting(v) <=> ~Empty(v))
    BY DEF Init, Waiting, InBody, Placed
  <2>2. \A v \in Vals : ~Empty(v) => start[v] < end[v]
    <3>1. start \in [Vals -> Nat] /\ end \in [Vals -> Nat]
      BY PositionsNat DEF Init
    <3> QED BY <3>1 DEF Init, Empty
  <2> QED BY <2>1, <2>2 DEF Init, WaitingInv, InBody
<1>4. OrderInv /\ RetiredInv /\ ExpiredInv /\ StackInv
  BY DEF Init, OrderInv, RetiredInv, ExpiredInv, StackInv, Placed, InRegister
<1>5. NoRegisterConflict /\ StackSlotsDistinct /\ SpillOnlyUnderPressure
  BY DEF Init, NoRegisterConflict, StackSlotsDistinct, SpillOnlyUnderPressure,
         InRegister, Placed
<1> QED BY <1>1, <1>2, <1>3, <1>4, <1>5 DEF IndInv, Init

(* Taking the next interval keeps the order in which intervals are placed.   *)
LEMMA NextIntervalInv ==
    ASSUME IndInv, NEW v \in Vals, NextInterval(v)
    PROVE  IndInv'
<1> USE DEF IndInv
<1>0. start \in [Vals -> Nat] /\ end \in [Vals -> Nat]
  BY PositionsNat DEF TypeOK
<1>1. TypeOK' /\ NoAssertionFails' /\ PoolMatchesActive' /\ ActiveInv'
  BY DEF NextInterval, poolVars, intervals, TypeOK, NoAssertionFails,
         PoolMatchesActive, ActiveInv
<1>2. \A w \in Vals : Waiting(w)' <=> Waiting(w)
  BY DEF NextInterval, Waiting, InBody
<1>3. WaitingInv'
  BY <1>2 DEF NextInterval, WaitingInv, InBody, Placed, Empty, intervals
<1>4. OrderInv' /\ RetiredInv' /\ ExpiredInv' /\ StackInv'
  BY <1>2 DEF NextInterval, OrderInv, RetiredInv, ExpiredInv, StackInv, Placed,
         InRegister, intervals
<1>5. NoRegisterConflict' /\ StackSlotsDistinct' /\ SpillOnlyUnderPressure'
  BY DEF NextInterval, NoRegisterConflict, StackSlotsDistinct,
         SpillOnlyUnderPressure, InRegister, Placed, Overlap, LiveAt, intervals
<1> QED BY <1>1, <1>3, <1>4, <1>5 DEF NextInterval

(* Giving a register back retires a value that ends before all that wait.    *)
LEMMA ExpireInv ==
    ASSUME IndInv, NEW a \in Vals, Expire(a)
    PROVE  IndInv'
<1> USE DEF IndInv
<1>0. start \in [Vals -> Nat] /\ end \in [Vals -> Nat]
  BY PositionsNat DEF TypeOK
<1>1. a \in active /\ liveIn \in Vals /\ end[a] <= start[liveIn] /\ pc = "expire"
  BY DEF Expire, FirstActive, Expired, TypeOK
<1>2. locId[a] \in regs /\ regs \subseteq RegIds /\ active \subseteq Vals
  BY <1>1 DEF PoolMatchesActive, TypeOK
<1>3. useCount = Cardinality(regs) /\ Cardinality(regs) # 0
  BY <1>2, FiniteFacts, FS_EmptySet DEF ActiveInv
<1>4. /\ DeallocateReg(locId[a])
      /\ active' = active \ {a}
      /\ UNCHANGED <<intervals, locId, onStack, pending, liveIn, stackPos, pc>>
  BY <1>1, <1>2, <1>3 DEF Expire, DeallocateAsserts, ActiveInv
<1>5. /\ Cardinality(regs') = Cardinality(regs) - 1
      /\ Cardinality(active') = Cardinality(active) - 1
      /\ useCount' = useCount - 1
  BY <1>1, <1>2, <1>4, FiniteFacts, FS_RemoveElement DEF DeallocateReg
<1>6. TypeOK' /\ NoAssertionFails'
  BY <1>2, <1>3, <1>4, <1>5, NumRegsAssumption
     DEF TypeOK, NoAssertionFails, DeallocateReg, intervals
<1>7. PoolMatchesActive'
  BY <1>1, <1>4, <1>5 DEF PoolMatchesActive, ActiveInv, DeallocateReg
<1>8. ActiveInv'
  BY <1>4, <1>5, <1>3, NumRegsAssumption DEF ActiveInv, TypeOK
<1>9. \A w \in Vals : Waiting(w)' <=> Waiting(w)
  BY <1>4 DEF Waiting, InBody
<1>10. WaitingInv' /\ OrderInv' /\ ExpiredInv' /\ StackInv'
  BY <1>1, <1>4, <1>9 DEF WaitingInv, OrderInv, ExpiredInv, StackInv, InBody,
         Placed, Empty, intervals
<1>11. RetiredInv'
  <2> SUFFICES ASSUME NEW v \in Vals, NEW w \in Vals, InRegister(v)', v \notin active',
                      Waiting(w)'
               PROVE  end[v] <= start[w]
    BY <1>4 DEF RetiredInv, intervals
  <2>1. InRegister(v) /\ Waiting(w)
    BY <1>4, <1>9 DEF InRegister, Placed
  <2>2. CASE v = a
    <3>1. start[liveIn] <= start[w]
      BY <1>0, <1>1, <2>1 DEF Waiting, WaitingInv, InBody
    <3> QED BY <1>0, <1>1, <2>2, <3>1
  <2>3. CASE v # a
    BY <1>4, <2>1, <2>3 DEF RetiredInv
  <2> QED BY <2>2, <2>3
<1>12. NoRegisterConflict' /\ StackSlotsDistinct' /\ SpillOnlyUnderPressure'
  BY <1>4 DEF NoRegisterConflict, StackSlotsDistinct,
         SpillOnlyUnderPressure, InRegister, Placed, Overlap, LiveAt, intervals
<1> QED BY <1>1, <1>4, <1>6, <1>7, <1>8, <1>10, <1>11, <1>12

(* After expiry every active interval outlives the start of liveIn.          *)
LEMMA ExpireReturnInv ==
    ASSUME IndInv, ExpireReturn
    PROVE  IndInv'
<1> USE DEF IndInv
<1>0. start \in [Vals -> Nat] /\ end \in [Vals -> Nat]
  BY PositionsNat DEF TypeOK
<1>1. TypeOK' /\ NoAssertionFails' /\ PoolMatchesActive' /\ ActiveInv'
  BY DEF ExpireReturn, poolVars, intervals, TypeOK, NoAssertionFails,
         PoolMatchesActive, ActiveInv
<1>2. \A w \in Vals : Waiting(w)' <=> Waiting(w)
  BY DEF ExpireReturn, Waiting, InBody
<1>3. WaitingInv'
  BY <1>2 DEF ExpireReturn, WaitingInv, InBody, Placed, Empty, intervals
<1>4. OrderInv' /\ RetiredInv' /\ StackInv'
  BY <1>2 DEF ExpireReturn, OrderInv, RetiredInv, StackInv, Placed, InRegister,
         intervals
<1>5. ExpiredInv'
  <2> SUFFICES ASSUME NEW a \in active PROVE start[liveIn] < end[a]
    BY DEF ExpireReturn, ExpiredInv, intervals
  <2>1. PICK b \in active : FirstActive(b) /\ ~Expired(b)
    BY DEF ExpireReturn
  <2>2. end[b] <= end[a] /\ ~(end[b] <= start[liveIn])
    BY <2>1 DEF FirstActive, Expired
  <2>3. a \in Vals /\ b \in Vals /\ liveIn \in Vals
    BY DEF TypeOK, ExpireReturn
  <2> QED BY <1>0, <2>2, <2>3
<1>6. NoRegisterConflict' /\ StackSlotsDistinct' /\ SpillOnlyUnderPressure'
  BY DEF ExpireReturn, NoRegisterConflict, StackSlotsDistinct,
         SpillOnlyUnderPressure, InRegister, Placed, Overlap, LiveAt, intervals
<1> QED BY <1>1, <1>3, <1>4, <1>5, <1>6 DEF ExpireReturn

(* What holds of liveIn whenever it is about to be placed.                   *)
LEMMA PlaceFacts ==
    ASSUME IndInv, pc = "place"
    PROVE  /\ liveIn \in Vals /\ liveIn \notin active /\ liveIn \notin pending
           /\ ~Placed(liveIn) /\ ~onStack[liveIn] /\ start[liveIn] < end[liveIn]
           /\ \A v \in Vals : Placed(v) => start[v] <= start[liveIn]
           /\ \A v \in Vals : InRegister(v) /\ v \notin active => ~Overlap(liveIn, v)
           /\ \A w \in pending : start[liveIn] <= start[w]
           /\ start \in [Vals -> Nat] /\ end \in [Vals -> Nat]
<1> USE DEF IndInv
<1>0. start \in [Vals -> Nat] /\ end \in [Vals -> Nat]
  BY PositionsNat DEF TypeOK
<1>1. liveIn \in Vals /\ Waiting(liveIn)
  BY DEF TypeOK, Waiting, InBody
<1>2. ~Placed(liveIn) /\ ~onStack[liveIn] /\ start[liveIn] < end[liveIn]
  BY <1>1 DEF WaitingInv
<1>3. liveIn \notin active
  BY <1>2 DEF ActiveInv, Placed, kIvalidRegId, RegIds
<1>4. liveIn \notin pending /\ \A w \in pending : start[liveIn] <= start[w]
  BY DEF WaitingInv, InBody
<1>5. \A v \in Vals : Placed(v) => start[v] <= start[liveIn]
  BY <1>1 DEF OrderInv
<1>6. \A v \in Vals : InRegister(v) /\ v \notin active => ~Overlap(liveIn, v)
  BY <1>0, <1>1 DEF RetiredInv, Overlap
<1> QED BY <1>0, <1>1, <1>2, <1>3, <1>4, <1>5, <1>6

(* How a step that places liveIn changes the set of waiting values, and what *)
(* it preserves whatever location it picks.                                  *)
LEMMA PlacedInv ==
    ASSUME IndInv, pc = "place", EndBody, UNCHANGED <<intervals, pending>>,
           \A v \in Vals : Placed(v)' <=> Placed(v) \/ v = liveIn,
           \A v \in pending : ~onStack'[v]
    PROVE  /\ \A w \in Vals : Waiting(w)' <=> Waiting(w) /\ w # liveIn
           /\ WaitingInv' /\ OrderInv' /\ ExpiredInv'
<1> USE DEF IndInv
<1>1. \A w \in Vals : Waiting(w)' <=> Waiting(w) /\ w # liveIn
  BY PlaceFacts DEF Waiting, InBody, EndBody
<1>2. \A w \in Vals : Waiting(w)' => w \in pending
  BY <1>1 DEF Waiting
<1>3. WaitingInv'
  <2>1. start' = start /\ end' = end /\ pending' = pending /\ ~InBody'
    BY DEF intervals, EndBody, InBody
  <2>2. ASSUME NEW v \in Vals, Waiting(v)'
        PROVE  ~Placed(v)' /\ ~onStack'[v] /\ start[v] < end[v]
    BY <1>1, <1>2, <2>2 DEF WaitingInv
  <2>3. \A v \in Vals : Placed(v)' \/ Waiting(v)' \/ Empty(v)'
    BY <1>1, <2>1 DEF WaitingInv, Empty
  <2>4. \A v \in Vals : Placed(v)' => start[v] < end[v]
    BY PlaceFacts DEF WaitingInv
  <2> QED BY <2>1, <2>2, <2>3, <2>4 DEF WaitingInv
<1>4. OrderInv' /\ ExpiredInv'
  BY PlaceFacts, <1>1, <1>2 DEF OrderInv, ExpiredInv, EndBody, intervals
<1> QED BY <1>1, <1>3, <1>4

(* A register of the pool is none of an overlapping value.                   *)
LEMMA AllocateInv ==
    ASSUME IndInv, Allocate
    PROVE  IndInv'
<1> USE DEF IndInv
<1>0. pc = "place" /\ Cardinality(active) # kNumRegs
  BY DEF Allocate
<1>1. ~AllocateFails
  BY <1>0, FiniteFacts DEF AllocateFails, PoolMatchesActive, ActiveInv
<1>2. PICK i \in RegIds : AllocateReg(i) /\ locId' = [locId EXCEPT ![liveIn] = i]
  BY <1>1 DEF Allocate
<1>3. /\ active' = active \cup {liveIn}
      /\ EndBody
      /\ UNCHANGED <<intervals, onStack, pending, stackPos>>
  BY <1>1 DEF Allocate
<1>4. /\ liveIn \in Vals /\ liveIn \notin active /\ liveIn \notin pending
      /\ ~onStack[liveIn] /\ active \subseteq Vals /\ locId \in [Vals -> Nat \cup {-1}]
      /\ regs \subseteq RegIds
  BY <1>0, PlaceFacts DEF TypeOK, kIvalidRegId
<1>5. /\ i \notin regs /\ regs' = regs \cup {i} /\ useCount' = useCount + 1
      /\ i \in Nat /\ i # -1
  BY <1>2, NumRegsAssumption DEF AllocateReg, RegIds
<1>6. /\ locId'[liveIn] = i
      /\ \A v \in Vals \ {liveIn} : locId'[v] = locId[v]
  BY <1>2, <1>4
<1>7. /\ Cardinality(regs') = Cardinality(regs) + 1
      /\ Cardinality(active') = Cardinality(active) + 1
  BY <1>3, <1>4, <1>5, FiniteFacts, FS_AddElement
<1>8. TypeOK' /\ NoAssertionFails'
  BY <1>2, <1>3, <1>4, <1>5, <1>7
     DEF TypeOK, NoAssertionFails, EndBody, intervals, kIvalidRegId
<1>9. PoolMatchesActive'
  <2>1. regs' = {locId'[a] : a \in active'}
    BY <1>3, <1>4, <1>5, <1>6 DEF PoolMatchesActive
  <2> QED BY <1>5, <1>7, <2>1 DEF PoolMatchesActive
<1>10. ActiveInv'
  <2>1. \A a \in active' : ~onStack'[a] /\ locId'[a] \in RegIds
    BY <1>2, <1>3, <1>4, <1>6 DEF ActiveInv
  <2>2. \A a, b \in active' : locId'[a] = locId'[b] => a = b
    BY <1>3, <1>4, <1>5, <1>6 DEF ActiveInv, PoolMatchesActive
  <2>3. Cardinality(regs') = useCount' /\ useCount' <= kNumRegs
    BY <1>0, <1>5, <1>7, FiniteFacts, NumRegsAssumption
       DEF ActiveInv, PoolMatchesActive, TypeOK
  <2> QED BY <2>1, <2>2, <2>3 DEF ActiveInv
<1>11. \A v \in Vals : Placed(v)' <=> Placed(v) \/ v = liveIn
  BY <1>4, <1>5, <1>6 DEF Placed, kIvalidRegId
<1>12. /\ \A w \in Vals : Waiting(w)' <=> Waiting(w) /\ w # liveIn
       /\ WaitingInv' /\ OrderInv' /\ ExpiredInv'
  <2>1. UNCHANGED <<intervals, pending>> /\ \A v \in pending : ~onStack'[v]
    BY <1>3 DEF WaitingInv, Waiting, TypeOK
  <2> QED BY <1>0, <1>3, <1>11, <2>1, PlacedInv
<1>13. RetiredInv'
  BY <1>3, <1>4, <1>11, <1>12 DEF RetiredInv, InRegister, intervals
<1>14. StackInv' /\ StackSlotsDistinct'
  BY <1>3, <1>4, <1>6 DEF StackInv, StackSlotsDistinct
<1>15. NoRegisterConflict'
  <2> SUFFICES ASSUME NEW v \in Vals, NEW w \in Vals, v # w, InRegister(v)',
                      InRegister(w)', Overlap(v, w), locId'[v] = locId'[w]
               PROVE  FALSE
    BY <1>3 DEF NoRegisterConflict, Overlap, intervals
  <2>1. \A u \in Vals \ {liveIn} :
           InRegister(u)' /\ Overlap(liveIn, u) => locId'[u] \in regs
    BY <1>0, <1>3, <1>6, <1>11, PlaceFacts DEF InRegister, PoolMatchesActive
  <2>2. Overlap(w, v)
    BY DEF Overlap
  <2>3. CASE v = liveIn
    BY <1>5, <1>6, <2>1, <2>3
  <2>4. CASE w = liveIn
    BY <1>5, <1>6, <2>1, <2>2, <2>4
  <2>5. CASE v # liveIn /\ w # liveIn
    BY <1>3, <1>6, <1>11, <2>5 DEF NoRegisterConflict, InRegister
  <2> QED BY <2>3, <2>4, <2>5
<1>16. SpillOnlyUnderPressure'
  BY <1>3 DEF SpillOnlyUnderPressure, LiveAt, intervals
<1> QED
  BY <1>3, <1>8, <1>9, <1>10, <1>12, <1>13, <1>14, <1>15, <1>16 DEF EndBody

(* The register of the spilled interval goes to liveIn, its slot is fresh.   *)
LEMMA SpillActiveInv ==
    ASSUME IndInv, NEW spill \in Vals, SpillActive(spill)
    PROVE  IndInv'
<1> USE DEF IndInv
<1>0. pc = "place" /\ Cardinality(active) = kNumRegs
  BY DEF SpillActive
<1>1. /\ spill \in active /\ liveIn \in Vals /\ liveIn \notin active
      /\ liveIn \notin pending /\ ~onStack[liveIn] /\ spill # liveIn
      /\ active \subseteq Vals /\ locId \in [Vals -> Nat \cup {-1}]
      /\ onStack \in [Vals -> BOOLEAN] /\ stackPos \in Nat
      /\ ~onStack[spill] /\ locId[spill] \in RegIds
      /\ locId[spill] \in Nat
  BY <1>0, PlaceFacts, NumRegsAssumption
     DEF SpillActive, LastActive, TypeOK, kIvalidRegId, ActiveInv, RegIds
<1>2. /\ MoveToStack(spill, [locId EXCEPT ![liveIn] = locId[spill]])
      /\ active' = (active \ {spill}) \cup {liveIn}
      /\ EndBody
      /\ UNCHANGED <<poolVars, intervals, pending>>
  BY <1>1 DEF SpillActive
<1>3. /\ locId' = [locId EXCEPT ![liveIn] = locId[spill], ![spill] = stackPos]
      /\ onStack' = [onStack EXCEPT ![spill] = TRUE]
      /\ stackPos' = stackPos + 1
  BY <1>1, <1>2 DEF MoveToStack
<1>4. /\ locId'[liveIn] = locId[spill] /\ ~onStack'[liveIn]
      /\ locId'[spill] = stackPos /\ onStack'[spill]
      /\ \A v \in Vals \ {liveIn, spill} : locId'[v] = locId[v] /\ onStack'[v] = onStack[v]
  BY <1>1, <1>3
<1>5. Cardinality(active') = Cardinality(active)
  <2>1. Cardinality(active \ {spill}) = Cardinality(active) - 1
    BY <1>1, FiniteFacts, FS_RemoveElement
  <2>2. Cardinality((active \ {spill}) \cup {liveIn}) = Cardinality(active \ {spill}) + 1
    BY <1>1, FiniteFacts, FS_AddElement
  <2> QED BY <1>1, <1>2, <2>1, <2>2, FiniteFacts
<1>6. TypeOK' /\ NoAssertionFails'
  BY <1>1, <1>2, <1>3
     DEF TypeOK, NoAssertionFails, EndBody, intervals, poolVars, kIvalidRegId
<1>7. PoolMatchesActive'
  <2>1. {locId'[a] : a \in active'} = {locId[a] : a \in active}
    BY <1>1, <1>2, <1>4
  <2> QED BY <1>2, <1>5, <2>1 DEF PoolMatchesActive, poolVars
<1>8. ActiveInv'
  <2>1. \A a \in active' : ~onStack'[a] /\ locId'[a] \in RegIds
    BY <1>1, <1>2, <1>4 DEF ActiveInv
  <2>2. \A a, b \in active' : locId'[a] = locId'[b] => a = b
    BY <1>1, <1>2, <1>4 DEF ActiveInv
  <2> QED BY <1>2, <2>1, <2>2 DEF ActiveInv, poolVars
<1>9. \A v \in Vals : Placed(v)' <=> Placed(v) \/ v = liveIn
  BY <1>1, <1>4 DEF Placed, kIvalidRegId
<1>10. /\ \A w \in Vals : Waiting(w)' <=> Waiting(w) /\ w # liveIn
       /\ WaitingInv' /\ OrderInv' /\ ExpiredInv'
  <2>1. \A v \in pending : v # spill /\ v # liveIn /\ v \in Vals /\ ~onStack[v]
    BY <1>1 DEF WaitingInv, Waiting, TypeOK, Placed, kIvalidRegId
  <2>2. UNCHANGED <<intervals, pending>> /\ \A v \in pending : ~onStack'[v]
    BY <1>2, <1>4, <2>1
  <2> QED BY <1>0, <1>2, <1>9, <2>2, PlacedInv
<1>11. RetiredInv'
  <2> SUFFICES ASSUME NEW v \in Vals, NEW w \in Vals, InRegister(v)', v \notin active',
                      Waiting(w)'
               PROVE  end[v] <= start[w]
    BY <1>2 DEF RetiredInv, intervals
  <2>1. v # spill /\ v # liveIn
    BY <1>2, <1>4 DEF InRegister
  <2>2. InRegister(v) /\ v \notin active /\ Waiting(w)
    BY <1>2, <1>4, <1>9, <1>10, <2>1 DEF InRegister
  <2> QED BY <2>2 DEF RetiredInv
<1>12. StackInv' /\ StackSlotsDistinct'
  <2>1. \A v \in Vals \ {spill} : onStack'[v] => onStack[v] /\ locId'[v] = locId[v]
    BY <1>4
  <2>2. \A v \in Vals \ {spill} : onStack'[v] => locId'[v] \in 0 .. stackPos - 1
    BY <2>1 DEF StackInv
  <2>3. StackInv'
    <3> SUFFICES ASSUME NEW v \in Vals, onStack'[v]
                 PROVE  locId'[v] \in 0 .. (stackPos + 1) - 1
      BY <1>3 DEF StackInv
    <3>1. CASE v = spill
      BY <1>1, <1>4, <3>1
    <3>2. CASE v # spill
      BY <1>1, <2>2, <3>2
    <3> QED BY <3>1, <3>2
  <2>4. StackSlotsDistinct'
    <3> SUFFICES ASSUME NEW v \in Vals, NEW w \in Vals, v # w, onStack'[v], onStack'[w]
                 PROVE  locId'[v] # locId'[w]
      BY DEF StackSlotsDistinct
    <3>1. CASE v = spill
      BY <1>1, <1>4, <2>2, <3>1
    <3>2. CASE w = spill
      BY <1>1, <1>4, <2>2, <3>2
    <3>3. CASE v # spill /\ w # spill
      BY <2>1, <3>3 DEF StackSlotsDistinct
    <3> QED BY <3>1, <3>2, <3>3
  <2> QED BY <2>3, <2>4
<1>13. NoRegisterConflict'
  <2> SUFFICES ASSUME NEW v \in Vals, NEW w \in Vals, v # w, InRegister(v)',
                      InRegister(w)', Overlap(v, w), locId'[v] = locId'[w]
               PROVE  FALSE
    BY <1>2 DEF NoRegisterConflict, Overlap, intervals
  <2>1. v # spill /\ w # spill
    BY <1>4 DEF InRegister
  <2>2. \A u \in Vals \ {liveIn, spill} :
           InRegister(u)' /\ Overlap(liveIn, u) => locId'[u] # locId[spill]
    BY <1>0, <1>1, <1>4, <1>9, PlaceFacts DEF InRegister, ActiveInv
  <2>3. Overlap(w, v)
    BY DEF Overlap
  <2>4. CASE v = liveIn
    BY <1>4, <2>1, <2>2, <2>4
  <2>5. CASE w = liveIn
    BY <1>4, <2>1, <2>2, <2>3, <2>5
  <2>6. CASE v # liveIn /\ w # liveIn
    BY <1>4, <1>9, <2>1, <2>6 DEF NoRegisterConflict, InRegister
  <2> QED BY <2>4, <2>5, <2>6
<1>14. SpillOnlyUnderPressure'
  <2>1. \A p : LiveAt(p)' = LiveAt(p)
    BY <1>2 DEF LiveAt, intervals
  <2>2. \A v \in Vals : onStack'[v] => onStack[v] \/ v = spill
    BY <1>4
  <2> QED BY <1>0, <1>1, <2>1, <2>2, Pressure DEF SpillOnlyUnderPressure
<1> QED
  BY <1>2, <1>6, <1>7, <1>8, <1>10, <1>11, <1>12, <1>13, <1>14 DEF EndBody

(* The slot of liveIn is fresh, and nothing else changes.                    *)
LEMMA SpillCurrentInv ==
    ASSUME IndInv, SpillCurrent
    PROVE  IndInv'
<1> USE DEF IndInv
<1>0. pc = "place" /\ Cardinality(active) = kNumRegs
  BY DEF SpillCurrent
<1>1. /\ liveIn \in Vals /\ liveIn \notin active
      /\ liveIn \notin pending /\ ~onStack[liveIn]
      /\ active \subseteq Vals /\ locId \in [Vals -> Nat \cup {-1}]
      /\ onStack \in [Vals -> BOOLEAN] /\ stackPos \in Nat
  BY <1>0, PlaceFacts DEF TypeOK, kIvalidRegId
<1>2. /\ locId' = [locId EXCEPT ![liveIn] = stackPos]
      /\ onStack' = [onStack EXCEPT ![liveIn] = TRUE]
      /\ stackPos' = stackPos + 1
      /\ EndBody
      /\ UNCHANGED <<poolVars, intervals, pending, active>>
  BY DEF SpillCurrent, MoveToStack
<1>3. /\ locId'[liveIn] = stackPos /\ onStack'[liveIn]
      /\ \A v \in Vals \ {liveIn} : locId'[v] = locId[v] /\ onStack'[v] = onStack[v]
  BY <1>1, <1>2
<1>4. TypeOK' /\ NoAssertionFails'
  BY <1>1, <1>2
     DEF TypeOK, NoAssertionFails, EndBody, intervals, poolVars, kIvalidRegId
<1>5. PoolMatchesActive' /\ ActiveInv'
  <2>1. \A a \in active : locId'[a] = locId[a] /\ onStack'[a] = onStack[a]
    BY <1>1, <1>3
  <2>2. {locId'[a] : a \in active} = {locId[a] : a \in active}
    BY <2>1
  <2>3. PoolMatchesActive'
    BY <1>2, <2>2 DEF PoolMatchesActive, poolVars
  <2>4. ActiveInv'
    <3>1. \A a \in active' : ~onStack'[a] /\ locId'[a] \in RegIds
      BY <1>2, <2>1 DEF ActiveInv
    <3>2. ASSUME NEW a \in active', NEW b \in active', locId'[a] = locId'[b]
          PROVE  a = b
      <4>1. a \in active /\ b \in active
        BY <1>2
      <4>2. locId[a] = locId[b]
        BY <2>1, <3>2, <4>1
      <4> QED BY <4>1, <4>2 DEF ActiveInv
    <3> QED BY <1>2, <3>1, <3>2 DEF ActiveInv, poolVars
  <2> QED BY <2>3, <2>4
<1>6. \A v \in Vals : Placed(v)' <=> Placed(v) \/ v = liveIn
  BY <1>1, <1>3 DEF Placed, kIvalidRegId
<1>7. /\ \A w \in Vals : Waiting(w)' <=> Waiting(w) /\ w # liveIn
      /\ WaitingInv' /\ OrderInv' /\ ExpiredInv'
  <2>1. \A v \in pending : v # liveIn /\ v \in Vals /\ ~onStack[v]
    BY <1>1 DEF WaitingInv, Waiting, TypeOK
  <2>2. UNCHANGED <<intervals, pending>> /\ \A v \in pending : ~onStack'[v]
    BY <1>2, <1>3, <2>1
  <2> QED BY <1>0, <1>2, <1>6, <2>2, PlacedInv
<1>8. RetiredInv'
  <2> SUFFICES ASSUME NEW v \in Vals, NEW w \in Vals, InRegister(v)', v \notin active,
                      Waiting(w)'
               PROVE  end[v] <= start[w]
    BY <1>2 DEF RetiredInv, intervals
  <2>1. InRegister(v) /\ Waiting(w)
    BY <1>3, <1>6, <1>7 DEF InRegister
  <2> QED BY <2>1 DEF RetiredInv
<1>9. StackInv' /\ StackSlotsDistinct'
  <2>1. \A v \in Vals \ {liveIn} : onStack'[v] => onStack[v] /\ locId'[v] = locId[v]
    BY <1>3
  <2>2. \A v \in Vals \ {liveIn} : onStack'[v] => locId'[v] \in 0 .. stackPos - 1
    BY <2>1 DEF StackInv
  <2>3. StackInv'
    <3> SUFFICES ASSUME NEW v \in Vals, onStack'[v]
                 PROVE  locId'[v] \in 0 .. (stackPos + 1) - 1
      BY <1>2 DEF StackInv
    <3>1. CASE v = liveIn
      BY <1>1, <1>3, <3>1
    <3>2. CASE v # liveIn
      BY <1>1, <2>2, <3>2
    <3> QED BY <3>1, <3>2
  <2>4. StackSlotsDistinct'
    <3> SUFFICES ASSUME NEW v \in Vals, NEW w \in Vals, v # w, onStack'[v], onStack'[w]
                 PROVE  locId'[v] # locId'[w]
      BY DEF StackSlotsDistinct
    <3>1. CASE v = liveIn
      BY <1>1, <1>3, <2>2, <3>1
    <3>2. CASE w = liveIn
      BY <1>1, <1>3, <2>2, <3>2
    <3>3. CASE v # liveIn /\ w # liveIn
      BY <2>1, <3>3 DEF StackSlotsDistinct
    <3> QED BY <3>1, <3>2, <3>3
  <2> QED BY <2>3, <2>4
<1>10. NoRegisterConflict'
  BY <1>2, <1>3, <1>6 DEF NoRegisterConflict, InRegister, Overlap, intervals
<1>11. SpillOnlyUnderPressure'
  <2>1. \A p : LiveAt(p)' = LiveAt(p)
    BY <1>2 DEF LiveAt, intervals
  <2>2. \A v \in Vals : onStack'[v] => onStack[v] \/ v = liveIn
    BY <1>3
  <2> QED BY <1>0, <1>1, <2>1, <2>2, Pressure DEF SpillOnlyUnderPressure
<1> QED
  BY <1>2, <1>4, <1>5, <1>7, <1>8, <1>9, <1>10, <1>11 DEF EndBody

(* Finishing and stuttering keep the invariant.                              *)
LEMMA IdleInv ==
    ASSUME IndInv, Finish \/ UNCHANGED vars
    PROVE  IndInv'
<1> USE DEF IndInv
<1>1. /\ UNCHANGED <<poolVars, intervals, locId, onStack, pending, liveIn, active, stackPos>>
      /\ \/ pc = "next" /\ pc' = "done" /\ pending = {}
         \/ pc' = pc
  BY DEF Finish, vars, scanVars, intervals
<1>2. TypeOK' /\ NoAssertionFails' /\ PoolMatchesActive' /\ ActiveInv'
  BY <1>1 DEF poolVars, intervals, TypeOK, NoAssertionFails, PoolMatchesActive, ActiveInv
<1>3. (InBody' <=> InBody) /\ \A w \in Vals : Waiting(w)' <=> Waiting(w)
  BY <1>1 DEF Waiting, InBody
<1>4. WaitingInv' /\ OrderInv' /\ RetiredInv' /\ ExpiredInv' /\ StackInv'
  BY <1>1, <1>3 DEF WaitingInv, OrderInv, RetiredInv, ExpiredInv, StackInv, Placed,
         InRegister, Empty, intervals
<1>5. NoRegisterConflict' /\ StackSlotsDistinct' /\ SpillOnlyUnderPressure'
  BY <1>1 DEF NoRegisterConflict, StackSlotsDistinct,
         SpillOnlyUnderPressure, InRegister, Placed, Overlap, LiveAt, intervals
<1> QED BY <1>1, <1>2, <1>4, <1>5

(* The scan's bookkeeping is inductive.                                      *)
THEOREM Invariance == Spec => []IndInv
<1>1. Init => IndInv
  BY InitInv
<1>2. IndInv /\ [Next]_vars => IndInv'
  <2> SUFFICES ASSUME IndInv, [Next]_vars PROVE IndInv'
    OBVIOUS
  <2>1. ASSUME NEW v \in Vals, NextInterval(v) PROVE IndInv'
    BY <2>1, NextIntervalInv
  <2>2. ASSUME NEW v \in Vals, Expire(v) PROVE IndInv'
    BY <2>2, ExpireInv
  <2>3. ASSUME NEW v \in Vals, SpillActive(v) PROVE IndInv'
    BY <2>3, SpillActiveInv
  <2>4. CASE ExpireReturn
    BY <2>4, ExpireReturnInv
  <2>5. CASE Allocate
    BY <2>5, AllocateInv
  <2>6. CASE SpillCurrent
    BY <2>6, SpillCurrentInv
  <2>7. CASE Finish \/ UNCHANGED vars
    BY <2>7, IdleInv
  <2> QED BY <2>1, <2>2, <2>3, <2>4, <2>5, <2>6, <2>7 DEF Next
<1> QED BY <1>1, <1>2, PTL DEF Spec

(* No assertion of the register allocator or of its pool ever fires.         *)
THEOREM ScanNeverAborts == Spec => []NoAssertionFails
<1>1. IndInv => NoAssertionFails
  BY DEF IndInv
<1> QED BY <1>1, Invariance, PTL

(* Overlapping live intervals never share a register.                        *)
THEOREM RegistersExclusive == Spec => []NoRegisterConflict
<1>1. IndInv => NoRegisterConflict
  BY DEF IndInv
<1> QED BY <1>1, Invariance, PTL

(* Bits, counter and active intervals of the pool agree.                     *)
THEOREM PoolAgrees == Spec => []PoolMatchesActive
<1>1. IndInv => PoolMatchesActive
  BY DEF IndInv
<1> QED BY <1>1, Invariance, PTL

(* Every stack slot is used once.                                            *)
THEOREM SlotsDistinct == Spec => []StackSlotsDistinct
<1>1. IndInv => StackSlotsDistinct
  BY DEF IndInv
<1> QED BY <1>1, Invariance, PTL

(* A value is spilled only where the pressure exceeds the registers.         *)
THEOREM SpillsNeedPressure == Spec => []SpillOnlyUnderPressure
<1>1. IndInv => SpillOnlyUnderPressure
  BY DEF IndInv
<1> QED BY <1>1, Invariance, PTL

(* A finished scan has placed exactly the values that are live somewhere.    *)
THEOREM AllPlaced == Spec => []AllPlacedWhenDone
<1>1. IndInv => AllPlacedWhenDone
  <2> SUFFICES ASSUME IndInv, pc = "done", NEW v \in Vals
               PROVE  Placed(v) <=> ~Empty(v)
    BY DEF AllPlacedWhenDone
  <2>1. ~Waiting(v)
    BY DEF IndInv, Waiting, InBody
  <2>2. start \in [Vals -> Nat] /\ end \in [Vals -> Nat]
    BY PositionsNat DEF IndInv, TypeOK
  <2> QED BY <2>1, <2>2 DEF IndInv, WaitingInv, Empty
<1> QED BY <1>1, Invariance, PTL

(* Spills are final and registers are never exchanged for one another.       *)
THEOREM SpillsAreFinal == Spec => SpillIsFinal
<1> DEFINE Fate(v) == \/ locId'[v] = locId[v] /\ onStack'[v] = onStack[v]
                      \/ ~onStack[v] /\ onStack'[v]
<1>1. IndInv /\ [Next]_vars =>
         [\A v \in Vals : Placed(v) =>
            (locId'[v] = locId[v] /\ onStack'[v] = onStack[v])
            \/ (~onStack[v] /\ onStack'[v])]_vars
  <2> SUFFICES ASSUME IndInv, Next, NEW v \in Vals, Placed(v)
               PROVE  Fate(v)
    OBVIOUS
  <2>0. locId \in [Vals -> Nat \cup {-1}] /\ onStack \in [Vals -> BOOLEAN]
    BY DEF IndInv, TypeOK, kIvalidRegId
  <2>1. CASE UNCHANGED <<locId, onStack>>
    BY <2>1
  <2>2. ASSUME pc = "place" PROVE v # liveIn /\ liveIn \in Vals
    BY <2>2, PlaceFacts
  <2>3. CASE Allocate
    BY <2>0, <2>2, <2>3 DEF Allocate, Abort
  <2>4. CASE SpillCurrent
    BY <2>0, <2>2, <2>4 DEF SpillCurrent, MoveToStack
  <2>5. ASSUME NEW s \in Vals, SpillActive(s) PROVE Fate(v)
    <3>1. ~onStack[s]
      BY <2>5 DEF SpillActive, LastActive, IndInv, ActiveInv
    <3>2. /\ locId' = [locId EXCEPT ![liveIn] = locId[s], ![s] = stackPos]
          /\ onStack' = [onStack EXCEPT ![s] = TRUE]
      BY <2>5, <3>1 DEF SpillActive, MoveToStack
    <3>3. v # liveIn /\ liveIn \in Vals
      BY <2>2, <2>5 DEF SpillActive
    <3> QED BY <2>0, <3>1, <3>2, <3>3
  <2>6. ASSUME NEW u \in Vals, NextInterval(u) \/ Expire(u)
        PROVE  UNCHANGED <<locId, onStack>>
    BY <2>6 DEF NextInterval, Expire, Abort
  <2>7. ASSUME ExpireReturn \/ Finish PROVE UNCHANGED <<locId, onStack>>
    BY <2>7 DEF ExpireReturn, Finish
  <2> QED BY <2>1, <2>3, <2>4, <2>5, <2>6, <2>7 DEF Next
<1> QED BY <1>1, Invariance, PTL DEF Spec, SpillIsFinal

(* The state has the types the code gives it.                                *)
THEOREM ScanTypes == Spec => []TypeOK
<1>1. IndInv => TypeOK
  BY DEF IndInv
<1> QED BY <1>1, Invariance, PTL

-----------------------------------------------------------------------------
(* The scan implements LocationAssignment: Loc is the location getLocation   *)
(* shows of each value.                                                      *)
LocOf(v) ==
    IF locId[v] = kIvalidRegId THEN [kind |-> "none", id |-> 0]
    ELSE [kind |-> IF onStack[v] THEN "stack" ELSE "reg", id |-> locId[v]]

Loc == [v \in Vals |-> LocOf(v)]

(* The slot the counter shows is no value's location.                        *)
LEMMA CounterSlotFresh ==
    ASSUME IndInv
    PROVE  /\ Assignment!IsSlot([kind |-> "stack", id |-> stackPos])
           /\ \A u \in Vals : LocOf(u) # [kind |-> "stack", id |-> stackPos]
<1>1. stackPos \in Nat
  BY DEF IndInv, TypeOK
<1>2. Assignment!IsSlot([kind |-> "stack", id |-> stackPos])
  BY <1>1 DEF Assignment!IsSlot
<1>3. ASSUME NEW u \in Vals, LocOf(u) = [kind |-> "stack", id |-> stackPos]
      PROVE  FALSE
  <2>1. Placed(u) /\ onStack[u] /\ locId[u] = stackPos
    BY <1>3 DEF LocOf, Placed
  <2>2. locId[u] \in 0 .. stackPos - 1
    BY <2>1 DEF IndInv, StackInv
  <2> QED BY <1>1, <2>1, <2>2
<1> QED BY <1>2, <1>3

(* The value about to be placed has no location.                             *)
LEMMA LiveInUnplaced ==
    ASSUME IndInv, pc = "place"
    PROVE  liveIn \in Vals /\ Loc[liveIn] = Assignment!None /\ Assignment!Unplaced(liveIn)
BY PlaceFacts DEF Loc, LocOf, Placed, Assignment!None, Assignment!Unplaced

(* No step but the three that place liveIn changes a location.               *)
LEMMA StutterMapped ==
    ASSUME UNCHANGED <<intervals, locId, onStack>>
    PROVE  UNCHANGED <<start, end, Loc>>
BY DEF intervals, Loc, LocOf

(* A register of the pool is one that no overlapping value holds.            *)
LEMMA AllocateMapped ==
    ASSUME IndInv, Allocate
    PROVE  Assignment!Assign(liveIn)
<1>0. pc = "place" /\ IndInv'
  BY AllocateInv DEF Allocate
<1>1. ~AllocateFails
  BY <1>0 DEF Allocate, Abort, IndInv, NoAssertionFails
<1>2. PICK i \in RegIds : AllocateReg(i) /\ locId' = [locId EXCEPT ![liveIn] = i]
  BY <1>1 DEF Allocate
<1>3. UNCHANGED <<intervals, onStack>>
  BY <1>1 DEF Allocate
<1>4. /\ liveIn \in Vals /\ liveIn \notin active /\ ~onStack[liveIn]
      /\ locId \in [Vals -> Nat \cup {-1}] /\ i \in Nat /\ i # -1
  BY <1>0, PlaceFacts, NumRegsAssumption DEF IndInv, TypeOK, kIvalidRegId, RegIds
<1>5. locId'[liveIn] = i /\ \A u \in Vals \ {liveIn} : locId'[u] = locId[u]
  BY <1>2, <1>4
<1>6. Loc'[liveIn] = [kind |-> "reg", id |-> i]
  BY <1>3, <1>4, <1>5 DEF Loc, LocOf, kIvalidRegId
<1>7. Loc'[liveIn] \in Assignment!Registers
  BY <1>6 DEF Assignment!Registers, RegIds
<1>8. ASSUME NEW u \in Vals \ {liveIn}, Assignment!Overlap(liveIn, u),
             Loc[u] = [kind |-> "reg", id |-> i]
      PROVE  FALSE
  <2>1. InRegister(u) /\ locId[u] = i
    BY <1>8 DEF Loc, LocOf, InRegister, Placed
  <2>2. u \in active
    BY <1>0, <1>8, <2>1, PlaceFacts DEF Overlap, Assignment!Overlap
  <2>3. i \in regs
    BY <2>1, <2>2 DEF IndInv, PoolMatchesActive
  <2> QED BY <1>2, <2>3 DEF AllocateReg
<1>9. Assignment!OnlyChanges({liveIn})
  BY <1>3, <1>5 DEF Assignment!OnlyChanges, Loc, LocOf, intervals
<1> QED
  BY <1>0, <1>6, <1>7, <1>8, <1>9, LiveInUnplaced
     DEF Assignment!Assign, Assignment!FreeFor, Loc, LocOf

(* Moving liveIn to the stack takes a slot that nothing has used.            *)
LEMMA SpillCurrentMapped ==
    ASSUME IndInv, SpillCurrent
    PROVE  Assignment!Spill(liveIn)
<1>0. pc = "place"
  BY DEF SpillCurrent
<1>1. /\ locId' = [locId EXCEPT ![liveIn] = stackPos]
      /\ onStack' = [onStack EXCEPT ![liveIn] = TRUE]
      /\ UNCHANGED intervals
  BY DEF SpillCurrent, MoveToStack
<1>2. /\ liveIn \in Vals /\ locId \in [Vals -> Nat \cup {-1}]
      /\ onStack \in [Vals -> BOOLEAN] /\ stackPos \in Nat
  BY <1>0, PlaceFacts DEF IndInv, TypeOK, kIvalidRegId
<1>3. /\ locId'[liveIn] = stackPos /\ onStack'[liveIn]
      /\ \A u \in Vals \ {liveIn} : locId'[u] = locId[u] /\ onStack'[u] = onStack[u]
  BY <1>1, <1>2
<1>4. Loc'[liveIn] = [kind |-> "stack", id |-> stackPos]
  BY <1>2, <1>3 DEF Loc, LocOf, kIvalidRegId
<1>5. Assignment!FreshSlot(Loc'[liveIn])
  BY <1>4, CounterSlotFresh DEF Assignment!FreshSlot, Loc, LocOf
<1>6. Assignment!OnlyChanges({liveIn})
  BY <1>1, <1>3 DEF Assignment!OnlyChanges, Loc, LocOf, intervals
<1> QED BY <1>0, <1>5, <1>6, LiveInUnplaced DEF Assignment!Spill, Loc, LocOf

(* liveIn takes over the register of an active interval, which goes to a     *)
(* slot that nothing has used.                                               *)
LEMMA SpillActiveMapped ==
    ASSUME IndInv, NEW spill \in Vals, SpillActive(spill)
    PROVE  Assignment!Evict(liveIn, spill)
<1>0. pc = "place"
  BY DEF SpillActive
<1>1. /\ spill \in active /\ liveIn \in Vals /\ liveIn \notin active /\ spill # liveIn
      /\ locId \in [Vals -> Nat \cup {-1}] /\ onStack \in [Vals -> BOOLEAN]
      /\ stackPos \in Nat /\ ~onStack[spill] /\ ~onStack[liveIn]
      /\ locId[spill] \in RegIds /\ locId[spill] # -1
  BY <1>0, PlaceFacts, NumRegsAssumption
     DEF SpillActive, LastActive, IndInv, TypeOK, kIvalidRegId, ActiveInv, RegIds
<1>2. /\ locId' = [locId EXCEPT ![liveIn] = locId[spill], ![spill] = stackPos]
      /\ onStack' = [onStack EXCEPT ![spill] = TRUE]
      /\ UNCHANGED intervals
  BY <1>1 DEF SpillActive, MoveToStack
<1>3. /\ locId'[liveIn] = locId[spill] /\ ~onStack'[liveIn]
      /\ locId'[spill] = stackPos /\ onStack'[spill]
      /\ \A u \in Vals \ {liveIn, spill} : locId'[u] = locId[u] /\ onStack'[u] = onStack[u]
  BY <1>1, <1>2
<1>4. Loc[spill] = [kind |-> "reg", id |-> locId[spill]]
  BY <1>1 DEF Loc, LocOf, kIvalidRegId
<1>5. Loc'[liveIn] = [kind |-> "reg", id |-> locId[spill]]
  BY <1>1, <1>3 DEF Loc, LocOf, kIvalidRegId
<1>6. Loc'[spill] = [kind |-> "stack", id |-> stackPos]
  BY <1>1, <1>3 DEF Loc, LocOf, kIvalidRegId
<1>7. Loc[spill] \in Assignment!Registers
  BY <1>1, <1>4 DEF Assignment!Registers, RegIds
<1>8. ASSUME NEW u \in Vals \ {liveIn, spill}, Assignment!Overlap(liveIn, u),
             Loc[u] = Loc[spill]
      PROVE  FALSE
  <2>1. InRegister(u) /\ locId[u] = locId[spill]
    BY <1>4, <1>8 DEF Loc, LocOf, InRegister, Placed
  <2>2. u \in active
    BY <1>0, <1>8, <2>1, PlaceFacts DEF Overlap, Assignment!Overlap
  <2> QED BY <1>1, <1>8, <2>1, <2>2 DEF IndInv, ActiveInv
<1>9. Assignment!FreshSlot(Loc'[spill])
  BY <1>6, CounterSlotFresh DEF Assignment!FreshSlot, Loc, LocOf
<1>10. Assignment!OnlyChanges({liveIn, spill})
  BY <1>2, <1>3 DEF Assignment!OnlyChanges, Loc, LocOf, intervals
<1> QED
  BY <1>0, <1>1, <1>4, <1>5, <1>7, <1>8, <1>9, <1>10, LiveInUnplaced
     DEF Assignment!Evict, Assignment!FreeFor, Loc, LocOf

(* Register allocation, seen through getLocation, only ever assigns a free   *)
(* register, spills to a fresh slot, or evicts a value for good.             *)
THEOREM ScanImplementsAssignment == Spec => AssignmentSpec
<1>1. Init => Assignment!Init
  BY DEF Init, Assignment!Init, Assignment!None
<1>2. IndInv /\ IndInv' /\ [Next]_vars => [Assignment!Next]_<<start, end, Loc>>
  <2> SUFFICES ASSUME IndInv, IndInv', [Next]_vars
               PROVE  Assignment!Next \/ UNCHANGED <<start, end, Loc>>
    OBVIOUS
  <2>1. ASSUME NEW v \in Vals, NextInterval(v)
        PROVE  UNCHANGED <<start, end, Loc>>
    BY <2>1, StutterMapped DEF NextInterval
  <2>2. ASSUME NEW v \in Vals, Expire(v) PROVE UNCHANGED <<start, end, Loc>>
    BY <2>2, StutterMapped DEF Expire, Abort
  <2>3. ASSUME NEW v \in Vals, SpillActive(v) PROVE Assignment!Next
    <3>1. liveIn \in Vals
      BY <2>3, LiveInUnplaced DEF SpillActive
    <3>2. Assignment!Evict(liveIn, v)
      BY <2>3, SpillActiveMapped
    <3> QED BY <3>1, <3>2, ZenonT(30) DEF Assignment!Next, Assignment!Evict, Assignment!FreeFor,
           Assignment!OnlyChanges, Assignment!Unplaced, Assignment!FreshSlot
  <2>4. CASE ExpireReturn \/ Finish \/ UNCHANGED vars
    BY <2>4, StutterMapped DEF ExpireReturn, Finish, vars, scanVars, intervals
  <2>5. CASE Allocate
    <3>1. liveIn \in Vals
      BY <2>5, LiveInUnplaced DEF Allocate
    <3>2. Assignment!Assign(liveIn)
      BY <2>5, AllocateMapped
    <3> QED BY <3>1, <3>2 DEF Assignment!Next, Assignment!Assign, Assignment!FreeFor,
           Assignment!OnlyChanges, Assignment!Unplaced
  <2>6. CASE SpillCurrent
    <3>1. liveIn \in Vals
      BY <2>6, LiveInUnplaced DEF SpillCurrent
    <3>2. Assignment!Spill(liveIn)
      BY <2>6, SpillCurrentMapped
    <3> QED BY <3>1, <3>2 DEF Assignment!Next, Assignment!Spill,
           Assignment!OnlyChanges, Assignment!Unplaced, Assignment!FreshSlot
  <2> QED BY <2>1, <2>2, <2>3, <2>4, <2>5, <2>6 DEF Next
<1> QED
  BY <1>1, <1>2, Invariance, PTL DEF Spec, AssignmentSpec, Assignment!Spec, Loc, LocOf

-----------------------------------------------------------------------------
(* The greedy choice is the best one.                                        *)

(* Sets of values are finite, whichever way the proofs below form them.      *)
LEMMA ValueSets ==
    /\ \A T \in SUBSET Vals : IsFiniteSet(T) /\ Cardinality(T) \in Nat
    /\ Seen \in SUBSET Vals /\ Kept \in SUBSET Vals /\ Spilled \in SUBSET Vals
    /\ \A T \in SUBSET Vals, p \in Positions : Past(T, p) \in SUBSET Vals
BY FiniteFacts DEF Seen, Kept, Spilled, Past

(* A value more counts at the positions before its end.                      *)
LEMMA PastAdd ==
    ASSUME NEW T \in SUBSET Vals, NEW v \in Vals \ T, NEW p \in Positions
    PROVE  Cardinality(Past(T \cup {v}, p))
           = Cardinality(Past(T, p)) + (IF end[v] > p THEN 1 ELSE 0)
<1>1. CASE end[v] > p
  <2>1. Past(T \cup {v}, p) = Past(T, p) \cup {v} /\ v \notin Past(T, p)
    BY <1>1 DEF Past
  <2>2. IsFiniteSet(Past(T, p))
    BY ValueSets
  <2> QED BY <1>1, <2>1, <2>2, FS_AddElement
<1>2. CASE ~(end[v] > p)
  <2>1. Past(T \cup {v}, p) = Past(T, p)
    BY <1>2 DEF Past
  <2>2. Cardinality(Past(T, p)) \in Nat
    BY ValueSets
  <2> QED BY <1>2, <2>1, <2>2
<1> QED BY <1>1, <1>2

(* How placing a value changes what S is compared with.                      *)
LEMMA RivalLeaves ==
    ASSUME NEW S \in SUBSET Vals, NEW v \in Vals \ Seen
    PROVE  Cardinality((Seen \cup {v}) \ S)
           = Cardinality(Seen \ S) + (IF v \in S THEN 0 ELSE 1)
<1>0. Cardinality(Seen \ S) \in Nat /\ IsFiniteSet(Seen \ S)
  BY ValueSets
<1>1. CASE v \in S
  <2>1. (Seen \cup {v}) \ S = Seen \ S
    BY <1>1
  <2> QED BY <1>0, <1>1, <2>1
<1>2. CASE v \notin S
  <2>1. (Seen \cup {v}) \ S = (Seen \ S) \cup {v} /\ v \notin Seen \ S
    BY <1>2
  <2> QED BY <1>0, <1>2, <2>1, FS_AddElement
<1> QED BY <1>1, <1>2

(* How many values of an assignment live past a position, with one more value seen. *)
LEMMA RivalPast ==
    ASSUME NEW S \in SUBSET Vals, NEW v \in Vals \ Seen, NEW p \in Positions
    PROVE  Cardinality(Past(S \cap (Seen \cup {v}), p))
           = Cardinality(Past(S \cap Seen, p))
             + (IF v \in S THEN IF end[v] > p THEN 1 ELSE 0 ELSE 0)
<1>0. Cardinality(Past(S \cap Seen, p)) \in Nat /\ S \cap Seen \in SUBSET Vals
  BY ValueSets
<1>1. CASE v \in S
  <2>1. S \cap (Seen \cup {v}) = (S \cap Seen) \cup {v}
    BY <1>1
  <2>2. v \in Vals \ (S \cap Seen)
    OBVIOUS
  <2> QED BY <1>0, <1>1, <2>1, <2>2, PastAdd
<1>2. CASE v \notin S
  <2>1. S \cap (Seen \cup {v}) = S \cap Seen
    BY <1>2
  <2> QED BY <1>0, <1>2, <2>1
<1> QED BY <1>1, <1>2

(* Keeping liveIn costs no rival anything.                                   *)
LEMMA KeepGreedy ==
    ASSUME IndInv, GreedyInv, pc = "place", UNCHANGED intervals,
           Seen' = Seen \cup {liveIn}, Kept' = Kept \cup {liveIn}, Spilled' = Spilled
    PROVE  GreedyInv'
<1>0. liveIn \in Vals \ Seen /\ liveIn \in Vals \ Kept
  BY PlaceFacts DEF Seen, Kept, InRegister
<1> SUFFICES ASSUME NEW S \in SUBSET Vals, Fits(S)
             PROVE  /\ Cardinality(Spilled) <= Cardinality(Seen' \ S)
                    /\ \A p \in Positions :
                          Cardinality(Past(Kept', p)) + Cardinality(Spilled)
                          <= Cardinality(Past(S \cap Seen', p)) + Cardinality(Seen' \ S)
  BY ZenonT(30) DEF GreedyInv, Past, Fits, LiveAt, intervals
<1> DEFINE new == IF liveIn \in S THEN 0 ELSE 1
<1>1. ASSUME NEW p \in Positions
      PROVE  Cardinality(Past(Kept', p)) + Cardinality(Spilled)
             <= Cardinality(Past(S \cap Seen', p)) + Cardinality(Seen' \ S)
  <2> DEFINE ahead == IF end[liveIn] > p THEN 1 ELSE 0
             both == IF liveIn \in S THEN IF end[liveIn] > p THEN 1 ELSE 0 ELSE 0
  <2>0. Kept \in SUBSET Vals
    BY ValueSets
  <2>1. /\ Cardinality(Past(Kept', p)) = Cardinality(Past(Kept, p)) + ahead
        /\ Cardinality(Seen' \ S) = Cardinality(Seen \ S) + new
        /\ Cardinality(Past(S \cap Seen', p)) = Cardinality(Past(S \cap Seen, p)) + both
    <3>1. Cardinality(Past(Kept \cup {liveIn}, p)) = Cardinality(Past(Kept, p)) + ahead
      BY <1>0, <2>0, PastAdd
    <3>2. Cardinality((Seen \cup {liveIn}) \ S) = Cardinality(Seen \ S) + new
      BY <1>0, RivalLeaves
    <3>3. Cardinality(Past(S \cap (Seen \cup {liveIn}), p))
          = Cardinality(Past(S \cap Seen, p)) + both
      BY <1>0, RivalPast
    <3> HIDE DEF ahead, both, new
    <3> QED BY <3>1, <3>2, <3>3, Zenon
  <2>2. /\ Cardinality(Past(Kept, p)) + Cardinality(Spilled)
           <= Cardinality(Past(S \cap Seen, p)) + Cardinality(Seen \ S)
    BY DEF GreedyInv
  <2>3. /\ Cardinality(Past(Kept, p)) \in Nat /\ Cardinality(Spilled) \in Nat
        /\ Cardinality(Past(S \cap Seen, p)) \in Nat /\ Cardinality(Seen \ S) \in Nat
    BY ValueSets
  <2>4. ahead <= both + new /\ ahead \in Nat /\ both \in Nat /\ new \in Nat
    OBVIOUS
  <2> HIDE DEF ahead, both, new
  <2> QED BY <2>1, <2>2, <2>3, <2>4
<1>2. Cardinality(Spilled) <= Cardinality(Seen' \ S)
  <2>1. Cardinality(Spilled) <= Cardinality(Seen \ S)
    BY DEF GreedyInv
  <2>2. Seen \ S \in SUBSET (Seen' \ S) /\ Seen' \ S \in SUBSET Vals
    BY <1>0, ValueSets
  <2>3. Cardinality(Seen \ S) <= Cardinality(Seen' \ S)
    BY <2>2, ValueSets, FS_Subset
  <2>4. /\ Cardinality(Seen \ S) \in Nat /\ Cardinality(Seen' \ S) \in Nat
        /\ Cardinality(Spilled) \in Nat
    BY <2>2, ValueSets
  <2> QED BY <2>1, <2>3, <2>4
<1> QED BY <1>1, <1>2

(* Every set that fits has left out a value already where one more is to be  *)
(* placed than there are registers.                                          *)
LEMMA RivalLeftOut ==
    ASSUME IndInv, GreedyInv, pc = "place", Cardinality(active) = kNumRegs,
           NEW S \in SUBSET Vals, Fits(S), liveIn \in S
    PROVE  Cardinality(Spilled) + 1 <= Cardinality(Seen \ S)
<1> DEFINE p == start[liveIn]
           R == Past(S \cap Seen, p)
<1>1. /\ p \in Positions /\ liveIn \in Vals \ Seen /\ active \subseteq Vals
      /\ start \in [Vals -> Nat] /\ end \in [Vals -> Nat]
      /\ start[liveIn] < end[liveIn]
  BY PlaceFacts DEF IndInv, TypeOK, Seen
<1> HIDE DEF p
<1>2. Cardinality(Past(Kept, p)) >= kNumRegs
  <2>1. active \in SUBSET Past(Kept, p)
    <3> SUFFICES ASSUME NEW a \in active PROVE a \in Past(Kept, p)
      OBVIOUS
    <3>1. InRegister(a) /\ a \in Vals
      BY <1>1 DEF IndInv, ActiveInv, InRegister, Placed, RegIds, kIvalidRegId
    <3>2. p < end[a]
      BY DEF IndInv, ExpiredInv, p
    <3> QED BY <1>1, <3>1, <3>2, PositionsAssumption DEF Past, Kept
  <2>2. IsFiniteSet(Past(Kept, p)) /\ Cardinality(Past(Kept, p)) \in Nat
    BY <1>1, ValueSets
  <2> QED BY <2>1, <2>2, FS_Subset, NumRegsAssumption
<1>3. Cardinality(R) + 1 <= kNumRegs
  <2>1. R \cup {liveIn} \in SUBSET (S \cap LiveAt(p))
    <3>1. \A v \in R : start[v] <= p /\ p < end[v] /\ v \in S /\ v \in Vals
      BY <1>1, PlaceFacts, PositionsAssumption DEF Past, Seen, p
    <3>2. start[liveIn] <= p /\ p < end[liveIn]
      BY <1>1 DEF p
    <3> QED BY <1>1, <3>1, <3>2 DEF LiveAt
  <2>2. S \cap LiveAt(p) \in SUBSET Vals /\ R \in SUBSET Vals /\ liveIn \notin R
    BY <1>1 DEF LiveAt, Past
  <2>3. Cardinality(R \cup {liveIn}) = Cardinality(R) + 1
    BY <2>2, ValueSets, FS_AddElement
  <2>4. Cardinality(R \cup {liveIn}) <= Cardinality(S \cap LiveAt(p))
    BY <2>1, <2>2, ValueSets, FS_Subset
  <2>5. Cardinality(S \cap LiveAt(p)) <= kNumRegs
    BY <1>1 DEF Fits
  <2>6. Cardinality(S \cap LiveAt(p)) \in Nat /\ Cardinality(R) \in Nat
    BY <2>2, ValueSets
  <2> QED BY <2>3, <2>4, <2>5, <2>6, NumRegsAssumption
<1>4. Cardinality(Past(Kept, p)) + Cardinality(Spilled)
      <= Cardinality(R) + Cardinality(Seen \ S)
  BY <1>1 DEF GreedyInv
<1>5. /\ Cardinality(Past(Kept, p)) \in Nat /\ Cardinality(Spilled) \in Nat
      /\ Cardinality(R) \in Nat /\ Cardinality(Seen \ S) \in Nat /\ kNumRegs \in Nat
  BY <1>1, ValueSets, NumRegsAssumption
<1> HIDE DEF R
<1> QED BY <1>2, <1>3, <1>4, <1>5

(* Spilling the last to end of liveIn and the active ones costs one value,   *)
(* and leaves the others no longer kept than they were.                      *)
LEMMA SpillGreedy ==
    ASSUME IndInv, GreedyInv, pc = "place", Cardinality(active) = kNumRegs,
           UNCHANGED intervals, NEW last \in active \cup {liveIn},
           \A a \in active \cup {liveIn} : end[a] <= end[last],
           Seen' = Seen \cup {liveIn}, Kept' = (Kept \cup {liveIn}) \ {last},
           Spilled' = Spilled \cup {last}
    PROVE  GreedyInv'
<1>0. /\ liveIn \in Vals \ Seen /\ liveIn \in Vals \ Kept /\ start[liveIn] \in Nat
      /\ start \in [Vals -> Nat] /\ end \in [Vals -> Nat]
      /\ start[liveIn] < end[liveIn] /\ active \subseteq Vals
  BY PlaceFacts DEF Seen, Kept, InRegister, IndInv, TypeOK
<1>1. last \in Vals \ Spilled
  BY <1>0, PlaceFacts DEF IndInv, ActiveInv, Spilled
<1>2. Cardinality(Spilled') = Cardinality(Spilled) + 1
  BY <1>1, ValueSets, FS_AddElement
<1> SUFFICES ASSUME NEW S \in SUBSET Vals, Fits(S)
             PROVE  /\ Cardinality(Spilled') <= Cardinality(Seen' \ S)
                    /\ \A p \in Positions :
                          Cardinality(Past(Kept', p)) + Cardinality(Spilled')
                          <= Cardinality(Past(S \cap Seen', p)) + Cardinality(Seen' \ S)
  BY ZenonT(30) DEF GreedyInv, Past, Fits, LiveAt, intervals
<1> DEFINE new == IF liveIn \in S THEN 0 ELSE 1
<1>3. Cardinality(Seen' \ S) = Cardinality(Seen \ S) + new
  BY <1>0, RivalLeaves DEF IndInv, TypeOK
<1>4. Cardinality(Spilled) + 1 <= Cardinality(Seen \ S) + new
  <2>1. CASE liveIn \in S
    BY <2>1, RivalLeftOut, ValueSets
  <2>2. CASE liveIn \notin S
    <3>1. Cardinality(Spilled) <= Cardinality(Seen \ S)
      BY DEF GreedyInv
    <3> QED BY <2>2, <3>1, ValueSets
  <2> QED BY <2>1, <2>2
<1>5. ASSUME NEW p \in Positions
      PROVE  Cardinality(Past(Kept', p)) + Cardinality(Spilled')
             <= Cardinality(Past(S \cap Seen', p)) + Cardinality(Seen' \ S)
  <2> DEFINE ahead == IF end[liveIn] > p THEN 1 ELSE 0
             both == IF liveIn \in S THEN IF end[liveIn] > p THEN 1 ELSE 0 ELSE 0
  <2>0. /\ Cardinality(Past(Kept, p)) \in Nat /\ Cardinality(Spilled) \in Nat
        /\ Cardinality(Past(S \cap Seen, p)) \in Nat /\ Cardinality(Seen \ S) \in Nat
        /\ Past(Kept \cup {liveIn}, p) \in SUBSET Vals
        /\ IsFiniteSet(Past(Kept \cup {liveIn}, p))
    BY <1>0, ValueSets
  <2>1. Cardinality(Past(S \cap Seen', p)) = Cardinality(Past(S \cap Seen, p)) + both
    <3>1. Cardinality(Past(S \cap (Seen \cup {liveIn}), p))
          = Cardinality(Past(S \cap Seen, p)) + both
      BY <1>0, RivalPast
    <3> QED BY <3>1, Zenon
  <2>2. CASE end[last] > p
    <3>1. Past(Kept', p) = Past(Kept \cup {liveIn}, p) \ {last}
      BY DEF Past
    <3>2. last \in Past(Kept \cup {liveIn}, p)
      BY <1>0, <2>2 DEF Past, Kept, IndInv, ActiveInv, InRegister, Placed, RegIds,
                        kIvalidRegId
    <3>3. Cardinality(Past(Kept \cup {liveIn}, p)) = Cardinality(Past(Kept, p)) + ahead
      <4>1. Kept \in SUBSET Vals
        BY ValueSets
      <4> QED BY <1>0, <4>1, PastAdd
    <3>4. Cardinality(Past(Kept', p)) = Cardinality(Past(Kept \cup {liveIn}, p)) - 1
      <4> DEFINE U == Past(Kept \cup {liveIn}, p)
      <4>1. IsFiniteSet(U) /\ last \in U /\ Past(Kept', p) = U \ {last}
        BY <2>0, <3>1, <3>2
      <4> HIDE DEF U
      <4>2. Cardinality(U \ {last}) = Cardinality(U) - 1
        BY <4>1, FS_RemoveElement
      <4>3. Cardinality(Past(Kept', p)) = Cardinality(U \ {last})
        BY <4>1, Zenon
      <4> QED BY <4>2, <4>3 DEF U
    <3>5. ahead <= both + new /\ ahead \in Nat /\ both \in Nat /\ new \in Nat
      OBVIOUS
    <3>6. Cardinality(Past(Kept, p)) + Cardinality(Spilled)
          <= Cardinality(Past(S \cap Seen, p)) + Cardinality(Seen \ S)
      BY DEF GreedyInv
    <3> HIDE DEF ahead, both, new
    <3> QED BY <1>2, <1>3, <2>0, <2>1, <3>3, <3>4, <3>5, <3>6
  <2>3. CASE ~(end[last] > p)
    <3>1. Past(Kept', p) = {}
      <4> SUFFICES ASSUME NEW v \in Kept \cup {liveIn}, end[v] > p PROVE FALSE
        BY DEF Past
      <4>1. v \notin active \cup {liveIn}
        BY <1>0, <1>1, <2>3, PositionsAssumption
      <4>2. v \in Vals /\ InRegister(v) /\ v \notin active
        BY <4>1 DEF Kept
      <4>3. end[v] <= start[liveIn]
        BY <1>0, <4>2 DEF IndInv, RetiredInv, Waiting, InBody
      <4>4. end[liveIn] <= end[last]
        OBVIOUS
      <4> QED BY <1>0, <1>1, <2>3, <4>2, <4>3, <4>4, PositionsAssumption
    <3>2. Cardinality(Past(Kept', p)) = 0
      BY <3>1, FS_EmptySet
    <3>3. both \in Nat /\ new \in Nat
      OBVIOUS
    <3> HIDE DEF both, new
    <3> QED BY <1>2, <1>3, <1>4, <2>0, <2>1, <3>2, <3>3
  <2> QED BY <2>2, <2>3
<1> HIDE DEF new
<1> QED BY <1>2, <1>3, <1>4, <1>5, ValueSets

(* What the steps that place liveIn make of the sets.                        *)
LEMMA GreedyStep ==
    ASSUME IndInv, IndInv', GreedyInv, [Next]_vars
    PROVE  GreedyInv'
<1>0. /\ locId \in [Vals -> Nat \cup {-1}] /\ onStack \in [Vals -> BOOLEAN]
      /\ active \subseteq Vals /\ stackPos \in Nat
  BY DEF IndInv, TypeOK, kIvalidRegId
<1>1. ASSUME UNCHANGED <<intervals, locId, onStack>> PROVE GreedyInv'
  BY <1>1 DEF GreedyInv, Fits, LiveAt, Past, Seen, Kept, Spilled, InRegister, Placed,
              intervals
<1>2. ASSUME NEW v \in Vals, NextInterval(v) \/ Expire(v) PROVE GreedyInv'
  BY <1>1, <1>2 DEF NextInterval, Expire, Abort
<1>3. CASE ExpireReturn \/ Finish \/ UNCHANGED vars
  BY <1>1, <1>3 DEF ExpireReturn, Finish, vars, scanVars, intervals
<1>4. CASE Allocate
  <2>1. pc = "place" /\ ~AllocateFails
    BY <1>4 DEF Allocate, Abort, IndInv, NoAssertionFails
  <2>2. PICK i \in RegIds : locId' = [locId EXCEPT ![liveIn] = i]
    BY <1>4, <2>1 DEF Allocate
  <2>3. UNCHANGED <<intervals, onStack>>
    BY <1>4, <2>1 DEF Allocate
  <2>4. liveIn \in Vals /\ ~onStack[liveIn] /\ i # -1
    BY <2>1, PlaceFacts, NumRegsAssumption DEF RegIds
  <2>5. /\ Seen' = Seen \cup {liveIn} /\ Kept' = Kept \cup {liveIn}
        /\ Spilled' = Spilled
    BY <1>0, <2>2, <2>3, <2>4
       DEF Seen, Kept, Spilled, InRegister, Placed, kIvalidRegId
  <2> QED BY <2>1, <2>3, <2>5, KeepGreedy
<1>5. CASE SpillCurrent
  <2>1. pc = "place" /\ Cardinality(active) = kNumRegs
    BY <1>5 DEF SpillCurrent
  <2>2. PICK s \in active : LastActive(s) /\ ~Outlives(s)
    BY <1>5 DEF SpillCurrent
  <2>3. /\ locId' = [locId EXCEPT ![liveIn] = stackPos]
        /\ onStack' = [onStack EXCEPT ![liveIn] = TRUE]
        /\ UNCHANGED intervals
    BY <1>5 DEF SpillCurrent, MoveToStack
  <2>4. /\ liveIn \in Vals /\ ~onStack[liveIn] /\ ~Placed(liveIn)
        /\ end \in [Vals -> Nat]
    BY <2>1, PlaceFacts
  <2>5. \A a \in active \cup {liveIn} : end[a] <= end[liveIn]
    BY <1>0, <2>2, <2>4 DEF LastActive, Outlives
  <2>6. /\ Seen' = Seen \cup {liveIn} /\ Kept' = (Kept \cup {liveIn}) \ {liveIn}
        /\ Spilled' = Spilled \cup {liveIn}
    BY <1>0, <2>3, <2>4 DEF Seen, Kept, Spilled, InRegister, Placed, kIvalidRegId
  <2> QED BY <2>1, <2>3, <2>5, <2>6, SpillGreedy
<1>6. ASSUME NEW s \in Vals, SpillActive(s) PROVE GreedyInv'
  <2>1. /\ pc = "place" /\ Cardinality(active) = kNumRegs
        /\ LastActive(s) /\ Outlives(s)
    BY <1>6 DEF SpillActive
  <2>2. /\ s \in active /\ ~onStack[s] /\ locId[s] # -1 /\ locId[s] \in Nat
    BY <2>1, NumRegsAssumption DEF LastActive, IndInv, ActiveInv, RegIds
  <2>3. /\ locId' = [locId EXCEPT ![liveIn] = locId[s], ![s] = stackPos]
        /\ onStack' = [onStack EXCEPT ![s] = TRUE]
        /\ UNCHANGED intervals
    BY <1>6, <2>2 DEF SpillActive, MoveToStack
  <2>4. /\ liveIn \in Vals /\ ~onStack[liveIn] /\ ~Placed(liveIn) /\ liveIn # s
        /\ end \in [Vals -> Nat]
    BY <2>1, <2>2, PlaceFacts
  <2>5. \A a \in active \cup {liveIn} : end[a] <= end[s]
    BY <1>0, <2>1, <2>4 DEF LastActive, Outlives
  <2>6. /\ locId'[liveIn] = locId[s] /\ ~onStack'[liveIn]
        /\ locId'[s] = stackPos /\ onStack'[s]
        /\ \A v \in Vals \ {liveIn, s} : locId'[v] = locId[v] /\ onStack'[v] = onStack[v]
    BY <1>0, <2>2, <2>3, <2>4
  <2>7. /\ Seen' = Seen \cup {liveIn} /\ Kept' = (Kept \cup {liveIn}) \ {s}
        /\ Spilled' = Spilled \cup {s}
    BY <1>0, <2>2, <2>4, <2>6 DEF Seen, Kept, Spilled, InRegister, Placed, kIvalidRegId
  <2> QED BY <2>1, <2>2, <2>3, <2>5, <2>7, SpillGreedy
<1> QED BY <1>2, <1>3, <1>4, <1>5, <1>6 DEF Next

(* No other choice of spills would have kept more values in registers.       *)
THEOREM SpillsMinimal == Spec => []MinimalSpills
<1>1. Init => GreedyInv
  <2> SUFFICES ASSUME Init PROVE GreedyInv
    OBVIOUS
  <2>1. Spilled = {} /\ Kept = {} /\ Seen = {}
    BY DEF Init, Spilled, Kept, InRegister, Placed, Seen
  <2>2. \A S : Seen \ S = {} /\ \A p : Past(S \cap Seen, p) = {} /\ Past(Kept, p) = {}
    BY <2>1 DEF Past
  <2> QED BY <2>1, <2>2, FS_EmptySet DEF GreedyInv
<1>2. IndInv /\ IndInv' /\ GreedyInv /\ [Next]_vars => GreedyInv'
  BY GreedyStep
<1>3. IndInv /\ GreedyInv /\ AllPlacedWhenDone => MinimalSpills
  <2> SUFFICES ASSUME IndInv, GreedyInv, AllPlacedWhenDone, pc = "done",
                      NEW S \in SUBSET Vals, \A v \in S : ~Empty(v), Fits(S)
               PROVE  Cardinality(S) <= Cardinality(Kept)
    BY DEF MinimalSpills
  <2>1. S \subseteq Seen
    BY DEF AllPlacedWhenDone, Seen
  <2>2. Kept = Seen \ Spilled /\ Spilled \subseteq Seen
    <3>1. \A v \in Vals : onStack[v] => Placed(v)
      BY DEF IndInv, TypeOK, StackInv, Placed, kIvalidRegId
    <3> QED BY <3>1 DEF Kept, Seen, Spilled, InRegister
  <2>3. /\ Cardinality(Seen \ S) = Cardinality(Seen) - Cardinality(S)
        /\ Cardinality(Seen \ Spilled) = Cardinality(Seen) - Cardinality(Spilled)
    <3>1. Seen \cap S = S /\ Seen \cap Spilled = Spilled
      BY <2>1, <2>2
    <3> QED BY <3>1, ValueSets, FS_Difference, ZenonT(30)
  <2>4. Cardinality(Spilled) <= Cardinality(Seen \ S)
    BY DEF GreedyInv
  <2>5. /\ Cardinality(S) \in Nat /\ Cardinality(Seen) \in Nat
        /\ Cardinality(Spilled) \in Nat
    BY ValueSets
  <2> QED BY <2>2, <2>3, <2>4, <2>5
<1> QED BY <1>1, <1>2, <1>3, Invariance, AllPlaced, PTL DEF Spec
=============================================================================
