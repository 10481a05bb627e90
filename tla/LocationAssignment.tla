------------------------- MODULE LocationAssignment -------------------------
(* What register allocation promises, independently of how it scans: every   *)
(* value with a non-empty live interval is given a location, a register or a *)
(* stack slot of its own; two values whose intervals overlap never share a   *)
(* register; a value may lose its register to another one once, for good.    *)
(* getLocation of include/analysis/regalloc.hh is the observer of loc.       *)
EXTENDS Integers

CONSTANTS Vals, Positions, kNumRegs

VARIABLES start, end, loc

None == [kind |-> "none", id |-> 0]
Registers == {[kind |-> "reg", id |-> r] : r \in 0 .. kNumRegs - 1}
IsSlot(l) == l.id \in Nat /\ l = [kind |-> "stack", id |-> l.id]

(* Intervals are half open: a value whose interval ends where another one    *)
(* starts is dead there.                                                     *)
Overlap(v, w) == start[v] < end[w] /\ start[w] < end[v]

Init ==
    /\ start \in [Vals -> Positions]
    /\ end \in [Vals -> Positions]
    /\ \A v \in Vals : start[v] <= end[v]
    /\ loc = [v \in Vals |-> None]

Unplaced(v) == loc[v] = None /\ start[v] < end[v]

(* No value overlapping v, those in except aside, is at l.                   *)
FreeFor(v, l, except) == \A u \in Vals \ except : Overlap(v, u) => loc[u] # l

FreshSlot(l) == IsSlot(l) /\ \A u \in Vals : loc[u] # l

OnlyChanges(moved) ==
    /\ DOMAIN loc' = Vals
    /\ \A u \in Vals \ moved : loc'[u] = loc[u]
    /\ UNCHANGED <<start, end>>

(* v gets a register no overlapping value holds.                             *)
Assign(v) ==
    /\ Unplaced(v)
    /\ loc'[v] \in Registers
    /\ FreeFor(v, loc'[v], {v})
    /\ OnlyChanges({v})

(* v gets a stack slot nothing has used.                                     *)
Spill(v) ==
    /\ Unplaced(v)
    /\ FreshSlot(loc'[v])
    /\ OnlyChanges({v})

(* v takes the register of w, which moves to a stack slot nothing has used.  *)
Evict(v, w) ==
    /\ Unplaced(v)
    /\ v # w
    /\ loc[w] \in Registers
    /\ loc'[v] = loc[w]
    /\ FreeFor(v, loc[w], {v, w})
    /\ FreshSlot(loc'[w])
    /\ OnlyChanges({v, w})

Next == \E v \in Vals : Assign(v) \/ Spill(v) \/ \E w \in Vals : Evict(v, w)

Spec == Init /\ [][Next]_<<start, end, loc>>
=============================================================================
