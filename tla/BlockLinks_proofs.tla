------------------------- MODULE BlockLinks_proofs -------------------------
(* Proofs about BlockLinks, for every set of blocks and every number of      *)
(* successors.                                                               *)
EXTENDS BlockLinks, FiniteIteration, FunctionTheorems

-----------------------------------------------------------------------------
(* The loop of updateLinks.                                                  *)
LoopState(total) ==
    [mem : [1 .. total -> BBs], n : 0 .. total, pred : [BBs -> [BBs -> Nat]], ok : BOOLEAN]

LoopStart(b) == [mem |-> succ[b], n |-> Len(succ[b]), pred |-> pred, ok |-> TRUE]

(* A non-empty set of slots has a first one.                                 *)
LEMMA FirstSlot ==
    ASSUME NEW n \in Nat, NEW F \in SUBSET (1 .. n), F # {}
    PROVE  First(F) \in F /\ \A l \in F : First(F) <= l
<1>1. \E j \in F : \A l \in F : j <= l
  <2>1. F \in SUBSET Nat
    OBVIOUS
  <2> QED BY <2>1, NatLeast
<1> QED BY <1>1, Zenon DEF First

(* A round of the loop keeps the types of what it works on.                  *)
LEMMA RoundType ==
    ASSUME NEW b \in BBs, NEW total \in Nat, NEW r \in LoopState(total),
           NEW k \in 1 .. total
    PROVE  UnlinkRound(b, r, k) \in LoopState(total)
<1> DEFINE x == r.mem[k]
           found == {j \in 1 .. r.n : r.mem[j] = x}
<1>1. x \in BBs /\ r.n \in 0 .. total /\ r.mem \in [1 .. total -> BBs]
  BY DEF LoopState
<1>2. CASE ~r.ok \/ x \notin Alive \/ r.pred[x][b] = 0 \/ found = {}
  <2>1. UnlinkRound(b, r, k) = [r EXCEPT !.ok = FALSE]
    BY <1>2 DEF UnlinkRound
  <2> QED BY <2>1 DEF LoopState
<1>3. CASE ~(~r.ok \/ x \notin Alive \/ r.pred[x][b] = 0 \/ found = {})
  <2>1. UnlinkRound(b, r, k) = [mem |-> EraseAt(r.mem, r.n, First(found)), n |-> r.n - 1,
                               pred |-> [r.pred EXCEPT ![x][b] = @ - 1], ok |-> TRUE]
    BY <1>3 DEF UnlinkRound
  <2>2. r.n \in 1 .. total /\ found \in SUBSET (1 .. r.n)
    BY <1>1, <1>3
  <2>3. First(found) \in 1 .. r.n
    <3> HIDE DEF found
    <3>1. r.n \in Nat
      BY <2>2
    <3> QED BY <1>3, <2>2, <3>1, FirstSlot
  <2>4. EraseAt(r.mem, r.n, First(found)) \in [1 .. total -> BBs]
    BY <1>1, <2>2, <2>3 DEF EraseAt
  <2>5. [r.pred EXCEPT ![x][b] = @ - 1] \in [BBs -> [BBs -> Nat]]
    <3>1. r.pred \in [BBs -> [BBs -> Nat]]
      BY DEF LoopState
    <3>2. r.pred[x][b] # 0
      BY <1>3
    <3> HIDE DEF x
    <3>3. r.pred[x] \in [BBs -> Nat] /\ r.pred[x][b] \in Nat
      BY <1>1, <3>1
    <3>4. r.pred[x][b] - 1 \in Nat
      BY <3>2, <3>3
    <3> QED BY <1>1, <3>1, <3>3, <3>4
  <2>6. r.n - 1 \in 0 .. total
    BY <2>2
  <2> DEFINE mem == EraseAt(r.mem, r.n, First(found))
             preds == [r.pred EXCEPT ![x][b] = @ - 1]
  <2>7. UnlinkRound(b, r, k) = [mem |-> mem, n |-> r.n - 1, pred |-> preds, ok |-> TRUE]
    BY <2>1
  <2>8. mem \in [1 .. total -> BBs] /\ preds \in [BBs -> [BBs -> Nat]]
    BY <2>4, <2>5
  <2> HIDE DEF mem, preds
  <2>9. [mem |-> mem, n |-> r.n - 1, pred |-> preds, ok |-> TRUE] \in LoopState(total)
    BY <2>6, <2>8 DEF LoopState
  <2> QED BY <2>7, <2>9
<1> QED BY <1>2, <1>3

(* The loop of unlinkBBs runs: its states can be given round by round.       *)
LEMMA RoundsExist ==
    ASSUME NEW b \in BBs, NEW total \in Nat, NEW start \in LoopState(total)
    PROVE  \E g \in [0 .. total -> LoopState(total)] :
              g[0] = start /\ \A k \in 1 .. total : g[k] = UnlinkRound(b, g[k - 1], k)
<1>1. PICK S : S = LoopState(total)
  OBVIOUS
<1>2. PICK D \in Rounds(S, total) :
        \A k \in 1 .. total : \A r \in S : D[k][r] = UnlinkRound(b, r, k)
  <2> DEFINE E == [k \in 1 .. total |-> [r \in S |-> UnlinkRound(b, r, k)]]
  <2>1. E \in Rounds(S, total)
    BY <1>1, RoundType DEF Rounds
  <2>2. \A k \in 1 .. total : \A r \in S : E[k][r] = UnlinkRound(b, r, k)
    OBVIOUS
  <2> HIDE DEF E
  <2> QED BY <2>1, <2>2
<1>3. PICK g : g \in Executions(S, total, start, D)
  <2>1. start \in S
    BY <1>1
  <2> QED BY <2>1, ExecutionExists
<1>4. ASSUME NEW k \in 1 .. total PROVE g[k] = UnlinkRound(b, g[k - 1], k)
  <2>1. g[k - 1] \in S
    BY <1>3 DEF Executions
  <2> QED BY <1>2, <1>3, <2>1 DEF Executions
<1> QED BY <1>1, <1>3, <1>4 DEF Executions

(* UnlinkLoop is what its rounds make of the links, one after the other.     *)
LEMMA UnlinkLoopRuns ==
    ASSUME TypeOK, NEW b \in BBs
    PROVE  \E g \in [0 .. Len(succ[b]) -> LoopState(Len(succ[b]))] :
              /\ g[0] = LoopStart(b)
              /\ \A k \in 1 .. Len(succ[b]) : g[k] = UnlinkRound(b, g[k - 1], k)
              /\ UnlinkLoop(b) = g[Len(succ[b])]
<1> DEFINE total == Len(succ[b])
           Def(g) == [k \in 0 .. total |->
                        IF k = 0 THEN LoopStart(b) ELSE UnlinkRound(b, g[k - 1], k)]
<1>1. total \in Nat /\ LoopStart(b) \in LoopState(total)
  BY DEF TypeOK, LoopStart, LoopState
<1>2. PICK g \in [0 .. total -> LoopState(total)] :
        g[0] = LoopStart(b) /\ \A k \in 1 .. total : g[k] = UnlinkRound(b, g[k - 1], k)
  BY <1>1, RoundsExist
<1>3. g = Def(g)
  BY <1>1, <1>2
<1> DEFINE round == CHOOSE f : f = Def(f)
<1>4. round = Def(round)
  <2> HIDE DEF Def
  <2> QED BY <1>3
<1>5. UnlinkLoop(b) = round[total]
  BY DEF UnlinkLoop, LoopStart
<1> HIDE DEF round
<1>6. /\ round[0] = LoopStart(b)
      /\ \A k \in 1 .. total : round[k] = UnlinkRound(b, round[k - 1], k)
  <2> HIDE DEF total
  <2>1. \A k \in 0 .. total : round[k] = Def(round)[k]
    BY <1>4
  <2> QED BY <1>1, <2>1
<1> DEFINE P == {k \in 0 .. total : round[k] = g[k]}
<1>7. 0 \in P /\ P \in SUBSET (0 .. total)
  BY <1>1, <1>2, <1>6
<1>8. \A k \in 1 .. total : k - 1 \in P => k \in P
  BY <1>1, <1>2, <1>6
<1>9. P = 0 .. total
  <2> HIDE DEF P, total
  <2> QED BY <1>1, <1>7, <1>8, RangeInduction
<1> QED BY <1>1, <1>2, <1>5, <1>9

-----------------------------------------------------------------------------
(* How often a block is in a list.                                           *)
CountUpTo(mem, n, c) == Cardinality({j \in 1 .. n : mem[j] = c})

(* A set of places of a list is finite.                                      *)
LEMMA CountsFinite ==
    ASSUME NEW n \in Nat, NEW F \in SUBSET (1 .. n)
    PROVE  IsFiniteSet(F) /\ Cardinality(F) \in Nat
<1>1. IsFiniteSet(1 .. n)
  BY FS_Interval
<1>2. IsFiniteSet(F)
  BY <1>1, FS_Subset
<1> QED BY <1>2, FS_CardinalityType

(* How often a block stands in a list is what counting along the list gives. *)
LEMMA CountIsUpTo ==
    ASSUME NEW s \in Seq(BBs), NEW c
    PROVE  Count(s, c) = CountUpTo(s, Len(s), c) /\ Count(s, c) \in Nat
<1>1. DOMAIN s = 1 .. Len(s) /\ Len(s) \in Nat
  OBVIOUS
<1>2. {j \in 1 .. Len(s) : s[j] = c} \in SUBSET (1 .. Len(s))
  OBVIOUS
<1> QED BY <1>1, <1>2, CountsFinite DEF Count, CountUpTo

(* A list with one element more counts it once more.                         *)
LEMMA CountAppend ==
    ASSUME NEW s \in Seq(BBs), NEW x \in BBs, NEW c
    PROVE  Count(Append(s, x), c) = Count(s, c) + Count(<<x>>, c)
<1> DEFINE F == {j \in DOMAIN s : s[j] = c}
           G == {j \in DOMAIN Append(s, x) : Append(s, x)[j] = c}
           H == {j \in DOMAIN <<x>> : <<x>>[j] = c}
<1>1. Len(s) \in Nat /\ DOMAIN s = 1 .. Len(s) /\ F \in SUBSET (1 .. Len(s))
  OBVIOUS
<1>2. IsFiniteSet(F) /\ Cardinality(F) \in Nat
  BY <1>1, CountsFinite
<1>3. /\ Count(Append(s, x), c) = Cardinality(G) /\ Count(s, c) = Cardinality(F)
      /\ Count(<<x>>, c) = Cardinality(H)
  BY DEF Count
<1>4. CASE x = c
  <2>1. G = F \cup {Len(s) + 1} /\ Len(s) + 1 \notin F
    BY <1>4
  <2>2. H = {1}
    BY <1>4
  <2> HIDE DEF F, G, H
  <2>3. Cardinality(G) = Cardinality(F) + 1 /\ Cardinality(H) = 1
    BY <1>2, <2>1, <2>2, FS_AddElement, FS_Singleton
  <2> QED BY <1>3, <2>3
<1>5. CASE x # c
  <2>1. G = F /\ H = {}
    BY <1>5
  <2> HIDE DEF F, G, H
  <2>2. Cardinality(G) = Cardinality(F) /\ Cardinality(H) = 0
    BY <2>1, FS_EmptySet
  <2> QED BY <1>2, <1>3, <2>2
<1> QED BY <1>4, <1>5

(* Erasing slot k takes one entry of the block it holds from the count, and  *)
(* none of any other block, however the slots behind it move.                *)
LEMMA EraseCounts ==
    ASSUME NEW n \in Nat \ {0}, NEW mem, 1 .. n \subseteq DOMAIN mem,
           NEW k \in 1 .. n, NEW c
    PROVE  CountUpTo(EraseAt(mem, n, k), n - 1, c)
           = CountUpTo(mem, n, c) - (IF mem[k] = c THEN 1 ELSE 0)
<1> DEFINE after == EraseAt(mem, n, k)
           F == {j \in 1 .. n : mem[j] = c}
           G == {j \in 1 .. n - 1 : after[j] = c}
           f == [j \in F \ {k} |-> IF j < k THEN j ELSE j - 1]
<1>1. \A j \in 1 .. n - 1 : after[j] = IF j < k THEN mem[j] ELSE mem[j + 1]
  BY DEF EraseAt
<1> HIDE DEF after
<1>2. f \in [F \ {k} -> G]
  <2> SUFFICES ASSUME NEW j \in F \ {k} PROVE f[j] \in G
    OBVIOUS
  <2> QED BY <1>1
<1>3. \A i, j \in F \ {k} : f[i] = f[j] => i = j
  OBVIOUS
<1>4. \A g \in G : \E j \in F \ {k} : f[j] = g
  <2> SUFFICES ASSUME NEW g \in G PROVE \E j \in F \ {k} : f[j] = g
    OBVIOUS
  <2>1. CASE g < k
    <3>1. g \in F \ {k} /\ f[g] = g
      BY <1>1, <2>1
    <3> QED BY <3>1
  <2>2. CASE ~(g < k)
    <3>1. g + 1 \in F \ {k} /\ f[g + 1] = g
      BY <1>1, <2>2
    <3> QED BY <3>1
  <2> QED BY <2>1, <2>2
<1>5. F \in SUBSET (1 .. n) /\ n \in Nat
  OBVIOUS
<1>6. k \in F <=> mem[k] = c
  OBVIOUS
<1> HIDE DEF f, F, G
<1>7. f \in Bijection(F \ {k}, G)
  BY <1>2, <1>3, <1>4, Fun_IsBij
<1>8. IsFiniteSet(F) /\ Cardinality(F) \in Nat
  BY <1>5, CountsFinite
<1>9. /\ IsFiniteSet(F \ {k})
      /\ Cardinality(F \ {k}) = IF mem[k] = c THEN Cardinality(F) - 1 ELSE Cardinality(F)
  BY <1>6, <1>8, FS_RemoveElement
<1>10. Cardinality(G) = Cardinality(F \ {k})
  <2>1. ExistsBijection(F \ {k}, G)
    BY <1>7 DEF ExistsBijection
  <2> QED BY <1>9, <2>1, FS_Bijection
<1> QED BY <1>8, <1>9, <1>10 DEF F, G, CountUpTo, after

-----------------------------------------------------------------------------
(* While no assertion fails, the loop has erased one successor per round,    *)
(* and what is left of m_succ agrees with the entries of b left in the       *)
(* m_pred of the others.                                                     *)
LoopInv(b, total, r, k) ==
    r.ok => /\ r.n = total - k
            /\ \A c \in BBs : CountUpTo(r.mem, r.n, c) = r.pred[c][b]
            /\ \A c, p \in BBs : p # b => r.pred[c][p] = pred[c][p]

(* Counting one link less.                                                   *)
LEMMA OneLess ==
    ASSUME NEW f \in [BBs -> [BBs -> Nat]], NEW x \in BBs, NEW b \in BBs
    PROVE  \A c, p \in BBs : [f EXCEPT ![x][b] = @ - 1][c][p]
                             = IF c = x /\ p = b THEN f[c][p] - 1 ELSE f[c][p]
OBVIOUS

(* What a round that succeeds does.                                          *)
LEMMA RoundSucceeds ==
    ASSUME NEW b \in BBs, NEW total \in Nat, NEW r \in LoopState(total),
           NEW k \in 1 .. total, UnlinkRound(b, r, k).ok
    PROVE  /\ r.ok /\ r.n \in 1 .. total /\ UnlinkRound(b, r, k).n = r.n - 1
           /\ \E j \in 1 .. r.n :
                 /\ UnlinkRound(b, r, k).mem = EraseAt(r.mem, r.n, j)
                 /\ \A c, p \in BBs : UnlinkRound(b, r, k).pred[c][p] =
                       IF c = r.mem[j] /\ p = b THEN r.pred[c][p] - 1 ELSE r.pred[c][p]
<1> DEFINE x == r.mem[k]
           found == {j \in 1 .. r.n : r.mem[j] = x}
           fails == ~r.ok \/ x \notin Alive \/ r.pred[x][b] = 0 \/ found = {}
           fst == First(found)
           left == [r.pred EXCEPT ![x][b] = @ - 1]
<1>1. /\ r.mem \in [1 .. total -> BBs] /\ r.n \in 0 .. total /\ x \in BBs
      /\ r.pred \in [BBs -> [BBs -> Nat]]
  BY DEF LoopState
<1>2. ~fails
  <2> SUFFICES ASSUME fails PROVE FALSE
    OBVIOUS
  <2>1. UnlinkRound(b, r, k) = [r EXCEPT !.ok = FALSE]
    BY DEF UnlinkRound
  <2> QED BY <2>1 DEF LoopState
<1>3. UnlinkRound(b, r, k) = [mem |-> EraseAt(r.mem, r.n, fst), n |-> r.n - 1,
                             pred |-> left, ok |-> TRUE]
  BY <1>2 DEF UnlinkRound
<1>2a. r.ok /\ found # {}
  <2> HIDE DEF found, x
  <2> QED BY <1>2
<1>2b. r.n \in Nat /\ found \in SUBSET (1 .. r.n)
  <2>1. r.n \in Nat
    <3> HIDE DEF x, found, fails, fst, left
    <3> QED BY <1>1
  <2>2. found \in SUBSET (1 .. r.n)
    <3> HIDE DEF x, fails, fst, left
    <3> QED OBVIOUS
  <2> QED BY <2>1, <2>2
<1>4. fst \in 1 .. r.n /\ r.mem[fst] = x
  <2>1. r.n \in Nat /\ found \in SUBSET (1 .. r.n) /\ found # {}
    BY <1>2a, <1>2b
  <2>2. fst \in found
    <3> HIDE DEF found
    <3> QED BY <2>1, FirstSlot
  <2> HIDE DEF fst
  <2> QED BY <2>2
<1>5. r.ok /\ r.n \in 1 .. total
  <2> HIDE DEF fst, found, x
  <2> QED BY <1>1, <1>2a, <1>4
<1>6. \A c, p \in BBs : left[c][p] =
         IF c = x /\ p = b THEN r.pred[c][p] - 1 ELSE r.pred[c][p]
  <2> HIDE DEF x
  <2> QED BY <1>1, OneLess, SMTT(30)
<1> HIDE DEF x, found, fails, fst, left
<1>7. /\ UnlinkRound(b, r, k).mem = EraseAt(r.mem, r.n, fst)
      /\ UnlinkRound(b, r, k).n = r.n - 1 /\ UnlinkRound(b, r, k).pred = left
  BY <1>3
<1> QED BY <1>4, <1>5, <1>6, <1>7

(* One round of the loop of unlinkBBs keeps the loop's invariant.            *)
LEMMA RoundKeepsInv ==
    ASSUME NEW b \in BBs, NEW total \in Nat, NEW r \in LoopState(total),
           NEW k \in 1 .. total, LoopInv(b, total, r, k - 1)
    PROVE  LoopInv(b, total, UnlinkRound(b, r, k), k)
<1> SUFFICES ASSUME UnlinkRound(b, r, k).ok
             PROVE  LoopInv(b, total, UnlinkRound(b, r, k), k)
  BY DEF LoopInv
<1>1. PICK s : s = UnlinkRound(b, r, k)
  OBVIOUS
<1>2. PICK mem, n, before, after :
        mem = r.mem /\ n = r.n /\ before = r.pred /\ after = s.pred
  OBVIOUS
<1>3. r.ok /\ n \in 1 .. total /\ s.n = n - 1
  BY <1>1, <1>2, RoundSucceeds
<1>4. PICK j \in 1 .. n :
        /\ s.mem = EraseAt(mem, n, j)
        /\ \A c, p \in BBs :
              after[c][p] = IF c = mem[j] /\ p = b THEN before[c][p] - 1 ELSE before[c][p]
  BY <1>1, <1>2, RoundSucceeds
<1>5. mem \in [1 .. total -> BBs] /\ before \in [BBs -> [BBs -> Nat]]
  BY <1>2 DEF LoopState
<1>6. /\ n = total - (k - 1)
      /\ \A c \in BBs : CountUpTo(mem, n, c) = before[c][b]
      /\ \A c, p \in BBs : p # b => before[c][p] = pred[c][p]
  BY <1>2, <1>3 DEF LoopInv
<1>7. s.n = total - k
  BY <1>3, <1>6
<1>8. ASSUME NEW c \in BBs PROVE CountUpTo(s.mem, s.n, c) = after[c][b]
  <2>1. CountUpTo(EraseAt(mem, n, j), n - 1, c)
        = CountUpTo(mem, n, c) - (IF mem[j] = c THEN 1 ELSE 0)
    <3>1. n \in Nat \ {0} /\ n <= total
      BY <1>3
    <3>2. DOMAIN mem = 1 .. total
      BY <1>5
    <3>3. 1 .. n \subseteq DOMAIN mem
      BY <3>1, <3>2
    <3> QED BY <3>1, <3>3, EraseCounts
  <2>2. before[c] \in [BBs -> Nat] /\ before[c][b] \in Nat
    BY <1>5
  <2> QED BY <1>3, <1>4, <1>6, <2>1, <2>2
<1>9. \A c, p \in BBs : p # b => after[c][p] = pred[c][p]
  BY <1>4, <1>6
<1> QED BY <1>1, <1>2, <1>7, <1>8, <1>9 DEF LoopInv

(* The rounds of the loop, with the invariant after each of them.            *)
LEMMA RoundsKeepInv ==
    ASSUME TypeOK, LinksPaired, NEW b \in BBs
    PROVE  \E g \in [0 .. Len(succ[b]) -> LoopState(Len(succ[b]))] :
              /\ g[0] = LoopStart(b) /\ UnlinkLoop(b) = g[Len(succ[b])]
              /\ \A k \in 1 .. Len(succ[b]) : g[k] = UnlinkRound(b, g[k - 1], k)
              /\ \A k \in 0 .. Len(succ[b]) : LoopInv(b, Len(succ[b]), g[k], k)
<1> DEFINE total == Len(succ[b])
<1>1. total \in Nat /\ succ[b] \in Seq(BBs) /\ pred \in [BBs -> [BBs -> Nat]]
  BY DEF TypeOK
<1>2. PICK g \in [0 .. total -> LoopState(total)] :
        /\ g[0] = LoopStart(b) /\ UnlinkLoop(b) = g[total]
        /\ \A k \in 1 .. total : g[k] = UnlinkRound(b, g[k - 1], k)
  BY UnlinkLoopRuns
<1> DEFINE P == {k \in 0 .. total : LoopInv(b, total, g[k], k)}
<1>3. 0 \in P
  <2>1. LoopInv(b, total, LoopStart(b), 0)
    BY <1>1, CountIsUpTo DEF LoopInv, LoopStart, LinksPaired
  <2> QED BY <1>1, <1>2, <2>1
<1>4. ASSUME NEW k \in 1 .. total, k - 1 \in P PROVE k \in P
  <2>1. g[k - 1] \in LoopState(total) /\ LoopInv(b, total, g[k - 1], k - 1)
    BY <1>1, <1>4
  <2>2. LoopInv(b, total, UnlinkRound(b, g[k - 1], k), k)
    BY <1>1, <2>1, RoundKeepsInv
  <2> QED BY <1>1, <1>2, <2>2
<1>5. P \in SUBSET (0 .. total)
  OBVIOUS
<1>6. P = 0 .. total
  <2> HIDE DEF P, total
  <2> QED BY <1>1, <1>3, <1>4, <1>5, RangeInduction
<1> QED BY <1>2, <1>6

(* Where no assertion fails, updateLinks has taken b out of every m_pred.    *)
LEMMA UnlinkedAll ==
    ASSUME TypeOK, LinksPaired, NEW b \in BBs, UnlinkLoop(b).ok
    PROVE  /\ UnlinkLoop(b).pred \in [BBs -> [BBs -> Nat]]
           /\ \A c \in BBs : UnlinkLoop(b).pred[c][b] = 0
           /\ \A c, p \in BBs : p # b => UnlinkLoop(b).pred[c][p] = pred[c][p]
<1> DEFINE total == Len(succ[b])
<1>1. total \in Nat
  BY DEF TypeOK
<1>2. PICK r \in LoopState(total) : r = UnlinkLoop(b) /\ LoopInv(b, total, r, total)
  BY <1>1, RoundsKeepInv
<1>3. r.n = 0
  BY <1>1, <1>2 DEF LoopInv
<1>4. \A c \in BBs : CountUpTo(r.mem, r.n, c) = 0
  <2>1. \A c \in BBs : {j \in 1 .. r.n : r.mem[j] = c} = {}
    BY <1>3
  <2> QED BY <2>1, FS_EmptySet DEF CountUpTo
<1> QED BY <1>2, <1>4 DEF LoopInv, LoopState

-----------------------------------------------------------------------------
(* The handlers.                                                             *)
FreshEmpty == \A b \in BBs : life[b] = "new" => targets[b] = << >>

Inv == TypeOK /\ LinksPaired /\ LinksFollowTerminator /\ FreshEmpty

(* Steps that leave links and terminators alone.                             *)
LEMMA LifeOnly ==
    ASSUME Inv, UNCHANGED <<targets, succ, pred>>, aborted' \in BOOLEAN,
           life' \in [BBs -> {"new", "alive", "erased"}],
           \A b \in BBs : /\ life'[b] = "new" => life[b] = "new"
                          /\ life'[b] = "alive" => life[b] \in {"new", "alive"}
    PROVE  Inv'
<1> USE DEF Inv
<1>1. TypeOK'
  BY DEF TypeOK
<1>2. LinksPaired'
  BY DEF LinksPaired
<1>3. LinksFollowTerminator'
  <2> SUFFICES ASSUME NEW b \in BBs, life'[b] = "alive", targets[b] # << >>
               PROVE  /\ Len(targets[b]) <= Len(succ[b])
                      /\ \A k \in DOMAIN targets[b] : succ[b][k] = targets[b][k]
    BY DEF LinksFollowTerminator, Alive
  <2>1. life[b] = "alive"
    BY DEF FreshEmpty
  <2> QED BY <2>1 DEF LinksFollowTerminator, Alive
<1>4. FreshEmpty'
  <2> SUFFICES ASSUME NEW b \in BBs, life'[b] = "new" PROVE targets[b] = << >>
    BY DEF FreshEmpty
  <2>1. life[b] = "new"
    OBVIOUS
  <2> QED BY <2>1 DEF FreshEmpty
<1> QED BY <1>1, <1>2, <1>3, <1>4

(* updateLinks leaves every link stored at both its ends.                    *)
LEMMA UpdateKeepsPairs ==
    ASSUME TypeOK, LinksPaired, NEW b \in BBs, NEW ts \in Seq(BBs), UpdateLinks(b, ts)
    PROVE  /\ succ' \in [BBs -> Seq(BBs)] /\ pred' \in [BBs -> [BBs -> Nat]]
           /\ LinksPaired'
           /\ \A c \in BBs : succ'[c] = IF c = b THEN ts ELSE succ[c]
<1>1. PICK left : left = UnlinkLoop(b).pred
  OBVIOUS
<1>2. UnlinkLoop(b).ok /\ succ' = [succ EXCEPT ![b] = ts] /\ pred' = LinkPreds(left, b, ts)
  BY <1>1 DEF UpdateLinks
<1>3. succ \in [BBs -> Seq(BBs)] /\ pred \in [BBs -> [BBs -> Nat]]
  BY DEF TypeOK
<1>4. /\ left \in [BBs -> [BBs -> Nat]]
      /\ \A c \in BBs : left[c][b] = 0
      /\ \A c, p \in BBs : p # b => left[c][p] = pred[c][p]
  BY <1>1, <1>2, UnlinkedAll
<1>5. /\ pred' \in [BBs -> [BBs -> Nat]]
      /\ \A c, d \in BBs : pred'[c][d]
                           = IF d = b THEN left[c][d] + Count(ts, c) ELSE left[c][d]
  <2>1. left \in [BBs -> [BBs -> Nat]]
    BY <1>4
  <2>2. /\ LinkPreds(left, b, ts) \in [BBs -> [BBs -> Nat]]
        /\ \A c, d \in BBs : LinkPreds(left, b, ts)[c][d]
                             = IF d = b THEN left[c][d] + Count(ts, c) ELSE left[c][d]
    <3>1. \A c : Count(ts, c) \in Nat
      BY CountIsUpTo
    <3> QED BY <2>1, <3>1, SMTT(30) DEF LinkPreds
  <2> QED BY <1>2, <2>2
<1>6. /\ succ' \in [BBs -> Seq(BBs)]
      /\ \A c \in BBs : succ'[c] = IF c = b THEN ts ELSE succ[c]
  BY <1>2, <1>3
<1>7. ASSUME NEW d \in BBs, NEW c \in BBs PROVE Count(succ'[d], c) = pred'[c][d]
  <2>1. CASE d = b
    <3>1. succ'[d] = ts /\ Count(ts, c) \in Nat
      BY <1>6, <2>1, CountIsUpTo
    <3>2. pred'[c][d] = 0 + Count(ts, c)
      BY <1>4, <1>5, <2>1
    <3> QED BY <3>1, <3>2
  <2>2. CASE d # b
    <3>1. succ'[d] = succ[d] /\ pred'[c][d] = pred[c][d]
      BY <1>4, <1>5, <1>6, <2>2
    <3> QED BY <3>1 DEF LinksPaired
  <2> QED BY <2>1, <2>2
<1> QED BY <1>5, <1>6, <1>7 DEF LinksPaired

(* pushInstBack keeps the invariant, whatever terminator is pushed.          *)
LEMMA PushInstBackInv ==
    ASSUME Inv, NEW b \in BBs, NEW ts \in TargetLists, PushInstBack(b, ts)
    PROVE  Inv'
<1> USE DEF Inv
<1>0. ts \in Seq(BBs)
  <2>1. Alive \subseteq BBs
    BY DEF Alive
  <2>2. CASE ts = << >>
    BY <2>2
  <2>3. CASE \E t \in Alive : ts = <<t>>
    BY <2>1, <2>3
  <2>4. CASE \E t, f \in Alive : ts = <<t, f>>
    BY <2>1, <2>4
  <2> QED BY <2>2, <2>3, <2>4 DEF TargetLists
<1>1. CASE Abort
  BY <1>1, LifeOnly DEF Abort, TypeOK
<1>2. CASE ~Abort
  <2>1. /\ UpdateLinks(b, ts) /\ targets' = [targets EXCEPT ![b] = ts]
        /\ UNCHANGED <<life, aborted>>
    BY <1>2 DEF PushInstBack
  <2>2. /\ succ' \in [BBs -> Seq(BBs)] /\ pred' \in [BBs -> [BBs -> Nat]]
        /\ LinksPaired' /\ \A c \in BBs : succ'[c] = IF c = b THEN ts ELSE succ[c]
    BY <1>0, <2>1, UpdateKeepsPairs
  <2>3. /\ targets' \in [BBs -> Seq(BBs)]
        /\ \A c \in BBs : targets'[c] = IF c = b THEN ts ELSE targets[c]
    BY <1>0, <2>1 DEF TypeOK
  <2>4. TypeOK'
    BY <2>1, <2>2, <2>3 DEF TypeOK
  <2>5. LinksFollowTerminator'
    <3> SUFFICES ASSUME NEW d \in BBs, life[d] = "alive", targets'[d] # << >>
                 PROVE  /\ Len(targets'[d]) <= Len(succ'[d])
                        /\ \A k \in DOMAIN targets'[d] : succ'[d][k] = targets'[d][k]
      BY <2>1 DEF LinksFollowTerminator, Alive
    <3>1. CASE d = b
      <4>1. targets'[d] = ts /\ succ'[d] = ts
        BY <2>2, <2>3, <3>1
      <4> QED BY <1>0, <4>1
    <3>2. CASE d # b
      <4>1. targets'[d] = targets[d] /\ succ'[d] = succ[d]
        BY <2>2, <2>3, <3>2
      <4> QED BY <4>1 DEF LinksFollowTerminator, Alive
    <3> QED BY <3>1, <3>2
  <2>6. FreshEmpty'
    BY <2>1, <2>3 DEF FreshEmpty, Alive, PushInstBack
  <2> QED BY <2>2, <2>4, <2>5, <2>6
<1> QED BY <1>1, <1>2

(* splice keeps the invariant: the receiver's links are made anew.           *)
LEMMA SpliceTailInv ==
    ASSUME Inv, NEW b \in BBs, NEW c \in BBs, SpliceTail(b, c)
    PROVE  Inv'
<1> USE DEF Inv
<1>1. CASE Abort
  BY <1>1, LifeOnly DEF Abort, TypeOK
<1>2. CASE ~Abort
  <2>1. /\ UpdateLinks(b, targets[c]) /\ b # c
        /\ targets' = [targets EXCEPT ![b] = targets[c], ![c] = << >>]
        /\ UNCHANGED <<life, aborted>>
    BY <1>2 DEF SpliceTail
  <2>2. targets \in [BBs -> Seq(BBs)] /\ targets[c] \in Seq(BBs)
    BY DEF TypeOK
  <2>3. /\ succ' \in [BBs -> Seq(BBs)] /\ pred' \in [BBs -> [BBs -> Nat]]
        /\ LinksPaired'
        /\ \A d \in BBs : succ'[d] = IF d = b THEN targets[c] ELSE succ[d]
    BY <2>1, <2>2, UpdateKeepsPairs
  <2>4. /\ targets' \in [BBs -> Seq(BBs)]
        /\ \A d \in BBs : targets'[d] = IF d = c THEN << >>
                                        ELSE IF d = b THEN targets[c] ELSE targets[d]
    BY <2>1, <2>2
  <2>5. TypeOK'
    BY <2>1, <2>3, <2>4 DEF TypeOK
  <2>6. LinksFollowTerminator'
    <3> SUFFICES ASSUME NEW d \in BBs, life[d] = "alive", targets'[d] # << >>
                 PROVE  /\ Len(targets'[d]) <= Len(succ'[d])
                        /\ \A k \in DOMAIN targets'[d] : succ'[d][k] = targets'[d][k]
      BY <2>1 DEF LinksFollowTerminator, Alive
    <3>1. CASE d = b
      <4>1. targets'[d] = targets[c] /\ succ'[d] = targets[c]
        BY <2>1, <2>3, <2>4, <3>1
      <4> QED BY <2>2, <4>1
    <3>2. CASE d # b
      <4>1. targets'[d] = targets[d] /\ succ'[d] = succ[d]
        BY <2>3, <2>4, <3>2
      <4> QED BY <4>1 DEF LinksFollowTerminator, Alive
    <3> QED BY <3>1, <3>2
  <2>7. FreshEmpty'
    BY <2>1, <2>4 DEF FreshEmpty, Alive, SpliceTail
  <2> QED BY <2>3, <2>5, <2>6, <2>7
<1> QED BY <1>1, <1>2

(* linkSucc keeps the invariant: both ends get the link.                     *)
LEMMA LinkSuccInv ==
    ASSUME Inv, NEW b \in BBs, NEW c \in BBs, LinkSucc(b, c)
    PROVE  Inv'
<1> USE DEF Inv
<1>1. /\ succ' = [succ EXCEPT ![b] = Append(@, c)] /\ pred' = LinkPreds(pred, b, <<c>>)
      /\ UNCHANGED <<life, targets, aborted>>
  BY DEF LinkSucc
<1>2. succ \in [BBs -> Seq(BBs)] /\ pred \in [BBs -> [BBs -> Nat]] /\ <<c>> \in Seq(BBs)
  BY DEF TypeOK
<1>3. /\ pred' \in [BBs -> [BBs -> Nat]]
      /\ \A x, d \in BBs : pred'[x][d]
                           = IF d = b THEN pred[x][d] + Count(<<c>>, x) ELSE pred[x][d]
  <2>1. PICK old, one : old = pred /\ one = <<c>>
    OBVIOUS
  <2>2. old \in [BBs -> [BBs -> Nat]] /\ one \in Seq(BBs)
    BY <1>2, <2>1
  <2>3. /\ LinkPreds(old, b, one) \in [BBs -> [BBs -> Nat]]
        /\ \A x, d \in BBs : LinkPreds(old, b, one)[x][d]
                             = IF d = b THEN old[x][d] + Count(one, x) ELSE old[x][d]
    <3>1. \A x : Count(one, x) \in Nat
      BY <2>2, CountIsUpTo
    <3>2. LinkPreds(old, b, one)
          = [x \in BBs |-> [old[x] EXCEPT ![b] = old[x][b] + Count(one, x)]]
      BY DEF LinkPreds
    <3>3. PICK new : new = LinkPreds(old, b, one)
      OBVIOUS
    <3>4. new \in [BBs -> [BBs -> Nat]]
      BY <2>2, <3>1, <3>2, <3>3, SMTT(30)
    <3>5. ASSUME NEW x \in BBs, NEW d \in BBs
          PROVE  new[x][d] = IF d = b THEN old[x][d] + Count(one, x) ELSE old[x][d]
      <4>1. new[x] = [old[x] EXCEPT ![b] = old[x][b] + Count(one, x)]
        BY <3>2, <3>3
      <4>2. old[x] \in [BBs -> Nat]
        BY <2>2
      <4> QED BY <4>1, <4>2
    <3> QED BY <3>3, <3>4, <3>5
  <2> QED BY <1>1, <2>1, <2>3
<1>4. /\ succ' \in [BBs -> Seq(BBs)]
      /\ \A d \in BBs : succ'[d] = IF d = b THEN Append(succ[b], c) ELSE succ[d]
  BY <1>1, <1>2
<1>5. TypeOK'
  BY <1>1, <1>3, <1>4 DEF TypeOK
<1>6. LinksPaired'
  <2> SUFFICES ASSUME NEW d \in BBs, NEW x \in BBs PROVE Count(succ'[d], x) = pred'[x][d]
    BY DEF LinksPaired
  <2>1. CASE d = b
    <3>1. Count(succ'[d], x) = Count(succ[b], x) + Count(<<c>>, x)
      <4>1. PICK s : s = succ[b]
        OBVIOUS
      <4>2. s \in Seq(BBs) /\ succ'[d] = Append(s, c)
        BY <1>2, <1>4, <2>1, <4>1
      <4>3. Count(Append(s, c), x) = Count(s, x) + Count(<<c>>, x)
        BY ONLY <4>2, c \in BBs, CountAppend
      <4> QED BY <4>1, <4>2, <4>3
    <3> QED BY <1>3, <2>1, <3>1 DEF LinksPaired
  <2>2. CASE d # b
    BY <1>3, <1>4, <2>2 DEF LinksPaired
  <2> QED BY <2>1, <2>2
<1>7. LinksFollowTerminator'
  <2> SUFFICES ASSUME NEW d \in Alive, targets[d] # << >>
               PROVE  /\ Len(targets[d]) <= Len(succ'[d])
                      /\ \A k \in DOMAIN targets[d] : succ'[d][k] = targets[d][k]
    BY <1>1 DEF LinksFollowTerminator, Alive
  <2>1. /\ Len(targets[d]) <= Len(succ[d])
        /\ \A k \in DOMAIN targets[d] : succ[d][k] = targets[d][k]
        /\ d \in BBs /\ targets[d] \in Seq(BBs) /\ succ[d] \in Seq(BBs)
    BY DEF LinksFollowTerminator, Alive, TypeOK
  <2>2. CASE d = b
    <3>1. succ'[d] = Append(succ[d], c)
      BY <1>4, <2>1, <2>2
    <3> QED BY <2>1, <3>1
  <2>3. CASE d # b
    BY <1>4, <2>1, <2>3
  <2> QED BY <2>2, <2>3
<1>8. FreshEmpty'
  BY <1>1 DEF FreshEmpty
<1> QED BY <1>5, <1>6, <1>7, <1>8

(* The links as the code keeps them are inductive.                           *)
THEOREM Invariance == Spec => []Inv
<1>1. Init => Inv
  <2> SUFFICES ASSUME Init PROVE Inv
    OBVIOUS
  <2>1. \A c : Count(<< >>, c) = 0
    <3>1. \A c : {k \in DOMAIN << >> : << >>[k] = c} = {}
      OBVIOUS
    <3> QED BY <3>1, FS_EmptySet DEF Count
  <2>2. TypeOK
    <3>1. life \in [BBs -> {"new", "alive", "erased"}]
      BY DEF Init
    <3>2. targets \in [BBs -> Seq(BBs)] /\ succ \in [BBs -> Seq(BBs)]
      BY DEF Init
    <3>3. pred \in [BBs -> [BBs -> Nat]] /\ aborted \in BOOLEAN
      BY DEF Init
    <3> QED BY <3>1, <3>2, <3>3 DEF TypeOK
  <2>4. LinksFollowTerminator
    BY DEF Init, LinksFollowTerminator, Alive
  <2>5. FreshEmpty
    BY DEF Init, FreshEmpty
  <2>3. LinksPaired
    BY <2>1 DEF Init, LinksPaired
  <2> QED BY <2>2, <2>3, <2>4, <2>5 DEF Inv
<1>2. Inv /\ [Next]_vars => Inv'
  <2> SUFFICES ASSUME Inv, [Next]_vars PROVE Inv'
    OBVIOUS
  <2>1. ASSUME NEW b \in BBs, AppendBB(b) PROVE Inv'
    BY <2>1, LifeOnly DEF AppendBB, Inv, TypeOK
  <2>2. ASSUME NEW b \in BBs, EraseBB(b) PROVE Inv'
    BY <2>2, LifeOnly DEF EraseBB, Inv, TypeOK
  <2>3. ASSUME NEW b \in BBs, NEW ts \in TargetLists, PushInstBack(b, ts) PROVE Inv'
    BY <2>3, PushInstBackInv
  <2>4. ASSUME NEW b \in BBs, NEW c \in BBs, LinkSucc(b, c) PROVE Inv'
    BY <2>4, LinkSuccInv
  <2>5. ASSUME NEW b \in BBs, NEW c \in BBs, SpliceTail(b, c) PROVE Inv'
    BY <2>5, SpliceTailInv
  <2>6. CASE UNCHANGED vars
    BY <2>6, LifeOnly DEF vars, Inv, TypeOK
  <2> QED BY <2>1, <2>2, <2>3, <2>4, <2>5, <2>6 DEF Next
<1> QED BY <1>1, <1>2, PTL DEF Spec

(* The state has the types the code gives it.                                *)
THEOREM LinkTypes == Spec => []TypeOK
<1>1. Inv => TypeOK
  BY DEF Inv
<1> QED BY <1>1, Invariance, PTL

(* The slots among the first n of mem that hold x.                           *)
Slots(mem, n, x) == {j \in 1 .. n : mem[j] = x}

(* While m_succ has at most two entries, all of them alive, no assertion of  *)
(* updateLinks fails: the second round reads the slot that the first one has *)
(* left unchanged.                                                           *)
LEMMA TwoUnlinked ==
    ASSUME TypeOK, LinksPaired, NEW b \in BBs, Len(succ[b]) <= 2,
           \A k \in DOMAIN succ[b] : succ[b][k] \in Alive
    PROVE  UnlinkLoop(b).ok
<1>1. PICK total : total = Len(succ[b])
  OBVIOUS
<1>2. PICK start : start = succ[b]
  OBVIOUS
<1>3. /\ total \in {0, 1, 2} /\ start \in [1 .. total -> BBs]
      /\ \A k \in 1 .. total : start[k] \in Alive
  <2>1. succ[b] \in Seq(BBs)
    BY DEF TypeOK
  <2>2. start \in Seq(BBs) /\ total = Len(start)
    BY <1>1, <1>2, <2>1
  <2>3. total \in Nat /\ DOMAIN start = 1 .. total /\ start \in [1 .. total -> BBs]
    BY <2>2
  <2>4. total <= 2
    BY <1>1
  <2>5. total \in {0, 1, 2}
    BY <2>3, <2>4
  <2> QED BY <1>2, <2>3, <2>5
<1>4. PICK g \in [0 .. total -> LoopState(total)] :
        /\ g[0] = LoopStart(b) /\ UnlinkLoop(b) = g[total]
        /\ \A k \in 1 .. total : g[k] = UnlinkRound(b, g[k - 1], k)
        /\ \A k \in 0 .. total : LoopInv(b, total, g[k], k)
  BY <1>1, RoundsKeepInv
<1>5. g[0].ok /\ g[0].mem = start /\ g[0].n = total
  BY <1>1, <1>2, <1>4 DEF LoopStart
<1>6. ASSUME NEW k \in 1 .. total, NEW r, r = g[k - 1], r.ok, r.mem[k] \in Alive,
             NEW F, F = Slots(r.mem, r.n, r.mem[k]), F # {}
      PROVE  g[k].ok /\ g[k].mem = EraseAt(r.mem, r.n, First(F))
  <2>1. r = g[k - 1]
    BY <1>6
  <2>2. r \in LoopState(total) /\ LoopInv(b, total, r, k - 1) /\ r.ok
    BY <1>3, <1>4, <1>6, <2>1
  <2>3. PICK x, n, mem : x = r.mem[k] /\ n = r.n /\ mem = r.mem
    OBVIOUS
  <2>4. x \in BBs /\ x \in Alive /\ n \in Nat /\ CountUpTo(mem, n, x) = r.pred[x][b]
    <3>1. x \in Alive
      BY <1>6, <2>3
    <3>2. x \in BBs /\ n \in Nat
      BY <2>2, <2>3, <3>1 DEF LoopState, Alive
    <3>3. CountUpTo(r.mem, r.n, x) = r.pred[x][b]
      BY <2>2, <3>2 DEF LoopInv
    <3> QED BY <2>3, <3>1, <3>2, <3>3
  <2>5. CountUpTo(mem, n, x) # 0 /\ {j \in 1 .. n : mem[j] = x} # {}
    <3> DEFINE found == {j \in 1 .. n : mem[j] = x}
    <3>1. found # {} /\ found \in SUBSET (1 .. n)
      BY <1>6, <2>1, <2>3 DEF Slots
    <3>2. IsFiniteSet(found)
      BY <2>4, <3>1, CountsFinite
    <3> HIDE DEF found
    <3>3. Cardinality(found) # 0
      BY <3>1, <3>2, FS_EmptySet
    <3> QED BY <3>1, <3>3 DEF found, CountUpTo
  <2>6. ~(~r.ok \/ r.mem[k] \notin Alive \/ r.pred[r.mem[k]][b] = 0
          \/ {j \in 1 .. r.n : r.mem[j] = r.mem[k]} = {})
    BY <2>2, <2>3, <2>4, <2>5
  <2>7. g[k] = UnlinkRound(b, r, k)
    BY <1>4, <2>1
  <2>8. /\ UnlinkRound(b, r, k).ok
        /\ UnlinkRound(b, r, k).mem
           = EraseAt(r.mem, r.n, First({j \in 1 .. r.n : r.mem[j] = r.mem[k]}))
    BY <2>6, Zenon DEF UnlinkRound
  <2>9. g[k].ok /\ g[k].mem = EraseAt(r.mem, r.n, First(F))
    BY <1>6, <2>7, <2>8, Zenon DEF Slots
  <2> QED BY <2>9
<1>7. CASE total = 0
  BY <1>4, <1>5, <1>7
<1>8. CASE total # 0
  <2>1. /\ g[1].ok
        /\ g[1].mem = EraseAt(start, total, First({j \in 1 .. total : start[j] = start[1]}))
    <3>1. 1 \in 1 .. total /\ start[1] \in Alive
      BY <1>3, <1>8
    <3>2. PICK r : r = g[0]
      OBVIOUS
    <3>3. r = g[1 - 1] /\ r.ok /\ r.mem = start /\ r.n = total
      BY <1>5, <3>2
    <3>4. PICK F : F = {j \in 1 .. total : start[j] = start[1]}
      OBVIOUS
    <3>5. PICK k : k = 1
      OBVIOUS
    <3>6. F # {} /\ F = Slots(r.mem, r.n, r.mem[k])
      BY <3>1, <3>3, <3>4, <3>5 DEF Slots
    <3>7. k \in 1 .. total /\ r = g[k - 1] /\ r.ok /\ r.mem[k] \in Alive
      BY <3>1, <3>3, <3>5
    <3>8. g[k].ok
      BY <1>6, <3>6, <3>7
    <3>9. g[k].mem = EraseAt(r.mem, r.n, First(F))
      BY <1>6, <3>6, <3>7
    <3> QED BY <3>3, <3>4, <3>5, <3>8, <3>9
  <2>2. First({j \in 1 .. total : start[j] = start[1]}) = 1
    <3> DEFINE F == {j \in 1 .. total : start[j] = start[1]}
    <3>1. 1 \in F /\ F \in SUBSET (1 .. total) /\ total \in Nat
      BY <1>3, <1>8
    <3>2. First(F) \in F /\ First(F) <= 1
      <4> HIDE DEF F
      <4> QED BY <3>1, FirstSlot
    <3> HIDE DEF F
    <3> QED BY <3>1, <3>2
  <2>3. CASE total = 1
    BY <1>4, <2>1, <2>3
  <2>4. CASE total = 2
    <3>1. PICK r : r = g[1]
      OBVIOUS
    <3>2. r.mem[1] = start[2] /\ r.mem[2] = start[2]
      <4>1. r.mem = EraseAt(start, 2, 1) /\ DOMAIN start = 1 .. 2
        BY <1>3, <2>1, <2>2, <2>4, <3>1
      <4> QED BY <4>1 DEF EraseAt
    <3>3. r.ok /\ r.n = 1
      <4>1. LoopInv(b, total, r, 1)
        BY <1>4, <2>4, <3>1
      <4> QED BY <2>1, <2>4, <3>1, <4>1 DEF LoopInv
    <3>4. g[2].ok
      <4>1. 2 \in 1 .. total /\ r = g[2 - 1]
        BY <2>4, <3>1
      <4>2. start[2] \in Alive
        BY <1>3, <2>4
      <4>3. PICK F : F = Slots(r.mem, r.n, r.mem[2])
        OBVIOUS
      <4>4. F # {}
        BY <3>2, <3>3, <4>3 DEF Slots
      <4>5. r.ok /\ r.mem[2] \in Alive
        BY <3>2, <3>3, <4>2
      <4> QED BY <1>6, <4>1, <4>3, <4>4, <4>5
    <3> QED BY <1>4, <2>4, <3>4
  <2> QED BY <1>3, <1>8, <2>3, <2>4
<1> QED BY <1>7, <1>8

(* updateLinks walks the list it erases from, and that does no harm before   *)
(* there are three successors or one of them has been erased.                *)
THEOREM AbortsNeedThree == Spec => AbortOnlyBeyondTwo
<1> DEFINE Few(b) == Len(succ[b]) <= 2 /\ \A k \in DOMAIN succ[b] : succ[b][k] \in Alive
           Step == aborted' /\ ~aborted =>
                     \E b \in BBs : \/ Len(succ[b]) > 2
                                    \/ \E k \in DOMAIN succ[b] : succ[b][k] \notin Alive
<1>1. Inv /\ [Next]_vars => Step
  <2> SUFFICES ASSUME Inv, [Next]_vars, aborted', ~aborted
               PROVE  \E b \in BBs : ~Few(b)
    <3>1. \A b \in BBs : Len(succ[b]) \in Nat
      BY DEF Inv, TypeOK
    <3> QED BY <3>1
  <2>1. \E b \in BBs : ~UnlinkLoop(b).ok
    BY DEF Next, vars, AppendBB, EraseBB, PushInstBack, LinkSucc, SpliceTail
  <2>2. \A b \in BBs : Few(b) => UnlinkLoop(b).ok
    BY TwoUnlinked DEF Inv
  <2> HIDE DEF Few
  <2> QED BY <2>1, <2>2
<1>2. Inv /\ [Next]_vars => [Step]_vars
  BY <1>1
<1> QED BY <1>2, Invariance, PTL DEF Spec, AbortOnlyBeyondTwo

(* m_succ and m_pred hold the same links, whatever is linked and rebuilt.    *)
THEOREM LinksStayPaired == Spec => []LinksPaired
<1>1. Inv => LinksPaired
  BY DEF Inv
<1> QED BY <1>1, Invariance, PTL

(* The first successors of a block are the targets of its terminator.        *)
THEOREM LinksStayTrue == Spec => []LinksFollowTerminator
<1>1. Inv => LinksFollowTerminator
  BY DEF Inv
<1> QED BY <1>1, Invariance, PTL
=============================================================================
