---------------------- MODULE ChecksElimination_proofs ----------------------
(* Proofs about ChecksElimination, for every finite graph and every set of   *)
(* checks in its blocks.                                                     *)
EXTENDS ChecksElimination, DomTree_proofs

-----------------------------------------------------------------------------
(* The inductive invariant, in parts: ck the checks, cd the blocks' code, er *)
(* the erased checks, us the users, cs the candidates, o the visited check,  *)
(* un the users it has yet to meet.                                          *)

(* A value's users are checks with it as an input; all that stand, and of    *)
(* the erased ones those that have another value as the checked one.         *)
UsersKept(ck, er, us) ==
    /\ us \in [DOMAIN us -> SUBSET DOMAIN ck]
    /\ \A c \in DOMAIN ck : Inputs(ck[c]) \subseteq DOMAIN us
    /\ \A v \in DOMAIN us : \A c \in us[v] : v \in Inputs(ck[c]) /\ (c \in er => ck[c].input # v)
    /\ \A c \in DOMAIN ck \ er : \A v \in Inputs(ck[c]) : c \in us[v]

HomeIn(cd, c) == CHOOSE b \in Nodes : Contains(cd[b], c)

(* What waits stands in a reached block, and waits once.                     *)
CandsKept(ck, cd, er, cs, o, reached) ==
    /\ cs \in Seq(DOMAIN ck) /\ IsInjective(cs)
    /\ \A i \in DOMAIN cs : cs[i] \notin er /\ cs[i] # o /\ HomeIn(cd, cs[i]) \in reached

(* If the visited check is gone, it has met one of its kind.                 *)
Walking(ck, cd, er, o, un, reached) ==
    /\ o \in DOMAIN ck /\ HomeIn(cd, o) \in reached
    /\ un \subseteq DOMAIN ck
    /\ \A u \in un : /\ ck[o].input \in Inputs(ck[u])
                     /\ u \in er /\ u # o => ck[u].input # ck[o].input
    /\ o \in er => \E w \in DOMAIN ck \ un : w # o /\ MetAsLike(ck[o], ck[w])

(* Why memory of a freed check may be read.                                  *)
Reasons(ck, er) ==
    \E c \in er : \E d, e \in DOMAIN ck \ {c} :
        \/ ck[c].oper = "bounds" /\ ck[c].bound # ck[c].input /\ ck[d].input = ck[c].bound
        \/ d # e /\ MetAsLike(ck[c], ck[d]) /\ MetAsLike(ck[c], ck[e])

CeUntouched ==
    /\ checks = << >> /\ code = << >> /\ users = << >> /\ erased = {}
    /\ cands = << >> /\ op = NoCheck /\ unseen = {} /\ readFreed = FALSE

Eliminating ==
    /\ phase = "done"
    /\ IsPlacement([checks |-> checks, code |-> code])
    /\ erased \subseteq DOMAIN checks /\ readFreed \in BOOLEAN
    /\ UsersKept(checks, erased, users)
    /\ CandsKept(checks, code, erased, cands, op, Discovered)
    /\ readFreed => Reasons(checks, erased)

(* A check of a reached block that was visited, or is being visited and has  *)
(* met the other one, is preceded by no equal check.                         *)
Cleared ==
    \A d \in DOMAIN checks \ erased : Home(d) \in Discovered /\ d \notin ToSet(cands) =>
        \A c \in DOMAIN checks \ erased :
            checks[c] = checks[d] /\ ~(d = op /\ c \in unseen) => ~Before(c, d)

CeInv ==
    /\ BuildInv
    /\ ceStage \in {"build", "visit", "walk", "done", "crashed"}
    /\ ceStage = "build" => CeUntouched
    /\ ceStage # "build" => Eliminating
    /\ ceStage \in {"walk", "crashed"} => Walking(checks, code, erased, op, unseen, Discovered)
    /\ ceStage \in {"visit", "done"} => op = NoCheck /\ unseen = {}
    /\ ceStage = "done" => cands = << >>
    /\ ceStage # "build" /\ TreeExact => ErasedCovered /\ Cleared

-----------------------------------------------------------------------------
(* Where checks stand, and what it means that one precedes another.          *)
PlaceIn(cd, c) == CHOOSE k \in DOMAIN cd[HomeIn(cd, c)] : cd[HomeIn(cd, c)][k] = c

Stands(ck, cd) == IsPlacement([checks |-> ck, code |-> cd])

(* Every check is at one place of one block.                                 *)
LEMMA Homes ==
    ASSUME NEW ck, NEW cd, Stands(ck, cd), NEW c \in DOMAIN ck
    PROVE  /\ HomeIn(cd, c) \in Nodes
           /\ PlaceIn(cd, c) \in DOMAIN cd[HomeIn(cd, c)]
           /\ cd[HomeIn(cd, c)][PlaceIn(cd, c)] = c
           /\ \A b \in Nodes : c \in ToSet(cd[b]) => b = HomeIn(cd, c)
<1>1. /\ cd \in [Nodes -> Seq(DOMAIN ck)]
      /\ \E b \in Nodes : c \in ToSet(cd[b])
      /\ \A a, b \in Nodes : \A k \in DOMAIN cd[a], l \in DOMAIN cd[b] :
            cd[a][k] = cd[b][l] => a = b /\ k = l
  BY DEF Stands, IsPlacement
<1>2. \A b \in Nodes : DOMAIN cd[b] = 1 .. Len(cd[b])
  BY <1>1
<1>3. \A b \in Nodes : c \in ToSet(cd[b]) <=> Contains(cd[b], c)
  BY <1>2 DEF ToSet, Contains
<1>4. HomeIn(cd, c) \in Nodes /\ Contains(cd[HomeIn(cd, c)], c)
  BY <1>1, <1>3 DEF HomeIn
<1>5. \E k \in DOMAIN cd[HomeIn(cd, c)] : cd[HomeIn(cd, c)][k] = c
  BY <1>2, <1>4 DEF Contains
<1>6. /\ PlaceIn(cd, c) \in DOMAIN cd[HomeIn(cd, c)]
      /\ cd[HomeIn(cd, c)][PlaceIn(cd, c)] = c
  BY <1>5 DEF PlaceIn
<1>7. ASSUME NEW b \in Nodes, c \in ToSet(cd[b]) PROVE b = HomeIn(cd, c)
  <2>1. PICK k \in DOMAIN cd[b] : cd[b][k] = c
    BY <1>7 DEF ToSet
  <2> QED BY <1>1, <1>4, <1>6, <2>1
<1> QED BY <1>4, <1>6, <1>7

(* The model's words for it.                                                 *)
LEMMA HomeIs == \A c : Home(c) = HomeIn(code, c) /\ Place(c) = PlaceIn(code, c)
BY DEF Home, HomeIn, Place, PlaceIn

(* A node that was not reached has nothing below it.                         *)
LEMMA UnreachedAlone ==
    ASSUME BuildInv, phase = "done", NEW a \in Nodes, a \notin Discovered, NEW b, b # a
    PROVE  ~IsDominator(a, b)
<1>1. PICK c, tree : c = Cardinality(Nodes) /\ tree = idommed
  OBVIOUS
<1>2. c \in Nat
  BY <1>1, GraphsAssumption, FS_CardinalityType
<1>3. /\ tree \in [Nodes -> Seq(Nodes)]
      /\ \A h \in Places(tree) : \E s \in 1 .. at - 1 : h[1] = preOrder[s]
      /\ at = Len(preOrder) + 1 /\ IsOrder(preOrder)
  BY <1>1, SearchOrder DEF BuildInv, Treeing, Hung
<1>4. PICK N : N = Len(preOrder)
  OBVIOUS
<1>5. N \in Nat /\ DOMAIN preOrder = 1 .. N /\ at - 1 = N
  BY <1>3, <1>4, Times
<1>6. ToSet(tree[a]) = {}
  <2> SUFFICES ASSUME NEW k \in DOMAIN tree[a] PROVE FALSE
    BY DEF ToSet
  <2>1. k \in Nat
    BY <1>3
  <2>2. <<a, k>> \in Places(tree)
    BY <2>1 DEF Places
  <2>3. PICK s \in 1 .. at - 1 : <<a, k>>[1] = preOrder[s]
    BY <1>3, <2>2
  <2>4. a = preOrder[s] /\ s \in DOMAIN preOrder
    BY <1>5, <2>3
  <2> QED BY <2>4 DEF Discovered, ToSet
<1>7. PICK f \in [0 .. Cardinality(Nodes) -> SUBSET Nodes] :
        /\ f[0] = {a}
        /\ \A k \in 1 .. Cardinality(Nodes) : f[k] = Lower(idommed, f[k - 1])
        /\ \A x : IsDominator(a, x) <=> x \in f[Cardinality(Nodes)]
  <2>1. idommed \in [Nodes -> Seq(Nodes)]
    BY <1>1, <1>3
  <2> QED BY <2>1, BelowRuns
<1>8. Lower(tree, {a}) = {a}
  BY <1>6 DEF Lower
<1> DEFINE P == {k \in 0 .. c : f[k] = {a}}
<1>9. 0 \in P /\ P \in SUBSET (0 .. c)
  BY <1>2, <1>7
<1>10. ASSUME NEW k \in 1 .. c, k - 1 \in P PROVE k \in P
  <2>1. f[k] = {a}
    BY <1>1, <1>7, <1>8, <1>10
  <2>2. k \in 0 .. c
    BY <1>2
  <2> QED BY <2>1, <2>2
<1>11. P = 0 .. c
  <2> HIDE DEF P
  <2> QED BY <1>2, <1>9, <1>10, RangeInduction
<1>12. f[c] = {a}
  BY <1>2, <1>11
<1> HIDE DEF P
<1> QED BY <1>1, <1>7, <1>12

(* The search has discovered what is reachable.                              *)
LEMMA DiscoveredIs ==
    ASSUME BuildInv, phase = "done"
    PROVE  /\ Discovered = Reachable /\ Discovered = ToSet(postOrder) /\ IsInjective(postOrder)
           /\ DfsTypeOK /\ graph.entry \in Nodes /\ graph \in Graphs
           /\ postOrder \in Seq(Nodes)
<1>1. DfsInv /\ DfsDone /\ graph \in Graphs
  BY DEF BuildInv, SearchInv
<1> QED BY <1>1, SearchReaches, IdsAssumption DEF VisitsReachable, Discovered, DfsInv, DfsTypeOK

(* Where the tree is what it should be, isDominator compares the places of a *)
(* check and another one in a reached block as it should.                    *)
LEMMA PrecedesIsBefore ==
    ASSUME BuildInv, phase = "done", TreeExact, Stands(checks, code),
           NEW c \in DOMAIN checks, NEW d \in DOMAIN checks, c # d, Home(d) \in Discovered
    PROVE  Precedes(c, d) <=> Before(c, d)
<1>1. /\ Home(c) \in Nodes /\ Home(d) \in Nodes
      /\ code[Home(c)][Place(c)] = c /\ code[Home(d)][Place(d)] = d
      /\ Place(c) \in DOMAIN code[Home(c)] /\ Place(d) \in DOMAIN code[Home(d)]
      /\ code \in [Nodes -> Seq(DOMAIN checks)]
  <2>1. /\ HomeIn(code, c) \in Nodes /\ HomeIn(code, d) \in Nodes
        /\ code[HomeIn(code, c)][PlaceIn(code, c)] = c
        /\ code[HomeIn(code, d)][PlaceIn(code, d)] = d
        /\ PlaceIn(code, c) \in DOMAIN code[HomeIn(code, c)]
        /\ PlaceIn(code, d) \in DOMAIN code[HomeIn(code, d)]
    BY Homes
  <2>2. code \in [Nodes -> Seq(DOMAIN checks)]
    BY DEF Stands, IsPlacement
  <2> QED BY <2>1, <2>2, HomeIs
<1>2. CASE Home(c) = Home(d)
  <2>1. Place(c) # Place(d) /\ Place(c) \in Int /\ Place(d) \in Int
    BY <1>1, <1>2
  <2> QED BY <1>2, <2>1 DEF Precedes, Before
<1>3. CASE Home(c) # Home(d) /\ Home(c) \in Discovered
  <2>1. IsDominator(Home(c), Home(d)) <=> Dominates(Home(c), Home(d))
    BY <1>3 DEF TreeExact
  <2> QED BY <1>3, <2>1 DEF Precedes, Before
<1>4. CASE Home(c) # Home(d) /\ Home(c) \notin Discovered
  <2>1. ~IsDominator(Home(c), Home(d))
    BY <1>1, <1>4, UnreachedAlone
  <2>2. ~Dominates(Home(c), Home(d))
    BY <1>4, DiscoveredIs, UnreachedDominatesNone
  <2> QED BY <1>4, <2>1, <2>2 DEF Precedes, Before
<1> QED BY <1>2, <1>3, <1>4

(* What precedes on every path is an order of checks.                        *)
LEMMA BeforeTransitive ==
    ASSUME BuildInv, phase = "done", Stands(checks, code),
           NEW b \in DOMAIN checks, NEW c \in DOMAIN checks, NEW d \in DOMAIN checks,
           Before(b, c), Before(c, d)
    PROVE  Before(b, d)
<1>1. DfsTypeOK /\ graph.entry \in Nodes
  BY DiscoveredIs
<1>2. \A x \in {b, c, d} : Place(x) \in Int
  <2> SUFFICES ASSUME NEW x \in DOMAIN checks PROVE Place(x) \in Int
    OBVIOUS
  <2>1. HomeIn(code, x) \in Nodes /\ PlaceIn(code, x) \in DOMAIN code[HomeIn(code, x)]
    BY Homes
  <2>2. code \in [Nodes -> Seq(DOMAIN checks)]
    BY DEF Stands, IsPlacement
  <2>3. PlaceIn(code, x) \in Int
    BY <2>1, <2>2
  <2> QED BY <2>3, HomeIs
<1>3. PICK p, q, r : p = Home(b) /\ q = Home(c) /\ r = Home(d)
  OBVIOUS
<1>4. CASE p = q /\ q = r
  BY <1>2, <1>3, <1>4 DEF Before
<1>5. CASE p = q /\ q # r
  BY <1>3, <1>5 DEF Before
<1>6. CASE p # q /\ q = r
  BY <1>3, <1>6 DEF Before
<1>7. CASE p # q /\ q # r
  <2>1. Dominates(p, q) /\ Dominates(q, r)
    BY <1>3, <1>7 DEF Before
  <2>2. Dominates(p, r)
    BY <1>1, <2>1, DominatesTransitive
  <2>3. p # r
    BY <1>1, <1>7, <2>1, DominatesAntisymmetric
  <2> QED BY <1>3, <2>2, <2>3 DEF Before
<1> QED BY <1>4, <1>5, <1>6, <1>7

-----------------------------------------------------------------------------
(* The candidates, as fillCandidates puts the blocks' checks together.       *)

-----------------------------------------------------------------------------
(* What a check is about.                                                    *)
LEMMA CheckKinds ==
    ASSUME NEW r, IsCheck(r)
    PROVE  /\ r.oper = "zero" \/ r.oper = "bounds"
           /\ "bound" \in DOMAIN r <=> r.oper = "bounds"
           /\ r.input \in Inputs(r)
           /\ \A v \in Inputs(r) : v # r.input => r.oper = "bounds" /\ r.bound = v
<1>1. CASE r = [oper |-> "zero", input |-> r.input]
  <2>1. r.oper = "zero" /\ DOMAIN r = {"oper", "input"}
    BY <1>1
  <2>2. Inputs(r) = {r.input}
    BY <2>1 DEF Inputs
  <2> QED BY <2>1, <2>2
<1>2. CASE r = [oper |-> "bounds", input |-> r.input, bound |-> r.bound]
  <2>1. r.oper = "bounds" /\ DOMAIN r = {"oper", "input", "bound"}
    BY <1>2
  <2>2. Inputs(r) = {r.input, r.bound}
    BY <2>1 DEF Inputs
  <2> QED BY <2>1, <2>2
<1> QED BY <1>1, <1>2 DEF IsCheck

(* A user of the checked value that is a check of the same kind, with the    *)
(* same bound, is the same check, if the value is not its own bound.         *)
LEMMA LikeIsEqual ==
    ASSUME NEW r, NEW s, IsCheck(r), IsCheck(s), r.oper = s.oper, s.input \in Inputs(r),
           s.oper = "bounds" => r.bound = s.bound /\ s.bound # s.input
    PROVE  r = s
<1>1. r.input = s.input
  BY CheckKinds
<1>2. CASE s.oper = "zero"
  <2>1. r = [oper |-> "zero", input |-> r.input] /\ s = [oper |-> "zero", input |-> s.input]
    <3>1. \A t : t = [oper |-> "bounds", input |-> t.input, bound |-> t.bound]
                 => t.oper = "bounds"
      OBVIOUS
    <3> QED BY <1>2, <3>1 DEF IsCheck
  <2> QED BY <1>1, <2>1
<1>3. CASE s.oper = "bounds"
  <2>1. /\ r = [oper |-> "bounds", input |-> r.input, bound |-> r.bound]
        /\ s = [oper |-> "bounds", input |-> s.input, bound |-> s.bound]
    <3>1. \A t : t = [oper |-> "zero", input |-> t.input] => t.oper = "zero"
      OBVIOUS
    <3> QED BY <1>3, <3>1 DEF IsCheck
  <2> QED BY <1>1, <1>3, <2>1
<1> QED BY <1>2, <1>3, CheckKinds

(* What the checks are does not change.                                      *)
LEMMA StandsMeans ==
    ASSUME NEW ck, NEW cd
    PROVE  Stands(ck, cd) => /\ IsFiniteSet(DOMAIN ck) /\ NoCheck \notin DOMAIN ck
                             /\ \A c \in DOMAIN ck : IsCheck(ck[c])
                             /\ cd \in [Nodes -> Seq(DOMAIN ck)]
BY DEF Stands, IsPlacement

(* Taken from the users of its input, an erased check is left only with      *)
(* another value.                                                            *)
LEMMA UsersLose ==
    ASSUME NEW ck, NEW er, NEW us, UsersKept(ck, er, us), NEW o \in DOMAIN ck
    PROVE  UsersKept(ck, er \cup {o}, [us EXCEPT ![ck[o].input] = @ \ {o}])
<1> DEFINE us2 == [us EXCEPT ![ck[o].input] = @ \ {o}]
<1>1. us \in [DOMAIN us -> SUBSET DOMAIN ck]
  BY DEF UsersKept
<1>2. /\ DOMAIN us2 = DOMAIN us
      /\ \A v \in DOMAIN us : us2[v] = IF v = ck[o].input THEN us[v] \ {o} ELSE us[v]
  BY <1>1
<1> HIDE DEF us2
<1>3. us2 \in [DOMAIN us2 -> SUBSET DOMAIN ck]
  <2>1. \A v \in DOMAIN us2 : us2[v] \in SUBSET DOMAIN ck
    BY <1>1, <1>2
  <2>2. us2 = [v \in DOMAIN us2 |-> us2[v]]
    BY <1>1 DEF us2
  <2> QED BY <2>1, <2>2
<1>4. ASSUME NEW v \in DOMAIN us2, NEW c \in us2[v]
      PROVE  v \in Inputs(ck[c]) /\ (c \in er \cup {o} => ck[c].input # v)
  BY <1>2 DEF UsersKept
<1>5. ASSUME NEW c \in DOMAIN ck \ (er \cup {o}), NEW v \in Inputs(ck[c]) PROVE c \in us2[v]
  <2>1. v \in DOMAIN us /\ c \in us[v]
    BY DEF UsersKept
  <2> QED BY <1>2, <2>1
<1>6. \A c \in DOMAIN ck : Inputs(ck[c]) \subseteq DOMAIN us2
  BY <1>2 DEF UsersKept
<1>7. UsersKept(ck, er \cup {o}, us2)
  BY <1>3, <1>4, <1>5, <1>6 DEF UsersKept
<1> QED BY <1>7 DEF us2

(* What the tree says does not change while checks are eliminated.           *)
LEMMA FrameKeeps ==
    ASSUME BuildInv, UNCHANGED <<vars, checks, code>>
    PROVE  /\ BuildInv' /\ phase' = phase /\ Discovered' = Discovered
           /\ TreeExact' = TreeExact
           /\ \A c : Home(c)' = Home(c)
           /\ \A c, d : Before(c, d)' = Before(c, d)
<1>1. BuildInv'
  BY StutterKeeps
<1>2. /\ phase' = phase /\ graph' = graph /\ preOrder' = preOrder /\ idommed' = idommed
      /\ code' = code
  BY DEF vars, dfsVars, builderVars
<1>3. TreeExact' = TreeExact
  BY <1>2 DEF TreeExact, Discovered, IsDominator, Dominates, Reachable, ReachableWithout,
              Edge, succ
<1>4. \A c : Home(c)' = Home(c)
  BY <1>2 DEF Home
<1>5. \A c, d : Before(c, d)' = Before(c, d)
  BY <1>2 DEF Before, Home, Place, Dominates, Reachable, ReachableWithout, Edge, succ
<1> QED BY <1>1, <1>2, <1>3, <1>4, <1>5 DEF Discovered

(* Where nothing is erased, what was covered still is.                       *)
LEMMA CoveredKeeps ==
    ASSUME BuildInv, UNCHANGED <<vars, checks, code, erased>>
    PROVE  ErasedCovered' = ErasedCovered
<1>1. checks' = checks /\ erased' = erased
  OBVIOUS
<1>2. \A c, d : Before(c, d)' = Before(c, d)
  BY FrameKeeps
<1> QED BY <1>1, <1>2 DEF ErasedCovered

(* The candidates are the checks of the blocks that po lists, each once.     *)
LEMMA CandsFilled ==
    ASSUME NEW ck, NEW cd, Stands(ck, cd), NEW po \in Seq(Nodes), IsInjective(po),
           NEW cs, cs = FlattenSeq([i \in DOMAIN po |-> cd[Reverse(po)[i]]])
    PROVE  /\ cs \in Seq(DOMAIN ck) /\ IsInjective(cs)
           /\ \A c \in DOMAIN ck : c \in ToSet(cs) <=> HomeIn(cd, c) \in ToSet(po)
<1>1. PICK n, rev : n = Len(po) /\ rev = Reverse(po)
  OBVIOUS
<1>2. n \in Nat /\ DOMAIN po = 1 .. n
  BY <1>1
<1>3. \A i \in 1 .. n : rev[i] = po[n - i + 1] /\ n - i + 1 \in 1 .. n
  BY <1>1, <1>2 DEF Reverse
<1>4. cd \in [Nodes -> Seq(DOMAIN ck)]
  BY StandsMeans
<1>5. PICK ss : ss = [i \in DOMAIN po |-> cd[Reverse(po)[i]]]
  OBVIOUS
<1>6. /\ ss \in Seq(Seq(DOMAIN ck)) /\ DOMAIN ss = 1 .. n /\ Len(ss) = n
      /\ \A i \in 1 .. n : ss[i] = cd[rev[i]] /\ rev[i] \in Nodes
  <2>1. \A i \in 1 .. n : rev[i] \in Nodes
    BY <1>2, <1>3
  <2>2. ss = [i \in 1 .. n |-> cd[rev[i]]]
    BY <1>1, <1>2, <1>5
  <2>3. PICK S : S = Seq(DOMAIN ck)
    OBVIOUS
  <2>4. ss \in [1 .. n -> S]
    BY <1>4, <2>1, <2>2, <2>3
  <2>5. ss \in Seq(S) /\ Len(ss) = n
    BY <1>2, <2>4
  <2>6. DOMAIN ss = 1 .. n /\ \A i \in 1 .. n : ss[i] = cd[rev[i]] /\ rev[i] \in Nodes
    BY <2>1, <2>2
  <2> QED BY <2>3, <2>5, <2>6
<1>7. Scattered(ss)
  <2> SUFFICES ASSUME NEW i \in 1 .. n, NEW j \in 1 .. n, NEW k \in DOMAIN ss[i],
                      NEW l \in DOMAIN ss[j], ss[i][k] = ss[j][l]
               PROVE  i = j /\ k = l
    BY <1>6 DEF Scattered
  <2>1. \A a, b \in Nodes : \A x \in DOMAIN cd[a], y \in DOMAIN cd[b] :
           cd[a][x] = cd[b][y] => a = b /\ x = y
    BY DEF Stands, IsPlacement
  <2>2. rev[i] = rev[j] /\ k = l
    <3>1. ss[i] = cd[rev[i]] /\ ss[j] = cd[rev[j]] /\ rev[i] \in Nodes /\ rev[j] \in Nodes
      BY <1>6
    <3>2. /\ k \in DOMAIN cd[rev[i]] /\ l \in DOMAIN cd[rev[j]]
          /\ cd[rev[i]][k] = cd[rev[j]][l]
      BY <3>1
    <3> QED BY <2>1, <3>1, <3>2
  <2>3. po[n - i + 1] = po[n - j + 1]
    BY <1>3, <2>2
  <2>4. n - i + 1 = n - j + 1
    BY <1>2, <1>3, <2>3 DEF IsInjective
  <2> QED BY <1>2, <2>2, <2>4
<1>8. cs \in Seq(DOMAIN ck) /\ IsInjective(cs) /\ ToSet(cs) = Pieces(ss, n)
  <2>1. PICK S : S = DOMAIN ck
    OBVIOUS
  <2>2. ss \in Seq(Seq(S)) /\ cs = FlattenSeq(ss)
    BY <1>5, <1>6, <2>1
  <2>3. /\ FlattenSeq(ss) \in Seq(S) /\ IsInjective(FlattenSeq(ss))
        /\ ToSet(FlattenSeq(ss)) = Pieces(ss, Len(ss))
    BY <1>7, <2>2, FlattenHolds
  <2> QED BY <1>6, <2>1, <2>2, <2>3
<1>9. ASSUME NEW c \in DOMAIN ck, c \in ToSet(cs) PROVE HomeIn(cd, c) \in ToSet(po)
  <2>1. PICK i \in 1 .. n : c \in ToSet(ss[i])
    BY <1>8, <1>9 DEF Pieces
  <2>2. c \in ToSet(cd[rev[i]]) /\ rev[i] \in Nodes
    BY <1>6, <2>1
  <2>3. rev[i] = HomeIn(cd, c)
    BY <2>2, Homes
  <2>4. rev[i] \in ToSet(po)
    BY <1>2, <1>3 DEF ToSet
  <2> QED BY <2>3, <2>4
<1>10. ASSUME NEW c \in DOMAIN ck, HomeIn(cd, c) \in ToSet(po) PROVE c \in ToSet(cs)
  <2>1. PICK j \in 1 .. n : po[j] = HomeIn(cd, c)
    BY <1>2, <1>10 DEF ToSet
  <2>2. n - j + 1 \in 1 .. n /\ n - (n - j + 1) + 1 = j
    BY <1>2
  <2>3. rev[n - j + 1] = HomeIn(cd, c)
    BY <1>3, <2>1, <2>2
  <2>4. /\ PlaceIn(cd, c) \in DOMAIN cd[HomeIn(cd, c)]
        /\ cd[HomeIn(cd, c)][PlaceIn(cd, c)] = c
    BY Homes
  <2>5. c \in ToSet(ss[n - j + 1])
    BY <1>6, <2>2, <2>3, <2>4 DEF ToSet
  <2> QED BY <1>8, <2>2, <2>5 DEF Pieces
<1> QED BY <1>8, <1>9, <1>10

(* fillCandidates.                                                           *)
LEMMA FillKeeps == ASSUME CeInv, FillCandidates PROVE CeInv'
<1>1. BuildInv /\ phase = "done" /\ CeUntouched
  BY DEF CeInv, FillCandidates
<1>2. PICK p \in Placements(graph) :
        /\ checks' = p.checks /\ code' = p.code
        /\ users' = [v \in UNION {Inputs(p.checks[c]) : c \in DOMAIN p.checks} |->
                       {c \in DOMAIN p.checks : v \in Inputs(p.checks[c])}]
        /\ cands' = FlattenSeq([i \in DOMAIN postOrder |-> p.code[Reverse(postOrder)[i]]])
  BY DEF FillCandidates
<1>3. ceStage' = "visit" /\ UNCHANGED <<vars, erased, op, unseen, readFreed>>
  BY DEF FillCandidates
<1>4. BuildInv' /\ phase' = "done" /\ Discovered' = Discovered
  <2>1. phase' = phase /\ preOrder' = preOrder
    BY <1>3 DEF vars, dfsVars, builderVars
  <2> QED BY <1>1, <1>3, <2>1, StutterKeeps DEF Discovered
<1>5. IsPlacement(p)
  <2>1. graph \in Graphs
    BY <1>1, DiscoveredIs
  <2> QED BY <2>1, PlacementsAssumption
<1>6. PICK ck, cd, us, cs : ck = p.checks /\ cd = p.code /\ us = users' /\ cs = cands'
  OBVIOUS
<1>7. Stands(ck, cd)
  BY <1>5, <1>6 DEF Stands, IsPlacement
<1>8. Stands(checks, code)'
  BY <1>2, <1>6, <1>7 DEF Stands, IsPlacement
<1>9. UsersKept(ck, {}, us)
  <2> DEFINE V == UNION {Inputs(ck[c]) : c \in DOMAIN ck}
             U(v) == {c \in DOMAIN ck : v \in Inputs(ck[c])}
  <2>1. us = [v \in V |-> U(v)]
    BY <1>2, <1>6
  <2>2. DOMAIN us = V /\ \A v \in V : us[v] = U(v)
    BY <2>1
  <2>3. us \in [DOMAIN us -> SUBSET DOMAIN ck]
    BY <2>1, <2>2
  <2> QED BY <2>2, <2>3 DEF UsersKept
<1>10. /\ cs \in Seq(DOMAIN ck) /\ IsInjective(cs)
       /\ \A c \in DOMAIN ck : c \in ToSet(cs) <=> HomeIn(cd, c) \in Discovered
  <2>1. PICK po : po = postOrder
    OBVIOUS
  <2>2. po \in Seq(Nodes) /\ IsInjective(po) /\ Discovered = ToSet(po)
    BY <1>1, <2>1, DiscoveredIs
  <2>3. cs = FlattenSeq([i \in DOMAIN po |-> cd[Reverse(po)[i]]])
    BY <1>2, <1>6, <2>1
  <2>4. /\ cs \in Seq(DOMAIN ck) /\ IsInjective(cs)
        /\ \A c \in DOMAIN ck : c \in ToSet(cs) <=> HomeIn(cd, c) \in ToSet(po)
    BY <1>7, <2>2, <2>3, CandsFilled
  <2> QED BY <2>2, <2>4
<1>11. CandsKept(ck, cd, {}, cs, NoCheck, Discovered)
  <2>1. NoCheck \notin DOMAIN ck
    BY <1>7, StandsMeans
  <2>2. \A i \in DOMAIN cs : cs[i] \in DOMAIN ck /\ cs[i] \in ToSet(cs)
    BY <1>10 DEF ToSet
  <2> QED BY <1>10, <2>1, <2>2 DEF CandsKept
<1>12. /\ checks' = ck /\ code' = cd /\ users' = us /\ cands' = cs
       /\ erased' = {} /\ op' = NoCheck /\ unseen' = {} /\ readFreed' = FALSE
  BY <1>1, <1>2, <1>3, <1>6 DEF CeUntouched
<1>13. Eliminating'
  BY <1>4, <1>8, <1>9, <1>11, <1>12 DEF Eliminating, Stands
<1>14. ErasedCovered'
  BY <1>12 DEF ErasedCovered
<1>15. Cleared'
  <2>1. \A d : Home(d)' = HomeIn(cd, d)
    BY <1>12 DEF Home, HomeIn
  <2>2. \A d \in DOMAIN ck : Home(d)' \in Discovered' => d \in ToSet(cands)'
    BY <1>4, <1>10, <1>12, <2>1
  <2> QED BY <1>12, <2>2 DEF Cleared
<1> QED BY <1>3, <1>4, <1>12, <1>13, <1>14, <1>15 DEF CeInv

(* A step of the builder.                                                    *)
LEMMA BuildStepKeeps == ASSUME CeInv, BuildStep PROVE CeInv'
<1>1. BuilderNext /\ UNCHANGED ceVars
  BY DEF BuildStep
<1>2. ceStage = "build"
  <2>1. phase # "done"
    BY <1>1 DEF BuilderNext, DfsStep, StartSdoms, SdomStep, StartIdoms, IdomStep, Finish
  <2> QED BY <2>1 DEF CeInv, Eliminating
<1>3. BuildInv'
  BY <1>1, BuilderKeeps DEF CeInv
<1>4. CeUntouched' /\ ceStage' = "build"
  BY <1>1, <1>2 DEF CeInv, CeUntouched, ceVars
<1> QED BY <1>3, <1>4 DEF CeInv

(* The next candidate is visited.                                            *)
LEMMA VisitKeeps == ASSUME CeInv, VisitCheck PROVE CeInv'
<1>1. BuildInv /\ Eliminating /\ phase = "done" /\ op = NoCheck /\ Stands(checks, code)
  BY DEF CeInv, VisitCheck, Eliminating, Stands
<1>2. /\ cands # << >> /\ op' = Head(cands) /\ cands' = Tail(cands)
      /\ unseen' = users[checks[Head(cands)].input] /\ ceStage' = "walk"
      /\ UNCHANGED <<vars, checks, code, erased, users, readFreed>>
  BY DEF VisitCheck
<1>3. /\ BuildInv' /\ phase' = phase /\ Discovered' = Discovered /\ TreeExact' = TreeExact
      /\ \A c : Home(c)' = Home(c)
      /\ \A c, d : Before(c, d)' = Before(c, d)
  BY <1>1, <1>2, FrameKeeps
<1>4. CandsKept(checks, code, erased, cands, op, Discovered)
      /\ UsersKept(checks, erased, users) /\ erased \subseteq DOMAIN checks
  BY <1>1 DEF Eliminating
<1>5. PICK n, cs, o, tl, un : /\ n = Len(cands) /\ cs = cands /\ o = Head(cands)
                              /\ tl = Tail(cands) /\ un = unseen'
  OBVIOUS
<1>6. /\ n \in Nat \ {0} /\ cs \in Seq(DOMAIN checks) /\ DOMAIN cs = 1 .. n
      /\ o = cs[1] /\ tl \in Seq(DOMAIN checks) /\ DOMAIN tl = 1 .. n - 1
      /\ \A i \in 1 .. n - 1 : tl[i] = cs[i + 1]
  <2>1. cands \in Seq(DOMAIN checks)
    BY <1>4 DEF CandsKept
  <2> QED BY <1>2, <1>5, <2>1
<1>7. /\ o \in DOMAIN checks /\ o \notin erased /\ HomeIn(code, o) \in Discovered
      /\ \A i, j \in 1 .. n : cs[i] = cs[j] => i = j
      /\ \A i \in 1 .. n : cs[i] \notin erased /\ HomeIn(code, cs[i]) \in Discovered
  BY <1>4, <1>5, <1>6 DEF CandsKept, IsInjective
<1>8. CandsKept(checks, code, erased, tl, o, Discovered)
  <2>1. \A i \in 1 .. n - 1 : i + 1 \in 1 .. n /\ i + 1 # 1 /\ 1 \in 1 .. n
    BY <1>6
  <2>2. \A i, j \in 1 .. n - 1 : tl[i] = tl[j] => i = j
    <3> SUFFICES ASSUME NEW i \in 1 .. n - 1, NEW j \in 1 .. n - 1, tl[i] = tl[j] PROVE i = j
      OBVIOUS
    <3>1. i + 1 = j + 1
      BY <1>6, <1>7, <2>1
    <3> QED BY <3>1
  <2>3. \A i \in 1 .. n - 1 : tl[i] # o /\ tl[i] \notin erased
                              /\ HomeIn(code, tl[i]) \in Discovered
    BY <1>6, <1>7, <2>1
  <2> QED BY <1>6, <2>2, <2>3 DEF CandsKept, IsInjective
<1>9. checks[o].input \in DOMAIN users /\ un = users[checks[o].input]
  <2>1. checks[o].input \in Inputs(checks[o])
    BY DEF Inputs
  <2> QED BY <1>2, <1>4, <1>5, <1>7, <2>1 DEF UsersKept
<1>10. Walking(checks, code, erased, o, un, Discovered)
  <2>1. un \subseteq DOMAIN checks
    BY <1>4, <1>9 DEF UsersKept
  <2>2. \A u \in un : /\ checks[o].input \in Inputs(checks[u])
                      /\ u \in erased => checks[u].input # checks[o].input
    BY <1>4, <1>9 DEF UsersKept
  <2> QED BY <1>7, <2>1, <2>2 DEF Walking
<1>11. op' = o /\ cands' = tl /\ unseen' = un
  BY <1>2, <1>5
<1>12. Eliminating'
  BY <1>1, <1>2, <1>3, <1>8, <1>11 DEF Eliminating
<1>13. Walking(checks, code, erased, op, unseen, Discovered)'
  BY <1>2, <1>3, <1>10, <1>11
<1>14. ASSUME TreeExact PROVE ErasedCovered' /\ Cleared'
  <2>1. ErasedCovered /\ Cleared
    BY <1>14 DEF CeInv, VisitCheck
  <2>2. ErasedCovered'
    BY <1>1, <1>2, <2>1, CoveredKeeps
  <2>3. ASSUME NEW d \in DOMAIN checks \ erased, Home(d) \in Discovered, d \notin ToSet(tl),
               NEW c \in DOMAIN checks \ erased, checks[c] = checks[d], ~(d = o /\ c \in un)
        PROVE  ~Before(c, d)
    <3>1. d # o
      <4> SUFFICES ASSUME d = o PROVE c \in un
        BY <2>3
      <4>1. checks[o].input \in Inputs(checks[c])
        BY <2>3 DEF Inputs
      <4> QED BY <1>4, <1>9, <4>1 DEF UsersKept
    <3>2. d \notin ToSet(cands)
      <4> SUFFICES ASSUME NEW i \in 1 .. n, cs[i] = d PROVE FALSE
        BY <1>5, <1>6 DEF ToSet
      <4>1. i # 1
        BY <1>6, <3>1
      <4>2. i - 1 \in 1 .. n - 1 /\ tl[i - 1] = cs[i]
        BY <1>6, <4>1
      <4> QED BY <1>6, <2>3, <4>2 DEF ToSet
    <3>3. d # op
      BY <1>1, StandsMeans
    <3> QED BY <2>1, <2>3, <3>2, <3>3 DEF Cleared
  <2>4. Cleared'
    BY <1>2, <1>3, <1>11, <2>3 DEF Cleared
  <2> QED BY <2>2, <2>4
<1> QED BY <1>2, <1>3, <1>12, <1>13, <1>14 DEF CeInv

(* The walk ends, or all candidates were visited.                            *)
LEMMA EndsKeep == ASSUME CeInv, EndWalk \/ EndElimination PROVE CeInv'
<1>1. BuildInv /\ Eliminating /\ phase = "done"
  BY DEF CeInv, EndWalk, EndElimination, Eliminating
<1>2. /\ UNCHANGED <<vars, checks, code, erased, users, cands, unseen, readFreed>>
      /\ unseen = {} /\ op' = NoCheck
      /\ \/ ceStage' = "visit"
         \/ ceStage' = "done" /\ cands = << >>
  BY DEF EndWalk, EndElimination, CeInv
<1>3. /\ BuildInv' /\ phase' = phase /\ Discovered' = Discovered /\ TreeExact' = TreeExact
      /\ \A c : Home(c)' = Home(c)
      /\ \A c, d : Before(c, d)' = Before(c, d)
  BY <1>1, <1>2, FrameKeeps
<1>4. CandsKept(checks, code, erased, cands, NoCheck, Discovered)
  <2>1. CandsKept(checks, code, erased, cands, op, Discovered) /\ NoCheck \notin DOMAIN checks
    BY <1>1, StandsMeans DEF Eliminating, Stands
  <2>2. \A i \in DOMAIN cands : cands[i] \in DOMAIN checks
    BY <2>1 DEF CandsKept
  <2> QED BY <2>1, <2>2 DEF CandsKept
<1>5. Eliminating'
  BY <1>1, <1>2, <1>3, <1>4 DEF Eliminating
<1>6. ASSUME TreeExact PROVE ErasedCovered' /\ Cleared'
  <2>1. ErasedCovered /\ Cleared
    BY <1>6 DEF CeInv, EndWalk, EndElimination
  <2>2. ErasedCovered'
    BY <1>1, <1>2, <2>1, CoveredKeeps
  <2>3. Cleared'
    BY <1>2, <1>3, <2>1 DEF Cleared
  <2> QED BY <2>2, <2>3
<1> QED BY <1>2, <1>3, <1>5, <1>6 DEF CeInv

(* A user that is passed, having none of what it takes, or read after it was *)
(* freed and passed: nothing changes but what is left to meet.               *)
LEMMA MetKeeps ==
    ASSUME CeInv, ceStage = "walk", NEW u \in unseen,
           UNCHANGED <<vars, checks, code, erased, users, cands, op>>,
           ceStage' \in {"walk", "crashed"}, unseen' \in {unseen, unseen \ {u}},
           readFreed' \in BOOLEAN, readFreed' => Reasons(checks, erased),
           TreeExact /\ op \notin erased /\ u \notin erased /\ checks[u] = checks[op]
              => ~Before(u, op)
    PROVE  CeInv'
<1>1. BuildInv /\ Eliminating /\ phase = "done"
  BY DEF CeInv, Eliminating
<1>2. /\ BuildInv' /\ phase' = phase /\ Discovered' = Discovered /\ TreeExact' = TreeExact
      /\ \A c : Home(c)' = Home(c)
      /\ \A c, d : Before(c, d)' = Before(c, d)
  BY <1>1, FrameKeeps
<1>3. Eliminating'
  BY <1>1, <1>2 DEF Eliminating
<1>4. Walking(checks, code, erased, op, unseen', Discovered)
  <2>1. Walking(checks, code, erased, op, unseen, Discovered) /\ unseen' \subseteq unseen
    BY DEF CeInv
  <2> QED BY <2>1 DEF Walking
<1>5. Walking(checks, code, erased, op, unseen, Discovered)'
  BY <1>2, <1>4
<1>6. ASSUME TreeExact PROVE ErasedCovered' /\ Cleared'
  <2>1. ErasedCovered /\ Cleared
    BY <1>6 DEF CeInv
  <2>2. ErasedCovered'
    BY <1>1, <2>1, CoveredKeeps
  <2>3. ASSUME NEW d \in DOMAIN checks \ erased, Home(d) \in Discovered, d \notin ToSet(cands),
               NEW c \in DOMAIN checks \ erased, checks[c] = checks[d],
               ~(d = op /\ c \in unseen')
        PROVE  ~Before(c, d)
    <3>1. CASE d = op /\ c = u
      BY <1>6, <2>3, <3>1
    <3>2. CASE ~(d = op /\ c = u)
      <4>1. ~(d = op /\ c \in unseen)
        BY <2>3, <3>2
      <4> QED BY <2>1, <2>3, <4>1 DEF Cleared
    <3> QED BY <3>1, <3>2
  <2>4. Cleared'
    BY <1>2, <2>3 DEF Cleared
  <2> QED BY <2>2, <2>4
<1> QED BY <1>2, <1>3, <1>5, <1>6 DEF CeInv

(* A check does not precede itself.                                          *)
LEMMA BeforeIrreflexive ==
    ASSUME Stands(checks, code), NEW c \in DOMAIN checks
    PROVE  ~Before(c, c)
<1>1. HomeIn(code, c) \in Nodes /\ PlaceIn(code, c) \in DOMAIN code[HomeIn(code, c)]
  BY Homes
<1>2. code \in [Nodes -> Seq(DOMAIN checks)]
  BY StandsMeans
<1>3. PlaceIn(code, c) \in Int
  BY <1>1, <1>2
<1> QED BY <1>3, HomeIs DEF Before

(* A user is passed.                                                         *)
LEMMA PassUserKeeps == ASSUME CeInv, NEW u \in unseen, PassUser(u) PROVE CeInv'
<1>1. /\ BuildInv /\ phase = "done" /\ Stands(checks, code) /\ readFreed \in BOOLEAN
      /\ readFreed => Reasons(checks, erased)
      /\ Walking(checks, code, erased, op, unseen, Discovered)
  BY DEF CeInv, Eliminating, PassUser, Stands
<1>2. /\ ceStage = "walk" /\ ceStage' = ceStage /\ unseen' = unseen \ {u}
      /\ UNCHANGED <<vars, checks, code, erased, users, cands, op, readFreed>>
      /\ u = op \/ ~SameCheck(u) \/ ~Precedes(u, op)
  BY DEF PassUser
<1>3. u \in DOMAIN checks /\ op \in DOMAIN checks /\ Home(op) \in Discovered
  BY <1>1, HomeIs DEF Walking
<1>4. ASSUME TreeExact, checks[u] = checks[op] PROVE ~Before(u, op)
  <2>1. CASE u = op
    BY <1>1, <1>3, <2>1, BeforeIrreflexive
  <2>2. CASE u # op
    <3>1. SameCheck(u)
      BY <1>4 DEF SameCheck
    <3>2. ~Precedes(u, op)
      BY <1>2, <2>2, <3>1
    <3> QED BY <1>1, <1>3, <1>4, <2>2, <3>2, PrecedesIsBefore
  <2> QED BY <2>1, <2>2
<1> QED BY <1>1, <1>2, <1>4, MetKeeps

(* What a check's elimination does to the coverage of those erased: the user *)
(* it met covers it, and whatever the check covered.  A freed user is met    *)
(* only by a check of a value against itself, which covers nothing.          *)
LEMMA CoverMoves ==
    ASSUME BuildInv, phase = "done", Stands(checks, code), TreeExact, ErasedCovered,
           erased \subseteq DOMAIN checks,
           NEW u \in DOMAIN checks, NEW o \in DOMAIN checks \ erased,
           ("bound" \in DOMAIN checks[o] => checks[o].bound # checks[o].input)
              => u \notin erased /\ checks[u] = checks[o],
           u # o, Before(u, o),
           NEW d \in erased \cup {o},
           "bound" \in DOMAIN checks[d] => checks[d].bound # checks[d].input
    PROVE  \E c \in DOMAIN checks \ (erased \cup {o}) :
              checks[c] = checks[d] /\ Before(c, d)
<1>1. CASE d = o
  BY <1>1
<1>2. CASE d # o
  <2>1. PICK c \in DOMAIN checks \ erased : checks[c] = checks[d] /\ Before(c, d)
    BY <1>2 DEF ErasedCovered
  <2>2. CASE c = o
    <3>1. checks[u] = checks[d] /\ u \notin erased
      BY <2>1, <2>2
    <3>2. Before(u, d)
      <4>1. d \in DOMAIN checks /\ Before(o, d)
        BY <2>1, <2>2
      <4> QED BY <4>1, BeforeTransitive
    <3> QED BY <3>1, <3>2
  <2>3. CASE c # o
    BY <2>1, <2>3
  <2> QED BY <2>2, <2>3
<1> QED BY <1>1, <1>2

(* The check is erased, for a user that stands or was freed.                 *)
LEMMA TakeOutKeeps ==
    ASSUME CeInv, ceStage = "walk", ceStage' = "walk", NEW u \in unseen, u # op,
           SameCheck(u), Precedes(u, op), TakeOut(u),
           UNCHANGED <<vars, checks, code, cands, op>>,
           readFreed' \in BOOLEAN, readFreed' => Reasons(checks, erased \cup {op})
    PROVE  CeInv'
<1>1. /\ BuildInv /\ phase = "done" /\ Stands(checks, code) /\ erased \subseteq DOMAIN checks
      /\ UsersKept(checks, erased, users)
      /\ CandsKept(checks, code, erased, cands, op, Discovered)
      /\ Walking(checks, code, erased, op, unseen, Discovered)
  BY DEF CeInv, Eliminating, Stands
<1>2. /\ users' = [users EXCEPT ![checks[op].input] = @ \ {op}]
      /\ erased' = erased \cup {op} /\ unseen' = unseen \ {u, op}
  BY DEF TakeOut
<1>3. /\ BuildInv' /\ phase' = phase /\ Discovered' = Discovered /\ TreeExact' = TreeExact
      /\ \A c : Home(c)' = Home(c)
      /\ \A c, d : Before(c, d)' = Before(c, d)
  BY <1>1, <1>2, FrameKeeps
<1>4. /\ u \in DOMAIN checks /\ op \in DOMAIN checks /\ Home(op) \in Discovered
      /\ u \in erased => checks[u].input # checks[op].input
      /\ MetAsLike(checks[op], checks[u])
  BY <1>1, HomeIs DEF Walking, SameCheck, MetAsLike
<1>5. UsersKept(checks, erased, users)'
  <2>1. PICK ck, er, us, o : ck = checks /\ er = erased /\ us = users /\ o = op
    OBVIOUS
  <2>2. UsersKept(ck, er, us) /\ o \in DOMAIN ck
    BY <1>1, <1>4, <2>1
  <2>3. UsersKept(ck, er \cup {o}, [us EXCEPT ![ck[o].input] = @ \ {o}])
    BY <2>2, UsersLose
  <2>4. checks' = ck /\ erased' = er \cup {o} /\ users' = [us EXCEPT ![ck[o].input] = @ \ {o}]
    BY <1>2, <2>1
  <2> QED BY <2>3, <2>4
<1>6. CandsKept(checks, code, erased \cup {op}, cands, op, Discovered)
  BY <1>1 DEF CandsKept
<1>8. Eliminating'
  <2>1. CandsKept(checks, code, erased, cands, op, Discovered)'
    BY <1>2, <1>3, <1>6
  <2>2. (readFreed => Reasons(checks, erased))'
    BY <1>2
  <2>3. /\ phase' = "done" /\ readFreed' \in BOOLEAN
        /\ IsPlacement([checks |-> checks, code |-> code])'
        /\ (erased \subseteq DOMAIN checks)'
    <3>1. checks' = checks /\ code' = code
      BY <1>2
    <3>2. IsPlacement([checks |-> checks, code |-> code])' =
          IsPlacement([checks |-> checks, code |-> code])
      BY <3>1
    <3> QED BY <1>1, <1>2, <1>3, <1>4, <3>1, <3>2 DEF Stands
  <2> QED BY <1>5, <2>1, <2>2, <2>3 DEF Eliminating
<1>9. Walking(checks, code, erased \cup {op}, op, unseen \ {u, op}, Discovered)
  BY <1>1, <1>2, <1>4 DEF Walking
<1>10. Walking(checks, code, erased, op, unseen, Discovered)'
  BY <1>2, <1>3, <1>9
<1>11. ASSUME TreeExact PROVE ErasedCovered' /\ Cleared'
  <2>1. ErasedCovered /\ Cleared
    BY <1>11 DEF CeInv
  <2>2. Before(u, op)
    BY <1>1, <1>4, <1>11, PrecedesIsBefore
  <2>3. ("bound" \in DOMAIN checks[op] => checks[op].bound # checks[op].input)
          => u \notin erased /\ checks[u] = checks[op]
    <3>1. IsCheck(checks[u]) /\ IsCheck(checks[op])
      BY <1>1, <1>4, StandsMeans
    <3>2. "bound" \in DOMAIN checks[op] <=> checks[op].oper = "bounds"
      BY <3>1, CheckKinds
    <3>3. /\ checks[op].input \in Inputs(checks[u]) /\ checks[u].oper = checks[op].oper
          /\ checks[op].oper = "bounds" => checks[u].bound = checks[op].bound
      BY <1>4 DEF MetAsLike
    <3>4. ASSUME checks[u].input # checks[op].input
          PROVE  checks[op].oper = "bounds" /\ checks[op].bound = checks[op].input
      BY <3>1, <3>3, <3>4, CheckKinds
    <3> QED BY <1>4, <3>1, <3>2, <3>3, <3>4, LikeIsEqual
  <2>4. PICK o : o = op
    OBVIOUS
  <2>5. ASSUME NEW d \in erased \cup {o},
               "bound" \in DOMAIN checks[d] => checks[d].bound # checks[d].input
        PROVE  \E c \in DOMAIN checks \ (erased \cup {o}) :
                  checks[c] = checks[d] /\ Before(c, d)
    <3>1. CASE o \in erased
      BY <2>1, <2>5, <3>1 DEF ErasedCovered
    <3>2. CASE o \notin erased
      <4>1. /\ u \in DOMAIN checks /\ o \in DOMAIN checks \ erased
            /\ u # o /\ Before(u, o)
            /\ ("bound" \in DOMAIN checks[o] => checks[o].bound # checks[o].input)
                  => u \notin erased /\ checks[u] = checks[o]
        BY <1>4, <2>2, <2>3, <2>4, <3>2
      <4> QED BY <1>1, <1>11, <2>1, <2>5, <4>1, CoverMoves
    <3> QED BY <3>1, <3>2
  <2>6. ErasedCovered'
    BY <1>2, <1>3, <2>4, <2>5 DEF ErasedCovered
  <2>7. ASSUME NEW d \in DOMAIN checks \ (erased \cup {op}), Home(d) \in Discovered,
               d \notin ToSet(cands),
               NEW c \in DOMAIN checks \ (erased \cup {op}), checks[c] = checks[d]
        PROVE  ~Before(c, d)
    BY <2>1, <2>7 DEF Cleared
  <2>8. Cleared'
    BY <1>2, <1>3, <2>7 DEF Cleared
  <2> QED BY <2>6, <2>8
<1> QED BY <1>2, <1>3, <1>8, <1>10, <1>11 DEF CeInv

(* A check is erased for one that stands.                                    *)
LEMMA EliminateKeeps == ASSUME CeInv, NEW u \in unseen, Eliminate(u) PROVE CeInv'
<1>1. /\ ceStage = "walk" /\ ceStage' = "walk" /\ u # op
      /\ SameCheck(u) /\ Precedes(u, op) /\ TakeOut(u)
      /\ UNCHANGED <<vars, checks, code, cands, op, readFreed>>
  BY DEF Eliminate
<1>2. readFreed \in BOOLEAN /\ (readFreed => Reasons(checks, erased))
  BY <1>1 DEF CeInv, Eliminating
<1>3. Reasons(checks, erased) => Reasons(checks, erased \cup {op})
  BY DEF Reasons
<1> QED BY <1>1, <1>2, <1>3, TakeOutKeeps

(* A freed check is read.                                                    *)
LEMMA ReadFreedKeeps == ASSUME CeInv, NEW u \in unseen, ReadFreed(u) PROVE CeInv'
<1>1. /\ Stands(checks, code) /\ Walking(checks, code, erased, op, unseen, Discovered)
      /\ ceStage = "walk" /\ u # op /\ ReadsFreed(u) /\ readFreed' = TRUE
      /\ UNCHANGED <<vars, checks, code, cands, op>>
  BY DEF CeInv, Eliminating, ReadFreed, Stands
<1>2. /\ u \in DOMAIN checks /\ op \in DOMAIN checks
      /\ IsCheck(checks[u]) /\ IsCheck(checks[op])
      /\ checks[op].input \in Inputs(checks[u])
  BY <1>1, StandsMeans DEF Walking
<1>3. Reasons(checks, erased)
  <2>1. CASE u \in erased
    <3>1. checks[u].input # checks[op].input
      BY <1>1, <2>1 DEF Walking
    <3>2. checks[u].oper = "bounds" /\ checks[u].bound = checks[op].input
      BY <1>2, <3>1, CheckKinds
    <3> QED BY <1>1, <1>2, <2>1, <3>1, <3>2 DEF Reasons
  <2>2. CASE u \notin erased
    <3>1. op \in erased /\ MetAsLike(checks[op], checks[u])
      BY <1>1, <1>2, <2>2 DEF ReadsFreed, SameCheck, MetAsLike
    <3>2. PICK w \in DOMAIN checks \ unseen : w # op /\ MetAsLike(checks[op], checks[w])
      BY <1>1, <3>1 DEF Walking
    <3> QED BY <1>1, <1>2, <3>1, <3>2 DEF Reasons
  <2> QED BY <2>1, <2>2
<1>4. CASE /\ ceStage' \in {"walk", "crashed"} /\ unseen' \in {unseen, unseen \ {u}}
           /\ UNCHANGED <<erased, users>>
  BY <1>1, <1>3, <1>4, MetKeeps DEF ReadsFreed
<1>5. CASE SameCheck(u) /\ Precedes(u, op) /\ TakeOut(u) /\ UNCHANGED ceStage
  <2>1. Reasons(checks, erased \cup {op})
    BY <1>3 DEF Reasons
  <2> QED BY <1>1, <1>5, <2>1, TakeOutKeeps
<1> QED BY <1>1, <1>4, <1>5 DEF ReadFreed

-----------------------------------------------------------------------------
(* The elimination starts with nothing done.                                 *)
LEMMA CeStarts == ASSUME CeInit PROVE CeInv
BY BuilderStarts DEF CeInit, CeInv, CeUntouched

(* No step.                                                                  *)
LEMMA CeStutterKeeps == ASSUME CeInv, UNCHANGED ceAllVars PROVE CeInv'
<1>1. UNCHANGED <<vars, ceVars>>
  BY DEF ceAllVars
<1>2. BuildInv /\ UNCHANGED <<vars, checks, code>>
  BY <1>1 DEF CeInv, ceVars
<1>3. /\ BuildInv' /\ phase' = phase /\ Discovered' = Discovered /\ TreeExact' = TreeExact
      /\ \A c : Home(c)' = Home(c)
      /\ \A c, d : Before(c, d)' = Before(c, d)
  BY <1>2, FrameKeeps
<1>4. /\ CeUntouched' = CeUntouched /\ Eliminating' = Eliminating
      /\ Walking(checks, code, erased, op, unseen, Discovered)' =
         Walking(checks, code, erased, op, unseen, Discovered)
      /\ ErasedCovered' = ErasedCovered /\ Cleared' = Cleared
  BY <1>1, <1>3 DEF ceVars, CeUntouched, Eliminating, ErasedCovered, Cleared
<1>5. ceStage' = ceStage /\ op' = op /\ unseen' = unseen /\ cands' = cands
  BY <1>1 DEF ceVars
<1> QED BY <1>3, <1>4, <1>5 DEF CeInv

(* The elimination keeps its invariant.                                      *)
THEOREM EliminationInvariance == CeSpec => []CeInv
<1>1. CeInit => CeInv
  BY CeStarts
<1>2. CeInv /\ [CeNext]_ceAllVars => CeInv'
  BY BuildStepKeeps, FillKeeps, VisitKeeps, EndsKeep, PassUserKeeps, ReadFreedKeeps,
     EliminateKeeps, CeStutterKeeps DEF CeNext, CeStopped
<1> QED BY <1>1, <1>2, PTL DEF CeSpec

(* Where the tree is right, the elimination takes no check from a path that  *)
(* does not leave an equal one before it.                                    *)
THEOREM ErasedStayCovered == CeSpec => []ErasedCoveredByTree
<1>1. CeInv => ErasedCoveredByTree
  <2> SUFFICES ASSUME CeInv, TreeExact PROVE ErasedCovered
    BY DEF ErasedCoveredByTree
  <2>1. CASE ceStage = "build"
    BY <2>1 DEF CeInv, CeUntouched, ErasedCovered
  <2>2. CASE ceStage # "build"
    BY <2>2 DEF CeInv
  <2> QED BY <2>1, <2>2
<1> QED BY <1>1, EliminationInvariance, PTL

(* Where the tree is right, what is left at the end is not redundant.        *)
THEOREM NothingRedundantLeft == CeSpec => []NoneRedundant
<1>1. CeInv => NoneRedundant
  <2> SUFFICES ASSUME CeInv, ceStage = "done", TreeExact,
                      NEW c \in DOMAIN checks \ erased, NEW d \in DOMAIN checks \ erased,
                      Home(d) \in Discovered, checks[c] = checks[d]
               PROVE  ~Before(c, d)
    BY DEF NoneRedundant
  <2>1. Cleared /\ unseen = {} /\ cands = << >>
    BY DEF CeInv
  <2>2. ToSet(cands) = {}
    BY <2>1 DEF ToSet
  <2> QED BY <2>1, <2>2 DEF Cleared
<1> QED BY <1>1, EliminationInvariance, PTL

(* Memory of a freed check is read only through its bound, or where a third  *)
(* check of the kind is met.                                                 *)
THEOREM FreedIsReadForReasons == CeSpec => []FreedReadForReasons
<1>1. CeInv => FreedReadForReasons
  <2> SUFFICES ASSUME CeInv PROVE FreedReadForReasons
    OBVIOUS
  <2>1. CASE ceStage = "build"
    <3>1. CeUntouched
      BY <2>1 DEF CeInv
    <3>2. CeTypeOK
      <4>1. PICK e : e = << >>
        OBVIOUS
      <4>2. e \in Seq(DOMAIN e) /\ e \in [DOMAIN e -> SUBSET DOMAIN e]
        BY <4>1
      <4>3. checks = e /\ users = e /\ cands = e
        BY <3>1, <4>1 DEF CeUntouched
      <4> QED BY <2>1, <3>1, <4>2, <4>3 DEF CeTypeOK, CeUntouched
    <3>3. DOMAIN users = {} /\ readFreed = FALSE
      BY <3>1 DEF CeUntouched
    <3> QED BY <3>2, <3>3 DEF FreedReadForReasons
  <2>2. CASE ceStage # "build"
    <3>1. /\ Stands(checks, code) /\ erased \subseteq DOMAIN checks
          /\ UsersKept(checks, erased, users)
          /\ CandsKept(checks, code, erased, cands, op, Discovered)
          /\ readFreed \in BOOLEAN /\ (readFreed => Reasons(checks, erased))
      BY <2>2 DEF CeInv, Eliminating, Stands
    <3>2. op \in DOMAIN checks \cup {NoCheck} /\ unseen \subseteq DOMAIN checks
      <4>1. CASE ceStage \in {"walk", "crashed"}
        BY <4>1 DEF CeInv, Walking
      <4>2. CASE ceStage \in {"visit", "done"}
        BY <4>2 DEF CeInv
      <4> QED BY <2>2, <4>1, <4>2 DEF CeInv
    <3>3. CeTypeOK
      BY <3>1, <3>2 DEF CeTypeOK, CeInv, UsersKept, CandsKept
    <3>4. ASSUME NEW v \in DOMAIN users, NEW c \in users[v] \cap erased
          PROVE  checks[c].oper = "bounds" /\ checks[c].bound = v /\ checks[c].input # v
      <4>1. v \in Inputs(checks[c]) /\ checks[c].input # v /\ IsCheck(checks[c])
        BY <3>1, StandsMeans DEF UsersKept
      <4> QED BY <4>1, CheckKinds
    <3> QED BY <3>1, <3>3, <3>4 DEF FreedReadForReasons, Reasons
  <2> QED BY <2>1, <2>2
<1> QED BY <1>1, EliminationInvariance, PTL
=============================================================================
