-------------------------- MODULE FiniteIteration --------------------------
(* Induction and iteration without operator parameters: the facts the proofs *)
(* about loops rest on, over sets and functions.                             *)
EXTENDS Selection, FiniteSetTheorems, TLAPS

(* A set of naturals with a member has a least one.                          *)
LEMMA NatLeast ==
    ASSUME NEW T \in SUBSET Nat, T # {}
    PROVE  \E x \in T : \A y \in T : x <= y
<1>1. IsWellFoundedOn(OpToRel(<, Nat), Nat)
  BY NatLessThanWellFounded
<1>2. PICK x \in T : \A y \in T : ~(<<y, x>> \in OpToRel(<, Nat))
  BY <1>1, WFMin
<1>3. \A y \in T : ~(y < x)
  BY <1>2 DEF OpToRel
<1> QED BY <1>3

(* Induction over the naturals.                                              *)
LEMMA NatSetInduction ==
    ASSUME NEW P \in SUBSET Nat, 0 \in P, \A n \in P : n + 1 \in P
    PROVE  P = Nat
<1> SUFFICES ASSUME P # Nat PROVE FALSE
  OBVIOUS
<1>1. PICK x \in Nat \ P : \A y \in Nat \ P : x <= y
  <2>1. Nat \ P \in SUBSET Nat /\ Nat \ P # {}
    OBVIOUS
  <2> QED BY <2>1, NatLeast
<1>2. x # 0 /\ x - 1 \in Nat
  BY <1>1
<1>3. x - 1 \in P
  BY <1>1, <1>2
<1> QED BY <1>1, <1>2, <1>3

(* Induction from 0 to n.                                                    *)
LEMMA RangeInduction ==
    ASSUME NEW n \in Nat, NEW P \in SUBSET (0 .. n), 0 \in P,
           \A k \in 1 .. n : k - 1 \in P => k \in P
    PROVE  P = 0 .. n
<1> DEFINE Q == {k \in Nat : k <= n => k \in P}
<1>1. 0 \in Q /\ \A k \in Q : k + 1 \in Q
  OBVIOUS
<1>2. Q \in SUBSET Nat
  OBVIOUS
<1>3. Q = Nat
  <2> HIDE DEF Q
  <2> QED BY <1>1, <1>2, NatSetInduction
<1>4. \A k \in 0 .. n : k \in Q
  BY <1>3
<1>5. \A k \in 0 .. n : k \in P
  BY <1>4
<1> HIDE DEF Q
<1> QED BY <1>5

(* A loop of n rounds over the states S, D[k] being what round k makes of    *)
(* them, and its executions from x.                                          *)
Rounds(S, n) == [1 .. n -> [S -> S]]

Executions(S, n, x, D) ==
    {g \in [0 .. n -> S] : g[0] = x /\ \A k \in 1 .. n : g[k] = D[k][g[k - 1]]}

(* Every loop has an execution.                                              *)
LEMMA ExecutionExists ==
    ASSUME NEW S, NEW n \in Nat, NEW x \in S, NEW D \in Rounds(S, n)
    PROVE  \E g : g \in Executions(S, n, x, D)
<1> USE DEF Rounds, Executions
<1> DEFINE Run(m, g) == g[0] = x /\ \A k \in 1 .. m : g[k] = D[k][g[k - 1]]
           P == {m \in 0 .. n : \E g \in [0 .. m -> S] : Run(m, g)}
<1>1. 0 \in P
  <2> DEFINE h == [k \in 0 .. 0 |-> x]
  <2>1. h \in [0 .. 0 -> S] /\ Run(0, h)
    OBVIOUS
  <2> HIDE DEF h
  <2>2. \E g \in [0 .. 0 -> S] : Run(0, g)
    BY <2>1, Zenon
  <2> QED BY <2>2
<1>2. ASSUME NEW m \in 1 .. n, m - 1 \in P PROVE m \in P
  <2>1. PICK g \in [0 .. m - 1 -> S] : Run(m - 1, g)
    BY <1>2
  <2> DEFINE h == [k \in 0 .. m |-> IF k = m THEN D[m][g[m - 1]] ELSE g[k]]
  <2>2. D[m][g[m - 1]] \in S
    OBVIOUS
  <2>3. h \in [0 .. m -> S]
    BY <2>2
  <2>4. h[0] = x
    BY <2>1
  <2>5. ASSUME NEW k \in 1 .. m PROVE h[k] = D[k][h[k - 1]]
    <3>1. CASE k = m
      BY <3>1
    <3>2. CASE k # m
      <4>1. k \in 1 .. m - 1 /\ h[k] = g[k] /\ h[k - 1] = g[k - 1]
        BY <3>2
      <4> QED BY <2>1, <4>1
    <3> QED BY <3>1, <3>2
  <2> HIDE DEF h
  <2>6. Run(m, h)
    BY <2>4, <2>5
  <2>7. \E f \in [0 .. m -> S] : Run(m, f)
    BY <2>3, <2>6, Zenon
  <2>8. m \in 0 .. n
    OBVIOUS
  <2> HIDE DEF Run
  <2> QED BY <2>7, <2>8, Zenon
<1>3. P \in SUBSET (0 .. n)
  OBVIOUS
<1>4. P = 0 .. n
  <2> HIDE DEF P
  <2> QED BY <1>1, <1>2, <1>3, RangeInduction
<1> QED BY <1>4, SMTT(30)

(* Induction over the subsets of a finite set.                               *)
LEMMA SubsetInduction ==
    ASSUME NEW S, IsFiniteSet(S), NEW P \in SUBSET SUBSET S, {} \in P,
           \A T \in P : \A x \in S \ T : T \cup {x} \in P
    PROVE  P = SUBSET S
<1> DEFINE Q == {n \in Nat : \A T \in SUBSET S : Cardinality(T) = n => T \in P}
<1>0. \A T \in SUBSET S : IsFiniteSet(T) /\ Cardinality(T) \in Nat
  BY FS_Subset, FS_CardinalityType
<1>1. 0 \in Q
  BY <1>0, FS_EmptySet
<1>2. ASSUME NEW n \in Q PROVE n + 1 \in Q
  <2> SUFFICES ASSUME NEW T \in SUBSET S, Cardinality(T) = n + 1 PROVE T \in P
    OBVIOUS
  <2>1. PICK x \in T : TRUE
    BY <1>0, FS_EmptySet
  <2>2. Cardinality(T \ {x}) = Cardinality(T) - 1
    BY <1>0, FS_RemoveElement
  <2>3. T \ {x} \in P
    <3>1. Cardinality(T \ {x}) = n /\ T \ {x} \in SUBSET S
      BY <2>2
    <3> QED BY <3>1
  <2>4. (T \ {x}) \cup {x} = T /\ x \in S \ (T \ {x})
    OBVIOUS
  <2> QED BY <2>3, <2>4
<1>3. Q \in SUBSET Nat
  OBVIOUS
<1>4. Q = Nat
  <2> HIDE DEF Q
  <2> QED BY <1>1, <1>2, <1>3, NatSetInduction
<1> QED BY <1>0, <1>4

(* A set grown by what G gives for its members, and the least set around S   *)
(* that does not grow.                                                       *)
Spread(G, A) == A \cup UNION {G[m] : m \in A}

Closed(G, A) == \A m \in A : G[m] \subseteq A

(* The rounds w in which S grows, of a universe of n elements.               *)
Spreads(U, S, G, n) ==
    {w \in [0 .. n -> SUBSET U] :
        w[0] = S /\ \A k \in 1 .. n : w[k] = Spread(G, w[k - 1])}

(* A set that grows in as many rounds as there are elements is closed, and   *)
(* the least one.                                                            *)
LEMMA SpreadCloses ==
    ASSUME NEW U, IsFiniteSet(U), NEW S \in SUBSET U, NEW G \in [U -> SUBSET U],
           NEW n, n = Cardinality(U), NEW w \in Spreads(U, S, G, n)
    PROVE  /\ S \subseteq w[n]
           /\ Closed(G, w[n])
           /\ \A C \in SUBSET U : S \subseteq C /\ Closed(G, C) => w[n] \subseteq C
<1> USE DEF Spreads
<1>1. n \in Nat /\ \A A \in SUBSET U : IsFiniteSet(A) /\ Cardinality(A) \in 0 .. n
  BY FS_Subset, FS_CardinalityType
<1>2. \A A \in SUBSET U : A \subseteq Spread(G, A) /\ (Spread(G, A) = A => Closed(G, A))
  BY DEF Spread, Closed
<1>3. S \subseteq w[n]
  <2> DEFINE P == {k \in 0 .. n : S \subseteq w[k]}
  <2>1. 0 \in P /\ P \in SUBSET (0 .. n)
    BY <1>1
  <2>2. \A k \in 1 .. n : k - 1 \in P => k \in P
    BY <1>1 DEF Spread
  <2>3. P = 0 .. n
    <3> HIDE DEF P
    <3> QED BY <1>1, <2>1, <2>2, RangeInduction
  <2> QED BY <1>1, <2>3
<1>4. Closed(G, w[n])
  <2> DEFINE P == {k \in 0 .. n : Spread(G, w[k]) = w[k] \/ Cardinality(w[k]) >= k}
  <2>1. 0 \in P /\ P \in SUBSET (0 .. n)
    BY <1>1
  <2>2. ASSUME NEW k \in 1 .. n, k - 1 \in P PROVE k \in P
    <3>1. PICK A, B : A = w[k - 1] /\ B = w[k]
      OBVIOUS
    <3>2. A \in SUBSET U /\ B \in SUBSET U /\ B = Spread(G, A) /\ A \subseteq B
      BY <1>1, <1>2, <3>1, SMTT(30)
    <3>3. CASE B = A
      <4>1. w[k] = A /\ Spread(G, A) = A
        BY <3>1, <3>2, <3>3
      <4>2. Spread(G, w[k]) = w[k] /\ k \in 0 .. n
        BY <1>1, <4>1
      <4> QED BY <4>2
    <3>4. CASE B # A
      <4>1. Cardinality(A) >= k - 1
        BY <2>2, <3>1, <3>2, <3>4
      <4>2. Cardinality(A) < Cardinality(B)
        <5>1. Cardinality(A) <= Cardinality(B)
              /\ (Cardinality(A) = Cardinality(B) => A = B)
          BY <1>1, <3>2, FS_Subset
        <5> QED BY <1>1, <3>2, <3>4, <5>1
      <4>3. Cardinality(B) \in Int /\ Cardinality(A) \in Int
        BY <1>1, <3>2
      <4>4. Cardinality(B) >= k
        BY <4>1, <4>2, <4>3
      <4> QED BY <3>1, <4>4
    <3> QED BY <3>3, <3>4
  <2>3. P = 0 .. n
    <3> HIDE DEF P
    <3> QED BY <1>1, <2>1, <2>2, RangeInduction
  <2>4. w[n] \in SUBSET U /\ Cardinality(w[n]) \in 0 .. n
    BY <1>1
  <2>5. CASE Cardinality(w[n]) >= n
    <3>1. Cardinality(w[n]) = Cardinality(U)
      BY <1>1, <2>4, <2>5
    <3>2. w[n] = U
      BY <2>4, <3>1, FS_Subset
    <3> QED BY <3>2 DEF Closed
  <2>6. CASE Spread(G, w[n]) = w[n]
    BY <1>2, <2>4, <2>6
  <2>7. n \in P
    <3> HIDE DEF P
    <3> QED BY <1>1, <2>3
  <2> QED BY <2>5, <2>6, <2>7
<1>5. ASSUME NEW C \in SUBSET U, S \subseteq C, Closed(G, C) PROVE w[n] \subseteq C
  <2> DEFINE P == {k \in 0 .. n : w[k] \subseteq C}
  <2>1. 0 \in P /\ P \in SUBSET (0 .. n)
    BY <1>1, <1>5
  <2>2. ASSUME NEW k \in 1 .. n, k - 1 \in P PROVE k \in P
    <3>1. w[k] = Spread(G, w[k - 1]) /\ w[k - 1] \subseteq C
      BY <2>2
    <3>2. Spread(G, w[k - 1]) \subseteq C
      BY <1>5, <3>1 DEF Spread, Closed
    <3> QED BY <3>1, <3>2
  <2>3. P = 0 .. n
    <3> HIDE DEF P
    <3> QED BY <1>1, <2>1, <2>2, RangeInduction
  <2> QED BY <1>1, <2>3
<1> QED BY <1>3, <1>4, <1>5

-----------------------------------------------------------------------------
(* What Selected takes of a sequence.                                        *)

(* An element more, at the end.                                              *)
LEMMA AppendFacts ==
    ASSUME NEW S, NEW s \in Seq(S), NEW v \in S
    PROVE  /\ Append(s, v) \in Seq(S) /\ Len(s) \in Nat /\ DOMAIN s = 1 .. Len(s)
           /\ DOMAIN Append(s, v) = 1 .. Len(s) + 1 /\ Append(s, v)[Len(s) + 1] = v
           /\ \A k \in 1 .. Len(s) : Append(s, v)[k] = s[k]
OBVIOUS

(* What has been selected of the first k elements of s: all that are in T,   *)
(* each from a place of its own, in their order.                             *)
SelectedOf(s, T, k, u) ==
    /\ \A x : (\E m \in DOMAIN u : u[m] = x) <=> (x \in T /\ \E a \in 1 .. k : s[a] = x)
    /\ \A m \in DOMAIN u : \E a \in 1 .. k : s[a] = u[m]
    /\ \A m, l \in DOMAIN u : m < l => \E a, b \in 1 .. k : a < b /\ s[a] = u[m] /\ s[b] = u[l]

(* The next element is taken or passed over.                                 *)
LEMMA SelectedStep ==
    ASSUME NEW S, NEW s \in Seq(S), NEW T, NEW k \in 1 .. Len(s), NEW u \in Seq(S),
           SelectedOf(s, T, k - 1, u)
    PROVE  /\ s[k] \in T => Append(u, s[k]) \in Seq(S) /\ SelectedOf(s, T, k, Append(u, s[k]))
           /\ s[k] \notin T => SelectedOf(s, T, k, u)
<1>1. s[k] \in S /\ k \in Nat /\ Len(s) \in Nat
  OBVIOUS
<1>2. \A a \in 1 .. k : a = k \/ a \in 1 .. k - 1
  OBVIOUS
<1>3. ASSUME s[k] \notin T PROVE SelectedOf(s, T, k, u)
  <2>1. \A x : (\E m \in DOMAIN u : u[m] = x) <=> (x \in T /\ \E a \in 1 .. k : s[a] = x)
    BY <1>2, <1>3 DEF SelectedOf
  <2>2. \A m \in DOMAIN u : \E a \in 1 .. k : s[a] = u[m]
    BY <1>2 DEF SelectedOf
  <2>3. ASSUME NEW m \in DOMAIN u, NEW l \in DOMAIN u, m < l
        PROVE  \E a, b \in 1 .. k : a < b /\ s[a] = u[m] /\ s[b] = u[l]
    <3>1. PICK a, b \in 1 .. k - 1 : a < b /\ s[a] = u[m] /\ s[b] = u[l]
      BY <2>3 DEF SelectedOf
    <3>2. a \in 1 .. k /\ b \in 1 .. k
      BY <1>1
    <3> QED BY <3>1, <3>2
  <2> QED BY <2>1, <2>2, <2>3 DEF SelectedOf
<1>4. ASSUME s[k] \in T PROVE Append(u, s[k]) \in Seq(S) /\ SelectedOf(s, T, k, Append(u, s[k]))
  <2>1. PICK w, n : w = Append(u, s[k]) /\ n = Len(u)
    OBVIOUS
  <2>2. /\ w \in Seq(S) /\ n \in Nat /\ DOMAIN u = 1 .. n /\ DOMAIN w = 1 .. n + 1 /\ w[n + 1] = s[k]
        /\ \A m \in 1 .. n : w[m] = u[m]
    BY <1>1, <2>1, AppendFacts
  <2>3. \A m \in DOMAIN w : m = n + 1 \/ m \in DOMAIN u
    BY <2>2
  <2>4. n + 1 \in DOMAIN w /\ k \in 1 .. k /\ \A m \in DOMAIN u : m \in DOMAIN w /\ w[m] = u[m] /\ m < n + 1
    BY <2>2
  <2>5. \A x : (\E m \in DOMAIN w : w[m] = x) <=> (x \in T /\ \E a \in 1 .. k : s[a] = x)
    <3> SUFFICES ASSUME NEW x
                 PROVE  (\E m \in DOMAIN w : w[m] = x) <=> (x \in T /\ \E a \in 1 .. k : s[a] = x)
      OBVIOUS
    <3>1. (\E m \in DOMAIN w : w[m] = x) <=> (x = s[k] \/ \E m \in DOMAIN u : u[m] = x)
      BY <2>2, <2>3, <2>4
    <3>2. (\E a \in 1 .. k : s[a] = x) <=> (x = s[k] \/ \E a \in 1 .. k - 1 : s[a] = x)
      BY <1>2, <2>4
    <3> QED BY <1>4, <3>1, <3>2 DEF SelectedOf
  <2>6. \A m \in DOMAIN w : \E a \in 1 .. k : s[a] = w[m]
    BY <2>2, <2>3, <2>4, <1>2 DEF SelectedOf
  <2>7. ASSUME NEW m \in DOMAIN w, NEW l \in DOMAIN w, m < l
        PROVE  \E a, b \in 1 .. k : a < b /\ s[a] = w[m] /\ s[b] = w[l]
    <3>1. m \in DOMAIN u /\ w[m] = u[m]
      BY <2>2, <2>7
    <3>2. CASE l = n + 1
      <4>1. PICK a \in 1 .. k - 1 : s[a] = u[m]
        BY <3>1 DEF SelectedOf
      <4>2. a \in 1 .. k /\ a < k /\ s[k] = w[l]
        BY <2>2, <3>2
      <4> QED BY <2>4, <3>1, <4>1, <4>2
    <3>3. CASE l # n + 1
      <4>1. l \in DOMAIN u /\ w[l] = u[l]
        BY <2>3, <2>4, <3>3
      <4>2. PICK a, b \in 1 .. k - 1 : a < b /\ s[a] = u[m] /\ s[b] = u[l]
        BY <2>7, <3>1, <4>1 DEF SelectedOf
      <4>3. a \in 1 .. k /\ b \in 1 .. k
        BY <1>1
      <4> QED BY <3>1, <4>1, <4>2, <4>3
    <3> QED BY <3>2, <3>3
  <2>8. SelectedOf(s, T, k, w)
    BY <2>5, <2>6, <2>7 DEF SelectedOf
  <2> QED BY <2>1, <2>2, <2>8
<1> QED BY <1>3, <1>4

(* Selected takes all of s.                                                  *)
LEMMA SelectedIs ==
    ASSUME NEW S, NEW s \in Seq(S), NEW T
    PROVE  Selected(s, T) \in Seq(S) /\ SelectedOf(s, T, Len(s), Selected(s, T))
<1> DEFINE n == Len(s)
           Take(u, k) == IF s[k] \in T THEN Append(u, s[k]) ELSE u
           D == [k \in 1 .. n |-> [u \in Seq(S) |-> Take(u, k)]]
           Def(h) == [k \in 0 .. n |-> IF k = 0 THEN << >>
                                       ELSE IF s[k] \in T THEN Append(h[k - 1], s[k]) ELSE h[k - 1]]
<1>1. PICK e : e = << >>
  OBVIOUS
<1>2. n \in Nat /\ DOMAIN s = 1 .. n /\ e \in Seq(S) /\ DOMAIN e = {}
  BY <1>1
<1>3. \A k \in 1 .. n : s[k] \in S
  OBVIOUS
<1>4. \A k \in 1 .. n : \A u \in Seq(S) : Take(u, k) \in Seq(S)
  BY <1>3, AppendFacts
<1>5. D \in Rounds(Seq(S), n)
  <2> HIDE DEF Take
  <2> QED BY <1>4 DEF Rounds
<1>6. PICK g : g \in Executions(Seq(S), n, e, D)
  <2> HIDE DEF D, n
  <2> QED BY <1>2, <1>5, ExecutionExists
<1>7. /\ g \in [0 .. n -> Seq(S)] /\ g[0] = e
      /\ \A k \in 1 .. n : g[k] = D[k][g[k - 1]]
  BY <1>6 DEF Executions
<1>8. \A k \in 1 .. n : g[k - 1] \in Seq(S) /\ k - 1 \in 0 .. n
  BY <1>2, <1>7
<1>9. \A k \in 1 .. n : g[k] = Take(g[k - 1], k)
  <2> HIDE DEF Take
  <2> QED BY <1>7, <1>8
<1>10. g = Def(g)
  <2>1. \A k \in 0 .. n : g[k] = IF k = 0 THEN e ELSE Take(g[k - 1], k)
    <3> SUFFICES ASSUME NEW k \in 0 .. n PROVE g[k] = IF k = 0 THEN e ELSE Take(g[k - 1], k)
      OBVIOUS
    <3>1. k = 0 \/ k \in 1 .. n
      BY <1>2
    <3> HIDE DEF Take
    <3> QED BY <1>7, <1>9, <3>1
  <2> HIDE DEF D
  <2> QED BY <1>1, <1>7, <2>1
<1>11. PICK f : f = CHOOSE h : h = Def(h)
  OBVIOUS
<1>12. f = Def(f)
  <2> HIDE DEF Def
  <2> QED BY <1>10, <1>11
<1>13. Selected(s, T) = f[n]
  BY <1>11 DEF Selected
<1>14. f[0] = e /\ \A k \in 1 .. n : f[k] = Take(f[k - 1], k)
  <2>1. \A k \in 0 .. n : f[k] = IF k = 0 THEN e ELSE Take(f[k - 1], k)
    BY <1>1, <1>12
  <2>2. 0 \in 0 .. n /\ \A k \in 1 .. n : k \in 0 .. n /\ k # 0
    BY <1>2
  <2> HIDE DEF Take
  <2> QED BY <2>1, <2>2
<1> HIDE DEF Def, D
<1> DEFINE P == {k \in 0 .. n : f[k] \in Seq(S) /\ SelectedOf(s, T, k, f[k])}
<1>15. 0 \in P
  <2>1. SelectedOf(s, T, 0, e)
    BY <1>2 DEF SelectedOf
  <2>2. f[0] \in Seq(S) /\ SelectedOf(s, T, 0, f[0]) /\ 0 \in 0 .. n
    BY <1>2, <1>14, <2>1
  <2> QED BY <2>2
<1>16. ASSUME NEW k \in 1 .. n, k - 1 \in P PROVE k \in P
  <2>1. PICK u : u = f[k - 1]
    OBVIOUS
  <2>2. u \in Seq(S) /\ SelectedOf(s, T, k - 1, u) /\ f[k] = Take(u, k)
    BY <1>14, <1>16, <2>1
  <2>3. Take(u, k) \in Seq(S) /\ SelectedOf(s, T, k, Take(u, k))
    BY <2>2, SelectedStep
  <2>4. k \in 0 .. n
    BY <1>2
  <2> HIDE DEF Take
  <2> QED BY <2>2, <2>3, <2>4
<1>17. P \in SUBSET (0 .. n)
  OBVIOUS
<1>18. P = 0 .. n
  <2> HIDE DEF P, n
  <2> QED BY <1>2, <1>15, <1>16, <1>17, RangeInduction
<1>19. n \in P
  <2> HIDE DEF P
  <2> QED BY <1>2, <1>18
<1> QED BY <1>13, <1>19
=============================================================================
