------------------------ MODULE IntrusiveList_proofs ------------------------
(* Proofs about IntrusiveList, for every finite set of nodes and any lists.  *)
EXTENDS IntrusiveList, FiniteIteration

-----------------------------------------------------------------------------
(* The first elements of a sequence.                                         *)
LEMMA PrefixOf ==
    ASSUME NEW S, NEW s \in Seq(S), NEW i \in 0 .. Len(s)
    PROVE  /\ SubSeq(s, 1, i) \in Seq(S) /\ Len(SubSeq(s, 1, i)) = i
           /\ \A k \in 1 .. i : SubSeq(s, 1, i)[k] = s[k]
OBVIOUS

(* The elements from index i to index j.                                     *)
LEMMA PieceOf ==
    ASSUME NEW S, NEW s \in Seq(S), NEW i \in 1 .. Len(s) + 1, NEW j \in i - 1 .. Len(s)
    PROVE  /\ SubSeq(s, i, j) \in Seq(S) /\ Len(SubSeq(s, i, j)) = j - i + 1
           /\ \A k \in 1 .. j - i + 1 : SubSeq(s, i, j)[k] = s[k + i - 1]
OBVIOUS

(* The sequence s without the elements from index i to index j.              *)
Rest(s, i, j) == SubSeq(s, 1, i - 1) \o SubSeq(s, j + 1, Len(s))

IsRest(S, r, s, i, w) == /\ r \in Seq(S) /\ Len(r) = Len(s) - w
                         /\ \A k \in 1 .. i - 1 : r[k] = s[k]
                         /\ \A k \in i .. Len(s) - w : r[k] = s[k + w]

(* What is left of a sequence a piece is taken out of.                       *)
LEMMA RestOf ==
    ASSUME NEW S, NEW s \in Seq(S), NEW i \in 1 .. Len(s), NEW j \in i .. Len(s),
           NEW w, w = j - i + 1, NEW r, r = Rest(s, i, j)
    PROVE  IsRest(S, r, s, i, w)
<1>1. PICK a, c : a = SubSeq(s, 1, i - 1) /\ c = SubSeq(s, j + 1, Len(s))
  OBVIOUS
<1>2. PICK n \in Nat : n = Len(s)
  OBVIOUS
<1>3. /\ i - 1 \in 0 .. Len(s) /\ j + 1 \in 1 .. Len(s) + 1
      /\ Len(s) \in (j + 1) - 1 .. Len(s)
  BY <1>2
<1>4. a \in Seq(S) /\ Len(a) = i - 1 /\ \A k \in 1 .. i - 1 : a[k] = s[k]
  BY <1>1, <1>3, PrefixOf
<1>5. /\ c \in Seq(S) /\ Len(c) = Len(s) - (j + 1) + 1
      /\ \A k \in 1 .. Len(s) - (j + 1) + 1 : c[k] = s[k + (j + 1) - 1]
  BY <1>1, <1>3, PieceOf
<1>6. Len(c) = n - j /\ \A k \in 1 .. n - j : c[k] = s[k + j]
  BY <1>2, <1>5
<1>7. PICK t : t = a \o c
  OBVIOUS
<1>8. /\ t \in Seq(S) /\ Len(t) = Len(a) + Len(c)
      /\ \A k \in 1 .. Len(a) : t[k] = a[k]
      /\ \A k \in 1 .. Len(c) : t[Len(a) + k] = c[k]
  <2>1. a \in Seq(S) /\ c \in Seq(S)
    BY <1>4, <1>5
  <2> QED BY <2>1, <1>7
<1>9. ASSUME NEW k \in i .. n - w PROVE t[k] = s[k + w]
  <2>1. PICK h : h = k - (i - 1)
    OBVIOUS
  <2>2. h \in 1 .. n - j /\ (i - 1) + h = k /\ h + j = k + w
    BY <1>2, <2>1
  <2>3. t[(i - 1) + h] = c[h] /\ c[h] = s[h + j]
    BY <1>4, <1>6, <1>8, <2>2
  <2> QED BY <2>2, <2>3
<1>10. Len(t) = n - w
  BY <1>2, <1>4, <1>6, <1>8
<1>11. \A k \in 1 .. i - 1 : t[k] = s[k]
  BY <1>4, <1>8
<1>12. t = r
  BY <1>1, <1>7 DEF Rest
<1> QED BY <1>2, <1>8, <1>9, <1>10, <1>11, <1>12 DEF IsRest

(* The sequence s with m behind its first p elements.                        *)
With(s, p, m) == SubSeq(s, 1, p) \o m \o SubSeq(s, p + 1, Len(s))

IsWith(S, r, s, p, m, w) == /\ r \in Seq(S) /\ Len(r) = Len(s) + w
                            /\ \A k \in 1 .. p : r[k] = s[k]
                            /\ \A k \in p + 1 .. p + w : r[k] = m[k - p]
                            /\ \A k \in p + w + 1 .. Len(s) + w : r[k] = s[k - w]

(* What a sequence becomes that a piece is put into.                         *)
LEMMA WithPiece ==
    ASSUME NEW S, NEW s \in Seq(S), NEW p \in 0 .. Len(s), NEW m \in Seq(S), NEW w, w = Len(m),
           NEW r, r = With(s, p, m)
    PROVE  IsWith(S, r, s, p, m, w)
<1>1. PICK a, c : a = SubSeq(s, 1, p) /\ c = SubSeq(s, p + 1, Len(s))
  OBVIOUS
<1>2. PICK n \in Nat : n = Len(s)
  OBVIOUS
<1>0. w \in Nat
  OBVIOUS
<1>3. p + 1 \in 1 .. Len(s) + 1 /\ Len(s) \in (p + 1) - 1 .. Len(s)
  BY <1>2
<1>4. a \in Seq(S) /\ Len(a) = p /\ \A k \in 1 .. p : a[k] = s[k]
  BY <1>1, PrefixOf
<1>5. /\ c \in Seq(S) /\ Len(c) = Len(s) - (p + 1) + 1
      /\ \A k \in 1 .. Len(s) - (p + 1) + 1 : c[k] = s[k + (p + 1) - 1]
  BY <1>1, <1>3, PieceOf
<1>6. Len(c) = n - p /\ \A k \in 1 .. n - p : c[k] = s[k + p]
  BY <1>2, <1>5
<1>7. PICK d : d = a \o m
  OBVIOUS
<1>8. /\ d \in Seq(S) /\ Len(d) = Len(a) + Len(m)
      /\ \A k \in 1 .. Len(a) : d[k] = a[k]
      /\ \A k \in 1 .. Len(m) : d[Len(a) + k] = m[k]
  <2>1. a \in Seq(S)
    BY <1>4
  <2> QED BY <2>1, <1>7
<1>9. PICK t : t = d \o c
  OBVIOUS
<1>10. /\ t \in Seq(S) /\ Len(t) = Len(d) + Len(c)
       /\ \A k \in 1 .. Len(d) : t[k] = d[k]
       /\ \A k \in 1 .. Len(c) : t[Len(d) + k] = c[k]
  <2>1. c \in Seq(S) /\ d \in Seq(S)
    BY <1>5, <1>8
  <2> QED BY <2>1, <1>9
<1>11. Len(d) = p + w /\ Len(t) = n + w
  BY <1>0, <1>2, <1>4, <1>6, <1>8, <1>10
<1>12. ASSUME NEW k \in 1 .. p PROVE t[k] = s[k]
  <2>1. k \in 1 .. Len(d)
    BY <1>0, <1>2, <1>11
  <2> QED BY <1>4, <1>8, <1>10, <2>1
<1>13. ASSUME NEW k \in p + 1 .. p + w PROVE t[k] = m[k - p]
  <2>1. PICK h : h = k - p
    OBVIOUS
  <2>2. h \in 1 .. w /\ p + h = k /\ k \in 1 .. Len(d)
    BY <1>0, <1>2, <1>11, <2>1
  <2>3. t[k] = d[k] /\ d[p + h] = m[h]
    BY <1>4, <1>8, <1>10, <2>2
  <2> QED BY <2>1, <2>2, <2>3
<1>14. ASSUME NEW k \in p + w + 1 .. n + w PROVE t[k] = s[k - w]
  <2>1. PICK h : h = k - (p + w)
    OBVIOUS
  <2>2. h \in 1 .. n - p /\ (p + w) + h = k /\ h + p = k - w
    BY <1>0, <1>2, <2>1
  <2>3. t[(p + w) + h] = c[h] /\ c[h] = s[h + p]
    BY <1>6, <1>10, <1>11, <2>2
  <2> QED BY <2>2, <2>3
<1>15. t = r
  BY <1>1, <1>7, <1>9 DEF With
<1> QED BY <1>2, <1>10, <1>11, <1>12, <1>13, <1>14, <1>15 DEF IsWith
-----------------------------------------------------------------------------
(* The cells of list l, which holds the sequence s: the sentinel stands at   *)
(* both ends.                                                                *)
Cell(l, s, k) == IF k \in 1 .. Len(s) THEN s[k] ELSE l

(* f gives every list a sequence of nodes, and m is a piece that is in none; *)
(* no node is in two places.                                                 *)
Sequences(f, m) == f \in [Lists -> Seq(Nodes)] /\ m \in Seq(Nodes)

Apart(f, m) ==
    /\ \A x, y \in Lists : \A a \in 1 .. Len(f[x]), b \in 1 .. Len(f[y]) :
          f[x][a] = f[y][b] => x = y /\ a = b
    /\ \A a, b \in 1 .. Len(m) : m[a] = m[b] => a = b
    /\ \A x \in Lists : \A a \in 1 .. Len(f[x]), b \in 1 .. Len(m) : f[x][a] # m[b]

(* The links nx lead through the lists, and through the piece.               *)
Chained(f, nx) == \A x \in Lists : \A k \in 0 .. Len(f[x]) :
                     nx[Cell(x, f[x], k)] = Cell(x, f[x], k + 1)

ChainedPiece(m, nx) == \A k \in 1 .. Len(m) - 1 : nx[m[k]] = m[k + 1]

(* Nothing else is linked.                                                   *)
Covered(f, m, nx) ==
    \A n \in Nodes : nx[n] # Null =>
       \/ \E x \in Lists : \E k \in 1 .. Len(f[x]) : n = f[x][k]
       \/ \E k \in 1 .. Len(m) : n = m[k]

Holds(f, m, nx) == /\ Sequences(f, m) /\ Apart(f, m) /\ nx \in [Cells -> Cells \cup {Null}]
                   /\ Chained(f, nx) /\ ChainedPiece(m, nx) /\ Covered(f, m, nx)

(* What a cell of a list is.                                                 *)
LEMMA CellFacts ==
    ASSUME NEW l \in Lists, NEW s \in Seq(Nodes)
    PROVE  /\ Len(s) \in Nat
           /\ \A k : Cell(l, s, k) \in Cells
           /\ \A k \in 1 .. Len(s) : Cell(l, s, k) = s[k] /\ s[k] \in Nodes
           /\ Cell(l, s, 0) = l /\ Cell(l, s, Len(s) + 1) = l
BY DEF Cell, Cells

(* A cell is in one place of one list.                                       *)
LEMMA CellsApart ==
    ASSUME NEW f, NEW m, Sequences(f, m), Apart(f, m),
           NEW x \in Lists, NEW y \in Lists, NEW a \in 0 .. Len(f[x]), NEW b \in 0 .. Len(f[y]),
           Cell(x, f[x], a) = Cell(y, f[y], b)
    PROVE  x = y /\ a = b
<1>1. f[x] \in Seq(Nodes) /\ f[y] \in Seq(Nodes)
  BY DEF Sequences
<1>2. /\ Len(f[x]) \in Nat /\ Cell(x, f[x], 0) = x
      /\ \A k \in 1 .. Len(f[x]) : Cell(x, f[x], k) = f[x][k] /\ f[x][k] \in Nodes
  BY <1>1, CellFacts
<1>3. /\ Len(f[y]) \in Nat /\ Cell(y, f[y], 0) = y
      /\ \A k \in 1 .. Len(f[y]) : Cell(y, f[y], k) = f[y][k] /\ f[y][k] \in Nodes
  BY <1>1, CellFacts
<1>4. x \notin Nodes /\ y \notin Nodes
  BY CellsAssumption
<1>5. CASE a # 0 /\ b # 0
  BY <1>2, <1>3, <1>5 DEF Apart
<1>6. CASE a = 0 \/ b = 0
  BY <1>2, <1>3, <1>4, <1>6
<1> QED BY <1>5, <1>6

(* A cell of a list is none of the piece.                                    *)
LEMMA CellNotOfPiece ==
    ASSUME NEW f, NEW m, Sequences(f, m), Apart(f, m),
           NEW x \in Lists, NEW a \in 0 .. Len(f[x]), NEW b \in 1 .. Len(m)
    PROVE  Cell(x, f[x], a) # m[b] /\ m[b] \in Nodes
<1>1. f[x] \in Seq(Nodes) /\ m \in Seq(Nodes)
  BY DEF Sequences
<1>2. /\ Len(f[x]) \in Nat /\ Cell(x, f[x], 0) = x
      /\ \A k \in 1 .. Len(f[x]) : Cell(x, f[x], k) = f[x][k] /\ f[x][k] \in Nodes
  BY <1>1, CellFacts
<1>3. x \notin Nodes /\ m[b] \in Nodes
  BY <1>1, CellsAssumption
<1> QED BY <1>2, <1>3 DEF Apart

-----------------------------------------------------------------------------
(* f1 is f without the elements i to j of list l, which become the piece m.  *)
IsTaken(f, l, i, j, f1, m) == /\ f1 = [f EXCEPT ![l] = Rest(f[l], i, j)]
                              /\ m = SubSeq(f[l], i, j)

(* The links where the piece was.                                            *)
IsGap(nx, f, l, i, j, nx1) == nx1 = [nx EXCEPT ![Cell(l, f[l], i - 1)] = Cell(l, f[l], j + 1)]

(* Closing the gap takes the elements out of the list.                       *)
LEMMA TakingOut ==
    ASSUME NEW f, NEW nx, Holds(f, << >>, nx),
           NEW l \in Lists, NEW i \in 1 .. Len(f[l]), NEW j \in i .. Len(f[l]),
           NEW f1, NEW m, IsTaken(f, l, i, j, f1, m),
           NEW nx1, IsGap(nx, f, l, i, j, nx1)
    PROVE  Holds(f1, m, nx1) /\ Len(m) = j - i + 1 /\ m[1] = f[l][i] /\ m[Len(m)] = f[l][j]
<1>1. f \in [Lists -> Seq(Nodes)] /\ Apart(f, << >>) /\ Sequences(f, << >>)
      /\ nx \in [Cells -> Cells \cup {Null}] /\ Chained(f, nx) /\ Covered(f, << >>, nx)
  BY DEF Holds, Sequences
<1>2. PICK s \in Seq(Nodes) : s = f[l]
  BY <1>1
<1>3. PICK w : w = j - i + 1
  OBVIOUS
<1>4. PICK n \in Nat : n = Len(s)
  OBVIOUS
<1>5. i \in 1 .. n /\ j \in i .. n /\ w \in 1 .. n /\ i - 1 \in 0 .. n /\ j + 1 = i + w
  BY <1>2, <1>3, <1>4
<1>6. PICK r : r = Rest(s, i, j)
  OBVIOUS
<1>7. /\ r \in Seq(Nodes) /\ Len(r) = n - w
      /\ \A k \in 1 .. i - 1 : r[k] = s[k]
      /\ \A k \in i .. n - w : r[k] = s[k + w]
  <2>1. i \in 1 .. Len(s) /\ j \in i .. Len(s) /\ w = j - i + 1
    BY <1>3, <1>4, <1>5
  <2>2. IsRest(Nodes, r, s, i, w)
    BY <2>1, <1>6, RestOf
  <2> QED BY <2>2, <1>4 DEF IsRest
<1>8. m \in Seq(Nodes) /\ Len(m) = w /\ \A k \in 1 .. w : m[k] = s[k + i - 1]
  <2>1. i \in 1 .. Len(s) + 1 /\ j \in i - 1 .. Len(s)
    BY <1>4, <1>5
  <2> QED BY <2>1, <1>2, <1>3, PieceOf, SMTT(30) DEF IsTaken
<1>9. f1 = [f EXCEPT ![l] = r] /\ f1[l] = r /\ \A x \in Lists \ {l} : f1[x] = f[x]
  BY <1>1, <1>2, <1>6 DEF IsTaken
<1>10. Sequences(f1, m)
  BY <1>1, <1>7, <1>8, <1>9 DEF Sequences
<1>11. m[1] = s[i] /\ m[w] = s[j]
  BY <1>3, <1>5, <1>8
<1>12. Apart(f1, m)
  <2>1. ASSUME NEW x \in Lists, NEW a \in 1 .. Len(f1[x])
        PROVE  \E c \in 1 .. Len(f[x]) : /\ f1[x][a] = f[x][c]
                                         /\ x # l => c = a
                                         /\ x = l => c = IF a < i THEN a ELSE a + w
    <3>1. CASE x # l
      BY <3>1, <1>9
    <3>2. CASE x = l
      <4>1. a \in 1 .. n - w
        BY <3>2, <1>7, <1>9
      <4>2. CASE a < i
        BY <4>1, <4>2, <3>2, <1>2, <1>4, <1>5, <1>7, <1>9, SMTT(30)
      <4>3. CASE a >= i
        <5>1. a \in i .. n - w /\ a + w \in 1 .. n /\ ~(a < i)
          BY <4>1, <4>3, <1>5
        <5> QED BY <5>1, <3>2, <1>2, <1>4, <1>7, <1>9
      <4> QED BY <4>1, <4>2, <4>3, <1>5
    <3> QED BY <3>1, <3>2
  <2>2. ASSUME NEW x \in Lists, NEW y \in Lists, NEW a \in 1 .. Len(f1[x]), NEW b \in 1 .. Len(f1[y]),
               f1[x][a] = f1[y][b]
        PROVE  x = y /\ a = b
    <3>1. PICK c \in 1 .. Len(f[x]) : /\ f1[x][a] = f[x][c]
                                      /\ x # l => c = a
                                      /\ x = l => c = IF a < i THEN a ELSE a + w
      BY <2>1
    <3>2. PICK d \in 1 .. Len(f[y]) : /\ f1[y][b] = f[y][d]
                                      /\ y # l => d = b
                                      /\ y = l => d = IF b < i THEN b ELSE b + w
      BY <2>1
    <3>3. x = y /\ c = d
      <4>1. f[x][c] = f[y][d]
        BY <3>1, <3>2, <2>2
      <4> QED BY <4>1, <1>1 DEF Apart
    <3>4. a \in Int /\ b \in Int
      BY <1>10 DEF Sequences
    <3> QED BY <3>1, <3>2, <3>3, <3>4, <1>5
  <2>3. ASSUME NEW a \in 1 .. Len(m), NEW b \in 1 .. Len(m), m[a] = m[b] PROVE a = b
    <3>1. a \in 1 .. w /\ b \in 1 .. w /\ a + i - 1 \in 1 .. Len(f[l]) /\ b + i - 1 \in 1 .. Len(f[l])
      BY <1>2, <1>3, <1>4, <1>5, <1>8
    <3>2. f[l][a + i - 1] = f[l][b + i - 1]
      BY <3>1, <2>3, <1>2, <1>8
    <3>3. PICK p, q : p = a + i - 1 /\ q = b + i - 1
      OBVIOUS
    <3>4. p \in 1 .. Len(f[l]) /\ q \in 1 .. Len(f[l]) /\ f[l][p] = f[l][q]
      BY <3>1, <3>2, <3>3
    <3>5. \A x, y \in Lists : \A c \in 1 .. Len(f[x]), d \in 1 .. Len(f[y]) :
             f[x][c] = f[y][d] => x = y /\ c = d
      BY <1>1, Zenon DEF Apart
    <3>6. p = q
      BY <3>4, <3>5
    <3> QED BY <3>1, <3>3, <3>6, <1>5
  <2>4. ASSUME NEW x \in Lists, NEW a \in 1 .. Len(f1[x]), NEW b \in 1 .. Len(m), f1[x][a] = m[b]
        PROVE  FALSE
    <3>1. PICK c \in 1 .. Len(f[x]) : /\ f1[x][a] = f[x][c]
                                      /\ x # l => c = a
                                      /\ x = l => c = IF a < i THEN a ELSE a + w
      BY <2>1
    <3>2. b \in 1 .. w /\ b + i - 1 \in 1 .. Len(f[l]) /\ m[b] = f[l][b + i - 1]
      BY <1>2, <1>3, <1>4, <1>5, <1>8
    <3>3. x = l /\ c = b + i - 1
      <4>1. f[x][c] = f[l][b + i - 1]
        BY <3>1, <3>2, <2>4
      <4> QED BY <4>1, <3>2, <1>1 DEF Apart
    <3>4. a \in Int
      BY <1>10 DEF Sequences
    <3> QED BY <3>1, <3>2, <3>3, <3>4, <1>5
  <2> QED BY <2>2, <2>3, <2>4 DEF Apart
<1>13. nx1 \in [Cells -> Cells \cup {Null}]
  BY <1>1, <1>2, CellFacts DEF IsGap
<1>14. /\ nx1[Cell(l, s, i - 1)] = Cell(l, s, j + 1)
       /\ \A c \in Cells : c # Cell(l, s, i - 1) => nx1[c] = nx[c]
  BY <1>1, <1>2, CellFacts DEF IsGap
<1>15. ASSUME NEW x \in Lists, NEW a \in 0 .. Len(f[x]), x # l \/ a # i - 1
       PROVE  nx1[Cell(x, f[x], a)] = Cell(x, f[x], a + 1)
  <2>1. Cell(x, f[x], a) # Cell(l, f[l], i - 1)
    <3>1. i - 1 \in 0 .. Len(f[l])
      BY <1>2, <1>4, <1>5
    <3> QED BY <3>1, <1>1, <1>15, CellsApart
  <2>2. Cell(x, f[x], a) \in Cells
    BY <1>1, CellFacts
  <2> QED BY <2>1, <2>2, <1>1, <1>2, <1>14 DEF Chained
<1>16. /\ \A k \in 0 .. i - 1 : Cell(l, r, k) = Cell(l, s, k)
       /\ \A k \in i .. n - w + 1 : Cell(l, r, k) = Cell(l, s, k + w)
  <2>1. ASSUME NEW k \in 0 .. i - 1 PROVE Cell(l, r, k) = Cell(l, s, k)
    <3>1. CASE k = 0
      BY <3>1, <1>2, <1>7, CellFacts
    <3>2. CASE k # 0
      <4>1. k \in 1 .. i - 1 /\ k \in 1 .. Len(r) /\ k \in 1 .. Len(s)
        BY <3>2, <1>4, <1>5, <1>7
      <4> QED BY <4>1, <1>7 DEF Cell
    <3> QED BY <3>1, <3>2
  <2>2. ASSUME NEW k \in i .. n - w + 1 PROVE Cell(l, r, k) = Cell(l, s, k + w)
    <3>1. CASE k \in i .. n - w
      <4>1. k \in 1 .. Len(r) /\ k + w \in 1 .. Len(s)
        BY <3>1, <1>4, <1>5, <1>7
      <4> QED BY <3>1, <4>1, <1>7 DEF Cell
    <3>2. CASE k = n - w + 1
      <4>1. k = Len(r) + 1 /\ k + w = Len(s) + 1
        BY <3>2, <1>4, <1>5, <1>7
      <4>2. Cell(l, r, Len(r) + 1) = l /\ Cell(l, s, Len(s) + 1) = l
        BY <1>2, <1>7, CellFacts
      <4> QED BY <4>1, <4>2
    <3> QED BY <3>1, <3>2, <1>5
  <2> QED BY <2>1, <2>2
<1>17. Chained(f1, nx1)
  <2> SUFFICES ASSUME NEW x \in Lists, NEW k \in 0 .. Len(f1[x])
               PROVE  nx1[Cell(x, f1[x], k)] = Cell(x, f1[x], k + 1)
    BY DEF Chained
  <2>1. CASE x # l
    BY <2>1, <1>9, <1>15
  <2>2. CASE x = l
    <3>0. k \in 0 .. n - w /\ f1[x] = r
      BY <2>2, <1>7, <1>9
    <3>1. CASE k < i - 1
      <4>1. k \in 0 .. i - 1 /\ k + 1 \in 0 .. i - 1 /\ k \in 0 .. Len(f[l]) /\ k # i - 1
        BY <3>0, <3>1, <1>2, <1>4, <1>5
      <4>2. nx1[Cell(l, s, k)] = Cell(l, s, k + 1)
        BY <4>1, <1>2, <1>15
      <4> QED BY <4>1, <4>2, <3>0, <2>2, <1>16
    <3>2. CASE k = i - 1
      <4>1. k \in 0 .. i - 1 /\ k + 1 \in i .. n - w + 1 /\ (k + 1) + w = j + 1
        BY <3>0, <3>2, <1>5
      <4> QED BY <4>1, <3>0, <3>2, <2>2, <1>14, <1>16
    <3>3. CASE k > i - 1
      <4>1. /\ k \in i .. n - w + 1 /\ k + 1 \in i .. n - w + 1 /\ k + w \in 0 .. Len(f[l])
            /\ k + w # i - 1 /\ (k + 1) + w = (k + w) + 1
        <5>1. k \in i .. n - w /\ Len(f[l]) = n
          BY <3>0, <3>3, <1>2, <1>4, <1>5
        <5>2. k + w \in i + w .. n /\ i - 1 < i + w
          BY <5>1, <1>5
        <5> QED BY <5>1, <5>2, <1>5
      <4>2. nx1[Cell(l, s, k + w)] = Cell(l, s, (k + w) + 1)
        BY <4>1, <1>2, <1>15
      <4> QED BY <4>1, <4>2, <3>0, <2>2, <1>16
    <3> QED BY <3>0, <3>1, <3>2, <3>3, <1>5
  <2> QED BY <2>1, <2>2
<1>18. ChainedPiece(m, nx1)
  <2> SUFFICES ASSUME NEW k \in 1 .. Len(m) - 1 PROVE nx1[m[k]] = m[k + 1]
    BY DEF ChainedPiece
  <2>1. PICK h : h = k + i - 1
    OBVIOUS
  <2>2. /\ k \in 1 .. w /\ k + 1 \in 1 .. w /\ (k + 1) + i - 1 = h + 1 /\ h \in 1 .. n
        /\ h + 1 \in 1 .. n /\ h # i - 1
    BY <2>1, <1>3, <1>5, <1>8
  <2>3. m[k] = s[h] /\ m[k + 1] = s[h + 1]
    BY <2>1, <2>2, <1>8
  <2>4. Cell(l, s, h) = s[h] /\ Cell(l, s, h + 1) = s[h + 1]
    BY <2>2, <1>4 DEF Cell
  <2>5. nx1[Cell(l, s, h)] = Cell(l, s, h + 1)
    BY <2>2, <1>2, <1>4, <1>15
  <2> QED BY <2>3, <2>4, <2>5
<1>19. Covered(f1, m, nx1)
  <2> SUFFICES ASSUME NEW c \in Nodes, nx1[c] # Null
               PROVE  \/ \E x \in Lists : \E k \in 1 .. Len(f1[x]) : c = f1[x][k]
                      \/ \E k \in 1 .. Len(m) : c = m[k]
    BY DEF Covered
  <2>0. PICK x \in Lists : \E k \in 1 .. Len(f[x]) : c = f[x][k]
    <3>1. CASE nx[c] # Null
      BY <3>1, <1>1 DEF Covered
    <3>2. CASE c = Cell(l, s, i - 1)
      <4>1. i # 1
        BY <3>2, <1>2, CellFacts, CellsAssumption
      <4>2. i - 1 \in 1 .. Len(s)
        BY <4>1, <1>4, <1>5
      <4> QED BY <3>2, <4>2, <1>2, CellFacts
    <3> QED BY <3>1, <3>2, <1>14 DEF Cells
  <2>1. PICK k \in 1 .. Len(f[x]) : c = f[x][k]
    BY <2>0
  <2>2. CASE x # l
    BY <2>1, <2>2, <1>9
  <2>3. CASE x = l
    <3>0. k \in 1 .. n /\ c = s[k]
      BY <2>1, <2>3, <1>2, <1>4
    <3>1. CASE k < i
      <4>1. k \in 1 .. i - 1 /\ k \in 1 .. Len(r)
        BY <3>0, <3>1, <1>3, <1>5, <1>7
      <4> QED BY <4>1, <3>0, <1>7, <1>9
    <3>2. CASE k >= i /\ k <= j
      <4>1. PICK h : h = k - i + 1
        OBVIOUS
      <4>2. h \in 1 .. w /\ h + i - 1 = k
        BY <4>1, <3>0, <3>2, <1>3, <1>5
      <4> QED BY <4>2, <3>0, <1>8
    <3>3. CASE k > j
      <4>1. PICK h : h = k - w
        OBVIOUS
      <4>2. h \in i .. n - w /\ h + w = k /\ h \in 1 .. Len(r)
        BY <4>1, <3>0, <3>3, <1>3, <1>5, <1>7
      <4> QED BY <4>2, <3>0, <1>7, <1>9
    <3> QED BY <3>0, <3>1, <3>2, <3>3, <1>5
  <2> QED BY <2>2, <2>3
<1> QED BY <1>2, <1>3, <1>8, <1>10, <1>11, <1>12, <1>13, <1>17, <1>18, <1>19 DEF Holds

(* f2 is f with the piece m behind the first p elements of list l.           *)
IsPut(f, l, p, m, f2) == f2 = [f EXCEPT ![l] = With(f[l], p, m)]

(* The links to and from the piece put it into the list.                     *)
LEMMA PuttingIn ==
    ASSUME NEW f, NEW m, NEW nx, Holds(f, m, nx), Len(m) > 0,
           NEW l \in Lists, NEW p \in 0 .. Len(f[l]), NEW f2, IsPut(f, l, p, m, f2),
           NEW nx2, nx2 = [nx EXCEPT ![Cell(l, f[l], p)] = m[1],
                                     ![m[Len(m)]] = Cell(l, f[l], p + 1)]
    PROVE  Holds(f2, << >>, nx2)
<1>1. /\ f \in [Lists -> Seq(Nodes)] /\ m \in Seq(Nodes) /\ Apart(f, m) /\ Sequences(f, m)
      /\ nx \in [Cells -> Cells \cup {Null}] /\ Chained(f, nx) /\ ChainedPiece(m, nx)
      /\ Covered(f, m, nx)
  BY DEF Holds, Sequences
<1>2. PICK s \in Seq(Nodes) : s = f[l]
  BY <1>1
<1>3. PICK n \in Nat : n = Len(s)
  OBVIOUS
<1>4. PICK w \in Nat : w = Len(m)
  BY <1>1
<1>5. p \in 0 .. n /\ w >= 1
  BY <1>2, <1>3, <1>4
<1>6. PICK r : r = With(s, p, m)
  OBVIOUS
<1>7. /\ r \in Seq(Nodes) /\ Len(r) = n + w
      /\ \A k \in 1 .. p : r[k] = s[k]
      /\ \A k \in p + 1 .. p + w : r[k] = m[k - p]
      /\ \A k \in p + w + 1 .. n + w : r[k] = s[k - w]
  <2>1. p \in 0 .. Len(s) /\ m \in Seq(Nodes)
    BY <1>1, <1>3, <1>5
  <2>2. IsWith(Nodes, r, s, p, m, w)
    BY <2>1, <1>4, <1>6, WithPiece
  <2> QED BY <2>2, <1>3 DEF IsWith
<1>8. f2[l] = r /\ \A x \in Lists \ {l} : f2[x] = f[x]
  BY <1>1, <1>2, <1>6 DEF IsPut
<1>9. f2 \in [Lists -> Seq(Nodes)]
  BY <1>1, <1>2, <1>6, <1>7 DEF IsPut
<1>10. Sequences(f2, << >>)
  BY <1>9 DEF Sequences
<1>11. ASSUME NEW x \in Lists, NEW a \in 1 .. Len(f2[x])
       PROVE  \/ \E c \in 1 .. Len(f[x]) : /\ f2[x][a] = f[x][c]
                                           /\ x # l => c = a
                                           /\ x = l => c = IF a <= p THEN a ELSE a - w
                                           /\ x = l => a <= p \/ a > p + w
              \/ /\ x = l
                 /\ \E c \in 1 .. w : f2[x][a] = m[c] /\ a = c + p
  <2>1. CASE x # l
    BY <2>1, <1>8
  <2>2. CASE x = l
    <3>1. a \in 1 .. n + w /\ f2[x] = r /\ f[x] = s
      BY <2>2, <1>2, <1>7, <1>8
    <3>2. CASE a <= p
      <4>1. a \in 1 .. p /\ a \in 1 .. Len(s)
        BY <3>1, <3>2, <1>3, <1>5
      <4> QED BY <4>1, <3>1, <3>2, <2>2, <1>7
    <3>3. CASE a > p /\ a <= p + w
      <4>1. a - p \in 1 .. w /\ a \in p + 1 .. p + w /\ a = (a - p) + p
        BY <3>1, <3>3, <1>5
      <4>2. f2[x][a] = m[a - p]
        BY <4>1, <3>1, <1>7
      <4> QED BY <4>1, <4>2, <2>2
    <3>4. CASE a > p + w
      <4>1. a - w \in 1 .. Len(s) /\ a \in p + w + 1 .. n + w /\ ~(a <= p)
        BY <3>1, <3>4, <1>3, <1>5
      <4> QED BY <4>1, <3>1, <3>4, <2>2, <1>7
    <3> QED BY <3>1, <3>2, <3>3, <3>4, <1>5
  <2> QED BY <2>1, <2>2
<1>12. Apart(f2, << >>)
  <2>1. SUFFICES ASSUME NEW x \in Lists, NEW y \in Lists,
                        NEW a \in 1 .. Len(f2[x]), NEW b \in 1 .. Len(f2[y]),
                        f2[x][a] = f2[y][b]
                 PROVE  x = y /\ a = b
    BY DEF Apart
  <2>2. a \in Int /\ b \in Int
    BY <1>9
  <2>3. CASE /\ \E c \in 1 .. Len(f[x]) : /\ f2[x][a] = f[x][c]
                                          /\ x # l => c = a
                                          /\ x = l => c = IF a <= p THEN a ELSE a - w
                                          /\ x = l => a <= p \/ a > p + w
             /\ \E c \in 1 .. Len(f[y]) : /\ f2[y][b] = f[y][c]
                                          /\ y # l => c = b
                                          /\ y = l => c = IF b <= p THEN b ELSE b - w
                                          /\ y = l => b <= p \/ b > p + w
    <3>1. PICK c \in 1 .. Len(f[x]) : /\ f2[x][a] = f[x][c]
                                      /\ x # l => c = a
                                      /\ x = l => c = IF a <= p THEN a ELSE a - w
                                      /\ x = l => a <= p \/ a > p + w
      BY <2>3
    <3>2. PICK d \in 1 .. Len(f[y]) : /\ f2[y][b] = f[y][d]
                                      /\ y # l => d = b
                                      /\ y = l => d = IF b <= p THEN b ELSE b - w
                                      /\ y = l => b <= p \/ b > p + w
      BY <2>3
    <3>3. f[x][c] = f[y][d]
      BY <2>1, <3>1, <3>2
    <3>4. x = y /\ c = d
      BY <3>3, <1>1 DEF Apart
    <3> QED BY <3>1, <3>2, <3>4, <2>2, <1>5
  <2>4. CASE /\ x = l /\ y = l
             /\ \E c \in 1 .. w : f2[x][a] = m[c] /\ a = c + p
             /\ \E c \in 1 .. w : f2[y][b] = m[c] /\ b = c + p
    BY <2>1, <2>4, <1>1, <1>4 DEF Apart
  <2>5. CASE /\ \E c \in 1 .. Len(f[x]) : f2[x][a] = f[x][c]
             /\ \E c \in 1 .. w : f2[y][b] = m[c]
    <3>1. PICK c \in 1 .. Len(f[x]) : f2[x][a] = f[x][c]
      BY <2>5
    <3>2. PICK d \in 1 .. Len(m) : f2[y][b] = m[d]
      BY <2>5, <1>4
    <3>3. f[x][c] # m[d]
      BY <1>1 DEF Apart
    <3> QED BY <2>1, <3>1, <3>2, <3>3
  <2>6. CASE /\ \E c \in 1 .. Len(f[y]) : f2[y][b] = f[y][c]
             /\ \E c \in 1 .. w : f2[x][a] = m[c]
    <3>1. PICK c \in 1 .. Len(f[y]) : f2[y][b] = f[y][c]
      BY <2>6
    <3>2. PICK d \in 1 .. Len(m) : f2[x][a] = m[d]
      BY <2>6, <1>4
    <3>3. f[y][c] # m[d]
      BY <1>1 DEF Apart
    <3> QED BY <2>1, <3>1, <3>2, <3>3
  <2>7. \/ \E c \in 1 .. Len(f[x]) : /\ f2[x][a] = f[x][c]
                                     /\ x # l => c = a
                                     /\ x = l => c = IF a <= p THEN a ELSE a - w
                                     /\ x = l => a <= p \/ a > p + w
        \/ x = l /\ \E c \in 1 .. w : f2[x][a] = m[c] /\ a = c + p
    BY <1>11
  <2>8. \/ \E c \in 1 .. Len(f[y]) : /\ f2[y][b] = f[y][c]
                                     /\ y # l => c = b
                                     /\ y = l => c = IF b <= p THEN b ELSE b - w
                                     /\ y = l => b <= p \/ b > p + w
        \/ y = l /\ \E c \in 1 .. w : f2[y][b] = m[c] /\ b = c + p
    BY <1>11
  <2> QED BY <2>3, <2>4, <2>5, <2>6, <2>7, <2>8, Zenon
<1>13. /\ Cell(l, s, p) \in Cells /\ Cell(l, s, p + 1) \in Cells
       /\ m[1] \in Nodes /\ m[w] \in Nodes /\ m[w] # Cell(l, s, p)
  <2>1. 1 \in 1 .. Len(m) /\ w \in 1 .. Len(m) /\ p \in 0 .. Len(f[l])
    BY <1>4, <1>5
  <2> QED BY <2>1, <1>1, <1>2, CellFacts, CellNotOfPiece
<1>14. /\ nx2 \in [Cells -> Cells \cup {Null}]
       /\ nx2[Cell(l, s, p)] = m[1] /\ nx2[m[w]] = Cell(l, s, p + 1)
       /\ \A c \in Cells : c # Cell(l, s, p) /\ c # m[w] => nx2[c] = nx[c]
  BY <1>1, <1>2, <1>4, <1>13 DEF Cells
<1>15. ASSUME NEW x \in Lists, NEW a \in 0 .. Len(f[x]), x # l \/ a # p
       PROVE  nx2[Cell(x, f[x], a)] = Cell(x, f[x], a + 1)
  <2>1. Cell(x, f[x], a) # Cell(l, f[l], p)
    BY <1>1, <1>15, CellsApart
  <2>2. Cell(x, f[x], a) \in Cells
    BY <1>1, CellFacts
  <2>3. Cell(x, f[x], a) # m[w]
    <3>1. w \in 1 .. Len(m)
      BY <1>4, <1>5
    <3> QED BY <3>1, <1>1, CellNotOfPiece
  <2> QED BY <2>1, <2>2, <2>3, <1>1, <1>2, <1>14 DEF Chained
<1>16. /\ \A k \in 0 .. p : Cell(l, r, k) = Cell(l, s, k)
       /\ \A k \in p + 1 .. p + w : Cell(l, r, k) = m[k - p]
       /\ \A k \in p + w + 1 .. n + w + 1 : Cell(l, r, k) = Cell(l, s, k - w)
  <2>1. ASSUME NEW k \in 0 .. p PROVE Cell(l, r, k) = Cell(l, s, k)
    BY <1>3, <1>5, <1>7 DEF Cell
  <2>2. ASSUME NEW k \in p + 1 .. p + w PROVE Cell(l, r, k) = m[k - p]
    <3>1. k \in 1 .. n + w
      BY <1>5
    <3> QED BY <3>1, <1>7 DEF Cell
  <2>3. ASSUME NEW k \in p + w + 1 .. n + w + 1 PROVE Cell(l, r, k) = Cell(l, s, k - w)
    <3>1. CASE k \in p + w + 1 .. n + w
      <4>1. k \in 1 .. n + w /\ k - w \in 1 .. n
        BY <3>1, <1>5
      <4> QED BY <4>1, <3>1, <1>3, <1>7 DEF Cell
    <3>2. CASE k = n + w + 1
      BY <3>2, <1>3, <1>5, <1>7 DEF Cell
    <3> QED BY <3>1, <3>2, <1>5
  <2> QED BY <2>1, <2>2, <2>3
<1>17. Chained(f2, nx2)
  <2> SUFFICES ASSUME NEW x \in Lists, NEW k \in 0 .. Len(f2[x])
               PROVE  nx2[Cell(x, f2[x], k)] = Cell(x, f2[x], k + 1)
    BY DEF Chained
  <2>1. CASE x # l
    BY <2>1, <1>8, <1>15
  <2>2. CASE x = l
    <3>0. k \in 0 .. n + w /\ f2[x] = r
      BY <2>2, <1>7, <1>8
    <3>1. CASE k < p
      <4>1. k \in 0 .. p /\ k + 1 \in 0 .. p /\ k \in 0 .. Len(f[l]) /\ k # p
        BY <3>0, <3>1, <1>2, <1>3, <1>5
      <4>2. nx2[Cell(l, s, k)] = Cell(l, s, k + 1)
        BY <4>1, <1>2, <1>15
      <4> QED BY <4>1, <4>2, <3>0, <2>2, <1>16
    <3>2. CASE k = p
      <4>1. k \in 0 .. p /\ k + 1 \in p + 1 .. p + w /\ (k + 1) - p = 1
        BY <3>0, <3>2, <1>5
      <4> QED BY <4>1, <3>0, <3>2, <2>2, <1>14, <1>16
    <3>3. CASE k > p /\ k < p + w
      <4>1. PICK h : h = k - p
        OBVIOUS
      <4>2. /\ h \in 1 .. w /\ h + 1 \in 1 .. w /\ (k + 1) - p = h + 1 /\ h # w /\ h \in 1 .. w - 1
            /\ k \in p + 1 .. p + w /\ k + 1 \in p + 1 .. p + w
        BY <4>1, <3>0, <3>3, <1>5
      <4>3. m[h] \in Nodes /\ m[h] # m[w] /\ m[h] # Cell(l, s, p)
        <5>1. h \in 1 .. Len(m) /\ w \in 1 .. Len(m) /\ p \in 0 .. Len(f[l])
          BY <4>2, <1>4, <1>5
        <5>2. m[h] # m[w]
          BY <4>2, <5>1, <1>1 DEF Apart
        <5> QED BY <5>1, <5>2, <1>1, <1>2, CellNotOfPiece
      <4>4. nx2[m[h]] = m[h + 1]
        BY <4>2, <4>3, <1>1, <1>4, <1>14 DEF ChainedPiece, Cells
      <4>5. Cell(l, r, k) = m[h] /\ Cell(l, r, k + 1) = m[h + 1]
        BY <4>1, <4>2, <1>16
      <4> QED BY <4>4, <4>5, <3>0, <2>2
    <3>4. CASE k = p + w
      <4>1. /\ k \in p + 1 .. p + w /\ k - p = w /\ k + 1 \in p + w + 1 .. n + w + 1
            /\ (k + 1) - w = p + 1
        BY <3>0, <3>4, <1>5
      <4>2. Cell(l, r, k) = m[w] /\ Cell(l, r, k + 1) = Cell(l, s, p + 1)
        BY <4>1, <1>16
      <4> QED BY <4>2, <3>0, <2>2, <1>14
    <3>5. CASE k > p + w
      <4>1. PICK h : h = k - w
        OBVIOUS
      <4>2. /\ h \in 0 .. n /\ h # p /\ (k + 1) - w = h + 1
            /\ k \in p + w + 1 .. n + w + 1 /\ k + 1 \in p + w + 1 .. n + w + 1
        BY <4>1, <3>0, <3>5, <1>5
      <4>3. h \in 0 .. Len(f[l])
        BY <4>2, <1>2, <1>3
      <4>4. nx2[Cell(l, s, h)] = Cell(l, s, h + 1)
        BY <4>2, <4>3, <1>2, <1>15
      <4>5. Cell(l, r, k) = Cell(l, s, h) /\ Cell(l, r, k + 1) = Cell(l, s, h + 1)
        BY <4>1, <4>2, <1>16
      <4>6. nx2[Cell(l, r, k)] = Cell(l, r, k + 1)
        BY <4>4, <4>5
      <4> QED BY <4>6, <3>0, <2>2
    <3>6. k < p \/ k = p \/ (k > p /\ k < p + w) \/ k = p + w \/ k > p + w
      BY <3>0, <1>5
    <3> QED BY <3>1, <3>2, <3>3, <3>4, <3>5, <3>6
  <2> QED BY <2>1, <2>2
<1>18. ChainedPiece(<< >>, nx2)
  BY DEF ChainedPiece
<1>19. ASSUME NEW x \in Lists, NEW a \in 1 .. Len(f[x])
       PROVE  \E k \in 1 .. Len(f2[x]) : f[x][a] = f2[x][k]
  <2>1. CASE x # l
    BY <2>1, <1>8
  <2>2. CASE x = l
    <3>0. a \in 1 .. n /\ f2[x] = r /\ f[x] = s
      BY <2>2, <1>2, <1>3, <1>8
    <3>1. CASE a <= p
      <4>1. a \in 1 .. p /\ a \in 1 .. Len(r)
        BY <3>0, <3>1, <1>5, <1>7
      <4> QED BY <4>1, <3>0, <1>7
    <3>2. CASE a > p
      <4>1. PICK h : h = a + w
        OBVIOUS
      <4>2. h \in p + w + 1 .. n + w /\ h \in 1 .. Len(r) /\ h - w = a
        BY <4>1, <3>0, <3>2, <1>5, <1>7
      <4> QED BY <4>2, <3>0, <1>7
    <3> QED BY <3>0, <3>1, <3>2, <1>5
  <2> QED BY <2>1, <2>2
<1>20. ASSUME NEW a \in 1 .. Len(m)
       PROVE  \E k \in 1 .. Len(f2[l]) : m[a] = f2[l][k]
  <2>1. PICK h : h = a + p
    OBVIOUS
  <2>2. h \in p + 1 .. p + w /\ h - p = a /\ h \in 1 .. Len(r)
    BY <2>1, <1>4, <1>5, <1>7
  <2> QED BY <2>2, <1>7, <1>8
<1>21. Covered(f2, << >>, nx2)
  <2> SUFFICES ASSUME NEW c \in Nodes, nx2[c] # Null
               PROVE  \E x \in Lists : \E k \in 1 .. Len(f2[x]) : c = f2[x][k]
    BY DEF Covered
  <2>1. CASE nx[c] # Null
    <3>1. \/ \E x \in Lists : \E k \in 1 .. Len(f[x]) : c = f[x][k]
          \/ \E k \in 1 .. Len(m) : c = m[k]
      BY <2>1, <1>1 DEF Covered
    <3>2. CASE \E x \in Lists : \E k \in 1 .. Len(f[x]) : c = f[x][k]
      <4>1. PICK x \in Lists : \E k \in 1 .. Len(f[x]) : c = f[x][k]
        BY <3>2
      <4>2. PICK k \in 1 .. Len(f[x]) : c = f[x][k]
        BY <4>1
      <4> QED BY <4>2, <1>19
    <3>3. CASE \E k \in 1 .. Len(m) : c = m[k]
      BY <3>3, <1>20
    <3> QED BY <3>1, <3>2, <3>3
  <2>2. CASE c = Cell(l, s, p)
    <3>1. p # 0
      BY <2>2, <1>2, CellFacts, CellsAssumption
    <3>2. p \in 1 .. Len(f[l]) /\ c = f[l][p]
      BY <3>1, <2>2, <1>2, <1>3, <1>5, CellFacts
    <3> QED BY <3>2, <1>19
  <2>3. CASE c = m[w]
    <3>1. w \in 1 .. Len(m)
      BY <1>4, <1>5
    <3> QED BY <3>1, <2>3, <1>20
  <2> QED BY <2>1, <2>2, <2>3, <1>14 DEF Cells
<1> QED BY <1>10, <1>12, <1>14, <1>17, <1>18, <1>21 DEF Holds

(* A piece of one node that is unlinked is gone, one that is not linked yet  *)
(* is a piece.                                                               *)
LEMMA PieceOfOne ==
    ASSUME NEW f, NEW nx, NEW n \in Nodes, NEW nx0, nx0 = [nx EXCEPT ![n] = Null]
    PROVE  /\ Holds(f, <<n>>, nx) => Holds(f, << >>, nx0)
           /\ Holds(f, << >>, nx) /\ nx[n] = Null => Holds(f, <<n>>, nx)
<1>1. ASSUME Holds(f, <<n>>, nx) PROVE Holds(f, << >>, nx0)
  <2>1. /\ f \in [Lists -> Seq(Nodes)] /\ Apart(f, <<n>>) /\ Sequences(f, <<n>>)
        /\ nx \in [Cells -> Cells \cup {Null}] /\ Chained(f, nx) /\ Covered(f, <<n>>, nx)
    BY <1>1 DEF Holds, Sequences
  <2>2. Sequences(f, << >>) /\ ChainedPiece(<< >>, nx0) /\ Apart(f, << >>)
    BY <2>1 DEF Sequences, ChainedPiece, Apart
  <2>3. nx0 \in [Cells -> Cells \cup {Null}] /\ nx0[n] = Null /\ \A c \in Cells \ {n} : nx0[c] = nx[c]
    BY <2>1 DEF Cells
  <2>4. Chained(f, nx0)
    <3> SUFFICES ASSUME NEW x \in Lists, NEW k \in 0 .. Len(f[x])
                 PROVE  nx0[Cell(x, f[x], k)] = Cell(x, f[x], k + 1)
      BY DEF Chained
    <3>1. Cell(x, f[x], k) \in Cells
      BY <2>1, CellFacts
    <3>2. Cell(x, f[x], k) # n
      <4>1. 1 \in 1 .. Len(<<n>>) /\ <<n>>[1] = n
        OBVIOUS
      <4>2. Cell(x, f[x], k) # <<n>>[1]
        BY <2>1, <4>1, CellNotOfPiece
      <4> QED BY <4>1, <4>2
    <3> QED BY <2>1, <2>3, <3>1, <3>2 DEF Chained
  <2>5. Covered(f, << >>, nx0)
    <3> SUFFICES ASSUME NEW c \in Nodes, nx0[c] # Null
                 PROVE  \E x \in Lists : \E k \in 1 .. Len(f[x]) : c = f[x][k]
      BY DEF Covered
    <3>1. c # n /\ nx[c] # Null
      BY <2>3 DEF Cells
    <3>2. ~\E k \in 1 .. Len(<<n>>) : c = <<n>>[k]
      BY <3>1
    <3> QED BY <2>1, <3>1, <3>2 DEF Covered
  <2> QED BY <2>2, <2>3, <2>4, <2>5 DEF Holds
<1>2. ASSUME Holds(f, << >>, nx), nx[n] = Null PROVE Holds(f, <<n>>, nx)
  <2>1. /\ f \in [Lists -> Seq(Nodes)] /\ Apart(f, << >>) /\ Sequences(f, << >>)
        /\ nx \in [Cells -> Cells \cup {Null}] /\ Chained(f, nx) /\ Covered(f, << >>, nx)
    BY <1>2 DEF Holds, Sequences
  <2>2. Sequences(f, <<n>>) /\ ChainedPiece(<<n>>, nx)
    BY <2>1 DEF Sequences, ChainedPiece
  <2>3. \A x \in Lists : \A a \in 1 .. Len(f[x]) : f[x][a] # n
    <3> SUFFICES ASSUME NEW x \in Lists, NEW a \in 1 .. Len(f[x]), f[x][a] = n PROVE FALSE
      OBVIOUS
    <3>1. Cell(x, f[x], a) = n /\ a \in 0 .. Len(f[x]) /\ Cell(x, f[x], a + 1) \in Cells
      BY <2>1, CellFacts
    <3>2. nx[n] \in Cells
      BY <2>1, <3>1 DEF Chained
    <3> QED BY <1>2, <3>2, CellsAssumption
  <2>4. Apart(f, <<n>>)
    BY <2>1, <2>3 DEF Apart
  <2>5. Covered(f, <<n>>, nx)
    BY <2>1 DEF Covered
  <2> QED BY <2>1, <2>2, <2>4, <2>5 DEF Holds
<1> QED BY <1>1, <1>2

-----------------------------------------------------------------------------
(* m_next and m_prev as two functions, and the nodes that are allocated.     *)
Types(nx, pv, al) == /\ nx \in [Cells -> Cells \cup {Null}]
                     /\ pv \in [Cells -> Cells \cup {Null}]
                     /\ al \subseteq Nodes

Mutual(nx, pv, al) ==
    /\ \A c \in Cells : nx[c] # Null => /\ nx[c] \in Lists \cup al /\ pv[nx[c]] = c
                                        /\ pv[c] \in Lists \cup al /\ nx[pv[c]] = c
    /\ \A c \in Cells : nx[c] = Null => pv[c] = Null
    /\ \A c \in Cells : nx[c] # Null => c \in Lists \cup al

IsInsert(nx, pv, point, n, nx2, pv2) ==
    /\ nx2 = [nx EXCEPT ![pv[point]] = n, ![n] = point]
    /\ pv2 = [pv EXCEPT ![n] = pv[point], ![point] = n]

IsUnlink(nx, pv, n, nx2, pv2) ==
    /\ pv2 = [pv EXCEPT ![nx[n]] = pv[n], ![n] = Null]
    /\ nx2 = [nx EXCEPT ![pv[n]] = nx[n], ![n] = Null]

IsMove(nx, pv, point, first, last, nx2, pv2) ==
    /\ nx2 = [[nx EXCEPT ![pv[first]] = last]
                 EXCEPT ![[pv EXCEPT ![last] = pv[first]][point]] = first, ![pv[last]] = point]
    /\ pv2 = [[pv EXCEPT ![last] = pv[first]]
                 EXCEPT ![point] = pv[last], ![first] = [pv EXCEPT ![last] = pv[first]][point]]

(* The three ways in which links change keep the links inverse.              *)
LEMMA InsertInverse ==
    ASSUME NEW nx, NEW pv, NEW al, Types(nx, pv, al), Mutual(nx, pv, al),
           NEW n \in Nodes, nx[n] = Null, NEW point \in Cells, nx[point] # Null,
           NEW nx2, NEW pv2, IsInsert(nx, pv, point, n, nx2, pv2)
    PROVE  Types(nx2, pv2, al \cup {n}) /\ Mutual(nx2, pv2, al \cup {n})
<1>1. n \in Cells /\ Null \notin Cells /\ Null \notin Lists \cup al \cup {n} /\ n # point
  BY CellsAssumption DEF Cells, Types
<1>2. pv[point] \in Cells /\ nx[pv[point]] = point /\ pv[point] # n
  BY <1>1 DEF Types, Mutual, Cells
<1>3. /\ nx2 \in [Cells -> Cells \cup {Null}]
      /\ nx2[pv[point]] = n /\ nx2[n] = point
      /\ \A c \in Cells : c # pv[point] /\ c # n => nx2[c] = nx[c]
  BY <1>1, <1>2 DEF IsInsert, Types
<1>4. /\ pv2 \in [Cells -> Cells \cup {Null}]
      /\ pv2[n] = pv[point] /\ pv2[point] = n
      /\ \A c \in Cells : c # point /\ c # n => pv2[c] = pv[c]
  BY <1>1, <1>2 DEF IsInsert, Types
<1>5. Types(nx2, pv2, al \cup {n})
  BY <1>3, <1>4 DEF Types
<1>6. ASSUME NEW c \in Cells, nx2[c] # Null
      PROVE  /\ nx2[c] \in Lists \cup al \cup {n} /\ pv2[nx2[c]] = c
             /\ pv2[c] \in Lists \cup al \cup {n} /\ nx2[pv2[c]] = c
             /\ c \in Lists \cup al \cup {n}
  <2>1. CASE c = n
    BY <2>1, <1>1, <1>2, <1>3, <1>4 DEF Mutual
  <2>2. CASE c = pv[point]
    BY <2>2, <1>1, <1>2, <1>3, <1>4 DEF Mutual, Types
  <2>3. CASE c = point
    BY <2>3, <1>1, <1>2, <1>3, <1>4 DEF Mutual, Types
  <2>4. CASE c # n /\ c # pv[point] /\ c # point
    BY <2>4, <1>6, <1>1, <1>2, <1>3, <1>4 DEF Mutual, Types
  <2> QED BY <2>1, <2>2, <2>3, <2>4
<1>7. ASSUME NEW c \in Cells, nx2[c] = Null PROVE pv2[c] = Null
  BY <1>7, <1>1, <1>2, <1>3, <1>4 DEF Mutual
<1> QED BY <1>5, <1>6, <1>7 DEF Mutual

(* remove keeps the links inverse to each other.                             *)
LEMMA UnlinkInverse ==
    ASSUME NEW nx, NEW pv, NEW al, Types(nx, pv, al), Mutual(nx, pv, al),
           NEW n \in Nodes, nx[n] # Null,
           NEW nx2, NEW pv2, IsUnlink(nx, pv, n, nx2, pv2),
           NEW al2, al2 = al \/ al2 = al \ {n}
    PROVE  Types(nx2, pv2, al2) /\ Mutual(nx2, pv2, al2)
<1>1. /\ n \in Cells /\ Null \notin Cells /\ al \subseteq Nodes /\ Null \notin Lists \cup al
      /\ nx \in [Cells -> Cells \cup {Null}] /\ pv \in [Cells -> Cells \cup {Null}]
  BY CellsAssumption DEF Cells, Types
<1>2. PICK p, q : p = pv[n] /\ q = nx[n]
  OBVIOUS
<1>3. p \in Cells /\ q \in Cells /\ nx[p] = n /\ pv[q] = n
  BY <1>1, <1>2 DEF Types, Mutual, Cells
<1>4. /\ nx2 \in [Cells -> Cells \cup {Null}] /\ nx2[n] = Null
      /\ p # n => nx2[p] = q
      /\ \A c \in Cells : c # p /\ c # n => nx2[c] = nx[c]
  BY <1>1, <1>2, <1>3 DEF IsUnlink
<1>5. /\ pv2 \in [Cells -> Cells \cup {Null}] /\ pv2[n] = Null
      /\ q # n => pv2[q] = p
      /\ \A c \in Cells : c # q /\ c # n => pv2[c] = pv[c]
  BY <1>1, <1>2, <1>3 DEF IsUnlink
<1>6. Types(nx2, pv2, al2)
  BY <1>1, <1>4, <1>5 DEF Types
<1>7. \A c \in Cells : /\ nx[c] # Null => /\ nx[c] \in Lists \cup al /\ pv[nx[c]] = c
                                          /\ pv[c] \in Lists \cup al /\ nx[pv[c]] = c
                                          /\ c \in Lists \cup al
                       /\ nx[c] = Null => pv[c] = Null
  BY DEF Mutual
<1>8. \A c : c # n /\ c \in Lists \cup al => c \in Lists \cup al2
  OBVIOUS
<1>9. ASSUME NEW c \in Cells, nx2[c] # Null
      PROVE  /\ nx2[c] \in Lists \cup al2 /\ pv2[nx2[c]] = c
             /\ pv2[c] \in Lists \cup al2 /\ nx2[pv2[c]] = c
             /\ c \in Lists \cup al2
  <2>0. c # n
    BY <1>4, <1>9
  <2>1. CASE c = p /\ c = q
    BY <2>0, <2>1, <1>1, <1>3, <1>4, <1>5, <1>7, <1>8
  <2>2. CASE c = p /\ c # q
    <3>1. nx2[c] = q /\ q # n /\ pv2[q] = c /\ pv2[c] = pv[c] /\ pv[c] # n /\ pv[c] # p
      BY <2>0, <2>2, <1>1, <1>3, <1>4, <1>5, <1>7
    <3> QED BY <2>0, <2>2, <3>1, <1>1, <1>3, <1>4, <1>7, <1>8 DEF Cells
  <2>3. CASE c # p /\ c = q
    <3>1. nx2[c] = nx[c] /\ nx[c] # n /\ nx[c] # q /\ pv2[c] = p /\ p # n /\ nx2[p] = c
      BY <2>0, <2>3, <1>1, <1>3, <1>4, <1>5, <1>7
    <3> QED BY <2>0, <2>3, <3>1, <1>1, <1>3, <1>5, <1>7, <1>8 DEF Cells
  <2>4. CASE c # p /\ c # q
    <3>1. /\ nx2[c] = nx[c] /\ pv2[c] = pv[c] /\ nx[c] # n /\ nx[c] # q /\ pv[c] # n /\ pv[c] # p
          /\ nx[c] \in Cells /\ pv[c] \in Cells
      BY <2>0, <2>4, <1>1, <1>3, <1>4, <1>5, <1>7, <1>9 DEF Cells
    <3> QED BY <2>0, <2>4, <3>1, <1>1, <1>4, <1>5, <1>7, <1>8, <1>9
  <2> QED BY <2>1, <2>2, <2>3, <2>4
<1>10. ASSUME NEW c \in Cells, nx2[c] = Null PROVE pv2[c] = Null
  <2>1. CASE c = n
    BY <2>1, <1>5
  <2>2. CASE c # n
    <3>1. c # p /\ nx[c] = Null
      BY <1>1, <1>3, <1>4, <1>10, <2>2
    <3>2. c # q /\ pv[c] = Null
      BY <3>1, <1>1, <1>3, <1>7
    <3> QED BY <2>2, <3>2, <1>5
  <2> QED BY <2>1, <2>2
<1> QED BY <1>6, <1>9, <1>10 DEF Mutual

(* moveBefore keeps the links inverse to each other, and what it does to the forward links. *)
LEMMA MoveInverse ==
    ASSUME NEW nx, NEW pv, NEW al, Types(nx, pv, al), Mutual(nx, pv, al),
           NEW point \in Cells, NEW first \in Cells, NEW last \in Cells,
           nx[point] # Null, nx[first] # Null, nx[last] # Null,
           point # first, point # last, first # last,
           NEW nx2, NEW pv2, IsMove(nx, pv, point, first, last, nx2, pv2)
    PROVE  /\ Types(nx2, pv2, al) /\ Mutual(nx2, pv2, al)
           /\ nx2 = [[nx EXCEPT ![pv[first]] = last] EXCEPT ![pv[point]] = first, ![pv[last]] = point]
<1>1. /\ Null \notin Cells /\ Null \notin Lists \cup al /\ al \subseteq Nodes
      /\ nx \in [Cells -> Cells \cup {Null}] /\ pv \in [Cells -> Cells \cup {Null}]
  BY CellsAssumption DEF Cells, Types
<1>2. PICK a, b, d : a = pv[first] /\ b = pv[point] /\ d = pv[last]
  OBVIOUS
<1>3. \A c \in Cells : /\ nx[c] # Null => /\ nx[c] \in Lists \cup al /\ pv[nx[c]] = c
                                          /\ pv[c] \in Lists \cup al /\ nx[pv[c]] = c
                                          /\ c \in Lists \cup al
                                          /\ nx[c] \in Cells /\ pv[c] \in Cells
                       /\ nx[c] = Null => pv[c] = Null
  BY <1>1 DEF Mutual, Cells
<1>4. /\ a \in Cells /\ b \in Cells /\ d \in Cells /\ nx[a] = first /\ nx[b] = point /\ nx[d] = last
      /\ a # b /\ a # d /\ b # d
  BY <1>2, <1>3
<1>5. [pv EXCEPT ![last] = pv[first]][point] = b
  BY <1>1, <1>2
<1>6. nx2 = [[nx EXCEPT ![a] = last] EXCEPT ![b] = first, ![d] = point]
  BY <1>2, <1>5 DEF IsMove
<1>7. pv2 = [[pv EXCEPT ![last] = a] EXCEPT ![point] = d, ![first] = b]
  BY <1>2, <1>5 DEF IsMove
<1>8. /\ nx2 \in [Cells -> Cells \cup {Null}]
      /\ nx2[a] = last /\ nx2[b] = first /\ nx2[d] = point
      /\ \A c \in Cells : c # a /\ c # b /\ c # d => nx2[c] = nx[c]
  BY <1>1, <1>4, <1>6
<1>9. /\ pv2 \in [Cells -> Cells \cup {Null}]
      /\ pv2[last] = a /\ pv2[point] = d /\ pv2[first] = b
      /\ \A c \in Cells : c # last /\ c # point /\ c # first => pv2[c] = pv[c]
  BY <1>1, <1>4, <1>7
<1>10. Types(nx2, pv2, al)
  BY <1>1, <1>8, <1>9 DEF Types
<1>11. ASSUME NEW c \in Cells, nx2[c] # Null
       PROVE  /\ nx2[c] \in Lists \cup al /\ pv2[nx2[c]] = c
              /\ c \in Lists \cup al
  <2>1. CASE c = a \/ c = b \/ c = d
    BY <2>1, <1>1, <1>3, <1>4, <1>8, <1>9
  <2>2. CASE c # a /\ c # b /\ c # d
    <3>1. nx2[c] = nx[c] /\ nx[c] # first /\ nx[c] # last /\ nx[c] # point
      BY <2>2, <1>2, <1>3, <1>8, <1>11
    <3> QED BY <3>1, <1>3, <1>9, <1>11
  <2> QED BY <2>1, <2>2
<1>12. ASSUME NEW c \in Cells, nx2[c] # Null
       PROVE  pv2[c] \in Lists \cup al /\ nx2[pv2[c]] = c
  <2>1. CASE c = first \/ c = point \/ c = last
    BY <2>1, <1>1, <1>2, <1>3, <1>4, <1>8, <1>9
  <2>2. CASE c # first /\ c # point /\ c # last
    <3>1. nx[c] # Null
      BY <1>1, <1>3, <1>4, <1>8, <1>12
    <3>2. pv2[c] = pv[c] /\ pv[c] # a /\ pv[c] # b /\ pv[c] # d
      BY <2>2, <3>1, <1>3, <1>4, <1>9
    <3> QED BY <3>1, <3>2, <1>3, <1>8
  <2> QED BY <2>1, <2>2
<1>13. ASSUME NEW c \in Cells, nx2[c] = Null PROVE pv2[c] = Null
  <2>1. nx[c] = Null
    BY <1>1, <1>8, <1>13
  <2> QED BY <2>1, <1>3, <1>9
<1>14. Mutual(nx2, pv2, al)
  BY <1>11, <1>12, <1>13 DEF Mutual
<1> QED BY <1>2, <1>6, <1>10, <1>14

-----------------------------------------------------------------------------
(* The lists and the links together.                                         *)
LEMMA CellLinks ==
    ASSUME NEW f, NEW m, NEW nx, NEW pv, NEW al, Holds(f, m, nx), Mutual(nx, pv, al),
           NEW x \in Lists, NEW k \in 0 .. Len(f[x])
    PROVE  /\ Cell(x, f[x], k) \in Cells /\ Cell(x, f[x], k + 1) \in Cells
           /\ nx[Cell(x, f[x], k)] = Cell(x, f[x], k + 1)
           /\ pv[Cell(x, f[x], k + 1)] = Cell(x, f[x], k)
           /\ nx[Cell(x, f[x], k)] # Null
<1>1. f[x] \in Seq(Nodes)
  BY DEF Holds, Sequences
<1>2. Cell(x, f[x], k) \in Cells /\ Cell(x, f[x], k + 1) \in Cells
  BY <1>1, CellFacts
<1>3. nx[Cell(x, f[x], k)] = Cell(x, f[x], k + 1)
  BY DEF Holds, Chained
<1>4. nx[Cell(x, f[x], k)] # Null
  BY <1>2, <1>3, CellsAssumption
<1> QED BY <1>2, <1>3, <1>4 DEF Mutual

(* A linked cell is in some place of some list.                              *)
LEMMA Located ==
    ASSUME NEW f, NEW nx, Holds(f, << >>, nx), NEW c \in Cells, nx[c] # Null
    PROVE  /\ \E x \in Lists : \E p \in 0 .. Len(f[x]) : c = Cell(x, f[x], p)
           /\ \E x \in Lists : \E p \in 0 .. Len(f[x]) : c = Cell(x, f[x], p + 1)
<1>1. f \in [Lists -> Seq(Nodes)] /\ Covered(f, << >>, nx)
  BY DEF Holds, Sequences
<1>2. CASE c \in Lists
  <2>1. /\ Len(f[c]) \in 0 .. Len(f[c]) /\ c = Cell(c, f[c], Len(f[c]) + 1)
        /\ 0 \in 0 .. Len(f[c]) /\ c = Cell(c, f[c], 0)
    BY <1>1, <1>2, CellFacts
  <2> QED BY <2>1, <1>2
<1>3. CASE c \in Nodes
  <2>1. PICK x \in Lists : \E k \in 1 .. Len(f[x]) : c = f[x][k]
    BY <1>1, <1>3 DEF Covered
  <2>2. PICK k \in 1 .. Len(f[x]) : c = f[x][k]
    BY <2>1
  <2>3. Len(f[x]) \in Nat /\ Cell(x, f[x], k) = c
    BY <2>2, <1>1, CellFacts
  <2>4. k \in 0 .. Len(f[x]) /\ k - 1 \in 0 .. Len(f[x]) /\ (k - 1) + 1 = k
    BY <2>3
  <2> QED BY <2>3, <2>4
<1> QED BY <1>2, <1>3 DEF Cells

(* A node that is linked in before a cell becomes the element there.         *)
LEMMA InsertHolds ==
    ASSUME NEW f, NEW nx, NEW pv, NEW al, Holds(f, << >>, nx), Mutual(nx, pv, al),
           NEW n \in Nodes, nx[n] = Null, NEW x \in Lists, NEW p \in 0 .. Len(f[x]),
           NEW nx2, NEW pv2, IsInsert(nx, pv, Cell(x, f[x], p + 1), n, nx2, pv2)
    PROVE  Holds([f EXCEPT ![x] = InsertAt(f[x], p + 1, n)], << >>, nx2)
<1>1. Holds(f, <<n>>, nx)
  <2>1. PICK nx0 : nx0 = [nx EXCEPT ![n] = Null]
    OBVIOUS
  <2> QED BY <2>1, PieceOfOne
<1>2. PICK m : m = <<n>>
  OBVIOUS
<1>3. PICK f2 : f2 = [f EXCEPT ![x] = With(f[x], p, m)]
  OBVIOUS
<1>4. Len(m) > 0 /\ m[1] = n /\ m[Len(m)] = n
  BY <1>2
<1>5. pv[Cell(x, f[x], p + 1)] = Cell(x, f[x], p)
  BY CellLinks
<1>6. nx2 = [nx EXCEPT ![Cell(x, f[x], p)] = m[1], ![m[Len(m)]] = Cell(x, f[x], p + 1)]
  BY <1>4, <1>5 DEF IsInsert
<1>7. IsPut(f, x, p, m, f2)
  BY <1>3 DEF IsPut
<1>8. Holds(f, m, nx)
  BY <1>1, <1>2
<1>9. Holds(f2, << >>, nx2)
  BY <1>4, <1>6, <1>7, <1>8, PuttingIn
<1>10. (p + 1) - 1 = p
  OBVIOUS
<1>11. With(f[x], p, m) = InsertAt(f[x], p + 1, n)
  BY <1>2, <1>10 DEF With, InsertAt
<1> QED BY <1>3, <1>9, <1>11

(* A node whose links are unlinked is no element any more.                   *)
LEMMA UnlinkHolds ==
    ASSUME NEW f, NEW nx, NEW pv, NEW al, Holds(f, << >>, nx), Mutual(nx, pv, al),
           NEW x \in Lists, NEW i \in 1 .. Len(f[x]),
           NEW nx2, NEW pv2, IsUnlink(nx, pv, f[x][i], nx2, pv2)
    PROVE  Holds([f EXCEPT ![x] = RemoveAt(f[x], i)], << >>, nx2)
<1>1. f[x] \in Seq(Nodes)
  BY DEF Holds, Sequences
<1>2. PICK n \in Nodes : n = f[x][i]
  BY <1>1
<1>3. /\ i - 1 \in 0 .. Len(f[x]) /\ (i - 1) + 1 = i /\ i \in 0 .. Len(f[x]) /\ i \in i .. Len(f[x])
      /\ i - i + 1 = 1
  BY <1>1
<1>4. Cell(x, f[x], i) = n
  BY <1>2 DEF Cell
<1>5. pv[n] = Cell(x, f[x], i - 1) /\ nx[n] = Cell(x, f[x], i + 1)
  BY <1>3, <1>4, CellLinks
<1>6. PICK m : m = SubSeq(f[x], i, i)
  OBVIOUS
<1>7. PICK f1 : f1 = [f EXCEPT ![x] = Rest(f[x], i, i)]
  OBVIOUS
<1>8. PICK nx1 : nx1 = [nx EXCEPT ![Cell(x, f[x], i - 1)] = Cell(x, f[x], i + 1)]
  OBVIOUS
<1>9. IsTaken(f, x, i, i, f1, m)
  BY <1>6, <1>7 DEF IsTaken
<1>10. Holds(f1, m, nx1) /\ Len(m) = 1 /\ m[1] = n
  <2>1. IsGap(nx, f, x, i, i, nx1)
    BY <1>8 DEF IsGap
  <2>2. PICK j \in i .. Len(f[x]) : j = i
    BY <1>3
  <2>3. IsGap(nx, f, x, i, j, nx1) /\ IsTaken(f, x, i, j, f1, m)
    BY <2>1, <2>2, <1>9
  <2>4. Holds(f1, m, nx1) /\ Len(m) = j - i + 1 /\ m[1] = f[x][i]
    BY <2>3, TakingOut
  <2> QED BY <2>2, <2>4, <1>2, <1>3
<1>11. m = <<n>>
  <2>1. m \in Seq(Nodes)
    BY <1>10 DEF Holds, Sequences
  <2> QED BY <2>1, <1>10
<1>12. nx2 = [nx1 EXCEPT ![n] = Null]
  BY <1>2, <1>5, <1>8 DEF IsUnlink
<1>13. Holds(f1, << >>, nx2)
  BY <1>10, <1>11, <1>12, PieceOfOne
<1>14. Rest(f[x], i, i) = RemoveAt(f[x], i)
  BY DEF Rest, RemoveAt
<1> QED BY <1>7, <1>13, <1>14

(* What moveBefore does: the elements i to j of y, of which point is none,   *)
(* go to where point is in the lists without them.                           *)
LEMMA MoveHolds ==
    ASSUME NEW f, NEW nx, NEW pv, NEW al, Types(nx, pv, al), Holds(f, << >>, nx),
           Mutual(nx, pv, al),
           NEW y \in Lists, NEW i \in 1 .. Len(f[y]), NEW j \in i .. Len(f[y]),
           NEW point \in Cells, nx[point] # Null,
           \A k \in i .. j + 1 : point # Cell(y, f[y], k),
           NEW nx2, NEW pv2,
           IsMove(nx, pv, point, f[y][i], Cell(y, f[y], j + 1), nx2, pv2)
    PROVE  /\ Types(nx2, pv2, al) /\ Mutual(nx2, pv2, al)
           /\ \E f1 : \E x \in Lists : \E p \in 0 .. Len(f1[x]) :
                 /\ f1 = [f EXCEPT ![y] = Rest(f[y], i, j)]
                 /\ Len(f1[x]) \in Nat /\ Len(f1[x]) <= Len(f[x])
                 /\ Holds([f1 EXCEPT ![x] = With(f1[x], p, SubSeq(f[y], i, j))], << >>, nx2)
<1>1. f \in [Lists -> Seq(Nodes)] /\ Sequences(f, << >>) /\ Apart(f, << >>)
  BY DEF Holds, Sequences
<1>2. PICK n \in Nat : n = Len(f[y])
  BY <1>1
<1>3. /\ i \in 1 .. n /\ j \in i .. n /\ i - 1 \in 0 .. n /\ (i - 1) + 1 = i /\ j \in 0 .. n
      /\ j + 1 \in i .. j + 1 /\ i \in i .. j + 1 /\ i \in 0 .. n
  BY <1>2
<1>4. PICK first, last : first = f[y][i] /\ last = Cell(y, f[y], j + 1)
  OBVIOUS
<1>5. first = Cell(y, f[y], i) /\ f[y][j] = Cell(y, f[y], j) /\ first \in Cells /\ last \in Cells
      /\ first \in Nodes
  <2>1. i \in 1 .. Len(f[y]) /\ j \in 1 .. Len(f[y])
    BY <1>2, <1>3
  <2> QED BY <2>1, <1>1, <1>4, CellFacts DEF Cells
<1>6. /\ pv[first] = Cell(y, f[y], i - 1) /\ nx[first] # Null
      /\ pv[last] = f[y][j] /\ nx[last] # Null
  <2>1. pv[first] = Cell(y, f[y], i - 1) /\ nx[first] # Null
    BY <1>2, <1>3, <1>5, CellLinks
  <2>2. pv[last] = Cell(y, f[y], j) /\ nx[Cell(y, f[y], j)] = last /\ nx[Cell(y, f[y], j)] # Null
    BY <1>2, <1>3, <1>4, CellLinks
  <2>3. nx[last] # Null
    <3>1. CASE j = n
      <4>1. last = Cell(y, f[y], 0) /\ 0 \in 0 .. Len(f[y])
        BY <3>1, <1>1, <1>2, <1>4, CellFacts, SMTT(30)
      <4> QED BY <4>1, CellLinks
    <3>2. CASE j # n
      <4>1. j + 1 \in 0 .. Len(f[y])
        BY <3>2, <1>2, <1>3
      <4> QED BY <4>1, <1>4, CellLinks
    <3> QED BY <3>1, <3>2
  <2> QED BY <2>1, <2>2, <2>3, <1>5
<1>7. point # first /\ point # last /\ first # last
  <2>1. point # first /\ point # last
    BY <1>3, <1>4, <1>5
  <2>2. first # last
    <3>1. CASE j = n
      <4>1. f[y] \in Seq(Nodes)
        BY <1>1
      <4>2. last = y
        BY <3>1, <4>1, <1>2, <1>4, CellFacts
      <4> QED BY <4>2, <1>5, CellsAssumption
    <3>2. CASE j # n
      <4>1. j + 1 \in 0 .. Len(f[y]) /\ i \in 0 .. Len(f[y]) /\ i # j + 1
        BY <3>2, <1>2, <1>3
      <4> QED BY <4>1, <1>1, <1>4, <1>5, CellsApart
    <3> QED BY <3>1, <3>2
  <2> QED BY <2>1, <2>2
<1>8. /\ Types(nx2, pv2, al) /\ Mutual(nx2, pv2, al)
      /\ nx2 = [[nx EXCEPT ![pv[first]] = last] EXCEPT ![pv[point]] = first, ![pv[last]] = point]
  <2>1. IsMove(nx, pv, point, first, last, nx2, pv2)
    BY <1>4
  <2> QED BY <2>1, <1>5, <1>6, <1>7, MoveInverse
<1>9. PICK m : m = SubSeq(f[y], i, j)
  OBVIOUS
<1>10. PICK f1 : f1 = [f EXCEPT ![y] = Rest(f[y], i, j)]
  OBVIOUS
<1>11. PICK nx1 : nx1 = [nx EXCEPT ![Cell(y, f[y], i - 1)] = Cell(y, f[y], j + 1)]
  OBVIOUS
<1>12. Holds(f1, m, nx1) /\ Len(m) = j - i + 1 /\ m[1] = first /\ m[Len(m)] = f[y][j]
  <2>1. IsTaken(f, y, i, j, f1, m)
    BY <1>9, <1>10 DEF IsTaken
  <2>2. IsGap(nx, f, y, i, j, nx1)
    BY <1>11 DEF IsGap
  <2>3. Holds(f1, m, nx1) /\ Len(m) = j - i + 1 /\ m[1] = f[y][i] /\ m[Len(m)] = f[y][j]
    BY <2>1, <2>2, TakingOut
  <2> QED BY <2>3, <1>4
<1>13. Len(m) > 0 /\ f1 \in [Lists -> Seq(Nodes)] /\ m \in Seq(Nodes)
  BY <1>3, <1>12 DEF Holds, Sequences
<1>14. PICK x \in Lists : \E p \in 0 .. Len(f1[x]) : point = Cell(x, f1[x], p + 1)
  <2>1. CASE point \in Lists
    <3>1. Len(f1[point]) \in 0 .. Len(f1[point]) /\ point = Cell(point, f1[point], Len(f1[point]) + 1)
      BY <2>1, <1>13, CellFacts
    <3> QED BY <2>1, <3>1
  <2>2. CASE point \in Nodes
    <3>1. nx1[point] # Null
      <4>1. nx1[point] = nx[point] \/ nx1[point] = last
        BY <1>4, <1>11 DEF Types
      <4> QED BY <4>1, <1>5, CellsAssumption
    <3>2. \A k \in 1 .. Len(m) : point # m[k]
      <4> SUFFICES ASSUME NEW k \in 1 .. Len(m), point = m[k] PROVE FALSE
        OBVIOUS
      <4>1. PICK h : h = k + i - 1
        OBVIOUS
      <4>2. h \in i .. j + 1 /\ h \in 1 .. Len(f[y]) /\ k \in 1 .. j - i + 1
        BY <4>1, <1>2, <1>3, <1>12
      <4>3. m[k] = f[y][h]
        <5>1. f[y] \in Seq(Nodes) /\ i \in 1 .. Len(f[y]) + 1 /\ j \in i - 1 .. Len(f[y])
          BY <1>1, <1>2, <1>3
        <5>2. SubSeq(f[y], i, j)[k] = f[y][k + i - 1]
          BY <5>1, <4>2, PieceOf
        <5> QED BY <5>2, <4>1, <1>9
      <4>4. Cell(y, f[y], h) = f[y][h]
        BY <4>2 DEF Cell
      <4> QED BY <4>2, <4>3, <4>4
    <3>3. PICK x \in Lists : \E k \in 1 .. Len(f1[x]) : point = f1[x][k]
      BY <2>2, <3>1, <3>2, <1>12 DEF Holds, Covered
    <3>4. PICK k \in 1 .. Len(f1[x]) : point = f1[x][k]
      BY <3>3
    <3>5. Len(f1[x]) \in Nat /\ point = Cell(x, f1[x], k)
      BY <3>4, <1>13, CellFacts
    <3>6. k - 1 \in 0 .. Len(f1[x]) /\ (k - 1) + 1 = k
      BY <3>5
    <3> QED BY <3>5, <3>6
  <2> QED BY <2>1, <2>2 DEF Cells
<1>15. PICK p \in 0 .. Len(f1[x]) : point = Cell(x, f1[x], p + 1)
  BY <1>14
<1>16. PICK c : c = Cell(x, f1[x], p)
  OBVIOUS
<1>17. c \in Cells /\ nx1[c] = point
  <2>1. nx1[c] = point
    BY <1>12, <1>15, <1>16 DEF Holds, Chained
  <2> QED BY <2>1, <1>13, <1>16, CellFacts
<1>18. pv[point] = c
  <2>1. nx[c] = point
    <3>1. PICK g : g = Cell(y, f[y], i - 1)
      OBVIOUS
    <3>2. nx1 = [nx EXCEPT ![g] = last]
      BY <3>1, <1>4, <1>11
    <3>3. nx \in [Cells -> Cells \cup {Null}]
      BY DEF Types
    <3>4. nx1[c] = nx[c] \/ nx1[c] = last
      BY <3>2, <3>3, <1>17
    <3> QED BY <3>4, <1>7, <1>17
  <2> QED BY <2>1, <1>17, CellsAssumption DEF Mutual
<1>19. nx2 = [nx1 EXCEPT ![Cell(x, f1[x], p)] = m[1], ![m[Len(m)]] = Cell(x, f1[x], p + 1)]
  BY <1>4, <1>6, <1>8, <1>11, <1>12, <1>15, <1>16, <1>18
<1>20. PICK f2 : f2 = [f1 EXCEPT ![x] = With(f1[x], p, m)]
  OBVIOUS
<1>21. Holds(f2, << >>, nx2)
  <2>1. IsPut(f1, x, p, m, f2)
    BY <1>20 DEF IsPut
  <2> QED BY <2>1, <1>12, <1>13, <1>19, PuttingIn
<1>22. Len(f1[x]) \in Nat /\ Len(f1[x]) <= Len(f[x])
  <2>1. CASE x # y
    BY <2>1, <1>1, <1>10
  <2>2. CASE x = y
    <3>1. PICK s \in Seq(Nodes) : s = f[y]
      BY <1>1
    <3>2. PICK w, r : w = j - i + 1 /\ r = Rest(s, i, j)
      OBVIOUS
    <3>3. i \in 1 .. Len(s) /\ j \in i .. Len(s) /\ w \in Nat /\ Len(s) \in Nat
      BY <1>2, <1>3, <3>1, <3>2
    <3>4. IsRest(Nodes, r, s, i, w)
      BY <3>2, <3>3, RestOf
    <3>5. Len(r) = Len(s) - w /\ f1[x] = r /\ f[x] = s
      BY <2>2, <3>1, <3>2, <3>4, <1>1, <1>10 DEF IsRest
    <3>6. Len(r) \in Nat
      BY <3>4 DEF IsRest
    <3> QED BY <3>3, <3>5, <3>6
  <2> QED BY <2>1, <2>2
<1> QED BY <1>8, <1>9, <1>10, <1>20, <1>21, <1>22

-----------------------------------------------------------------------------
(* A list is no longer than there are nodes.                                 *)
LEMMA ListsShort ==
    ASSUME NEW f, NEW nx, Holds(f, << >>, nx), NEW l \in Lists
    PROVE  Len(f[l]) \in Nat /\ Cardinality(Nodes) \in Nat /\ Len(f[l]) <= Cardinality(Nodes)
<1>1. f[l] \in Seq(Nodes) /\ Apart(f, << >>)
  BY DEF Holds, Sequences
<1>2. PICK s \in Seq(Nodes) : s = f[l]
  BY <1>1
<1>3. PICK n \in Nat : n = Len(s)
  OBVIOUS
<1>4. s \in [1 .. n -> Nodes]
  BY <1>3
<1>5. \A a, b \in 1 .. n : s[a] = s[b] => a = b
  BY <1>1, <1>2, <1>3 DEF Apart
<1>6. s \in Injection(1 .. n, Nodes)
  BY <1>4, <1>5 DEF Injection, IsInjective
<1>7. IsFiniteSet(Nodes)
  BY CellsAssumption
<1>8. Cardinality(1 .. n) <= Cardinality(Nodes)
  BY <1>6, <1>7, FS_Injection
<1>9. Cardinality(1 .. n) = n
  <2>1. Cardinality(1 .. n) = IF 1 > n THEN 0 ELSE n - 1 + 1
    <3>1. PICK a \in Int : a = 1
      OBVIOUS
    <3>2. Cardinality(a .. n) = IF a > n THEN 0 ELSE n - a + 1
      BY FS_Interval
    <3> QED BY <3>1, <3>2
  <2> QED BY <2>1
<1>10. Cardinality(Nodes) \in Nat
  BY <1>7, FS_CardinalityType
<1> QED BY <1>2, <1>3, <1>8, <1>9, <1>10

-----------------------------------------------------------------------------
(* Path, with the links as an argument.                                      *)
Step(nx, c) == IF c = Null THEN Null ELSE nx[c]

Walk(nx, first, last) ==
    LET bound == Cardinality(Nodes) + 1
        at[k \in 0 .. bound] ==
          IF k = 0 THEN first ELSE Step(nx, at[k - 1])
        stops == {k \in 0 .. bound : at[k] \in {last, Null}}
    IN  [k \in 1 .. Min(stops \cup {bound}) |-> at[k - 1]]

(* The model's Path is the walk along the links as they are.                 *)
LEMMA PathIsWalk ==
    \A first, last : Path(first, last) = Walk(next, first, last)
BY DEF Path, Walk, Step

(* After a step, the model's Path is the walk along the links as they then are. *)
LEMMA PathPrimeIsWalk ==
    \A first, last : Path(first, last)' = Walk(next', first, last)
BY DEF Path, Walk, Step

(* The cells g of a walk of at most b steps, which ends after n.             *)
IsWalk(nx, first, last, g, b, n) ==
    /\ b = Cardinality(Nodes) + 1 /\ b \in Nat /\ n \in 0 .. b
    /\ g[0] = first /\ \A k \in 1 .. b : g[k] = Step(nx, g[k - 1])
    /\ \A k \in 0 .. n - 1 : g[k] # last /\ g[k] # Null
    /\ n # b => g[n] = last \/ g[n] = Null
    /\ Walk(nx, first, last) = [k \in 1 .. n |-> g[k - 1]]

(* Along whatever links, a walk has a length at which it stops.              *)
LEMMA WalkExists ==
    ASSUME NEW nx, nx \in [Cells -> Cells \cup {Null}], NEW first \in Cells, NEW last
    PROVE  \E g : \E b, n \in Nat : IsWalk(nx, first, last, g, b, n)
<1>1. PICK b \in Nat : b = Cardinality(Nodes) + 1
  BY CellsAssumption, FS_CardinalityType
<1>2. PICK S : S = Cells \cup {Null}
  OBVIOUS
<1>3. first \in S /\ \A c \in S : Step(nx, c) \in S
  BY <1>2 DEF Step
<1>4. PICK D \in Rounds(S, b) : \A k \in 1 .. b : \A c \in S : D[k][c] = Step(nx, c)
  <2> DEFINE E == [k \in 1 .. b |-> [c \in S |-> Step(nx, c)]]
  <2>1. E \in Rounds(S, b)
    BY <1>3 DEF Rounds
  <2>2. \A k \in 1 .. b : \A c \in S : E[k][c] = Step(nx, c)
    OBVIOUS
  <2> HIDE DEF E
  <2> QED BY <2>1, <2>2
<1> DEFINE Def(h) == [k \in 0 .. b |-> IF k = 0 THEN first ELSE Step(nx, h[k - 1])]
<1>5. PICK w \in [0 .. b -> S] : w[0] = first /\ \A k \in 1 .. b : w[k] = Step(nx, w[k - 1])
  <2>1. PICK w : w \in Executions(S, b, first, D)
    BY <1>3, ExecutionExists
  <2>2. w \in [0 .. b -> S] /\ w[0] = first
    BY <2>1 DEF Executions
  <2>3. ASSUME NEW k \in 1 .. b PROVE w[k] = Step(nx, w[k - 1])
    <3>1. w[k - 1] \in S
      BY <2>2
    <3> QED BY <1>4, <2>1, <3>1 DEF Executions
  <2> QED BY <2>2, <2>3
<1>6. w = Def(w)
  BY <1>5
<1> DEFINE at == CHOOSE h : h = Def(h)
<1>7. at = Def(at)
  <2> HIDE DEF Def
  <2> QED BY <1>6
<1>8. Walk(nx, first, last)
        = [k \in 1 .. Min({k \in 0 .. b : at[k] \in {last, Null}} \cup {b}) |-> at[k - 1]]
  BY <1>1 DEF Walk
<1> HIDE DEF at
<1>9. PICK g : g = at
  OBVIOUS
<1>10. g[0] = first /\ \A k \in 1 .. b : g[k] = Step(nx, g[k - 1])
  <2>1. \A k \in 0 .. b : g[k] = Def(g)[k]
    BY <1>7, <1>9
  <2> QED BY <2>1
<1>11. PICK T : T = {k \in 0 .. b : g[k] \in {last, Null}} \cup {b}
  OBVIOUS
<1>12. PICK n \in T : n = Min(T) /\ \A y \in T : n <= y
  <2>1. T \in SUBSET Nat /\ T # {}
    BY <1>11
  <2>2. \E n \in T : \A y \in T : n <= y
    BY <2>1, NatLeast
  <2> QED BY <2>2 DEF Min
<1>13. n \in 0 .. b /\ (n # b => g[n] = last \/ g[n] = Null)
  BY <1>11, <1>12
<1>14. ASSUME NEW k \in 0 .. n - 1 PROVE g[k] # last /\ g[k] # Null
  <2>1. k \in 0 .. b /\ k \notin T
    BY <1>12, <1>13
  <2> QED BY <2>1, <1>11
<1>15. Walk(nx, first, last) = [k \in 1 .. n |-> g[k - 1]]
  BY <1>8, <1>9, <1>11, <1>12
<1>16. IsWalk(nx, first, last, g, b, n)
  BY <1>1, <1>10, <1>13, <1>14, <1>15 DEF IsWalk
<1>17. n \in Nat
  BY <1>13
<1> QED BY <1>16, <1>17

Along(f, l, i, g, b) == \A k \in 0 .. Len(f[l]) + 1 - i : k <= b => g[k] = Cell(l, f[l], i + k)

(* A walk from the i-th cell of a list goes through the cells behind it.     *)
LEMMA WalkAlong ==
    ASSUME NEW f, NEW nx, Holds(f, << >>, nx), NEW l \in Lists, NEW i \in 0 .. Len(f[l]) + 1,
           NEW g, NEW b, NEW n, NEW last,
           NEW first, first = Cell(l, f[l], i), IsWalk(nx, first, last, g, b, n)
    PROVE  Along(f, l, i, g, b)
<1>1. Len(f[l]) \in Nat /\ b \in Nat
  BY ListsShort DEF IsWalk
<1>2. PICK N \in Nat : N = Len(f[l]) + 1 - i
  <2>1. Len(f[l]) + 1 - i \in Nat
    BY <1>1
  <2> QED BY <2>1
<1> DEFINE P == {k \in 0 .. N : k <= b => g[k] = Cell(l, f[l], i + k)}
<1>3. 0 \in P /\ P \in SUBSET (0 .. N)
  BY <1>1 DEF IsWalk
<1>4. ASSUME NEW k \in 1 .. N, k - 1 \in P PROVE k \in P
  <2> SUFFICES ASSUME k <= b PROVE g[k] = Cell(l, f[l], i + k)
    OBVIOUS
  <2>1. PICK h : h = i + (k - 1)
    OBVIOUS
  <2>2. h \in 0 .. Len(f[l]) /\ h + 1 = i + k /\ k \in 1 .. b /\ k - 1 <= b
    BY <2>1, <1>1, <1>2
  <2>3. g[k - 1] = Cell(l, f[l], h)
    BY <1>4, <2>1, <2>2
  <2>4. Cell(l, f[l], h) \in Cells
    BY <2>2, CellFacts DEF Holds, Sequences
  <2>5. nx[Cell(l, f[l], h)] = Cell(l, f[l], h + 1)
    BY <2>2 DEF Holds, Chained
  <2>6. g[k] = Step(nx, g[k - 1])
    BY <2>2 DEF IsWalk
  <2> QED BY <2>2, <2>3, <2>4, <2>5, <2>6, CellsAssumption DEF Step
<1>5. P = 0 .. N
  <2> HIDE DEF P
  <2> QED BY <1>3, <1>4, RangeInduction
<1>6. ASSUME NEW k \in 0 .. N, k <= b PROVE g[k] = Cell(l, f[l], i + k)
  BY <1>5, <1>6
<1> QED BY <1>2, <1>6 DEF Along

(* begin() to end() is the sequence the list holds.                          *)
LEMMA ElementsWalked ==
    ASSUME NEW f, NEW nx, Holds(f, << >>, nx), NEW l \in Lists
    PROVE  Walk(nx, nx[l], l) = f[l]
<1>1. PICK s \in Seq(Nodes) : s = f[l]
  BY DEF Holds, Sequences
<1>2. PICK N \in Nat : N = Len(s) /\ N <= Cardinality(Nodes) /\ Cardinality(Nodes) \in Nat
  BY <1>1, ListsShort
<1>3. nx[l] = Cell(l, s, 1)
  <2>1. Cell(l, s, 0) = l /\ 0 \in 0 .. Len(f[l]) /\ 0 + 1 = 1
    BY <1>1, <1>2, CellFacts
  <2>2. nx[Cell(l, f[l], 0)] = Cell(l, f[l], 0 + 1)
    BY <2>1 DEF Holds, Chained
  <2> QED BY <2>1, <2>2, <1>1
<1>4. Cell(l, s, 1) \in Cells /\ Cell(l, s, N + 1) = l
  BY <1>1, <1>2, CellFacts
<1>5. PICK g : \E b, n \in Nat : IsWalk(nx, Cell(l, s, 1), l, g, b, n)
  BY <1>4, WalkExists DEF Holds
<1>6. PICK b \in Nat, n \in Nat : IsWalk(nx, Cell(l, s, 1), l, g, b, n)
  BY <1>5
<1>7. \A k \in 0 .. N : k <= b => g[k] = Cell(l, s, 1 + k)
  <2>1. 1 \in 0 .. Len(f[l]) + 1 /\ Len(f[l]) + 1 - 1 = N
    BY <1>1, <1>2
  <2>2. PICK i \in 0 .. Len(f[l]) + 1 : i = 1
    BY <2>1
  <2>3. PICK first : first = Cell(l, f[l], i)
    OBVIOUS
  <2>4. IsWalk(nx, first, l, g, b, n)
    BY <2>2, <2>3, <1>1, <1>6
  <2>5. Along(f, l, i, g, b)
    BY <2>3, <2>4, WalkAlong
  <2> QED BY <2>1, <2>2, <2>5, <1>1 DEF Along
<1>8. b = Cardinality(Nodes) + 1 /\ n \in 0 .. b
  BY <1>6 DEF IsWalk
<1>9. n = N
  <2>1. ~(n > N)
    <3> SUFFICES ASSUME n > N PROVE FALSE
      OBVIOUS
    <3>1. N \in 0 .. n - 1 /\ N \in 0 .. N /\ N <= b /\ 1 + N = N + 1
      BY <1>2, <1>8
    <3>2. g[N] # l
      BY <3>1, <1>6 DEF IsWalk
    <3> QED BY <3>1, <3>2, <1>4, <1>7
  <2>2. ~(n < N)
    <3> SUFFICES ASSUME n < N PROVE FALSE
      OBVIOUS
    <3>1. n \in 0 .. N /\ n <= b /\ n # b /\ 1 + n \in 1 .. Len(s)
      BY <1>2, <1>8
    <3>2. g[n] = l \/ g[n] = Null
      BY <3>1, <1>6 DEF IsWalk
    <3>3. Cell(l, s, 1 + n) \in Nodes
      BY <3>1, <1>1, CellFacts
    <3>4. g[n] = Cell(l, s, 1 + n)
      BY <3>1, <1>7
    <3> QED BY <3>2, <3>3, <3>4, CellsAssumption DEF Cells
  <2> QED BY <2>1, <2>2
<1>10. \A k \in 1 .. N : g[k - 1] = s[k]
  <2> SUFFICES ASSUME NEW k \in 1 .. N PROVE g[k - 1] = s[k]
    OBVIOUS
  <2>1. k - 1 \in 0 .. N /\ k - 1 <= b /\ 1 + (k - 1) = k /\ k \in 1 .. Len(s)
    BY <1>2, <1>8
  <2>2. g[k - 1] = Cell(l, s, 1 + (k - 1))
    BY <2>1, <1>7
  <2> QED BY <2>1, <2>2 DEF Cell
<1>11. s = [k \in 1 .. N |-> s[k]]
  BY <1>2
<1>12. Walk(nx, Cell(l, s, 1), l) = [k \in 1 .. N |-> g[k - 1]]
  BY <1>6, <1>9 DEF IsWalk
<1>13. [k \in 1 .. N |-> g[k - 1]] = [k \in 1 .. N |-> s[k]]
  BY <1>10
<1> QED BY <1>1, <1>3, <1>11, <1>12, <1>13

(* What a range of nodes is, with the links as an argument.                  *)
RangeOf(nx, first, last) ==
    LET path == Walk(nx, first, last)
    IN  /\ nx[first] # Null /\ ToSet(path) \subseteq Nodes
        /\ first # last => nx[Last(path)] = last

(* A range is empty or the elements of a list from one to another.           *)
LEMMA RangeIs ==
    ASSUME NEW f, NEW nx, Holds(f, << >>, nx), NEW first \in Cells, NEW last \in Cells,
           RangeOf(nx, first, last), first # last
    PROVE  \E l \in Lists : \E i \in 1 .. Len(f[l]) : \E j \in i .. Len(f[l]) :
              /\ first = f[l][i] /\ last = Cell(l, f[l], j + 1)
              /\ ToSet(Walk(nx, first, last)) = {f[l][k] : k \in i .. j}
<1>1. nx[first] # Null
  BY DEF RangeOf
<1>2. PICK l \in Lists : \E i \in 0 .. Len(f[l]) : first = Cell(l, f[l], i)
  BY <1>1, Located
<1>3. PICK i \in 0 .. Len(f[l]) : first = Cell(l, f[l], i)
  BY <1>2
<1>4. PICK s \in Seq(Nodes) : s = f[l]
  BY DEF Holds, Sequences
<1>5. PICK N \in Nat : N = Len(s) /\ N <= Cardinality(Nodes) /\ Cardinality(Nodes) \in Nat
  BY <1>4, ListsShort
<1>6. PICK g : \E b, n \in Nat : IsWalk(nx, first, last, g, b, n)
  BY WalkExists DEF Holds
<1>7. PICK b \in Nat, n \in Nat : IsWalk(nx, first, last, g, b, n)
  BY <1>6
<1>8. \A k \in 0 .. N + 1 - i : g[k] = Cell(l, s, i + k)
  <2>1. i \in 0 .. Len(f[l]) + 1
    BY <1>3, <1>4, <1>5
  <2>2. Along(f, l, i, g, b)
    BY <2>1, <1>3, <1>7, WalkAlong
  <2>3. \A k \in 0 .. N + 1 - i : k <= b => g[k] = Cell(l, s, i + k)
    BY <2>2, <1>4, <1>5 DEF Along
  <2>4. CASE i # 0
    <3>1. \A k \in 0 .. N + 1 - i : k <= b
      BY <2>4, <1>3, <1>4, <1>5, <1>7 DEF IsWalk
    <3> QED BY <2>3, <3>1
  <2>5. CASE i = 0
    <3>1. \A k \in 0 .. N + 1 - i : k <= b
      BY <2>5, <1>5, <1>7 DEF IsWalk
    <3> QED BY <2>3, <3>1
  <2> QED BY <2>4, <2>5
<1>9. /\ b = Cardinality(Nodes) + 1 /\ n \in 0 .. b /\ g[0] = first
      /\ \A k \in 0 .. n - 1 : g[k] # last /\ g[k] # Null
      /\ n # b => g[n] = last \/ g[n] = Null
  BY <1>7 DEF IsWalk
<1>10. n # 0
  BY <1>5, <1>9, CellsAssumption
<1>11. PICK path : path = Walk(nx, first, last)
  OBVIOUS
<1>12. path = [k \in 1 .. n |-> g[k - 1]] /\ ToSet(path) \subseteq Nodes
  BY <1>7, <1>11 DEF IsWalk, RangeOf
<1>13. \A k \in 0 .. n - 1 : g[k] \in Nodes
  <2> SUFFICES ASSUME NEW k \in 0 .. n - 1 PROVE g[k] \in Nodes
    OBVIOUS
  <2>1. k + 1 \in DOMAIN path /\ path[k + 1] = g[k]
    BY <1>12
  <2>2. path[k + 1] \in ToSet(path)
    BY <2>1 DEF ToSet
  <2> QED BY <2>1, <2>2, <1>12
<1>14. Cell(l, s, N + 1) = l /\ Cell(l, s, 0) = l /\ l \notin Nodes
  BY <1>5, CellFacts, CellsAssumption
<1>15. i # 0
  <2>1. g[0] \in Nodes
    BY <1>10, <1>13
  <2> QED BY <2>1, <1>3, <1>4, <1>9, <1>14
<1>16. i \in 1 .. N
  BY <1>3, <1>4, <1>5, <1>15
<1>17. n <= N + 1 - i
  <2> SUFFICES ASSUME n > N + 1 - i PROVE FALSE
    BY <1>16
  <2>1. N + 1 - i \in 0 .. n - 1 /\ N + 1 - i \in 0 .. N + 1 - i /\ i + (N + 1 - i) = N + 1
    BY <1>16
  <2>2. g[N + 1 - i] = Cell(l, s, N + 1)
    BY <2>1, <1>8
  <2> QED BY <2>1, <2>2, <1>13, <1>14
<1>18. PICK j \in i .. N : j = i + n - 1
  BY <1>10, <1>16, <1>17
<1>19. last = Cell(l, s, j + 1)
  <2>1. n # b /\ n \in 0 .. N + 1 - i /\ i + n = j + 1
    BY <1>5, <1>9, <1>16, <1>17, <1>18
  <2>2. g[n] = Cell(l, s, j + 1)
    BY <2>1, <1>8
  <2>3. g[n] # Null
    BY <2>2, CellFacts, CellsAssumption
  <2> QED BY <2>1, <2>2, <2>3, <1>9
<1>20. \A k \in 1 .. n : path[k] = s[i + k - 1]
  <2> SUFFICES ASSUME NEW k \in 1 .. n PROVE path[k] = s[i + k - 1]
    OBVIOUS
  <2>1. PICK h : h = k - 1
    OBVIOUS
  <2>2. h \in 0 .. N + 1 - i /\ i + h = i + k - 1 /\ i + h \in 1 .. Len(s)
    BY <2>1, <1>5, <1>16, <1>17
  <2>3. path[k] = g[h]
    BY <2>1, <1>12
  <2>4. g[h] = Cell(l, s, i + h)
    BY <2>2, <1>8
  <2>5. Cell(l, s, i + h) = s[i + h]
    BY <2>2 DEF Cell
  <2> QED BY <2>2, <2>3, <2>4, <2>5
<1>21. ToSet(path) = {s[k] : k \in i .. j}
  <2>1. ASSUME NEW c \in ToSet(path) PROVE c \in {s[k] : k \in i .. j}
    <3>1. PICK k \in 1 .. n : c = path[k]
      BY <1>12 DEF ToSet
    <3>2. i + k - 1 \in i .. j
      BY <1>16, <1>18
    <3> QED BY <3>1, <3>2, <1>20
  <2>2. ASSUME NEW k \in i .. j PROVE s[k] \in ToSet(path)
    <3>1. PICK h : h = k - i + 1
      OBVIOUS
    <3>2. h \in 1 .. n /\ i + h - 1 = k
      BY <3>1, <1>16, <1>18
    <3>3. path[h] = s[k] /\ h \in DOMAIN path
      BY <3>2, <1>12, <1>20
    <3> QED BY <3>3 DEF ToSet
  <2> QED BY <2>1, <2>2
<1>22. i \in 1 .. Len(f[l]) /\ j \in i .. Len(f[l]) /\ first = f[l][i]
  <2>1. i \in 1 .. Len(f[l]) /\ j \in i .. Len(f[l])
    BY <1>4, <1>5, <1>16
  <2> QED BY <2>1, <1>3 DEF Cell
<1> QED BY <1>4, <1>11, <1>19, <1>21, <1>22

-----------------------------------------------------------------------------
(* The steps of ListSpec, with what they change as arguments.                *)
Loose(nx, al) == {n \in al : nx[n] = Null}

InsertsOne(f, lo, f2, lo2) ==
    \E l \in Lists : \E n \in Nodes : \E i \in 1 .. Len(f[l]) + 1 :
       /\ n \notin UNION {ToSet(f[x]) : x \in Lists}
       /\ f2 = [f EXCEPT ![l] = InsertAt(f[l], i, n)]
       /\ lo2 = lo \ {n}

RemovesOne(f, lo, f2, lo2) ==
    \E l \in Lists : \E i \in 1 .. Len(f[l]) :
       /\ f2 = [f EXCEPT ![l] = RemoveAt(f[l], i)]
       /\ lo2 = lo \/ lo2 = lo \cup {f[l][i]}

SplicesSome(f, lo, f2, lo2) ==
    \E f1 : \E l, m \in Lists : \E i \in 1 .. Len(f[m]) : \E j \in i .. Len(f[m]) :
       \E k \in 0 .. Len(f1[l]) :
          /\ f1 = [f EXCEPT ![m] = Rest(f[m], i, j)]
          /\ Len(f1[l]) \in Nat /\ Len(f1[l]) <= Len(f[l])
          /\ f2 = [f1 EXCEPT ![l] = With(f1[l], k, SubSeq(f[m], i, j))]
          /\ lo2 = lo

(* Linking a node in is an insertion.                                        *)
LEMMA InsertRefines ==
    ASSUME NEW f, NEW nx, NEW pv, NEW al, Types(nx, pv, al), Mutual(nx, pv, al),
           Holds(f, << >>, nx), NEW n \in Nodes, nx[n] = Null,
           NEW point \in Cells, nx[point] # Null,
           NEW nx2, NEW pv2, IsInsert(nx, pv, point, n, nx2, pv2), NEW al2, al2 = al \cup {n}
    PROVE  \E f2 : /\ Types(nx2, pv2, al2) /\ Mutual(nx2, pv2, al2) /\ Holds(f2, << >>, nx2)
                   /\ InsertsOne(f, Loose(nx, al), f2, Loose(nx2, al2))
<1>1. Types(nx2, pv2, al2) /\ Mutual(nx2, pv2, al2)
  BY InsertInverse
<1>2. PICK x \in Lists : \E p \in 0 .. Len(f[x]) : point = Cell(x, f[x], p + 1)
  BY Located
<1>3. PICK p \in 0 .. Len(f[x]) : point = Cell(x, f[x], p + 1)
  BY <1>2
<1>4. PICK f2 : f2 = [f EXCEPT ![x] = InsertAt(f[x], p + 1, n)]
  OBVIOUS
<1>5. Holds(f2, << >>, nx2)
  <2>1. IsInsert(nx, pv, Cell(x, f[x], p + 1), n, nx2, pv2)
    BY <1>3
  <2>2. Holds([f EXCEPT ![x] = InsertAt(f[x], p + 1, n)], << >>, nx2)
    BY <2>1, InsertHolds
  <2> QED BY <2>2, <1>4
<1>6. n \notin UNION {ToSet(f[y]) : y \in Lists}
  <2> SUFFICES ASSUME NEW y \in Lists, n \in ToSet(f[y]) PROVE FALSE
    OBVIOUS
  <2>1. f[y] \in Seq(Nodes)
    BY DEF Holds, Sequences
  <2>2. PICK k \in 1 .. Len(f[y]) : n = f[y][k]
    BY <2>1 DEF ToSet
  <2>3. Cell(y, f[y], k) = n /\ k \in 0 .. Len(f[y])
    BY <2>1, <2>2 DEF Cell
  <2>4. nx[Cell(y, f[y], k)] # Null
    BY <2>3, CellLinks
  <2> QED BY <2>3, <2>4
<1>7. Loose(nx2, al2) = Loose(nx, al) \ {n}
  <2>1. /\ n \in Cells /\ al \subseteq Cells /\ Null \notin Cells /\ pv[point] \in Cells
        /\ nx[pv[point]] = point
    BY CellsAssumption DEF Cells, Types, Mutual
  <2>2. /\ nx2[n] = point
        /\ \A c \in Cells : c # pv[point] /\ c # n => nx2[c] = nx[c]
        /\ nx2[pv[point]] # Null
    BY <2>1 DEF IsInsert, Types
  <2>3. n \notin Loose(nx2, al2)
    BY <2>1, <2>2 DEF Loose
  <2>4. ASSUME NEW c \in al, c # n PROVE nx2[c] = Null <=> nx[c] = Null
    BY <2>1, <2>2, <2>4
  <2> QED BY <2>3, <2>4 DEF Loose
<1>8. p + 1 \in 1 .. Len(f[x]) + 1
  <2>1. Len(f[x]) \in Nat
    BY ListsShort
  <2> QED BY <2>1
<1>9. InsertsOne(f, Loose(nx, al), f2, Loose(nx2, al2))
  BY <1>4, <1>6, <1>7, <1>8 DEF InsertsOne
<1> QED BY <1>1, <1>5, <1>9

(* Unlinking a node is a removal, and what comes next is still linked.       *)
LEMMA UnlinkRefines ==
    ASSUME NEW f, NEW nx, NEW pv, NEW al, Types(nx, pv, al), Mutual(nx, pv, al),
           Holds(f, << >>, nx), NEW n \in Nodes, nx[n] # Null,
           NEW nx2, NEW pv2, IsUnlink(nx, pv, n, nx2, pv2),
           NEW al2, al2 = al \/ al2 = al \ {n}
    PROVE  /\ \E f2 : /\ Types(nx2, pv2, al2) /\ Mutual(nx2, pv2, al2) /\ Holds(f2, << >>, nx2)
                      /\ RemovesOne(f, Loose(nx, al), f2, Loose(nx2, al2))
           /\ nx[n] \in Cells /\ nx2[nx[n]] # Null
<1>1. Types(nx2, pv2, al2) /\ Mutual(nx2, pv2, al2)
  BY UnlinkInverse
<1>2. PICK x \in Lists : \E i \in 1 .. Len(f[x]) : n = f[x][i]
  BY DEF Holds, Covered
<1>3. PICK i \in 1 .. Len(f[x]) : n = f[x][i]
  BY <1>2
<1>4. PICK f2 : f2 = [f EXCEPT ![x] = RemoveAt(f[x], i)]
  OBVIOUS
<1>5. Holds(f2, << >>, nx2)
  <2>1. IsUnlink(nx, pv, f[x][i], nx2, pv2)
    BY <1>3
  <2>2. Holds([f EXCEPT ![x] = RemoveAt(f[x], i)], << >>, nx2)
    BY <2>1, UnlinkHolds
  <2> QED BY <2>2, <1>4
<1>6. Len(f[x]) \in Nat
  BY ListsShort
<1>7. n = Cell(x, f[x], i) /\ i \in 0 .. Len(f[x])
  BY <1>3, <1>6 DEF Cell
<1>8. nx[n] # n
  <2>1. nx[n] = Cell(x, f[x], i + 1)
    BY <1>7, CellLinks
  <2>2. CASE i = Len(f[x])
    <3>1. f[x] \in Seq(Nodes)
      BY DEF Holds, Sequences
    <3>2. nx[n] = x
      BY <2>1, <2>2, <3>1, CellFacts
    <3> QED BY <3>2, CellsAssumption
  <2>3. CASE i # Len(f[x])
    <3>1. i + 1 \in 0 .. Len(f[x]) /\ i + 1 # i
      BY <2>3, <1>6
    <3> QED BY <2>1, <3>1, <1>7, CellsApart DEF Holds
  <2> QED BY <2>2, <2>3
<1>9. PICK p, q : p = pv[n] /\ q = nx[n]
  OBVIOUS
<1>10. /\ n \in Cells /\ al \subseteq Cells /\ Null \notin Cells
       /\ nx \in [Cells -> Cells \cup {Null}] /\ pv \in [Cells -> Cells \cup {Null}]
  BY CellsAssumption DEF Cells, Types
<1>11. p \in Cells /\ q \in Cells /\ nx[p] = n /\ pv[q] = n /\ nx[q] # Null /\ p # n /\ q # n
  <2>1. p \in Cells /\ q \in Cells /\ nx[p] = n /\ pv[q] = n
    BY <1>9, <1>10 DEF Mutual, Cells, Types
  <2>2. nx[q] # Null
    BY <2>1, <1>10 DEF Mutual
  <2> QED BY <2>1, <2>2, <1>8, <1>9
<1>12. /\ nx2[n] = Null /\ nx2[p] = q
       /\ \A c \in Cells : c # p /\ c # n => nx2[c] = nx[c]
  BY <1>9, <1>10, <1>11 DEF IsUnlink
<1>13. nx2[q] # Null
  BY <1>10, <1>11, <1>12
<1>14. n \in al
  BY <1>10, CellsAssumption DEF Mutual
<1>15. Loose(nx2, al2) = Loose(nx, al) \/ Loose(nx2, al2) = Loose(nx, al) \cup {n}
  <2>1. ASSUME NEW c \in al, c # n PROVE nx2[c] = Null <=> nx[c] = Null
    BY <2>1, <1>10, <1>11, <1>12
  <2>2. n \notin Loose(nx, al)
    BY DEF Loose
  <2>3. CASE al2 = al
    BY <2>1, <2>3, <1>12, <1>14 DEF Loose
  <2>4. CASE al2 = al \ {n}
    BY <2>1, <2>2, <2>4 DEF Loose
  <2> QED BY <2>3, <2>4
<1>16. RemovesOne(f, Loose(nx, al), f2, Loose(nx2, al2))
  BY <1>3, <1>4, <1>15 DEF RemovesOne
<1> QED BY <1>1, <1>5, <1>9, <1>11, <1>13, <1>16

(* moveBefore, where it changes links, is a splice.                          *)
LEMMA MoveRefines ==
    ASSUME NEW f, NEW nx, NEW pv, NEW al, Types(nx, pv, al), Mutual(nx, pv, al),
           Holds(f, << >>, nx), NEW first \in Cells, NEW last \in Cells, first # last,
           RangeOf(nx, first, last), NEW point \in Cells, nx[point] # Null,
           point # first, point # last, point \notin ToSet(Walk(nx, first, last)),
           NEW nx2, NEW pv2, IsMove(nx, pv, point, first, last, nx2, pv2)
    PROVE  \E f2 : /\ Types(nx2, pv2, al) /\ Mutual(nx2, pv2, al) /\ Holds(f2, << >>, nx2)
                   /\ SplicesSome(f, Loose(nx, al), f2, Loose(nx2, al))
<1>1. PICK y \in Lists : \E i \in 1 .. Len(f[y]) : \E j \in i .. Len(f[y]) :
              /\ first = f[y][i] /\ last = Cell(y, f[y], j + 1)
              /\ ToSet(Walk(nx, first, last)) = {f[y][k] : k \in i .. j}
  BY RangeIs
<1>2. PICK i \in 1 .. Len(f[y]) : \E j \in i .. Len(f[y]) :
              /\ first = f[y][i] /\ last = Cell(y, f[y], j + 1)
              /\ ToSet(Walk(nx, first, last)) = {f[y][k] : k \in i .. j}
  BY <1>1
<1>3. PICK j \in i .. Len(f[y]) :
              /\ first = f[y][i] /\ last = Cell(y, f[y], j + 1)
              /\ ToSet(Walk(nx, first, last)) = {f[y][k] : k \in i .. j}
  BY <1>2
<1>4. Len(f[y]) \in Nat
  BY ListsShort
<1>5. \A k \in i .. j + 1 : point # Cell(y, f[y], k)
  <2> SUFFICES ASSUME NEW k \in i .. j + 1 PROVE point # Cell(y, f[y], k)
    OBVIOUS
  <2>1. CASE k = j + 1
    BY <2>1, <1>3
  <2>2. CASE k # j + 1
    <3>1. k \in i .. j /\ k \in 1 .. Len(f[y])
      BY <2>2, <1>4
    <3>2. Cell(y, f[y], k) = f[y][k] /\ f[y][k] \in ToSet(Walk(nx, first, last))
      BY <3>1, <1>3 DEF Cell
    <3> QED BY <3>2
  <2> QED BY <2>1, <2>2
<1>6. IsMove(nx, pv, point, f[y][i], Cell(y, f[y], j + 1), nx2, pv2)
  BY <1>3
<1>7. /\ Types(nx2, pv2, al) /\ Mutual(nx2, pv2, al)
      /\ \E f1 : \E x \in Lists : \E p \in 0 .. Len(f1[x]) :
            /\ f1 = [f EXCEPT ![y] = Rest(f[y], i, j)]
            /\ Len(f1[x]) \in Nat /\ Len(f1[x]) <= Len(f[x])
            /\ Holds([f1 EXCEPT ![x] = With(f1[x], p, SubSeq(f[y], i, j))], << >>, nx2)
  BY <1>5, <1>6, MoveHolds
<1>8. PICK f1 : \E x \in Lists : \E p \in 0 .. Len(f1[x]) :
            /\ f1 = [f EXCEPT ![y] = Rest(f[y], i, j)]
            /\ Len(f1[x]) \in Nat /\ Len(f1[x]) <= Len(f[x])
            /\ Holds([f1 EXCEPT ![x] = With(f1[x], p, SubSeq(f[y], i, j))], << >>, nx2)
  BY <1>7
<1>9. PICK x \in Lists : \E p \in 0 .. Len(f1[x]) :
            /\ f1 = [f EXCEPT ![y] = Rest(f[y], i, j)]
            /\ Len(f1[x]) \in Nat /\ Len(f1[x]) <= Len(f[x])
            /\ Holds([f1 EXCEPT ![x] = With(f1[x], p, SubSeq(f[y], i, j))], << >>, nx2)
  BY <1>8
<1>10. PICK p \in 0 .. Len(f1[x]) :
            /\ f1 = [f EXCEPT ![y] = Rest(f[y], i, j)]
            /\ Len(f1[x]) \in Nat /\ Len(f1[x]) <= Len(f[x])
            /\ Holds([f1 EXCEPT ![x] = With(f1[x], p, SubSeq(f[y], i, j))], << >>, nx2)
  BY <1>9
<1>11. PICK f2 : f2 = [f1 EXCEPT ![x] = With(f1[x], p, SubSeq(f[y], i, j))]
  OBVIOUS
<1>12. Loose(nx2, al) = Loose(nx, al)
  <2>1. nx[first] # Null /\ nx[last] # Null
    <3>1. nx[first] # Null
      BY DEF RangeOf
    <3>2. nx[last] # Null
      <4>1. CASE j = Len(f[y])
        <5>1. f[y] \in Seq(Nodes) /\ 0 \in 0 .. Len(f[y])
          BY <1>4 DEF Holds, Sequences
        <5>2. last = Cell(y, f[y], 0)
          BY <4>1, <5>1, <1>3, CellFacts
        <5> QED BY <5>1, <5>2, CellLinks
      <4>2. CASE j # Len(f[y])
        <5>1. j + 1 \in 0 .. Len(f[y])
          BY <4>2, <1>4
        <5> QED BY <5>1, <1>3, CellLinks
      <4> QED BY <4>1, <4>2
    <3> QED BY <3>1, <3>2
  <2>2. nx2 = [[nx EXCEPT ![pv[first]] = last] EXCEPT ![pv[point]] = first, ![pv[last]] = point]
    BY <2>1, MoveInverse
  <2>3. PICK a, b, d : a = pv[first] /\ b = pv[point] /\ d = pv[last]
    OBVIOUS
  <2>4. /\ a \in Cells /\ b \in Cells /\ d \in Cells /\ Null \notin Cells /\ al \subseteq Cells
        /\ nx \in [Cells -> Cells \cup {Null}] /\ nx[a] # Null /\ nx[b] # Null /\ nx[d] # Null
    BY <2>1, <2>3, CellsAssumption DEF Mutual, Types, Cells
  <2>5. nx2 = [[nx EXCEPT ![a] = last] EXCEPT ![b] = first, ![d] = point]
    BY <2>2, <2>3
  <2>6. ASSUME NEW c \in al PROVE nx2[c] = Null <=> nx[c] = Null
    <3>1. c \in Cells
      BY <2>4
    <3>2. CASE c = a \/ c = b \/ c = d
      BY <3>1, <3>2, <2>4, <2>5
    <3>3. CASE c # a /\ c # b /\ c # d
      BY <3>1, <3>3, <2>4, <2>5
    <3> QED BY <3>2, <3>3
  <2> QED BY <2>6 DEF Loose
<1>13. SplicesSome(f, Loose(nx, al), f2, Loose(nx2, al))
  BY <1>10, <1>11, <1>12 DEF SplicesSome
<1> QED BY <1>7, <1>10, <1>11, <1>13

-----------------------------------------------------------------------------
(* The loop that is running stands at a cell that is linked.                 *)
TaskFine(tk, nx) ==
    /\ tk \in [op : {"none", "erase", "assign", "abort"}, first : Cells \cup {Null},
               last : Cells \cup {Null}, into : Lists \cup {Null}, from : Lists \cup {Null}]
    /\ tk.op \in {"erase", "assign"} => /\ tk.first \in Cells /\ tk.last \in Cells
                                        /\ nx[tk.first] # Null
    /\ tk.op = "assign" => tk.into \in Lists /\ tk.from \in Lists

Good(f, nx, pv, al, tk) == /\ Types(nx, pv, al) /\ Mutual(nx, pv, al)
                           /\ Holds(f, << >>, nx) /\ TaskFine(tk, nx)

(* The inductive invariant: the links are those of lists.                    *)
ListInv == \E f : Good(f, next, prev, alive, task)

(* What a step does to the lists: an operation of ListSpec or nothing.       *)
SeqsStep(f, lo, f2, lo2) == \/ InsertsOne(f, lo, f2, lo2)
                            \/ RemovesOne(f, lo, f2, lo2)
                            \/ SplicesSome(f, lo, f2, lo2)
                            \/ f2 = f /\ lo2 = lo

Follows(f, nx, pv, al, tk, nx2, pv2, al2, tk2) ==
    \E f2 : Good(f2, nx2, pv2, al2, tk2) /\ SeqsStep(f, Loose(nx, al), f2, Loose(nx2, al2))

(* A step that leaves the links alone.                                       *)
LEMMA QuietFollows ==
    ASSUME NEW f, NEW nx, NEW pv, NEW al, NEW tk, Good(f, nx, pv, al, tk),
           NEW tk2, TaskFine(tk2, nx)
    PROVE  Follows(f, nx, pv, al, tk, nx, pv, al, tk2)
BY DEF Follows, Good, SeqsStep

(* A task that is over, or has ended the process, relies on no link.         *)
LEMMA IdleFine == \A nx : TaskFine(Idle, nx) /\ TaskFine([Idle EXCEPT !.op = "abort"], nx)
BY DEF TaskFine, Idle

(* Every action keeps the invariant and does what ListSpec does.             *)
LEMMA InsertFollows ==
    ASSUME NEW f, Good(f, next, prev, alive, task), NEW n \in Nodes, NEW pos \in Cells,
           Emplace(n, pos) \/ Insert(n, pos)
    PROVE  Follows(f, next, prev, alive, task, next', prev', alive', task')
<1>1. PICK nx, pv, al, tk : nx = next /\ pv = prev /\ al = alive /\ tk = task
  OBVIOUS
<1>2. PICK nx2, pv2, al2, tk2 : nx2 = next' /\ pv2 = prev' /\ al2 = alive' /\ tk2 = task'
  OBVIOUS
<1>3. Types(nx, pv, al) /\ Mutual(nx, pv, al) /\ Holds(f, << >>, nx) /\ TaskFine(tk, nx)
  BY <1>1 DEF Good
<1>4. /\ IsInsert(nx, pv, pos, n, nx2, pv2) /\ nx[pos] # Null /\ nx[n] = Null
      /\ al2 = al \cup {n} /\ tk2 = tk /\ tk = Idle
  <2>1. CASE Emplace(n, pos)
    <3>1. n \notin al /\ n \in Cells /\ n \notin Lists
      BY <2>1, <1>1, CellsAssumption DEF Emplace, Cells
    <3>2. nx[n] = Null
      BY <3>1, <1>3 DEF Mutual
    <3> QED BY <2>1, <3>2, <1>1, <1>2 DEF Emplace, Linked, InsertBefore, IsInsert
  <2>2. CASE Insert(n, pos)
    BY <2>2, <1>1, <1>2 DEF Insert, Linked, InsertBefore, IsInsert
  <2> QED BY <2>1, <2>2
<1>5. PICK f2 : /\ Types(nx2, pv2, al2) /\ Mutual(nx2, pv2, al2) /\ Holds(f2, << >>, nx2)
                /\ InsertsOne(f, Loose(nx, al), f2, Loose(nx2, al2))
  BY <1>3, <1>4, InsertRefines
<1>6. Good(f2, nx2, pv2, al2, tk2)
  BY <1>4, <1>5, IdleFine DEF Good
<1> QED BY <1>1, <1>2, <1>5, <1>6 DEF Follows, SeqsStep

(* Removing or erasing one node takes it out of its list.                    *)
LEMMA RemoveFollows ==
    ASSUME NEW f, Good(f, next, prev, alive, task), NEW n \in Nodes, RemoveNode(n) \/ Erase(n)
    PROVE  Follows(f, next, prev, alive, task, next', prev', alive', task')
<1>1. PICK nx, pv, al, tk : nx = next /\ pv = prev /\ al = alive /\ tk = task
  OBVIOUS
<1>2. PICK nx2, pv2, al2, tk2 : nx2 = next' /\ pv2 = prev' /\ al2 = alive' /\ tk2 = task'
  OBVIOUS
<1>3. Types(nx, pv, al) /\ Mutual(nx, pv, al) /\ Holds(f, << >>, nx) /\ TaskFine(tk, nx)
  BY <1>1 DEF Good
<1>4. /\ IsUnlink(nx, pv, n, nx2, pv2) /\ nx[n] # Null
      /\ al2 = al \/ al2 = al \ {n}
      /\ tk2 = tk /\ tk = Idle
  BY <1>1, <1>2 DEF RemoveNode, Erase, Unlink, Linked, IsUnlink
<1>5. PICK f2 : /\ Types(nx2, pv2, al2) /\ Mutual(nx2, pv2, al2) /\ Holds(f2, << >>, nx2)
                /\ RemovesOne(f, Loose(nx, al), f2, Loose(nx2, al2))
  BY <1>3, <1>4, UnlinkRefines
<1>6. Good(f2, nx2, pv2, al2, tk2)
  BY <1>4, <1>5, IdleFine DEF Good
<1> QED BY <1>1, <1>2, <1>5, <1>6 DEF Follows, SeqsStep

(* Starting to erase a range, or to assign a list, changes no list.          *)
LEMMA StartFollows ==
    ASSUME NEW f, Good(f, next, prev, alive, task),
           \/ \E first, last \in Cells : StartErase(first, last)
           \/ \E l, m \in Lists : StartAssign(l, m)
    PROVE  Follows(f, next, prev, alive, task, next', prev', alive', task')
<1>1. PICK nx, pv, al, tk : nx = next /\ pv = prev /\ al = alive /\ tk = task
  OBVIOUS
<1>2. PICK tk2 : tk2 = task'
  OBVIOUS
<1>3. next' = nx /\ prev' = pv /\ alive' = al
  BY <1>1 DEF StartErase, StartAssign
<1>4. Types(nx, pv, al) /\ Mutual(nx, pv, al) /\ Holds(f, << >>, nx) /\ Good(f, nx, pv, al, tk)
  BY <1>1 DEF Good
<1>5. CASE \E first, last \in Cells : StartErase(first, last)
  <2>1. PICK first \in Cells, last \in Cells : StartErase(first, last)
    BY <1>5
  <2>2. nx[first] # Null /\ tk2 = EraseRange(first, last)
    BY <2>1, <1>1, <1>2 DEF StartErase, IsRange, Linked
  <2>3. TaskFine(tk2, nx)
    BY <2>2 DEF TaskFine, EraseRange
  <2>4. Follows(f, nx, pv, al, tk, nx, pv, al, tk2)
    BY <2>3, <1>4, QuietFollows
  <2> QED BY <2>4, <1>1, <1>2, <1>3
<1>6. CASE \E l, m \in Lists : StartAssign(l, m)
  <2>1. PICK l \in Lists, m \in Lists : StartAssign(l, m)
    BY <1>6
  <2>2. tk2 = [op |-> "assign", first |-> nx[l], last |-> l, into |-> l, from |-> m]
    BY <2>1, <1>1, <1>2 DEF StartAssign, AssignTask
  <2>3. nx[l] \in Cells /\ nx[nx[l]] # Null
    <3>1. f[l] \in Seq(Nodes)
      BY <1>4 DEF Holds, Sequences
    <3>2. Cell(l, f[l], 0) = l /\ 0 \in 0 .. Len(f[l])
      BY <3>1, CellFacts
    <3>3. nx[l] # Null
      BY <3>2, <1>4, CellLinks
    <3>4. l \in Cells /\ nx[l] \in Cells
      BY <3>3, <1>4 DEF Cells, Types
    <3>5. pv[nx[l]] = l /\ l # Null
      BY <3>3, <3>4, <1>4, CellsAssumption DEF Mutual
    <3> QED BY <3>4, <3>5, <1>4 DEF Mutual
  <2>4. TaskFine(tk2, nx)
    BY <2>2, <2>3 DEF TaskFine, Cells
  <2>5. Follows(f, nx, pv, al, tk, nx, pv, al, tk2)
    BY <2>4, <1>4, QuietFollows
  <2> QED BY <2>5, <1>1, <1>2, <1>3
<1> QED BY <1>5, <1>6

(* Each step of erasing a range takes out one node, and the last nothing.    *)
LEMMA EraseFollows ==
    ASSUME NEW f, Good(f, next, prev, alive, task), EraseStep \/ EraseReturn
    PROVE  Follows(f, next, prev, alive, task, next', prev', alive', task')
<1>1. PICK nx, pv, al, tk : nx = next /\ pv = prev /\ al = alive /\ tk = task
  OBVIOUS
<1>2. PICK nx2, pv2, al2, tk2 : nx2 = next' /\ pv2 = prev' /\ al2 = alive' /\ tk2 = task'
  OBVIOUS
<1>3. /\ Types(nx, pv, al) /\ Mutual(nx, pv, al) /\ Holds(f, << >>, nx) /\ TaskFine(tk, nx)
      /\ Good(f, nx, pv, al, tk)
  BY <1>1 DEF Good
<1>4. CASE /\ nx2 = nx /\ pv2 = pv /\ al2 = al
           /\ tk2 = Idle \/ tk2 = [Idle EXCEPT !.op = "abort"]
  <2>1. TaskFine(tk2, nx)
    BY <1>4, IdleFine
  <2>2. Follows(f, nx, pv, al, tk, nx, pv, al, tk2)
    BY <2>1, <1>3, QuietFollows
  <2> QED BY <2>2, <1>1, <1>2, <1>4
<1>5. CASE EraseStep /\ task.first \notin Lists
  <2>1. PICK n : n = tk.first
    OBVIOUS
  <2>2. /\ n \in Nodes /\ nx[n] # Null /\ tk.op \in {"erase", "assign"}
        /\ IsUnlink(nx, pv, n, nx2, pv2) /\ al2 = al \ {n}
        /\ tk2 = [tk EXCEPT !.first = nx[n]]
    <3>1. tk.op \in {"erase", "assign"} /\ n \notin Lists
      BY <1>5, <2>1, <1>1 DEF EraseStep
    <3>2. n \in Nodes /\ nx[n] # Null
      BY <3>1, <2>1, <1>3 DEF TaskFine, Cells
    <3>3. Unlink(task.first) /\ alive' = alive \ {task.first}
          /\ task' = [task EXCEPT !.first = next[task.first]]
      BY <1>5 DEF EraseStep
    <3> QED BY <3>1, <3>2, <3>3, <2>1, <1>1, <1>2 DEF Unlink, IsUnlink
  <2>3. /\ \E f2 : /\ Types(nx2, pv2, al2) /\ Mutual(nx2, pv2, al2) /\ Holds(f2, << >>, nx2)
                   /\ RemovesOne(f, Loose(nx, al), f2, Loose(nx2, al2))
        /\ nx[n] \in Cells /\ nx2[nx[n]] # Null
    BY <2>2, <1>3, UnlinkRefines
  <2>4. PICK f2 : /\ Types(nx2, pv2, al2) /\ Mutual(nx2, pv2, al2) /\ Holds(f2, << >>, nx2)
                  /\ RemovesOne(f, Loose(nx, al), f2, Loose(nx2, al2))
    BY <2>3
  <2>5. TaskFine(tk2, nx2)
    <3>1. PICK q : q = nx[n]
      OBVIOUS
    <3>2. tk2 = [tk EXCEPT !.first = q] /\ q \in Cells /\ nx2[q] # Null
      BY <3>1, <2>2, <2>3
    <3>3. tk2 = [op |-> tk.op, first |-> q, last |-> tk.last, into |-> tk.into, from |-> tk.from]
      BY <3>2, <1>3 DEF TaskFine
    <3> QED BY <3>2, <3>3, <2>2, <1>3 DEF TaskFine
  <2>6. Good(f2, nx2, pv2, al2, tk2)
    BY <2>4, <2>5 DEF Good
  <2> QED BY <2>4, <2>6, <1>1, <1>2 DEF Follows, SeqsStep
<1>6. CASE EraseStep /\ task.first \in Lists
  <2>1. Abort
    BY <1>6 DEF EraseStep
  <2> QED BY <2>1, <1>1, <1>2, <1>4 DEF Abort
<1>7. CASE EraseReturn
  BY <1>7, <1>1, <1>2, <1>4 DEF EraseReturn
<1> QED BY <1>5, <1>6, <1>7

(* moveBefore or its assertion, of a range that point is not in.             *)
LEMMA SpliceFollows ==
    ASSUME NEW f, Good(f, next, prev, alive, task),
           NEW point \in Cells, NEW first \in Cells, NEW last \in Cells,
           next[point] # Null, first # last => RangeOf(next, first, last),
           point \notin ToSet(Walk(next, first, last)) \ {first},
           SpliceOrAbort(point, first, last)
    PROVE  Follows(f, next, prev, alive, task, next', prev', alive', task')
<1>1. PICK nx, pv, al, tk : nx = next /\ pv = prev /\ al = alive /\ tk = task
  OBVIOUS
<1>2. PICK nx2, pv2, al2, tk2 : nx2 = next' /\ pv2 = prev' /\ al2 = alive' /\ tk2 = task'
  OBVIOUS
<1>3. /\ Types(nx, pv, al) /\ Mutual(nx, pv, al) /\ Holds(f, << >>, nx) /\ TaskFine(tk, nx)
      /\ Good(f, nx, pv, al, tk)
  BY <1>1 DEF Good
<1>4. CASE /\ nx2 = nx /\ pv2 = pv /\ al2 = al
           /\ tk2 = Idle \/ tk2 = [Idle EXCEPT !.op = "abort"]
  <2>1. TaskFine(tk2, nx)
    BY <1>4, IdleFine
  <2>2. Follows(f, nx, pv, al, tk, nx, pv, al, tk2)
    BY <2>1, <1>3, QuietFollows
  <2> QED BY <2>2, <1>1, <1>2, <1>4
<1>5. CASE point = first
  BY <1>5, <1>1, <1>2, <1>4 DEF SpliceOrAbort, Abort
<1>6. CASE point # first /\ (last = point \/ first = last)
  BY <1>6, <1>1, <1>2, <1>4 DEF SpliceOrAbort, MoveBefore
<1>7. CASE point # first /\ ~(last = point \/ first = last)
  <2>1. MoveBefore(point, first, last) /\ task' = Idle /\ alive' = alive
    BY <1>7 DEF SpliceOrAbort
  <2>2. IsMove(nx, pv, point, first, last, nx2, pv2)
    BY <2>1, <1>1, <1>2, <1>7 DEF MoveBefore, IsMove
  <2>3. nx[point] # Null /\ RangeOf(nx, first, last) /\ point \notin ToSet(Walk(nx, first, last))
    BY <1>1, <1>7
  <2>4. PICK f2 : /\ Types(nx2, pv2, al) /\ Mutual(nx2, pv2, al) /\ Holds(f2, << >>, nx2)
                  /\ SplicesSome(f, Loose(nx, al), f2, Loose(nx2, al))
    BY <2>2, <2>3, <1>3, <1>7, MoveRefines
  <2>5. Good(f2, nx2, pv2, al2, tk2) /\ al2 = al
    BY <2>1, <2>4, <1>1, <1>2, IdleFine DEF Good
  <2> QED BY <2>4, <2>5, <1>1, <1>2 DEF Follows, SeqsStep
<1> QED BY <1>5, <1>6, <1>7

(* The second half of an assignment moves all of the source to the emptied target. *)
LEMMA AssignFollows ==
    ASSUME NEW f, Good(f, next, prev, alive, task), AssignReturn
    PROVE  Follows(f, next, prev, alive, task, next', prev', alive', task')
<1>1. PICK nx, l, m : nx = next /\ l = task.into /\ m = task.from
  OBVIOUS
<1>2. Types(nx, prev, alive) /\ Mutual(nx, prev, alive) /\ Holds(f, << >>, nx)
  BY <1>1 DEF Good
<1>3. l \in Lists /\ m \in Lists /\ SpliceOrAbort(l, nx[m], m)
  BY <1>1 DEF AssignReturn, Good, TaskFine
<1>4. PICK s \in Seq(Nodes) : s = f[m]
  BY <1>2, <1>3 DEF Holds, Sequences
<1>5. /\ nx[l] # Null /\ nx[m] # Null /\ nx[m] = Cell(m, s, 1) /\ nx[m] \in Cells
      /\ l \in Cells /\ m \in Cells /\ l \notin Nodes /\ m \notin Nodes
  <2>1. f[l] \in Seq(Nodes) /\ f[m] \in Seq(Nodes)
    BY <1>2, <1>3 DEF Holds, Sequences
  <2>2. Cell(l, f[l], 0) = l /\ 0 \in 0 .. Len(f[l]) /\ Cell(m, f[m], 0) = m /\ 0 \in 0 .. Len(f[m])
    BY <2>1, <1>3, CellFacts
  <2>3. nx[l] # Null /\ nx[m] = Cell(m, f[m], 0 + 1) /\ nx[m] # Null
    BY <2>2, <1>2, <1>3, CellLinks
  <2>4. 0 + 1 = 1
    OBVIOUS
  <2> QED BY <2>1, <2>3, <2>4, <1>3, <1>4, CellFacts, CellsAssumption DEF Cells
<1>6. Walk(nx, nx[m], m) = s
  BY <1>2, <1>3, <1>4, ElementsWalked
<1>7. ToSet(s) \subseteq Nodes
  BY DEF ToSet
<1>8. nx[m] # m => RangeOf(nx, nx[m], m)
  <2> SUFFICES ASSUME nx[m] # m PROVE RangeOf(nx, nx[m], m)
    OBVIOUS
  <2>1. Len(s) # 0
    BY <1>5 DEF Cell
  <2>2. Len(s) \in 1 .. Len(s) /\ Len(s) \in 0 .. Len(s)
    BY <2>1
  <2>3. nx[Cell(m, s, Len(s))] = Cell(m, s, Len(s) + 1) /\ Cell(m, s, Len(s)) \in Cells
    BY <2>2, <1>2, <1>3, <1>4, CellLinks
  <2>4. Cell(m, s, Len(s)) = s[Len(s)] /\ Cell(m, s, Len(s) + 1) = m
    BY <2>2, <1>3, CellFacts
  <2>5. nx[Last(s)] = m
    BY <2>3, <2>4 DEF Last
  <2>6. nx[nx[m]] # Null
    <3>1. prev[nx[m]] = m /\ m # Null
      BY <1>2, <1>5, CellsAssumption DEF Mutual
    <3> QED BY <3>1, <1>2, <1>5 DEF Mutual
  <2> QED BY <2>5, <2>6, <1>6, <1>7 DEF RangeOf
<1>9. l \notin ToSet(Walk(nx, nx[m], m)) \ {nx[m]}
  BY <1>5, <1>6, <1>7
<1>10. PICK first : first = nx[m]
  OBVIOUS
<1>11. /\ first \in Cells /\ next[l] # Null /\ (first # m => RangeOf(next, first, m))
       /\ l \notin ToSet(Walk(next, first, m)) \ {first} /\ SpliceOrAbort(l, first, m)
  BY <1>1, <1>3, <1>5, <1>8, <1>9, <1>10
<1> QED BY <1>5, <1>11, SpliceFollows

(* splice moves the range, aborts, or leaves everything as it is.            *)
LEMMA SpliceActionFollows ==
    ASSUME NEW f, Good(f, next, prev, alive, task),
           NEW pos \in Cells, NEW first \in Cells, NEW last \in Cells, Splice(pos, first, last)
    PROVE  Follows(f, next, prev, alive, task, next', prev', alive', task')
<1>1. Path(first, last) = Walk(next, first, last)
  BY PathIsWalk
<1>2. RangeOf(next, first, last)
  BY <1>1 DEF Splice, IsRange, RangeOf, Linked
<1>3. /\ next[pos] # Null /\ pos \notin ToSet(Walk(next, first, last)) \ {first}
      /\ SpliceOrAbort(pos, first, last)
  BY <1>1 DEF Splice, Linked
<1> QED BY <1>2, <1>3, SpliceFollows

(* Every step of the program is an operation on the lists, or nothing.       *)
LEMMA StepFollows ==
    ASSUME NEW f, Good(f, next, prev, alive, task), [Next]_vars
    PROVE  Follows(f, next, prev, alive, task, next', prev', alive', task')
<1>1. CASE \E n \in Nodes : \E pos \in Cells : Emplace(n, pos) \/ Insert(n, pos)
  BY <1>1, InsertFollows
<1>2. CASE \E n \in Nodes : RemoveNode(n) \/ Erase(n)
  BY <1>2, RemoveFollows
<1>3. CASE \/ \E first, last \in Cells : StartErase(first, last)
           \/ \E l, m \in Lists : StartAssign(l, m)
  BY <1>3, StartFollows
<1>4. CASE EraseStep \/ EraseReturn
  BY <1>4, EraseFollows
<1>5. CASE AssignReturn
  BY <1>5, AssignFollows
<1>6. CASE \E pos, first, last \in Cells : Splice(pos, first, last)
  BY <1>6, SpliceActionFollows
<1>7. CASE UNCHANGED vars
  <2>1. next' = next /\ prev' = prev /\ alive' = alive /\ task' = task
    BY <1>7 DEF vars
  <2>2. Follows(f, next, prev, alive, task, next, prev, alive, task)
    BY QuietFollows DEF Good
  <2> QED BY <2>1, <2>2
<1> QED BY <1>1, <1>2, <1>3, <1>4, <1>5, <1>6, <1>7 DEF Next

(* Every list is empty at first.                                             *)
LEMMA InitGood ==
    ASSUME Init
    PROVE  Good([l \in Lists |-> << >>], next, prev, alive, task)
<1>1. PICK f : f = [l \in Lists |-> << >>]
  OBVIOUS
<1>2. PICK nx, pv : nx = next /\ pv = prev
  OBVIOUS
<1>3. /\ nx = [c \in Cells |-> IF c \in Lists THEN c ELSE Null] /\ pv = nx
      /\ alive = {} /\ task = Idle
  BY <1>2 DEF Init
<1>4. Types(nx, pv, alive) /\ Mutual(nx, pv, alive)
  BY <1>3, CellsAssumption DEF Types, Mutual, Cells
<1>5. \A l \in Lists : f[l] = << >> /\ \A k : Cell(l, f[l], k) = l
  BY <1>1 DEF Cell
<1>6. Sequences(f, << >>)
  BY <1>1 DEF Sequences
<1>7. Apart(f, << >>) /\ ChainedPiece(<< >>, nx)
  BY <1>5 DEF Apart, ChainedPiece
<1>8. Chained(f, nx)
  BY <1>3, <1>5 DEF Chained, Cells
<1>9. Covered(f, << >>, nx)
  BY <1>3, CellsAssumption DEF Covered, Cells
<1>10. nx \in [Cells -> Cells \cup {Null}]
  BY <1>4 DEF Types
<1> QED BY <1>1, <1>2, <1>3, <1>4, <1>6, <1>7, <1>8, <1>9, <1>10, IdleFine DEF Good, Holds

(* ListInv is inductive.                                                     *)
THEOREM ListInvariance == Spec => []ListInv
<1>1. Init => ListInv
  BY InitGood DEF ListInv
<1>2. ASSUME ListInv, [Next]_vars PROVE ListInv'
  <2>1. PICK f : Good(f, next, prev, alive, task)
    BY <1>2 DEF ListInv
  <2>2. Follows(f, next, prev, alive, task, next', prev', alive', task')
    BY <1>2, <2>1, StepFollows
  <2>3. \E g : Good(g, next', prev', alive', task')
    BY <2>2 DEF Follows
  <2> QED BY <2>3 DEF ListInv
<1> QED BY <1>1, <1>2, PTL DEF Spec

(* Type correctness; a loop that is running stands at a cell.                *)
THEOREM ListTypes == Spec => []TypeOK
<1>1. ListInv => TypeOK
  BY DEF ListInv, Good, Types, TaskFine, TypeOK
<1> QED BY <1>1, ListInvariance, PTL

(* m_next and m_prev are inverse to each other, and every node in use is in  *)
(* one place of one list: no sequence of insertions, removals, splices and   *)
(* loops that stopped half-way loses a node, lists it twice or closes a      *)
(* cycle that no sentinel is on.                                             *)
THEOREM ListsPartition == Spec => []ListsPartitionNodes
<1>1. ListInv => ListsPartitionNodes
  <2> SUFFICES ASSUME NEW f, Good(f, next, prev, alive, task) PROVE ListsPartitionNodes
    BY DEF ListInv
  <2>1. PICK nx : nx = next
    OBVIOUS
  <2>2. Types(nx, prev, alive) /\ Mutual(nx, prev, alive) /\ Holds(f, << >>, nx)
    BY <2>1 DEF Good
  <2>3. LinksInverse
    BY <2>1, <2>2 DEF LinksInverse, Mutual, Linked
  <2>4. \A l \in Lists : Elements(l) = f[l]
    <3> SUFFICES ASSUME NEW l \in Lists PROVE Elements(l) = f[l]
      OBVIOUS
    <3>1. Elements(l) = Walk(nx, nx[l], l)
      BY <2>1, PathIsWalk DEF Elements
    <3> QED BY <3>1, <2>2, ElementsWalked
  <2>5. \A l \in Lists : f[l] \in Seq(Nodes)
    BY <2>2 DEF Holds, Sequences
  <2>6. Apart(f, << >>)
    BY <2>2 DEF Holds
  <2>7. ASSUME NEW n \in Nodes, Linked(n)
        PROVE  \E l \in Lists : /\ n \in ToSet(Elements(l))
                                /\ IsInjective(Elements(l))
                                /\ \A m \in Lists \ {l} : n \notin ToSet(Elements(m))
    <3>1. nx[n] # Null
      BY <2>1, <2>7 DEF Linked
    <3>2. PICK l \in Lists : \E k \in 1 .. Len(f[l]) : n = f[l][k]
      BY <3>1, <2>2 DEF Holds, Covered
    <3>3. PICK k \in 1 .. Len(f[l]) : n = f[l][k]
      BY <3>2
    <3>4. n \in ToSet(f[l])
      BY <3>3, <2>5 DEF ToSet
    <3>5. IsInjective(f[l])
      <4>1. DOMAIN f[l] = 1 .. Len(f[l])
        BY <2>5
      <4>2. \A a, b \in 1 .. Len(f[l]) : f[l][a] = f[l][b] => a = b
        BY <2>6 DEF Apart
      <4> QED BY <4>1, <4>2 DEF IsInjective
    <3>6. ASSUME NEW m \in Lists \ {l}, n \in ToSet(f[m]) PROVE FALSE
      <4>1. PICK i \in 1 .. Len(f[m]) : n = f[m][i]
        BY <3>6, <2>5 DEF ToSet
      <4> QED BY <4>1, <3>3, <2>6, ZenonT(30) DEF Apart
    <3> QED BY <3>4, <3>5, <3>6, <2>4
  <2> QED BY <2>3, <2>7 DEF ListsPartitionNodes
<1> QED BY <1>1, ListInvariance, PTL

-----------------------------------------------------------------------------
(* What the pointers stand for.                                              *)
LEMMA ListsMapped ==
    ASSUME NEW f, NEW nx, Holds(f, << >>, nx)
    PROVE  [l \in Lists |-> Walk(nx, nx[l], l)] = f
<1>1. f \in [Lists -> Seq(Nodes)]
  BY DEF Holds, Sequences
<1>2. \A l \in Lists : Walk(nx, nx[l], l) = f[l]
  BY ElementsWalked
<1>3. [l \in Lists |-> Walk(nx, nx[l], l)] = [l \in Lists |-> f[l]]
  BY <1>2
<1> QED BY <1>1, <1>3

MappedLists == [l \in Lists |-> Elements(l)]
MappedLoose == {n \in alive : ~Linked(n)}

(* The lists the pointers stand for are the walks from their heads.          *)
LEMMA MappedNow ==
    /\ MappedLists = [l \in Lists |-> Walk(next, next[l], l)]
    /\ MappedLoose = Loose(next, alive)
BY PathIsWalk DEF MappedLists, MappedLoose, Elements, Loose, Linked

(* The same after a step.                                                    *)
LEMMA MappedThen ==
    /\ MappedLists' = [l \in Lists |-> Walk(next', next'[l], l)]
    /\ MappedLoose' = Loose(next', alive')
<1>1. \A l : Elements(l)' = Walk(next', next'[l], l)
  BY DEF Elements, Path, Walk, Step
<1> QED BY <1>1 DEF MappedLists, MappedLoose, Loose, Linked

(* A step of the lists is a step of ListSpec.                                *)
LEMMA StepsMapped ==
    ASSUME NEW f, f \in [Lists -> Seq(Nodes)], f = MappedLists,
           NEW f2, f2 = MappedLists',
           SeqsStep(f, MappedLoose, f2, MappedLoose')
    PROVE  Seqs!Next \/ (MappedLists' = MappedLists /\ MappedLoose' = MappedLoose)
<1>1. PICK lo, lo2 : lo = MappedLoose /\ lo2 = MappedLoose'
  OBVIOUS
<1>2. CASE InsertsOne(f, lo, f2, lo2)
  <2>1. PICK l \in Lists : \E n \in Nodes : \E i \in 1 .. Len(f[l]) + 1 :
           /\ n \notin UNION {ToSet(f[x]) : x \in Lists}
           /\ f2 = [f EXCEPT ![l] = InsertAt(f[l], i, n)]
           /\ lo2 = lo \ {n}
    BY <1>2 DEF InsertsOne
  <2>2. PICK n \in Nodes : \E i \in 1 .. Len(f[l]) + 1 :
           /\ n \notin UNION {ToSet(f[x]) : x \in Lists}
           /\ f2 = [f EXCEPT ![l] = InsertAt(f[l], i, n)]
           /\ lo2 = lo \ {n}
    BY <2>1
  <2>3. PICK i \in 1 .. Len(f[l]) + 1 :
           /\ n \notin UNION {ToSet(f[x]) : x \in Lists}
           /\ f2 = [f EXCEPT ![l] = InsertAt(f[l], i, n)]
           /\ lo2 = lo \ {n}
    BY <2>2
  <2>4. MappedLists' = [MappedLists EXCEPT ![l] = InsertAt(MappedLists[l], i, n)]
    BY <2>3
  <2>5. n \notin UNION {ToSet(MappedLists[x]) : x \in Lists}
    BY <2>3
  <2>6. Seqs!Insert(l, i, n)
    BY <2>3, <2>4, <2>5, <1>1
       DEF Seqs!Insert, Seqs!Held, Seqs!InsertAt, InsertAt, Seqs!ToSet, ToSet, MappedLists, MappedLoose
  <2>7. i \in 1 .. Len(MappedLists[l]) + 1
    BY <2>3
  <2> QED BY <2>6, <2>7 DEF Seqs!Next, MappedLists
<1>3. CASE RemovesOne(f, lo, f2, lo2)
  <2>1. PICK l \in Lists : \E i \in 1 .. Len(f[l]) :
           /\ f2 = [f EXCEPT ![l] = RemoveAt(f[l], i)]
           /\ lo2 = lo \/ lo2 = lo \cup {f[l][i]}
    BY <1>3 DEF RemovesOne
  <2>2. PICK i \in 1 .. Len(f[l]) :
           /\ f2 = [f EXCEPT ![l] = RemoveAt(f[l], i)]
           /\ lo2 = lo \/ lo2 = lo \cup {f[l][i]}
    BY <2>1
  <2>3. MappedLists' = [MappedLists EXCEPT ![l] = RemoveAt(MappedLists[l], i)]
    BY <2>2
  <2>4. lo2 = lo => Seqs!Erase(l, i)
    BY <2>3, <1>1 DEF Seqs!Erase, Seqs!RemoveAt, RemoveAt, MappedLists, MappedLoose
  <2>5. lo2 = lo \cup {f[l][i]} => Seqs!TakeOut(l, i)
    BY <2>3, <1>1 DEF Seqs!TakeOut, Seqs!RemoveAt, RemoveAt, MappedLists, MappedLoose
  <2>6. i \in DOMAIN MappedLists[l]
    BY <2>2
  <2> QED BY <2>2, <2>4, <2>5, <2>6 DEF Seqs!Next, MappedLists
<1>4. CASE SplicesSome(f, lo, f2, lo2)
  <2>1. PICK f1 : \E l, m \in Lists : \E i \in 1 .. Len(f[m]) : \E j \in i .. Len(f[m]) :
           \E k \in 0 .. Len(f1[l]) :
              /\ f1 = [f EXCEPT ![m] = Rest(f[m], i, j)]
              /\ Len(f1[l]) \in Nat /\ Len(f1[l]) <= Len(f[l])
              /\ f2 = [f1 EXCEPT ![l] = With(f1[l], k, SubSeq(f[m], i, j))]
              /\ lo2 = lo
    BY <1>4 DEF SplicesSome
  <2>2. PICK l \in Lists, m \in Lists : \E i \in 1 .. Len(f[m]) : \E j \in i .. Len(f[m]) :
           \E k \in 0 .. Len(f1[l]) :
              /\ f1 = [f EXCEPT ![m] = Rest(f[m], i, j)]
              /\ Len(f1[l]) \in Nat /\ Len(f1[l]) <= Len(f[l])
              /\ f2 = [f1 EXCEPT ![l] = With(f1[l], k, SubSeq(f[m], i, j))]
              /\ lo2 = lo
    BY <2>1
  <2>3. PICK i \in 1 .. Len(f[m]) : \E j \in i .. Len(f[m]) :
           \E k \in 0 .. Len(f1[l]) :
              /\ f1 = [f EXCEPT ![m] = Rest(f[m], i, j)]
              /\ Len(f1[l]) \in Nat /\ Len(f1[l]) <= Len(f[l])
              /\ f2 = [f1 EXCEPT ![l] = With(f1[l], k, SubSeq(f[m], i, j))]
              /\ lo2 = lo
    BY <2>2
  <2>4. PICK j \in i .. Len(f[m]) : \E k \in 0 .. Len(f1[l]) :
              /\ f1 = [f EXCEPT ![m] = Rest(f[m], i, j)]
              /\ Len(f1[l]) \in Nat /\ Len(f1[l]) <= Len(f[l])
              /\ f2 = [f1 EXCEPT ![l] = With(f1[l], k, SubSeq(f[m], i, j))]
              /\ lo2 = lo
    BY <2>3
  <2>5. PICK k \in 0 .. Len(f1[l]) :
              /\ f1 = [f EXCEPT ![m] = Rest(f[m], i, j)]
              /\ Len(f1[l]) \in Nat /\ Len(f1[l]) <= Len(f[l])
              /\ f2 = [f1 EXCEPT ![l] = With(f1[l], k, SubSeq(f[m], i, j))]
              /\ lo2 = lo
    BY <2>4
  <2>6. /\ f[m] \in Seq(Nodes) /\ f[l] \in Seq(Nodes)
        /\ i \in DOMAIN f[m] /\ j \in DOMAIN f[m] /\ i <= j
        /\ k \in 0 .. Len(f[l]) /\ k <= Len(f1[l])
    BY <2>5
  <2>7. f1 = [MappedLists EXCEPT ![m] = SubSeq(MappedLists[m], 1, i - 1)
                                          \o SubSeq(MappedLists[m], j + 1, Len(MappedLists[m]))]
    BY <2>5 DEF Rest
  <2>8. MappedLists' = [f1 EXCEPT ![l] = SubSeq(f1[l], 1, k) \o SubSeq(MappedLists[m], i, j)
                                            \o SubSeq(f1[l], k + 1, Len(f1[l]))]
    BY <2>5 DEF With
  <2>9. MappedLoose' = MappedLoose
    BY <2>5, <1>1
  <2>10. Seqs!Splice(l, k, m, i, j)
    BY <2>6, <2>7, <2>8, <2>9 DEF Seqs!Splice, MappedLists, MappedLoose
  <2> QED BY <2>6, <2>10 DEF Seqs!Next, MappedLists
<1> QED BY <1>1, <1>2, <1>3, <1>4 DEF SeqsStep

(* The pointers implement the sequences of ListSpec: every operation does to *)
(* the lists what the operation on sequences does, and a range that is       *)
(* erased goes node by node.                                                 *)
THEOREM PointersImplementLists == Spec => ListSpecImplemented
<1>1. Init => Seqs!Init
  <2> SUFFICES ASSUME Init PROVE Seqs!Init
    OBVIOUS
  <2>1. PICK f : f = [l \in Lists |-> << >>]
    OBVIOUS
  <2>2. Holds(f, << >>, next) /\ alive = {}
    BY <2>1, InitGood DEF Good, Init
  <2>3. MappedLists = f
    BY <2>2, ListsMapped, MappedNow
  <2>4. MappedLoose = {}
    BY <2>2 DEF MappedLoose
  <2> QED BY <2>1, <2>3, <2>4 DEF Seqs!Init, MappedLists, MappedLoose
<1>2. ASSUME ListInv, [Next]_vars
      PROVE  Seqs!Next \/ (MappedLists' = MappedLists /\ MappedLoose' = MappedLoose)
  <2>1. PICK f : Good(f, next, prev, alive, task)
    BY <1>2 DEF ListInv
  <2>2. Follows(f, next, prev, alive, task, next', prev', alive', task')
    BY <1>2, <2>1, StepFollows
  <2>3. PICK f2 : /\ Good(f2, next', prev', alive', task')
                  /\ SeqsStep(f, Loose(next, alive), f2, Loose(next', alive'))
    BY <2>2 DEF Follows
  <2>4. MappedLists = f /\ MappedLoose = Loose(next, alive)
    <3>1. Holds(f, << >>, next)
      BY <2>1 DEF Good
    <3> QED BY <3>1, ListsMapped, MappedNow
  <2>5. MappedLists' = f2 /\ MappedLoose' = Loose(next', alive')
    <3>1. PICK nx : nx = next'
      OBVIOUS
    <3>2. Holds(f2, << >>, nx)
      BY <2>3, <3>1 DEF Good
    <3>3. [l \in Lists |-> Walk(nx, nx[l], l)] = f2
      BY <3>2, ListsMapped
    <3> QED BY <3>1, <3>3, MappedThen
  <2>6. f \in [Lists -> Seq(Nodes)]
    BY <2>1 DEF Good, Holds, Sequences
  <2>7. SeqsStep(f, MappedLoose, f2, MappedLoose')
    BY <2>3, <2>4, <2>5
  <2> QED BY <2>4, <2>5, <2>6, <2>7, StepsMapped
<1>3. ListInv /\ [Next]_vars
        => [Seqs!Next]_<<[l \in Lists |-> Elements(l)], {n \in alive : ~Linked(n)}>>
  BY <1>2 DEF MappedLists, MappedLoose
<1> QED BY <1>1, <1>3, ListInvariance, PTL DEF Spec, ListSpecImplemented, Seqs!Spec
=============================================================================
