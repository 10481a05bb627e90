------------------------- MODULE LocalPasses_proofs -------------------------
(* Proofs about UseDef and about the local passes, which change the links of *)
(* a block by its methods: for every set of instructions, every number of    *)
(* inputs, every width of the types and every block and order of passes.     *)
EXTENDS LocalPasses, FiniteIteration

-----------------------------------------------------------------------------
(* The def-use links.                                                        *)

IndInv == TypeOK /\ UsersMatchInputs /\ NoDeadOperands

(* The list without elements.                                                *)
LEMMA EmptyList == << >> \in Seq(Insts) /\ Len(<< >>) = 0 /\ DOMAIN << >> = {}
OBVIOUS

(* Appending adds one element.                                               *)
LEMMA AppendSet ==
    ASSUME NEW s \in Seq(Insts), NEW v \in Insts
    PROVE  {Append(s, v)[k] : k \in DOMAIN Append(s, v)} = {s[k] : k \in DOMAIN s} \cup {v}
<1> DEFINE t == Append(s, v)
           n == Len(s)
<1>1. n \in Nat /\ DOMAIN s = 1 .. n /\ DOMAIN t = 1 .. n + 1
  OBVIOUS
<1>2. t[n + 1] = v /\ \A k \in 1 .. n : t[k] = s[k]
  OBVIOUS
<1> HIDE DEF t, n
<1>3. ASSUME NEW k \in DOMAIN t PROVE t[k] \in {s[l] : l \in DOMAIN s} \cup {v}
  <2>1. k = n + 1 \/ k \in 1 .. n
    BY <1>1
  <2> QED BY <1>1, <1>2, <2>1
<1>4. ASSUME NEW k \in DOMAIN s PROVE s[k] \in {t[l] : l \in DOMAIN t}
  <2>1. k \in DOMAIN t /\ t[k] = s[k]
    BY <1>1, <1>2
  <2> QED BY <2>1
<1>5. v \in {t[l] : l \in DOMAIN t}
  <2>1. n + 1 \in DOMAIN t /\ t[n + 1] = v
    BY <1>1, <1>2
  <2> QED BY <2>1
<1>6. {t[k] : k \in DOMAIN t} = {s[k] : k \in DOMAIN s} \cup {v}
  BY <1>3, <1>4, <1>5
<1> QED BY <1>6 DEF t

(* The list of inputs of an instruction, and what stands in it.              *)
LEMMA InputFacts ==
    ASSUME TypeOK, NEW i \in Insts
    PROVE  /\ inputs[i] \in Seq(Insts) /\ DOMAIN inputs[i] = 1 .. Len(inputs[i])
           /\ Len(inputs[i]) \in Nat /\ Len(inputs[i]) <= MaxInputs
           /\ InputSet(i) \subseteq Insts
BY MaxInputsAssumption DEF TypeOK, InputSet

(* The empty function has nothing.                                           *)
LEMMA InitInv == Init => IndInv
<1> SUFFICES ASSUME Init PROVE IndInv
  OBVIOUS
<1>1. TypeOK
  <2>1. \A i \in Insts : inputs[i] = << >> /\ entries[i] = << >>
    BY DEF Init
  <2>2. inputs \in [Insts -> Seq(Insts)] /\ entries \in [Insts -> Seq(Insts)]
    BY EmptyList DEF Init
  <2>3. \A i \in Insts : Len(inputs[i]) <= MaxInputs
    <3> SUFFICES ASSUME NEW i \in Insts PROVE Len(inputs[i]) <= MaxInputs
      OBVIOUS
    <3>1. Len(inputs[i]) = 0
      BY <2>1, EmptyList
    <3> QED BY <3>1, MaxInputsAssumption
  <2> QED BY <2>2, <2>3 DEF Init, TypeOK
<1>2. \A i \in Insts : InputSet(i) = {} /\ users[i] = {} /\ inputs[i] = << >>
  <2> SUFFICES ASSUME NEW i \in Insts PROVE InputSet(i) = {} /\ users[i] = {} /\ inputs[i] = << >>
    OBVIOUS
  <2>1. users[i] = {} /\ inputs[i] = << >>
    BY DEF Init
  <2> QED BY <2>1, EmptyList DEF InputSet
<1> QED BY <1>1, <1>2 DEF IndInv, UsersMatchInputs, NoDeadOperands

(* A new instruction becomes a user of each of its arguments.                *)
LEMMA NewOpInv ==
    ASSUME IndInv, NEW i \in Insts, NEW args \in ArgLists, NewOp(i, args)
    PROVE  IndInv'
<1>1. PICK n \in 0 .. MaxInputs : args \in [1 .. n -> Alive]
  BY DEF ArgLists
<1>2. args \in Seq(Insts) /\ Len(args) = n /\ DOMAIN args = 1 .. n
  BY <1>1 DEF Alive
<1>3. TypeOK'
  BY <1>1, <1>2, MaxInputsAssumption DEF IndInv, TypeOK, NewOp
<1>4. \A j \in Insts : InputSet(j)' = IF j = i THEN {args[k] : k \in DOMAIN args} ELSE InputSet(j)
  BY DEF IndInv, TypeOK, NewOp, InputSet
<1>5. inputs[i] = << >> /\ InputSet(i) = {} /\ users[i] = {} /\ i \notin Alive
  <2>1. kind[i] = "dead"
    BY DEF NewOp
  <2>2. inputs[i] = << >> /\ users[i] = {}
    BY <2>1 DEF IndInv, NoDeadOperands
  <2> QED BY <2>1, <2>2 DEF Alive, InputSet
<1>6. \A v \in Insts : users'[v] = IF v \in {args[k] : k \in DOMAIN args}
                                   THEN users[v] \cup {i} ELSE users[v]
  BY DEF IndInv, TypeOK, NewOp
<1>7. UsersMatchInputs'
  <2> SUFFICES ASSUME NEW j \in Insts, NEW v \in Insts
               PROVE  j \in users'[v] <=> v \in InputSet(j)'
    BY DEF UsersMatchInputs
  <2>1. j \in users[v] <=> v \in InputSet(j)
    BY DEF IndInv, UsersMatchInputs
  <2> QED BY <1>4, <1>5, <1>6, <2>1
<1>8. NoDeadOperands'
  <2> SUFFICES ASSUME NEW d \in Insts, kind'[d] = "dead"
               PROVE  /\ inputs'[d] = << >> /\ users'[d] = {}
                      /\ \A j \in Insts : d \notin InputSet(j)' /\ d \notin users'[j]
    BY DEF NoDeadOperands
  <2>1. d # i /\ kind[d] = "dead"
    BY DEF NewOp, IndInv, TypeOK
  <2>2. d \notin {args[k] : k \in DOMAIN args}
    BY <1>1, <1>2, <2>1 DEF Alive
  <2>3. inputs[d] = << >> /\ users[d] = {} /\ \A j \in Insts : d \notin InputSet(j) /\ d \notin users[j]
    BY <2>1 DEF IndInv, NoDeadOperands
  <2>4. inputs'[d] = << >>
    BY <2>1, <2>3 DEF NewOp, IndInv, TypeOK
  <2> QED BY <1>4, <1>6, <2>1, <2>2, <2>3, <2>4
<1> QED BY <1>3, <1>7, <1>8 DEF IndInv

(* A phi or a call starts without inputs.                                    *)
LEMMA NewEmptyInv ==
    ASSUME IndInv, NEW i \in Insts, NEW what \in {"phi", "call"}, NewEmpty(i, what)
    PROVE  IndInv'
<1>1. TypeOK'
  BY DEF IndInv, TypeOK, NewEmpty
<1>2. UsersMatchInputs'
  BY DEF IndInv, UsersMatchInputs, NewEmpty, InputSet
<1>3. NoDeadOperands'
  BY DEF IndInv, TypeOK, NoDeadOperands, NewEmpty, InputSet
<1> QED BY <1>1, <1>2, <1>3 DEF IndInv

(* A failed assertion changes no link.                                       *)
LEMMA AbortInv == IndInv /\ Abort => IndInv'
BY DEF IndInv, TypeOK, UsersMatchInputs, NoDeadOperands, InputSet, Abort

(* Appending an input adds it to the inputs, and nothing else.               *)
LEMMA AddNodeInv ==
    ASSUME IndInv, NEW i \in Insts, NEW v \in Insts, AddNode(i, v)
    PROVE  IndInv'
<1>1. /\ inputs' = [inputs EXCEPT ![i] = Append(@, v)]
      /\ users' = [users EXCEPT ![v] = @ \cup {i}]
      /\ Len(inputs[i]) < MaxInputs /\ kind' = kind /\ aborted' = aborted
      /\ kind[i] # "dead" /\ kind[v] # "dead"
  BY DEF AddNode, AddInput, Alive
<1>2. TypeOK
  BY DEF IndInv
<1>3. TypeOK'
  <2>1. entries' \in [Insts -> Seq(Insts)]
    BY <1>2 DEF TypeOK, AddNode
  <2>2. inputs' \in [Insts -> Seq(Insts)] /\ users' \in [Insts -> SUBSET Insts]
    BY <1>1, <1>2 DEF TypeOK
  <2>3. \A j \in Insts : Len(inputs'[j]) <= MaxInputs
    BY <1>1, <1>2, InputFacts, MaxInputsAssumption DEF TypeOK
  <2> QED BY <1>1, <1>2, <2>1, <2>2, <2>3 DEF TypeOK
<1>4. InputSet(i)' = InputSet(i) \cup {v}
  <2>1. inputs'[i] = Append(inputs[i], v) /\ inputs[i] \in Seq(Insts)
    BY <1>1, <1>2 DEF TypeOK
  <2> QED BY <2>1, AppendSet DEF InputSet
<1>5. \A j \in Insts \ {i} : InputSet(j)' = InputSet(j) /\ inputs'[j] = inputs[j]
  BY <1>1, <1>2 DEF TypeOK, InputSet
<1>6. \A w \in Insts : users'[w] = IF w = v THEN users[w] \cup {i} ELSE users[w]
  BY <1>1, <1>2 DEF TypeOK
<1>7. UsersMatchInputs'
  <2> SUFFICES ASSUME NEW j \in Insts, NEW w \in Insts
               PROVE  j \in users'[w] <=> w \in InputSet(j)'
    BY DEF UsersMatchInputs
  <2>1. j \in users[w] <=> w \in InputSet(j)
    BY DEF IndInv, UsersMatchInputs
  <2> QED BY <1>4, <1>5, <1>6, <2>1
<1>8. NoDeadOperands'
  <2> SUFFICES ASSUME NEW d \in Insts, kind[d] = "dead"
               PROVE  /\ inputs'[d] = << >> /\ users'[d] = {}
                      /\ \A j \in Insts : d \notin InputSet(j)' /\ d \notin users'[j]
    BY <1>1 DEF NoDeadOperands
  <2>1. inputs[d] = << >> /\ users[d] = {} /\ \A j \in Insts : d \notin InputSet(j) /\ d \notin users[j]
    BY DEF IndInv, NoDeadOperands
  <2> QED BY <1>1, <1>4, <1>5, <1>6, <2>1
<1> QED BY <1>3, <1>7, <1>8 DEF IndInv

(* Replacing an operand: the old one loses its user exactly if it stands at  *)
(* no other place.                                                           *)
LEMMA SetInputInv ==
    ASSUME IndInv, NEW i \in Insts, NEW k \in 1 .. MaxInputs, NEW v \in Insts,
           SetInput(i, k, v)
    PROVE  IndInv'
<1> DEFINE gone == inputs[i][k]
<1>1. /\ inputs' = [inputs EXCEPT ![i] = [@ EXCEPT ![k] = v]]
      /\ k \in DOMAIN inputs[i]
      /\ kind' = kind /\ aborted' = aborted /\ entries' = entries
      /\ kind[i] # "dead" /\ kind[v] # "dead"
  BY DEF SetInput, Alive
<1>2. TypeOK
  BY DEF IndInv
<1>3. inputs[i] \in Seq(Insts) /\ gone \in Insts
  BY <1>1, <1>2 DEF TypeOK
<1>4. \A w \in Insts : users'[w] =
        (IF OnlyUse(i, k) /\ w = gone THEN users[w] \ {i} ELSE users[w])
          \cup (IF w = v THEN {i} ELSE {})
  <2>1. CASE OnlyUse(i, k)
    <3>1. users' = [[users EXCEPT ![gone] = @ \ {i}] EXCEPT ![v] = @ \cup {i}]
      BY <2>1 DEF SetInput
    <3> QED BY <2>1, <3>1, <1>2, <1>3 DEF TypeOK
  <2>2. CASE ~OnlyUse(i, k)
    <3>1. users' = [users EXCEPT ![v] = @ \cup {i}]
      BY <2>2 DEF SetInput
    <3> QED BY <2>2, <3>1, <1>2 DEF TypeOK
  <2> QED BY <2>1, <2>2
<1>5. inputs'[i] = [inputs[i] EXCEPT ![k] = v] /\ \A j \in Insts \ {i} : inputs'[j] = inputs[j]
  BY <1>1, <1>2 DEF TypeOK
<1>6. TypeOK'
  <2>1. users' \in [Insts -> SUBSET Insts]
    BY <1>2, <1>3 DEF TypeOK, SetInput
  <2>2. inputs'[i] \in Seq(Insts) /\ Len(inputs'[i]) = Len(inputs[i])
    BY <1>1, <1>3, <1>5
  <2>3. inputs' \in [Insts -> Seq(Insts)] /\ \A j \in Insts : Len(inputs'[j]) <= MaxInputs
    BY <1>1, <1>2, <1>5, <2>2 DEF TypeOK
  <2> QED BY <1>1, <1>2, <2>1, <2>3 DEF TypeOK
<1>7. \A w : w \in InputSet(i)' <=> w = v \/ \E j \in DOMAIN inputs[i] : j # k /\ inputs[i][j] = w
  BY <1>1, <1>3, <1>5 DEF InputSet
<1>8. \A j \in Insts \ {i} : InputSet(j)' = InputSet(j)
  BY <1>5 DEF InputSet
<1>9. UsersMatchInputs'
  <2> SUFFICES ASSUME NEW j \in Insts, NEW w \in Insts
               PROVE  j \in users'[w] <=> w \in InputSet(j)'
    BY DEF UsersMatchInputs
  <2>1. j \in users[w] <=> w \in InputSet(j)
    BY DEF IndInv, UsersMatchInputs
  <2>2. CASE j # i
    BY <1>4, <1>8, <2>1, <2>2
  <2>3. CASE j = i
    <3>1. w \in InputSet(i) <=> w = gone \/ \E l \in DOMAIN inputs[i] : l # k /\ inputs[i][l] = w
      BY <1>1 DEF InputSet
    <3>2. OnlyUse(i, k) <=> ~\E l \in DOMAIN inputs[i] : l # k /\ inputs[i][l] = gone
      BY DEF OnlyUse
    <3>3. i \in users'[w] <=> w = v \/ (i \in users[w] /\ ~(OnlyUse(i, k) /\ w = gone))
      BY <1>4
    <3> QED BY <1>7, <2>1, <2>3, <3>1, <3>2, <3>3
  <2> QED BY <2>2, <2>3
<1>10. NoDeadOperands'
  <2> SUFFICES ASSUME NEW d \in Insts, kind[d] = "dead"
               PROVE  /\ inputs'[d] = << >> /\ users'[d] = {}
                      /\ \A j \in Insts : d \notin InputSet(j)' /\ d \notin users'[j]
    BY <1>1 DEF NoDeadOperands
  <2>1. inputs[d] = << >> /\ users[d] = {} /\ \A j \in Insts : d \notin InputSet(j) /\ d \notin users[j]
    BY DEF IndInv, NoDeadOperands
  <2>2. \A j \in Insts : d \notin InputSet(j)'
    BY <1>1, <1>7, <1>8, <2>1 DEF InputSet
  <2>3. inputs'[d] = << >> /\ users'[d] = {} /\ \A j \in Insts : d \notin users'[j]
    BY <1>1, <1>4, <1>5, <2>1
  <2> QED BY <2>2, <2>3
<1> QED BY <1>6, <1>9, <1>10 DEF IndInv

(* Exchanging two operands changes no set of inputs.                         *)
LEMMA SwapInputsInv ==
    ASSUME IndInv, NEW i \in Insts, NEW k \in 1 .. MaxInputs, NEW l \in 1 .. MaxInputs,
           SwapInputs(i, k, l)
    PROVE  IndInv'
<1>1. /\ inputs' = [inputs EXCEPT ![i] = [@ EXCEPT ![k] = inputs[i][l], ![l] = inputs[i][k]]]
      /\ k \in DOMAIN inputs[i] /\ l \in DOMAIN inputs[i]
      /\ kind' = kind /\ aborted' = aborted /\ entries' = entries /\ users' = users
      /\ kind[i] # "dead"
  BY DEF SwapInputs
<1>2. TypeOK /\ inputs[i] \in Seq(Insts)
  BY DEF IndInv, TypeOK
<1>3. /\ inputs'[i] = [inputs[i] EXCEPT ![k] = inputs[i][l], ![l] = inputs[i][k]]
      /\ \A j \in Insts \ {i} : inputs'[j] = inputs[j]
  BY <1>1, <1>2 DEF TypeOK
<1>4. TypeOK'
  <2>1. inputs'[i] \in Seq(Insts) /\ Len(inputs'[i]) = Len(inputs[i])
    BY <1>1, <1>2, <1>3
  <2>2. inputs' \in [Insts -> Seq(Insts)] /\ \A j \in Insts : Len(inputs'[j]) <= MaxInputs
    BY <1>1, <1>2, <1>3, <2>1 DEF TypeOK
  <2> QED BY <1>1, <1>2, <2>2 DEF TypeOK
<1>5. InputSet(i)' = InputSet(i)
  <2> DEFINE s == inputs[i]
             t == inputs'[i]
  <2>1. /\ DOMAIN t = DOMAIN s /\ k \in DOMAIN s /\ l \in DOMAIN s /\ t[k] = s[l] /\ t[l] = s[k]
        /\ \A j \in DOMAIN s \ {k, l} : t[j] = s[j]
    BY <1>1, <1>2, <1>3
  <2> HIDE DEF s, t
  <2>2. {t[j] : j \in DOMAIN t} = {s[j] : j \in DOMAIN s}
    <3>1. \A j \in DOMAIN t : \E m \in DOMAIN s : t[j] = s[m]
      BY <2>1
    <3>2. \A j \in DOMAIN s : \E m \in DOMAIN t : s[j] = t[m]
      BY <2>1
    <3> QED BY <3>1, <3>2
  <2> QED BY <2>2 DEF s, t, InputSet
<1>6. \A j \in Insts : InputSet(j)' = InputSet(j)
  BY <1>3, <1>5 DEF InputSet
<1>7. UsersMatchInputs'
  BY <1>1, <1>6 DEF IndInv, UsersMatchInputs
<1>8. NoDeadOperands'
  <2> SUFFICES ASSUME NEW d \in Insts, kind[d] = "dead"
               PROVE  /\ inputs'[d] = << >> /\ users'[d] = {}
                      /\ \A j \in Insts : d \notin InputSet(j)' /\ d \notin users'[j]
    BY <1>1 DEF NoDeadOperands
  <2>1. inputs[d] = << >> /\ users[d] = {} /\ \A j \in Insts : d \notin InputSet(j) /\ d \notin users[j]
    BY DEF IndInv, NoDeadOperands
  <2> QED BY <1>1, <1>3, <1>6, <2>1
<1> QED BY <1>4, <1>7, <1>8 DEF IndInv

(* Redirecting puts v in the place of other.                                 *)
LEMMA RedirectedSet ==
    ASSUME TypeOK, NEW i \in Insts, NEW v \in Insts, NEW other \in Insts
    PROVE  LET r == Redirected(i, v, other) IN
           /\ r \in Seq(Insts) /\ Len(r) = Len(inputs[i])
           /\ {r[k] : k \in DOMAIN r} =
                IF other \in InputSet(i) THEN (InputSet(i) \ {other}) \cup {v} ELSE InputSet(i)
<1> DEFINE s == inputs[i]
           r == Redirected(i, v, other)
<1>1. s \in Seq(Insts) /\ DOMAIN s = 1 .. Len(s) /\ Len(s) \in Nat
  BY DEF TypeOK
<1>2. DOMAIN r = DOMAIN s /\ \A k \in DOMAIN s : r[k] = IF s[k] = other THEN v ELSE s[k]
  BY DEF Redirected
<1>3. r \in [1 .. Len(s) -> Insts]
  BY <1>1 DEF Redirected
<1>4. r \in Seq(Insts) /\ Len(r) = Len(s)
  BY <1>1, <1>3
<1>5. {r[k] : k \in DOMAIN r} =
        IF other \in InputSet(i) THEN (InputSet(i) \ {other}) \cup {v} ELSE InputSet(i)
  <2>1. InputSet(i) = {s[k] : k \in DOMAIN s}
    BY DEF InputSet
  <2> HIDE DEF r, s
  <2>2. \A w \in {r[k] : k \in DOMAIN r} :
           (w # other /\ w \in InputSet(i)) \/ (w = v /\ other \in InputSet(i))
    BY <1>2, <2>1
  <2>3. \A w \in InputSet(i) : w # other => w \in {r[k] : k \in DOMAIN r}
    <3> SUFFICES ASSUME NEW k \in DOMAIN s, s[k] # other PROVE s[k] \in {r[l] : l \in DOMAIN r}
      BY <2>1
    <3>1. k \in DOMAIN r /\ r[k] = s[k]
      BY <1>2
    <3> QED BY <3>1
  <2>4. other \in InputSet(i) => v \in {r[k] : k \in DOMAIN r}
    <3> SUFFICES ASSUME NEW k \in DOMAIN s, s[k] = other PROVE v \in {r[l] : l \in DOMAIN r}
      BY <2>1
    <3>1. k \in DOMAIN r /\ r[k] = v
      BY <1>2
    <3> QED BY <3>1
  <2> QED BY <2>2, <2>3, <2>4
<1> QED BY <1>4, <1>5

(* v takes over the users of other: the walk over the users of v finds every *)
(* instruction that reads other, because the users are complete.             *)
LEMMA SetUsersFromInv ==
    ASSUME IndInv, NEW v \in Insts, NEW other \in Insts, SetUsersFrom(v, other)
    PROVE  IndInv'
<1> DEFINE all == users[v] \cup users[other]
<1>1. /\ users' = [users EXCEPT ![v] = all, ![other] = {}]
      /\ inputs' = [i \in Insts |-> IF i \in all THEN Redirected(i, v, other) ELSE inputs[i]]
      /\ kind' = kind /\ aborted' = aborted /\ entries' = entries
      /\ kind[v] # "dead" /\ kind[other] # "dead" /\ v # other
  BY DEF SetUsersFrom, TakeUsers, Alive
<1>2. TypeOK
  BY DEF IndInv
<1>3. \A i, w \in Insts : i \in users[w] <=> w \in InputSet(i)
  BY DEF IndInv, UsersMatchInputs
<1>4. \A w \in Insts : users'[w] = IF w = other THEN {} ELSE IF w = v THEN all ELSE users[w]
  BY <1>1, <1>2 DEF TypeOK
<1>5. \A i \in Insts : /\ inputs'[i] \in Seq(Insts) /\ Len(inputs'[i]) = Len(inputs[i])
                       /\ InputSet(i)' = IF other \in InputSet(i)
                                         THEN (InputSet(i) \ {other}) \cup {v} ELSE InputSet(i)
  <2> SUFFICES ASSUME NEW i \in Insts
               PROVE  /\ inputs'[i] \in Seq(Insts) /\ Len(inputs'[i]) = Len(inputs[i])
                      /\ InputSet(i)' = IF other \in InputSet(i)
                                        THEN (InputSet(i) \ {other}) \cup {v} ELSE InputSet(i)
    OBVIOUS
  <2>1. CASE i \in all
    <3>1. inputs'[i] = Redirected(i, v, other)
      BY <1>1, <2>1
    <3>2. InputSet(i)' = {inputs'[i][k] : k \in DOMAIN inputs'[i]}
      BY DEF InputSet
    <3>3. {inputs'[i][k] : k \in DOMAIN inputs'[i]} =
             {Redirected(i, v, other)[k] : k \in DOMAIN Redirected(i, v, other)}
      BY <3>1, Zenon
    <3>4. /\ Redirected(i, v, other) \in Seq(Insts)
          /\ Len(Redirected(i, v, other)) = Len(inputs[i])
          /\ {Redirected(i, v, other)[k] : k \in DOMAIN Redirected(i, v, other)} =
               IF other \in InputSet(i) THEN (InputSet(i) \ {other}) \cup {v} ELSE InputSet(i)
      BY <1>2, RedirectedSet
    <3>5. InputSet(i)' = IF other \in InputSet(i)
                        THEN (InputSet(i) \ {other}) \cup {v} ELSE InputSet(i)
      BY <3>2, <3>3, <3>4, Zenon
    <3> QED BY <3>1, <3>4, <3>5
  <2>2. CASE i \notin all
    <3>1. inputs'[i] = inputs[i] /\ other \notin InputSet(i)
      BY <1>1, <1>3, <2>2
    <3> QED BY <1>2, <3>1 DEF TypeOK, InputSet
  <2> QED BY <2>1, <2>2
<1>6. TypeOK'
  <2>1. users' \in [Insts -> SUBSET Insts]
    BY <1>1, <1>2 DEF TypeOK
  <2>2. inputs' \in [Insts -> Seq(Insts)] /\ \A i \in Insts : Len(inputs'[i]) <= MaxInputs
    BY <1>1, <1>2, <1>5 DEF TypeOK
  <2> QED BY <1>1, <1>2, <2>1, <2>2 DEF TypeOK
<1>7. UsersMatchInputs'
  <2> SUFFICES ASSUME NEW i \in Insts, NEW w \in Insts
               PROVE  i \in users'[w] <=> w \in InputSet(i)'
    BY DEF UsersMatchInputs
  <2>1. i \in users'[w] <=> w # other /\ (i \in users[w] \/ (w = v /\ i \in users[other]))
    BY <1>4
  <2>2. w \in InputSet(i)' <=> (w # other /\ w \in InputSet(i)) \/ (w = v /\ other \in InputSet(i))
    BY <1>1, <1>5
  <2> QED BY <1>1, <1>3, <2>1, <2>2
<1>8. NoDeadOperands'
  <2> SUFFICES ASSUME NEW d \in Insts, kind[d] = "dead"
               PROVE  /\ inputs'[d] = << >> /\ users'[d] = {}
                      /\ \A j \in Insts : d \notin InputSet(j)' /\ d \notin users'[j]
    BY <1>1 DEF NoDeadOperands
  <2>1. inputs[d] = << >> /\ users[d] = {} /\ \A j \in Insts : d \notin InputSet(j) /\ d \notin users[j]
    BY DEF IndInv, NoDeadOperands
  <2>2. inputs'[d] = inputs[d]
    BY <1>1, <2>1
  <2> QED BY <1>1, <1>4, <1>5, <2>1, <2>2
<1> QED BY <1>6, <1>7, <1>8 DEF IndInv

(* Removing an instruction nothing uses leaves no trace of it.               *)
LEMMA RemoveInstInv ==
    ASSUME IndInv, NEW i \in Insts, RemoveInst(i)
    PROVE  IndInv'
<1>1. CASE ~ClearAsserts(i)
  BY <1>1, AbortInv DEF RemoveInst
<1>2. CASE ClearAsserts(i)
  <2>1. /\ users' = [v \in Insts |-> users[v] \ {i}]
        /\ inputs' = [inputs EXCEPT ![i] = << >>]
        /\ entries' = [entries EXCEPT ![i] = << >>]
        /\ kind' = [kind EXCEPT ![i] = "dead"]
        /\ aborted' = aborted /\ users[i] = {}
    BY <1>2 DEF RemoveInst, Cleared
  <2>2. TypeOK
    BY DEF IndInv
  <2>3. inputs'[i] = << >> /\ \A j \in Insts \ {i} : inputs'[j] = inputs[j]
    BY <2>1, <2>2 DEF TypeOK
  <2>4. InputSet(i)' = {}
    BY <2>3, EmptyList DEF InputSet
  <2>5. \A j \in Insts \ {i} : InputSet(j)' = InputSet(j)
    BY <2>3 DEF InputSet
  <2>6. TypeOK'
    <3>1. inputs' \in [Insts -> Seq(Insts)] /\ entries' \in [Insts -> Seq(Insts)]
      BY <2>1, <2>2, EmptyList DEF TypeOK
    <3>2. kind' \in [Insts -> {"dead", "op", "phi", "call"}] /\ users' \in [Insts -> SUBSET Insts]
      BY <2>1, <2>2 DEF TypeOK
    <3>3. \A j \in Insts : Len(inputs'[j]) <= MaxInputs
      <4> SUFFICES ASSUME NEW j \in Insts PROVE Len(inputs'[j]) <= MaxInputs
        OBVIOUS
      <4>1. CASE j = i
        <5>1. Len(inputs'[j]) = 0
          BY <2>3, <4>1, EmptyList
        <5> QED BY <5>1, MaxInputsAssumption
      <4>2. CASE j # i
        BY <2>2, <2>3, <4>2 DEF TypeOK
      <4> QED BY <4>1, <4>2
    <3> QED BY <2>1, <2>2, <3>1, <3>2, <3>3 DEF TypeOK
  <2>7. UsersMatchInputs'
    <3> SUFFICES ASSUME NEW j \in Insts, NEW w \in Insts
                 PROVE  j \in users'[w] <=> w \in InputSet(j)'
      BY DEF UsersMatchInputs
    <3>1. j \in users[w] <=> w \in InputSet(j)
      BY DEF IndInv, UsersMatchInputs
    <3> QED BY <2>1, <2>4, <2>5, <3>1
  <2>8. NoDeadOperands'
    <3> SUFFICES ASSUME NEW d \in Insts, kind'[d] = "dead"
                 PROVE  /\ inputs'[d] = << >> /\ users'[d] = {}
                        /\ \A j \in Insts : d \notin InputSet(j)' /\ d \notin users'[j]
      BY DEF NoDeadOperands
    <3>1. CASE d = i
      BY <2>1, <2>3, <2>4, <2>5, <3>1 DEF IndInv, UsersMatchInputs
    <3>2. CASE d # i
      <4>1. kind[d] = "dead"
        BY <2>1, <2>2, <3>2 DEF TypeOK
      <4>2. /\ inputs[d] = << >> /\ users[d] = {}
            /\ \A j \in Insts : d \notin InputSet(j) /\ d \notin users[j]
        BY <4>1 DEF IndInv, NoDeadOperands
      <4> QED BY <2>1, <2>3, <2>4, <2>5, <3>2, <4>2
    <3> QED BY <3>1, <3>2
  <2> QED BY <2>6, <2>7, <2>8 DEF IndInv
<1> QED BY <1>1, <1>2

(* The replacing instruction reads nothing of the replaced one afterwards,   *)
(* whose inputs were cleared before its users moved.                         *)
LEMMA ReplaceInstInv ==
    ASSUME IndInv, NEW gone \in Insts, NEW new \in Insts, ReplaceInst(gone, new)
    PROVE  IndInv'
<1>1. CASE ~ClearAsserts(gone)
  BY <1>1, AbortInv DEF ReplaceInst
<1>2. CASE ClearAsserts(gone)
  <2> DEFINE us == Cleared(gone)
             all == us[new] \cup us[gone]
  <2>1. /\ users' = [us EXCEPT ![new] = all, ![gone] = {}]
        /\ inputs' = [i \in Insts |-> IF i = gone THEN << >>
                                      ELSE IF i \in all THEN Redirected(i, new, gone)
                                      ELSE inputs[i]]
        /\ kind' = [kind EXCEPT ![gone] = "dead"]
        /\ aborted' = aborted /\ entries' = entries
        /\ kind[new] # "dead" /\ new # gone
    BY <1>2 DEF ReplaceInst
  <2>2. TypeOK /\ us \in [Insts -> SUBSET Insts]
    BY DEF IndInv, TypeOK, Cleared
  <2>3. \A i, w \in Insts : i \in us[w] <=> i # gone /\ w \in InputSet(i)
    BY DEF IndInv, UsersMatchInputs, Cleared
  <2> HIDE DEF us
  <2>4. \A w \in Insts : users'[w] = IF w = gone THEN {} ELSE IF w = new THEN all ELSE us[w]
    BY <2>1, <2>2
  <2>5. inputs'[gone] = << >> /\ InputSet(gone)' = {}
    <3>1. inputs'[gone] = << >>
      BY <2>1
    <3> QED BY <3>1, EmptyList DEF InputSet
  <2>6. \A i \in Insts \ {gone} :
           /\ inputs'[i] \in Seq(Insts) /\ Len(inputs'[i]) = Len(inputs[i])
           /\ InputSet(i)' = IF gone \in InputSet(i)
                             THEN (InputSet(i) \ {gone}) \cup {new} ELSE InputSet(i)
    <3> SUFFICES ASSUME NEW i \in Insts \ {gone}
                 PROVE  /\ inputs'[i] \in Seq(Insts) /\ Len(inputs'[i]) = Len(inputs[i])
                        /\ InputSet(i)' = IF gone \in InputSet(i)
                                          THEN (InputSet(i) \ {gone}) \cup {new} ELSE InputSet(i)
      OBVIOUS
    <3>1. CASE i \in all
      <4>1. inputs'[i] = Redirected(i, new, gone)
        BY <2>1, <3>1
      <4>2. InputSet(i)' = {inputs'[i][k] : k \in DOMAIN inputs'[i]}
        BY DEF InputSet
      <4>3. {inputs'[i][k] : k \in DOMAIN inputs'[i]} =
               {Redirected(i, new, gone)[k] : k \in DOMAIN Redirected(i, new, gone)}
        BY <4>1, Zenon
      <4>4. /\ Redirected(i, new, gone) \in Seq(Insts)
            /\ Len(Redirected(i, new, gone)) = Len(inputs[i])
            /\ {Redirected(i, new, gone)[k] : k \in DOMAIN Redirected(i, new, gone)} =
                 IF gone \in InputSet(i) THEN (InputSet(i) \ {gone}) \cup {new} ELSE InputSet(i)
        BY <2>2, RedirectedSet
      <4>5. InputSet(i)' = IF gone \in InputSet(i)
                          THEN (InputSet(i) \ {gone}) \cup {new} ELSE InputSet(i)
        BY <4>2, <4>3, <4>4, Zenon
      <4> QED BY <4>1, <4>4, <4>5
    <3>2. CASE i \notin all
      <4>1. inputs'[i] = inputs[i] /\ gone \notin InputSet(i)
        BY <2>1, <2>3, <3>2
      <4> QED BY <2>2, <4>1 DEF TypeOK, InputSet
    <3> QED BY <3>1, <3>2
  <2>7. TypeOK'
    <3>1. users' \in [Insts -> SUBSET Insts] /\ kind' \in [Insts -> {"dead", "op", "phi", "call"}]
      BY <2>1, <2>2 DEF TypeOK
    <3>2. inputs' \in [Insts -> Seq(Insts)]
      <4>1. \A i \in Insts : inputs'[i] \in Seq(Insts)
        BY <2>5, <2>6, EmptyList
      <4>2. DOMAIN inputs' = Insts /\ inputs' = [i \in Insts |-> inputs'[i]]
        BY <2>1
      <4> QED BY <4>1, <4>2
    <3>3. \A j \in Insts : Len(inputs'[j]) <= MaxInputs
      <4> SUFFICES ASSUME NEW j \in Insts PROVE Len(inputs'[j]) <= MaxInputs
        OBVIOUS
      <4>1. CASE j = gone
        <5>1. Len(inputs'[j]) = 0
          BY <2>5, <4>1, EmptyList
        <5> QED BY <5>1, MaxInputsAssumption
      <4>2. CASE j # gone
        BY <2>2, <2>6, <4>2 DEF TypeOK
      <4> QED BY <4>1, <4>2
    <3> QED BY <2>1, <2>2, <3>1, <3>2, <3>3 DEF TypeOK
  <2>8. UsersMatchInputs'
    <3> SUFFICES ASSUME NEW i \in Insts, NEW w \in Insts
                 PROVE  i \in users'[w] <=> w \in InputSet(i)'
      BY DEF UsersMatchInputs
    <3>1. i \in users'[w] <=> w # gone /\ (i \in us[w] \/ (w = new /\ i \in us[gone]))
      BY <2>4
    <3>2. CASE i = gone
      BY <2>3, <2>5, <3>1, <3>2
    <3>3. CASE i # gone
      <4>1. w \in InputSet(i)' <=> (w # gone /\ w \in InputSet(i)) \/ (w = new /\ gone \in InputSet(i))
        BY <2>1, <2>6, <3>3
      <4> QED BY <2>1, <2>3, <3>1, <3>3, <4>1
    <3> QED BY <3>2, <3>3
  <2>9. NoDeadOperands'
    <3> SUFFICES ASSUME NEW d \in Insts, kind'[d] = "dead"
                 PROVE  /\ inputs'[d] = << >> /\ users'[d] = {}
                        /\ \A j \in Insts : d \notin InputSet(j)' /\ d \notin users'[j]
      BY DEF NoDeadOperands
    <3>1. CASE d = gone
      <4>1. \A j \in Insts : gone \notin InputSet(j)'
        BY <2>1, <2>5, <2>6
      <4>2. \A j \in Insts : gone \notin users'[j]
        <5> SUFFICES ASSUME NEW j \in Insts PROVE gone \notin users'[j]
          OBVIOUS
        <5>1. gone \notin us[j] /\ gone \notin us[gone] /\ gone \notin us[new]
          BY <2>3
        <5> QED BY <2>4, <5>1
      <4> QED BY <2>4, <2>5, <3>1, <4>1, <4>2
    <3>2. CASE d # gone
      <4>1. kind[d] = "dead" /\ d # new
        BY <2>1, <2>2, <3>2 DEF TypeOK
      <4>2. /\ inputs[d] = << >> /\ users[d] = {}
            /\ \A j \in Insts : d \notin InputSet(j) /\ d \notin users[j]
        BY <4>1 DEF IndInv, NoDeadOperands
      <4>3. InputSet(d) = {}
        BY <4>2, EmptyList DEF InputSet
      <4>4. d \notin all /\ inputs'[d] = << >>
        BY <2>1, <2>3, <3>2, <4>2, <4>3
      <4>5. \A j \in Insts : d \notin InputSet(j)'
        BY <2>5, <2>6, <4>1, <4>2
      <4>6. users'[d] = {} /\ \A j \in Insts : d \notin users'[j]
        BY <2>2, <2>3, <2>4, <3>2, <4>1, <4>2, <4>3, <4>4
      <4> QED BY <4>4, <4>5, <4>6
    <3> QED BY <3>1, <3>2
  <2> QED BY <2>7, <2>8, <2>9 DEF IndInv
<1> QED BY <1>1, <1>2

(* Both directions of the def-use links agree in every reachable state, and  *)
(* no operand has been freed.                                                *)
THEOREM Invariance == Spec => []IndInv
<1>1. IndInv /\ [Next]_vars => IndInv'
  <2> SUFFICES ASSUME IndInv, [Next]_vars PROVE IndInv'
    OBVIOUS
  <2>1. CASE UNCHANGED vars
    BY <2>1 DEF vars, IndInv, TypeOK, UsersMatchInputs, NoDeadOperands, InputSet
  <2>2. CASE Next
    BY <2>2, NewOpInv, NewEmptyInv, AddNodeInv, SetInputInv, SwapInputsInv,
       SetUsersFromInv, RemoveInstInv, ReplaceInstInv DEF Next
  <2> QED BY <2>1, <2>2
<1> QED BY InitInv, <1>1, PTL DEF Spec

(* The users of a value are the instructions that read it.                   *)
THEOREM UsersMatch == Spec => []UsersMatchInputs
BY Invariance, PTL DEF IndInv

(* Nothing reads a freed instruction.                                        *)
THEOREM OperandsLive == Spec => []NoDeadOperands
BY Invariance, PTL DEF IndInv

-----------------------------------------------------------------------------
(* The order of a list, and what the passes do to it.                        *)

(* x stands in front of y in s.                                              *)
Precedes(s, x, y) == \E k, l \in DOMAIN s : k < l /\ s[k] = x /\ s[l] = y

(* What Selected yields: the elements of s in T, in their order.             *)
LEMMA SelectedFacts ==
    ASSUME NEW S, NEW s \in Seq(S), NEW T
    PROVE  /\ Selected(s, T) \in Seq(S)
           /\ ToSet(Selected(s, T)) = ToSet(s) \cap T
           /\ \A m, l \in DOMAIN Selected(s, T) :
                 m < l => Precedes(s, Selected(s, T)[m], Selected(s, T)[l])
<1>1. PICK t, n : t = Selected(s, T) /\ n = Len(s)
  OBVIOUS
<1>2. n \in Nat /\ DOMAIN s = 1 .. n /\ t \in Seq(S) /\ SelectedOf(s, T, n, t)
  BY <1>1, SelectedIs
<1>3. ToSet(t) = ToSet(s) \cap T
  <2>1. \A x : x \in ToSet(t) <=> \E m \in DOMAIN t : t[m] = x
    BY DEF ToSet
  <2>2. \A x : x \in ToSet(s) <=> \E a \in 1 .. n : s[a] = x
    BY <1>2 DEF ToSet
  <2>3. \A x : x \in ToSet(t) <=> x \in T /\ x \in ToSet(s)
    BY <1>2, <2>1, <2>2 DEF SelectedOf
  <2> QED BY <2>3
<1>4. ASSUME NEW m \in DOMAIN t, NEW l \in DOMAIN t, m < l PROVE Precedes(s, t[m], t[l])
  <2>1. PICK a, b \in 1 .. n : a < b /\ s[a] = t[m] /\ s[b] = t[l]
    BY <1>2, <1>4 DEF SelectedOf
  <2> QED BY <1>2, <2>1 DEF Precedes
<1> QED BY <1>1, <1>2, <1>3, <1>4

(* In a list without repetition the order of its elements is a strict and    *)
(* total one.                                                                *)
LEMMA PrecedesOrder ==
    ASSUME NEW S, NEW s \in Seq(S), IsInjective(s)
    PROVE  /\ \A x, y : Precedes(s, x, y) => x \in ToSet(s) /\ y \in ToSet(s) /\ x # y
                                             /\ ~Precedes(s, y, x)
           /\ \A x, y, z : Precedes(s, x, y) /\ Precedes(s, y, z) => Precedes(s, x, z)
           /\ \A x, y \in ToSet(s) : x # y => Precedes(s, x, y) \/ Precedes(s, y, x)
<1>1. DOMAIN s \subseteq Int /\ \A k, l \in DOMAIN s : s[k] = s[l] => k = l
  BY DEF IsInjective
<1>2. \A x : x \in ToSet(s) <=> \E k \in DOMAIN s : s[k] = x
  BY DEF ToSet
<1> HIDE DEF IsInjective
<1>3. ASSUME NEW x, NEW y, Precedes(s, x, y)
      PROVE  x \in ToSet(s) /\ y \in ToSet(s) /\ x # y /\ ~Precedes(s, y, x)
  <2>1. PICK k, l \in DOMAIN s : k < l /\ s[k] = x /\ s[l] = y
    BY <1>3 DEF Precedes
  <2>2. x \in ToSet(s) /\ y \in ToSet(s)
    BY <1>2, <2>1
  <2>3. x # y
    BY <1>1, <2>1
  <2>4. ASSUME NEW a \in DOMAIN s, NEW b \in DOMAIN s, a < b, s[a] = y, s[b] = x PROVE FALSE
    BY <1>1, <2>1, <2>4
  <2> QED BY <2>2, <2>3, <2>4 DEF Precedes
<1>4. ASSUME NEW x, NEW y, NEW z, Precedes(s, x, y), Precedes(s, y, z) PROVE Precedes(s, x, z)
  <2>1. PICK k, l \in DOMAIN s : k < l /\ s[k] = x /\ s[l] = y
    BY <1>4 DEF Precedes
  <2>2. PICK a, b \in DOMAIN s : a < b /\ s[a] = y /\ s[b] = z
    BY <1>4 DEF Precedes
  <2>3. a = l /\ k < b
    BY <1>1, <2>1, <2>2
  <2> QED BY <2>1, <2>2, <2>3 DEF Precedes
<1>5. ASSUME NEW x \in ToSet(s), NEW y \in ToSet(s), x # y
      PROVE  Precedes(s, x, y) \/ Precedes(s, y, x)
  <2>1. PICK k \in DOMAIN s : s[k] = x
    BY <1>2
  <2>2. PICK l \in DOMAIN s : s[l] = y
    BY <1>2
  <2>3. k < l \/ l < k
    BY <1>1, <1>5, <2>1, <2>2
  <2> QED BY <2>1, <2>2, <2>3 DEF Precedes
<1> QED BY <1>3, <1>4, <1>5

(* Selecting keeps the order of what is selected.                            *)
LEMMA SelectedOrder ==
    ASSUME NEW S, NEW s \in Seq(S), NEW T, IsInjective(s)
    PROVE  /\ IsInjective(Selected(s, T))
           /\ \A x, y \in T : Precedes(s, x, y) => Precedes(Selected(s, T), x, y)
<1>1. PICK t : t = Selected(s, T)
  OBVIOUS
<1>2. t \in Seq(S) /\ ToSet(t) = ToSet(s) \cap T
      /\ \A m, l \in DOMAIN t : m < l => Precedes(s, t[m], t[l])
  BY <1>1, SelectedFacts
<1>3. /\ \A x, y : Precedes(s, x, y) => x \in ToSet(s) /\ y \in ToSet(s) /\ x # y
                                        /\ ~Precedes(s, y, x)
  BY PrecedesOrder
<1>4. IsInjective(t)
  <2> SUFFICES ASSUME NEW m \in DOMAIN t, NEW l \in DOMAIN t, t[m] = t[l] PROVE m = l
    BY DEF IsInjective
  <2>1. m \in Int /\ l \in Int
    BY <1>2
  <2>2. ~(m < l) /\ ~(l < m)
    BY <1>2, <1>3
  <2> QED BY <2>1, <2>2
<1>5. ASSUME NEW x \in T, NEW y \in T, Precedes(s, x, y) PROVE Precedes(t, x, y)
  <2>1. x \in ToSet(t) /\ y \in ToSet(t) /\ x # y /\ ~Precedes(s, y, x)
    BY <1>2, <1>3, <1>5
  <2>2. PICK m \in DOMAIN t : t[m] = x
    BY <2>1 DEF ToSet
  <2>3. PICK l \in DOMAIN t : t[l] = y
    BY <2>1 DEF ToSet
  <2>4. m \in Int /\ l \in Int /\ m # l /\ ~(l < m)
    BY <1>2, <2>1, <2>2, <2>3
  <2> QED BY <2>2, <2>3, <2>4 DEF Precedes
<1> QED BY <1>1, <1>4, <1>5

(* An element in the place of another.                                       *)
Instead(s, gone, new) == [k \in DOMAIN s |-> IF s[k] = gone THEN new ELSE s[k]]
Renamed(x, gone, new) == IF x = gone THEN new ELSE x

(* It takes over the order too.                                              *)
LEMMA InsteadFacts ==
    ASSUME NEW S, NEW s \in Seq(S), IsInjective(s), NEW gone \in ToSet(s), NEW new \in S \ ToSet(s)
    PROVE  /\ Instead(s, gone, new) \in Seq(S)
           /\ ToSet(Instead(s, gone, new)) = (ToSet(s) \ {gone}) \cup {new}
           /\ IsInjective(Instead(s, gone, new))
           /\ \A x, y : Precedes(s, x, y) =>
                 Precedes(Instead(s, gone, new), Renamed(x, gone, new), Renamed(y, gone, new))
<1>1. PICK t : t = Instead(s, gone, new)
  OBVIOUS
<1>2. DOMAIN t = DOMAIN s /\ \A k \in DOMAIN s : t[k] = IF s[k] = gone THEN new ELSE s[k]
  BY <1>1 DEF Instead
<1>3. DOMAIN s = 1 .. Len(s) /\ Len(s) \in Nat /\ \A k \in DOMAIN s : s[k] \in S
  OBVIOUS
<1>4. t \in Seq(S)
  <2>1. t \in [1 .. Len(s) -> S]
    BY <1>1, <1>2, <1>3 DEF Instead
  <2> QED BY <1>3, <2>1
<1>5. \A x : x \in ToSet(s) <=> \E k \in DOMAIN s : s[k] = x
  BY DEF ToSet
<1>6. \A x : x \in ToSet(t) <=> \E k \in DOMAIN s : t[k] = x
  BY <1>2 DEF ToSet
<1>7. ToSet(t) = (ToSet(s) \ {gone}) \cup {new}
  <2>1. \A x : x \in ToSet(t) => x = new \/ (x # gone /\ x \in ToSet(s))
    BY <1>2, <1>5, <1>6
  <2>2. new \in ToSet(t)
    BY <1>2, <1>5, <1>6
  <2>3. \A x \in ToSet(s) : x # gone => x \in ToSet(t)
    <3> SUFFICES ASSUME NEW x \in ToSet(s), x # gone PROVE x \in ToSet(t)
      OBVIOUS
    <3>1. PICK k \in DOMAIN s : s[k] = x
      BY <1>5
    <3>2. t[k] = x
      BY <1>2, <3>1
    <3> QED BY <1>6, <3>2
  <2>4. gone # new
    OBVIOUS
  <2> QED BY <2>1, <2>2, <2>3, <2>4
<1>8. IsInjective(t)
  <2> SUFFICES ASSUME NEW k \in DOMAIN s, NEW l \in DOMAIN s, t[k] = t[l] PROVE k = l
    BY <1>2 DEF IsInjective
  <2>1. s[k] # new /\ s[l] # new
    BY <1>5
  <2>2. s[k] = s[l]
    BY <1>2, <2>1
  <2> QED BY <2>2 DEF IsInjective
<1>9. ASSUME NEW x, NEW y, Precedes(s, x, y)
      PROVE  Precedes(t, Renamed(x, gone, new), Renamed(y, gone, new))
  <2>1. PICK k, l \in DOMAIN s : k < l /\ s[k] = x /\ s[l] = y
    BY <1>9 DEF Precedes
  <2>2. k \in DOMAIN t /\ l \in DOMAIN t /\ t[k] = Renamed(x, gone, new) /\ t[l] = Renamed(y, gone, new)
    BY <1>2, <2>1 DEF Renamed
  <2> QED BY <2>1, <2>2 DEF Precedes
<1> QED BY <1>1, <1>4, <1>7, <1>8, <1>9

(* The first of a list whose elements are in the order of s stands in front  *)
(* of the others, and they are in that order.                                *)
LEMMA TailOrdered ==
    ASSUME NEW S, NEW r \in Seq(S), r # << >>, NEW s,
           \A k, l \in DOMAIN r : k < l => Precedes(s, r[k], r[l])
    PROVE  /\ Head(r) \in ToSet(r) /\ Tail(r) \in Seq(S) /\ ToSet(Tail(r)) \subseteq ToSet(r)
           /\ \A x \in ToSet(Tail(r)) : Precedes(s, Head(r), x)
           /\ \A k, l \in DOMAIN Tail(r) : k < l => Precedes(s, Tail(r)[k], Tail(r)[l])
<1>1. PICK t, n : t = Tail(r) /\ n = Len(r)
  OBVIOUS
<1>2. /\ t \in Seq(S) /\ n \in Nat /\ n > 0 /\ DOMAIN r = 1 .. n /\ DOMAIN t = 1 .. n - 1
      /\ Head(r) = r[1] /\ \A k \in DOMAIN t : t[k] = r[k + 1]
  BY <1>1
<1>3. 1 \in DOMAIN r /\ \A k \in DOMAIN t : k + 1 \in DOMAIN r /\ 1 < k + 1
  BY <1>2
<1>4. Head(r) \in ToSet(r)
  BY <1>2, <1>3 DEF ToSet
<1>5. ToSet(t) \subseteq ToSet(r)
  BY <1>2, <1>3 DEF ToSet
<1>6. ASSUME NEW x \in ToSet(t) PROVE Precedes(s, Head(r), x)
  <2>1. PICK k \in DOMAIN t : t[k] = x
    BY DEF ToSet
  <2> QED BY <1>2, <1>3, <2>1
<1>7. ASSUME NEW k \in DOMAIN t, NEW l \in DOMAIN t, k < l PROVE Precedes(s, t[k], t[l])
  <2>1. k + 1 < l + 1
    BY <1>2, <1>7
  <2> QED BY <1>2, <1>3, <2>1
<1> QED BY <1>1, <1>2, <1>4, <1>5, <1>6, <1>7

-----------------------------------------------------------------------------
(* The numbers of the types, and what is computed with them.                 *)

(* The powers up to the n-th, each twice the one before.                     *)
PowersTo(n) == {p \in [0 .. n -> Nat \ {0}] : p[0] = 1 /\ \A k \in 1 .. n : p[k] = 2 * p[k - 1]}

(* TwoTo is the last of them.                                                *)
LEMMA TwoToRuns ==
    ASSUME NEW n \in Nat
    PROVE  \E p \in PowersTo(n) : TwoTo(n) = p[n]
<1> DEFINE Pos == Nat \ {0}
           D == [k \in 1 .. n |-> [x \in Pos |-> 2 * x]]
           Def(h) == [k \in 0 .. n |-> IF k = 0 THEN 1 ELSE 2 * h[k - 1]]
<1>1. D \in Rounds(Pos, n)
  BY DEF Rounds
<1>2. PICK g : g \in Executions(Pos, n, 1, D)
  <2> 1 \in Pos
    OBVIOUS
  <2> HIDE DEF D, Pos
  <2> QED BY <1>1, ExecutionExists
<1>3. g \in [0 .. n -> Pos] /\ g[0] = 1 /\ \A k \in 1 .. n : g[k] = D[k][g[k - 1]]
  BY <1>2 DEF Executions
<1>4. \A k \in 1 .. n : g[k - 1] \in Pos /\ g[k] = 2 * g[k - 1]
  <2>1. \A k \in 1 .. n : k - 1 \in 0 .. n /\ g[k - 1] \in Pos
    BY <1>3
  <2>2. \A k \in 1 .. n : D[k] = [x \in Pos |-> 2 * x]
    OBVIOUS
  <2> HIDE DEF D, Pos
  <2> QED BY <1>3, <2>1, <2>2
<1>5. g = Def(g)
  <2>1. \A k \in 0 .. n : g[k] = IF k = 0 THEN 1 ELSE 2 * g[k - 1]
    <3> SUFFICES ASSUME NEW k \in 0 .. n PROVE g[k] = IF k = 0 THEN 1 ELSE 2 * g[k - 1]
      OBVIOUS
    <3>1. k = 0 \/ k \in 1 .. n
      OBVIOUS
    <3> QED BY <1>3, <1>4, <3>1
  <2> HIDE DEF D
  <2> QED BY <1>3, <2>1
<1>6. PICK f : f = CHOOSE h : h = Def(h)
  OBVIOUS
<1>7. f = Def(f)
  <2> HIDE DEF Def
  <2> QED BY <1>5, <1>6
<1>8. TwoTo(n) = f[n]
  BY <1>6 DEF TwoTo
<1>9. f[0] = 1 /\ \A k \in 1 .. n : f[k] = 2 * f[k - 1]
  <2>1. \A k \in 0 .. n : f[k] = IF k = 0 THEN 1 ELSE 2 * f[k - 1]
    BY <1>7
  <2>2. 0 \in 0 .. n /\ \A k \in 1 .. n : k \in 0 .. n /\ k # 0
    OBVIOUS
  <2> QED BY <2>1, <2>2
<1>10. DOMAIN f = 0 .. n /\ f = [k \in 0 .. n |-> f[k]]
  BY <1>7
<1> HIDE DEF Def, D
<1> DEFINE P == {k \in 0 .. n : f[k] \in Pos}
<1>11. 0 \in P
  BY <1>9
<1>12. ASSUME NEW k \in 1 .. n, k - 1 \in P PROVE k \in P
  <2>1. PICK x : x = f[k - 1]
    OBVIOUS
  <2>2. x \in Pos /\ f[k] = 2 * x
    BY <1>9, <1>12, <2>1
  <2>3. 2 * x \in Pos /\ k \in 0 .. n
    BY <2>2
  <2> QED BY <2>2, <2>3
<1>13. P \in SUBSET (0 .. n)
  OBVIOUS
<1>14. P = 0 .. n
  <2> HIDE DEF P
  <2> QED BY <1>11, <1>12, <1>13, RangeInduction
<1>15. \A k \in 0 .. n : f[k] \in Pos
  BY <1>14
<1>16. f \in [0 .. n -> Pos]
  <2> HIDE DEF Pos, P
  <2> QED BY <1>10, <1>15
<1> QED BY <1>8, <1>9, <1>16 DEF PowersTo

(* The powers of two.                                                        *)
LEMMA TwoToFacts ==
    /\ \A n \in Nat : TwoTo(n) \in Nat \ {0}
    /\ \A n \in Nat : TwoTo(n + 1) = 2 * TwoTo(n)
<1>1. \A n \in Nat : TwoTo(n) \in Nat \ {0}
  <2> SUFFICES ASSUME NEW n \in Nat PROVE TwoTo(n) \in Nat \ {0}
    OBVIOUS
  <2>1. PICK p \in PowersTo(n) : TwoTo(n) = p[n]
    BY TwoToRuns
  <2>2. n \in 0 .. n
    OBVIOUS
  <2> QED BY <2>1, <2>2 DEF PowersTo
<1>2. ASSUME NEW n \in Nat PROVE TwoTo(n + 1) = 2 * TwoTo(n)
  <2>1. PICK p \in PowersTo(n) : TwoTo(n) = p[n]
    BY TwoToRuns
  <2>2. PICK q \in PowersTo(n + 1) : TwoTo(n + 1) = q[n + 1]
    <3> n + 1 \in Nat
      OBVIOUS
    <3> QED BY TwoToRuns
  <2>3. p[0] = 1 /\ \A k \in 1 .. n : p[k] = 2 * p[k - 1]
    BY DEF PowersTo
  <2>4. q[0] = 1 /\ \A k \in 1 .. n + 1 : q[k] = 2 * q[k - 1]
    BY DEF PowersTo
  <2> DEFINE P == {k \in 0 .. n : p[k] = q[k]}
  <2>5. 0 \in P
    BY <2>3, <2>4
  <2>6. ASSUME NEW k \in 1 .. n, k - 1 \in P PROVE k \in P
    <3>1. k \in 1 .. n + 1 /\ k \in 0 .. n
      OBVIOUS
    <3>2. p[k] = 2 * p[k - 1] /\ q[k] = 2 * q[k - 1] /\ p[k - 1] = q[k - 1]
      BY <2>3, <2>4, <2>6, <3>1
    <3>3. p[k] = q[k]
      BY <3>2
    <3> QED BY <3>1, <3>3
  <2>7. P \in SUBSET (0 .. n)
    OBVIOUS
  <2>8. P = 0 .. n
    <3> HIDE DEF P
    <3> QED BY <2>5, <2>6, <2>7, RangeInduction
  <2>9. p[n] = q[n]
    <3>1. n \in P
      <4> HIDE DEF P
      <4> QED BY <2>8
    <3> QED BY <3>1
  <2>10. q[n + 1] = 2 * q[n]
    <3>1. n + 1 \in 1 .. n + 1 /\ (n + 1) - 1 = n
      OBVIOUS
    <3> QED BY <2>4, <3>1
  <2> QED BY <2>1, <2>2, <2>9, <2>10
<1> QED BY <1>1, <1>2

(* The bits of a type but one.                                               *)
LEMMA WidthFacts ==
    ASSUME NEW t \in Types
    PROVE  /\ Bits[t] \in Nat \ {0} /\ Digits(t) \in Nat
           /\ TwoTo(Bits[t] - 1) \in Nat \ {0} /\ TwoTo(Bits[t]) = 2 * TwoTo(Bits[t] - 1)
           /\ t # "I1" => Bits[t] > 1
<1>1. Bits["I8"] \in Nat /\ Bits["I8"] > 1
  BY BitsAssumption
<1>2. Bits[t] \in Nat \ {0} /\ (t # "I1" => Bits[t] > 1)
  BY <1>1, BitsAssumption
<1>3. Digits(t) \in Nat
  BY <1>2 DEF Digits
<1>4. PICK n \in Nat : n = Bits[t] - 1
  BY <1>2
<1>5. Bits[t] = n + 1
  BY <1>2, <1>4
<1> QED BY <1>2, <1>3, <1>4, <1>5, TwoToFacts

(* What has been cast to a type is one of its numbers.                       *)
LEMMA NarrowFits ==
    ASSUME NEW t \in Types, NEW n \in Int
    PROVE  Narrow(t, n) \in Values(t)
<1>1. CASE t = "I1"
  BY <1>1 DEF Narrow, Values
<1>2. CASE t # "I1"
  <2>1. PICK h \in Nat \ {0} : h = TwoTo(Bits[t] - 1) /\ TwoTo(Bits[t]) = 2 * h
    BY WidthFacts
  <2>2. PICK r : r = (n + h) % (2 * h)
    OBVIOUS
  <2>3. r \in 0 .. 2 * h - 1
    BY <2>2
  <2>4. r - h \in -h .. h - 1
    BY <2>3
  <2> QED BY <1>2, <2>1, <2>2, <2>4 DEF Narrow, Values
<1> QED BY <1>1, <1>2

(* The numbers of a type are integers, and among them are 0 and 1.           *)
LEMMA ValuesFacts ==
    ASSUME NEW t \in Types
    PROVE  Values(t) \subseteq Int /\ 0 \in Values(t) /\ 1 \in Values(t)
<1>1. CASE t = "I1"
  BY <1>1 DEF Values
<1>2. CASE t # "I1"
  <2>1. PICK n \in Nat : n + 1 = Bits[t] - 1
    BY <1>2, WidthFacts
  <2>2. PICK h \in Nat \ {0} : h = TwoTo(n)
    BY TwoToFacts
  <2>3. TwoTo(Bits[t] - 1) = 2 * h
    BY <2>1, <2>2, TwoToFacts
  <2>4. Values(t) = -(2 * h) .. 2 * h - 1
    BY <1>2, <2>3 DEF Values
  <2> QED BY <2>4
<1> QED BY <1>1, <1>2

(* A quotient is no further from zero than what is divided.                  *)
LEMMA QuotientBounds ==
    ASSUME NEW h \in Nat, NEW a \in -h .. h - 1, NEW k \in Nat \ {0}
    PROVE  a \div k \in -h .. h - 1
<1>1. PICK q, r : q = a \div k /\ r = a % k
  OBVIOUS
<1>2. q \in Int /\ r \in 0 .. k - 1 /\ a = k * q + r
  BY <1>1
<1>3. q >= -h
  <2> SUFFICES ASSUME q < -h PROVE FALSE
    BY <1>2
  <2>1. q + 1 <= -h
    BY <1>2
  <2>2. k * (q + 1) <= q + 1
    <3>1. q + 1 <= 0 /\ k >= 1
      BY <1>2, <2>1
    <3> QED BY <1>2, <3>1
  <2>3. a < k * (q + 1)
    BY <1>2
  <2> QED BY <1>2, <2>1, <2>2, <2>3
<1>4. q <= h - 1
  <2> SUFFICES ASSUME q >= h PROVE FALSE
    BY <1>2
  <2>1. k * q >= q
    <3>1. q >= 0 /\ k >= 1
      BY <1>2
    <3> QED BY <1>2, <3>1
  <2> QED BY <1>2, <2>1
<1> QED BY <1>1, <1>2, <1>3, <1>4

(* or is computed at the width of its type.                                  *)
LEMMA OrFits ==
    ASSUME NEW t \in Types, NEW a, NEW b
    PROVE  Or(t, a, b) \in Values(t)
<1> DEFINE n == Bits[t]
           Part(k) == IF 1 \in {Bit(a, k - 1), Bit(b, k - 1)} THEN TwoTo(k - 1) ELSE 0
           D == [k \in 1 .. n |-> [x \in Int |-> x + Part(k)]]
           Def(h) == [k \in 0 .. n |->
                        IF k = 0 THEN 0
                        ELSE h[k - 1] + IF 1 \in {Bit(a, k - 1), Bit(b, k - 1)} THEN TwoTo(k - 1) ELSE 0]
<1>1. n \in Nat
  BY WidthFacts
<1>2. \A k \in 1 .. n : Part(k) \in Int
  <2> SUFFICES ASSUME NEW k \in 1 .. n PROVE Part(k) \in Int
    OBVIOUS
  <2>1. k - 1 \in Nat
    BY <1>1
  <2>2. TwoTo(k - 1) \in Int
    BY <2>1, TwoToFacts
  <2> QED BY <2>2
<1> HIDE DEF Part, n
<1>3. D \in Rounds(Int, n)
  BY <1>2 DEF Rounds
<1>4. PICK g : g \in Executions(Int, n, 0, D)
  <2> 0 \in Int
    OBVIOUS
  <2> HIDE DEF D
  <2> QED BY <1>1, <1>3, ExecutionExists
<1>5. g \in [0 .. n -> Int] /\ g[0] = 0 /\ \A k \in 1 .. n : g[k] = D[k][g[k - 1]]
  BY <1>4 DEF Executions
<1>6. \A k \in 1 .. n : g[k] = g[k - 1] + Part(k)
  <2>1. \A k \in 1 .. n : k - 1 \in 0 .. n /\ g[k - 1] \in Int
    BY <1>1, <1>5
  <2>2. \A k \in 1 .. n : D[k] = [x \in Int |-> x + Part(k)]
    OBVIOUS
  <2> HIDE DEF D
  <2> QED BY <1>5, <2>1, <2>2, ZenonT(30)
<1>7. g = Def(g)
  <2>1. \A k \in 0 .. n : g[k] = IF k = 0 THEN 0 ELSE g[k - 1] + Part(k)
    <3> SUFFICES ASSUME NEW k \in 0 .. n PROVE g[k] = IF k = 0 THEN 0 ELSE g[k - 1] + Part(k)
      OBVIOUS
    <3>1. k = 0 \/ k \in 1 .. n
      BY <1>1
    <3> QED BY <1>5, <1>6, <3>1
  <2> HIDE DEF D
  <2> QED BY <1>5, <2>1 DEF Part
<1>8. PICK f : f = CHOOSE h : h = Def(h)
  OBVIOUS
<1>9. f = Def(f)
  <2> HIDE DEF Def
  <2> QED BY <1>7, <1>8
<1>10. Or(t, a, b) = Narrow(t, f[n])
  BY <1>8 DEF Or, n
<1>11. \A k \in 0 .. n : f[k] = IF k = 0 THEN 0 ELSE f[k - 1] + Part(k)
  BY <1>9 DEF Part
<1>12. f[0] = 0 /\ \A k \in 1 .. n : f[k] = f[k - 1] + Part(k)
  <2>1. 0 \in 0 .. n /\ \A k \in 1 .. n : k \in 0 .. n /\ k # 0
    BY <1>1
  <2> QED BY <1>11, <2>1
<1> HIDE DEF Def, D
<1> DEFINE P == {k \in 0 .. n : f[k] \in Int}
<1>13. 0 \in P
  BY <1>1, <1>12
<1>14. ASSUME NEW k \in 1 .. n, k - 1 \in P PROVE k \in P
  <2>1. f[k] \in Int /\ k \in 0 .. n
    BY <1>1, <1>2, <1>12, <1>14
  <2> QED BY <2>1
<1>15. P \in SUBSET (0 .. n)
  OBVIOUS
<1>16. P = 0 .. n
  <2> HIDE DEF P
  <2> QED BY <1>1, <1>13, <1>14, <1>15, RangeInduction
<1>17. f[n] \in Int
  <2>1. n \in P
    <3> HIDE DEF P
    <3> QED BY <1>1, <1>16
  <2> QED BY <2>1
<1> QED BY <1>10, <1>17, NarrowFits

(* What binEval yields, where it neither throws nor aborts, is a number of   *)
(* the type.                                                                 *)
LEMMA BinEvalFits ==
    ASSUME NEW o \in BinOps, o # "div", NEW t \in Types, NEW a \in Values(t), NEW b \in Values(t),
           o = "shr" => ~ShiftThrows(t, b)
    PROVE  BinEval(o, t, a, b) \in Values(t)
<1>1. a \in Int /\ b \in Int
  BY ValuesFacts
<1>2. CASE o = "add"
  BY <1>1, <1>2, NarrowFits DEF BinEval
<1>3. CASE o = "sub"
  BY <1>1, <1>3, NarrowFits DEF BinEval
<1>4. CASE o = "mul"
  <2>1. a * b \in Int
    BY <1>1
  <2> QED BY <1>4, <2>1, NarrowFits DEF BinEval
<1>5. CASE o = "le"
  BY <1>5, ValuesFacts DEF BinEval
<1>6. CASE o = "eq"
  BY <1>6, ValuesFacts DEF BinEval
<1>7. CASE o = "or"
  BY <1>7, OrFits DEF BinEval
<1>8. CASE o = "shr"
  <2>1. b \in Nat /\ ~ShiftThrows(t, b)
    BY <1>1, <1>8, WidthFacts DEF ShiftThrows
  <2>2. PICK k \in Nat \ {0} : k = TwoTo(b)
    BY <2>1, TwoToFacts
  <2>3. BinEval(o, t, a, b) = a \div k
    BY <1>8, <2>1, <2>2 DEF BinEval
  <2>4. CASE t = "I1"
    <3>1. a \in 0 .. 1
      BY <2>4 DEF Values
    <3>2. CASE a = 0
      <4>1. a \div k = 0
        BY <3>2
      <4> QED BY <2>3, <2>4, <4>1 DEF Values
    <3>3. CASE a = 1
      <4>1. a \div k \in {0, 1}
        <5>1. a \div k \in -2 .. 2 - 1
          <6>1. 2 \in Nat /\ a \in -2 .. 2 - 1
            BY <3>3
          <6> QED BY <6>1, QuotientBounds
        <5>2. a \div k >= 0
          BY <3>3
        <5> QED BY <5>1, <5>2
      <4> QED BY <2>3, <2>4, <4>1 DEF Values
    <3> QED BY <3>1, <3>2, <3>3
  <2>5. CASE t # "I1"
    <3>1. PICK h \in Nat : h = TwoTo(Bits[t] - 1)
      BY WidthFacts
    <3>2. Values(t) = -h .. h - 1
      BY <2>5, <3>1 DEF Values
    <3>3. a \div k \in -h .. h - 1
      BY <3>2, QuotientBounds
    <3> QED BY <2>3, <3>2, <3>3
  <2> QED BY <2>4, <2>5
<1> QED BY <1>2, <1>3, <1>4, <1>5, <1>6, <1>7, <1>8 DEF BinOps

-----------------------------------------------------------------------------
(* The invariant of the passes.                                              *)

Opers == BinOps \cup {"const", "param", "ret", "cast"}

(* No instruction that was made is waiting for its place.                    *)
Between == step \in {"start", "visit", "rules", "remove"}

(* What an instruction that is alive is made of.                             *)
CodeTypes ==
    /\ DOMAIN oper = Insts /\ DOMAIN type = Insts /\ DOMAIN val = Insts
    /\ \A i \in Alive : /\ kind[i] = "op" /\ oper[i] \in Opers /\ type[i] \in Types
                        /\ Len(inputs[i]) = Arity(oper[i])
                        /\ IsConst(i) => val[i] \in Values(type[i])

(* The list has what is alive, but for the one about to be inserted.         *)
BlockInv ==
    /\ block \in Seq(Insts) /\ IsInjective(block) /\ placed \subseteq ToSet(block)
    /\ fresh \in Insts \cup {None} /\ ToSet(block) = Alive \ {fresh}

(* What an instruction reads stands in front of it, unless it is a constant. *)
OperandsBefore ==
    \A v, i \in Insts : i \in users[v] /\ i \in ToSet(block) /\ v # fresh =>
                           IsConst(v) \/ Precedes(block, v, i)

CodeInv == IndInv /\ CodeTypes /\ BlockInv /\ OperandsBefore

(* There is an address to make an instruction at; what waits for its place   *)
(* reads constants.                                                          *)
FreshState ==
    /\ Between => fresh = None /\ \E i \in Insts : kind[i] = "dead"
    /\ ~Between => /\ fresh \in Alive /\ passes # << >> /\ todo # << >>
                   /\ \A v \in Insts : fresh \in users[v] => IsConst(v)

(* The place it waits for is that of an operation in front of all its users. *)
OldState ==
    /\ old \in Insts \cup {None}
    /\ ~Between =>
          /\ old \in ToSet(block) /\ ~IsConst(old)
          /\ \A u \in users[fresh] : Precedes(block, old, u)
          /\ Head(passes) = "fold" => old = Head(todo)
          /\ Head(passes) = "peephole" => oper[old] = "shr" /\ Precedes(block, old, Head(todo))

(* What is left to visit is in the block, in its order.                      *)
TodoInv ==
    /\ todo \in Seq(Insts) /\ ToSet(todo) \subseteq ToSet(block)
    /\ \A k, l \in DOMAIN todo : k < l => Precedes(block, todo[k], todo[l])

(* What is left to fold has constants for inputs.                            *)
FoldTodo ==
    passes # << >> /\ Head(passes) = "fold" =>
       \A i \in ToSet(todo) : /\ oper[i] \in BinOps \cup {"cast"}
                              /\ \A v \in Insts : i \in users[v] => IsConst(v)

(* Until a pass has ended, every instruction that is visited or replaced     *)
(* knows its block.                                                          *)
FirstPass == \E p \in Programs : Len(passes) >= Len(p.passes)

FirstPassPlaced ==
    /\ \A p \in Programs : Len(passes) <= Len(p.passes)
    /\ FirstPass =>
          /\ ToSet(todo) \subseteq placed
          /\ \A i \in Alive : oper[i] = "shr" => i \in placed
          /\ ~Between => old \in placed
          /\ step = "start" => placed = ToSet(block)

(* The types of what the passes remember.                                    *)
PassTypes ==
    /\ passes \in Seq({"fold", "peephole"})
    /\ step \in {"start", "visit", "put", "rules", "remove", "operand", "amount"}
    /\ outcome \in {"run", "done", "thrown", "crashed"}
    /\ departs \subseteq {"cast", "amount", "order"}

VisitInv ==
    FreshState /\ OldState /\ TodoInv /\ FoldTodo /\ FirstPassPlaced /\ PassTypes

PInv == CodeInv /\ VisitInv /\ StopsHaveReasons

(* The code depends on nothing else.                                         *)
LEMMA CodeFrame ==
    ASSUME CodeInv, UNCHANGED <<kind, inputs, users, entries, block, oper, type, val, placed, fresh>>,
           aborted' \in BOOLEAN
    PROVE  CodeInv'
<1>1. IndInv'
  BY DEF CodeInv, IndInv, TypeOK, UsersMatchInputs, NoDeadOperands, InputSet
<1>2. CodeTypes'
  BY DEF CodeInv, CodeTypes, Alive, IsConst
<1>3. BlockInv'
  BY DEF CodeInv, BlockInv, Alive
<1>4. OperandsBefore'
  BY DEF CodeInv, OperandsBefore, IsConst
<1> QED BY <1>1, <1>2, <1>3, <1>4 DEF CodeInv

(* What a visit depends on.                                                  *)
LEMMA VisitFrame ==
    ASSUME VisitInv,
           UNCHANGED <<kind, users, block, oper, placed, fresh, old, todo, step, passes>>,
           outcome' \in {"run", "done", "thrown", "crashed"}, departs' = departs
    PROVE  VisitInv'
<1>1. FreshState'
  BY DEF VisitInv, FreshState, Between, Alive, IsConst
<1>2. OldState'
  BY DEF VisitInv, OldState, Between, IsConst
<1>3. TodoInv'
  BY DEF VisitInv, TodoInv
<1>4. FoldTodo'
  BY DEF VisitInv, FoldTodo, IsConst
<1>5. FirstPassPlaced'
  BY DEF VisitInv, FirstPassPlaced, FirstPass, Between, Alive
<1>6. PassTypes'
  BY DEF VisitInv, PassTypes
<1> QED BY <1>1, <1>2, <1>3, <1>4, <1>5, <1>6 DEF VisitInv

(* A visit is over and nothing was changed, or its next step begins.         *)
LEMMA StepFrame ==
    ASSUME VisitInv, UNCHANGED <<kind, users, block, oper, placed, fresh, old, outcome, departs, passes>>,
           Between, step' \in {"visit", "rules", "remove"},
           todo # << >>, todo' = todo \/ todo' = Tail(todo)
    PROVE  VisitInv'
<1>1. Between'
  BY DEF Between
<1>2. FreshState'
  BY <1>1 DEF VisitInv, FreshState, Alive
<1>3. OldState'
  BY <1>1 DEF VisitInv, OldState
<1>4. todo \in Seq(Insts) /\ ToSet(todo) \subseteq ToSet(block)
      /\ \A k, l \in DOMAIN todo : k < l => Precedes(block, todo[k], todo[l])
  BY DEF VisitInv, TodoInv
<1>5. /\ Tail(todo) \in Seq(Insts) /\ ToSet(Tail(todo)) \subseteq ToSet(todo)
      /\ \A k, l \in DOMAIN Tail(todo) : k < l => Precedes(block, Tail(todo)[k], Tail(todo)[l])
  <2>1. PICK r, s : r = todo /\ s = block
    OBVIOUS
  <2>2. /\ r \in Seq(Insts) /\ r # << >>
        /\ \A k, l \in DOMAIN r : k < l => Precedes(s, r[k], r[l])
    BY <1>4, <2>1
  <2>3. /\ Tail(r) \in Seq(Insts) /\ ToSet(Tail(r)) \subseteq ToSet(r)
        /\ \A k, l \in DOMAIN Tail(r) : k < l => Precedes(s, Tail(r)[k], Tail(r)[l])
    BY <2>2, TailOrdered
  <2> QED BY <2>1, <2>3
<1>6. TodoInv'
  BY <1>4, <1>5 DEF TodoInv
<1>7. ToSet(todo') \subseteq ToSet(todo)
  BY <1>5
<1>8. FoldTodo'
  BY <1>7 DEF VisitInv, FoldTodo, IsConst
<1>9. FirstPassPlaced'
  BY <1>1, <1>7 DEF VisitInv, FirstPassPlaced, FirstPass, Alive
<1>10. PassTypes'
  BY DEF VisitInv, PassTypes
<1> QED BY <1>2, <1>3, <1>6, <1>8, <1>9, <1>10 DEF VisitInv

(* While nothing has stopped the passes, no reason is needed.                *)
LEMMA NoStop == outcome' \in {"run", "done"} /\ aborted' = FALSE => StopsHaveReasons'
BY DEF StopsHaveReasons

(* The number of passes a program names.                                     *)
LEMMA PassCount == \A p \in Programs : Len(p.passes) \in Nat
BY ProgramsAssumption DEF WellFormed

(* A pass begins: what it will visit is in the block, in its order.          *)
LEMMA CollectKeeps ==
    ASSUME PInv, NEW pass, NEW wanted, Collect(pass, wanted), wanted \subseteq ToSet(block),
           pass = "fold" => \A i \in wanted : Foldable(i)
    PROVE  PInv'
<1>1. /\ Running /\ step = "start" /\ passes # << >> /\ Head(passes) = pass
      /\ todo' = Selected(block, wanted) /\ step' = "visit"
      /\ UNCHANGED <<kind, inputs, users, entries, aborted, block, oper, type, val, placed,
                     passes, fresh, old, outcome, departs>>
  BY DEF Collect, Visiting, vars, codeVars
<1>2. CodeInv'
  BY <1>1, CodeFrame DEF PInv, CodeInv, IndInv, TypeOK
<1>3. block \in Seq(Insts)
  BY DEF PInv, CodeInv, BlockInv
<1>4. /\ todo' \in Seq(Insts) /\ ToSet(todo') = ToSet(block) \cap wanted
      /\ \A k, l \in DOMAIN todo' : k < l => Precedes(block, todo'[k], todo'[l])
  <2>1. PICK s, t : s = block /\ t = todo'
    OBVIOUS
  <2>2. s \in Seq(Insts) /\ t = Selected(s, wanted)
    BY <1>1, <1>3, <2>1
  <2>3. /\ Selected(s, wanted) \in Seq(Insts)
        /\ ToSet(Selected(s, wanted)) = ToSet(s) \cap wanted
        /\ \A k, l \in DOMAIN Selected(s, wanted) :
              k < l => Precedes(s, Selected(s, wanted)[k], Selected(s, wanted)[l])
    BY <2>2, SelectedFacts
  <2> QED BY <2>1, <2>2, <2>3
<1>5. TodoInv'
  BY <1>1, <1>4 DEF TodoInv
<1>6. Between /\ Between'
  BY <1>1 DEF Between
<1>7. FreshState' /\ OldState'
  BY <1>1, <1>6 DEF PInv, VisitInv, FreshState, OldState
<1>8. FoldTodo'
  <2> SUFFICES ASSUME pass = "fold", NEW i \in ToSet(todo')
               PROVE  /\ oper[i] \in BinOps \cup {"cast"}
                      /\ \A v \in Insts : i \in users[v] => IsConst(v)
    BY <1>1 DEF FoldTodo, IsConst
  <2>1. Foldable(i) /\ i \in Insts
    BY <1>3, <1>4 DEF ToSet
  <2> QED BY <2>1 DEF Foldable, PInv, CodeInv, IndInv, UsersMatchInputs
<1>9. FirstPassPlaced'
  BY <1>1, <1>4, <1>6 DEF PInv, VisitInv, FirstPassPlaced, FirstPass, Alive
<1>10. PassTypes'
  BY <1>1 DEF PInv, VisitInv, PassTypes
<1>11. StopsHaveReasons'
  BY <1>1, NoStop DEF Running
<1> QED BY <1>2, <1>5, <1>7, <1>8, <1>9, <1>10, <1>11 DEF PInv, VisitInv

(* A pass ends: the next is not the first.                                   *)
LEMMA EndPassKeeps ==
    ASSUME PInv, NEW pass, EndPass(pass)
    PROVE  PInv'
<1>1. /\ Running /\ step = "visit" /\ passes # << >> /\ todo = << >>
      /\ passes' = Tail(passes) /\ step' = "start" /\ outcome' \in {"run", "done"}
      /\ UNCHANGED <<kind, inputs, users, entries, aborted, block, oper, type, val, placed,
                     todo, fresh, old, departs>>
  BY DEF EndPass, Visiting, vars, codeVars, Running
<1>2. CodeInv'
  BY <1>1, CodeFrame DEF PInv, CodeInv, IndInv, TypeOK
<1>3. Between /\ Between'
  BY <1>1 DEF Between
<1>4. FreshState' /\ OldState' /\ TodoInv'
  BY <1>1, <1>3 DEF PInv, VisitInv, FreshState, OldState, TodoInv
<1>5. ToSet(todo) = {}
  BY <1>1 DEF ToSet
<1>6. FoldTodo'
  BY <1>1, <1>5 DEF FoldTodo
<1>7. /\ passes \in Seq({"fold", "peephole"}) /\ passes' \in Seq({"fold", "peephole"})
      /\ Len(passes') = Len(passes) - 1 /\ Len(passes) \in Nat
  BY <1>1 DEF PInv, VisitInv, PassTypes
<1>8. FirstPassPlaced'
  <2>1. \A p \in Programs : Len(passes) <= Len(p.passes) /\ Len(p.passes) \in Nat
    BY PassCount DEF PInv, VisitInv, FirstPassPlaced
  <2>2. \A p \in Programs : Len(passes') < Len(p.passes)
    BY <1>7, <2>1
  <2>3. \A p \in Programs : Len(passes') <= Len(p.passes) /\ ~(Len(passes') >= Len(p.passes))
    BY <1>7, <2>1, <2>2
  <2>4. ~FirstPass'
    BY <2>3 DEF FirstPass
  <2> QED BY <2>3, <2>4 DEF FirstPassPlaced
<1>9. PassTypes'
  BY <1>1, <1>7 DEF PInv, VisitInv, PassTypes
<1>10. StopsHaveReasons'
  BY <1>1, NoStop DEF Running
<1> QED BY <1>2, <1>4, <1>6, <1>8, <1>9, <1>10 DEF PInv, VisitInv

(* A step of a visit that changes nothing but where the visit is.            *)
LEMMA SkipKeeps ==
    ASSUME PInv, Running, Between, todo # << >>,
           step' \in {"visit", "rules", "remove"}, todo' = todo \/ todo' = Tail(todo),
           UNCHANGED <<vars, codeVars, passes, fresh, old, outcome, departs>>
    PROVE  PInv'
<1>1. UNCHANGED <<kind, inputs, users, entries, aborted, block, oper, type, val, placed,
                  passes, fresh, old, outcome, departs>>
  BY DEF vars, codeVars
<1>2. CodeInv'
  BY <1>1, CodeFrame DEF PInv, CodeInv, IndInv, TypeOK
<1>3. VisitInv'
  BY <1>1, StepFrame DEF PInv
<1>4. StopsHaveReasons'
  BY <1>1, NoStop DEF Running
<1> QED BY <1>2, <1>3, <1>4 DEF PInv

(* The exception leaves everything as it was.                                *)
LEMMA FoldThrowKeeps ==
    ASSUME PInv, FoldThrow
    PROVE  PInv'
<1>1. /\ Running /\ passes # << >> /\ Head(passes) = "fold" /\ todo # << >> /\ FoldThrows(Head(todo))
      /\ outcome' = "thrown"
      /\ UNCHANGED <<kind, inputs, users, entries, aborted, block, oper, type, val, placed,
                     passes, todo, step, fresh, old, departs>>
  BY DEF FoldThrow, Visiting, vars, codeVars
<1>2. CodeInv'
  BY <1>1, CodeFrame DEF PInv, CodeInv, IndInv, TypeOK
<1>3. VisitInv'
  BY <1>1, VisitFrame DEF PInv
<1>4. StopsHaveReasons'
  <2>1. PICK s : s = Head(todo)
    OBVIOUS
  <2>2. s \in Alive /\ oper[s] = "shr"
    <3>1. todo \in Seq(Insts) /\ ToSet(todo) \subseteq ToSet(block) /\ ToSet(block) \subseteq Alive
      BY DEF PInv, VisitInv, TodoInv, CodeInv, BlockInv
    <3>2. Head(todo) \in ToSet(todo)
      BY <1>1, <3>1 DEF ToSet
    <3> QED BY <1>1, <2>1, <3>1, <3>2 DEF FoldThrows
  <2>3. inputs[s][1] \in Alive
    <3>1. Len(inputs[s]) = 2 /\ s \in Insts /\ TypeOK
      BY <2>2 DEF PInv, CodeInv, CodeTypes, Arity, BinOps, Alive, IndInv
    <3>2. inputs[s][1] \in InputSet(s) /\ inputs[s][1] \in Insts
      BY <3>1, InputFacts DEF InputSet
    <3> QED BY <3>1, <3>2 DEF PInv, CodeInv, IndInv, NoDeadOperands, Alive
  <2>4. Digits(type[inputs[s][1]]) \in Nat
    <3>1. type[inputs[s][1]] \in Types
      BY <2>3 DEF PInv, CodeInv, CodeTypes
    <3> QED BY <3>1, WidthFacts
  <2>5. val[inputs[s][2]] \notin 0 .. Digits(type[inputs[s][1]]) - 1
    BY <1>1, <2>1, <2>4 DEF FoldThrows, ShiftThrows
  <2> QED BY <1>1, <2>1, <2>2, <2>5 DEF StopsHaveReasons, Running
<1> QED BY <1>2, <1>3, <1>4 DEF PInv

(* What an assertion of the optimizations is about.                          *)
AbortReason(i) ==
    \/ ~ClearAsserts(i)
    \/ oper[i] = "div" \/ (oper[i] \in BinOps /\ type[inputs[i][1]] # type[inputs[i][2]])

(* A failed assertion leaves everything as it was.                           *)
LEMMA AbortKeeps ==
    ASSUME PInv, Running, Abort, NEW i \in Alive, AbortReason(i),
           UNCHANGED <<block, oper, type, val, placed, passes, todo, step, fresh, old,
                       outcome, departs>>
    PROVE  PInv'
<1>1. UNCHANGED <<kind, inputs, users, entries>> /\ aborted' = TRUE
  BY DEF Abort
<1>2. CodeInv'
  BY <1>1, CodeFrame DEF PInv
<1>3. VisitInv'
  <2>1. outcome \in {"run", "done", "thrown", "crashed"}
    BY DEF Running
  <2> QED BY <1>1, <2>1, VisitFrame DEF PInv
<1>4. AbortReason(i)' /\ i \in Alive'
  BY <1>1 DEF AbortReason, ClearAsserts, Alive
<1>5. StopsHaveReasons'
  <2>1. outcome' = "run"
    BY DEF Running
  <2> QED BY <1>4, <2>1 DEF StopsHaveReasons, AbortReason
<1> QED BY <1>2, <1>3, <1>5 DEF PInv

(* So does a call through a null pointer.                                    *)
LEMMA CrashKeeps ==
    ASSUME PInv, Running, ~FirstPass, outcome' = "crashed",
           UNCHANGED <<vars, block, oper, type, val, placed, passes, todo, step, fresh, old,
                       departs>>
    PROVE  PInv'
<1>1. UNCHANGED <<kind, inputs, users, entries, aborted>>
  BY DEF vars
<1>2. CodeInv'
  BY <1>1, CodeFrame DEF PInv, CodeInv, IndInv, TypeOK
<1>3. VisitInv'
  BY <1>1, VisitFrame DEF PInv
<1>4. \A p \in Programs : Len(passes') < Len(p.passes)
  <2> SUFFICES ASSUME NEW p \in Programs PROVE Len(passes) < Len(p.passes)
    OBVIOUS
  <2>1. Len(p.passes) \in Nat /\ Len(passes) \in Nat
    BY PassCount DEF PInv, VisitInv, PassTypes
  <2>2. ~(Len(passes) >= Len(p.passes))
    BY DEF FirstPass
  <2> QED BY <2>1, <2>2
<1>5. StopsHaveReasons'
  BY <1>1, <1>4 DEF StopsHaveReasons, Running
<1> QED BY <1>2, <1>3, <1>5 DEF PInv

(* The instruction that is visited.                                          *)
LEMMA VisitedFacts ==
    ASSUME PInv, todo # << >>
    PROVE  /\ Head(todo) \in ToSet(todo) /\ Head(todo) \in ToSet(block)
           /\ Head(todo) \in Alive /\ Head(todo) \in Insts /\ Head(todo) # fresh
           /\ \A x \in ToSet(Tail(todo)) : Precedes(block, Head(todo), x) /\ x # Head(todo)
<1>1. /\ todo \in Seq(Insts) /\ ToSet(todo) \subseteq ToSet(block)
      /\ \A k, l \in DOMAIN todo : k < l => Precedes(block, todo[k], todo[l])
      /\ block \in Seq(Insts) /\ IsInjective(block) /\ ToSet(block) = Alive \ {fresh}
  BY DEF PInv, VisitInv, TodoInv, CodeInv, BlockInv
<1>2. PICK r, s : r = todo /\ s = block
  OBVIOUS
<1>3. /\ r \in Seq(Insts) /\ r # << >> /\ s \in Seq(Insts) /\ IsInjective(s)
      /\ \A k, l \in DOMAIN r : k < l => Precedes(s, r[k], r[l])
  BY <1>1, <1>2
<1>4. Head(r) \in ToSet(r) /\ \A x \in ToSet(Tail(r)) : Precedes(s, Head(r), x)
  BY <1>3, TailOrdered
<1>5. \A x, y : Precedes(s, x, y) => x # y
  <2>1. \A x, y : Precedes(s, x, y) => x \in ToSet(s) /\ y \in ToSet(s) /\ x # y /\ ~Precedes(s, y, x)
    BY <1>3, PrecedesOrder
  <2> QED BY <2>1
<1> QED BY <1>1, <1>2, <1>4, <1>5 DEF Alive

(* The order of the block.                                                   *)
LEMMA BlockOrder ==
    ASSUME PInv
    PROVE  /\ \A x, y : Precedes(block, x, y) => x \in ToSet(block) /\ y \in ToSet(block) /\ x # y
           /\ \A x, y, z : Precedes(block, x, y) /\ Precedes(block, y, z) => Precedes(block, x, z)
<1>1. PICK s : s = block
  OBVIOUS
<1>2. s \in Seq(Insts) /\ IsInjective(s)
  BY <1>1 DEF PInv, CodeInv, BlockInv
<1>3. /\ \A x, y : Precedes(s, x, y) => x \in ToSet(s) /\ y \in ToSet(s) /\ x # y /\ ~Precedes(s, y, x)
      /\ \A x, y, z : Precedes(s, x, y) /\ Precedes(s, y, z) => Precedes(s, x, z)
  BY <1>2, PrecedesOrder
<1> QED BY <1>1, <1>3

(* The inputs of what is alive are alive, as many as it takes.               *)
LEMMA OperandFacts ==
    ASSUME PInv, NEW i \in Alive, NEW k \in 1 .. Arity(oper[i])
    PROVE  /\ k \in DOMAIN inputs[i] /\ inputs[i][k] \in InputSet(i) /\ inputs[i][k] \in Alive
           /\ i \in users[inputs[i][k]] /\ k \in 1 .. MaxInputs
<1>1. i \in Insts /\ Len(inputs[i]) = Arity(oper[i]) /\ TypeOK
  BY DEF PInv, CodeInv, CodeTypes, Alive, IndInv
<1>2. /\ inputs[i] \in Seq(Insts) /\ DOMAIN inputs[i] = 1 .. Len(inputs[i])
      /\ Len(inputs[i]) \in Nat /\ Len(inputs[i]) <= MaxInputs /\ InputSet(i) \subseteq Insts
  BY <1>1, InputFacts
<1>3. k \in DOMAIN inputs[i] /\ k \in 1 .. MaxInputs
  BY <1>1, <1>2, MaxInputsAssumption
<1>4. inputs[i][k] \in InputSet(i)
  BY <1>3 DEF InputSet
<1>5. inputs[i][k] \in Insts
  BY <1>2, <1>4
<1>6. inputs[i][k] \in Alive
  BY <1>1, <1>4, <1>5 DEF PInv, CodeInv, IndInv, NoDeadOperands, Alive
<1>7. i \in users[inputs[i][k]]
  BY <1>1, <1>4, <1>5 DEF PInv, CodeInv, IndInv, UsersMatchInputs
<1> QED BY <1>3, <1>4, <1>6, <1>7

(* Operands of a folded operation that do not fit abort.                     *)
LEMMA FoldAbortKeeps ==
    ASSUME PInv, FoldAbort
    PROVE  PInv'
<1>1. /\ Running /\ passes # << >> /\ Head(passes) = "fold" /\ todo # << >>
      /\ FoldAborts(Head(todo)) /\ Abort
      /\ UNCHANGED <<block, oper, type, val, placed, passes, todo, step, fresh, old, outcome, departs>>
  BY DEF FoldAbort, Visiting, codeVars, passVars
<1>2. PICK i : i = Head(todo)
  OBVIOUS
<1>3. i \in Alive /\ i \in ToSet(todo)
  BY <1>1, <1>2, VisitedFacts
<1>4. oper[i] \in BinOps \cup {"cast"}
  BY <1>1, <1>3 DEF PInv, VisitInv, FoldTodo
<1>5. AbortReason(i)
  BY <1>1, <1>2, <1>4 DEF FoldAborts, AbortReason
<1> QED BY <1>1, <1>3, <1>5, AbortKeeps

(* Before anything has been replaced, what is replaced or removed has a      *)
(* block.                                                                    *)
LEMMA NotPlaced ==
    ASSUME PInv, todo # << >>
    PROVE  /\ Head(todo) \notin placed => ~FirstPass
           /\ ~Between /\ old \notin placed => ~FirstPass
BY VisitedFacts DEF PInv, VisitInv, FirstPassPlaced

(* The list without the instruction that is removed.                         *)
LEMMA BlockWithout ==
    ASSUME PInv, NEW i \in Insts, block' = Selected(block, Insts \ {i})
    PROVE  /\ block' \in Seq(Insts) /\ IsInjective(block') /\ ToSet(block') = ToSet(block) \ {i}
           /\ \A x, y \in Insts \ {i} : Precedes(block, x, y) => Precedes(block', x, y)
<1>1. PICK s, t, T : s = block /\ t = block' /\ T = Insts \ {i}
  OBVIOUS
<1>2. s \in Seq(Insts) /\ IsInjective(s) /\ t = Selected(s, T)
  BY <1>1 DEF PInv, CodeInv, BlockInv
<1>3. Selected(s, T) \in Seq(Insts) /\ ToSet(Selected(s, T)) = ToSet(s) \cap T
  BY <1>2, SelectedFacts
<1>4. /\ IsInjective(Selected(s, T))
      /\ \A x, y \in T : Precedes(s, x, y) => Precedes(Selected(s, T), x, y)
  BY <1>2, SelectedOrder
<1>5. ToSet(s) \subseteq Insts
  BY <1>2 DEF ToSet
<1> QED BY <1>1, <1>2, <1>3, <1>4, <1>5

(* A removed instruction, which nothing reads, leaves the order as it was.   *)
LEMMA RemoveKeeps ==
    ASSUME PInv, RemoveCandidate, ClearAsserts(Candidate), Candidate \in placed
    PROVE  PInv'
<1>1. PICK i : i = Head(todo)
  OBVIOUS
<1>2. /\ Running /\ step = "remove" /\ passes # << >> /\ Head(passes) = "peephole" /\ todo # << >>
      /\ RemoveInst(i) /\ ClearAsserts(i)
      /\ block' = Selected(block, Insts \ {i}) /\ placed' = placed \ {i}
      /\ todo' = Tail(todo) /\ step' = "visit"
      /\ UNCHANGED <<outcome, oper, type, val, passes, fresh, old, departs>>
  BY <1>1 DEF RemoveCandidate, At, Visiting, Candidate, NextVisit
<1>3. /\ i \in ToSet(todo) /\ i \in ToSet(block) /\ i \in Alive /\ i \in Insts /\ i # fresh
      /\ \A x \in ToSet(Tail(todo)) : Precedes(block, i, x) /\ x # i
  BY <1>1, <1>2, VisitedFacts
<1>4. Between /\ Between' /\ fresh = None
  BY <1>2 DEF Between, PInv, VisitInv, FreshState
<1>5. IndInv /\ TypeOK /\ CodeTypes /\ BlockInv /\ OperandsBefore
  BY DEF PInv, CodeInv, IndInv
<1>6. /\ users' = [v \in Insts |-> users[v] \ {i}] /\ users[i] = {}
      /\ inputs' = [inputs EXCEPT ![i] = << >>] /\ kind' = [kind EXCEPT ![i] = "dead"]
      /\ aborted' = aborted
  BY <1>2 DEF RemoveInst, Cleared
<1>7. IndInv'
  BY <1>2, <1>3, <1>5, RemoveInstInv
<1>8. /\ kind'[i] = "dead" /\ \A j \in Insts \ {i} : kind'[j] = kind[j] /\ inputs'[j] = inputs[j]
      /\ \A v \in Insts : users'[v] = users[v] \ {i}
  BY <1>3, <1>5, <1>6 DEF TypeOK
<1>9. Alive' = Alive \ {i}
  BY <1>8 DEF Alive
<1>10. CodeTypes'
  BY <1>2, <1>5, <1>8, <1>9 DEF CodeTypes, IsConst, Alive
<1>11. /\ block' \in Seq(Insts) /\ IsInjective(block') /\ ToSet(block') = ToSet(block) \ {i}
       /\ \A x, y \in Insts \ {i} : Precedes(block, x, y) => Precedes(block', x, y)
  BY <1>2, <1>3, BlockWithout
<1>12. BlockInv'
  BY <1>2, <1>5, <1>9, <1>11 DEF BlockInv
<1>13. OperandsBefore'
  <2> SUFFICES ASSUME NEW v \in Insts, NEW u \in Insts, u \in users'[v], u \in ToSet(block'), v # fresh
               PROVE  IsConst(v)' \/ Precedes(block', v, u)
    BY <1>2 DEF OperandsBefore
  <2>1. u \in users[v] /\ u # i /\ u \in ToSet(block) /\ v # i
    BY <1>6, <1>8, <1>11
  <2>2. IsConst(v) \/ Precedes(block, v, u)
    BY <1>5, <2>1 DEF OperandsBefore
  <2> QED BY <1>2, <1>11, <2>1, <2>2 DEF IsConst
<1>14. FreshState'
  BY <1>2, <1>3, <1>4, <1>8 DEF FreshState
<1>15. OldState'
  BY <1>2, <1>4 DEF PInv, VisitInv, OldState
<1>16. /\ todo \in Seq(Insts) /\ ToSet(todo) \subseteq ToSet(block)
       /\ \A k, l \in DOMAIN todo : k < l => Precedes(block, todo[k], todo[l])
  BY DEF PInv, VisitInv, TodoInv
<1>17. /\ todo' \in Seq(Insts) /\ ToSet(todo') \subseteq ToSet(todo) \ {i}
       /\ \A k, l \in DOMAIN todo' : k < l => Precedes(block, todo'[k], todo'[l])
  <2>1. PICK r, s : r = todo /\ s = block
    OBVIOUS
  <2>2. /\ r \in Seq(Insts) /\ r # << >>
        /\ \A k, l \in DOMAIN r : k < l => Precedes(s, r[k], r[l])
    BY <1>2, <1>16, <2>1
  <2>3. /\ Tail(r) \in Seq(Insts) /\ ToSet(Tail(r)) \subseteq ToSet(r)
        /\ \A k, l \in DOMAIN Tail(r) : k < l => Precedes(s, Tail(r)[k], Tail(r)[l])
    BY <2>2, TailOrdered
  <2> QED BY <1>2, <1>3, <2>1, <2>3
<1>18. TodoInv'
  <2>1. \A k \in DOMAIN todo' : todo'[k] \in Insts \ {i}
    BY <1>17 DEF ToSet
  <2>2. \A k, l \in DOMAIN todo' : k < l => Precedes(block', todo'[k], todo'[l])
    BY <1>11, <1>17, <2>1
  <2>3. ToSet(todo') \subseteq ToSet(block')
    BY <1>11, <1>16, <1>17
  <2> QED BY <1>17, <2>2, <2>3 DEF TodoInv
<1>19. FoldTodo'
  BY <1>2 DEF FoldTodo
<1>20. FirstPassPlaced'
  BY <1>2, <1>4, <1>9, <1>17 DEF PInv, VisitInv, FirstPassPlaced, FirstPass
<1>21. PassTypes'
  BY <1>2 DEF PInv, VisitInv, PassTypes
<1>22. StopsHaveReasons'
  BY <1>2, <1>5, <1>6, NoStop DEF Running, TypeOK
<1> QED BY <1>7, <1>10, <1>12, <1>13, <1>14, <1>15, <1>18, <1>19, <1>20, <1>21, <1>22
        DEF PInv, CodeInv, VisitInv

(* However the removal ends.                                                 *)
LEMMA RemoveCandidateKeeps ==
    ASSUME PInv, RemoveCandidate
    PROVE  PInv'
<1>1. Running /\ todo # << >> /\ Candidate \in Alive /\ Candidate = Head(todo)
  BY VisitedFacts DEF RemoveCandidate, At, Visiting, Candidate
<1>2. CASE ClearAsserts(Candidate) /\ Candidate \notin placed
  <2>1. /\ outcome' = "crashed"
        /\ UNCHANGED <<vars, block, oper, type, val, placed, passes, todo, step, fresh, old, departs>>
    BY <1>2 DEF RemoveCandidate
  <2>2. ~FirstPass
    BY <1>1, <1>2, NotPlaced
  <2> QED BY <1>1, <2>1, <2>2, CrashKeeps
<1>3. CASE ClearAsserts(Candidate) /\ Candidate \in placed
  BY <1>3, RemoveKeeps
<1>4. CASE ~ClearAsserts(Candidate)
  <2>1. /\ Abort
        /\ UNCHANGED <<block, oper, type, val, placed, passes, todo, step, fresh, old,
                       outcome, departs>>
    BY <1>4 DEF RemoveCandidate, RemoveInst
  <2>2. AbortReason(Candidate)
    BY <1>4 DEF AbortReason
  <2> QED BY <1>1, <2>1, <2>2, AbortKeeps
<1> QED BY <1>2, <1>3, <1>4

(* The list with the new instruction in the place of the old one.            *)
LEMMA BlockInstead ==
    ASSUME PInv, NEW gone \in ToSet(block), NEW new \in Insts \ ToSet(block), block' = InPlace(gone, new)
    PROVE  /\ block' \in Seq(Insts) /\ IsInjective(block')
           /\ ToSet(block') = (ToSet(block) \ {gone}) \cup {new}
           /\ \A x, y : Precedes(block, x, y) =>
                 Precedes(block', Renamed(x, gone, new), Renamed(y, gone, new))
<1>1. PICK s, t : s = block /\ t = block'
  OBVIOUS
<1>2. s \in Seq(Insts) /\ IsInjective(s) /\ t = Instead(s, gone, new)
  BY <1>1 DEF PInv, CodeInv, BlockInv, InPlace, Instead
<1>3. gone \in ToSet(s) /\ new \in Insts \ ToSet(s)
  BY <1>1
<1>4. /\ Instead(s, gone, new) \in Seq(Insts)
      /\ ToSet(Instead(s, gone, new)) = (ToSet(s) \ {gone}) \cup {new}
      /\ IsInjective(Instead(s, gone, new))
      /\ \A x, y : Precedes(s, x, y) =>
            Precedes(Instead(s, gone, new), Renamed(x, gone, new), Renamed(y, gone, new))
  BY <1>2, <1>3, InsteadFacts
<1> QED BY <1>1, <1>2, <1>4

(* The users of a replaced instruction: those that are left of the old one's *)
(* are the new one's.                                                        *)
LEMMA ReplacedUsers ==
    ASSUME TypeOK, NEW o \in Insts, NEW n \in Insts, ReplaceInst(o, n), ClearAsserts(o)
    PROVE  /\ o # n /\ aborted' = aborted /\ kind' = [kind EXCEPT ![o] = "dead"]
           /\ users'[o] = {} /\ users'[n] = (users[n] \cup users[o]) \ {o}
           /\ \A v \in Insts \ {o, n} : users'[v] = users[v] \ {o}
           /\ \A i \in Insts \ {o} : Len(inputs'[i]) = Len(inputs[i])
<1> DEFINE us == Cleared(o)
           all == us[n] \cup us[o]
<1>1. /\ users' = [us EXCEPT ![n] = all, ![o] = {}]
      /\ inputs' = [i \in Insts |-> IF i = o THEN << >>
                                    ELSE IF i \in all THEN Redirected(i, n, o)
                                    ELSE inputs[i]]
      /\ kind' = [kind EXCEPT ![o] = "dead"]
      /\ aborted' = aborted /\ n # o
  BY DEF ReplaceInst
<1>2. us \in [Insts -> SUBSET Insts] /\ \A v \in Insts : us[v] = users[v] \ {o}
  BY DEF TypeOK, Cleared
<1> HIDE DEF us
<1>3. users'[o] = {} /\ users'[n] = all /\ \A v \in Insts \ {o, n} : users'[v] = us[v]
  BY <1>1, <1>2
<1>4. all = (users[n] \cup users[o]) \ {o}
  BY <1>2
<1>5. ASSUME NEW i \in Insts \ {o} PROVE Len(inputs'[i]) = Len(inputs[i])
  <2>1. CASE i \in all
    <3>1. inputs'[i] = Redirected(i, n, o)
      BY <1>1, <2>1
    <3>2. Len(Redirected(i, n, o)) = Len(inputs[i])
      BY RedirectedSet
    <3> QED BY <3>1, <3>2
  <2>2. CASE i \notin all
    <3>1. inputs'[i] = inputs[i]
      BY <1>1, <2>2
    <3> QED BY <3>1
  <2> QED BY <2>1, <2>2
<1> QED BY <1>1, <1>2, <1>3, <1>4, <1>5

(* What is made in a visit takes over the place and the users of what it     *)
(* stands for, and nothing comes in front of what it reads.                  *)
LEMMA PutKeeps ==
    ASSUME PInv, NEW pass, PutInPlace(pass), ClearAsserts(old), old \in placed
    PROVE  PInv'
<1>1. PICK o, n : o = old /\ n = fresh
  OBVIOUS
<1>2. /\ Running /\ step = "put" /\ passes # << >> /\ Head(passes) = pass
      /\ ReplaceInst(o, n) /\ ClearAsserts(o)
      /\ block' = InPlace(o, n) /\ placed' = placed \ {o}
      /\ fresh' = None /\ old' = None /\ todo' = Tail(todo) /\ step' = "visit"
      /\ UNCHANGED <<outcome, oper, type, val, passes, departs>>
  BY <1>1 DEF PutInPlace, Visiting, NextVisit
<1>3. ~Between /\ Between'
  BY <1>2 DEF Between
<1>4. /\ n \in Alive /\ todo # << >> /\ \A v \in Insts : n \in users[v] => IsConst(v)
      /\ o \in ToSet(block) /\ ~IsConst(o) /\ \A u \in users[n] : Precedes(block, o, u)
      /\ Head(passes) = "fold" => o = Head(todo)
      /\ Head(passes) = "peephole" => oper[o] = "shr" /\ Precedes(block, o, Head(todo))
  BY <1>1, <1>3 DEF PInv, VisitInv, FreshState, OldState
<1>5. IndInv /\ TypeOK /\ CodeTypes /\ BlockInv /\ OperandsBefore
  BY DEF PInv, CodeInv, IndInv
<1>6. n \in Insts /\ n \notin ToSet(block) /\ o \in Alive /\ o \in Insts /\ o # n
      /\ ToSet(block) = Alive \ {n}
  BY <1>1, <1>4, <1>5 DEF BlockInv, Alive
<1>7. IndInv'
  BY <1>2, <1>5, <1>6, ReplaceInstInv
<1>8. /\ aborted' = aborted /\ kind' = [kind EXCEPT ![o] = "dead"]
      /\ users'[o] = {} /\ users'[n] = (users[n] \cup users[o]) \ {o}
      /\ \A v \in Insts \ {o, n} : users'[v] = users[v] \ {o}
      /\ \A i \in Insts \ {o} : Len(inputs'[i]) = Len(inputs[i])
  BY <1>2, <1>5, <1>6, ReplacedUsers
<1>9. kind'[o] = "dead" /\ \A j \in Insts \ {o} : kind'[j] = kind[j]
  BY <1>5, <1>6, <1>8 DEF TypeOK
<1>10. Alive' = Alive \ {o}
  BY <1>9 DEF Alive
<1>11. CodeTypes'
  BY <1>2, <1>5, <1>8, <1>9, <1>10 DEF CodeTypes, IsConst, Alive
<1>12. /\ block' \in Seq(Insts) /\ IsInjective(block')
       /\ ToSet(block') = (ToSet(block) \ {o}) \cup {n}
       /\ \A x, y : Precedes(block, x, y) => Precedes(block', Renamed(x, o, n), Renamed(y, o, n))
  <2>1. n \in Insts \ ToSet(block)
    BY <1>6
  <2> QED BY <1>2, <1>4, <2>1, BlockInstead
<1>13. ToSet(block') = Alive'
  BY <1>4, <1>6, <1>10, <1>12
<1>14. None \notin Insts
  BY ProgramsAssumption
<1>15. BlockInv'
  <2>1. Alive' \ {None} = Alive'
    BY <1>14 DEF Alive
  <2>2. placed' \subseteq ToSet(block')
    BY <1>2, <1>5, <1>12 DEF BlockInv
  <2> QED BY <1>2, <1>12, <1>13, <2>1, <2>2 DEF BlockInv
<1>16. OperandsBefore'
  <2> SUFFICES ASSUME NEW v \in Insts, NEW u \in Insts, u \in users'[v], u \in ToSet(block')
               PROVE  IsConst(v)' \/ Precedes(block', v, u)
    BY DEF OperandsBefore
  <2>1. u # o /\ v # o
    BY <1>8, <1>9, <1>10, <1>13 DEF Alive
  <2>2. CASE v = n
    <3>1. u \in users[n] \/ u \in users[o]
      BY <1>8, <2>2
    <3>2. u # n
      <4>1. n \notin users[n]
        BY <1>4, <1>6, BlockOrder
      <4>2. n \notin users[o]
        BY <1>4, <1>6
      <4> QED BY <3>1, <4>1, <4>2
    <3>3. CASE u \in users[n]
      <4>1. Precedes(block, o, u)
        BY <1>4, <3>3
      <4>2. Renamed(o, o, n) = n /\ Renamed(u, o, n) = u
        BY <2>1 DEF Renamed
      <4>3. Precedes(block', Renamed(o, o, n), Renamed(u, o, n))
        BY <1>12, <4>1
      <4> QED BY <2>2, <4>2, <4>3
    <3>4. CASE u \in users[o]
      <4>1. u \in ToSet(block)
        BY <1>12, <3>2
      <4>2. Precedes(block, o, u)
        BY <1>1, <1>4, <1>5, <1>6, <3>4, <4>1 DEF OperandsBefore
      <4>3. Renamed(o, o, n) = n /\ Renamed(u, o, n) = u
        BY <2>1 DEF Renamed
      <4>4. Precedes(block', Renamed(o, o, n), Renamed(u, o, n))
        BY <1>12, <4>2
      <4> QED BY <2>2, <4>3, <4>4
    <3> QED BY <3>1, <3>3, <3>4
  <2>3. CASE v # n
    <3>1. u \in users[v]
      BY <1>8, <2>1, <2>3
    <3>2. CASE u = n
      BY <1>2, <1>4, <3>1, <3>2 DEF IsConst
    <3>3. CASE u # n
      <4>1. u \in ToSet(block)
        BY <1>12, <3>3
      <4>2. IsConst(v) \/ Precedes(block, v, u)
        BY <1>1, <1>5, <2>3, <3>1, <4>1 DEF OperandsBefore
      <4>3. Renamed(v, o, n) = v /\ Renamed(u, o, n) = u
        BY <2>1 DEF Renamed
      <4>4. Precedes(block, v, u) => Precedes(block', Renamed(v, o, n), Renamed(u, o, n))
        BY <1>12
      <4> QED BY <1>2, <4>2, <4>3, <4>4 DEF IsConst
    <3> QED BY <3>2, <3>3
  <2> QED BY <2>2, <2>3
<1>17. FreshState'
  BY <1>2, <1>3, <1>6, <1>9 DEF FreshState
<1>18. OldState'
  BY <1>2, <1>3 DEF OldState
<1>19. /\ todo \in Seq(Insts) /\ ToSet(todo) \subseteq ToSet(block)
       /\ \A k, l \in DOMAIN todo : k < l => Precedes(block, todo[k], todo[l])
       /\ pass \in {"fold", "peephole"}
  BY <1>2 DEF PInv, VisitInv, TodoInv, PassTypes
<1>20. /\ todo' \in Seq(Insts) /\ ToSet(todo') \subseteq ToSet(todo)
       /\ \A k, l \in DOMAIN todo' : k < l => Precedes(block, todo'[k], todo'[l])
  <2>1. PICK r, s : r = todo /\ s = block
    OBVIOUS
  <2>2. /\ r \in Seq(Insts) /\ r # << >>
        /\ \A k, l \in DOMAIN r : k < l => Precedes(s, r[k], r[l])
    BY <1>4, <1>19, <2>1
  <2>3. /\ Tail(r) \in Seq(Insts) /\ ToSet(Tail(r)) \subseteq ToSet(r)
        /\ \A k, l \in DOMAIN Tail(r) : k < l => Precedes(s, Tail(r)[k], Tail(r)[l])
    BY <2>2, TailOrdered
  <2> QED BY <1>2, <2>1, <2>3
<1>21. o \notin ToSet(todo')
  <2>1. \A x \in ToSet(todo') : Precedes(block, Head(todo), x) /\ x # Head(todo)
    BY <1>2, <1>4, VisitedFacts
  <2>2. /\ \A x, y : Precedes(block, x, y) => x # y
        /\ \A x, y, z : Precedes(block, x, y) /\ Precedes(block, y, z) => Precedes(block, x, z)
    BY BlockOrder
  <2> QED BY <1>2, <1>4, <1>19, <2>1, <2>2
<1>22. TodoInv'
  <2>1. \A k \in DOMAIN todo' : Renamed(todo'[k], o, n) = todo'[k]
    BY <1>21 DEF ToSet, Renamed
  <2>2. \A k, l \in DOMAIN todo' : k < l => Precedes(block', todo'[k], todo'[l])
    <3> SUFFICES ASSUME NEW k \in DOMAIN todo', NEW l \in DOMAIN todo', k < l
                 PROVE  Precedes(block', todo'[k], todo'[l])
      OBVIOUS
    <3>1. PICK x, y : x = todo'[k] /\ y = todo'[l]
      OBVIOUS
    <3>2. Precedes(block, x, y) /\ Renamed(x, o, n) = x /\ Renamed(y, o, n) = y
      BY <1>20, <2>1, <3>1
    <3>3. Precedes(block', Renamed(x, o, n), Renamed(y, o, n))
      BY <1>12, <3>2
    <3> QED BY <3>1, <3>2, <3>3
  <2>3. ToSet(todo') \subseteq ToSet(block')
    BY <1>12, <1>19, <1>20, <1>21
  <2> QED BY <1>20, <2>2, <2>3 DEF TodoInv
<1>23. FoldTodo'
  <2> SUFFICES ASSUME Head(passes) = "fold", NEW i \in ToSet(todo')
               PROVE  /\ oper[i] \in BinOps \cup {"cast"}
                      /\ \A v \in Insts : i \in users'[v] => IsConst(v)
    BY <1>2 DEF FoldTodo, IsConst
  <2>1. i \in ToSet(todo)
    BY <1>20
  <2>2. oper[i] \in BinOps \cup {"cast"} /\ \A v \in Insts : i \in users[v] => IsConst(v)
    BY <1>2, <2>1 DEF PInv, VisitInv, FoldTodo
  <2>3. ASSUME NEW v \in Insts, i \in users'[v] PROVE IsConst(v)
    <3>1. i \notin users[o]
      BY <1>4, <1>6, <2>2
    <3>2. i \in users[v]
      BY <1>6, <1>8, <2>3, <3>1
    <3> QED BY <2>2, <3>2
  <2> QED BY <2>2, <2>3
<1>24. FirstPassPlaced'
  <2>1. \A p \in Programs : Len(passes') <= Len(p.passes)
    BY <1>2 DEF PInv, VisitInv, FirstPassPlaced
  <2>2. ASSUME FirstPass'
        PROVE  ToSet(todo') \subseteq placed' /\ \A i \in Alive' : oper'[i] = "shr" => i \in placed'
    <3>1. FirstPass
      BY <1>2, <2>2 DEF FirstPass
    <3>2. ToSet(todo) \subseteq placed /\ \A i \in Alive : oper[i] = "shr" => i \in placed
      BY <3>1 DEF PInv, VisitInv, FirstPassPlaced
    <3> QED BY <1>2, <1>10, <1>20, <1>21, <3>2
  <2>3. step' # "start"
    BY <1>2
  <2> QED BY <1>3, <2>1, <2>2, <2>3 DEF FirstPassPlaced
<1>25. PassTypes'
  BY <1>2 DEF PInv, VisitInv, PassTypes
<1>26. StopsHaveReasons'
  BY <1>2, <1>5, <1>8, NoStop DEF Running, TypeOK
<1> QED BY <1>7, <1>11, <1>15, <1>16, <1>17, <1>18, <1>22, <1>23, <1>24, <1>25, <1>26
        DEF PInv, CodeInv, VisitInv

(* However the replacement ends.                                             *)
LEMMA PutInPlaceKeeps ==
    ASSUME PInv, NEW pass, PutInPlace(pass)
    PROVE  PInv'
<1>1. Running /\ ~Between /\ todo # << >> /\ old \in Alive
  <2>1. Running /\ ~Between
    BY DEF PutInPlace, Visiting, Between
  <2>2. todo # << >> /\ old \in ToSet(block) /\ ToSet(block) \subseteq Alive
    BY <2>1 DEF PInv, VisitInv, FreshState, OldState, CodeInv, BlockInv
  <2> QED BY <2>1, <2>2
<1>2. CASE ClearAsserts(old) /\ old \notin placed
  <2>1. /\ outcome' = "crashed"
        /\ UNCHANGED <<vars, block, oper, type, val, placed, passes, todo, step, fresh, old, departs>>
    BY <1>2 DEF PutInPlace
  <2>2. ~FirstPass
    BY <1>1, <1>2, NotPlaced
  <2> QED BY <1>1, <2>1, <2>2, CrashKeeps
<1>3. CASE ClearAsserts(old) /\ old \in placed
  BY <1>3, PutKeeps
<1>4. CASE ~ClearAsserts(old)
  <2>1. /\ Abort
        /\ UNCHANGED <<block, oper, type, val, placed, passes, todo, step, fresh, old,
                       outcome, departs>>
    BY <1>4 DEF PutInPlace, ReplaceInst
  <2>2. AbortReason(old)
    BY <1>4 DEF AbortReason
  <2> QED BY <1>1, <2>1, <2>2, AbortKeeps
<1> QED BY <1>2, <1>3, <1>4

(* There is an address for a new instruction between two of them.            *)
LEMMA FreeFacts ==
    ASSUME PInv, Between
    PROVE  FreeInst \in Insts /\ kind[FreeInst] = "dead" /\ FreeInst \notin Alive
<1>1. \E i \in Insts : kind[i] = "dead"
  BY DEF PInv, VisitInv, FreshState
<1> QED BY <1>1 DEF FreeInst, Alive

(* What a visit makes reads constants only, and nothing reads it yet.        *)
LEMMA MakeKeeps ==
    ASSUME PInv, Running, Between, passes # << >>, todo # << >>,
           NEW n \in Insts, kind[n] = "dead", NEW args \in ArgLists, NewOp(n, args),
           \A k \in DOMAIN args : IsConst(args[k]),
           NEW o \in {"const", "add"}, NEW t \in Types, Len(args) = Arity(o),
           oper' = [oper EXCEPT ![n] = o], type' = [type EXCEPT ![n] = t],
           DOMAIN val' = Insts, \A i \in Insts \ {n} : val'[i] = val[i],
           o = "const" => val'[n] \in Values(t),
           NEW gone \in ToSet(block), ~IsConst(gone), old' = gone, fresh' = n,
           Head(passes) = "fold" => gone = Head(todo),
           Head(passes) = "peephole" => oper[gone] = "shr" /\ Precedes(block, gone, Head(todo)),
           step' \in {"put", "operand"}, departs' \subseteq {"cast", "amount", "order"},
           UNCHANGED <<block, placed, passes, todo, outcome>>
    PROVE  PInv'
<1>1. IndInv /\ TypeOK /\ CodeTypes /\ BlockInv /\ OperandsBefore
  BY DEF PInv, CodeInv, IndInv
<1>2. IndInv'
  BY <1>1, NewOpInv
<1>3. /\ kind' = [kind EXCEPT ![n] = "op"] /\ inputs' = [inputs EXCEPT ![n] = args]
      /\ \A v \in Insts : users'[v] = IF \E k \in DOMAIN args : args[k] = v
                                      THEN users[v] \cup {n} ELSE users[v]
      /\ aborted' = aborted
  BY DEF NewOp
<1>4. /\ kind'[n] = "op" /\ inputs'[n] = args
      /\ \A j \in Insts \ {n} : kind'[j] = kind[j] /\ inputs'[j] = inputs[j]
  BY <1>1, <1>3 DEF TypeOK
<1>5. Alive' = Alive \cup {n} /\ n \notin Alive
  BY <1>4 DEF Alive
<1>6. /\ oper'[n] = o /\ type'[n] = t /\ DOMAIN oper' = Insts /\ DOMAIN type' = Insts
      /\ \A j \in Insts \ {n} : oper'[j] = oper[j] /\ type'[j] = type[j]
  BY <1>1 DEF CodeTypes
<1>7. fresh = None /\ None \notin Insts
  BY ProgramsAssumption DEF PInv, VisitInv, FreshState
<1>8. ToSet(block) = Alive /\ n \notin ToSet(block) /\ gone \in Insts /\ gone # n
  BY <1>1, <1>5, <1>7 DEF BlockInv, Alive
<1>9. CodeTypes'
  <2> SUFFICES ASSUME NEW i \in Alive'
               PROVE  /\ kind'[i] = "op" /\ oper'[i] \in Opers /\ type'[i] \in Types
                      /\ Len(inputs'[i]) = Arity(oper'[i])
                      /\ oper'[i] = "const" => val'[i] \in Values(type'[i])
    BY <1>6 DEF CodeTypes, IsConst
  <2>1. CASE i = n
    BY <1>4, <1>6, <2>1 DEF Opers, BinOps
  <2>2. CASE i # n
    <3>1. i \in Alive /\ i \in Insts
      BY <1>5, <2>2 DEF Alive
    <3> QED BY <1>1, <1>4, <1>6, <2>2, <3>1 DEF CodeTypes, IsConst
  <2> QED BY <2>1, <2>2
<1>10. BlockInv'
  BY <1>1, <1>5, <1>8 DEF BlockInv
<1>11. users[n] = {} /\ \A v \in Insts : n \notin users[v]
  BY <1>1 DEF IndInv, NoDeadOperands
<1>12. \A k \in DOMAIN args : args[k] # n
  <2>1. \A k \in DOMAIN args : args[k] \in Alive
    BY DEF ArgLists
  <2> QED BY <1>5, <2>1
<1>13. users'[n] = {}
  BY <1>3, <1>11, <1>12
<1>14. \A v \in Insts : \A u \in users'[v] : u # n => u \in users[v]
  <2> SUFFICES ASSUME NEW v \in Insts PROVE \A u \in users'[v] : u # n => u \in users[v]
    OBVIOUS
  <2>1. users'[v] = users[v] \cup {n} \/ users'[v] = users[v]
    BY <1>3
  <2> QED BY <2>1
<1>15. OperandsBefore'
  <2> SUFFICES ASSUME NEW v \in Insts, NEW u \in Insts, u \in users'[v], u \in ToSet(block), v # n
               PROVE  IsConst(v)' \/ Precedes(block, v, u)
    BY DEF OperandsBefore
  <2>1. u \in users[v]
    BY <1>8, <1>14
  <2>2. IsConst(v) \/ Precedes(block, v, u)
    BY <1>1, <1>7, <2>1 DEF OperandsBefore
  <2> QED BY <1>6, <2>2 DEF IsConst
<1>16. ~Between'
  BY DEF Between
<1>17. FreshState'
  <2>1. \A v \in Insts : n \in users'[v] => IsConst(v)'
    <3> SUFFICES ASSUME NEW v \in Insts, n \in users'[v] PROVE oper'[v] = "const"
      BY DEF IsConst
    <3>1. PICK k \in DOMAIN args : args[k] = v
      BY <1>3, <1>11
    <3> QED BY <1>6, <1>12, <3>1 DEF IsConst
  <2> QED BY <1>5, <1>16, <2>1 DEF FreshState
<1>18. OldState'
  <2>1. ~IsConst(gone)' /\ oper'[gone] = oper[gone]
    BY <1>6, <1>8 DEF IsConst
  <2> QED BY <1>8, <1>13, <2>1 DEF OldState
<1>19. TodoInv'
  BY DEF PInv, VisitInv, TodoInv
<1>20. FoldTodo'
  <2> SUFFICES ASSUME Head(passes) = "fold", NEW i \in ToSet(todo)
               PROVE  /\ oper'[i] \in BinOps \cup {"cast"}
                      /\ \A v \in Insts : i \in users'[v] => IsConst(v)'
    BY DEF FoldTodo
  <2>1. oper[i] \in BinOps \cup {"cast"} /\ \A v \in Insts : i \in users[v] => IsConst(v)
    BY DEF PInv, VisitInv, FoldTodo
  <2>2. i # n /\ i \in Insts
    BY <1>1, <1>8 DEF PInv, VisitInv, TodoInv, BlockInv, Alive
  <2>3. ASSUME NEW v \in Insts, i \in users'[v] PROVE oper'[v] = "const"
    <3>1. i \in users[v]
      BY <1>14, <2>2, <2>3
    <3>2. v # n
      BY <1>11, <3>1
    <3> QED BY <1>6, <2>1, <3>1, <3>2 DEF IsConst
  <2> QED BY <1>6, <2>1, <2>2, <2>3 DEF IsConst
<1>21. FirstPassPlaced'
  <2>1. \A p \in Programs : Len(passes') <= Len(p.passes)
    BY DEF PInv, VisitInv, FirstPassPlaced
  <2>2. ASSUME FirstPass'
        PROVE  /\ ToSet(todo) \subseteq placed /\ gone \in placed
               /\ \A i \in Alive' : oper'[i] = "shr" => i \in placed
    <3>1. FirstPass
      BY <2>2 DEF FirstPass
    <3>2. ToSet(todo) \subseteq placed /\ \A i \in Alive : oper[i] = "shr" => i \in placed
      BY <3>1 DEF PInv, VisitInv, FirstPassPlaced
    <3>3. gone \in placed
      <4>1. Head(passes) \in {"fold", "peephole"}
        BY DEF PInv, VisitInv, PassTypes
      <4>2. Head(todo) \in ToSet(todo)
        BY VisitedFacts
      <4> QED BY <1>8, <3>2, <4>1, <4>2
    <3>4. \A i \in Alive' : oper'[i] = "shr" => i \in placed
      <4> SUFFICES ASSUME NEW i \in Alive', oper'[i] = "shr" PROVE i \in placed
        OBVIOUS
      <4>1. i # n
        BY <1>6
      <4>2. i \in Alive /\ i \in Insts
        BY <1>5, <4>1 DEF Alive
      <4> QED BY <1>6, <3>2, <4>1, <4>2
    <3> QED BY <3>2, <3>3, <3>4
  <2>3. step' # "start"
    OBVIOUS
  <2> QED BY <2>1, <2>2, <2>3 DEF FirstPassPlaced
<1>22. PassTypes'
  BY DEF PInv, VisitInv, PassTypes
<1>23. StopsHaveReasons'
  BY <1>1, <1>3, NoStop DEF Running, TypeOK
<1> QED BY <1>2, <1>9, <1>10, <1>15, <1>17, <1>18, <1>19, <1>20, <1>21, <1>22, <1>23
        DEF PInv, CodeInv, VisitInv

(* What castEval may yield is a number of the destination's type.            *)
LEMMA CastFits ==
    ASSUME NEW t, NEW s, NEW a
    PROVE  CastEval(t, s, a) \subseteq Values(t)
<1>1. CASE t = "I1"
  <2>1. Values(t) = {0, 1}
    BY <1>1 DEF Values
  <2> DEFINE byte == a % TwoTo(Bits["I8"])
  <2>2. CastEval(t, s, a) = IF byte \in {0, 1} THEN {byte} ELSE {0, 1}
    BY <1>1 DEF CastEval
  <2> HIDE DEF byte
  <2> QED BY <2>1, <2>2
<1>2. CASE t # "I1"
  BY <1>2 DEF CastEval
<1> QED BY <1>1, <1>2

(* What a fold yields is a number of the constant's type.                    *)
LEMMA FoldedFits ==
    ASSUME PInv, NEW i \in Alive, oper[i] \in BinOps \cup {"cast"},
           \A v \in Insts : i \in users[v] => IsConst(v),
           ~FoldAborts(i), ~FoldThrows(i), NEW x \in Folded(i)
    PROVE  LET t == IF oper[i] = "cast" THEN type[i] ELSE type[inputs[i][1]]
           IN  t \in Types /\ x \in Values(t)
<1>1. CodeTypes /\ \A j \in Alive : j \in Insts
  BY DEF PInv, CodeInv, Alive
<1>2. CASE oper[i] = "cast"
  <2>1. type[i] \in Types
    BY <1>1 DEF CodeTypes
  <2>2. x \in CastEval(type[i], type[inputs[i][1]], val[inputs[i][1]])
    BY <1>2 DEF Folded
  <2> QED BY <1>2, <2>1, <2>2, CastFits
<1>3. CASE oper[i] \in BinOps
  <2>1. PICK l, r : l = inputs[i][1] /\ r = inputs[i][2]
    OBVIOUS
  <2>2. Arity(oper[i]) = 2 /\ oper[i] # "cast"
    BY <1>3 DEF Arity, BinOps
  <2>3. l \in Alive /\ r \in Alive /\ i \in users[l] /\ i \in users[r]
    BY <2>1, <2>2, OperandFacts
  <2>4. type[l] \in Types /\ val[l] \in Values(type[l]) /\ val[r] \in Values(type[r])
    BY <1>1, <2>3 DEF CodeTypes
  <2>5. oper[i] # "div" /\ type[l] = type[r]
    BY <2>1, <2>2 DEF FoldAborts
  <2>6. oper[i] = "shr" => ~ShiftThrows(type[l], val[r])
    BY <2>1 DEF FoldThrows
  <2>7. x = BinEval(oper[i], type[l], val[l], val[r])
    BY <2>1, <2>2 DEF Folded
  <2>8. PICK o, t, a, b : o = oper[i] /\ t = type[l] /\ a = val[l] /\ b = val[r]
    OBVIOUS
  <2>9. /\ o \in BinOps /\ o # "div" /\ t \in Types /\ a \in Values(t) /\ b \in Values(t)
        /\ o = "shr" => ~ShiftThrows(t, b)
    BY <1>3, <2>4, <2>5, <2>6, <2>8
  <2>10. BinEval(o, t, a, b) \in Values(t)
    BY <2>9, BinEvalFits
  <2> QED BY <2>1, <2>2, <2>4, <2>7, <2>8, <2>10
<1> QED BY <1>2, <1>3

(* Lists of arguments.                                                       *)
LEMMA ArgFacts ==
    /\ << >> \in ArgLists /\ Len(<< >>) = 0 /\ DOMAIN << >> = {}
    /\ \A a, b \in Alive : MaxInputs >= 2 =>
          /\ <<a, b>> \in ArgLists /\ Len(<<a, b>>) = 2
          /\ \A k \in DOMAIN <<a, b>> : <<a, b>>[k] \in {a, b}
<1>1. 0 \in 0 .. MaxInputs /\ << >> \in [1 .. 0 -> Alive]
  BY MaxInputsAssumption
<1>2. ASSUME NEW a \in Alive, NEW b \in Alive, MaxInputs >= 2
      PROVE  <<a, b>> \in ArgLists
  <2>1. <<a, b>> \in [1 .. 2 -> Alive] /\ 2 \in 0 .. MaxInputs
    BY <1>2, MaxInputsAssumption
  <2> QED BY <2>1 DEF ArgLists
<1>3. << >> \in ArgLists
  BY <1>1 DEF ArgLists
<1> QED BY <1>2, <1>3

(* The constant is made.                                                     *)
LEMMA FoldKeeps ==
    ASSUME PInv, Fold
    PROVE  PInv'
<1>1. PICK i, n : i = Head(todo) /\ n = FreeInst
  OBVIOUS
<1>2. PICK t : t = IF oper[i] = "cast" THEN type[i] ELSE type[inputs[i][1]]
  OBVIOUS
<1>3. PICK x \in Folded(i) :
         /\ val' = [val EXCEPT ![n] = x]
         /\ departs' = IF oper[i] = "cast" /\ x # Narrow(type[i], val[inputs[i][1]])
                       THEN departs \cup {"cast"} ELSE departs
  BY <1>1 DEF Fold
<1>4. /\ Running /\ step = "visit" /\ passes # << >> /\ Head(passes) = "fold" /\ todo # << >>
      /\ ~FoldAborts(i) /\ ~FoldThrows(i) /\ NewOp(n, << >>)
      /\ fresh' = n /\ old' = i
      /\ oper' = [oper EXCEPT ![n] = "const"] /\ type' = [type EXCEPT ![n] = t]
      /\ step' = "put" /\ UNCHANGED <<block, placed, passes, todo, outcome>>
  BY <1>1, <1>2 DEF Fold, Visiting
<1>5. Between
  BY <1>4 DEF Between
<1>6. n \in Insts /\ kind[n] = "dead"
  BY <1>1, <1>5, FreeFacts
<1>7. i \in ToSet(todo) /\ i \in ToSet(block) /\ i \in Alive
  BY <1>1, <1>4, VisitedFacts
<1>8. oper[i] \in BinOps \cup {"cast"} /\ \A v \in Insts : i \in users[v] => IsConst(v)
  BY <1>4, <1>7 DEF PInv, VisitInv, FoldTodo
<1>9. t \in Types /\ x \in Values(t)
  BY <1>2, <1>4, <1>7, <1>8, FoldedFits
<1>10. ~IsConst(i)
  BY <1>8 DEF IsConst, BinOps
<1>11. /\ DOMAIN val' = Insts /\ \A j \in Insts \ {n} : val'[j] = val[j]
       /\ val'[n] \in Values(t)
  BY <1>3, <1>6, <1>9 DEF PInv, CodeInv, CodeTypes
<1>12. departs' \subseteq {"cast", "amount", "order"}
  BY <1>3 DEF PInv, VisitInv, PassTypes
<1>13. PICK e, o : e = << >> /\ o = "const"
  OBVIOUS
<1>14. e \in ArgLists /\ \A k \in DOMAIN e : IsConst(e[k])
  BY <1>13, ArgFacts
<1>15. Len(e) = Arity(o) /\ o \in {"const", "add"}
  BY <1>13, ArgFacts DEF Arity, BinOps
<1>16. /\ NewOp(n, e) /\ oper' = [oper EXCEPT ![n] = o] /\ (o = "const" => val'[n] \in Values(t))
       /\ Head(passes) = "fold" => i = Head(todo)
       /\ Head(passes) = "peephole" => oper[i] = "shr" /\ Precedes(block, i, Head(todo))
       /\ step' \in {"put", "operand"}
  BY <1>1, <1>4, <1>11, <1>13
<1> QED BY <1>4, <1>5, <1>6, <1>7, <1>9, <1>10, <1>11, <1>12, <1>14, <1>15, <1>16, MakeKeeps

(* The sum of the amounts is made.                                           *)
LEMMA MakeSumKeeps ==
    ASSUME PInv, MakeSum
    PROVE  PInv'
<1>1. PICK c, l, r, m, n : c = Candidate /\ l = Left /\ r = Right /\ m = inputs[Left][2] /\ n = FreeInst
  OBVIOUS
<1>2. /\ Running /\ step = "rules" /\ passes # << >> /\ Head(passes) = "peephole" /\ todo # << >>
      /\ c = Head(todo) /\ l = inputs[c][1] /\ r = inputs[c][2] /\ m = inputs[l][2]
      /\ oper[c] = "shr" /\ IsConst(r) /\ oper[l] = "shr" /\ IsConst(m)
      /\ NewOp(n, <<m, r>>) /\ oper' = [oper EXCEPT ![n] = "add"]
      /\ type' = [type EXCEPT ![n] = type[r]] /\ fresh' = n /\ old' = l
      /\ departs' = departs \cup Losses(m, r) /\ val' = val
      /\ step' = "operand" /\ UNCHANGED <<block, placed, passes, todo, outcome>>
  BY <1>1 DEF MakeSum, At, Visiting, Candidate, Left, Right, TwoShiftsRule
<1>3. Between /\ fresh = None /\ None \notin Insts
  BY <1>2, ProgramsAssumption DEF Between, PInv, VisitInv, FreshState
<1>4. n \in Insts /\ kind[n] = "dead"
  BY <1>1, <1>3, FreeFacts
<1>5. c \in Alive /\ c \in ToSet(block) /\ c \in Insts
  BY <1>2, VisitedFacts
<1>6. Arity("shr") = 2
  BY DEF Arity, BinOps
<1>7. l \in Alive /\ c \in users[l] /\ r \in Alive /\ 2 \in 1 .. MaxInputs
  <2>1. 1 \in 1 .. Arity(oper[c]) /\ 2 \in 1 .. Arity(oper[c])
    BY <1>2, <1>6, SMTT(30)
  <2> QED BY <1>2, <1>5, <2>1, OperandFacts
<1>8. m \in Alive
  <2>1. 2 \in 1 .. Arity(oper[l])
    BY <1>2, <1>6, SMTT(30)
  <2> QED BY <1>2, <1>7, <2>1, OperandFacts
<1>9. ~IsConst(l) /\ l \in ToSet(block) /\ Precedes(block, l, c)
  <2>1. ~IsConst(l)
    BY <1>2 DEF IsConst
  <2>2. l \in ToSet(block) /\ l \in Insts
    BY <1>3, <1>7 DEF PInv, CodeInv, BlockInv, Alive
  <2>3. l # fresh
    BY <1>3, <2>2
  <2> QED BY <1>5, <1>7, <2>1, <2>2, <2>3 DEF PInv, CodeInv, OperandsBefore
<1>10. type[r] \in Types
  BY <1>7 DEF PInv, CodeInv, CodeTypes
<1>11. departs' \subseteq {"cast", "amount", "order"}
  <2>1. Losses(m, r) \subseteq {"amount", "order"}
    BY DEF Losses
  <2> QED BY <1>2, <2>1 DEF PInv, VisitInv, PassTypes
<1>12. DOMAIN val' = Insts /\ \A j \in Insts \ {n} : val'[j] = val[j]
  BY <1>2 DEF PInv, CodeInv, CodeTypes
<1>13. PICK a, o, t : a = <<m, r>> /\ o = "add" /\ t = type[r]
  OBVIOUS
<1>14. MaxInputs >= 2
  BY <1>7, MaxInputsAssumption
<1>15. a \in ArgLists /\ Len(a) = 2 /\ \A k \in DOMAIN a : a[k] \in {m, r}
  BY <1>7, <1>8, <1>13, <1>14, ArgFacts
<1>16. \A k \in DOMAIN a : IsConst(a[k])
  BY <1>2, <1>15
<1>17. Len(a) = Arity(o) /\ o \in {"const", "add"}
  BY <1>13, <1>15 DEF Arity, BinOps
<1>18. /\ NewOp(n, a) /\ oper' = [oper EXCEPT ![n] = o] /\ type' = [type EXCEPT ![n] = t] /\ t \in Types
       /\ (o = "const" => val'[n] \in Values(t))
       /\ Head(passes) = "fold" => l = Head(todo)
       /\ Head(passes) = "peephole" => oper[l] = "shr" /\ Precedes(block, l, Head(todo))
       /\ step' \in {"put", "operand"}
  BY <1>2, <1>9, <1>10, <1>13
<1>19. /\ Running /\ passes # << >> /\ todo # << >> /\ fresh' = n /\ old' = l
       /\ UNCHANGED <<block, placed, passes, todo, outcome>>
  BY <1>2
<1> QED BY <1>3, <1>4, <1>9, <1>11, <1>12, <1>15, <1>16, <1>17, <1>18, <1>19, MakeKeeps

(* u may read v.                                                             *)
MayRead(u, v) ==
    /\ u \in ToSet(block) /\ v # fresh => IsConst(v) \/ Precedes(block, v, u)
    /\ ~Between /\ u = fresh => IsConst(v)
    /\ ~Between /\ v = fresh => Precedes(block, old, u)

(* A step of the peephole rules that changes links only.                     *)
LEMMA LinkKeeps ==
    ASSUME PInv, Running, IndInv', passes # << >>, Head(passes) = "peephole",
           \A i \in Insts : Len(inputs'[i]) = Len(inputs[i]),
           \A v, u \in Insts : u \in users'[v] => u \in users[v] \/ MayRead(u, v),
           Between' <=> Between, step' \in {"put", "rules", "remove", "amount"},
           UNCHANGED <<kind, aborted, block, oper, type, val, placed, passes, todo, fresh, old,
                       outcome, departs>>
    PROVE  PInv'
<1>1. IndInv /\ TypeOK /\ CodeTypes /\ BlockInv /\ OperandsBefore
  BY DEF PInv, CodeInv, IndInv
<1>2. Alive' = Alive /\ \A i \in Alive : i \in Insts
  BY DEF Alive
<1>3. CodeTypes'
  BY <1>1, <1>2 DEF CodeTypes, IsConst
<1>4. BlockInv'
  BY <1>1, <1>2 DEF BlockInv
<1>5. OperandsBefore'
  BY <1>1 DEF OperandsBefore, MayRead, IsConst
<1>6. FreshState'
  BY <1>2 DEF PInv, VisitInv, FreshState, MayRead, IsConst
<1>7. OldState'
  <2>1. CASE Between
    BY <2>1 DEF PInv, VisitInv, OldState
  <2>2. CASE ~Between
    <3>1. fresh \in Insts
      BY <1>2, <2>2 DEF PInv, VisitInv, FreshState
    <3>2. /\ old \in ToSet(block) /\ ~IsConst(old) /\ \A u \in users[fresh] : Precedes(block, old, u)
          /\ oper[old] = "shr" /\ Precedes(block, old, Head(todo)) /\ old \in Insts \cup {None}
      BY <2>2 DEF PInv, VisitInv, OldState
    <3>3. users'[fresh] \subseteq Insts
      BY <3>1 DEF IndInv, TypeOK
    <3>4. \A u \in users'[fresh] : Precedes(block, old, u)
      BY <2>2, <3>1, <3>2, <3>3 DEF MayRead
    <3> QED BY <2>2, <3>2, <3>4 DEF OldState, IsConst
  <2> QED BY <2>1, <2>2
<1>8. TodoInv'
  BY DEF PInv, VisitInv, TodoInv
<1>9. FoldTodo'
  BY DEF FoldTodo
<1>10. FirstPassPlaced'
  <2>1. step' # "start"
    OBVIOUS
  <2> QED BY <1>2, <2>1 DEF PInv, VisitInv, FirstPassPlaced, FirstPass
<1>11. PassTypes'
  BY DEF PInv, VisitInv, PassTypes
<1>12. StopsHaveReasons'
  BY <1>1, NoStop DEF Running, TypeOK
<1> QED BY <1>3, <1>4, <1>5, <1>6, <1>7, <1>8, <1>9, <1>10, <1>11, <1>12
        DEF PInv, CodeInv, VisitInv

(* Exchanging the operands.                                                  *)
LEMMA TrySwapKeeps ==
    ASSUME PInv, TrySwap
    PROVE  PInv'
<1>1. /\ Running /\ step = "visit" /\ passes # << >> /\ Head(passes) = "peephole" /\ todo # << >>
      /\ step' = "rules" /\ Between /\ Between' /\ Candidate = Head(todo)
      /\ UNCHANGED <<codeVars, passes, todo, fresh, old, outcome, departs>>
  BY DEF TrySwap, At, Visiting, Between, Candidate
<1>2. CASE UNCHANGED vars
  BY <1>1, <1>2, SkipKeeps
<1>3. CASE ConstOnLeft /\ SwapInputs(Candidate, 1, 2)
  <2>1. PICK c : c = Candidate
    OBVIOUS
  <2>2. c \in Alive /\ c \in Insts /\ Arity(oper[c]) = 2
    BY <1>1, <1>3, <2>1, VisitedFacts DEF ConstOnLeft, Arity, BinOps
  <2>3. 1 \in 1 .. MaxInputs /\ 2 \in 1 .. MaxInputs
    <3>1. 1 \in 1 .. Arity(oper[c]) /\ 2 \in 1 .. Arity(oper[c])
      BY <2>2
    <3> QED BY <2>2, <3>1, OperandFacts
  <2>4. IndInv'
    BY <1>3, <2>1, <2>2, <2>3, SwapInputsInv DEF PInv, CodeInv
  <2>5. /\ inputs' = [inputs EXCEPT ![c] = [@ EXCEPT ![1] = inputs[c][2], ![2] = inputs[c][1]]]
        /\ UNCHANGED <<kind, users, entries, aborted>>
    BY <1>3, <2>1 DEF SwapInputs
  <2>6. \A i \in Insts : Len(inputs'[i]) = Len(inputs[i])
    <3>1. inputs \in [Insts -> Seq(Insts)]
      BY DEF PInv, CodeInv, IndInv, TypeOK
    <3>2. inputs[c] \in Seq(Insts)
      BY <2>2, <3>1
    <3>3. Len([inputs[c] EXCEPT ![1] = inputs[c][2], ![2] = inputs[c][1]]) = Len(inputs[c])
      BY <3>2
    <3> QED BY <2>2, <2>5, <3>1, <3>3
  <2>7. UNCHANGED <<kind, aborted, block, oper, type, val, placed, passes, todo, fresh, old,
                    outcome, departs>>
    BY <1>1, <2>5 DEF codeVars
  <2> QED BY <1>1, <2>4, <2>5, <2>6, <2>7, LinkKeeps
<1> QED BY <1>2, <1>3 DEF TrySwap

(* Redirecting changes no number of inputs.                                  *)
LEMMA TakenUsers ==
    ASSUME TypeOK, NEW v \in Insts, NEW other \in Insts, SetUsersFrom(v, other)
    PROVE  /\ v # other /\ UNCHANGED <<kind, entries, aborted>>
           /\ \A w, u \in Insts : u \in users'[w] => u \in users[w] \/ (w = v /\ u \in users[other])
           /\ \A i \in Insts : Len(inputs'[i]) = Len(inputs[i])
<1> DEFINE all == users[v] \cup users[other]
<1>1. /\ users' = [users EXCEPT ![v] = all, ![other] = {}]
      /\ inputs' = [i \in Insts |-> IF i \in all THEN Redirected(i, v, other) ELSE inputs[i]]
      /\ UNCHANGED <<kind, entries, aborted>> /\ v # other
  BY DEF SetUsersFrom, TakeUsers
<1>2. \A w \in Insts : users'[w] = IF w = other THEN {} ELSE IF w = v THEN all ELSE users[w]
  BY <1>1 DEF TypeOK
<1>3. ASSUME NEW i \in Insts PROVE Len(inputs'[i]) = Len(inputs[i])
  <2>1. CASE i \in all
    <3>1. inputs'[i] = Redirected(i, v, other)
      BY <1>1, <2>1
    <3>2. Len(Redirected(i, v, other)) = Len(inputs[i])
      BY RedirectedSet
    <3> QED BY <3>1, <3>2
  <2>2. CASE i \notin all
    <3>1. inputs'[i] = inputs[i]
      BY <1>1, <2>2
    <3> QED BY <3>1
  <2> QED BY <2>1, <2>2
<1>4. ASSUME NEW w \in Insts, NEW u \in Insts, u \in users'[w]
      PROVE  u \in users[w] \/ (w = v /\ u \in users[other])
  BY <1>2, <1>4
<1> QED BY <1>1, <1>3, <1>4

(* What takes over the users of an operation comes before it.                *)
LEMMA TakeOverKeeps ==
    ASSUME PInv, TakeOver
    PROVE  PInv'
<1>1. PICK c, v : c = Candidate /\ v = IF IdentityRule THEN Left ELSE Right
  OBVIOUS
<1>2. /\ Running /\ step = "rules" /\ passes # << >> /\ Head(passes) = "peephole" /\ todo # << >>
      /\ c = Head(todo) /\ v \in {inputs[c][1], inputs[c][2]} /\ oper[c] \in {"add", "shr", "or"}
      /\ SetUsersFrom(v, c) /\ step' = "remove" /\ Between /\ Between'
      /\ UNCHANGED <<codeVars, passes, todo, fresh, old, outcome, departs>>
  BY <1>1 DEF TakeOver, At, Visiting, Candidate, Left, Right, IdentityRule, AllOnesRule, Between
<1>3. fresh = None /\ None \notin Insts
  BY <1>2, ProgramsAssumption DEF PInv, VisitInv, FreshState
<1>4. c \in Alive /\ c \in ToSet(block) /\ c \in Insts
  BY <1>2, VisitedFacts
<1>5. v \in Alive /\ v \in Insts /\ c \in users[v]
  <2>1. Arity(oper[c]) = 2
    BY <1>2 DEF Arity, BinOps
  <2>2. 1 \in 1 .. Arity(oper[c]) /\ 2 \in 1 .. Arity(oper[c])
    BY <2>1
  <2>3. \A k \in 1 .. Arity(oper[c]) : inputs[c][k] \in Alive /\ c \in users[inputs[c][k]]
    BY <1>4, OperandFacts
  <2> QED BY <1>2, <2>2, <2>3 DEF Alive
<1>6. IndInv /\ TypeOK /\ OperandsBefore
  BY DEF PInv, CodeInv, IndInv
<1>7. IndInv'
  BY <1>2, <1>4, <1>5, <1>6, SetUsersFromInv
<1>8. /\ UNCHANGED <<kind, entries, aborted>>
      /\ \A w, u \in Insts : u \in users'[w] => u \in users[w] \/ (w = v /\ u \in users[c])
      /\ \A i \in Insts : Len(inputs'[i]) = Len(inputs[i])
  BY <1>2, <1>4, <1>5, <1>6, TakenUsers
<1>9. ~IsConst(c) /\ c # fresh /\ v # fresh
  BY <1>2, <1>3, <1>4, <1>5 DEF IsConst
<1>10. IsConst(v) \/ Precedes(block, v, c)
  BY <1>4, <1>5, <1>6, <1>9 DEF OperandsBefore
<1>11. ASSUME NEW u \in Insts, u \in users[c] PROVE MayRead(u, v)
  <2>1. u \in ToSet(block) => Precedes(block, c, u)
    BY <1>4, <1>6, <1>9, <1>11 DEF OperandsBefore
  <2>2. u \in ToSet(block) => IsConst(v) \/ Precedes(block, v, u)
    BY <1>10, <2>1, BlockOrder
  <2> QED BY <1>2, <2>2 DEF MayRead
<1>12. \A w, u \in Insts : u \in users'[w] => u \in users[w] \/ MayRead(u, w)
  BY <1>8, <1>11
<1>13. UNCHANGED <<kind, aborted, block, oper, type, val, placed, passes, todo, fresh, old,
                   outcome, departs>>
  BY <1>2, <1>8 DEF codeVars
<1> QED BY <1>2, <1>7, <1>8, <1>12, <1>13, LinkKeeps

(* One operand for another: at most one instruction gets a user.             *)
LEMMA SetOperand ==
    ASSUME IndInv, NEW i \in Insts, NEW k \in 1 .. MaxInputs, NEW v \in Insts, SetInput(i, k, v)
    PROVE  /\ IndInv' /\ UNCHANGED <<kind, entries, aborted>>
           /\ \A w, u \in Insts : u \in users'[w] => u \in users[w] \/ (w = v /\ u = i)
           /\ \A j \in Insts : Len(inputs'[j]) = Len(inputs[j])
<1>1. /\ inputs' = [inputs EXCEPT ![i] = [@ EXCEPT ![k] = v]]
      /\ UNCHANGED <<kind, entries, aborted>> /\ k \in DOMAIN inputs[i]
  BY DEF SetInput
<1>2. TypeOK /\ inputs[i] \in Seq(Insts) /\ inputs[i][k] \in Insts
  BY <1>1 DEF IndInv, TypeOK
<1>3. ASSUME NEW w \in Insts, NEW u \in Insts, u \in users'[w]
      PROVE  u \in users[w] \/ (w = v /\ u = i)
  <2>1. PICK l \in [Insts -> SUBSET Insts] :
           l \in {users, [users EXCEPT ![inputs[i][k]] = @ \ {i}]} /\ users' = [l EXCEPT ![v] = @ \cup {i}]
    BY <1>2 DEF SetInput, TypeOK
  <2>2. l[w] \subseteq users[w]
    BY <1>2, <2>1 DEF TypeOK
  <2>3. users'[w] = IF w = v THEN l[w] \cup {i} ELSE l[w]
    BY <2>1
  <2> QED BY <1>3, <2>2, <2>3
<1>4. \A j \in Insts : Len(inputs'[j]) = Len(inputs[j])
  <2>1. Len([inputs[i] EXCEPT ![k] = v]) = Len(inputs[i])
    BY <1>2
  <2> QED BY <1>1, <1>2, <2>1 DEF TypeOK
<1>5. IndInv'
  BY SetInputInv
<1> QED BY <1>1, <1>3, <1>4, <1>5

(* The outer shift takes the operand of the inner one, then the sum.         *)
LEMMA TakeKeeps ==
    ASSUME PInv, TakeOperand \/ TakeSum
    PROVE  PInv'
<1>1. PICK c, k, v : /\ c = Candidate
                     /\ (TakeOperand /\ k = 1 /\ v = inputs[old][1]) \/ (TakeSum /\ k = 2 /\ v = fresh)
  OBVIOUS
<1>2. /\ Running /\ passes # << >> /\ Head(passes) = "peephole" /\ todo # << >>
      /\ c = Head(todo) /\ SetInput(c, k, v) /\ step' \in {"amount", "put"}
      /\ ~Between /\ ~Between' /\ k \in {1, 2}
      /\ UNCHANGED <<codeVars, passes, todo, fresh, old, outcome, departs>>
  BY <1>1 DEF TakeOperand, TakeSum, At, Visiting, Candidate, Between
<1>3. /\ old \in ToSet(block) /\ \A u \in users[fresh] : Precedes(block, old, u)
      /\ oper[old] = "shr" /\ Precedes(block, old, c) /\ fresh \in Alive
  BY <1>2 DEF PInv, VisitInv, OldState, FreshState
<1>4. c \in ToSet(block) /\ c \in Insts /\ c # fresh
  BY <1>2, VisitedFacts
<1>5. IndInv /\ OperandsBefore
  BY DEF PInv, CodeInv
<1>6. v \in Insts /\ MayRead(c, v)
  <2>1. CASE v = fresh /\ k = 2
    BY <1>2, <1>3, <1>4, <2>1 DEF MayRead, Alive
  <2>2. CASE v = inputs[old][1]
    <3>1. old \in Alive /\ old \in Insts
      BY <1>3 DEF PInv, CodeInv, BlockInv, Alive
    <3>2. 1 \in 1 .. Arity(oper[old])
      BY <1>3 DEF Arity, BinOps
    <3>3. v \in Alive /\ old \in users[v]
      BY <2>2, <3>1, <3>2, OperandFacts
    <3>4. v # fresh
      BY <1>3, <3>3, BlockOrder
    <3>5. IsConst(v) \/ Precedes(block, v, old)
      BY <1>3, <1>5, <3>1, <3>3, <3>4 DEF OperandsBefore, Alive
    <3>6. IsConst(v) \/ Precedes(block, v, c)
      BY <1>3, <3>5, BlockOrder
    <3> QED BY <1>2, <1>4, <3>3, <3>4, <3>6 DEF MayRead, Alive
  <2> QED BY <1>1, <2>1, <2>2
<1>7. k \in 1 .. MaxInputs
  <2>1. k \in DOMAIN inputs[c]
    BY <1>2 DEF SetInput
  <2>2. DOMAIN inputs[c] = 1 .. Len(inputs[c]) /\ Len(inputs[c]) \in Nat /\ Len(inputs[c]) <= MaxInputs
    BY <1>4, <1>5, InputFacts DEF IndInv
  <2> QED BY <2>1, <2>2, MaxInputsAssumption
<1>8. /\ IndInv' /\ UNCHANGED <<kind, entries, aborted>>
      /\ \A w, u \in Insts : u \in users'[w] => u \in users[w] \/ (w = v /\ u = c)
      /\ \A j \in Insts : Len(inputs'[j]) = Len(inputs[j])
  BY <1>2, <1>4, <1>5, <1>6, <1>7, SetOperand
<1>9. \A w, u \in Insts : u \in users'[w] => u \in users[w] \/ MayRead(u, w)
  BY <1>6, <1>8
<1>10. UNCHANGED <<kind, aborted, block, oper, type, val, placed, passes, todo, fresh, old,
                   outcome, departs>>
  BY <1>2, <1>8 DEF codeVars
<1>11. (Between' <=> Between) /\ step' \in {"put", "rules", "remove", "amount"}
  BY <1>2
<1> QED BY <1>2, <1>8, <1>9, <1>10, <1>11, LinkKeeps

(* Every step of the folding.                                                *)
LEMMA FoldingKeeps == PInv /\ FoldingNext => PInv'
<1> SUFFICES ASSUME PInv, FoldingNext PROVE PInv'
  OBVIOUS
<1>1. CASE CollectFoldable
  <2> DEFINE wanted == {i \in ToSet(block) : Foldable(i)}
  <2>1. Collect("fold", wanted)
    BY <1>1 DEF CollectFoldable
  <2>2. wanted \subseteq ToSet(block) /\ \A i \in wanted : Foldable(i)
    OBVIOUS
  <2> HIDE DEF wanted
  <2> QED BY <2>1, <2>2, CollectKeeps
<1> QED BY <1>1, FoldAbortKeeps, FoldThrowKeeps, FoldKeeps, PutInPlaceKeeps, EndPassKeeps
        DEF FoldingNext

(* Every step of the peephole rules.                                         *)
LEMMA PeepHoleKeeps == PInv /\ PeepHoleNext => PInv'
<1> SUFFICES ASSUME PInv, PeepHoleNext PROVE PInv'
  OBVIOUS
<1>1. CASE CollectCandidates
  <2> DEFINE wanted == {i \in ToSet(block) : oper[i] \in BinOps}
  <2>1. Collect("peephole", wanted)
    BY <1>1 DEF CollectCandidates
  <2>2. wanted \subseteq ToSet(block) /\ "peephole" # "fold"
    OBVIOUS
  <2> HIDE DEF wanted
  <2> QED BY <2>1, <2>2, CollectKeeps
<1>2. CASE SkipUnused \/ NoRule
  <2>1. /\ Running /\ Between /\ todo # << >> /\ step' = "visit" /\ todo' = Tail(todo)
        /\ UNCHANGED <<vars, codeVars, passes, fresh, old, outcome, departs>>
    BY <1>2 DEF SkipUnused, NoRule, At, Visiting, NextVisit, Between
  <2> QED BY <2>1, SkipKeeps
<1> QED BY <1>1, <1>2, TrySwapKeeps, TakeOverKeeps, RemoveCandidateKeeps, MakeSumKeeps, TakeKeeps,
           PutInPlaceKeeps, EndPassKeeps DEF PeepHoleNext

(* The programs satisfy it.                                                  *)
LEMMA PassesInit == CodeInit => PInv
<1> SUFFICES ASSUME CodeInit PROVE PInv
  OBVIOUS
<1>1. PICK p \in Programs : /\ block = p.order /\ oper = p.oper /\ type = p.type /\ val = p.val
                            /\ inputs = p.inputs /\ passes = p.passes
  BY DEF CodeInit
<1>2. /\ placed = ToSet(block) /\ kind = [i \in Insts |-> IF i \in ToSet(block) THEN "op" ELSE "dead"]
      /\ users = [v \in Insts |-> {i \in Insts : \E k \in DOMAIN inputs[i] : inputs[i][k] = v}]
      /\ entries = [i \in Insts |-> << >>] /\ aborted = FALSE
      /\ todo = << >> /\ step = "start" /\ fresh = None /\ old = None
      /\ outcome = "run" /\ departs = {}
  BY DEF CodeInit
<1>3. WellFormed(p)
  BY ProgramsAssumption
<1>4. /\ block \in Seq(Insts) /\ IsInjective(block) /\ ToSet(block) # Insts
      /\ DOMAIN oper = Insts /\ DOMAIN type = Insts /\ DOMAIN val = Insts
      /\ inputs \in [Insts -> Seq(Insts)] /\ \A i \in Insts \ ToSet(block) : inputs[i] = << >>
      /\ passes \in Seq({"fold", "peephole"})
  BY <1>1, <1>3 DEF WellFormed
<1>5. \A k \in DOMAIN block :
         /\ oper[block[k]] \in Opers /\ type[block[k]] \in Types
         /\ oper[block[k]] = "const" => val[block[k]] \in Values(type[block[k]])
         /\ Len(inputs[block[k]]) = Arity(oper[block[k]]) /\ Arity(oper[block[k]]) <= MaxInputs
         /\ \A j \in DOMAIN inputs[block[k]] : \E l \in 1 .. k - 1 : block[l] = inputs[block[k]][j]
  BY <1>1, <1>3 DEF WellFormed, Opers
<1>6. ToSet(block) \subseteq Insts /\ \A i \in ToSet(block) : \E k \in DOMAIN block : block[k] = i
  BY <1>4 DEF ToSet
<1>7. Alive = ToSet(block)
  BY <1>2, <1>6 DEF Alive
<1>8. \A i \in ToSet(block) :
         /\ oper[i] \in Opers /\ type[i] \in Types /\ (oper[i] = "const" => val[i] \in Values(type[i]))
         /\ Len(inputs[i]) = Arity(oper[i]) /\ Len(inputs[i]) <= MaxInputs
  BY <1>5, <1>6
<1>9. \A i \in Insts : Len(inputs[i]) <= MaxInputs
  <2> SUFFICES ASSUME NEW i \in Insts PROVE Len(inputs[i]) <= MaxInputs
    OBVIOUS
  <2>1. CASE i \in ToSet(block)
    BY <1>8, <2>1
  <2>2. CASE i \notin ToSet(block)
    <3>1. PICK e : e = << >>
      OBVIOUS
    <3>2. inputs[i] = e /\ Len(e) = 0
      BY <1>4, <2>2, <3>1, EmptyList
    <3> QED BY <3>2, MaxInputsAssumption
  <2> QED BY <2>1, <2>2
<1>10. TypeOK
  <2>1. entries \in [Insts -> Seq(Insts)]
    BY <1>2, EmptyList
  <2> QED BY <1>2, <1>4, <1>9, <2>1 DEF TypeOK
<1>11. \A v, i \in Insts : i \in users[v] <=> v \in InputSet(i)
  BY <1>2 DEF InputSet
<1>12. \A i \in Insts : \A v \in InputSet(i) : Precedes(block, v, i) /\ i \in ToSet(block) /\ v \in ToSet(block)
  <2> SUFFICES ASSUME NEW i \in Insts, NEW j \in DOMAIN inputs[i]
               PROVE  Precedes(block, inputs[i][j], i) /\ i \in ToSet(block) /\ inputs[i][j] \in ToSet(block)
    BY DEF InputSet
  <2>1. i \in ToSet(block)
    <3> SUFFICES ASSUME i \notin ToSet(block) PROVE FALSE
      OBVIOUS
    <3>1. inputs[i] = << >>
      BY <1>4
    <3> QED BY <3>1, EmptyList
  <2>2. PICK k \in DOMAIN block : block[k] = i
    BY <1>6, <2>1
  <2>3. PICK l \in 1 .. k - 1 : block[l] = inputs[i][j]
    BY <1>5, <2>2
  <2>4. l \in DOMAIN block /\ l < k
    BY <1>4, <2>2
  <2> QED BY <2>1, <2>2, <2>3, <2>4 DEF Precedes, ToSet
<1>13. IndInv
  <2>1. UsersMatchInputs
    BY <1>11 DEF UsersMatchInputs
  <2>2. ASSUME NEW i \in Insts, kind[i] = "dead"
        PROVE  inputs[i] = << >> /\ users[i] = {} /\ \A j \in Insts : i \notin InputSet(j) /\ i \notin users[j]
    <3>1. i \notin ToSet(block)
      BY <1>2, <2>2
    <3>2. inputs[i] = << >> /\ \A j \in Insts : i \notin InputSet(j)
      BY <1>4, <1>12, <3>1
    <3>3. InputSet(i) = {}
      BY <3>2, EmptyList DEF InputSet
    <3>4. \A j \in Insts : i \notin users[j] /\ j \notin users[i]
      BY <1>11, <3>2, <3>3
    <3>5. users[i] \subseteq Insts
      BY <1>10 DEF TypeOK
    <3> QED BY <3>2, <3>4, <3>5
  <2>3. NoDeadOperands
    BY <2>2 DEF NoDeadOperands
  <2> QED BY <1>10, <2>1, <2>3 DEF IndInv
<1>14. CodeTypes
  BY <1>2, <1>4, <1>6, <1>7, <1>8 DEF CodeTypes, IsConst
<1>15. None \notin Insts
  BY ProgramsAssumption
<1>16. BlockInv
  BY <1>2, <1>4, <1>6, <1>7, <1>15 DEF BlockInv
<1>17. OperandsBefore
  BY <1>11, <1>12 DEF OperandsBefore
<1>18. Between
  BY <1>2 DEF Between
<1>19. FreshState
  <2>1. \E i \in Insts : i \notin ToSet(block)
    BY <1>4, <1>6
  <2> QED BY <1>2, <1>18, <2>1 DEF FreshState
<1>20. OldState
  BY <1>2, <1>18 DEF OldState
<1>21. ToSet(todo) = {} /\ todo \in Seq(Insts) /\ DOMAIN todo = {}
  <2>1. PICK e : e = << >>
    OBVIOUS
  <2>2. e \in Seq(Insts) /\ DOMAIN e = {}
    BY <2>1, EmptyList
  <2> QED BY <1>2, <2>1, <2>2 DEF ToSet
<1>22. TodoInv /\ FoldTodo
  BY <1>21 DEF TodoInv, FoldTodo
<1>23. FirstPassPlaced
  <2>1. \A q \in Programs : Len(passes) = Len(q.passes) /\ Len(q.passes) \in Nat
    BY <1>1, ProgramsAssumption, PassCount
  <2>2. \A q \in Programs : Len(passes) <= Len(q.passes)
    BY <2>1
  <2> QED BY <1>2, <1>7, <1>18, <1>21, <2>2 DEF FirstPassPlaced
<1>24. PassTypes
  BY <1>2, <1>4 DEF PassTypes
<1>25. StopsHaveReasons
  BY <1>2 DEF StopsHaveReasons
<1> QED BY <1>13, <1>14, <1>16, <1>17, <1>19, <1>20, <1>22, <1>23, <1>24, <1>25
        DEF PInv, CodeInv, VisitInv

(* The invariant holds in every reachable state.                             *)
THEOREM PassesInvariance == PassesSpec => []PInv
<1>1. PInv /\ UNCHANGED allVars => PInv'
  <2> SUFFICES ASSUME PInv, UNCHANGED allVars PROVE PInv'
    OBVIOUS
  <2>1. UNCHANGED <<kind, inputs, users, entries, aborted, block, oper, type, val, placed,
                    passes, todo, step, fresh, old, outcome, departs>>
    BY DEF allVars, vars, codeVars, passVars
  <2>2. CodeInv'
    BY <2>1, CodeFrame DEF PInv, CodeInv, IndInv, TypeOK
  <2>3. VisitInv'
    BY <2>1, VisitFrame DEF PInv, VisitInv, PassTypes
  <2>4. StopsHaveReasons'
    BY <2>1 DEF PInv, StopsHaveReasons, ClearAsserts, Alive
  <2> QED BY <2>2, <2>3, <2>4 DEF PInv
<1>2. PInv /\ [PassesNext]_allVars => PInv'
  BY <1>1, FoldingKeeps, PeepHoleKeeps DEF PassesNext, Stopped
<1> QED BY PassesInit, <1>2, PTL DEF PassesSpec

(* The type invariant of the passes.                                         *)
THEOREM PassesTyped == PassesSpec => []PassesTypeOK
<1>1. PInv => PassesTypeOK
  <2> SUFFICES ASSUME PInv PROVE PassesTypeOK
    OBVIOUS
  <2>1. TypeOK /\ CodeTypes /\ BlockInv /\ PassTypes /\ OldState
    BY DEF PInv, CodeInv, VisitInv, IndInv
  <2>2. placed \subseteq Insts
    BY <2>1 DEF BlockInv, ToSet
  <2> QED BY <2>1, <2>2 DEF PassesTypeOK, CodeTypes, BlockInv, PassTypes, OldState, Opers
<1> QED BY PassesInvariance, <1>1, PTL

(* The list has exactly what is alive, and what is left to visit is in it.   *)
THEOREM BlockAlive == PassesSpec => []BlockHoldsAlive
<1>1. PInv => BlockHoldsAlive
  BY DEF PInv, CodeInv, BlockInv, VisitInv, TodoInv, BlockHoldsAlive
<1> QED BY PassesInvariance, <1>1, PTL

(* The passes stop for the reasons the code gives only.                      *)
THEOREM StopsFounded == PassesSpec => []StopsHaveReasons
<1>1. PInv => StopsHaveReasons
  BY DEF PInv
<1> QED BY PassesInvariance, <1>1, PTL

(* The optimizations change links by the methods of UseDef only, and so keep *)
(* both directions together.                                                 *)
THEOREM PassesKeepLinks == PassesSpec => []UsersMatchInputs
<1>1. PInv => UsersMatchInputs
  BY DEF PInv, CodeInv, IndInv
<1> QED BY PassesInvariance, <1>1, PTL

(* No pass leaves an instruction that reads a freed one.                     *)
THEOREM PassesFreeNoOperand == PassesSpec => []NoDeadOperands
<1>1. PInv => NoDeadOperands
  BY DEF PInv, CodeInv, IndInv
<1> QED BY PassesInvariance, <1>1, PTL

(* Whatever was made and put into the block, no instruction stands in front  *)
(* of what it reads, but for constants.                                      *)
THEOREM OperandsFirst == PassesSpec => []OperandsBefore
<1>1. PInv => OperandsBefore
  BY DEF PInv, CodeInv
<1> QED BY PassesInvariance, <1>1, PTL
=============================================================================
