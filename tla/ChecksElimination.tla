------------------------- MODULE ChecksElimination --------------------------
(* ChecksElimination of include/opt/checks_elimination.hh, on the dominator  *)
(* tree that DomTree builds: a zero check or bounds check that an equal one  *)
(* dominates is erased.  Only checks are modelled; the walks over the users  *)
(* of a value pass every other instruction by.                               *)
EXTENDS DomTree

CONSTANTS Placements(_),   \* the checks of a function with the given graph
          NoCheck

Inputs(r) == {r.input} \cup (IF r.oper = "bounds" THEN {r.bound} ELSE {})

(* What a function has: checks, each of them once in one of the blocks.      *)
IsCheck(r) ==
    \/ r = [oper |-> "zero", input |-> r.input]
    \/ r = [oper |-> "bounds", input |-> r.input, bound |-> r.bound]

IsPlacement(p) ==
    /\ IsFiniteSet(DOMAIN p.checks) /\ NoCheck \notin DOMAIN p.checks
    /\ \A c \in DOMAIN p.checks : IsCheck(p.checks[c])
    /\ p.code \in [Nodes -> Seq(DOMAIN p.checks)]
    /\ \A c \in DOMAIN p.checks : \E b \in Nodes : c \in ToSet(p.code[b])
    /\ \A a, b \in Nodes : \A k \in DOMAIN p.code[a], l \in DOMAIN p.code[b] :
          p.code[a][k] = p.code[b][l] => a = b /\ k = l

ASSUME PlacementsAssumption == \A g \in Graphs : \A p \in Placements(g) : IsPlacement(p)

VARIABLES
    ceStage,               \* "build", "visit", "walk", "done" or "crashed"
    checks,                \* of every check: oper, input, and bound if it has one
    code,                  \* the checks in each block, in their order
    erased,                \* the checks that were freed
    users,                 \* m_users of each value, as far as they are checks
    cands,                 \* m_candidates that are left
    op, unseen,            \* the check that is visited, the users yet to be met
    readFreed              \* memory of a freed check was read

ceVars == <<ceStage, checks, code, erased, users, cands, op, unseen, readFreed>>
ceAllVars == <<vars, ceVars>>

Home(c) == CHOOSE b \in Nodes : Contains(code[b], c)
Place(c) == CHOOSE k \in DOMAIN code[Home(c)] : code[Home(c)][k] = c

CeInit ==
    /\ Init
    /\ ceStage = "build"
    /\ checks = << >> /\ code = << >> /\ users = << >>
    /\ erased = {}
    /\ cands = << >> /\ op = NoCheck /\ unseen = {} /\ readFreed = FALSE

BuildStep == BuilderNext /\ UNCHANGED ceVars

(* fillCandidates: the checks in reverse post-order.  Until here nothing     *)
(* depends on the checks the function has, so that they are chosen here.     *)
FillCandidates ==
    /\ phase = "done" /\ ceStage = "build"
    /\ \E p \in Placements(graph) :
          /\ checks' = p.checks /\ code' = p.code
          /\ users' = [v \in UNION {Inputs(p.checks[c]) : c \in DOMAIN p.checks} |->
                         {c \in DOMAIN p.checks : v \in Inputs(p.checks[c])}]
          /\ cands' = FlattenSeq([i \in DOMAIN postOrder |-> p.code[Reverse(postOrder)[i]]])
    /\ ceStage' = "visit"
    /\ UNCHANGED <<vars, erased, op, unseen, readFreed>>

(* zeroCheckElim or boundsCheckElim of the next candidate begins its walk    *)
(* over the users of the checked value.                                      *)
VisitCheck ==
    /\ ceStage = "visit" /\ cands # << >>
    /\ op' = Head(cands) /\ cands' = Tail(cands)
    /\ unseen' = users[checks[Head(cands)].input]
    /\ ceStage' = "walk"
    /\ UNCHANGED <<vars, checks, code, erased, users, readFreed>>

(* Mutant: checks of one block are not compared.                             *)
PrecedesFromAfar(c, d) == Home(c) # Home(d) /\ IsDominator(Home(c), Home(d))

(* isDominator for instructions: inside of a block, by their order.          *)
Precedes(c, d) ==
    IF Home(c) = Home(d) THEN Place(c) <= Place(d) ELSE IsDominator(Home(c), Home(d))

(* Mutant: the bound is not compared.                                        *)
SameCheckAnyBound(u) == checks[u].oper = checks[op].oper

(* A user of the kind of op; a bounds check has to have the bound of op, and *)
(* nobody asks whether it has the input of op as its input.                  *)
SameCheck(u) ==
    /\ checks[u].oper = checks[op].oper
    /\ checks[op].oper = "bounds" => checks[u].bound = checks[op].bound

(* The user is read, and if it is a check like op, op is.                    *)
ReadsFreed(u) == u \in erased \/ (SameCheck(u) /\ op \in erased)

PassUser(u) ==
    /\ ceStage = "walk" /\ u \in unseen
    /\ u = op \/ (~ReadsFreed(u) /\ (~SameCheck(u) \/ ~Precedes(u, op)))
    /\ unseen' = unseen \ {u}
    /\ UNCHANGED <<vars, ceStage, checks, code, erased, users, cands, op, readFreed>>

(* Mutant: the check stays among the users.                                  *)
TakeOutKeepsUser(u) ==
    /\ users' = users
    /\ erased' = erased \cup {op}
    /\ unseen' = unseen \ {u, op}

(* op is taken from the users of its input, but not of its bound, and erased;*)
(* the walk goes on.                                                         *)
TakeOut(u) ==
    /\ users' = [users EXCEPT ![checks[op].input] = @ \ {op}]
    /\ erased' = erased \cup {op}
    /\ unseen' = unseen \ {u, op}

Eliminate(u) ==
    /\ ceStage = "walk" /\ u \in unseen \ {op}
    /\ ~ReadsFreed(u) /\ SameCheck(u) /\ Precedes(u, op)
    /\ TakeOut(u)
    /\ UNCHANGED <<vars, ceStage, checks, code, cands, op, readFreed>>

(* What was freed is read: it may hold what is no check, the access may stop *)
(* the process, as the second erasure of an op does whose links are null, or *)
(* it is what it was and op goes on the word of a freed check.               *)
ReadFreed(u) ==
    /\ ceStage = "walk" /\ u \in unseen \ {op} /\ ReadsFreed(u)
    /\ readFreed' = TRUE
    /\ \/ unseen' = unseen \ {u} /\ UNCHANGED <<ceStage, erased, users>>
       \/ ceStage' = "crashed" /\ UNCHANGED <<unseen, erased, users>>
       \/ SameCheck(u) /\ Precedes(u, op) /\ TakeOut(u) /\ UNCHANGED ceStage
    /\ UNCHANGED <<vars, checks, code, cands, op>>

EndWalk ==
    /\ ceStage = "walk" /\ unseen = {}
    /\ op' = NoCheck
    /\ ceStage' = "visit"
    /\ UNCHANGED <<vars, checks, code, erased, users, cands, unseen, readFreed>>

EndElimination ==
    /\ ceStage = "visit" /\ cands = << >>
    /\ ceStage' = "done"
    /\ UNCHANGED <<vars, checks, code, erased, users, cands, op, unseen, readFreed>>

CeStopped ==
    (ceStage \in {"done", "crashed"} \/ phase = "throw") /\ UNCHANGED ceAllVars

CeNext ==
    \/ BuildStep \/ FillCandidates \/ VisitCheck \/ EndWalk \/ EndElimination \/ CeStopped
    \/ \E u \in unseen : PassUser(u) \/ ReadFreed(u) \/ Eliminate(u)

CeSpec == CeInit /\ [][CeNext]_ceAllVars

-----------------------------------------------------------------------------
(* The type invariant.                                                       *)
CeTypeOK ==
    /\ ceStage \in {"build", "visit", "walk", "done", "crashed"}
    /\ erased \subseteq DOMAIN checks /\ op \in DOMAIN checks \cup {NoCheck}
    /\ cands \in Seq(DOMAIN checks) /\ unseen \subseteq DOMAIN checks
    /\ users \in [DOMAIN users -> SUBSET DOMAIN checks]
    /\ readFreed \in BOOLEAN

TreeExact ==
    \A d, n \in Discovered : IsDominator(d, n) <=> Dominates(d, n)

(* Every path to d passes c first.                                           *)
Before(c, d) ==
    IF Home(c) = Home(d) THEN Place(c) < Place(d) ELSE Dominates(Home(c), Home(d))

(* No path has lost its last check: before every place where a check was     *)
(* erased an equal one still stands, in whatever order the users were met.   *)
(* Except where the value is its own bound, for which the walk also meets    *)
(* the checks that have the value as the bound of another one.               *)
ErasedCovered ==
    \A d \in erased : ("bound" \in DOMAIN checks[d] => checks[d].bound # checks[d].input) =>
        \E c \in DOMAIN checks \ erased : checks[c] = checks[d] /\ Before(c, d)

(* The same where the dominator tree is what it should be.                   *)
ErasedCoveredByTree == phase = "done" /\ TreeExact => ErasedCovered

(* When the elimination ends, no check is left that an equal one precedes on *)
(* every path.                                                               *)
NoneRedundant ==
    ceStage = "done" /\ TreeExact =>
        \A c, d \in DOMAIN checks \ erased :
            Home(d) \in Discovered /\ checks[c] = checks[d] => ~Before(c, d)

(* What the walk of the check r takes for a check like it.                   *)
MetAsLike(r, s) ==
    /\ s.oper = r.oper /\ r.input \in Inputs(s)
    /\ r.oper = "bounds" => s.bound = r.bound

(* A freed check is still listed as a user only by its bound; it is read     *)
(* only where the bound is the checked value of another check, or where two  *)
(* others are met as like it: the walk that erased it for one goes on.       *)
FreedReadForReasons ==
    /\ CeTypeOK
    /\ \A v \in DOMAIN users : \A c \in users[v] \cap erased :
          checks[c].oper = "bounds" /\ checks[c].bound = v /\ checks[c].input # v
    /\ readFreed => \E c \in erased : \E d, e \in DOMAIN checks \ {c} :
          \/ /\ checks[c].oper = "bounds" /\ checks[c].bound # checks[c].input
             /\ checks[d].input = checks[c].bound
          \/ d # e /\ MetAsLike(checks[c], checks[d]) /\ MetAsLike(checks[c], checks[e])
=============================================================================
