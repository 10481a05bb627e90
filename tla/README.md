# A verification project for leech-compiler

TLA+ models of the compiler in `src/`, the TLC configurations that check them on
small instances, and proofs, checked by TLAPS, of what holds on every instance.

The program is a header-only library for compilers: an intermediate representation
(functions, basic blocks, instructions), analyses over it, optimizations, and a
linear scan register allocator. It is sequential. There are no threads, no
messages, no persistence; what makes it hard is of another kind:

* **stale state**: a fact is stored twice (inputs and users, successors and
  predecessors, bits and a counter), or a loop walks a container that its body
  changes;
* **protocol sequences**: each operation is simple, and some order of ten of them
  reaches a state no test has built;
* **ordering**: an analysis is right only if its nodes come in one order, which
  another component produced;
* **numeric edges**: half-open intervals, shift amounts, fixed-width arithmetic;
* **termination** of loops over structures that a caller shaped.

Assertions (`LJIT_ASSERT`, `include/common/common.hh:33-51`) are compiled into every
build and end the process: models have an explicit abort state for them, and "no
assertion fails" is a property like any other.

All source paths below are relative to `src/`.

## 1. Inventory

### Register allocation: `include/analysis/regalloc.hh`
*State*: the pool's bits and counter; the intervals sorted by start, each with its
location; the active set ordered by end; the stack position.
*Operations*: allocate and free a register, expire old intervals, place an interval,
spill one, ask for a location.
*Interaction*: takes the live intervals of the liveness analysis; `getLocation` is
what code generation would read.
*Hard*: pool, active set and locations are three views of one thing; a chain of
spills hands registers on behind the pool's back; intervals that touch at an end.
*Correct if*: overlapping intervals never share a register, slots are not shared,
every live value gets a place, nothing is spilled without need, assertions hold.

### Intrusive lists: `include/intrusive_list/intrusive_list.hh`
*State*: two links in each node; a sentinel for each list.
*Operations*: insert, remove, erase one or a range, clear, splice, move assignment.
*Interaction*: holds the blocks of a function and the instructions of a block; inlining
splices both.
*Hard*: six links are rewritten around cells that may be adjacent or in different
lists; loops read links that the body clears.
*Correct if*: the links stay inverse, every node is in one list once, the lists
behave as sequences.

### Depth-first search: `include/graph/dfs.hh`
*State*: a colour for each node, a stack of nodes with an iterator over successors.
*Operations*: the search itself, with the visitor called for discovery, finishing, back
edges; wrappers for pre-order, post-order and reverse post-order.
*Interaction*: the dominator tree, loop analysis and liveness all begin with it.
*Correct if*: it ends, visits what is reachable once, and its post-order is
topological except for the back edges it reports.

### Dominator tree: `include/graph/dom_tree.hh`, `include/graph/dsu.hh`
*State*: semidominators and immediate dominators by DFS time, a disjoint set union
with labels, then the tree.
*Operations*: three phases of the builder; `isDominator`.
*Interaction*: loop analysis and the elimination of checks ask `isDominator`.
*Correct if*: the tree's ancestors are the dominators of the control-flow graph.

### Instructions and def-use links: `include/ir/inst.hh`
*State*: the inputs of each instruction, the users of each value, the entries of phis.
*Operations*: construction, `addInput`, `setInput`, `swapInputs`, `clearInputs`,
`setUsersFrom`, `Phi::addNode`, `Call::appendArg`.
*Interaction*: every optimization changes these links, through
`BasicBlock::removeInst` and `replaceInst`.
*Hard*: users are a set, inputs a list: a value used twice is one user. A phi keeps
its values twice.
*Correct if*: users and inputs are inverse; nothing refers to a freed instruction.

### Basic blocks and functions: `include/ir/basic_block.hh`, `include/ir/function.hh`
*State*: the instruction list, successors and predecessors of a block; the block list.
*Operations*: append, erase, splice, insert, link and unlink, `updateLinks`.
*Hard*: the links repeat what the terminator says; `updateLinks` erases from the
vector it walks; `eraseBB` frees a block its neighbours still name.
*Correct if*: both ends of a link agree with each other and with the terminator.

### Loop analysis: `include/analysis/loop_analyzer.hh`
*State*: for each header a loop with the sources of its back edges, its body of blocks
and inner loops, its outer loop, and whether it is reducible; the loop of each block.
*Operations*: collect the back edges, populate each loop by a walk over predecessors,
gather what is left in a root loop; the linear order and the last block of a loop.
*Interaction*: searches the graph again after the dominator tree was built from it.
*Hard*: sources of back edges are in a body before the walk begins; blocks belong to the
first loop that meets them, so the order in which loops are populated matters.
*Correct if*: bodies are the natural loops of the headers and nest properly.

### Liveness: `include/analysis/liveness.hh`
*State*: a linear order of blocks, numbers of instructions, a live set for each block,
an interval for each value.
*Operations*: order, number, initialise a live set from the successors, walk a block
backwards, extend what is live into a loop to its end.
*Interaction*: takes loops from the loop analysis, gives intervals to the allocator.
*Hard*: one pass over the blocks suffices only if each successor was walked before,
or leads to the header of a loop whose end is known.
*Correct if*: values that are live together have overlapping intervals.

### Constant folding: `include/opt/constant_folding.hh`
*State*: the list of instructions to fold, collected before the first is folded.
*Operations*: collect; for each, evaluate with the operands' width, make a constant, put it
in the place of the instruction.
*Interaction*: `BasicBlock::replaceInst`, and through it every user of what is replaced.
*Hard*: arithmetic at the width of a type; an exception that leaves the loop in its middle;
casts that read a constant as one of another type; the same value as both operands.
*Correct if*: the block computes what it did, wherever the pass stopped.

### Peephole: `include/opt/peephole.hh`
*State*: the list of binary operations, collected first; the rule being applied.
*Operations*: move a constant to the right; drop an operation that changes nothing; join
two shifts.
*Interaction*: creates, redirects, removes through the same methods; its rules read the number of users.
*Hard*: an instruction is made, linked and inserted in three separate calls; a rule is right only
for some values.
*Correct if*: the block computes what it did; nothing that is still to be visited is freed.

### Checks elimination: `include/opt/checks_elimination.hh`
*State*: the checks in reverse post-order; the iterator over the users of the checked value.
*Operations*: for each check, meet the users of its value; erase it if an equal check dominates.
*Interaction*: `isDominator` decides; the users it walks are those it erases from.
*Hard*: the order of a hash set; a walk that goes on after its own check was freed.
*Correct if*: behind every erased check stands one that covers it, and no redundant one is left.

### Inlining: `include/opt/inlining.hh`
*State*: the calls in reverse post-order; of one call, the new block, parameters, arguments,
returns and the value that replaces the call.
*Operations*: split the block behind the call, replace parameters by arguments, replace the
result and the returns, splice the first block, splice the others.
*Interaction*: everything above: blocks, links, users, the intrusive lists, the search.
*Hard*: five structures of two functions change in steps between which none of them is
whole; a second call meets what the first one left.
*Correct if*: the caller computes what it did, and graph, links and lists agree afterwards.

### The rest
`include/common/` (assertions, an error helper), `tools/ljit/main.cc` (which parses its
arguments and calls no component), tests, build files and papers.

## 2. Modules

| module | models | kind |
| --- | --- | --- |
| `RegisterPool` | `RegisterPool` of `regalloc.hh` | state and operations, extended by `LinearScan` |
| `LinearScan` | `RegAllocator` of `regalloc.hh` | specification, properties, inductive invariant |
| `LocationAssignment` | what allocation promises | abstract specification |
| `LinearScan_proofs` | theorems about `LinearScan` | proofs |
| `IntrusiveList` | `intrusive_list.hh` | specification, properties |
| `ListSpec` | lists as sequences | abstract specification |
| `IntrusiveList_proofs` | theorems about `IntrusiveList`, also that it implements `ListSpec` | inductive invariant and proofs |
| `DepthFirstSearch` | `dfs.hh` | specification, properties |
| `DomTree` | `dom_tree.hh`, `dsu.hh`, over `DepthFirstSearch` | specification, properties |
| `DomTree_proofs` | theorems about `DepthFirstSearch`, and about `DomTree` over it | inductive invariants and proofs |
| `LoopAnalyzer` | `loop_analyzer.hh`, over `DomTree` | specification, properties |
| `LoopAnalyzer_proofs` | theorems about `LoopAnalyzer`, and that `Liveness` implements it | inductive invariant and proofs |
| `Liveness` | `liveness.hh`, over `LoopAnalyzer` | specification, properties |
| `UseDef` | `inst.hh`, `removeInst`/`replaceInst` of `basic_block.hh` | specification, properties |
| `BlockLinks` | `basic_block.hh`, `function.hh` | specification, properties |
| `BlockLinks_proofs` | theorems about `BlockLinks` | inductive invariant and proofs |
| `FiniteIteration` | nothing of the code: induction and loops over finite ranges and sets | lemmas for the other proofs |
| `Selection` | `std::copy_if`, as passes and analyses use it | base of `BlockCode` and `LoopAnalyzer` |
| `BlockCode` | a block's instructions and what they compute, over `UseDef` | base of the next three |
| `ConstantFolding` | `constant_folding.hh` | actions |
| `PeepHole` | `peephole.hh` | actions |
| `LocalPasses` | both, one after the other over one block | specification, properties |
| `LocalPasses_proofs` | theorems about `UseDef`, and about `LocalPasses` over it | inductive invariants and proofs |
| `ChecksElimination` | `checks_elimination.hh`, over `DomTree` | specification, properties |
| `ChecksElimination_proofs` | theorems about `ChecksElimination` | inductive invariant and proofs |
| `CallSemantics` | what running a function yields that calls others | reference definition |
| `Inlining` | `inlining.hh`, with `BlockLinks` and `UseDef` | specification, properties |
| `MCLinearScan`, `MCIntrusiveList`, `MCLoopAnalyzer` (graphs only), `MCLiveness`, `MCUseDef`, `MCBlockLinks`, `MCLocalPasses`, `MCChecksElimination`, `MCInlining` | | instances for TLC |

What extends or instantiates what:

    RegisterPool <- LinearScan -> LocationAssignment      IntrusiveList -> ListSpec
    DepthFirstSearch <- DomTree <- LoopAnalyzer <- Liveness
                        DomTree <- ChecksElimination
    UseDef <- BlockCode <- ConstantFolding, PeepHole <- LocalPasses
    UseDef, BlockLinks, CallSemantics <- Inlining
    Selection <- BlockCode, LoopAnalyzer
    FiniteIteration <- BlockLinks_proofs, IntrusiveList_proofs, LocalPasses_proofs, DomTree_proofs
    DomTree_proofs <- ChecksElimination_proofs, LoopAnalyzer_proofs

Definitions marked *Mutant* are deliberate faults of the definition behind them.
Nothing uses them; with one of them in the place of that definition a property must
fail, which shows that the property looks at the code it is about.

### How the models correspond to the code

A public method is one action. A loop whose steps a reader wants to see is a step of
its own with a program counter (`expireOldIntervals`, `erase(first, last)`, the
iterations of the search, the three phases of the builder); a loop with nothing to
see is a recursive function or a fold (`find`, `updateLinks`). An assertion is a
disjunct that leads to an abort state. Allocation picks any free address, so freed
addresses are reused by `UseDef` and `IntrusiveList`; in `BlockLinks` they are not, so that a
link to a freed block stays visible.

**`LinearScan` over `RegisterPool`.** `start`, `end`, `locId`, `onStack` are the fields of the
`LiveInterval` of each value. `pending` is what the loop of `linearScan` has not reached;
`NextInterval` takes any interval with the smallest start, because `std::sort` leaves the order of
equal ones open and the intervals come out of an unordered map. `active` is `m_active`; the
multiset is ordered by ends alone, so its first and last element are any with an
extremal end. `Expire` and `ExpireReturn` are `expireOldIntervals`; `Allocate`, `SpillActive` and
`SpillCurrent` are the two branches of `linearScan` and of `spillAtInterval`. `Init` allows every
assignment of half-open intervals that `LiveInterval::validate` accepts. `LocationAssignment` is
what a client may rely on: three ways to place a value (`Assign`, `Spill`, `Evict`).

**`IntrusiveList`.** `next` and `prev` are the links of nodes and sentinels; a list is named by its
sentinel. `task` holds the erase loop in progress, alone, in `clear`, or inside a move
assignment. Callers pass what the code requires of them: linked positions, ranges of one
list, a splice target outside its range. `ListSpec` has the same operations on
sequences; the mapping reads each list off by following `next`.

**`DepthFirstSearch`.** `toVisit` is the stack with each node's place among its successors. `graph` is
chosen at the start. The visitor's three calls are the logs `preOrder`, `postOrder`, `backEdges`,
from which the wrappers of `dfs.hh` take what they return.

**`DomTree`** extends it: the search runs, then `calcSdoms` from the last DFS time to the
first, one action for each node, then `calcIdoms`. `Find` is `DSU::find` with the path
compression it performs; it returns labels, of a node on the path or of the root. `Preds` lists the
predecessors of a node as `linkBBs` did: `linked`, which comes with the graph, is the order in which the
blocks got their terminators.

**`LoopAnalyzer`** extends `DomTree`: the constructor builds the tree, then searches the graph
again, with the same calls of the visitor, so `CollectBackEdges` reads the logs of the first
search. A loop is named by its header. `Populate`, `WalkBack`, `WalkUp` and `PopulateReturn` are
`populate`, with its stack `walk` and its set `walked`; `FillRoot` is the rest of the constructor.
`reducible` is what the builder's `isDominator` says, its faults included.

**`Liveness`** extends `LoopAnalyzer`: `BuildLinearOrder` (with the assertions behind it), then one
`WalkBlock` for each block from the last to the first, then `Shrink`. The function itself is chosen
when its instructions are first looked at: `program` gives each block's instructions, which
values they use, and the entries of phis. `InitLiveSet` is `calcInitLiveSet`, which stores the set of the block
before it looks at the successors: a block that is its own successor finds a set, empty as yet, and takes the
values its phis have from itself. Live numbers are computed from the linear order. A
recursion that would not end (a loop inside of itself) counts as an assertion that fails.

**`UseDef`.** One action for each method that changes `m_inputs`, `m_users` or `m_vars`; `RemoveInst` and
`ReplaceInst` include the `clearInputs` their callers perform.

**`BlockLinks`.** A block is the targets of its last instruction. `PushInstBack`, `SpliceTail` run
`UpdateLinks`, whose loop reads, round by round, the memory of the vector it erases from.
`EraseBB` unlinks nothing, as the code does not.

**`BlockCode`** adds to `UseDef` the order of the instructions in a block, their kind, type and
constant, and `m_bb` (`placed`). `BinEval` is arithmetic on promoted numbers that is cast back to the
type; a type is a number of bits, three for `I8` and four for `I64` in the runs, which keeps every boundary
and makes all values of a parameter enumerable. Overflow of signed numbers, undefined in C++, wraps
around, which is what the targets do. `Meaning` runs the block for every argument. Three history variables
exist for properties only: `meant` is the first `Meaning`, `departs` notes rewritings that
are known to lose it, `passes` are those left to run. Powers of two and what a pass collects (`TwoTo`, `Selected`)
are recursive functions, of which the provers can use the equations. `WellFormed` is what the constructors of
instructions and the order of a block give the passes to work on.

**`ConstantFolding`**, **`PeepHole`**: collecting is one action, each visit of an instruction one for
each call that changes links: make the constant, put it in place; swap, take over, remove; make the sum,
set one input, set the other, put in place. Every one of these is an action of `UseDef` with
the list of the block beside it. `CastEval` returns the set of values that reading a constant as
another type may yield. Both passes run in one module because they share what can go wrong: what
one leaves, without block or user, the other meets. `outcome` "crashed" is a call through a null `m_bb`.

**`ChecksElimination`** extends `DomTree`, and so uses the tree the builder makes, not the right one.
The users of a value are a set whose next element is any not yet met: the order of the
`unordered_set` is not known. What was freed may hold something else by the time it is read, the access may end
the process, or it is what it was: then the visited check is erased on the word of a freed one (`TakeOut` in
`ReadFreed`). A check that was freed is unlinked a second time through the null pointers that
`IListBase::remove` left in it, which ends the process, or has no effect on what is modelled.
Instructions other than checks change nothing and are left out.

**`Inlining`** instantiates `BlockLinks` and `UseDef` and has the code of both functions. Each helper of
`doInline` is an action, `AdjustInput` and `ReplaceReturn` one for each round of their loops. `Verified` is
`Call::verify`: the result type, the number of arguments and the type of each, as they are when the call's turn
comes, since a call before may have put another value there. `FindReturns` asks each return for its value, and
aborts, in `inputAt`, for one that has none. Freed
addresses are not given out again, so that `wild` can tell a write through one; such a write either
does nothing else or ends the process (`Crash`). `program` keeps the code of the start.
`CallSemantics` runs either version: computed values are terms, a condition goes the way that is next in a
list of choices, and what is compared is the sequence of computed values and the result. A called function
has parameters and a position to return to; no function calls itself.

## 3. Runs

| run | bounds | what it shows |
| --- | --- | --- |
| `linear_scan` | 4 values, positions 0..3, 2 registers | the allocator's safety, optimality, termination, refinement of `LocationAssignment` |
| `intrusive_list` | 2 lists, 4 nodes | partition and links, loops end, refinement of `ListSpec` |
| `liveness` | all graphs of 3 blocks, those of 4 up to renaming without self-loops, nests and branches of up to 6, these also linked backwards; two values and a phi on all but the graphs of 4 | search, dominator tree, loops, linear order, intervals, and that the walks end |
| `liveness_apart` | a branch in a loop | *violated*: see findings |
| `use_def` | 3 instructions, 2 inputs | users and inputs agree, no dangling operand |
| `block_links` | 3 blocks, 2 successors | both ends and the terminator agree; up to two successors no assertion fails |
| `local_passes` | 7 addresses, blocks of up to 6; two passes in three orders | folding and peephole keep the block's meaning |
| `checks_elimination` | 5 graphs of 4 blocks, 3 checks of 5 kinds anywhere in them | what is erased is covered, nothing redundant is left, freed checks are read only in named cases |
| `ce_uncovered` | a chain of conditions, two checks | *violated*: see findings |
| `inlining` | 16 callees, 8 callers of one call, 7 of two; two types | the caller computes what it did; graph, users and lists agree |
| `inlining_void`, `inlining_ids` | one callee each | *violated*: see findings |

### What the properties say

* `NoRegisterConflict`, `StackSlotsDistinct`: no two overlapping values in one register, no two
  values in one slot, after any chain of expiries and spills. `PoolMatchesActive`: the bits
  and the counter of the pool are those of the active intervals; it is what lets the code
  test `m_active.size()` and then demand a register (`NoAssertionFails`).
* `SpillOnlyUnderPressure`: a spilled value was live where more values than registers were.
  `MinimalSpills`: the number of values kept in registers is the largest possible,
  compared with every subset of the values that would fit.
* `Termination`, `AssignmentSpec`: the scan ends, and whatever it does is one of the three
  steps a client may expect of it.
* `ListsPartitionNodes`: the links are inverse, each node in use is in one list once, also between
  the iterations of an erase loop. `LoopsTerminate`, `ListSpecImplemented`: seen from outside,
  the lists are sequences.
* `PostOrderTopological`, `BackEdgesCloseCycles`: what liveness, loop analysis and the
  dominator tree take from the search; all that is reachable is in the order.
* `TreeWellFormed`: `find` ends, the result is a tree with the entry at its root, and the builder
  throws only for a predecessor that nothing leads to.
* `BodiesNatural`, `LoopsInnermost`: the nesting is a forest, the body of a loop is
  the natural loop of its header by its definition on paths, and a block belongs to the
  innermost loop around it. They are claimed for graphs that are `Structured`: no block is its
  own successor, a loop flagged as reducible is dominated by its header at all its back
  edges, and no source of a back edge lies in a loop further inside. Outside of that they are
  false, see the findings. `WalksEnd`: the search and every walk of `populate` end on every graph,
  structured or not.
* `LoopsContiguous`: in the linear order a loop is one stretch, from its header to `getLastBB`: this is what
  makes it right to extend what is live into a loop to the end of that block.
* `IntervalsKeepApart`: if `v` is needed after `w` is defined, and was there before, their intervals
  overlap; with `NoRegisterConflict` they get different registers. Liveness is computed by its
  definition on paths, not by the passes of the code. It is claimed for functions whose linear order has
  every edge but the back edges forward (`ForwardOrder`) and not for the values a phi takes over
  a back edge (`LoopCarried`); `AllKeptApart` drops both conditions and is violated.
* `RangesComplete`: on a reducible function the analysis stops early only where a return has no value:
  no interval is turned around, and no block is missing from the order.
* `UsersMatchInputs`, `NoDeadOperands`: the two directions of a def-use link never come apart; nothing
  points at a freed instruction.
* `LinksPaired`, `LinksFollowTerminator`, `AbortOnlyBeyondTwo`: each link is stored at both ends; a
  block's first successors are the targets of its terminator; the erasing walk is harmless
  for the blocks the two terminators can produce.
* `MeaningKept`: after any visit of either pass, also the one an exception ended, the block returns for
  every argument what it returned at first, where that was defined; but for the three rewritings that
  `departs` records. `BlockHoldsAlive`: the list of the block and the set of live instructions are
  changed by different calls and differ by no more than the one between them; nothing that
  is to be visited is freed. `StopsHaveReasons`: an exception, an assertion, a null block each
  have one of the causes named.
* `ErasedCoveredByTree`: before every place where a check was erased an equal one still stands, in whatever
  order the users were met: a check may be erased because of one that is itself erased later or
  was before. `NoneRedundant` is the converse. Both compare with the paths of the graph, and are claimed
  where the tree has the dominators of the graph (`TreeExact`); `ErasedCovered` drops that and is violated.
  `FreedReadForReasons`: freed checks stay listed only as users of a bound, and are read only where that bound
  is checked itself, or where two other checks are met as like the freed one: for one it was erased, and the
  walk went on to the other.
* `InliningKeepsMeaning`: the caller computes the same values in the same order and returns what it did,
  for all ways its conditions and those of its callees can go. It is claimed for programs that are
  `Preserved`; what that leaves out does not hold, and is listed under findings.
* `GraphFollowsCode`, `EverythingPlacedOnce`, `OnlyCallsAndReturnsStale`, `AbortsHaveReasons`: of every program,
  preserved or not: links and terminators agree, all that was the callee's is the caller's, in one
  place; users and inputs differ by the calls and returns that were freed alone. The last one says what one
  call does to the next: an assertion fails for a call only if its callee was inlined before; if it takes the
  result of an inlined call, and that callee returns a value of another type than it declares, or has its
  parameters out of order and so got arguments of the wrong type; or if the program was wrong as it was written,
  in the arguments of this call or in a return of its callee without a value.

### Why the bounds are enough

* *Registers*: a conflict needs a register that was handed on and a value that still
  holds it. Four values and two registers have every such history: an expiry, a spill of
  either kind, a chain of two spills, intervals that touch. The theorems below remove the bound
  for everything but liveness.
* *Lists*: `moveBefore` touches the point, the first and last cell and their neighbours. With four
  nodes a range of two can move before a node with a neighbour, within a list and
  between lists. The theorems remove this bound, for the refinement too.
* *Search*: parallel edges, self-loops, cross edges and cycles all occur with three nodes;
  with four, so does backing out of a finished branch into an open one. A terminator has
  at most two targets, so the graphs have no more successors. The theorems about the search and about the
  dominator tree hold of every finite graph with any number of successors.
* *Loops*: with three blocks all self-loops, parallel and mixed back edges occur, with four loops
  of two latches, two loops in sequence or in each other, and irreducible ones; the nests add a loop
  with two inner ones, three loops in each other, and a branch inside of a loop.
* *Liveness*: two values in every pair of blocks, used in any block they dominate, or joined by a
  phi, also across a back edge; interference is a relation of two values, so a third one adds none.
* *Def-use*: two uses of one value by one user, a use of an instruction by itself, and a third
  instruction to redirect to. The theorems remove this bound as well.
* *Blocks*: a link to itself, two links to one block, two links to different blocks.
  `AbortOnlyBeyondTwo` needs no longer successor lists, its claim is about two. The theorems hold for any
  number of blocks and of successors.
* *Local passes*: a rule looks at an operation, its operands and theirs. The blocks have two
  operations, the second on the first, over a parameter and two constants in every arrangement; chains of
  three, with a second user in the middle; every operation on all pairs of 3-bit constants; every cast
  of every constant. The second pass meets everything the first one makes. The theorems hold for blocks of any
  length, any number of passes and types of any width, and leave only `MeaningKept` to the bounds.
* *Checks*: three equal ones are the least for a check that is covered by one which is erased in the
  same pass, and for the walk that goes on over its freed check; the graphs have a branch that joins, one that
  does not, two loops, and a block nothing leads to. The theorems hold of any number of checks, values and blocks.
* *Inlining*: what one call leaves behind shows at the second one, so there are two, of one callee or of
  two, with a common argument, with the result of the first, or apart. The callees have no, one and two
  returns, loops, phis, unused and unordered parameters. `MaxTrace` (8 values) and `MaxSteps` (60) cut off
  runs that loop, the same way before and after: three conditions are decided, which is more than a loop
  or branch in both functions needs to be taken and left.

Deadlock is off where the system may stop: a scan that has ended, a library no one calls,
an aborted process. In the runs over graphs and those of the optimizations it is on, with a step for
what has returned, thrown or failed an assertion: anything else that stops is an error. The optimizations
count down what they collected, so that their end is shown by that, not as a liveness property.

### Fairness

The program is one thread. A function that was entered runs until it returns, so weak
fairness on the steps of `linearScan`, of the search and of the walk of `populate`, and on the
iterations of an erase loop, says no more than that the thread is scheduled. Nothing obliges a client
to call, and the calls themselves have no fairness.

## 4. Proofs

Eight modules hold theorems. Each invariant that a theorem states was first checked by the run that
lists it; each theorem rests on an inductive invariant, on the assumptions that the modules name, and on
nothing else.

| theorem | property | from |
| --- | --- | --- |
| `LinearScan_proofs`: `ScanTypes`, `ScanNeverAborts`, `RegistersExclusive`, `PoolAgrees`, `SlotsDistinct`, `SpillsNeedPressure` | `TypeOK`, `NoAssertionFails`, `NoRegisterConflict`, `PoolMatchesActive`, `StackSlotsDistinct`, `SpillOnlyUnderPressure` | `IndInv` |
| `AllPlaced`, `SpillsAreFinal` | at the end exactly the live values are placed; a placed value moves at most once, to the stack | `IndInv` |
| `ScanImplementsAssignment` | `AssignmentSpec`: the scan implements `LocationAssignment` | `IndInv` |
| `SpillsMinimal` | `MinimalSpills` | `IndInv`, `GreedyInv` |
| `LocalPasses_proofs`: `UsersMatch`, `OperandsLive` | `UsersMatchInputs`, `NoDeadOperands` of `UseDef` | `IndInv` |
| `PassesTyped`, `BlockAlive`, `StopsFounded` | `PassesTypeOK`, `BlockHoldsAlive`, `StopsHaveReasons` | `PInv` |
| `PassesKeepLinks`, `PassesFreeNoOperand` | `UsersMatchInputs`, `NoDeadOperands` of `LocalPasses` | `PInv` |
| `OperandsFirst` | whatever is not a constant stands in front of its users, after any pass | `PInv` |
| `BlockLinks_proofs`: `LinksStayPaired`, `LinksStayTrue`, `AbortsNeedThree` | `LinksPaired`, `LinksFollowTerminator`, `AbortOnlyBeyondTwo` | `Inv` |
| `IntrusiveList_proofs`: `ListTypes`, `ListsPartition` | `TypeOK`, `ListsPartitionNodes` | `ListInv` |
| `PointersImplementLists` | `ListSpecImplemented`: the pointers implement `ListSpec` | `ListInv` |
| `DomTree_proofs`: `BackEdgesReported`, `PostOrderIsTopological` | `BackEdgesCloseCycles`, `PostOrderTopological` of `DepthFirstSearch` | `DfsInv` |
| `BuilderTypes`, `TreeIsRooted` | types; `TreeWellFormed` | `BuildInv` |
| `LoopAnalyzer_proofs`: `LoopTypes` | the maps' types on any graph (a part of `LiveTypeOK`) | `LoopInv` |
| `BodiesAreNatural`, `InnermostFound`, `NestIsForest` | `BodiesNatural`, `LoopsInnermost`; the forest they rest on | `LoopInv` |
| `LivenessKeepsLoops`, `LoopsOfLiveness` | `Liveness` is a refinement of `LoopAnalyzer`; the same properties of it | the theorems above |
| `ChecksElimination_proofs`: `ErasedStayCovered`, `NothingRedundantLeft`, `FreedIsReadForReasons` | `ErasedCoveredByTree`, `NoneRedundant`, `FreedReadForReasons` | `CeInv` |

### Assumptions

* `NumRegsAssumption`, `PositionsAssumption`, `ValsAssumption`: there is a register (`kNumRegs` is a template
  argument of the pool), positions are natural numbers, a function has finitely many values.
* `MaxInputsAssumption`, `MaxSuccAssumption`: the bounds on operand and successor lists are numbers.
* `BitsAssumption`: `I1` has one bit, `I8` more than one, and no other type fewer than `I8`. `ProgramsAssumption`: the blocks
  to optimize are `WellFormed` (a value has one place, stands in front of its users, and has the inputs its
  kind asks for; there is an address for a new instruction), and the compiler runs equally many passes on each.
* `CellsAssumption`: finitely many nodes, no sentinel among them, `nullptr` neither.
* `GraphsAssumption`: finitely many nodes, successors among them. `IdsAssumption`: blocks are known by their
  numbers `0 .. size - 1` (here `1 .. n`), as `Function::appendBB` gives them, and a graph has an
  entry, as `makeBBGraph` asserts; every block is linked at some time.
* `PlacementsAssumption`: a function has finitely many checks, each of them once in one of its blocks, as an
  intrusive list holds a node (`ListsPartition`), with a value to check and, for bounds, another operand.

### The arguments

**`LinearScan`.** `NoRegisterConflict` says nothing about values that are still to come, so it is not
inductive. What carries it:

1. intervals are placed in the order of their starts (`OrderInv`): whatever was placed starts
   no later than whatever waits;
2. a value that has left `active` but keeps its register ended before everything that
   waits begins (`RetiredInv`), so the register may be given away;
3. the registers of active intervals are distinct and are the pool's bits (`ActiveInv`,
   `PoolMatchesActive`), so the lowest free bit conflicts with no active value, and a
   register handed on by a spill with none but the one that gave it up;
4. after the expiry loop every active interval outlives the start of the current one
   (`ExpiredInv`), so `kNumRegs` active intervals and the current one are all live there: this
   is `SpillOnlyUnderPressure`;
5. slots in use are below `stackPos` (`StackInv`).

*Refinement*: mapped through `Loc`, a value's place, `Allocate` is `Assign`, `SpillCurrent` is `Spill`,
`SpillActive` is `Evict`, and the expiry loop is a stutter; the guards of the abstract steps are what
`IndInv` says.

*Optimality* is an exchange argument, stated as an invariant over every set of values that would fit
(`GreedyInv`): compared with such a rival, the scan has spilled no more of what it has seen than the rival
leaves out, and behind every position no more of what it keeps, with its spills, remains than of what the rival
keeps, with what it left out. Keeping a value disturbs neither; spilling the interval with the last end
pays for one value at every position behind the current one, and where the rival keeps them all it would have
more values live at one position than there are registers (`RivalLeftOut`).

**`UseDef`.** `TypeOK`, `UsersMatchInputs` and `NoDeadOperands` are inductive together: each action's
effect on an operand list is a lemma about which values it may name afterwards, and `OnlyUse` is
what makes `SetInput` keep both directions.

**`LocalPasses`.** `PInv` extends that invariant to the two passes; each of their actions changes inputs and users by
actions of `UseDef` alone, which is why `IndInv` is in it and stays.

1. `BlockInv`: the list is what is alive but for `fresh`, which exists only between the call that makes it and the
   one that puts it in place (`FreshState`); its users stand behind `old`, whose place it will take (`OldState`);
2. `OperandsBefore`: what is read stands in front, unless it is a constant. The exception is not idle: the sum
   of two shift amounts is put where the first shift stood, which may be before its second operand. The rules
   that hand the users of one instruction to another need the order: it is why a removed candidate reads
   nothing that is removed, and why no instruction comes to use itself;
3. `TodoInv`: what is left to visit is in the block, in its order. An instruction that a visit frees is the one
   visited, or the operand of a shift, which stands before it: so it is not in what is left. This is the second
   half of `BlockHoldsAlive`;
4. `FoldTodo`: what is left to fold has constants for inputs, though folding one may replace the input of
   another: it is replaced by a constant. So an operation the code cannot evaluate is the only assertion of `fold`
   that fails, and a shift amount the only reason to throw;
5. `FirstPassPlaced`: until one pass has ended, `m_bb` is null in new constants only, never in what is visited,
   nor in a shift, the only other instruction that is replaced.

The types of constants follow from arithmetic on powers of two: `NarrowFits`, `OrFits` and `BinEvalFits` hold for
every width.

**`BlockLinks`.** The walk of `updateLinks` reads a vector that it erases from. `LoopInv` says what is left of
memory and links after `k` rounds: the successors that are still stored and the counts in `pred` agree, and
no link between other blocks has changed. If the walk completes, nothing of the old links is
left, so the links that are set afterwards are exactly the terminator's. With at most two successors, all of them
alive, it completes (`TwoUnlinked`): the second round reads the slot that the first erasure left
unchanged, and a link that is stored has a positive count at its other end.

**`IntrusiveList`.** `ListInv` says that there are sequences, one for each list, of which `next` is the
chain: `Chained` from the sentinel through the elements back to it, every linked node in exactly one of them
(`Apart`, `Covered`), `prev` the converse of `next` (`Mutual`), and the range of a running erase
loop a piece of one sequence (`TaskFine`). Removal takes a piece out of the sequence (`IsTaken`), leaving a gap
that one assignment closes, insertion puts one in (`IsPut`), and `moveBefore` does both, within a list or
across two; that six assignments to `next` and `prev` do so whether or not the cells are adjacent is the
main part of the proof. Where a loop walks from `first` to `last`, the walk meets the elements of
the range in their order (`Along`). `PointersImplementLists` follows from the same sequences: each step of the
pointers is an operation of `ListSpec` on them, or leaves them alone.

**`DepthFirstSearch`.** `DfsInv` says what colours mean: grey is on the stack, black is in the post-order; the
stack, from its bottom, is in the order of discovery, and each frame has settled the successors it has passed
(`Passed`): they are finished or reported, except the last one, if it is the next frame. A grey successor
is therefore below on the stack, which is `BackEdgesCloseCycles`, and a finished node leaves every
successor finished before it or reported, which is the order. That all that is reachable is visited is the
leastness of `Reachable` (`ReachableLeast`): what is finished is closed under edges.

**`DomTree`.** `BuildInv` holds the search's invariant and what the three phases make of it:

1. `GrownFrom`: each discovered node but the first has a predecessor discovered before it, so in
   `calcSdoms` the semidominator of every node falls below its own time (`Sdoms`);
2. the links of the DSU fall in time, labels do not rise, and nodes the loop has not reached are
   roots (`Forests`). So `find` ends, whatever it compressed to (`FindRuns`, `FindAnswers`): this
   needs no relation between the label it stores as a parent and the true root;
3. a node whose semidominator is known has an immediate dominator of smaller time, or waits in the set of a
   node that the loop has yet to come to (`Due`), and no other set holds what was not discovered
   later (`Listed`): when the loop ends, every node has one;
4. so `calcIdoms` hangs each node but the first once, below an earlier one (`Hung`), from which follow
   the rooted tree and that `isDominator` reaches everything from the entry.

That the tree's ancestors are the dominators of the graph is *not* a theorem: it is false (see the findings).

**`LoopAnalyzer`.** The theorems are stated of `LoopSpec`, and hold of the analysis of liveness as well, whose steps
are those of `LoopAnalyzer` or leave its variables alone (`LivenessKeepsLoops`). `LoopInv` says of the maps that they have their types,
on every graph, and on a structured one how what was collected so far relates to what stands still meanwhile
(`Nest`: the places in post-order, the sources and the natural loop of each header):

1. a natural loop is the least set closed backwards from its sources (`NaturalLeast`). In a structured graph
   the header of a reducible loop stands behind all of it in post-order (`LoopBefore`) and two such loops that meet
   are one in the other (`LoopsMeet`); and what jumps back to a header is in no loop further inside (`Orderly`);
2. a node has a loop once a walk has met it (`Assigned`), and a body lists exactly the sources, the nodes and
   the inner loops given to it (`Listing`);
3. a loop is nested only in a reducible one that holds its header (`Enclosed`), so outer headers come later in
   post-order and no loop is inside of itself: `NestIsForest`;
4. what a loop has met is a source of it, its own, or of a loop that is nested no further out (`Covered`);
   what its frames still owe is a predecessor of what they stand on (`Walking`, `Passing`). When the walk
   returns nothing is owed, what it met is closed backwards, and so is the natural loop by leastness. That
   `populate` goes on at the header of an inner loop it meets, instead of in its body, is harmless because
   `m_loopHeadPostOrder` lists inner headers first: the inner loop was walked before;
5. `BodiesNatural` follows by induction over the place of a header in that order, with inner bodies unfolded
   (`RoundsUnfold`); `LoopsInnermost` from the forest: of the loops that hold a node, the one that is furthest in
   the nest of its own is reached from it by `outer` (`HoldersReached`).

**`ChecksElimination`.** Two of the three theorems say what the elimination does where the tree is right
(`TreeExact`: it holds of the trees that `checks_elimination` builds, not of that of `ce_uncovered`); the
third needs nothing of the tree. `CeInv` says, while candidates are visited:

1. `users` holds every check that stands under each of its inputs, and an erased one only under a bound
   (`UsersKept`); the candidates are different, stand, and are in reached blocks (`CandsKept`, from
   `CandsFilled`, which says what a flattened reverse post-order of blocks holds);
2. if the visited check is erased, the walk has left behind another check like it (`Walking`), so that one
   more, met after that, is a second; a freed user that is met is there as the user of its bound: this is
   `FreedReadForReasons`;
3. what is erased is covered (`ErasedCovered`). The check that is met stands when it erases another; if
   it is erased later, its own cover takes over (`CoverMoves`). Only a check of a value against itself can be
   erased on the word of a freed one, and such a check covers none of those the property is about. This
   holds because what precedes on every path is an order: dominance is transitive and antisymmetric by the leastness of `ReachableWithout` (`WithoutLeast`);
4. a check that was visited, or has met the other one in its walk, is preceded by no equal one
   (`Cleared`). A check in a block that was not reached precedes none in a reached one, by the
   tree (`UnreachedAlone`) as by paths (`UnreachedDominatesNone`).

**`FiniteIteration`.** The library's induction theorems take an operator as a parameter and no installed prover
can instantiate them. What the proofs need is stated for sets instead: a non-empty set of naturals has a least
element; a set that holds 0 and the successor of each member up to `n` is `0 .. n`; a set of subsets of
a finite set that holds the empty set and is closed under adding an element holds all of them; and a loop of `n` rounds over a
set of states has an execution, which is what gives a recursive function its values (`find`, `updateLinks`,
`Reachable`, the sets of `isDominator`). A set that grows for as many rounds as there are elements
becomes the least closed set around what it started from (`SpreadCloses`): this is what `Reachable` and
`ReachableWithout` are.

### What is only model-checked

* Liveness under fairness: `Termination`, `LoopsTerminate`, `WalksEnd`. That the builder of the dominator tree
  ends is shown by `TreeWellFormed` and the absence of deadlock.
* `MeaningKept` and `InliningKeepsMeaning` compare what programs compute, by folds over them: induction
  over data, which is out of the provers' reach.
* `Inlining` as a whole: it declares a recursive operator (`Visit`, the search over blocks whose links
  change), which the provers cannot use, nor a module that declares one.
* `Liveness`: `LoopsContiguous`, `IntervalsKeepApart`, `RangesComplete` and what `LiveTypeOK` says beyond
  `LoopTypes`. They compare orders and intervals that are folds over the code of the blocks, again induction
  over data.

## 5. Findings

* *Intervals* (`liveness_apart`): inside of a loop the linear order is the reversed order of a walk over
  predecessors (`include/analysis/loop_analyzer.hh:90`); a branch can stand before its condition. `processSucc`
  (`include/analysis/liveness.hh:128`) skips a successor that was not walked, so a value used in that branch has
  an interval that ends where it is defined.
* *Dominator tree and checks* (`ce_uncovered`): `find` lets the label of the root into the minimum
  (`include/graph/dsu.hh:58`), and answers the root for a root (52). When `calcSdoms` asks for the nodes of a bucket, the
  root of their tree has a smaller semidominator than they have, so it is answered and becomes their dominator. In a
  chain of conditions, each of which may skip the next, a block is then dominated by one that some path avoids, and
  a check is erased which that path needs. That the label found is also stored as the new parent
  (`include/graph/dsu.hh:61`) is not the cause: with the true root there the tree is as wrong, and
  without the label of the root in the minimum it is right.
* *Calls without a result* (`inlining_void`): `adjustOutputs` returns before the loop that replaces returns by
  jumps (`include/opt/inlining.hh:76`): the caller ends where its callee returns.
* *Ids of blocks* (`inlining_ids`): blocks are numbered within their function (`include/ir/function.hh:56`) and
  keep their number in another; the dominator tree indexes its tables by it.

Met while modelling, and excepted by the conditions of the properties or among their reasons:

* *Analyses*: `doDFS` takes the node discovered before for a node's depth-first parent
  (`include/graph/dom_tree.hh:198`), which misses dominators behind a branch that was left;
* in `while (a) while (b) body;` the source of the outer back edge is the inner header, stays in the body of
  both loops (`include/analysis/loop_analyzer.hh:154`), and the assertion on the linear order fails
  (`include/analysis/liveness.hh:299`);
* a phi takes a value over a back edge: the early return of `processSucc` leaves out the phis of the
  header, and the value's interval does not reach the end of the latch (`LoopCarried`);
* a block that is its own successor: the walk of `populate` leaves the loop through its header;
* whether a loop is reducible is decided at its first back edge only (`include/analysis/loop_analyzer.hh:286`);
* two edges from one block back to one header: the block is twice in the body;
* a return without a value: `processInputs` asks it for one (`include/analysis/liveness.hh:236`), and the assertion of
  `inputAt` fails;
* *Instructions and blocks*: `clearInputs` (`include/ir/inst.hh:203`) fails its assertion for an instruction with one
  value twice, such as `add c, c`, which constant folding meets;
* `setUsersFrom` (`include/ir/inst.hh:247`) does not follow into the entries of a phi;
* `replaceInst` (`include/ir/basic_block.hh:291`) leaves `m_bb` of the new instruction null; the next pass that
  replaces that one calls through it;
* three successors, linked by hand: `updateLinks` (`include/ir/basic_block.hh:339`) erases from the vector it walks, and
  an assertion fails; `AbortOnlyBeyondTwo` states the limit;
* a list assigned to itself is cleared, and then an assertion fails on the empty range
  (`include/intrusive_list/intrusive_list.hh:125`); `LoopsTerminate` and `ListSpec` allow for it;
* *Local passes*: `castEval` (`include/opt/constant_folding.hh:223`) reads a constant as one of the destination's type;
  two shift amounts are added to one that may be out of range (`include/opt/peephole.hh:179`), and the sum is
  inserted where the first shift stood, which may be before the second amount (`include/opt/peephole.hh:185`);
* *Checks*: an erased bounds check stays among the users of its bound (`include/opt/checks_elimination.hh:113`); the
  walk over users goes on after its own check was freed (`include/opt/checks_elimination.hh:63`);
* *Inlining*: parameters are matched by position, not by index (`include/opt/inlining.hh:62`); an entry that
  something jumps back to is erased under the jump; phis behind a split block still name
  its first half, and phis of parameters or calls keep what was freed; a callee is used up by its first call, and
  the second one fails an assertion (`include/opt/inlining.hh:57`); a value of another type than the callee
  declares takes the place of the call unseen, and the verification of the next call fails
  (`include/opt/inlining.hh:120`); the call and the returns are erased without
  clearing their inputs, and `setUsersFrom` at the next call writes to them (`include/opt/inlining.hh:136`).

## 6. Not modelled

* The local passes over several blocks: each visits the blocks in turn, and no rule looks beyond
  operands and users, so one block has all their behaviours but a parameter for what other blocks compute.
* A function that calls itself: `doInline` would splice a list of blocks into itself.
* Empty blocks: nothing builds them, and `back` of an empty list is undefined.
* `replaceInstEmplace` and `insertAfter`, which have no caller.
* The composition of `Liveness` and `LinearScan`: `LinearScan` takes any intervals instead of those of
  the analysis, which is more than the analysis can produce.
* Printing and dumping: no property is about them.
* Memory itself: an address is a member of a set, freed or not; what is read or written through a
  freed pointer is reported, and may or may not end the process.
* A graph without an entry in the dominator tree: `calcIdoms` steps past the end of an
  empty vector (`include/graph/dom_tree.hh:259`). `makeBBGraph` asserts that a function has blocks.
* The command line tool, which parses its arguments and calls no component; `throwError` and the
  assertion macro, other than by their effect.

## 7. What is left

* `LoopsContiguous` as a theorem: the linear order unfolds one loop after the other, from `BodiesAreNatural`.
* A module that composes `Liveness` with `LinearScan`: no two values that are live together by the definition
  on paths share a register, where `IntervalsKeepApart` is claimed.
