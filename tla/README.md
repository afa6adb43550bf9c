# Verification of the sign analysis and the live variable analysis

This directory holds TLA+ specifications of the program analyses in this
repository, TLC configurations that check them on small instances, and proofs
checked by TLAPS for every instance. They end in one statement about the whole:
what the sign analysis reports covers what the analysed program computes. The repository contains LLVM passes written
for a course: `project/` is an interprocedural data flow engine (VASCO: value
contexts) with a sign analysis on top, `project/pass/` also has a bit-vector
framework, `assign4/` is a live variable analysis,
`assign1/` builds small functions through the LLVM API.

## 1. Inventory

| Component | Source | State | Operations | Specified in |
|---|---|---|---|---|
| Sign lattice | `project/sign.cpp` | none | negate, meet, plus, mult | `Sign` |
| Sign values and flow functions | `project/sign_analysis.cpp` | none of its own | meet, isEqual, isReturnEqual, signOf, normalFlow, callEntryFlow, callExitFlow | `SignAnalysis`; against a machine in `BasicBlock` |
| Interprocedural engine | `project/forward_inter_procedural_analysis.cpp`, `inter_procedural_analysis.cpp` | stack of contexts, contexts by method | doAnalysis, initContext, getContext, getContextbyId, callCustomFlowFunction | `ForwardInterProceduralAnalysis`, `AnalysisResult`; against running programs in `Execution` |
| Context | `project/context.cpp` | entry and exit value, values before and after each block, stack of blocks, analysed flag | setters, worklist operations, tails, predecessors | a record of the engine |
| Context transition table | `project/context_transition_table.cpp` | transitions, callers | addTransition, getCallers | `ContextTransitionTable` |
| Analysed program (LLVM, external) | | constant | | `IR`, `Build`; its machine is `Machine` |
| Module pass | `project/main.cpp` | none | runs doAnalysis once | `Execution` (Analyse) |
| Live variable analysis | `assign4/lva.cpp` | In, Out, OutKill, worklist, change | run | `LiveAnalysis` |
| Bit-vector framework | `project/pass/dataflow.cpp` | results per block, converged | run, applyMeetOp | `DataFlow` |
| IR construction exercises | `assign1/factorial.cpp`, `odd_even.cpp`, `binary_op.cpp` | none; what they build has a stack | CreateFunctions | `Exercises` |
| Printing passes | `project/pass/pass.cpp` | none | print a module | not modelled |

How they interact. The pass in `main.cpp` creates a SignAnalysis and calls
doAnalysis. The engine keeps two levels of worklists: a stack of contexts, and in
each context a stack of basic blocks. It asks the context for the control flow
graph, and the client analysis, through virtual functions, for the flow of a
block. The flow of a call calls back into the engine: it looks for a value
context (a method and the value it is entered with), creates one if there is
none, records the call site in the transition table and leaves the block to be
processed again. When the exit value of a context changes, the table says which
call sites to take up again. LiveAnalysis and the
bit-vector framework share nothing with them, nor with each other; no analysis in
the repository extends the framework.

Nothing runs concurrently. What is hard here is order and re-entry:

* a block is taken up any number of times, through three routes (a predecessor
  changed, it waits for a new context, a context it calls has changed), and each
  route has its own condition for queuing it;
* recursion: a context is asked for its exit value while it is being analysed,
  and may notify itself;
* the exit of a context is itself a work item, a marker (NULL) that must be the
  last one;
* nothing but the descent of values bounds the number of turns, and the transfer
  functions are not monotone;
* in LiveAnalysis, sets that are never reset (Out, OutKill) are filled in the
  middle of a round from blocks processed in another order;
* the arithmetic of the analysed program: signed overflow is undefined where clang
  compiled it and wraps around in the functions of `assign1/`.

Correctness, component by component. *Lattice*: meet is a greatest lower bound;
plus, mult and negate give a sign of the result of the machine's operation.
*Flow functions*: what the machine stores at a name has the sign computed for
it. *Table*: transitions and callers are inverse maps. *Engine*: no context is
created twice, none with work left is off the stack, the marker stands alone,
every edge is respected or about to be, values only descend, the analysis ends,
its result solves the data flow equations, it aborts only for programs with an
undefined operand, and a result that solves the equations covers every execution
of the program. *LiveAnalysis*: nothing
dead is ever reported, and the rounds end with exactly the live variables unless
phi nodes clash. *Bit-vector framework*: the rounds end, only
when the equations hold, and with their best solution. *Exercises*: the built
functions compute what their names say, for every integer. The list of what can
go wrong, line by line, is under "hazards" in `PROJECT.json`.

## 2. Modules

```
Sign ── IR                          values and programs
   \   /
 SignAnalysis ── Machine ── BasicBlock     flow functions; a block against a machine
      |             |
 ForwardInterProceduralAnalysis ── ContextTransitionTable
      |             |               (implements ValueContexts)
 AnalysisResult     |               what is left when doAnalysis returns
      |   \         |
      |    Execution                the analysis, then the program it analysed
      |        |
 MCAnalysis   MCExecution, MCSignTests     (Build: shorthands for instructions)

 ChaoticIteration                   what a solver promises
      |  (refined by)
 DataFlow ── MCDataFlow
 LiveAnalysis ── MCLiveAnalysis     (where there are no phi nodes)

 Exercises                          (Build)
```

**`Sign`** is sign.cpp. The functions keep the code's treatment of TOP: it is
neutral, and `NEGATIVE * TOP` is POSITIVE.

**`IR`** is what the analyses read of an `llvm::Module`. `WellFormed` is what
LLVM's verifier guarantees and the engine relies on: a block belongs to one
function, successors stay inside it, the entry has no predecessor, a call passes
an argument for each parameter, a terminator ends its block, a return leads to no
block. Blocks may be unreachable.

**`SignAnalysis`** holds the functions without state. A `DenseMap` is a total
function over names with a value `Absent` for a missing key, so that "missing"
and TOP remain two things, as in the code: meet of two maps takes a missing name
from the other map, and equality tells an empty map from one full of TOPs.

**`Machine`** says what one instruction does with integers. The machine is
external: signed arithmetic that overflows is undefined behaviour and the run
stops there; a variable is one name, its alloca; a name not yet written holds no
integer. `Covers` compares a store of integers with a map of signs.

**`BasicBlock`** runs one block on integers and on signs in step.

**`ForwardInterProceduralAnalysis`** is doAnalysis. Each action is one turn of an
inner loop or the straight code between two loops; `at` is the program counter:

| Action | Code |
|---|---|
| PopContext | a context with an empty worklist leaves the stack |
| TakeNode, TakeExitMarker | getAndPopWorklist; the assertion that the marker was alone |
| MeetPredecessor, EnterNode | the value before a node |
| FlowInstruction, MissingOperand | normalFlowFunction; `assert(false)` for an operand with no sign |
| CallKnownContext, CallNewContext | callCustomFlowFunction, with getContext, initContext and addTransition |
| FinishNode | meet with the old value, successors, exit marker |
| MeetTail, SetExit, NotifyCaller | the exit value, and the callers to take up again |

Predecessors and tails are met in any order (the code's order is that of LLVM's
use lists). An assertion that fails is the state `aborted`. Contexts are numbered
in the order of creation, as their ids are; a context is compared by its id
alone, as in the code. The call site is the pair of context and basic block, as
in the code, and not the instruction.

**`ValueContexts`** is what an analysis by value contexts promises: one table,
whose keys are a method with the value it is entered with. Keys are only added, for
calls the program has, with a sign for each parameter; the values under a key only
descend; the table is returned with every edge respected and is final then. The
engine implements it (KeepsPromise): the table is read off the contexts through
getContext, so it has one row for each context only because no two have the same
key; contexts, stacks and transitions are the engine's own business. That the
values after blocks solve the equations and that exits are complete is not
promised, because it does not hold (section 6).

**`AnalysisResult`** states the data flow equations and compares the final state
with them (ResultIsSolution, ExitCoversTails). `Flow` is the equation of a block,
instruction by instruction, with each call resolved to the context it has in the
end; the blocks compared are those some path leads to. The result is not right for
every program (section 6), so the module also says for which it is. Where the calls
of each method are in one block and of different methods (CallsApart), and some name has
a sign behind every entry, it is a solution (SolutionIfCallsApart). Where branches lead to returns only, as in a recursive function
that tests for its base case, every exit value is complete
(ExitCoversIfBranchesReturn). Being without loops is not enough for that: see
*lost_exit* in section 6. AbortsOnlyIfUndefined says of the assertions in signOf and
callEntryFlowFunction that they fail only if some path really reaches the operand
without defining it.

**`Execution`** composes the pass with the program it was run on. `Analyse` is
doAnalysis, unchanged; when it is done the program starts in "main" with no
integer anywhere, and each frame of its call stack carries the context in which
the analysis covers it and the signs the analysis gives it at its instruction:
those before the block on entering one, those of the flow function behind an
instruction, the callee's exit value behind a call. The machine may take any
branch and any result of an instruction the analysis does not look into.
ExecutionCovered says that the signs of every frame, and not only of the active
one, cover its integers; CallsAnalysed that a context is found for every call that
is made; OperandsSigned that no execution reads a name the analysis gave no sign there,
which doAnalysis asserts only on its own way through the program. The program is started only on a result that solves the equations and
covers the returns; the others are findings.

**`LiveAnalysis`** is LiveAnalysis::run, one action per turn of a loop: StartRound
fills the worklist, TakeBlock takes a block and forms its Out, ProcessInsn goes
through one instruction, FinishBlock stores what is live before the block and notes a
change. Of the sets kept for every instruction only those at the ends of blocks
survive from one turn to the next; the others are recomputed before they are read and
are the one set `live`. The order of a round is any preorder of a depth first search.
Liveness is defined without the pass, as the least sets that contain what the
successors' phi nodes take and what the successors need otherwise (`LiveAfter`).
`PhisApart` says which phi nodes do not clash; LiveCovered, without it, does not hold
(section 6). Without phi nodes the pass is a solver: the unknowns are the sets before
the blocks, and FinishBlock applies an equation (SolvesWithoutPhis). With phi nodes it
is none, as what OutKill holds depends on what has been processed.

**`DataFlow`** is DataFlow::run, for both directions and both meets, one action per
turn of a loop: the depth first search for the order (VisitSuccessor, LeaveBlock), the
rounds (StartRound, ProcessBlock, EndRound) and the return. Direction,
meet, conditions and the function are a *problem*, chosen in the initial state;
`transferFn`, which the code leaves to subclasses, is the constant Transfer. A
block's `input` and `output` are its in and out, the other way round for a
backward analysis. What the code keeps twice is kept twice: neighbours read
`transferOutput`, convergence compares `output`. Sizes of bit vectors are
abstracted: a vector that was never sized is the empty set. (LLVM releases differ
on whether vectors of different sizes may be equal; if not, the code makes one
round more.) The traversal is any depth first postorder, or its reverse.

**`ChaoticIteration`** is the abstract promise of a solver: equations are applied
one at a time in any order, and the solver returns only when all hold. DataFlow
is shown to implement it: the unknowns are the blocks reachable from the entry,
and an unknown is what a block sends (`transferOutput`), not what convergence
compares. So is LiveAnalysis, without phi nodes.

**`Exercises`** is what CreateFunctions of the three programs builds, block by
block, and a machine for it. Nothing here is `nsw`: integers wrap around in
-Half .. Half - 1, where Half is 2^31 in the code.
`fact`, and `even` and `odd` between them, count their argument down by one; a
negative argument of `even` or `odd` meets the base case only by wrapping around.

Operators whose comment begins with "Mutant" are plausible mistakes, paired with
properties in `PROJECT.json`: each property is violated when the operator named
there replaces the real one. No behaviour of the specifications uses them.

## 3. Runs

All configurations are run with TLC on the module in the second column.

| Run | Module, configuration | Checks | Expected |
|---|---|---|---|
| basic_block | `MCBasicBlock`, `BasicBlock.cfg` | TypeOK, Sound | pass |
| analysis | `MCAnalysis`, `Analysis.cfg` | TypeOK, ExitMarkerAlone, UniqueValueContexts, PendingIsScheduled, CallersInverse, CallersCall, EdgesRespected, SolutionIfCallsApart, ExitCoversIfBranchesReturn, AbortsOnlyIfUndefined, KeepsPromise, ValuesDescend, Termination | pass |
| execution | `MCExecution`, `Execution.cfg` | ExecutionTypeOK, ExecutionCovered, OperandsSigned, CallsAnalysed | pass |
| sign_tests | `MCSignTests`, `SignTests.cfg` | ResultIsSolution, ExitCoversTails, ExecutionCovered | pass |
| live | `MCLiveAnalysis`, `Live.cfg` | TypeOK, LiveIfPhisApart, NothingDead, SolvesWithoutPhis, RoundsEnd | pass |
| data_flow | `MCDataFlow`, `DataFlow.cfg` | TypeOK, BestSolution, Solves, Converges | pass |
| exercises | `Exercises`, `Exercises.cfg` | TypeOK, Correct, DepthBounded, Returns | pass |
| lost_exit | `MCAnalysis`, `LostExit.cfg` | ExitCoversTails | violated |
| two_calls | `MCAnalysis`, `TwoCalls.cfg` | ResultIsSolution | violated |
| shared_site | `MCAnalysis`, `SharedSite.cfg` | ResultIsSolution | violated |
| bare_entry | `MCAnalysis`, `BareEntry.cfg` | ResultIsSolution | violated |
| swap | `MCLiveAnalysis`, `Swap.cfg` | LiveCovered | violated |

### Bounds

*basic_block* (175 thousand states). Every instruction class, every combination
of constant and name operands, alone and in two longer blocks; machine integers
-2..2, every store and every value that covers it. A sign forgets magnitude, so
three constants, one of each sign, meet every case of the lattice functions; two
names are enough for an instruction with two operands to read what another one
wrote. The theorem SignsSound removes the bounds.

*analysis* (890 thousand states). `main` is one block that
calls `f`; `f` has every control flow graph of three blocks in which the entry
has no predecessor and reaches every block (branches, early returns, loops,
functions that never return), and each block any of four bodies: nothing, a
change of sign, a call of `f` that always enters one context, a call that may
enter any. Three blocks are the least in which a block can be queued twice, a
loop can sit beside a second return, and two call sites can share a caller; one
recursive method is enough for a context to be its own caller, directly or
through another context. A second family leaves a name undefined in some of the
blocks, so that the assertions fail on some paths and not on others
(AbortsOnlyIfUndefined). In a third, one block calls `f` and then `g`, which calls `f`:
the two calls share their block but not their place in the table, and meet each other's
exit values (SolutionIfCallsApart). The number of contexts is not bounded: it is finite
because values are. Some of these programs satisfy
the conditions of SolutionIfCallsApart and ExitCoversIfBranchesReturn and some do not;
*two_calls*, *shared_site*, *bare_entry* and *lost_exit* are the least programs that
fail one of them and are got wrong (section 6).

*execution* (945 thousand states). The same programs, analysed and run.
Representable is -1..1, one integer of each sign: every addition of two integers
of one sign overflows there and ends the run, but the programs of this family
negate, copy and add zero, and what addition does to signs is for *basic_block*
and the proofs. MaxDepth is 3: main, f, and f called by f, the least depth at which a
frame waits for another that waits.

*sign_tests* (23 thousand states) are the four programs of `project/tests`, with
every choice of signs for their constants and of the operator: mutual recursion of
`f` and `g`, two parameters, a call from two blocks of `main`; analysed and run,
on -101..101 (sign_test2 computes `a - 100`) and five frames.

*live* (129 thousand states). Every control flow graph of three blocks and every
body of a menu of five over two variables, in every depth first order; the
phi nodes clang makes of `||`; and phi nodes that clash or nearly do: a swap, and a
loop whose phi node takes what the loop computes. A value is live or not
independently of the others except through the instruction that reads one and kills
the other (`y = x`), which takes two.

*data_flow* (536 thousand states). Every control flow graph of three blocks whose
entry branches, blocks that are not reachable, that loop for ever or that end
without returning included; both directions, both meets, neutral and other
initial values, two boundary conditions, every traversal. Two bits are needed for
a transfer function that moves a fact from one bit to another (`copy`) and so
takes several rounds; the block `phi` sends a bit to one neighbour only. All
transfer functions are monotone: with others the rounds need not end.
BestSolution speaks only of initial values that are neutral for the meet.

*exercises* (18 thousand states). Half is 8: 16 integers, so the factorial
overflows from 4 on, and `even` of a negative integer recurses through the whole
range. MaxDepth is 17, one frame more than the deepest call, so that it does
not bound anything (DepthBounded). In the code there are 2^32 integers and the stack is not
that large: `even(-1)` takes 2^32 frames there unless the tail calls are
eliminated, which is all `tail` allows.

### Deadlock, fairness

Deadlock is checked everywhere except in *basic_block*, where a block ends, or is
left at an overflow or a missing operand, and in *execution* and *sign_tests*,
where a program ends, or stops at an overflow or at MaxDepth frames. Everywhere
else stopping is an explicit action (Stutter, Finish; DataFlow's too) enabled only
when the code has returned or an assertion has failed, so a loop that cannot go on
is an error.

The liveness properties (Termination, RoundsEnd, Converges, Returns) assume
WF(Next) and nothing else: the passes are sequential loops that nothing
interrupts, so some step is taken while one is possible. ExecutionSpec assumes no
fairness: an analysed program may run for ever. No choice is assumed fair; every
order of predecessors, tails and blocks must lead to the end.

## 4. Proofs

| Module | Theorems |
|---|---|
| `SignAnalysisProofs` | MeetIsGreatestLowerBound, PlusSound, MultSound and the lattice laws; the flow functions map values to values; meet of two maps is a greatest lower bound; one instruction of the machine, the entry of a call and its return keep the signs covering the integers |
| `BasicBlockProofs` | TypeCorrect, SignsSound |
| `ForwardInterProceduralAnalysisProofs` | TypeInvariant, TypeCorrect; worklists: UniqueContexts, NoNodeForgotten, MarkerAlone |
| `ValueContextsProofs` | values: Descent, NoStaleEdge; callers: CallersAreInverse, CallersDoCall, from what addTransition does to the two maps; ImplementsValueContexts |
| `ExecutionProofs` | the result: AbortsForAReason, ExitsComplete, ResultSolvesIfCallsApart; the program: AnalysisCoversExecution, ExecutionTypeCorrect, OperandsHaveSigns, CallsAreAnalysed, RightProgramsStart |
| `LiveAnalysisProofs` | TypeCorrect, OnlyLiveReported, NoLiveValueMissed, ImplementsSolver |
| `DataFlowProofs` | TypeCorrect, SolvesEquations, FindsBestSolution |
| `ExercisesProofs` | TypeCorrect, FunctionsCorrect, RecursionBounded |

Each module of the engine extends the one before it; `ExecutionProofs` extends them all.

**Assumptions.** Only those the modules state. Of programs: "return" is a name, NULL
is not a block, the modules considered are well formed, the blocks considered are
sequences of instructions, the machine's values are integers, the constants of a program
are among them, and the bound of the machine's stack is at least one. LiveAnalysis and
DataFlow assume that a function has finitely many blocks (the completeness of an
order, and the number of neighbour-specific values, need it). DataFlow assumes that
the values a block sends to single neighbours do not depend on its input
(TransferAssumption). That is so of phi nodes, and more than the comment on the test
of convergence takes for granted, that their number changes whenever they do. Of problems:
an entry has no predecessor and a return no successor. No set of the engine is assumed
finite.

**SignsSound** (`Spec => []Sound`): the signs computed for a block cover the
integers of the machine. `Sound` together with `TypeOK` is inductive. The step
for an instruction reduces to one fact per class: PlusSound, MultSound,
NegateSound, SignOfConstantSound for arithmetic, and for a call that meet lies
below both operands.

**TypeCorrect** of the engine (`Spec => []TypeOK`): no context, block, parameter
or call site is read that does not exist, for every program. It is far from
inductive: FinishNode needs to know that `node` is a block and `current` a
context, NotifyCaller that the context of the call site exists, the flow
functions that `todo` holds blocks. The invariant is

    TypeInv == TypeOK /\ Control

where Control says what each value of `at` promises of the local variables, and
that every context mentioned in the table, in the stack and among the sites still
to be notified has been created. Each action has a lemma of its own; the actions
that change contexts rest on an "effect" lemma that says which fields of which
context change.

The other theorems of the engine rest on TypeInv and on those effect lemmas. The
table says what is added to each property to make it inductive, and why it does
not hold by itself.

| Theorem: property | Strengthening | Why |
|---|---|---|
| UniqueContexts: UniqueValueContexts | none | a context is created only where getContext finds none, and no step changes the method or entry value of one (Identity) |
| NoNodeForgotten: PendingIsScheduled | WorkInv: the context whose node is being processed is on the stack | FinishNode adds work to a context without pushing it |
| MarkerAlone: ExitMarkerAlone | MarkerInv: a worklist with a marker is the marker alone, its context is the top of the stack and the engine at the head of the loop; the context whose node is processed is the top or has other work | calls and notifications append to worklists: the marker must be taken before anything else can happen |
| Descent: ValuesDescend | ExitInv: whatever lies below the values after all tails lies below the exit value, and at the exit `value` is the greatest lower bound of the tails met so far | SetExit replaces the exit value, it does not meet it with the old one |
| NoStaleEdge: EdgesRespected | EdgeInv: while predecessors are met, `value` lies below the values after those met | the value before a node is built over several steps |
| CallersAreInverse: CallersInverse | TargetInv: a call site recorded for a method leads to a context of that method | two methods could otherwise lead one site to the same context, which would list it twice and lose both when one moves on |
| CallersDoCall: CallersCall | PlaceInv: the blocks in a context's worklist, the node being processed and the sites to be notified belong to their contexts' methods | a call site records whatever block the worklist gave |

**ImplementsValueContexts** (`Spec => KeepsPromise`): the engine implements
`ValueContexts`. Its invariant, PromiseInv, is the conjunction of those above with
three more. EntryKept: nothing overwrites the value before the entry of a context,
which is its entry value. BeforeInv: the value before a node, met afresh from the
predecessors each time, lies above everything that lies below their values, so that
it descends as they do. BusyInv: the stack is not empty while a node or an exit is
processed, so that only popping the last context returns. EnterNode, FinishNode and
SetExit then map to Lower, CallNewContext to Discover, the last PopContext to Return,
and every other step to a stutter (StepLower, StepDiscover, StepReturn, StepSame).

The invariants of the next three theorems, those of OperandsHaveSigns below and all
those above are the conjunction EngineInv, which is inductive (EngineInit, EngineStep).

**AbortsForAReason** (`Spec => []AbortsOnlyIfUndefined`). AbortInv follows a missing
name backwards: an entry value misses no parameter; a value after a block, once it is
not the empty map, misses only names that may be undefined there; and so does the
value at an instruction. A block that waits for a call is the exception: it stops
where it is and stores what it had before, so its value is that of an older turn. EdgeInv
gives the step along an edge: what the value before a block misses, some predecessor
misses. That a path exists is the set of blocks every closed set contains
(`ReachedFrom`), closed by definition under the step needed.

**ExitsComplete** (`Spec => []ExitCoversIfBranchesReturn`). The exit marker is queued
only by a tail that was alone in the worklist. ScheduleInv says that, where branches
lead to returns only, a worklist holds one block or nothing but tails, so that
whatever is taken last is a tail; a block that waits for a call is queued by itself
and changes nothing (`Parked`). CoverInv: the exit value covers all returns, or the
context has a tail or the marker before it. Both fail for programs with other
branches, and there the property fails too (*lost_exit*).

**ResultSolvesIfCallsApart** (`Spec => []SolutionIfCallsApart`). Why should a block
not be left with the exit value its call had some time ago? SolveInv says that every
block of every context is queued, being processed, not yet reached, about to be
notified (`Told`), or *ran*: there is a run of it, a sequence of values from the one
before it, instruction by instruction, with the exit values of *now* for its calls,
and the value after the block lies below its last. A run stays a run until the value
before the block changes, which queues it, or the exit value of a context one of its
calls leads to does, which notifies it (RunKept, SolveTold): the table leads the call
to that context (`Linked`), so it is listed among the callers (LinkedIsTold, from
InverseInv). Three more facts are needed. A block that is notified is queued only if
its context waits for nothing; if the context has something queued, that includes a
block with a call, since only the top of the stack is worked on (WaitInv), and then it
is this one. A run in progress is one in spite of what calls do to the table: the
calls before are of other methods, so their places in it are others (RunInv). A block
that is reached has a value after it that is not the empty map, or the change it
should cause would go unnoticed: a name defined behind the entry is missing nowhere
(SomeDefined, from AbortInv). At the end nothing is queued or told, and every block a
path leads to has been reached because its predecessor was (AllRan). `Flow` is what a
run computes (RunIsFlow), as getContext finds what the table leads to.

**AnalysisCoversExecution** (`ExecutionSpec => []ExecutionCovered`): for every
well-formed module, every store and every depth of the stack, the signs of each
frame cover its integers, if the result the program was started on solves the
equations of its blocks and covers its returns. It joins the two halves of the
project. From the engine it takes, for the moment doAnalysis returns: TypeInv;
WorkInv, by which an empty stack means empty worklists; EdgeInv, by which every
edge is then respected; and EntryKept, by which a frame is entered with the value
its context is for. From
`SignAnalysisProofs` it takes the three facts about one instruction, one call and one
return. Neither
ResultIsSolution nor ExitCoversTails mentions the run of a program; they say what
`Flow` makes of a block. The invariant in between is `Frames`: a frame's signs are
those of Flow at its instruction, in the block of a context of its method; and a
waiting frame is at a call that leads to the context of the frame above it. A
step of the program changes the active frame only (FramesPush, FramesPop), and at
the end of a block, EdgesRespected and `after` below Flow take it to the next.
`Flow` is a recursive function; that it satisfies its own equation is proved by
taking, in the set of prefix lengths for which no such function exists, a least
element.

**OperandsHaveSigns** and **ExecutionTypeCorrect** (`ExecutionSpec => [](EntriesDefine
=> OperandsSigned)`, and the same for ExecutionTypeOK). AbortsForAReason speaks of the
blocks doAnalysis takes, with the values of the moment; these speak of the blocks an
execution gets to, with the values of the end. ReadyInv says that every block of every
context is queued, being processed, not yet reached, or has been finished: the value
after it is not the empty map, and what each of its instructions reads is *given*, that
is, has a sign before the block or is defined earlier in it. A block is finished when
its last instruction has been taken, and PassedInv says on the way that the operands
passed so far are given and that every sign in `value` is of a name given. A block
that waits for a call is left halfway, but it is in the worklist. What is given stays so
when the value before the block descends. At the end nothing is queued, and every block
a path leads to is finished (AllReady). TypedInv joins this to the frames: a name given
where the frame stands has a sign in the frame. EntriesDefine cannot be dropped: nothing
behind an entry block without a name is ever taken (*bare_entry*), the values there are
the initial ones, and a frame would carry signs that are none.

**CallsAreAnalysed** (`ExecutionSpec => [](CallsApart /\ EntriesDefine =>
CallsAnalysed)`): the engine resolves a call with the signs its block has when it is
processed, the program makes it with the final ones. For the programs of
ResultSolvesIfCallsApart the run of the block at the end is both: its call is linked
to a context for the values the flow function gives. **RightProgramsStart** says that
the condition under which AnalysisCoversExecution covers a program, a result that
solves the equations and covers the returns, is met by every module with the calls of
each method apart, a sign behind every entry and branches that lead to returns only.
Of the repository's tests, sign_test1.c, sign_test3.c and sign_test4.c have their
calls apart, and the last two have no branch that leads elsewhere; sign_test2.c calls
one function from two blocks.

**LiveAnalysis.** *OnlyLiveReported* (`Spec => []NothingDead`), for every function,
phi nodes that clash included: NothingDead is inductive with two facts. What a block
has before it is live after each predecessor or killed there (InLiveOrKilled): a phi
node kills its operands at the end of the predecessors, and may take one back there, but
then it is live. Halfway through a block, `live` is what the instructions seen so far
make of Out (HalfwayThrough), which Needed says without recursion.
*NoLiveValueMissed* (`Spec => []LiveIfPhisApart`): sets at the end of the rounds are
Closed, and LiveAfter is the least such sets. CoverInv says of the blocks taken in a
round that has changed nothing yet that they have been gone through and that there is
nothing to take from their successors that they do not have (NothingNew). It holds
although the change flag looks only at the sets before blocks, because those are all
that a round takes over; and it needs that OutKill holds nothing live (KillsDead),
which is what clashing phi nodes destroy. That every block is taken in a round is a
property of the order, which has every block (OrderInv).
*ImplementsSolver* (`Spec => SolvesWithoutPhis`): without phi nodes each FinishBlock is
Apply, or Return if it is the last. The code unites Out with the sets of the successors
and never resets it, so PlainInv must say that nothing is in Out that is not before a
successor now; it says so because sets before blocks only grow, which in turn needs that
what is before a block comes from its Out.

**DataFlow.** *SolvesEquations* (`Spec => Solves`): DataFlow implements
`ChaoticIteration`, for every problem and every transfer function. ProcessBlock is
Apply for a block that is reachable, Return is Return, everything else stutters.
Return needs RoundInv: in a round that has changed nothing so far, the equations of the
blocks processed hold. A block that is unchanged by what the code compares may
yet have changed what others read; Settled says why it has not: after the first turn
`output` is the element sent and the values for single neighbours are those of the
code, whatever its input. Before the first turn they differ, and then the order
matters. SearchInv is what the theorem needs of a depth first search, without
recursion: the search goes wherever edges lead, a forward order begins with the entry, and a
backward order has a return before each block with an edge to it; so the boundary block
whose `output` was never set is processed before anybody reads it.
*FindsBestSolution* (`Spec => []BestSolution`): with monotone functions and the neutral
initial value every block is either untouched or no worse than in any solution
(BestInv).

**Exercises.** *FunctionsCorrect* (`Spec => []Correct`), *RecursionBounded*
(`Spec => []DepthBounded`) and *TypeCorrect*, for every Half of at least two and every
argument. That a recursive function is right is an induction over its argument, which
the provers cannot take; here the stack takes it. StackInv says of each frame what it
knows where it stands (FactFrame, ParityFrame, BinFrame: the registers set so far, and
what the branch taken says of the argument); that the frame below a frame is at a call
whose expected value is the one the upper frame will return (WaitsFor); that the lowest
frame will return what the run is expected to; and that the frames a frame needs (Need)
and those below it make up the depth of the run. Each instruction keeps
it: what Computes, Branches, Enters and Returned say of one frame, Pushed, Replaced and
Popped say of the stack, and Resumes hands a returned value to the caller. Three facts
of arithmetic do the rest. Wrapping around is taking the representative modulo
2 * Half, so that n * Wrap(x) wraps to what n * x does (WrapProduct: fact is right however
often it overflows). The factorial satisfies its own equation (FactorialUnfolds, by least
elements, as for `Flow`). And counting down, around the least integer, changes the
parity, because 2 * Half is even (ParityStep), and takes as many steps as the
argument is modulo 2 * Half (DepthStep).

**Only model-checked.** Termination, RoundsEnd, Converges, Returns: liveness.
ResultIsSolution and ExitCoversTails by themselves, which do not hold for every
program; *sign_tests* checks them on the repository's own, sign_test2.c included.
ExecutionTypeOK and OperandsSigned for programs with an entry block that defines no name.
CallsAnalysed for programs whose calls are not apart.

## 5. Not modelled

* Printing, names and debug output, everywhere.
* initContextForPhantomMethod and the backward direction: nothing uses them.
* The branch of addTransition for a null target: no caller passes one.
* Calls of functions without a body: the code asks them for an entry block.
* What LLVM's verifier accepts and `Instruction` or `WellFormed` has no form for: `ret
  void` (signOf reads operand 0 of every return, sign_analysis.cpp:96), indirect calls
  (getCalledFunction is null, :200) and variable arguments (callEntryFlowFunction takes
  a parameter for each argument, :252).
* A value named "branch". The code tells branches by that name (sign_analysis.cpp:177
  and :230), `normalFlow` by their opcode. They agree under the names run.sh gets: a
  clang that discards the names of values, and "opt -instnamer", which makes up new ones.
* In the programs the sign analysis is given, arithmetic that wraps around (unsigned, or
  without `nsw`). The analysis does not look at `nsw` (sign_analysis.cpp:85-89) and takes
  POSITIVE plus POSITIVE for POSITIVE; `Machine` ends at every overflow, so *basic_block*,
  *execution* and *sign_tests* show signs to be right up to an overflow and say nothing
  of what follows a sum that wrapped.
* In DataFlow, values for single neighbours that depend on the input. Were they to change
  while their number stays, convergence would not notice; no comment promises them.
* Stores through a pointer that is not the variable itself: the analysis ignores
  aliasing, and so does `BasicBlock`, which takes a variable to be its alloca.
* An NDEBUG build, in which a failed assertion runs into undefined behaviour.
* pass.cpp: it prints a module. main of the programs of assign1
  verifies and prints what CreateFunctions built.
* Getters of the engine that only copy its state out.
* Of `other` instructions (phi, cast, compare, select, getelementptr) only that the
  analysis gives their names BOTTOM: the machine may store anything.
* Of DataFlow: an invalid direction or meet, domainToIndex (a bit is its index),
  Expression and the printing functions; a vector of size zero, which a backward
  analysis gives to a block that ends in unreachable (a vector is a set here).

## 6. Findings

The runs that are expected to be violated show programs the analyses are wrong
about. README.txt calls the engine an implementation of VASCO, in which the
result is a solution and covers every return.

* *lost_exit*: with `b = 1; while(...); return b` the return block is processed before
  the loop body, with the body still in the worklist, so the exit marker is not
  queued; the loop body changes nothing, so the return block is not taken up
  again. The exit value is never computed and callers read TOP. A loop is not needed:
  with `b = 1; if(a || b) a = 1; return b` the block of the assignment is queued by
  both of its predecessors, and its second copy is taken last. The run starts from
  both programs.
* *two_calls*: when a context's exit value changes, a call site is queued only if
  the worklist of its context is empty. Of two blocks of a context that call it
  only the first is queued.
* *shared_site*: the table identifies a call by its context and basic block. Of two
  calls of `f` in one block, `f(0)` and `f(1)`, the second moves the call site away
  from the context of the first, whose final exit value then never arrives.
* *bare_entry*: a block whose value is the empty map counts as unchanged the
  first time; nothing behind it is processed.
* *swap*: of two phi nodes in a block that take the same values the other way
  round, one kills what the other takes.

## 7. Plan

Done: the lattice and the flow functions; the engine with its table; its result
and the programs it is right for; the whole, from the pass to the program it
analysed; LiveAnalysis; the promises of the engine and of DataFlow; the exercises.
Proved: every safety property of the engine, that it implements its promise, for
which programs its result solves the equations and covers the returns, and that such
a result covers every execution; that no such execution reads a name without a sign;
that LiveAnalysis reports live variables only and, unless phi nodes clash, all of
them, and without phi nodes solves its equations; that DataFlow does, and best; that the exercises compute what
their names say.

Left: the exit values of programs whose branches lead on to other blocks. Which of them are
complete (sign_test1.c is one) depends on which blocks change when they are taken again;
what is known of them is what the runs check.
