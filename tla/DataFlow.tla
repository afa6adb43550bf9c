------------------------------ MODULE DataFlow ------------------------------
(***************************************************************************)
(* DataFlow::run and applyMeetOp of project/pass/dataflow.cpp: a forward   *)
(* or backward analysis of one function by rounds over its blocks, until a *)
(* round changes nothing.                                                  *)
(*                                                                         *)
(* The class is abstract: direction, meet, domain, boundary and initial    *)
(* values and transferFn come from the analysis that extends it, and are,  *)
(* with the function, a problem.  A BitVector is the set of its bits: two  *)
(* that differ in size alone differ for no reader here.                    *)
(***************************************************************************)
EXTENDS Integers, FiniteSets, SequencesExt

CONSTANTS Bit,             \* the domain
          Node,            \* basic blocks
          Code,            \* what a block does
          Transfer(_, _),  \* what an analysis makes of code and an input
          Problems         \* the analyses considered

BitVector == SUBSET Bit

\* neighborVals: what a block sends to one neighbour only, as a phi node does.
NeighborVals   == UNION {[ns -> BitVector] : ns \in SUBSET Node}
TransferOutput == [element : BitVector, neighborVals : NeighborVals]

\* LLVM's functions have no edge back to the entry or out of a return.
Problem == {p \in [direction    : {"forward", "backward"},
                   meetOp       : {"union", "intersection"},
                   entry        : Node,
                   succs        : [Node -> SUBSET Node],
                   returns      : SUBSET Node,
                   boundaryCond : BitVector,
                   initCond     : BitVector,
                   code         : [Node -> Code]] :
              \A n \in Node : /\ p.entry \notin p.succs[n]
                              /\ n \in p.returns => p.succs[n] = {}}

ASSUME ProblemsAssumption == Problems \subseteq Problem
ASSUME NodeAssumption == IsFiniteSet(Node)

\* What phi nodes send does not depend on the input.  A comment on the test of
\* convergence takes for granted only that their number changes when they do.
ASSUME TransferAssumption ==
  \A c \in Code, i, j \in BitVector :
    /\ Transfer(c, i) \in TransferOutput
    /\ Transfer(c, i).neighborVals = Transfer(c, j).neighborVals

VARIABLES problem,         \* never changes
          path,            \* the stack of a depth first search
          traversalOrder,
          result,
          BB,              \* the position in traversalOrder
          converged,
          pc               \* the loop run is in; or it is done

search == <<path, traversalOrder>>
vars   == <<problem, search, result, BB, converged, pc>>

\* input and output are in and out, or out and in for a backward analysis.
BlockResult == [input : BitVector, output : BitVector, transferOutput : TransferOutput]

\* The order is complete before the first round.
TypeOK == /\ problem \in Problem
          /\ path \in Seq(Node) /\ traversalOrder \in Seq(Node)
          /\ result \in [Node -> BlockResult]
          /\ BB \in 1..Len(traversalOrder) + 1
          /\ converged \in BOOLEAN
          /\ pc \in {"while", "for", "done"}
          /\ path # <<>> => pc = "while" /\ BB = 1 /\ ~converged

-----------------------------------------------------------------------------
Boundary(p) == IF p.direction = "forward" THEN {p.entry} ELSE p.returns

Neighbors(p, b) == IF p.direction = "forward" THEN {n \in Node : b \in p.succs[n]}
                                              ELSE p.succs[b]

applyMeetOp(p, inputs) ==
  IF p.meetOp = "union" THEN UNION inputs ELSE {v \in Bit : \A i \in inputs : v \in i}

transferFn(p, input, b) == Transfer(p.code[b], input)

\* What a neighbour sends to b.
Sent(out, b) ==
  out.element \cup (IF b \in DOMAIN out.neighborVals THEN out.neighborVals[b] ELSE {})

MeetInputs(p, outs, b) == {Sent(outs[n], b) : n \in Neighbors(p, b)}

-----------------------------------------------------------------------------
\* Mutant: the conditions are swapped.
InitialResultSwapped(p, b) ==
  [input          |-> IF b \in Boundary(p) THEN p.initCond ELSE {},
   output         |-> IF b \in Boundary(p) THEN {} ELSE p.boundaryCond,
   transferOutput |-> [element      |-> IF b \in Boundary(p) THEN p.initCond ELSE p.boundaryCond,
                       neighborVals |-> <<>>]]

\* The side that is not set is an empty BitVector.
InitialResult(p, b) ==
  [input          |-> IF b \in Boundary(p) THEN p.boundaryCond ELSE {},
   output         |-> IF b \in Boundary(p) THEN {} ELSE p.initCond,
   transferOutput |-> [element      |-> IF b \in Boundary(p) THEN p.boundaryCond ELSE p.initCond,
                       neighborVals |-> <<>>]]

Init == /\ problem \in Problems
        /\ path = <<problem.entry>>
        /\ traversalOrder = <<>>
        /\ result = [b \in Node |-> InitialResult(problem, b)]
        /\ BB = 1
        /\ converged = FALSE
        /\ pc = "while"

\* The successors of the block on top of the stack not seen yet.
Unseen == problem.succs[Last(path)] \ (Range(path) \cup Range(traversalOrder))

\* The search visits the blocks from the entry on, successors in any order.
VisitSuccessor == /\ path # <<>>
                  /\ \E n \in Unseen : path' = Append(path, n)
                  /\ UNCHANGED <<problem, traversalOrder, result, BB, converged, pc>>

\* A forward analysis goes in reverse postorder, a backward one in postorder.
LeaveBlock == /\ path # <<>> /\ Unseen = {}
              /\ path' = Front(path)
              /\ traversalOrder' = IF problem.direction = "forward"
                                     THEN <<Last(path)>> \o traversalOrder
                                     ELSE Append(traversalOrder, Last(path))
              /\ UNCHANGED <<problem, result, BB, converged, pc>>

\* Mutant: rounds start while the order is still being found.
StartRoundUnordered == /\ pc = "while" /\ ~converged
                       /\ converged' = TRUE
                       /\ BB' = 1 /\ pc' = "for"
                       /\ UNCHANGED <<problem, search, result>>

StartRound == /\ pc = "while" /\ ~converged /\ path = <<>>
              /\ converged' = TRUE
              /\ BB' = 1 /\ pc' = "for"
              /\ UNCHANGED <<problem, search, result>>

\* Mutants: only elements are compared; any output is a change.
ChangedElement(old, out) == out.element # old.output
ChangedAlways(old, out)  == out.element # {}

\* Of the values sent to one neighbour only their number is compared.
Changed(old, out) ==
  \/ out.element # old.output
  \/ Cardinality(DOMAIN out.neighborVals) # Cardinality(DOMAIN old.transferOutput.neighborVals)

\* A block without neighbours keeps its input.
ProcessBlock ==
  /\ pc = "for" /\ BB <= Len(traversalOrder)
  /\ LET b      == traversalOrder[BB]
         old    == result[b]
         outs   == [n \in Node |-> result[n].transferOutput]
         inputs == MeetInputs(problem, outs, b)
         input  == IF inputs = {} THEN old.input ELSE applyMeetOp(problem, inputs)
         out    == transferFn(problem, input, b)
     IN /\ result' = [result EXCEPT ![b] = [input |-> input, output |-> out.element,
                                            transferOutput |-> out]]
        /\ converged' = (converged /\ ~Changed(old, out))
  /\ BB' = BB + 1
  /\ UNCHANGED <<problem, search, pc>>

EndRound == /\ pc = "for" /\ BB > Len(traversalOrder)
            /\ pc' = "while"
            /\ UNCHANGED <<problem, search, result, BB, converged>>

Return == /\ pc = "while" /\ converged
          /\ pc' = "done"
          /\ UNCHANGED <<problem, search, result, BB, converged>>

Finish == pc = "done" /\ UNCHANGED vars

Next == \/ VisitSuccessor \/ LeaveBlock
        \/ StartRound \/ ProcessBlock \/ EndRound \/ Return \/ Finish

\* The analysis is a loop that nothing interrupts.
Spec == Init /\ [][Next]_vars /\ WF_vars(Next)

-----------------------------------------------------------------------------
(***************************************************************************)
(* The data flow equations, and the promise.                               *)
(***************************************************************************)
Reachable(p) == {b \in Node : \A ns \in SUBSET Node :
                   p.entry \in ns /\ (\A n \in ns : p.succs[n] \subseteq ns) => b \in ns}

\* Behind a block without neighbours the boundary condition holds, or, if it is
\* not on the boundary, nothing.
Equation(p, outs, b) ==
  LET inputs == MeetInputs(p, outs, b)
      behind == IF b \in Boundary(p) THEN p.boundaryCond ELSE {}
  IN transferFn(p, IF inputs = {} THEN behind ELSE applyMeetOp(p, inputs), b)

outputs == [b \in Node |-> result[b].transferOutput]

Solver == INSTANCE ChaoticIteration WITH
            Output <- TransferOutput, Problems <- Problem,
            Unknowns <- Reachable, Rhs <- Equation,
            sol <- outputs, returned <- (pc = "done")

\* run returns only when the equations of all blocks it visits hold, although
\* it compares outputs that it never reads and counts values it does read: no
\* change goes unnoticed, not even of a boundary block whose output was not set.
Solves == Solver!Spec

Monotone == \A c \in Code, i, j \in BitVector :
              i \subseteq j => Transfer(c, i).element \subseteq Transfer(c, j).element

\* The outputs that have the elements e where run goes, and else those it starts with.
OutputsOf(p, e) ==
  [b \in Node |-> IF b \in Reachable(p)
                    THEN [element      |-> e[b],
                          neighborVals |-> transferFn(p, {}, b).neighborVals]
                    ELSE InitialResult(p, b).transferOutput]

Solutions(p) == {e \in [Node -> BitVector] :
                   \A b \in Reachable(p) :
                     OutputsOf(p, e)[b] = Equation(p, OutputsOf(p, e), b)}

AtLeastAsGood(p, v, w) == IF p.meetOp = "union" THEN v \subseteq w ELSE w \subseteq v

\* What run returns is the best solution, for monotone transfer functions and
\* from the neutral element of the meet: no solution has fewer elements (union)
\* or more (intersection) anywhere, whatever the order of the blocks.
BestSolution ==
  pc = "done" /\ Monotone /\ problem.initCond = applyMeetOp(problem, {}) =>
    \A e \in Solutions(problem), b \in Reachable(problem) :
      AtLeastAsGood(problem, outputs[b].element, e[b])

\* The rounds end, from whatever initial value.
Converges == <>(pc = "done")
=============================================================================
