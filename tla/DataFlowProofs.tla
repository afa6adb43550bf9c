--------------------------- MODULE DataFlowProofs ---------------------------
(***************************************************************************)
(* Theorems about DataFlow::run of project/pass/dataflow.cpp, for every    *)
(* analysis and every function: it applies the data flow equations, stops  *)
(* only when they hold, and then has their best solution.                  *)
(***************************************************************************)
EXTENDS DataFlow, SequenceTheorems, FiniteSetTheorems, TLAPS

-----------------------------------------------------------------------------
(* The values and their types.                                             *)

LEMMA ProblemType ==
  ASSUME NEW p \in Problem
  PROVE  /\ p.direction \in {"forward", "backward"}
         /\ p.entry \in Node /\ p.succs \in [Node -> SUBSET Node]
         /\ p.returns \subseteq Node
         /\ p.boundaryCond \in BitVector /\ p.initCond \in BitVector
         /\ p.code \in [Node -> Code]
         /\ \A n \in Node : p.entry \notin p.succs[n] /\ (n \in p.returns => p.succs[n] = {})
BY DEF Problem

LEMMA TransferType ==
  ASSUME NEW p \in Problem, NEW b \in Node, NEW i \in BitVector
  PROVE  /\ transferFn(p, i, b) \in TransferOutput
         /\ transferFn(p, i, b).neighborVals = transferFn(p, {}, b).neighborVals
<1>1. p.code[b] \in Code /\ {} \in BitVector
  BY DEF Problem, BitVector
<1>2. QED
  BY <1>1, TransferAssumption DEF transferFn

LEMMA OutputType ==
  ASSUME NEW out \in TransferOutput
  PROVE  /\ out.element \in BitVector
         /\ DOMAIN out.neighborVals \subseteq Node
         /\ \A n \in DOMAIN out.neighborVals : out.neighborVals[n] \in BitVector
         /\ out = [element |-> out.element, neighborVals |-> out.neighborVals]
BY DEF TransferOutput, NeighborVals

LEMMA EmptyNeighborVals == <<>> \in [{} -> BitVector] /\ <<>> \in NeighborVals
<1>1. <<>> \in [1..0 -> BitVector]
  BY EmptySeq, LenProperties
<1>2. QED
  BY <1>1 DEF NeighborVals

LEMMA NoNeighborVals ==
  ASSUME NEW out \in TransferOutput, Cardinality(DOMAIN out.neighborVals) = 0
  PROVE  out.neighborVals = <<>>
<1>1. IsFiniteSet(DOMAIN out.neighborVals)
  BY OutputType, NodeAssumption, FS_Subset
<1>2. DOMAIN out.neighborVals = {}
  BY <1>1, FS_EmptySet
<1>3. out.neighborVals \in [{} -> BitVector]
  BY <1>2 DEF TransferOutput, NeighborVals
<1>4. QED
  BY <1>3, EmptyNeighborVals

LEMMA SentType ==
  ASSUME NEW out \in TransferOutput, NEW b
  PROVE  Sent(out, b) \in BitVector
BY OutputType DEF Sent, BitVector

LEMMA NeighborsType ==
  ASSUME NEW p \in Problem, NEW b \in Node
  PROVE  Neighbors(p, b) \subseteq Node /\ (b \in Boundary(p) => Neighbors(p, b) = {})
BY ProblemType DEF Neighbors, Boundary

LEMMA MeetType ==
  ASSUME NEW p \in Problem, NEW b \in Node, NEW outs \in [Node -> TransferOutput]
  PROVE  /\ MeetInputs(p, outs, b) \subseteq BitVector
         /\ MeetInputs(p, outs, b) = {} <=> Neighbors(p, b) = {}
         /\ MeetInputs(p, outs, b) # {} => applyMeetOp(p, MeetInputs(p, outs, b)) \in BitVector
<1>1. MeetInputs(p, outs, b) \subseteq BitVector
  BY NeighborsType, SentType DEF MeetInputs
<1>2. MeetInputs(p, outs, b) = {} <=> Neighbors(p, b) = {}
  BY DEF MeetInputs
<1>3. applyMeetOp(p, MeetInputs(p, outs, b)) \in BitVector
  BY <1>1 DEF applyMeetOp, BitVector
<1>4. QED
  BY <1>1, <1>2, <1>3

LEMMA InitialType ==
  ASSUME NEW p \in Problem, NEW b \in Node
  PROVE  InitialResult(p, b) \in BlockResult
BY ProblemType, EmptyNeighborVals DEF InitialResult, BlockResult, TransferOutput, BitVector

\* What holds behind a block without neighbours.
Behind(p, b) == IF b \in Boundary(p) THEN p.boundaryCond ELSE {}

\* The right-hand side of an equation reads the neighbours only.
LEMMA EquationLocal ==
  ASSUME NEW p \in Problem, NEW b \in Node, NEW outs, NEW outs2,
         \A n \in Neighbors(p, b) : outs[n] = outs2[n]
  PROVE  Equation(p, outs, b) = Equation(p, outs2, b)
<1>1. MeetInputs(p, outs, b) = MeetInputs(p, outs2, b)
  BY DEF MeetInputs
<1>2. QED
  BY <1>1 DEF Equation

-----------------------------------------------------------------------------
(* One turn of the inner loop.                                             *)

Block == traversalOrder[BB]

Input == IF MeetInputs(problem, outputs, Block) = {} THEN result[Block].input
         ELSE applyMeetOp(problem, MeetInputs(problem, outputs, Block))

Out == transferFn(problem, Input, Block)

NewResult == [input |-> Input, output |-> Out.element, transferOutput |-> Out]

LEMMA OutputsType ==
  ASSUME TypeOK
  PROVE  outputs \in [Node -> TransferOutput]
BY DEF TypeOK, outputs, BlockResult

LEMMA ProcessedBlock ==
  ASSUME TypeOK, ProcessBlock
  PROVE  /\ BB \in 1..Len(traversalOrder)
         /\ Block \in Node
         /\ Input \in BitVector /\ Out \in TransferOutput
         /\ Out.neighborVals = transferFn(problem, {}, Block).neighborVals
         /\ NewResult \in BlockResult
         /\ result' = [result EXCEPT ![Block] = NewResult]
         /\ outputs' = [outputs EXCEPT ![Block] = Out]
         /\ converged' = (converged /\ ~Changed(result[Block], Out))
         /\ BB' = BB + 1 /\ pc = "for" /\ pc' = pc
         /\ UNCHANGED <<problem, search>>
<1>1. BB \in 1..Len(traversalOrder)
  BY LenProperties DEF TypeOK, ProcessBlock
<1>2. Block \in Node /\ problem \in Problem
  BY <1>1, ElementOfSeq DEF TypeOK, Block
<1>3. Input \in BitVector
  BY <1>2, OutputsType, MeetType DEF Input, TypeOK, BlockResult
<1>4. Out \in TransferOutput /\ Out.neighborVals = transferFn(problem, {}, Block).neighborVals
  BY <1>2, <1>3, TransferType DEF Out
<1>5. NewResult \in BlockResult
  BY <1>3, <1>4, OutputType DEF NewResult, BlockResult
<1>6. /\ result' = [result EXCEPT ![Block] = NewResult]
      /\ converged' = (converged /\ ~Changed(result[Block], Out))
  BY DEF ProcessBlock, Block, Input, Out, NewResult, outputs
<1>7. outputs' = [outputs EXCEPT ![Block] = Out]
  BY <1>2, <1>6 DEF outputs, NewResult, TypeOK
<1>8. BB' = BB + 1 /\ pc = "for" /\ pc' = pc /\ UNCHANGED <<problem, search>>
  BY DEF ProcessBlock
<1>9. QED
  BY <1>1, <1>2, <1>3, <1>4, <1>5, <1>6, <1>7, <1>8

-----------------------------------------------------------------------------
(* Types.                                                                  *)

LEMMA TopOfPath ==
  ASSUME TypeOK, path # <<>>
  PROVE  /\ Len(path) \in Nat \ {0}
         /\ Last(path) = path[Len(path)] /\ Last(path) \in Node
         /\ Front(path) \in Seq(Node) /\ Len(Front(path)) = Len(path) - 1
         /\ \A i \in 1..Len(path) - 1 : Front(path)[i] = path[i]
<1>1. path \in Seq(Node) /\ Len(path) \in Nat \ {0}
  BY EmptySeq DEF TypeOK
<1>2. Last(path) = path[Len(path)] /\ Last(path) \in Node
  BY <1>1, ElementOfSeq DEF Last
<1> DEFINE k == Len(path) - 1
<1>3. k \in Nat /\ \A i \in 1..k : path[i] \in Node
  BY <1>1, ElementOfSeq
<1>4. /\ SubSeq(path, 1, k) \in Seq(Node)
      /\ Len(SubSeq(path, 1, k)) = IF 1 <= k THEN k - 1 + 1 ELSE 0
      /\ \A i \in 1..k - 1 + 1 : SubSeq(path, 1, k)[i] = path[1 + i - 1]
  <2> HIDE DEF k
  <2> QED
    BY <1>3, SubSeqProperties
<1>5. /\ Len(SubSeq(path, 1, k)) = k
      /\ \A i \in 1..k : SubSeq(path, 1, k)[i] = path[i]
  <2> HIDE DEF k
  <2>1. \A i \in 1..k : i \in 1..k - 1 + 1 /\ 1 + i - 1 = i
    BY <1>3
  <2>2. Len(SubSeq(path, 1, k)) = k
    BY <1>3, <1>4
  <2>3. QED
    BY <1>3, <1>4, <2>1, <2>2
<1>6. QED
  BY <1>1, <1>2, <1>4, <1>5 DEF Front

\* The order after the block on top of the stack is left.
LEMMA OrderGrows ==
  ASSUME TypeOK, LeaveBlock
  PROVE  LET N == Len(traversalOrder) IN
         /\ N \in Nat
         /\ traversalOrder' \in Seq(Node) /\ Len(traversalOrder') = N + 1
         /\ problem.direction = "forward" =>
              /\ traversalOrder'[1] = Last(path)
              /\ \A i \in 1..N : traversalOrder'[i + 1] = traversalOrder[i]
         /\ problem.direction # "forward" =>
              /\ traversalOrder'[N + 1] = Last(path)
              /\ \A i \in 1..N : traversalOrder'[i] = traversalOrder[i]
<1> DEFINE N == Len(traversalOrder)
<1>1. traversalOrder \in Seq(Node) /\ N \in Nat /\ Last(path) \in Node
  BY TopOfPath, LenProperties DEF TypeOK, LeaveBlock
<1>2. CASE problem.direction = "forward"
  <2>1. traversalOrder' = <<Last(path)>> \o traversalOrder
    BY <1>2 DEF LeaveBlock
  <2>2. <<Last(path)>> \in Seq(Node) /\ Len(<<Last(path)>>) = 1
    BY <1>1
  <2>3. /\ traversalOrder' \in Seq(Node) /\ Len(traversalOrder') = 1 + N
        /\ \A i \in 1..1 + N : traversalOrder'[i] =
              IF i <= 1 THEN <<Last(path)>>[i] ELSE traversalOrder[i - 1]
    BY <1>1, <2>1, <2>2, ConcatProperties
  <2> HIDE DEF N
  <2>4. 1 \in 1..1 + N /\ \A i \in 1..N : i + 1 \in 1..1 + N /\ ~(i + 1 <= 1) /\ i + 1 - 1 = i
    BY <1>1
  <2>5. QED
    BY <1>1, <1>2, <2>3, <2>4 DEF N
<1>3. CASE problem.direction # "forward"
  <2>1. traversalOrder' = Append(traversalOrder, Last(path))
    BY <1>3 DEF LeaveBlock
  <2>2. QED
    BY <1>1, <1>3, <2>1, AppendProperties
<1>4. QED
  BY <1>2, <1>3

LEMMA TypeInit == Init => TypeOK
<1> SUFFICES ASSUME Init PROVE TypeOK
  OBVIOUS
<1>1. problem \in Problem /\ problem.entry \in Node
  BY ProblemsAssumption, ProblemType DEF Init
<1>2. path \in Seq(Node) /\ traversalOrder \in Seq(Node) /\ Len(traversalOrder) = 0
  BY <1>1, EmptySeq DEF Init
<1>3. result \in [Node -> BlockResult]
  BY <1>1, InitialType DEF Init
<1>4. BB \in 1..Len(traversalOrder) + 1
  BY <1>2 DEF Init
<1>5. QED
  BY <1>1, <1>2, <1>3, <1>4 DEF Init, TypeOK

LEMMA TypeStep == TypeOK /\ [Next]_vars => TypeOK'
<1> SUFFICES ASSUME TypeOK, [Next]_vars PROVE TypeOK'
  OBVIOUS
<1> USE DEF TypeOK, search
<1>1. CASE VisitSuccessor
  <2>1. PICK n \in Unseen : path' = Append(path, n)
    BY <1>1 DEF VisitSuccessor
  <2>2. n \in Node
    BY <1>1, <2>1, TopOfPath, ProblemType DEF Unseen, VisitSuccessor
  <2>3. path' \in Seq(Node)
    BY <2>1, <2>2, AppendProperties
  <2>4. QED
    BY <1>1, <2>3 DEF VisitSuccessor
<1>2. CASE LeaveBlock
  <2>1. path' \in Seq(Node)
    BY <1>2, TopOfPath DEF LeaveBlock
  <2>2. BB' \in 1..Len(traversalOrder') + 1
    BY <1>2, OrderGrows DEF LeaveBlock
  <2>3. QED
    BY <1>2, <2>1, <2>2, OrderGrows DEF LeaveBlock
<1>3. CASE StartRound
  BY <1>3, LenProperties DEF StartRound
<1>4. CASE ProcessBlock
  <2>1. /\ BB \in 1..Len(traversalOrder) /\ BB' = BB + 1 /\ Len(traversalOrder) \in Nat
        /\ result' \in [Node -> BlockResult]
        /\ converged' \in BOOLEAN
        /\ pc' = "for" /\ path = <<>> /\ UNCHANGED <<problem, path, traversalOrder>>
    BY <1>4, ProcessedBlock, LenProperties
  <2>2. QED
    BY <2>1
<1>5. CASE EndRound
  BY <1>5 DEF EndRound
<1>6. CASE Return
  BY <1>6 DEF Return
<1>7. CASE Finish \/ UNCHANGED vars
  BY <1>7 DEF Finish, vars
<1>8. QED
  BY <1>1, <1>2, <1>3, <1>4, <1>5, <1>6, <1>7 DEF Next

\* Every variable keeps its type, the position in the order stays within it, and
\* no round starts before the order is complete.
THEOREM TypeCorrect == Spec => []TypeOK
BY TypeInit, TypeStep, PTL DEF Spec

-----------------------------------------------------------------------------
(* The order of the blocks.                                                *)

Seen == {path[i] : i \in 1..Len(path)} \cup {traversalOrder[i] : i \in 1..Len(traversalOrder)}

\* Of a depth first search a solver needs this: it goes wherever edges lead; a
\* forward analysis has the entry first; and a backward one has a return before
\* every block with an edge to it.
SearchInv ==
  /\ Seen \subseteq Reachable(problem)
  /\ problem.entry \in Seen
  /\ \A i \in 1..Len(traversalOrder) :
       problem.succs[traversalOrder[i]] \subseteq Seen
  /\ \A i \in 1..Len(path) - 1 : path[i + 1] \in problem.succs[path[i]]
  /\ path # <<>> => path[1] = problem.entry
  /\ problem.direction = "forward" /\ path = <<>> =>
       Len(traversalOrder) > 0 /\ traversalOrder[1] = problem.entry
  /\ problem.direction # "forward" =>
       \A i \in 1..Len(traversalOrder) :
         \A s \in problem.succs[traversalOrder[i]] \cap problem.returns :
           \E j \in 1..i - 1 : traversalOrder[j] = s

LEMMA ReachableClosed ==
  ASSUME NEW p \in Problem
  PROVE  /\ p.entry \in Reachable(p)
         /\ \A b \in Reachable(p) : p.succs[b] \subseteq Reachable(p)
         /\ \A ns \in SUBSET Node : p.entry \in ns /\ (\A n \in ns : p.succs[n] \subseteq ns)
              => Reachable(p) \subseteq ns
BY ProblemType DEF Reachable

LEMMA SearchInit == Init => SearchInv
<1> SUFFICES ASSUME Init PROVE SearchInv
  OBVIOUS
<1>1. /\ Len(path) = 1 /\ path[1] = problem.entry /\ Len(traversalOrder) = 0 /\ path # <<>>
      /\ problem \in Problem
  BY ProblemsAssumption DEF Init
<1>2. problem.entry \in Seen /\ \A b : b \in Seen => b = problem.entry
  BY <1>1 DEF Seen
<1>3. QED
  BY <1>1, <1>2, ReachableClosed DEF SearchInv

LEMMA SeenIsUnion ==
  ASSUME TypeOK
  PROVE  Seen = Range(path) \cup Range(traversalOrder)
<1>1. /\ DOMAIN path = 1..Len(path) /\ DOMAIN traversalOrder = 1..Len(traversalOrder)
  BY LenProperties DEF TypeOK
<1>2. QED
  BY <1>1 DEF Seen, Range

LEMMA SearchVisit ==
  ASSUME TypeOK, SearchInv, VisitSuccessor
  PROVE  SearchInv'
<1> DEFINE k == Len(path)
<1>1. k \in Nat \ {0} /\ Last(path) = path[k] /\ Last(path) \in Node
  BY TopOfPath DEF VisitSuccessor
<1>2. PICK n \in Unseen : path' = Append(path, n)
  BY DEF VisitSuccessor
<1>3. n \in problem.succs[path[k]] /\ n \in Node /\ problem \in Problem
  BY <1>1, ProblemType DEF Unseen, TypeOK
<1>4. /\ Len(path') = k + 1 /\ path'[k + 1] = n /\ path' # <<>>
      /\ \A i \in 1..k : path'[i] = path[i]
  BY <1>2, <1>3, AppendProperties DEF TypeOK
<1>5. UNCHANGED <<problem, traversalOrder>>
  BY DEF VisitSuccessor
<1>6. \A i : i \in 1..k + 1 <=> i \in 1..k \/ i = k + 1
  BY <1>1
<1> HIDE DEF k
<1>7. Seen' = Seen \cup {n}
  <2>1. \A b : b \in Seen' <=> \/ \E i \in 1..k + 1 : path'[i] = b
                            \/ \E i \in 1..Len(traversalOrder) : traversalOrder[i] = b
    BY <1>4, <1>5 DEF Seen
  <2>2. \A b : b \in Seen <=> \/ \E i \in 1..k : path[i] = b
                           \/ \E i \in 1..Len(traversalOrder) : traversalOrder[i] = b
    BY DEF Seen, k
  <2>3. \A b : b \in Seen' <=> b \in Seen \/ b = n
    BY <2>1, <2>2, <1>4, <1>6
  <2>4. QED
    BY <2>3
<1>8. path[k] \in Reachable(problem)
  BY <1>1 DEF SearchInv, Seen, k
<1>9. n \in Reachable(problem)
  BY <1>3, <1>8, ReachableClosed
<1>10. \A i \in 1..k + 1 - 1 : path'[i + 1] \in problem.succs[path'[i]]
  <2> SUFFICES ASSUME NEW i \in 1..k + 1 - 1 PROVE path'[i + 1] \in problem.succs[path'[i]]
    OBVIOUS
  <2>1. i \in 1..k
    BY <1>1
  <2>2. CASE i = k
    BY <2>2, <1>1, <1>3, <1>4
  <2>3. CASE i # k
    <3>1. i + 1 \in 1..k /\ i \in 1..k - 1
      BY <1>1, <2>1, <2>3
    <3>2. QED
      BY <3>1, <2>1, <1>4 DEF SearchInv, k
  <2>4. QED
    BY <2>2, <2>3
<1>11. path'[1] = problem.entry
  <2>1. path # <<>> /\ 1 \in 1..k
    BY <1>1 DEF VisitSuccessor
  <2>2. QED
    BY <2>1, <1>4 DEF SearchInv
<1>12. QED
  <2>1. Seen' \subseteq Reachable(problem)
    BY <1>7, <1>9 DEF SearchInv
  <2>2. problem'.entry \in Seen'
    BY <1>5, <1>7 DEF SearchInv
  <2>3. \A i \in 1..Len(traversalOrder') : problem'.succs[traversalOrder'[i]] \subseteq Seen'
    BY <1>5, <1>7 DEF SearchInv
  <2>4. \A i \in 1..Len(path') - 1 : path'[i + 1] \in problem'.succs[path'[i]]
    <3>1. Len(path') - 1 = k + 1 - 1
      BY <1>1, <1>4
    <3>2. QED
      BY <3>1, <1>5, <1>10
  <2>5. problem'.direction # "forward" =>
          \A i \in 1..Len(traversalOrder') :
            \A s \in problem'.succs[traversalOrder'[i]] \cap problem'.returns :
              \E j \in 1..i - 1 : traversalOrder'[j] = s
    BY <1>5 DEF SearchInv
  <2>6. QED
    BY <2>1, <2>2, <2>3, <2>4, <2>5, <1>4, <1>5, <1>11 DEF SearchInv

LEMMA SearchLeave ==
  ASSUME TypeOK, SearchInv, LeaveBlock
  PROVE  SearchInv'
<1> DEFINE k == Len(path)
           N == Len(traversalOrder)
           top == path[k]
<1>1. /\ k \in Nat \ {0} /\ Last(path) = top /\ top \in Node
      /\ Len(path') = k - 1 /\ \A i \in 1..k - 1 : path'[i] = path[i]
      /\ path' \in Seq(Node)
  BY TopOfPath DEF LeaveBlock
<1>2. /\ N \in Nat /\ Len(traversalOrder') = N + 1
      /\ problem.direction = "forward" =>
           /\ traversalOrder'[1] = top
           /\ \A i \in 1..N : traversalOrder'[i + 1] = traversalOrder[i]
      /\ problem.direction # "forward" =>
           /\ traversalOrder'[N + 1] = top
           /\ \A i \in 1..N : traversalOrder'[i] = traversalOrder[i]
  BY <1>1, OrderGrows
<1>3. UNCHANGED problem /\ problem \in Problem
  BY DEF LeaveBlock, TypeOK
<1> HIDE DEF k, N
<1>4. /\ \A b : (\E i \in 1..N + 1 : traversalOrder'[i] = b)
               <=> b = top \/ \E i \in 1..N : traversalOrder[i] = b
  <2>1. 1 \in 1..N + 1 /\ N + 1 \in 1..N + 1 /\ \A i \in 1..N : i \in 1..N + 1 /\ i + 1 \in 1..N + 1
    BY <1>2
  <2>2. \A i \in 1..N + 1 : /\ i = 1 \/ (i - 1 \in 1..N /\ i - 1 + 1 = i)
                            /\ i = N + 1 \/ i \in 1..N
    BY <1>2
  <2>3. CASE problem.direction = "forward"
    <3>1. \A i \in 1..N + 1 : i = 1 \/ traversalOrder'[i] = traversalOrder[i - 1]
      BY <2>2, <2>3, <1>2
    <3>2. QED
      BY <3>1, <2>1, <2>2, <2>3, <1>2
  <2>4. CASE problem.direction # "forward"
    BY <2>1, <2>2, <2>4, <1>2
  <2>5. QED
    BY <2>3, <2>4
<1>5. \A i : i \in 1..k <=> i \in 1..k - 1 \/ i = k
  BY <1>1
<1>6. Seen' = Seen
  <2>1. \A b : b \in Seen' <=> \/ \E i \in 1..k - 1 : path[i] = b
                            \/ b = top \/ \E i \in 1..N : traversalOrder[i] = b
    <3>1. \A b : b \in Seen' <=> \/ \E i \in 1..k - 1 : path'[i] = b
                              \/ \E i \in 1..N + 1 : traversalOrder'[i] = b
      BY <1>1, <1>2 DEF Seen
    <3>2. QED
      BY <3>1, <1>1, <1>4
  <2>2. \A b : b \in Seen <=> \/ \E i \in 1..k : path[i] = b
                           \/ \E i \in 1..N : traversalOrder[i] = b
    BY DEF Seen, k, N
  <2>3. QED
    BY <2>1, <2>2, <1>5
<1>7. \A s \in problem.succs[top] : s \in Seen
  BY <1>1, SeenIsUnion DEF LeaveBlock, Unseen
<1>8. \A i \in 1..N + 1 : problem.succs[traversalOrder'[i]] \subseteq Seen'
  <2> SUFFICES ASSUME NEW i \in 1..N + 1, NEW s \in problem.succs[traversalOrder'[i]]
               PROVE  s \in Seen
    BY <1>6
  <2>1. traversalOrder'[i] = top \/ \E j \in 1..N : traversalOrder[j] = traversalOrder'[i]
    BY <1>4
  <2>2. QED
    BY <2>1, <1>7 DEF SearchInv, N
<1>9. \A i \in 1..k - 1 - 1 : path'[i + 1] \in problem.succs[path'[i]]
  <2> SUFFICES ASSUME NEW i \in 1..k - 1 - 1 PROVE path'[i + 1] \in problem.succs[path'[i]]
    OBVIOUS
  <2>1. i \in 1..k - 1 /\ i + 1 \in 1..k - 1
    BY <1>1
  <2>2. QED
    BY <2>1, <1>1 DEF SearchInv, k
<1>10. path' # <<>> => path'[1] = problem.entry
  <2> SUFFICES ASSUME path' # <<>> PROVE path'[1] = problem.entry
    OBVIOUS
  <2>1. k - 1 # 0
    BY <1>1, EmptySeq
  <2>2. 1 \in 1..k - 1
    BY <1>1, <2>1
  <2>3. QED
    BY <2>2, <1>1 DEF SearchInv, LeaveBlock
<1>11. problem.direction = "forward" /\ path' = <<>> =>
         N + 1 > 0 /\ traversalOrder'[1] = problem.entry
  <2> SUFFICES ASSUME problem.direction = "forward", path' = <<>>
               PROVE  N + 1 > 0 /\ traversalOrder'[1] = problem.entry
    OBVIOUS
  <2>1. k = 1
    BY <1>1
  <2>2. QED
    BY <2>1, <1>2 DEF SearchInv, LeaveBlock
<1>12. problem.direction # "forward" =>
         \A i \in 1..N + 1 :
           \A s \in problem.succs[traversalOrder'[i]] \cap problem.returns :
             \E j \in 1..i - 1 : traversalOrder'[j] = s
  <2> SUFFICES ASSUME problem.direction # "forward", NEW i \in 1..N + 1,
                      NEW s \in problem.succs[traversalOrder'[i]] \cap problem.returns
               PROVE  \E j \in 1..i - 1 : traversalOrder'[j] = s
    OBVIOUS
  <2>1. CASE i \in 1..N
    <3>1. traversalOrder'[i] = traversalOrder[i]
      BY <2>1, <1>2
    <3>2. PICK j \in 1..i - 1 : traversalOrder[j] = s
      BY <3>1, <2>1 DEF SearchInv, N
    <3>3. j \in 1..N
      BY <2>1, <1>2
    <3>4. QED
      BY <3>2, <3>3, <1>2
  <2>2. CASE i = N + 1
    <3>1. s \in problem.succs[top] /\ s \in Node /\ problem.succs[s] = {}
      BY <2>2, <1>1, <1>2, <1>3, ProblemType
    <3>2. ASSUME NEW l \in 1..k, path[l] = s PROVE FALSE
      <4>1. CASE l = k
        BY <4>1, <3>1, <3>2
      <4>2. CASE l # k
        <5>1. l \in 1..k - 1
          BY <4>2, <1>1
        <5>2. path[l + 1] \in problem.succs[path[l]]
          BY <5>1 DEF SearchInv, k
        <5>3. QED
          BY <5>2, <3>1, <3>2
      <4>3. QED
        BY <4>1, <4>2
    <3>3. PICK j \in 1..N : traversalOrder[j] = s
      BY <3>1, <3>2, <1>7 DEF Seen, k, N
    <3>4. QED
      BY <3>3, <2>2, <1>2
  <2>3. QED
    BY <2>1, <2>2, <1>2
<1>13. QED
  <2>1. Seen' \subseteq Reachable(problem)
    BY <1>6 DEF SearchInv
  <2>2. problem.entry \in Seen'
    BY <1>6 DEF SearchInv
  <2>3. QED
    BY <2>1, <2>2, <1>1, <1>2, <1>3, <1>8, <1>9, <1>10, <1>11, <1>12 DEF SearchInv

LEMMA SearchStep == TypeOK /\ SearchInv /\ [Next]_vars => SearchInv'
<1> SUFFICES ASSUME TypeOK, SearchInv, [Next]_vars PROVE SearchInv'
  OBVIOUS
<1>1. CASE VisitSuccessor
  BY <1>1, SearchVisit
<1>2. CASE LeaveBlock
  BY <1>2, SearchLeave
<1>3. CASE UNCHANGED <<problem, search>>
  <2>1. UNCHANGED <<problem, path, traversalOrder>>
    BY <1>3 DEF search
  <2>2. Seen' = Seen
    BY <2>1 DEF Seen
  <2>3. QED
    BY <2>1, <2>2 DEF SearchInv
<1>4. StartRound \/ ProcessBlock \/ EndRound \/ Return \/ Finish \/ UNCHANGED vars
        => UNCHANGED <<problem, search>>
  BY DEF StartRound, ProcessBlock, EndRound, Return, Finish, vars
<1>5. QED
  BY <1>1, <1>2, <1>3, <1>4 DEF Next

\* When the search is over the order has every reachable block and no other, and a
\* boundary block comes before every block that reads its output.
LEMMA SearchEnd ==
  ASSUME TypeOK, SearchInv, path = <<>>
  PROVE  /\ \A b \in Node : b \in Reachable(problem)
                             <=> \E i \in 1..Len(traversalOrder) : traversalOrder[i] = b
         /\ \A i \in 1..Len(traversalOrder) :
              \A n \in Neighbors(problem, traversalOrder[i]) \cap Boundary(problem) :
                \E j \in 1..i - 1 : traversalOrder[j] = n
<1>1. problem \in Problem /\ Len(path) = 0 /\ Len(traversalOrder) \in Nat
      /\ \A i \in 1..Len(traversalOrder) : traversalOrder[i] \in Node
  BY EmptySeq, LenProperties, ElementOfSeq DEF TypeOK
<1>2. \A b : b \in Seen <=> \E i \in 1..Len(traversalOrder) : traversalOrder[i] = b
  BY <1>1 DEF Seen
<1> DEFINE ns == Seen
<1>3. problem.entry \in ns /\ \A n \in ns : problem.succs[n] \subseteq ns
  BY <1>1, <1>2, ProblemType DEF SearchInv
<1>4. Reachable(problem) \subseteq ns
  <2>1. ns \in SUBSET Node
    BY <1>1 DEF SearchInv, Reachable
  <2> HIDE DEF ns
  <2>2. QED
    BY <1>1, <1>3, <2>1, ReachableClosed
<1>5. \A b \in Node : b \in Reachable(problem) <=> b \in Seen
  BY <1>4 DEF SearchInv
<1>6. ASSUME NEW i \in 1..Len(traversalOrder),
             NEW n \in Neighbors(problem, traversalOrder[i]) \cap Boundary(problem)
      PROVE  \E j \in 1..i - 1 : traversalOrder[j] = n
  <2>1. CASE problem.direction = "forward"
    <3>1. n = problem.entry /\ traversalOrder[1] = n
      BY <2>1 DEF Boundary, SearchInv
    <3>2. i # 1
      BY <1>1, <3>1, ProblemType, NeighborsType DEF Boundary
    <3>3. 1 \in 1..i - 1
      BY <1>1, <3>2
    <3>4. QED
      BY <3>1, <3>3
  <2>2. CASE problem.direction # "forward"
    BY <2>2 DEF Boundary, Neighbors, SearchInv
  <2>3. QED
    BY <2>1, <2>2
<1>7. QED
  BY <1>2, <1>5, <1>6

-----------------------------------------------------------------------------
(* The equations hold when run returns.                                    *)

Initial(b) == result[b] = InitialResult(problem, b)

\* What an analysis has sent to the neighbours of b once b has been processed, and
\* the output that it compares is the one that it reads.
Settled(b) ==
  /\ result[b].output = result[b].transferOutput.element
  /\ result[b].transferOutput.neighborVals = transferFn(problem, {}, b).neighborVals

\* Blocks change by being processed only; in a round that has changed nothing so far
\* the equations of the blocks processed in it hold.
RoundInv ==
  /\ \A b \in Node : Initial(b) \/ (Settled(b) /\ b \in Reachable(problem))
  /\ \A b \in Node : Neighbors(problem, b) = {} => result[b].input = Behind(problem, b)
  /\ \A i \in 1..BB - 1 : Settled(traversalOrder[i])
  /\ converged => \A i \in 1..BB - 1 :
       outputs[traversalOrder[i]] = Equation(problem, outputs, traversalOrder[i])
  /\ (pc = "while" /\ converged) \/ pc = "done" => converged /\ BB = Len(traversalOrder) + 1

\* What ProcessBlock computes is the right-hand side of the block's equation.
LEMMA OutIsEquation ==
  ASSUME TypeOK, RoundInv, ProcessBlock
  PROVE  Out = Equation(problem, outputs, Block)
<1>1. Block \in Node /\ problem \in Problem
  BY ProcessedBlock DEF TypeOK
<1>2. MeetInputs(problem, outputs, Block) = {} => result[Block].input = Behind(problem, Block)
  BY <1>1, OutputsType, MeetType DEF RoundInv
<1>3. QED
  BY <1>2 DEF Out, Input, Equation, Behind

LEMMA RoundInit == Init => RoundInv
<1> SUFFICES ASSUME Init PROVE RoundInv
  OBVIOUS
<1>1. \A b \in Node : result[b] = InitialResult(problem, b)
  BY DEF Init
<1>2. problem \in Problem
  BY ProblemsAssumption DEF Init
<1>3. \A b \in Node : result[b].input = Behind(problem, b)
  <2>1. \A b \in Node : InitialResult(problem, b).input = Behind(problem, b)
    BY Zenon DEF InitialResult, Behind
  <2>2. QED
    BY <1>1, <2>1
<1>4. BB = 1 /\ pc = "while" /\ ~converged
  BY DEF Init
<1>5. QED
  BY <1>1, <1>3, <1>4 DEF RoundInv, Initial

\* An output that compares equal to the last one is the last one, unless the block is
\* a boundary block that has not been processed before.
LEMMA NoChange ==
  ASSUME TypeOK, RoundInv, ProcessBlock, ~Changed(result[Block], Out),
         Settled(Block) \/ Block \notin Boundary(problem)
  PROVE  outputs' = outputs
<1> DEFINE old == result[Block]
<1>1. /\ Block \in Node /\ problem \in Problem /\ Out \in TransferOutput
      /\ old \in BlockResult
      /\ Out.neighborVals = transferFn(problem, {}, Block).neighborVals
      /\ outputs' = [outputs EXCEPT ![Block] = Out]
  BY ProcessedBlock DEF TypeOK
<1>2. /\ old.transferOutput \in TransferOutput
      /\ outputs \in [Node -> TransferOutput] /\ outputs[Block] = old.transferOutput
  BY <1>1, OutputsType DEF BlockResult, outputs
<1>3. /\ Out.element = old.output
      /\ Cardinality(DOMAIN Out.neighborVals) =
           Cardinality(DOMAIN old.transferOutput.neighborVals)
  BY DEF Changed
<1>4. CASE Settled(Block)
  <2>1. Out.element = old.transferOutput.element
    BY <1>3, <1>4 DEF Settled
  <2>2. Out.neighborVals = old.transferOutput.neighborVals
    BY <1>1, <1>4 DEF Settled
  <2>3. Out = old.transferOutput
    BY <1>1, <1>2, <2>1, <2>2, OutputType
  <2>4. QED
    BY <1>1, <1>2, <2>3
<1>5. CASE ~Settled(Block)
  <2>1. old = InitialResult(problem, Block) /\ Block \notin Boundary(problem)
    BY <1>1, <1>5 DEF RoundInv, Initial
  <2>2. old.output = old.transferOutput.element /\ old.transferOutput.neighborVals = <<>>
    BY <2>1 DEF InitialResult
  <2>3. DOMAIN <<>> = {}
    BY EmptyNeighborVals
  <2>4. Cardinality(DOMAIN Out.neighborVals) = 0
    BY <1>3, <2>2, <2>3, FS_EmptySet
  <2>5. Out.neighborVals = <<>>
    BY <1>1, <2>4, NoNeighborVals
  <2>6. Out = old.transferOutput
    BY <1>1, <1>2, <1>3, <2>2, <2>5, OutputType
  <2>7. QED
    BY <1>1, <1>2, <2>6
<1>6. QED
  BY <1>4, <1>5

LEMMA RoundProcess ==
  ASSUME TypeOK, SearchInv, RoundInv, ProcessBlock
  PROVE  RoundInv'
<1> DEFINE b == Block
<1>1. /\ BB \in 1..Len(traversalOrder) /\ b = traversalOrder[BB]
      /\ b \in Node /\ problem \in Problem /\ Out \in TransferOutput
      /\ result' = [result EXCEPT ![b] = NewResult]
      /\ outputs' = [outputs EXCEPT ![b] = Out]
      /\ converged' = (converged /\ ~Changed(result[b], Out))
      /\ BB' = BB + 1 /\ pc = "for" /\ pc' = "for"
      /\ problem' = problem /\ traversalOrder' = traversalOrder
      /\ path = <<>>
  BY ProcessedBlock DEF TypeOK, search, Block
<1>2. /\ result \in [Node -> BlockResult] /\ outputs \in [Node -> TransferOutput]
      /\ Len(traversalOrder) \in Nat
      /\ \A i \in 1..Len(traversalOrder) : traversalOrder[i] \in Node
  BY OutputsType, LenProperties, ElementOfSeq DEF TypeOK
<1>3. /\ result'[b] = NewResult /\ outputs'[b] = Out
      /\ \A n \in Node : n # b => result'[n] = result[n] /\ outputs'[n] = outputs[n]
  BY <1>1, <1>2
<1>4. /\ NewResult.output = NewResult.transferOutput.element
      /\ NewResult.transferOutput.neighborVals = transferFn(problem, {}, b).neighborVals
  BY ProcessedBlock DEF NewResult
<1>5. b \in Reachable(problem)
  BY <1>1, SearchEnd
<1>6. \A i \in 1..BB' - 1 : i \in 1..Len(traversalOrder) /\ (i \in 1..BB - 1 \/ i = BB)
  BY <1>1, <1>2
<1> HIDE DEF b
<1>7. \A n \in Node : \/ result'[n] = InitialResult(problem', n)
                      \/ /\ result'[n].output = result'[n].transferOutput.element
                         /\ result'[n].transferOutput.neighborVals =
                              transferFn(problem', {}, n).neighborVals
                         /\ n \in Reachable(problem')
  <2> SUFFICES ASSUME NEW n \in Node
               PROVE  \/ result'[n] = InitialResult(problem, n)
                      \/ /\ result'[n].output = result'[n].transferOutput.element
                         /\ result'[n].transferOutput.neighborVals =
                              transferFn(problem, {}, n).neighborVals
                         /\ n \in Reachable(problem)
    BY <1>1
  <2>1. CASE n = b
    BY <2>1, <1>3, <1>4, <1>5
  <2>2. CASE n # b
    BY <2>2, <1>3 DEF RoundInv, Initial, Settled
  <2>3. QED
    BY <2>1, <2>2
<1>8. \A n \in Node : Neighbors(problem', n) = {} => result'[n].input = Behind(problem', n)
  <2> SUFFICES ASSUME NEW n \in Node, Neighbors(problem, n) = {}
               PROVE  result'[n].input = Behind(problem, n)
    BY <1>1
  <2>1. result[n].input = Behind(problem, n)
    BY DEF RoundInv
  <2>2. CASE n = b
    <3>1. NewResult.input = result[b].input
      BY <1>1, <2>2, OutputsType, MeetType DEF NewResult, Input, b
    <3>2. QED
      BY <3>1, <2>1, <2>2, <1>3
  <2>3. CASE n # b
    BY <2>1, <2>3, <1>3
  <2>4. QED
    BY <2>2, <2>3
<1>9. \A i \in 1..BB' - 1 :
        LET n == traversalOrder'[i] IN
        /\ result'[n].output = result'[n].transferOutput.element
        /\ result'[n].transferOutput.neighborVals = transferFn(problem', {}, n).neighborVals
  <2> SUFFICES ASSUME NEW i \in 1..BB' - 1, NEW n, n = traversalOrder[i]
               PROVE  /\ result'[n].output = result'[n].transferOutput.element
                      /\ result'[n].transferOutput.neighborVals =
                           transferFn(problem, {}, n).neighborVals
    BY <1>1
  <2>1. n \in Node
    BY <1>2, <1>6
  <2>2. CASE n = b
    BY <2>2, <1>3, <1>4
  <2>3. CASE n # b
    BY <2>1, <2>3, <1>1, <1>3, <1>6 DEF RoundInv, Settled
  <2>4. QED
    BY <2>2, <2>3
<1>10. ASSUME converged', NEW i \in 1..BB' - 1
       PROVE  outputs'[traversalOrder[i]] = Equation(problem, outputs', traversalOrder[i])
  <2>1. converged /\ ~Changed(result[b], Out)
    BY <1>1, <1>10
  <2>2. \A j \in 1..BB - 1 :
          outputs[traversalOrder[j]] = Equation(problem, outputs, traversalOrder[j])
    BY <2>1 DEF RoundInv
  <2>3. Out = Equation(problem, outputs, b)
    BY OutIsEquation DEF b
  <2>4. CASE Settled(b) \/ b \notin Boundary(problem)
    <3>1. outputs' = outputs
      BY <2>1, <2>4, NoChange DEF b
    <3>2. QED
      BY <3>1, <2>2, <2>3, <1>1, <1>3, <1>6
  <2>5. CASE ~Settled(b) /\ b \in Boundary(problem)
    <3>1. \A n \in Node : b \notin Neighbors(problem, n) =>
             Equation(problem, outputs', n) = Equation(problem, outputs, n)
      BY <1>1, <1>3, NeighborsType, EquationLocal
    <3>2. CASE i = BB
      <4>1. b \notin Neighbors(problem, b)
        BY <2>5, <1>1, NeighborsType
      <4>2. QED
        BY <4>1, <3>1, <3>2, <2>3, <1>1, <1>3
    <3>3. CASE i \in 1..BB - 1
      <4>1. traversalOrder[i] # b /\ traversalOrder[i] \in Node
        BY <3>3, <2>5, <1>2, <1>6 DEF RoundInv
      <4>2. ASSUME b \in Neighbors(problem, traversalOrder[i]) PROVE FALSE
        <5>1. PICK j \in 1..i - 1 : traversalOrder[j] = b
          BY <4>2, <2>5, <1>1, <1>6, SearchEnd
        <5>2. j \in 1..BB - 1
          BY <3>3, <1>1
        <5>3. QED
          BY <5>1, <5>2, <2>5 DEF RoundInv
      <4>3. QED
        BY <4>1, <4>2, <3>1, <3>3, <2>2, <1>3
    <3>4. QED
      BY <3>2, <3>3, <1>6
  <2>6. QED
    BY <2>4, <2>5
<1>11. QED
  BY <1>1, <1>7, <1>8, <1>9, <1>10 DEF RoundInv, Initial, Settled

LEMMA RoundStep == TypeOK /\ SearchInv /\ RoundInv /\ [Next]_vars => RoundInv'
<1> SUFFICES ASSUME TypeOK, SearchInv, RoundInv, [Next]_vars PROVE RoundInv'
  OBVIOUS
<1>1. UNCHANGED <<problem, result>> =>
        /\ outputs' = outputs
        /\ \A b \in Node : Initial(b)' <=> Initial(b)
        /\ \A b : Settled(b)' <=> Settled(b)
  BY DEF outputs, Initial, Settled
<1>2. CASE VisitSuccessor \/ LeaveBlock
  <2>1. UNCHANGED <<problem, result, BB, converged, pc>> /\ path # <<>>
    BY <1>2 DEF VisitSuccessor, LeaveBlock
  <2>2. BB = 1 /\ ~converged /\ pc = "while"
    BY <2>1 DEF TypeOK
  <2>3. \A i \in 1..BB' - 1 : FALSE
    BY <2>1, <2>2
  <2>4. QED
    BY <1>1, <2>1, <2>2, <2>3 DEF RoundInv
<1>3. CASE StartRound
  <2>1. UNCHANGED <<problem, result>> /\ BB' = 1 /\ pc' = "for"
    BY <1>3 DEF StartRound
  <2>2. \A i \in 1..BB' - 1 : FALSE
    BY <2>1
  <2>3. QED
    BY <1>1, <2>1, <2>2 DEF RoundInv
<1>4. CASE ProcessBlock
  BY <1>4, RoundProcess
<1>5. CASE EndRound
  <2>1. /\ UNCHANGED <<problem, traversalOrder, result, BB, converged>>
        /\ pc' = "while" /\ BB > Len(traversalOrder)
    BY <1>5 DEF EndRound, search
  <2>2. BB = Len(traversalOrder) + 1
    BY <2>1, LenProperties DEF TypeOK
  <2>3. QED
    BY <1>1, <2>1, <2>2 DEF RoundInv
<1>6. CASE Return
  <2>1. /\ UNCHANGED <<problem, traversalOrder, result, BB, converged>>
        /\ pc = "while" /\ converged
    BY <1>6 DEF Return, search
  <2>2. QED
    BY <1>1, <2>1 DEF RoundInv
<1>7. CASE Finish \/ UNCHANGED vars
  <2>1. UNCHANGED <<problem, traversalOrder, result, BB, converged, pc>>
    BY <1>7 DEF Finish, vars, search
  <2>2. QED
    BY <1>1, <2>1 DEF RoundInv
<1>8. QED
  BY <1>2, <1>3, <1>4, <1>5, <1>6, <1>7 DEF Next

THEOREM RoundInvariant == Spec => [](TypeOK /\ SearchInv /\ RoundInv)
<1>1. Init => TypeOK /\ SearchInv /\ RoundInv
  BY TypeInit, SearchInit, RoundInit
<1>2. TypeOK /\ SearchInv /\ RoundInv /\ [Next]_vars => (TypeOK /\ SearchInv /\ RoundInv)'
  BY TypeStep, SearchStep, RoundStep
<1>3. QED
  BY <1>1, <1>2, PTL DEF Spec

LEMMA SolverInit == Init => Solver!Init
<1> SUFFICES ASSUME Init PROVE Solver!Init
  OBVIOUS
<1>1. TypeOK
  BY TypeInit
<1>2. pc = "while"
  BY DEF Init
<1>3. QED
  BY <1>1, <1>2, OutputsType DEF Solver!Init, TypeOK

LEMMA SolverStep ==
  ASSUME TypeOK, SearchInv, RoundInv, [Next]_vars
  PROVE  [Solver!Next]_Solver!vars
<1>1. CASE ProcessBlock
  <2>1. Block \in Reachable(problem)
    <3>1. path = <<>>
      BY <1>1, ProcessedBlock DEF TypeOK
    <3>2. QED
      BY <1>1, <3>1, ProcessedBlock, SearchEnd DEF Block
  <2>2. /\ outputs' = [outputs EXCEPT ![Block] = Equation(problem, outputs, Block)]
        /\ UNCHANGED problem /\ pc = "for" /\ pc' = "for"
    BY <1>1, ProcessedBlock, OutIsEquation
  <2>3. Solver!Apply(Block)
    BY <2>2 DEF Solver!Apply
  <2>4. QED
    BY <2>1, <2>3 DEF Solver!Next
<1>2. CASE Return
  <2>1. /\ UNCHANGED <<problem, outputs>> /\ pc = "while" /\ pc' = "done" /\ converged
    BY <1>2 DEF Return, outputs
  <2>2. path = <<>> /\ BB = Len(traversalOrder) + 1 /\ Len(traversalOrder) \in Nat
    BY <2>1, LenProperties DEF TypeOK, RoundInv
  <2>3. \A b \in Reachable(problem) : outputs[b] = Equation(problem, outputs, b)
    <3> SUFFICES ASSUME NEW b \in Reachable(problem)
                 PROVE  outputs[b] = Equation(problem, outputs, b)
      OBVIOUS
    <3>1. PICK i \in 1..Len(traversalOrder) : traversalOrder[i] = b
      BY <2>2, SearchEnd DEF Reachable
    <3>2. i \in 1..BB - 1
      BY <2>2
    <3>3. QED
      BY <2>1, <3>1, <3>2 DEF RoundInv
  <2>4. QED
    BY <2>1, <2>3 DEF Solver!Return, Solver!Solved, Solver!Next
<1>3. CASE UNCHANGED <<problem, result>> /\ (pc' = "done") = (pc = "done")
  <2>1. outputs' = outputs
    BY <1>3 DEF outputs
  <2>2. QED
    BY <1>3, <2>1 DEF Solver!vars
<1>4. VisitSuccessor \/ LeaveBlock \/ StartRound \/ EndRound \/ Finish \/ UNCHANGED vars
        => UNCHANGED <<problem, result>> /\ (pc' = "done") = (pc = "done")
  BY DEF VisitSuccessor, LeaveBlock, StartRound, EndRound, Finish, vars
<1>5. QED
  BY <1>1, <1>2, <1>3, <1>4 DEF Next

\* run solves the data flow equations by chaotic iteration: it applies one of them at
\* a time, and returns only when those of all reachable blocks hold, whatever the
\* analysis, the function and the order of the search.
THEOREM SolvesEquations == Spec => Solves
<1>1. TypeOK /\ SearchInv /\ RoundInv /\ [Next]_vars => [Solver!Next]_Solver!vars
  BY SolverStep
<1>2. QED
  BY <1>1, SolverInit, RoundInvariant, PTL DEF Spec, Solves, Solver!Spec

-----------------------------------------------------------------------------
(* The solution is the best one.                                           *)

Neutral == problem.initCond = applyMeetOp(problem, {})

\* The output of b is no worse than in the solution e, and is complete.
Good(e, b) ==
  /\ AtLeastAsGood(problem, result[b].transferOutput.element, e[b])
  /\ result[b].transferOutput.neighborVals = transferFn(problem, {}, b).neighborVals

\* Only a block that has not been processed may have something else.
BestInv ==
  Monotone /\ Neutral =>
    \A e \in Solutions(problem) :
      /\ \A b \in Reachable(problem) : Initial(b) \/ Good(e, b)
      /\ \A i \in 1..BB - 1 : Good(e, traversalOrder[i])

\* Meet is monotone, and so is what a block sends.
LEMMA MeetMonotone ==
  ASSUME NEW p \in Problem, NEW b \in Node,
         NEW o1 \in [Node -> TransferOutput], NEW o2 \in [Node -> TransferOutput],
         \A n \in Neighbors(p, b) : AtLeastAsGood(p, Sent(o1[n], b), Sent(o2[n], b))
  PROVE  AtLeastAsGood(p, applyMeetOp(p, MeetInputs(p, o1, b)), applyMeetOp(p, MeetInputs(p, o2, b)))
BY DEF AtLeastAsGood, applyMeetOp, MeetInputs

LEMMA BestInit == Init => BestInv
<1> SUFFICES ASSUME Init PROVE BestInv
  OBVIOUS
<1>1. \A b \in Node : result[b] = InitialResult(problem, b)
  BY DEF Init
<1>2. \A i \in 1..BB - 1 : FALSE
  BY DEF Init
<1>3. QED
  BY <1>1, <1>2 DEF BestInv, Initial, Reachable

\* What a block reads from a neighbour is no worse than in a solution: the neighbour
\* has been processed, or still has the neutral element and sends nothing more, or is
\* never processed.
LEMMA ReadGood ==
  ASSUME TypeOK, SearchInv, RoundInv, BestInv, ProcessBlock, Monotone, Neutral,
         NEW e \in Solutions(problem), NEW n \in Neighbors(problem, Block)
  PROVE  AtLeastAsGood(problem, Sent(outputs[n], Block), Sent(OutputsOf(problem, e)[n], Block))
<1>1. /\ problem \in Problem /\ Block \in Node /\ n \in Node
      /\ BB \in 1..Len(traversalOrder) /\ path = <<>>
  BY ProcessedBlock, NeighborsType DEF TypeOK
<1>2. outputs[n] = result[n].transferOutput /\ outputs[n] \in TransferOutput
  BY <1>1, OutputsType DEF outputs
<1>3. e \in [Node -> BitVector]
  BY DEF Solutions
<1>4. CASE n \notin Reachable(problem)
  <2>1. outputs[n] = OutputsOf(problem, e)[n]
    BY <1>1, <1>2, <1>4 DEF RoundInv, Initial, OutputsOf
  <2>2. QED
    BY <2>1 DEF AtLeastAsGood
<1>5. CASE n \in Reachable(problem)
  <2>1. OutputsOf(problem, e)[n] =
          [element |-> e[n], neighborVals |-> transferFn(problem, {}, n).neighborVals]
    BY <1>1, <1>5 DEF OutputsOf
  <2>2. CASE Good(e, n)
    BY <1>2, <2>1, <2>2 DEF Good, AtLeastAsGood, Sent
  <2>3. CASE ~Good(e, n)
    <3>1. result[n] = InitialResult(problem, n)
      BY <1>5, <2>3 DEF BestInv, Initial
    <3>2. n \notin Boundary(problem)
      <4> SUFFICES ASSUME n \in Boundary(problem) PROVE FALSE
        OBVIOUS
      <4>1. PICK j \in 1..BB - 1 : traversalOrder[j] = n
        BY <1>1, SearchEnd DEF Block
      <4>2. QED
        BY <4>1, <2>3 DEF BestInv
    <3>3. outputs[n].element = applyMeetOp(problem, {}) /\ outputs[n].neighborVals = <<>>
      BY <3>1, <3>2, <1>2 DEF InitialResult, Neutral
    <3>4. Sent(outputs[n], Block) = applyMeetOp(problem, {})
      BY <3>3, EmptyNeighborVals DEF Sent
    <3>5. Sent(OutputsOf(problem, e)[n], Block) \subseteq Bit
      <4>1. OutputsOf(problem, e)[n] \in TransferOutput
        BY <1>1, <1>3, <2>1, TransferType, OutputType DEF TransferOutput, BitVector
      <4>2. QED
        BY <4>1, SentType DEF BitVector
    <3>6. QED
      BY <3>4, <3>5 DEF AtLeastAsGood, applyMeetOp
  <2>4. QED
    BY <2>2, <2>3
<1>6. QED
  BY <1>4, <1>5

LEMMA BestProcess ==
  ASSUME TypeOK, SearchInv, RoundInv, BestInv, ProcessBlock
  PROVE  BestInv'
<1> DEFINE b == Block
<1>1. /\ BB \in 1..Len(traversalOrder) /\ b = traversalOrder[BB]
      /\ b \in Node /\ problem \in Problem /\ Out \in TransferOutput
      /\ Out.neighborVals = transferFn(problem, {}, b).neighborVals
      /\ result' = [result EXCEPT ![b] = NewResult] /\ NewResult.transferOutput = Out
      /\ BB' = BB + 1
      /\ problem' = problem /\ traversalOrder' = traversalOrder
      /\ path = <<>>
  BY ProcessedBlock DEF TypeOK, search, Block, NewResult
<1>2. /\ result \in [Node -> BlockResult] /\ outputs \in [Node -> TransferOutput]
      /\ Len(traversalOrder) \in Nat
      /\ \A i \in 1..Len(traversalOrder) : traversalOrder[i] \in Node
  BY OutputsType, LenProperties, ElementOfSeq DEF TypeOK
<1>3. b \in Reachable(problem)
  BY <1>1, SearchEnd
<1>4. \A i \in 1..BB' - 1 : i \in 1..Len(traversalOrder) /\ (i \in 1..BB - 1 \/ i = BB)
  BY <1>1, <1>2
<1>5. SUFFICES ASSUME Monotone, Neutral, NEW e \in Solutions(problem)
               PROVE  /\ \A n \in Reachable(problem) : Initial(n)' \/ Good(e, n)'
                      /\ \A i \in 1..BB' - 1 : Good(e, traversalOrder[i])'
  BY <1>1 DEF BestInv, Neutral
<1> DEFINE sol == OutputsOf(problem, e)
<1>6. sol \in [Node -> TransferOutput] /\ sol[b].element = e[b]
  <2>1. \A n \in Node : /\ [element |-> e[n],
                            neighborVals |-> transferFn(problem, {}, n).neighborVals] \in TransferOutput
                         /\ InitialResult(problem, n).transferOutput \in TransferOutput
    BY <1>1, TransferType, OutputType, InitialType
       DEF Solutions, TransferOutput, BitVector, BlockResult
  <2>2. QED
    BY <1>1, <1>3, <2>1 DEF OutputsOf
<1>7. e[b] = Equation(problem, sol, b).element
  <2>1. sol[b] = Equation(problem, sol, b)
    BY <1>3 DEF Solutions
  <2>2. QED
    BY <1>6, <2>1
<1>8. AtLeastAsGood(problem, Out.element, e[b])
  <2> DEFINE read == MeetInputs(problem, outputs, b)
             want == MeetInputs(problem, sol, b)
  <2>1. (read = {} <=> Neighbors(problem, b) = {}) /\ (want = {} <=> Neighbors(problem, b) = {})
        /\ (read # {} => applyMeetOp(problem, read) \in BitVector)
        /\ (want # {} => applyMeetOp(problem, want) \in BitVector)
    BY <1>1, <1>2, <1>6, MeetType
  <2>2. Out = Equation(problem, outputs, b)
    BY OutIsEquation
  <2>3. CASE Neighbors(problem, b) = {}
    <3>1. Equation(problem, outputs, b) = Equation(problem, sol, b)
      BY <1>1, <2>3, EquationLocal
    <3>2. QED
      BY <3>1, <2>2, <1>7 DEF AtLeastAsGood
  <2>4. CASE Neighbors(problem, b) # {}
    <3>1. AtLeastAsGood(problem, applyMeetOp(problem, read), applyMeetOp(problem, want))
      BY <1>1, <1>2, <1>5, <1>6, ReadGood, MeetMonotone
    <3>2. /\ Out.element = Transfer(problem.code[b], applyMeetOp(problem, read)).element
          /\ e[b] = Transfer(problem.code[b], applyMeetOp(problem, want)).element
      BY <1>7, <2>1, <2>2, <2>4 DEF Equation, transferFn
    <3>3. problem.code[b] \in Code
      BY <1>1, ProblemType
    <3> HIDE DEF read, want
    <3>4. QED
      BY <1>5, <2>1, <2>4, <3>1, <3>2, <3>3 DEF Monotone, AtLeastAsGood
  <2>5. QED
    BY <2>3, <2>4
<1> HIDE DEF b, sol
<1>9. /\ result'[b].transferOutput = Out
      /\ \A n \in Node : n # b => result'[n] = result[n]
  BY <1>1, <1>2
<1>10. \A n \in Reachable(problem) : Initial(n)' \/ Good(e, n)'
  <2> SUFFICES ASSUME NEW n \in Reachable(problem) PROVE Initial(n)' \/ Good(e, n)'
    OBVIOUS
  <2>1. CASE n = b
    BY <1>1, <1>8, <1>9, <2>1 DEF Good
  <2>2. CASE n # b
    <3>1. result'[n] = result[n] /\ (Initial(n) \/ Good(e, n))
      BY <1>5, <1>9, <2>2 DEF BestInv, Reachable
    <3>2. QED
      BY <1>1, <3>1 DEF Initial, Good
  <2>3. QED
    BY <2>1, <2>2
<1>11. \A i \in 1..BB' - 1 : Good(e, traversalOrder[i])'
  <2> SUFFICES ASSUME NEW i \in 1..BB' - 1, NEW n, n = traversalOrder[i]
               PROVE  /\ AtLeastAsGood(problem, result'[n].transferOutput.element, e[n])
                      /\ result'[n].transferOutput.neighborVals =
                           transferFn(problem, {}, n).neighborVals
    BY <1>1 DEF Good
  <2>1. CASE n = b
    BY <1>1, <1>8, <1>9, <2>1
  <2>2. CASE n # b
    BY <1>1, <1>2, <1>4, <1>5, <1>9, <2>2 DEF BestInv, Good
  <2>3. QED
    BY <2>1, <2>2
<1>12. QED
  BY <1>10, <1>11

LEMMA BestStep == TypeOK /\ SearchInv /\ RoundInv /\ BestInv /\ [Next]_vars => BestInv'
<1> SUFFICES ASSUME TypeOK, SearchInv, RoundInv, BestInv, [Next]_vars PROVE BestInv'
  OBVIOUS
<1>1. ASSUME UNCHANGED <<problem, result>>,
             \A i \in 1..BB' - 1 : i \in 1..BB - 1 /\ traversalOrder'[i] = traversalOrder[i]
      PROVE  BestInv'
  BY <1>1 DEF BestInv, Initial, Good, Neutral
<1>2. CASE VisitSuccessor \/ LeaveBlock
  <2>1. UNCHANGED <<problem, result, BB>> /\ path # <<>>
    BY <1>2 DEF VisitSuccessor, LeaveBlock
  <2>2. \A i \in 1..BB' - 1 : FALSE
    BY <2>1 DEF TypeOK
  <2>3. QED
    BY <1>1, <2>1, <2>2
<1>3. CASE StartRound
  <2>1. UNCHANGED <<problem, result>> /\ BB' = 1
    BY <1>3 DEF StartRound
  <2>2. \A i \in 1..BB' - 1 : FALSE
    BY <2>1
  <2>3. QED
    BY <1>1, <2>1, <2>2
<1>4. CASE ProcessBlock
  BY <1>4, BestProcess
<1>5. CASE EndRound \/ Return \/ Finish \/ UNCHANGED vars
  <2>1. UNCHANGED <<problem, traversalOrder, result, BB>>
    BY <1>5 DEF EndRound, Return, Finish, vars, search
  <2>2. QED
    BY <1>1, <2>1
<1>6. QED
  BY <1>2, <1>3, <1>4, <1>5 DEF Next

LEMMA BestEnd == TypeOK /\ SearchInv /\ RoundInv /\ BestInv => BestSolution
<1> SUFFICES ASSUME TypeOK, SearchInv, RoundInv, BestInv,
                    pc = "done", Monotone, Neutral,
                    NEW e \in Solutions(problem), NEW b \in Reachable(problem)
             PROVE  AtLeastAsGood(problem, outputs[b].element, e[b])
  BY DEF BestSolution, Neutral
<1>1. path = <<>> /\ BB = Len(traversalOrder) + 1 /\ Len(traversalOrder) \in Nat
  BY LenProperties DEF TypeOK, RoundInv
<1>2. PICK i \in 1..Len(traversalOrder) : traversalOrder[i] = b
  BY <1>1, SearchEnd DEF Reachable
<1>3. i \in 1..BB - 1
  BY <1>1
<1>4. QED
  BY <1>2, <1>3 DEF BestInv, Good, outputs, Reachable

\* What run returns is the best solution of the equations, for every monotone
\* analysis that starts from the neutral element of its meet.
THEOREM FindsBestSolution == Spec => []BestSolution
<1>1. Init => TypeOK /\ SearchInv /\ RoundInv /\ BestInv
  BY TypeInit, SearchInit, RoundInit, BestInit
<1>2. TypeOK /\ SearchInv /\ RoundInv /\ BestInv /\ [Next]_vars
        => (TypeOK /\ SearchInv /\ RoundInv /\ BestInv)'
  BY TypeStep, SearchStep, RoundStep, BestStep
<1>3. QED
  BY <1>1, <1>2, BestEnd, PTL DEF Spec
=============================================================================
