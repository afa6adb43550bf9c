-------------------------- MODULE BasicBlockProofs --------------------------
(***************************************************************************)
(* Whatever block runs, on whatever machine integers: the signs the flow   *)
(* functions compute cover the values the machine computes.                *)
(***************************************************************************)
EXTENDS BasicBlock, SignAnalysisProofs

LEMMA InstructionType ==
  ASSUME TypeOK, Goes
  PROVE  insn \in Instruction
<1>1. block \in Seq(Instruction) /\ pc \in 1..Len(block)
  BY BlocksAssumption DEF TypeOK, Goes
<1>2. QED
  BY <1>1, ElementOfSeq DEF insn

-----------------------------------------------------------------------------
\* The types of the lockstep run.
THEOREM TypeCorrect == Spec => []TypeOK
<1>1. Init => TypeOK
  <2> SUFFICES ASSUME Init
               PROVE  TypeOK
    OBVIOUS
  <2>1. Len(block) \in Nat
    BY BlocksAssumption DEF Init
  <2>2. pc \in 1..Len(block) + 1
    BY <2>1 DEF Init
  <2>3. out_value \in Values
    BY DEF Init
  <2>4. QED
    BY <2>2, <2>3 DEF Init, TypeOK
<1>2. TypeOK /\ [Next]_vars => TypeOK'
  <2> SUFFICES ASSUME TypeOK, [Next]_vars
               PROVE  TypeOK'
    OBVIOUS
  <2>0. block \in Seq(Instruction) /\ Len(block) \in Nat
    BY BlocksAssumption DEF TypeOK
  <2>1. CASE Compute
    <3>1. insn \in Instruction
      BY <2>1, InstructionType DEF Compute
    <3>2. out_value' \in Values
      BY <2>1, <3>1, NormalFlowType DEF Compute, TypeOK
    <3>3. store' \in [Name -> Stored]
      BY <2>1, <3>1, InstructionOperands, NameAssumption DEF Compute, TypeOK, Defines
    <3>4. QED
      BY <2>0, <2>1, <3>2, <3>3 DEF Compute, TypeOK, Goes
  <2>2. CASE Branch
    BY <2>0, <2>2 DEF Branch, TypeOK, Goes, normalFlow
  <2>3. CASE Call
    <3>1. insn.def \in Name
      BY <2>3, InstructionType, InstructionOperands DEF Call
    <3>2. PICK v \in Stored : \E s \in {t \in SIGN : SignCovers(v, t)} :
            /\ store' = [store EXCEPT ![insn.def] = v]
            /\ out_value' = meet(out_value, callExitFlowFunction(insn, [topValue EXCEPT ![RETURN] = s]))
      BY <2>3 DEF Call
    <3>3. PICK s \in SIGN :
            out_value' = meet(out_value, callExitFlowFunction(insn, [topValue EXCEPT ![RETURN] = s]))
      BY <3>2
    <3>4. callExitFlowFunction(insn, [topValue EXCEPT ![RETURN] = s]) \in Values
      BY <3>1, <3>3, NameAssumption, AbsentIsNoSign
         DEF callExitFlowFunction, topValue, Values
    <3>5. out_value' \in Values
      BY <3>3, <3>4, MeetType DEF TypeOK
    <3>6. store' \in [Name -> Stored]
      BY <3>1, <3>2 DEF TypeOK
    <3>7. QED
      BY <2>0, <2>3, <3>5, <3>6 DEF Call, TypeOK, Goes
  <2>4. CASE MissingOperand
    BY <2>4 DEF MissingOperand, TypeOK
  <2>5. CASE UNCHANGED vars
    BY <2>5 DEF vars, TypeOK
  <2>6. QED
    BY <2>1, <2>2, <2>3, <2>4, <2>5 DEF Next
<1>3. QED
  BY <1>1, <1>2, PTL DEF Spec

\* For every set of blocks and every machine word: the signs computed by
\* normalFlowFunction and by the exit of a call cover the machine's values.
THEOREM SignsSound == Spec => []Sound
<1>1. Init => Sound
  BY DEF Init, Sound
<1>2. TypeOK /\ TypeOK' /\ Sound /\ [Next]_vars => Sound'
  <2> SUFFICES ASSUME TypeOK, TypeOK', Sound, [Next]_vars
               PROVE  Sound'
    OBVIOUS
  <2>0. store \in Stores /\ IsMap(out_value)
    BY StoredIsStore DEF TypeOK, Values, IsMap
  <2>1. CASE Compute
    <3>1. insn \in Instruction
      BY <2>1, InstructionType DEF Compute
    <3>2. PICK v \in Results(insn, store) \cap Stored :
            store' = [store EXCEPT ![Defines(insn)] = v]
      BY <2>1 DEF Compute
    <3>3. v \in Int \cup {Undef}
      BY RepresentableAssumption DEF Stored
    <3>4. Covers(store', normalFlow(insn, out_value))
      BY <2>0, <2>1, <3>1, <3>2, <3>3, InstructionCovered DEF Compute, Sound
    <3>5. QED
      BY <2>1, <3>4 DEF Compute, Sound
  <2>2. CASE Branch
    BY <2>2 DEF Branch, normalFlow, Sound
  <2>3. CASE Call
    <3>1. insn \in Instruction
      BY <2>3, InstructionType DEF Call
    <3>2. PICK v \in Stored : \E t \in {u \in SIGN : SignCovers(v, u)} :
            /\ store' = [store EXCEPT ![insn.def] = v]
            /\ out_value' = meet(out_value, callExitFlowFunction(insn, [topValue EXCEPT ![RETURN] = t]))
      BY <2>3 DEF Call
    <3>3. PICK t \in SIGN :
            /\ SignCovers(v, t)
            /\ out_value' = meet(out_value, callExitFlowFunction(insn, [topValue EXCEPT ![RETURN] = t]))
      BY <3>2
    <3>4. [topValue EXCEPT ![RETURN] = t][RETURN] = t /\ v \in Int \cup {Undef}
      BY NameAssumption, RepresentableAssumption DEF topValue, Stored
    <3> DEFINE exit == [topValue EXCEPT ![RETURN] = t]
    <3>5. SignCovers(v, exit[RETURN])
      BY <3>3, <3>4
    <3> HIDE DEF exit
    <3>6. Covers([store EXCEPT ![insn.def] = v], meet(out_value, callExitFlowFunction(insn, exit)))
      BY <2>0, <3>1, <3>4, <3>5, ReturnCovered DEF Sound
    <3>7. QED
      BY <3>2, <3>3, <3>6 DEF Sound, exit
  <2>4. CASE MissingOperand
    BY <2>4 DEF MissingOperand, Sound
  <2>5. CASE UNCHANGED vars
    BY <2>5 DEF vars, Sound
  <2>6. QED
    BY <2>1, <2>2, <2>3, <2>4, <2>5 DEF Next
<1>3. QED
  BY <1>1, <1>2, TypeCorrect, PTL DEF Spec
=============================================================================
