---------------------------- MODULE SignAnalysis ----------------------------
(***************************************************************************)
(* The data flow values of project/sign_analysis.cpp and the functions     *)
(* over them that keep no state: meet, isReturnEqual, signOf and the flow  *)
(* across a call.  The functions that create contexts while they run       *)
(* (callCustomFlowFunction) are actions of ForwardInterProceduralAnalysis. *)
(*                                                                         *)
(* A DenseMap from names to signs is a total function over Name whose      *)
(* missing keys have the value Absent, so DenseMap's == is equality.       *)
(***************************************************************************)
EXTENDS Sign, IR

Absent == "absent"

Values == [Name -> SIGN \cup {Absent}]

topValue == [n \in Name |-> Absent]

IsDefined(dfv, operand) == operand.kind = "name" => dfv[operand.name] # Absent

SignOfOperand(dfv, operand) ==
  IF operand.kind = "constant" THEN SignOfConstant(operand.value)
                               ELSE dfv[operand.name]

\* Where this fails the code runs into assert(false).
OperandsDefined(dfv, insn) ==
  \A i \in 1..Len(insn.operands) : IsDefined(dfv, insn.operands[i])

-----------------------------------------------------------------------------
(***************************************************************************)
(* The flow functions.                                                     *)
(***************************************************************************)

\* Mutant: a name both maps have keeps the sign of the first.
meetKeepsFirst(op1, op2) ==
  [n \in Name |-> IF op1[n] = Absent THEN op2[n] ELSE op1[n]]

\* A name one of the two maps misses takes the other's sign.
meet(op1, op2) ==
  [n \in Name |-> IF op1[n] = Absent THEN op2[n]
                  ELSE IF op2[n] = Absent THEN op1[n]
                  ELSE SIGN_meet(op2[n], op1[n])]

\* Mutant: a first return value counts as no change.
isReturnEqualIfPresent(op1, op2) ==
  op1[RETURN] # Absent /\ op2[RETURN] # Absent => op1[RETURN] = op2[RETURN]

\* Equality of what a caller sees: the signs of "return", if both have one.
isReturnEqual(op1, op2) ==
  IF op1[RETURN] # Absent /\ op2[RETURN] # Absent
    THEN op1[RETURN] = op2[RETURN]
    ELSE op1 = op2

\* The sign an instruction other than a branch or a call gives to the name it defines.
signOf(insn, dfv) ==
  LET operand(i) == SignOfOperand(dfv, insn.operands[i]) IN
  CASE insn.op \in Copies -> operand(1)
    [] insn.op = "add"    -> SIGN_plus(operand(1), operand(2))
    [] insn.op = "mul"    -> SIGN_mult(operand(1), operand(2))
    [] insn.op = "sub"    -> IF operand(1) = ZERO THEN SIGN_negate(operand(2)) ELSE BOTTOM
    [] insn.op = "alloca" -> TOP
    [] OTHER              -> BOTTOM

\* One turn of normalFlowFunction's loop, also taken by callCustomFlowFunction
\* for what is not a call.  A branch defines nothing (the code knows it by the
\* name "branch", taken to be no value's).
normalFlow(insn, dfv) ==
  CASE insn.op = "br"  -> dfv
    [] insn.op = "ret" -> [dfv EXCEPT ![RETURN] = signOf(insn, dfv)]
    [] OTHER           -> [dfv EXCEPT ![insn.def] = signOf(insn, dfv)]

\* The callee's formal parameters take the signs of the arguments.
callEntryFlowFunction(insn, params, dfv) ==
  [n \in Name |->
     IF n \in Range(params)
       THEN SignOfOperand(dfv, insn.operands[CHOOSE i \in DOMAIN params : params[i] = n])
       ELSE Absent]

\* The call's name takes the sign of "return"; a missing one reads as TOP, the
\* value DenseMap's operator[] inserts.
callExitFlowFunction(insn, exit) ==
  [topValue EXCEPT ![insn.def] = IF exit[RETURN] = Absent THEN TOP ELSE exit[RETURN]]

-----------------------------------------------------------------------------
(***************************************************************************)
(* The order meet induces: a value lies below another one if it is at most *)
(* the other's sign wherever the other has a sign.                         *)
(***************************************************************************)
SignBelow(l, r) == r = Absent \/ (l # Absent /\ AtMost(l, r))

Below(v, w) == \A n \in Name : SignBelow(v[n], w[n])
=============================================================================
