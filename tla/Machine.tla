------------------------------- MODULE Machine -------------------------------
(***************************************************************************)
(* What a machine does with one instruction, on integers, beside what the  *)
(* analysis says of it, in signs.                                          *)
(*                                                                         *)
(* The machine is external (LLVM IR).  Signed arithmetic is "add nsw",     *)
(* which clang emits for C's int: a result outside Representable is        *)
(* undefined behaviour and the program does not go on; arithmetic without  *)
(* nsw, which the analysis treats alike, is not modelled.  A name that     *)
(* holds no integer (an alloca not stored to, and what is computed from    *)
(* it) is Undef.  A variable is one name: its alloca.                      *)
(***************************************************************************)
EXTENDS SignAnalysis

CONSTANTS Representable,  \* the integers of the machine
          Undef           \* no integer

ASSUME RepresentableAssumption == Representable \subseteq Int /\ Undef \notin Int

Stored == Representable \cup {Undef}

NoStore == [x \in Name |-> Undef]

-----------------------------------------------------------------------------
OperandValue(insn, store, k) ==
  LET operand == insn.operands[k] IN
  IF operand.kind = "constant" THEN operand.value ELSE store[operand.name]

\* What the machine may store at the name the instruction defines.
Results(insn, store) ==
  LET x == OperandValue(insn, store, 1)
      y == OperandValue(insn, store, 2)
      z == CASE insn.op = "add" -> x + y
             [] insn.op = "mul" -> x * y
             [] OTHER           -> x - y
  IN CASE insn.op \in Copies               -> {x}
       [] insn.op \in {"add", "mul", "sub"} -> IF Undef \in {x, y} THEN {Undef} ELSE {z}
       [] insn.op = "alloca"               -> {Undef}
       [] OTHER                            -> Stored

Defines(insn) == IF insn.op = "ret" THEN RETURN ELSE insn.def

\* The store a call enters the callee with.
Arguments(insn, params, store) ==
  [x \in Name |->
     IF x \in Range(params)
       THEN OperandValue(insn, store, CHOOSE k \in DOMAIN params : params[k] = x)
       ELSE Undef]

-----------------------------------------------------------------------------
\* An integer has the sign the analysis gives it; what is no integer needs none.
SignCovers(v, s) == v = Undef \/ (s # Absent /\ HasSign(v, s))

Covers(store, dfv) == \A x \in Name : SignCovers(store[x], dfv[x])
=============================================================================
