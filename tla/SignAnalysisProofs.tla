------------------------- MODULE SignAnalysisProofs -------------------------
(***************************************************************************)
(* The laws the analysis needs of project/sign.cpp: SIGN_meet is the       *)
(* greatest lower bound of a flat lattice, and the arithmetic functions    *)
(* are sound for the unbounded integers (signed C arithmetic that does     *)
(* not overflow).                                                          *)
(*                                                                         *)
(* Facts about the flow functions of project/sign_analysis.cpp: they map   *)
(* data flow values to data flow values, meet is the greatest lower bound  *)
(* of Below, and Below is a partial order.                                 *)
(*                                                                         *)
(* They cover the machine: a sign that covers what an instruction reads    *)
(* leads to one that covers what it writes.  Where a name holds no integer *)
(* nothing is asked of its sign, and nothing is assumed.                   *)
(***************************************************************************)
EXTENDS Machine, SequenceTheorems, TLAPS

-----------------------------------------------------------------------------
(* The lattice of signs.                                                   *)

\* None of the functions leaves the five signs: INVALID is never produced
\* from them.
THEOREM SignClosed ==
  ASSUME NEW l \in SIGN, NEW r \in SIGN
  PROVE  /\ SIGN_meet(l, r) \in SIGN
         /\ SIGN_plus(l, r) \in SIGN
         /\ SIGN_mult(l, r) \in SIGN
         /\ SIGN_negate(l) \in SIGN
BY DEF SIGN, Definite, SIGN_meet, SIGN_plus, SIGN_mult, SIGN_negate,
       TOP, BOTTOM, ZERO, POSITIVE, NEGATIVE, INVALID

\* The order in which paths are merged does not matter.
THEOREM MeetLaws ==
  ASSUME NEW l \in SIGN, NEW r \in SIGN, NEW s \in SIGN
  PROVE  /\ SIGN_meet(l, r) = SIGN_meet(r, l)
         /\ SIGN_meet(l, SIGN_meet(r, s)) = SIGN_meet(SIGN_meet(l, r), s)
         /\ SIGN_meet(l, l) = l
BY DEF SIGN, Definite, SIGN_meet, TOP, BOTTOM, ZERO, POSITIVE, NEGATIVE, INVALID

\* SIGN_meet is the greatest lower bound of the order it induces.
THEOREM MeetIsGreatestLowerBound ==
  ASSUME NEW l \in SIGN, NEW r \in SIGN
  PROVE  /\ AtMost(SIGN_meet(l, r), l)
         /\ AtMost(SIGN_meet(l, r), r)
         /\ \A s \in SIGN : AtMost(s, l) /\ AtMost(s, r) => AtMost(s, SIGN_meet(l, r))
BY DEF AtMost, SIGN, Definite, SIGN_meet, TOP, BOTTOM, ZERO, POSITIVE, NEGATIVE,
       INVALID

\* The sign of a constant is right, and going down the lattice loses no value.
THEOREM SignOfConstantSound ==
  ASSUME NEW v \in Int
  PROVE  /\ SignOfConstant(v) \in Definite
         /\ HasSign(v, SignOfConstant(v))
         /\ \A l \in SIGN, r \in SIGN : AtMost(l, r) /\ HasSign(v, r) => HasSign(v, l)
BY DEF SignOfConstant, HasSign, AtMost, SIGN, Definite, SIGN_meet,
       TOP, BOTTOM, ZERO, POSITIVE, NEGATIVE, INVALID

\* Addition of signs, SIGN_plus, covers addition of integers.
THEOREM PlusSound ==
  ASSUME NEW x \in Int, NEW y \in Int, NEW l \in SIGN, NEW r \in SIGN,
         HasSign(x, l), HasSign(y, r)
  PROVE  HasSign(x + y, SIGN_plus(l, r))
BY DEF SignOfConstant, HasSign, SIGN, Definite, SIGN_plus,
       TOP, BOTTOM, ZERO, POSITIVE, NEGATIVE, INVALID

\* Negation of signs, SIGN_negate, covers negation of integers.
THEOREM NegateSound ==
  ASSUME NEW x \in Int, NEW s \in SIGN, HasSign(x, s)
  PROVE  HasSign(0 - x, SIGN_negate(s))
BY DEF SignOfConstant, HasSign, SIGN, Definite, SIGN_negate,
       TOP, BOTTOM, ZERO, POSITIVE, NEGATIVE, INVALID

\* The sign of a product is the product of the signs.
LEMMA SignOfProduct ==
  ASSUME NEW x \in Int, NEW y \in Int
  PROVE  SignOfConstant(x * y) = SIGN_mult(SignOfConstant(x), SignOfConstant(y))
<1>1. CASE x = 0 \/ y = 0
  <2>1. x * y = 0
    BY <1>1, SMT
  <2>2. QED
    BY <1>1, <2>1 DEF SignOfConstant, SIGN_mult, SIGN_negate, Definite,
       TOP, BOTTOM, ZERO, POSITIVE, NEGATIVE, INVALID
<1>2. CASE x > 0 /\ y > 0
  <2>1. x * y > 0
    BY <1>2, SMT
  <2>2. QED
    BY <1>2, <2>1 DEF SignOfConstant, SIGN_mult, SIGN_negate, Definite,
       TOP, BOTTOM, ZERO, POSITIVE, NEGATIVE, INVALID
<1>3. CASE x > 0 /\ y < 0
  <2>1. x * y < 0
    BY <1>3, SMT
  <2>2. QED
    BY <1>3, <2>1 DEF SignOfConstant, SIGN_mult, SIGN_negate, Definite,
       TOP, BOTTOM, ZERO, POSITIVE, NEGATIVE, INVALID
<1>4. CASE x < 0 /\ y > 0
  <2>1. x * y < 0
    BY <1>4, SMT
  <2>2. QED
    BY <1>4, <2>1 DEF SignOfConstant, SIGN_mult, SIGN_negate, Definite,
       TOP, BOTTOM, ZERO, POSITIVE, NEGATIVE, INVALID
<1>5. CASE x < 0 /\ y < 0
  <2>1. x * y > 0
    BY <1>5, SMT
  <2>2. QED
    BY <1>5, <2>1 DEF SignOfConstant, SIGN_mult, SIGN_negate, Definite,
       TOP, BOTTOM, ZERO, POSITIVE, NEGATIVE, INVALID
<1>6. QED
  BY <1>1, <1>2, <1>3, <1>4, <1>5

\* Multiplication of signs covers multiplication of integers.
THEOREM MultSound ==
  ASSUME NEW x \in Int, NEW y \in Int, NEW l \in SIGN, NEW r \in SIGN,
         HasSign(x, l), HasSign(y, r)
  PROVE  HasSign(x * y, SIGN_mult(l, r))
<1>1. CASE l # BOTTOM /\ r # BOTTOM
  BY <1>1, SignOfProduct DEF HasSign
<1>2. CASE l = BOTTOM
  BY <1>2 DEF HasSign, SIGN_mult, TOP, BOTTOM, ZERO, POSITIVE, NEGATIVE, Definite
<1>3. CASE r = BOTTOM /\ l # BOTTOM
  <2>1. l \in Definite
    BY <1>3 DEF HasSign, SignOfConstant, Definite
  <2>2. QED
    BY <1>3, <2>1 DEF HasSign, SIGN_mult, Definite,
       TOP, BOTTOM, ZERO, POSITIVE, NEGATIVE
<1>4. QED
  BY <1>1, <1>2, <1>3

-----------------------------------------------------------------------------
(* Types.                                                                  *)

LEMMA AbsentIsNoSign == Absent \notin SIGN
BY DEF Absent, SIGN, Definite, TOP, BOTTOM, ZERO, POSITIVE, NEGATIVE

LEMMA TopValueType == topValue \in Values
BY DEF topValue, Values

LEMMA MeetType ==
  ASSUME NEW v \in Values, NEW w \in Values
  PROVE  meet(v, w) \in Values
<1>1. \A n \in Name : v[n] \in SIGN \cup {Absent} /\ w[n] \in SIGN \cup {Absent}
  BY DEF Values
<1>2. ASSUME NEW n \in Name
      PROVE  (IF v[n] = Absent THEN w[n]
              ELSE IF w[n] = Absent THEN v[n]
              ELSE SIGN_meet(w[n], v[n])) \in SIGN \cup {Absent}
  <2>1. CASE v[n] = Absent \/ w[n] = Absent
    BY <1>1, <2>1
  <2>2. CASE v[n] # Absent /\ w[n] # Absent
    BY <1>1, <2>2, SignClosed
  <2>3. QED
    BY <2>1, <2>2
<1>3. QED
  BY <1>2 DEF meet, Values

\* The operands of an instruction by its class.
LEMMA InstructionOperands ==
  ASSUME NEW insn \in Instruction
  PROVE  /\ insn.op \in OpCode /\ insn.def \in Name /\ insn.callee \in Method
         /\ insn.operands \in Seq(Operand)
         /\ \A i \in 1..Len(insn.operands) : insn.operands[i] \in Operand
         /\ insn.op \in Copies => Len(insn.operands) = 1
         /\ insn.op \in BinaryOps => Len(insn.operands) = 2
<1>1. /\ insn.op \in OpCode /\ insn.def \in Name /\ insn.callee \in Method
      /\ insn.operands \in Seq(Operand)
      /\ insn.op # "call" => Len(insn.operands) = Arity(insn.op)
  BY DEF Instruction
<1>2. insn.op \in Copies => Arity(insn.op) = 1 /\ insn.op # "call"
  BY DEF Arity, Copies, BinaryOps
<1>3. insn.op \in BinaryOps => Arity(insn.op) = 2 /\ insn.op # "call"
  BY DEF Arity, Copies, BinaryOps
<1>4. \A i \in 1..Len(insn.operands) : insn.operands[i] \in Operand
  BY <1>1, ElementOfSeq
<1>5. QED
  BY <1>1, <1>2, <1>3, <1>4

LEMMA SignOfOperandType ==
  ASSUME NEW dfv \in Values, NEW x \in Operand, IsDefined(dfv, x)
  PROVE  SignOfOperand(dfv, x) \in SIGN
<1>1. CASE x.kind = "constant"
  <2>1. x.value \in Int
    BY <1>1 DEF Operand
  <2>2. SignOfConstant(x.value) \in Definite
    BY <2>1, SignOfConstantSound
  <2>3. QED
    BY <1>1, <2>2 DEF SignOfOperand, SIGN
<1>2. CASE x.kind # "constant"
  <2>1. x.kind = "name" /\ x.name \in Name
    BY <1>2 DEF Operand
  <2>2. dfv[x.name] \in SIGN \cup {Absent} /\ dfv[x.name] # Absent
    BY <2>1 DEF Values, IsDefined
  <2>3. QED
    BY <1>2, <2>2 DEF SignOfOperand
<1>3. QED
  BY <1>1, <1>2

LEMMA SignOfType ==
  ASSUME NEW dfv \in Values, NEW insn \in Instruction, OperandsDefined(dfv, insn)
  PROVE  signOf(insn, dfv) \in SIGN
<1> DEFINE operand(i) == SignOfOperand(dfv, insn.operands[i])
<1>1. \A i \in 1..Len(insn.operands) : operand(i) \in SIGN
  BY InstructionOperands, SignOfOperandType DEF OperandsDefined
<1>2. insn.op \in Copies => operand(1) \in SIGN
  BY <1>1, InstructionOperands
<1>3. insn.op \in BinaryOps => operand(1) \in SIGN /\ operand(2) \in SIGN
  BY <1>1, InstructionOperands
<1>4. TOP \in SIGN /\ BOTTOM \in SIGN
  BY DEF SIGN
<1>5. CASE insn.op \in Copies
  BY <1>2, <1>5 DEF signOf, Copies
<1>6. CASE insn.op \in BinaryOps
  <2>1. insn.op \notin Copies /\ insn.op # "alloca"
    BY <1>6 DEF Copies, BinaryOps
  <2>2. /\ SIGN_plus(operand(1), operand(2)) \in SIGN
        /\ SIGN_mult(operand(1), operand(2)) \in SIGN
        /\ SIGN_negate(operand(2)) \in SIGN
    BY <1>3, <1>6, SignClosed
  <2>3. signOf(insn, dfv) \in {SIGN_plus(operand(1), operand(2)),
                               SIGN_mult(operand(1), operand(2)),
                               SIGN_negate(operand(2)), BOTTOM}
    BY <1>6, <2>1 DEF signOf, BinaryOps
  <2>4. QED
    BY <1>4, <2>2, <2>3
<1>7. CASE insn.op \notin Copies \cup BinaryOps
  <2>1. signOf(insn, dfv) \in {TOP, BOTTOM}
    BY <1>7 DEF signOf, Copies, BinaryOps
  <2>2. QED
    BY <1>4, <2>1
<1>8. QED
  BY <1>5, <1>6, <1>7

\* The value after an instruction is a value.
LEMMA NormalFlowType ==
  ASSUME NEW dfv \in Values, NEW insn \in Instruction, OperandsDefined(dfv, insn)
  PROVE  normalFlow(insn, dfv) \in Values
<1>1. signOf(insn, dfv) \in SIGN \cup {Absent}
  BY SignOfType
<1>2. insn.def \in Name
  BY InstructionOperands
<1>3. \A n \in Name : [dfv EXCEPT ![n] = signOf(insn, dfv)] \in Values
  BY <1>1 DEF Values
<1>4. normalFlow(insn, dfv) \in {dfv, [dfv EXCEPT ![RETURN] = signOf(insn, dfv)],
                                 [dfv EXCEPT ![insn.def] = signOf(insn, dfv)]}
  BY DEF normalFlow
<1>5. QED
  BY <1>2, <1>3, <1>4, NameAssumption

\* What a callee is entered with is a value, with a sign for each parameter and
\* for nothing else.
LEMMA CallEntryType ==
  ASSUME NEW dfv \in Values, NEW insn \in Instruction, OperandsDefined(dfv, insn),
         NEW params \in Seq(Name), Len(params) = Len(insn.operands)
  PROVE  LET entered == callEntryFlowFunction(insn, params, dfv) IN
         /\ entered \in Values
         /\ \A x \in Name : entered[x] # Absent <=> x \in Range(params)
<1> DEFINE position(n) == CHOOSE i \in DOMAIN params : params[i] = n
           sign(n) == IF n \in Range(params) THEN SignOfOperand(dfv, insn.operands[position(n)])
                      ELSE Absent
<1>1. \A i \in 1..Len(insn.operands) : SignOfOperand(dfv, insn.operands[i]) \in SIGN
  BY InstructionOperands, SignOfOperandType DEF OperandsDefined
<1>2. ASSUME NEW n \in Range(params)
      PROVE  position(n) \in 1..Len(insn.operands)
  BY DEF Range
<1>3. \A n \in Name : IF n \in Range(params) THEN sign(n) \in SIGN ELSE sign(n) = Absent
  BY <1>1, <1>2
<1>4. Absent \notin SIGN
  BY DEF Absent, SIGN, Definite, TOP, BOTTOM, ZERO, POSITIVE, NEGATIVE, INVALID
<1>5. callEntryFlowFunction(insn, params, dfv) = [n \in Name |-> sign(n)]
  BY DEF callEntryFlowFunction
<1>6. QED
  <2> HIDE DEF sign
  <2> QED
    BY <1>3, <1>4, <1>5 DEF Values

-----------------------------------------------------------------------------
(* The order.                                                              *)

LEMMA SignOrder ==
  ASSUME NEW x \in SIGN \cup {Absent}, NEW y \in SIGN \cup {Absent}, NEW z \in SIGN \cup {Absent}
  PROVE  LET xy == IF x = Absent THEN y ELSE IF y = Absent THEN x ELSE SIGN_meet(y, x) IN
         /\ SignBelow(x, x) /\ SignBelow(x, Absent)
         /\ SignBelow(x, y) /\ SignBelow(y, z) => SignBelow(x, z)
         /\ SignBelow(x, y) /\ SignBelow(y, x) => x = y
         /\ SignBelow(xy, x) /\ SignBelow(xy, y)
         /\ SignBelow(z, x) /\ SignBelow(z, y) => SignBelow(z, xy)
BY DEF SignBelow, AtMost, SIGN_meet, SIGN, Definite, TOP, BOTTOM, ZERO, POSITIVE, NEGATIVE,
       INVALID, Absent

LEMMA BelowOrder ==
  /\ \A u \in Values : Below(u, u) /\ Below(u, topValue)
  /\ \A u, v, w \in Values : Below(u, v) /\ Below(v, w) => Below(u, w)
  /\ \A u, v \in Values : Below(u, v) /\ Below(v, u) => u = v
<1>1. \A u \in Values : \A n \in Name : u[n] \in SIGN \cup {Absent}
  BY DEF Values
<1>2. ASSUME NEW u \in Values
      PROVE  Below(u, u) /\ Below(u, topValue)
  BY <1>1, SignOrder DEF Below, topValue
<1>3. ASSUME NEW u \in Values, NEW v \in Values, NEW w \in Values, Below(u, v), Below(v, w)
      PROVE  Below(u, w)
  <2>1. \A n \in Name : SignBelow(u[n], v[n]) /\ SignBelow(v[n], w[n])
    BY <1>3 DEF Below
  <2>2. \A n \in Name : SignBelow(u[n], w[n])
    BY <1>1, <1>3, <2>1, SignOrder
  <2>3. QED
    BY <2>2 DEF Below
<1>4. ASSUME NEW u \in Values, NEW v \in Values, Below(u, v), Below(v, u)
      PROVE  u = v
  <2>1. \A n \in Name : u[n] = v[n]
    BY <1>1, <1>4, SignOrder DEF Below
  <2>2. QED
    BY <2>1 DEF Values
<1>5. QED
  BY <1>2, <1>3, <1>4

\* meet is the greatest lower bound: it loses nothing of what two paths allow.
LEMMA MeetIsGreatest ==
  ASSUME NEW v \in Values, NEW w \in Values
  PROVE  /\ Below(meet(v, w), v) /\ Below(meet(v, w), w)
         /\ \A u \in Values : Below(u, v) /\ Below(u, w) => Below(u, meet(v, w))
<1> DEFINE m(n) == IF v[n] = Absent THEN w[n]
                   ELSE IF w[n] = Absent THEN v[n] ELSE SIGN_meet(w[n], v[n])
<1>1. \A u \in Values : \A n \in Name : u[n] \in SIGN \cup {Absent}
  BY DEF Values
<1>2. \A n \in Name : meet(v, w)[n] = m(n)
  BY DEF meet
<1>3. \A n \in Name : SignBelow(m(n), v[n]) /\ SignBelow(m(n), w[n])
  BY <1>1, SignOrder
<1>4. \A u \in Values : \A n \in Name :
        SignBelow(u[n], v[n]) /\ SignBelow(u[n], w[n]) => SignBelow(u[n], m(n))
  BY <1>1, SignOrder
<1>5. QED
  <2> HIDE DEF m
  <2>1. QED
    BY <1>2, <1>3, <1>4 DEF Below

-----------------------------------------------------------------------------
(* The flow functions cover the machine, one instruction at a time.        *)

Stores == [Name -> Int \cup {Undef}]

LEMMA StoredIsStore == [Name -> Stored] \subseteq Stores
BY RepresentableAssumption DEF Stored, Stores

\* A sign that covers an integer is one of the signs.
LEMMA SignCoversType ==
  ASSUME NEW v \in Int, NEW s, SignCovers(v, s)
  PROVE  s \in SIGN /\ s # Absent /\ s # TOP /\ HasSign(v, s)
BY RepresentableAssumption
   DEF SignCovers, HasSign, SignOfConstant, SIGN, Definite, Absent,
       TOP, BOTTOM, ZERO, POSITIVE, NEGATIVE

LEMMA OperandStored ==
  ASSUME NEW insn \in Instruction, NEW store \in Stores, NEW k \in 1..Len(insn.operands)
  PROVE  OperandValue(insn, store, k) \in Int \cup {Undef}
BY InstructionOperands DEF OperandValue, Operand, Stores

\* An operand's sign covers its value.
LEMMA OperandCovered ==
  ASSUME NEW insn \in Instruction, NEW store \in Stores, NEW dfv, Covers(store, dfv),
         NEW k \in 1..Len(insn.operands)
  PROVE  SignCovers(OperandValue(insn, store, k), SignOfOperand(dfv, insn.operands[k]))
<1> DEFINE x == insn.operands[k]
<1>1. x \in Operand
  BY InstructionOperands
<1>2. CASE x.kind = "constant"
  <2>1. x.value \in Int
    BY <1>1, <1>2 DEF Operand
  <2>2. SignOfConstant(x.value) # Absent
    BY <2>1, SignOfConstantSound, AbsentIsNoSign DEF SIGN
  <2>3. QED
    BY <1>2, <2>1, <2>2 DEF OperandValue, SignOfOperand, SignCovers, HasSign
<1>3. CASE x.kind # "constant"
  <2>1. x.name \in Name
    BY <1>1, <1>3 DEF Operand
  <2>2. QED
    BY <1>3, <2>1 DEF OperandValue, SignOfOperand, Covers
<1>4. QED
  BY <1>2, <1>3

\* signOf's sign covers every result the machine may store.
LEMMA ResultCovered ==
  ASSUME NEW insn \in Instruction, NEW store \in Stores, NEW dfv, Covers(store, dfv),
         insn.op \notin {"call", "br"}, NEW v \in Results(insn, store),
         v \in Int \cup {Undef}
  PROVE  SignCovers(v, signOf(insn, dfv))
<1> DEFINE l == SignOfOperand(dfv, insn.operands[1])
           r == SignOfOperand(dfv, insn.operands[2])
           x == OperandValue(insn, store, 1)
           y == OperandValue(insn, store, 2)
           s == signOf(insn, dfv)
<1>1. SUFFICES ASSUME v # Undef
               PROVE  SignCovers(v, s)
  BY DEF SignCovers
<1>2. BOTTOM # Absent /\ \A u \in SIGN : u # Absent
  BY AbsentIsNoSign DEF SIGN
<1>3. /\ insn.op \in Copies => 1 \in 1..Len(insn.operands)
      /\ insn.op \in BinaryOps => 1 \in 1..Len(insn.operands) /\ 2 \in 1..Len(insn.operands)
  <2>1. /\ insn.op \in Copies => Len(insn.operands) = 1
        /\ insn.op \in BinaryOps => Len(insn.operands) = 2
    BY InstructionOperands
  <2>2. 1 \in 1..1 /\ 1 \in 1..2 /\ 2 \in 1..2
    OBVIOUS
  <2>3. QED
    BY <2>1, <2>2, Zenon
<1>4. CASE insn.op \in Copies
  <2>1. v = x /\ s = l
    BY <1>4 DEF Results, signOf, Copies
  <2>2. QED
    BY <1>3, <1>4, <2>1, OperandCovered
<1>5. CASE insn.op \in {"add", "mul", "sub"}
  <2>1. insn.op \in BinaryOps /\ insn.op \notin Copies
    BY <1>5 DEF BinaryOps, Copies
  <2>2. x # Undef /\ y # Undef
    BY <1>1, <1>5, <2>1 DEF Results
  <2>3. x \in Int /\ y \in Int
    BY <1>3, <2>1, <2>2, OperandStored
  <2>4. SignCovers(x, l) /\ SignCovers(y, r)
    BY <1>3, <2>1, OperandCovered
  <2>5. /\ l \in SIGN /\ HasSign(x, l)
        /\ r \in SIGN /\ HasSign(y, r)
    BY <2>3, <2>4, SignCoversType
  <2>6. CASE insn.op = "add"
    <3>1. v = x + y /\ s = SIGN_plus(l, r)
      BY <2>1, <2>2, <2>6 DEF Results, signOf
    <3>2. HasSign(v, s) /\ s \in SIGN
      BY <2>3, <2>5, <3>1, PlusSound, SignClosed
    <3>3. QED
      BY <1>2, <3>2 DEF SignCovers
  <2>7. CASE insn.op = "mul"
    <3>1. v = x * y /\ s = SIGN_mult(l, r)
      BY <2>1, <2>2, <2>7 DEF Results, signOf
    <3>2. HasSign(v, s) /\ s \in SIGN
      <4> HIDE DEF l, r, x, y, s
      <4> QED
        BY <2>3, <2>5, <3>1, MultSound, SignClosed
    <3>3. QED
      BY <1>2, <3>2 DEF SignCovers
  <2>8. CASE insn.op = "sub" /\ l = ZERO
    <3>1. v = x - y /\ s = SIGN_negate(r)
      BY <2>1, <2>2, <2>8 DEF Results, signOf
    <3>2. x = 0
      BY <2>3, <2>5, <2>8 DEF HasSign, SignOfConstant, ZERO, BOTTOM, POSITIVE, NEGATIVE
    <3>3. HasSign(0 - y, SIGN_negate(r)) /\ SIGN_negate(r) \in SIGN
      BY <2>3, <2>5, NegateSound, SignClosed
    <3>4. QED
      BY <1>2, <3>1, <3>2, <3>3 DEF SignCovers
  <2>9. CASE insn.op = "sub" /\ l # ZERO
    <3>1. s = BOTTOM
      BY <2>1, <2>9 DEF signOf
    <3>2. QED
      BY <1>2, <3>1 DEF HasSign, SignCovers
  <2>10. QED
    BY <1>5, <2>6, <2>7, <2>8, <2>9
<1>6. CASE insn.op = "alloca"
  BY <1>1, <1>6 DEF Results, Copies
<1>7. CASE insn.op \notin Copies \cup {"add", "mul", "sub", "alloca"}
  <2>1. s = BOTTOM
    BY <1>7 DEF signOf
  <2>2. QED
    BY <1>2, <2>1 DEF HasSign, SignCovers
<1>8. QED
  BY <1>4, <1>5, <1>6, <1>7

-----------------------------------------------------------------------------
(* The value after an instruction, and at the two ends of a call.          *)

\* A data flow value has a sign, or none, for every name.
IsMap(dfv) == dfv = [x \in Name |-> dfv[x]]

LEMMA InstructionCovered ==
  ASSUME NEW insn \in Instruction, NEW store \in Stores, NEW dfv, IsMap(dfv), Covers(store, dfv),
         insn.op \notin {"call", "br"}, NEW v \in Results(insn, store),
         v \in Int \cup {Undef}
  PROVE  /\ IsMap(normalFlow(insn, dfv))
         /\ [store EXCEPT ![Defines(insn)] = v] \in Stores
         /\ Covers([store EXCEPT ![Defines(insn)] = v], normalFlow(insn, dfv))
<1>1. Defines(insn) \in Name
  BY InstructionOperands, NameAssumption DEF Defines
<1>2. normalFlow(insn, dfv) = [dfv EXCEPT ![Defines(insn)] = signOf(insn, dfv)]
  BY DEF normalFlow, Defines
<1>3. SignCovers(v, signOf(insn, dfv))
  BY ResultCovered
<1>4. QED
  BY <1>1, <1>2, <1>3 DEF IsMap, Stores, Covers

\* The name of a call takes the returned integer, and a sign that covers it
\* whatever sign it is met with.
LEMMA ReturnCovered ==
  ASSUME NEW insn \in Instruction, NEW store \in Stores, NEW dfv, IsMap(dfv), Covers(store, dfv),
         NEW v \in Int \cup {Undef}, NEW exit, SignCovers(v, exit[RETURN])
  PROVE  LET out == meet(dfv, callExitFlowFunction(insn, exit)) IN
         /\ IsMap(out)
         /\ [store EXCEPT ![insn.def] = v] \in Stores
         /\ Covers([store EXCEPT ![insn.def] = v], out)
<1> DEFINE exitSign == IF exit[RETURN] = Absent THEN TOP ELSE exit[RETURN]
           out      == meet(dfv, callExitFlowFunction(insn, exit))
           after    == [store EXCEPT ![insn.def] = v]
<1>1. insn.def \in Name
  BY InstructionOperands
<1>2. \A x \in Name : callExitFlowFunction(insn, exit)[x] = IF x = insn.def THEN exitSign ELSE Absent
  BY <1>1 DEF callExitFlowFunction, topValue
<1>3. out = [x \in Name |-> IF dfv[x] = Absent THEN IF x = insn.def THEN exitSign ELSE Absent
                            ELSE IF x # insn.def \/ exitSign = Absent THEN dfv[x]
                            ELSE SIGN_meet(exitSign, dfv[x])]
  BY <1>2 DEF meet
<1>4. IsMap(out) /\ after \in Stores
  BY <1>1, <1>3 DEF IsMap, Stores
<1>5. ASSUME NEW x \in Name
      PROVE  SignCovers(after[x], out[x])
  <2>1. CASE x # insn.def
    <3>1. after[x] = store[x] /\ out[x] = dfv[x]
      BY <1>1, <1>3, <2>1 DEF Stores
    <3>2. QED
      BY <3>1 DEF Covers
  <2>2. CASE x = insn.def /\ v = Undef
    BY <1>1, <2>2 DEF SignCovers, Stores
  <2>3. CASE x = insn.def /\ v # Undef
    <3>1. after[x] = v /\ v \in Int
      BY <1>1, <2>3 DEF Stores
    <3>2. /\ exit[RETURN] \in SIGN \ {TOP} /\ exit[RETURN] # Absent
          /\ HasSign(v, exit[RETURN])
      BY <3>1, SignCoversType
    <3>3. exitSign = exit[RETURN]
      BY <3>2
    <3> HIDE DEF exitSign, after
    <3>4. out[x] \in {exitSign, SIGN_meet(exitSign, dfv[x])}
      BY <1>3, <2>3, <3>2, <3>3
    <3>5. SIGN_meet(exitSign, dfv[x]) \in {exitSign, BOTTOM}
      BY <3>2, <3>3 DEF SIGN_meet, SIGN, Definite, TOP, BOTTOM, ZERO, POSITIVE, NEGATIVE
    <3>6. BOTTOM # Absent
      BY AbsentIsNoSign DEF SIGN
    <3>7. QED
      BY <3>1, <3>2, <3>3, <3>4, <3>5, <3>6 DEF SignCovers, HasSign
  <2>4. QED
    BY <2>1, <2>2, <2>3
<1>6. QED
  BY <1>4, <1>5 DEF Covers

\* What a callee is entered with covers its arguments.
LEMMA EntryCovered ==
  ASSUME NEW insn \in Instruction, NEW store \in Stores, NEW dfv, Covers(store, dfv),
         NEW params \in Seq(Name), Len(params) = Len(insn.operands)
  PROVE  /\ Arguments(insn, params, store) \in Stores
         /\ Covers(Arguments(insn, params, store), callEntryFlowFunction(insn, params, dfv))
<1> DEFINE position(x) == CHOOSE k \in DOMAIN params : params[k] = x
<1>1. ASSUME NEW x \in Range(params)
      PROVE  position(x) \in 1..Len(insn.operands)
  BY DEF Range
<1>2. ASSUME NEW x \in Range(params)
      PROVE  /\ OperandValue(insn, store, position(x)) \in Int \cup {Undef}
             /\ SignCovers(OperandValue(insn, store, position(x)),
                           SignOfOperand(dfv, insn.operands[position(x)]))
  <2> HIDE DEF position
  <2> QED
    BY <1>1, OperandStored, OperandCovered
<1>3. ASSUME NEW x \in Name
      PROVE  /\ Arguments(insn, params, store)[x] \in Int \cup {Undef}
             /\ SignCovers(Arguments(insn, params, store)[x],
                           callEntryFlowFunction(insn, params, dfv)[x])
  <2>1. CASE x \in Range(params)
    <3>1. /\ Arguments(insn, params, store)[x] = OperandValue(insn, store, position(x))
          /\ callEntryFlowFunction(insn, params, dfv)[x]
               = SignOfOperand(dfv, insn.operands[position(x)])
      BY <2>1 DEF Arguments, callEntryFlowFunction
    <3>2. QED
      BY <1>2, <2>1, <3>1
  <2>2. CASE x \notin Range(params)
    BY <2>2 DEF Arguments, SignCovers
  <2>3. QED
    BY <2>1, <2>2
<1>4. Arguments(insn, params, store) \in Stores
  BY <1>3 DEF Arguments, Stores
<1>5. QED
  BY <1>3, <1>4 DEF Covers

\* Going down loses no integer.
LEMMA CoversBelow ==
  ASSUME NEW store \in Stores, NEW v \in Values, NEW w, Below(v, w), Covers(store, w)
  PROVE  Covers(store, v)
<1> SUFFICES ASSUME NEW x \in Name
             PROVE  SignCovers(store[x], v[x])
  BY DEF Covers
<1>1. CASE store[x] = Undef
  BY <1>1 DEF SignCovers
<1>2. CASE store[x] # Undef
  <2>1. store[x] \in Int /\ SignCovers(store[x], w[x])
    BY <1>2 DEF Stores, Covers
  <2>2. w[x] \in SIGN /\ w[x] # Absent /\ HasSign(store[x], w[x])
    BY <2>1, SignCoversType
  <2>3. v[x] # Absent /\ AtMost(v[x], w[x])
    BY <2>2 DEF Below, SignBelow
  <2>4. v[x] \in SIGN
    BY <2>3 DEF Values
  <2>5. HasSign(store[x], v[x])
    BY <2>1, <2>2, <2>3, <2>4, SignOfConstantSound
  <2>6. QED
    BY <2>3, <2>5 DEF SignCovers
<1>3. QED
  BY <1>1, <1>2
=============================================================================
