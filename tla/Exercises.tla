------------------------------ MODULE Exercises ------------------------------
(***************************************************************************)
(* The functions the programs of assign1/ build through the LLVM API:      *)
(* fact (factorial.cpp), even and odd (odd_even.cpp) and bin               *)
(* (binary_op.cpp), and a machine that runs them.                          *)
(*                                                                         *)
(* The programs build, verify and print the functions; the machine is      *)
(* external (LLVM IR).  Arithmetic is created without nsw: it wraps.       *)
(* A call marked "tail" may keep its frame; here it does, and at MaxDepth  *)
(* frames the machine stops.                                               *)
(***************************************************************************)
EXTENDS Integers, Sequences

CONSTANTS Half,      \* how many integers are negative: 2^31 in the code
          MaxDepth,  \* the bound on the call stack
          None       \* no result

ASSUME HalfAssumption  == Half \in Nat \ {0, 1}
ASSUME DepthAssumption == MaxDepth \in Nat \ {0}

Modulus == 2 * Half
Integer == -Half .. Half - 1
Wrap(x) == ((x + Half) % Modulus) - Half

-----------------------------------------------------------------------------
(***************************************************************************)
(* What CreateFunctions builds: blocks by name, where the first block of a *)
(* function has the function's name.                                       *)
(***************************************************************************)
B == INSTANCE Build

One  == B!Const(1)
Zero == B!Const(0)
n    == B!Named("n")
num  == B!Named("num")

params == [fact |-> <<"n">>, even |-> <<"num">>, odd |-> <<"num">>, bin |-> <<"x", "y", "z">>]

Br(cond, ifTrue, ifFalse) == [op |-> "br", cond |-> cond, targets |-> <<ifTrue, ifFalse>>]
Ret(x)                    == B!Insn("ret", "", <<x>>)

\* Mutants: "fact" stops at one only, or passes its own argument on; "even" calls
\* itself; "bin" does not return.
factCondEq    == B!Insn("eq", "cond", <<n, One>>)
factSame      == B!Call("fact", "factx1", <<n>>)
evenCallsEven == B!Call("even", "oddx1", <<B!Named("arg_even")>>)
binNoReturn   == <<>>

factCond     == B!Insn("sle", "cond", <<n, One>>)
factCallsX1  == B!Call("fact", "factx1", <<B!Named("arg")>>)
evenCallsOdd == B!Call("odd", "oddx1", <<B!Named("arg_even")>>)
binReturn    == <<Ret(B!Named("ret2"))>>

fact ==
  [fact         |-> <<factCond, Br("cond", "return_fact", "recurse_fact")>>,
   return_fact  |-> <<Ret(One)>>,
   recurse_fact |-> <<B!Insn("sub", "arg", <<n, One>>), factCallsX1,
                      B!Insn("mul", "ret", <<n, B!Named("factx1")>>), Ret(B!Named("ret"))>>]

evenOdd ==
  [even         |-> <<B!Insn("eq", "cond_even", <<num, Zero>>),
                      Br("cond_even", "return_even", "recurse_even")>>,
   odd          |-> <<B!Insn("eq", "cond_odd", <<num, Zero>>),
                      Br("cond_odd", "return_odd", "recurse_odd")>>,
   return_even  |-> <<Ret(One)>>,
   return_odd   |-> <<Ret(Zero)>>,
   recurse_even |-> <<B!Insn("sub", "arg_even", <<num, One>>), evenCallsOdd,
                      Ret(B!Named("oddx1"))>>,
   recurse_odd  |-> <<B!Insn("sub", "arg_odd", <<num, One>>),
                      B!Call("even", "evenx1", <<B!Named("arg_odd")>>), Ret(B!Named("evenx1"))>>]

bin == [bin |-> <<B!Insn("mul", "ret1", <<B!Named("x"), B!Named("y")>>),
                  B!Insn("add", "ret2", <<B!Named("ret1"), B!Named("z")>>)>> \o binReturn]

code == [b \in DOMAIN fact \cup DOMAIN evenOdd \cup DOMAIN bin |->
           CASE b \in DOMAIN fact    -> fact[b]
             [] b \in DOMAIN evenOdd -> evenOdd[b]
             [] b \in DOMAIN bin     -> bin[b]]

-----------------------------------------------------------------------------
(***************************************************************************)
(* The machine.                                                            *)
(***************************************************************************)
VARIABLES called,     \* the function that is run
          arguments,  \* what it is run with
          stack,      \* a frame per active call: block, next instruction, registers
          result      \* what it has returned

vars == <<called, arguments, stack, result>>

\* The registers of a call are its parameters; others are added as they are defined.
Frame(f, args) ==
  [block |-> f, pc |-> 1,
   registers |-> [x \in {params[f][i] : i \in DOMAIN params[f]} |->
                    args[CHOOSE i \in DOMAIN params[f] : params[f][i] = x]]]

TypeOK ==
  /\ called \in DOMAIN params
  /\ arguments \in [DOMAIN params[called] -> Integer]
  /\ \A k \in DOMAIN stack :
       /\ stack[k].block \in DOMAIN code
       /\ stack[k].pc \in DOMAIN code[stack[k].block]
       /\ stack[k].registers \in [DOMAIN stack[k].registers -> Integer]
  /\ result \in Integer \cup {None}

Init ==
  /\ called \in DOMAIN params
  /\ arguments \in [DOMAIN params[called] -> Integer]
  /\ stack = <<Frame(called, arguments)>>
  /\ result = None

top   == stack[Len(stack)]
below == SubSeq(stack, 1, Len(stack) - 1)
insn  == code[top.block][top.pc]

AtOp(ops) == stack # <<>> /\ insn.op \in ops

Operand(i) ==
  IF insn.operands[i].kind = "constant" THEN insn.operands[i].value
                                        ELSE top.registers[insn.operands[i].name]

\* A truth value is an integer of one bit.
Bit(p) == IF p THEN 1 ELSE 0

Value == LET x == Operand(1)
             y == Operand(2)
         IN CASE insn.op = "add" -> Wrap(x + y)
              [] insn.op = "sub" -> Wrap(x - y)
              [] insn.op = "mul" -> Wrap(x * y)
              [] insn.op = "eq"  -> Bit(x = y)
              [] insn.op = "sle" -> Bit(x <= y)

\* The frame once the instruction it is at has given its name a value.
Defined(frame, v) ==
  LET def == code[frame.block][frame.pc].def IN
  [block     |-> frame.block,
   pc        |-> frame.pc + 1,
   registers |-> [x \in DOMAIN frame.registers \cup {def} |->
                    IF x = def THEN v ELSE frame.registers[x]]]

Compute ==
  /\ AtOp({"add", "sub", "mul", "eq", "sle"})
  /\ stack' = Append(below, Defined(top, Value))
  /\ UNCHANGED <<called, arguments, result>>

Branch ==
  /\ AtOp({"br"})
  /\ LET target == insn.targets[IF top.registers[insn.cond] = 1 THEN 1 ELSE 2]
     IN stack' = Append(below, [block |-> target, pc |-> 1, registers |-> top.registers])
  /\ UNCHANGED <<called, arguments, result>>

Call ==
  /\ AtOp({"call"})
  /\ Len(stack) < MaxDepth
  /\ stack' = Append(stack, Frame(insn.callee, [i \in DOMAIN insn.operands |-> Operand(i)]))
  /\ UNCHANGED <<called, arguments, result>>

Return ==
  /\ AtOp({"ret"})
  /\ IF below = <<>>
       THEN /\ stack' = <<>>
            /\ result' = Operand(1)
       ELSE /\ stack' = [below EXCEPT ![Len(below)] = Defined(@, Operand(1))]
            /\ UNCHANGED result
  /\ UNCHANGED <<called, arguments>>

Stutter == stack = <<>> /\ UNCHANGED vars

Next == Compute \/ Branch \/ Call \/ Return \/ Stutter

Spec == Init /\ [][Next]_vars /\ WF_vars(Next)

-----------------------------------------------------------------------------
(***************************************************************************)
(* Properties.                                                             *)
(***************************************************************************)

\* n! modulo the size of an integer.
Factorial[k \in Nat] == IF k = 0 THEN 1 ELSE (k * Factorial[k - 1]) % Modulus

Expected(f, args) ==
  CASE f = "fact" -> IF args[1] <= 1 THEN 1 ELSE Wrap(Factorial[args[1]])
    [] f = "even" -> Bit(args[1] % 2 = 0)
    [] f = "odd"  -> Bit(args[1] % 2 = 1)
    [] f = "bin"  -> Wrap(args[1] * args[2] + args[3])

\* The built functions are what their names say for every integer, the negative
\* ones and those whose factorial does not fit included: counting down from a
\* negative number wraps around and keeps the parity.
Correct == result # None => result = Expected(called, arguments)

\* How deep the recursion goes: "even" and "odd" of a negative number take a
\* frame for (almost) every integer there is, and no built function takes more.
Depth(f, args) ==
  CASE f = "fact"            -> IF args[1] <= 1 THEN 1 ELSE args[1]
    [] f \in {"even", "odd"} -> (args[1] % Modulus) + 1
    [] f = "bin"             -> 1

DepthBounded == Len(stack) <= Depth(called, arguments)

\* Every call returns, whatever the argument, if the stack holds a frame for
\* every integer.
Returns == <>(result # None)
=============================================================================
