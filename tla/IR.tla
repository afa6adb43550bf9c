--------------------------------- MODULE IR ---------------------------------
(***************************************************************************)
(* What the interprocedural analysis reads of an llvm::Module: functions   *)
(* (methods), their basic blocks (nodes) and the instructions of those.    *)
(* LLVM itself is external; what it guarantees of a module that passes its *)
(* verifier is WellFormed.                                                 *)
(*                                                                         *)
(* An instruction keeps its class, the name it defines (for a store, the   *)
(* name of its pointer), its operands (for a store, the stored one) and    *)
(* the called method.  Value names are those of "opt -instnamer"; all      *)
(* unnamed values share the name "".  A return has a value, and a call     *)
(* names a method with as many parameters as it has arguments: "ret void", *)
(* indirect calls and variable arguments have no form here.                *)
(***************************************************************************)
EXTENDS Integers, Sequences, FiniteSets, Functions

CONSTANTS Name,    \* value names
          Method,  \* functions
          Node     \* basic blocks

RETURN == "return"

ASSUME NameAssumption == RETURN \in Name

-----------------------------------------------------------------------------
Copies    == {"store", "load", "ret"}
BinaryOps == {"add", "mul", "sub", "binop"}          \* binop: any other opcode
OpCode    == Copies \cup BinaryOps \cup {"br", "alloca", "call", "other"}

\* How many operands the analysis reads; it does not inspect those of a branch,
\* an alloca or an instruction it does not know.
Arity(op) == CASE op \in Copies    -> 1
               [] op \in BinaryOps -> 2
               [] OTHER            -> 0

Operand == [kind : {"constant"}, value : Int] \cup [kind : {"name"}, name : Name]

Instruction ==
  {i \in [op : OpCode, def : Name, operands : Seq(Operand), callee : Method] :
     i.op # "call" => Len(i.operands) = Arity(i.op)}

-----------------------------------------------------------------------------
\* The blocks of a method are those its entry reaches, in depth_first order: the
\* first is the entry, which no block branches to.  A block is in one method.  The
\* parameters of a method have different names (instnamer gives them one each),
\* and a call passes an argument for each.  A terminator is the last of its block,
\* and a return leads nowhere.
WellFormed(m) ==
  /\ \A f, g \in Method : f # g => Range(m.blocks[f]) \cap Range(m.blocks[g]) = {}
  /\ \A f \in Method :
       /\ IsInjective(m.params[f])
       /\ m.blocks[f] # <<>>
       /\ \A n \in Range(m.blocks[f]) : Range(m.succs[n]) \subseteq Range(m.blocks[f])
       /\ \A n \in Node : m.blocks[f][1] \notin Range(m.succs[n])
  /\ \A n \in Node : \A i \in DOMAIN m.code[n] :
       /\ m.code[n][i].op = "call" =>
            Len(m.code[n][i].operands) = Len(m.params[m.code[n][i].callee])
       /\ m.code[n][i].op \in {"ret", "br"} => i = Len(m.code[n])
       /\ m.code[n][i].op = "ret" => m.succs[n] = <<>>

Module == {m \in [main   : Method,
                  params : [Method -> Seq(Name)],
                  blocks : [Method -> Seq(Node)],
                  succs  : [Node -> Seq(Node)],
                  code   : [Node -> Seq(Instruction)]] : WellFormed(m)}
=============================================================================
