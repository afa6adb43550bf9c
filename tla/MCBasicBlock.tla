---------------------------- MODULE MCBasicBlock ----------------------------
(***************************************************************************)
(* Every instruction class on two names and constants of each sign, alone  *)
(* and followed by others that read what it defined.                       *)
(***************************************************************************)
EXTENDS BasicBlock

B == INSTANCE Build

MCName   == {"a", "b", RETURN}
MCMethod == {"main"}

a == B!Named("a")
b == B!Named("b")

MCOperands == {B!Const(-1), B!Const(0), B!Const(1), a, b}

MCSingle ==
  {B!Store("a", x) : x \in MCOperands}
    \cup {B!Insn("load", "a", <<b>>), B!Insn("ret", "a", <<b>>)}
    \cup {B!Insn(op, "a", <<x, b>>) : op \in BinaryOps, x \in MCOperands}
    \cup {B!Insn("br", "a", <<>>), B!Insn("alloca", "a", <<>>), B!Insn("other", "b", <<>>)}
    \cup {B!Call("main", "a", <<b>>)}

MCBlocks ==
  {<<i>> : i \in MCSingle}
    \cup {<<B!Insn("alloca", "a", <<>>), B!Insn("add", "b", <<a, b>>)>>,
          <<B!Negate("b", a), B!Call("main", "a", <<b>>), B!Insn("mul", "a", <<a, b>>)>>
            \o B!Return(a)}

MCRepresentable == -2..2
=============================================================================
