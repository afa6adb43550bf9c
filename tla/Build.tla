-------------------------------- MODULE Build --------------------------------
(***************************************************************************)
(* Shorthands to write the instructions of the modules TLC analyses.       *)
(***************************************************************************)
Const(v) == [kind |-> "constant", value |-> v]
Named(n) == [kind |-> "name", name |-> n]

\* The callee of an instruction that is no call is irrelevant: "main".
Insn(op, def, operands) == [op |-> op, def |-> def, operands |-> operands, callee |-> "main"]

Call(f, def, operands) == [op |-> "call", def |-> def, operands |-> operands, callee |-> f]

Store(def, x) == Insn("store", def, <<x>>)
Negate(def, x) == Insn("sub", def, <<Const(0), x>>)

\* Terminators: what they define is not looked at.
Return(x) == <<Insn("ret", "a", <<x>>)>>
Jump      == <<Insn("br", "a", <<>>)>>
=============================================================================
