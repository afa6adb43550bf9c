----------------------------- MODULE MCDataFlow -----------------------------
(***************************************************************************)
(* Every function of three blocks whose entry has no predecessor, blocks   *)
(* that are not reachable and blocks that do not return included, and      *)
(* monotone transfer functions over two bits.                              *)
(***************************************************************************)
EXTENDS DataFlow

MCNode == {"b0", "b1", "b2"}
MCBit  == {"x", "y"}
MCCode == {"nothing", "kill", "copy", "phi"}

\* x is killed and y generated; y is what x was, and x is generated; x is sent
\* to b1 alone.
MCTransfer(c, input) ==
  [element      |-> CASE c = "kill" -> (input \ {"x"}) \cup {"y"}
                      [] c = "copy" -> {"x"} \cup (IF "x" \in input THEN {"y"} ELSE {})
                      [] OTHER      -> input,
   neighborVals |-> IF c = "phi" THEN [n \in {"b1"} |-> {"x"}] ELSE <<>>]

Graphs == {s \in [MCNode -> SUBSET {"b1", "b2"}] : s["b0"] # {}}

\* b2 alone may have phi nodes.
Codes == {c \in [MCNode -> MCCode] : c["b0"] \in {"nothing", "copy"} /\ c["b1"] # "phi"}

MCProblems ==
  UNION {[direction    : {"forward", "backward"},
          meetOp       : {"union", "intersection"},
          entry        : {"b0"},
          succs        : {s},
          returns      : SUBSET {b \in MCNode : s[b] = {}},
          boundaryCond : {{}, {"x"}},
          initCond     : {{}, MCBit},
          code         : Codes] : s \in Graphs}
=============================================================================
