--------------------------- MODULE MCLiveAnalysis ---------------------------
(***************************************************************************)
(* Functions of three blocks over two variables: every control flow graph  *)
(* whose entry has no predecessor and reaches every block, over a menu of  *)
(* block bodies.                                                           *)
(***************************************************************************)
EXTENDS LiveAnalysis

MCValue == {"x", "y"}
MCNode  == {"b0", "b1", "b2"}

Plain(k, g) == [kill |-> k, gen |-> g, incoming |-> {}]

\* Nothing; y = x; x = 1; print(x); print(x), x = y.
Bodies == {<<>>,
           <<Plain({"y"}, {"x"})>>,
           <<Plain({"x"}, {})>>,
           <<Plain({}, {"x"})>>,
           <<Plain({}, {"x"}), Plain({"x"}, {"y"})>>}

Shapes ==
  {s \in [Node -> SUBSET {"b1", "b2"}] :
     /\ "b1" \in s["b0"] \/ ("b2" \in s["b0"] /\ "b1" \in s["b2"])
     /\ "b2" \in s["b0"] \/ ("b1" \in s["b0"] /\ "b2" \in s["b1"])}

FunctionsOf(shapes, bodies) ==
  {[entry |-> "b0", succs |-> s, code |-> c] : s \in shapes, c \in bodies}

PlainFunctions == FunctionsOf(Shapes, [Node -> Bodies])

-----------------------------------------------------------------------------
(***************************************************************************)
(* b0 branches to b1 and b2, and b1 goes on to b2, which begins with phi   *)
(* nodes: what clang makes of "x || y", and what it does not.              *)
(***************************************************************************)
If == [b \in Node |-> CASE b = "b0" -> {"b1", "b2"} [] b = "b1" -> {"b2"} [] OTHER -> {}]

\* A phi node takes fromEntry from b0 and fromThen from b1.
Phi(fromEntry, fromThen) ==
  [kill |-> {}, gen |-> {fromEntry, fromThen},
   incoming |-> {<<fromEntry, "b0">>, <<fromThen, "b1">>}]

\* The operands of the phi node are used by nothing else.
ShortCircuit ==
  FunctionsOf({If}, {[b \in Node |-> CASE b = "b0" -> <<Plain({"x"}, {})>>
                                      [] b = "b1" -> <<Plain({"y"}, {"x"})>>
                                      [] OTHER    -> <<Phi("x", "y")>>],
                     [b \in Node |-> CASE b = "b0" -> <<Plain({"x"}, {})>>
                                      [] b = "b1" -> <<Plain({"y"}, {})>>
                                      [] OTHER    -> <<Phi("x", "y")>>]})

\* b2 has two phi nodes that take the same two values the other way round.
SwapFunctions ==
  FunctionsOf({If}, {[b \in Node |-> CASE b = "b0" -> <<Plain({"x"}, {}), Plain({"y"}, {})>>
                                      [] b = "b1" -> <<>>
                                      [] OTHER    -> <<Phi("x", "y"), Phi("y", "x")>>]})

\* b1 is a loop: x is 0 or y, then y becomes x + 1; or x and y change places.
Loop == [b \in Node |-> CASE b = "b0" -> {"b1"} [] b = "b1" -> {"b1", "b2"} [] OTHER -> {}]

LoopPhi(k, g) == [kill |-> {k}, gen |-> {g}, incoming |-> {<<g, "b1">>}]

LoopFunctions ==
  FunctionsOf({Loop}, {[b \in Node |-> CASE b = "b0" -> <<>>
                                        [] b = "b1" -> <<LoopPhi("x", "y"), step>>
                                        [] OTHER    -> <<Plain({}, {"y"})>>] :
                         step \in {Plain({"y"}, {"x"}), LoopPhi("y", "x")}})

LiveFunctions == PlainFunctions \cup ShortCircuit \cup SwapFunctions \cup LoopFunctions
=============================================================================
