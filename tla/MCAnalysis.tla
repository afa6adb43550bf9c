----------------------------- MODULE MCAnalysis -----------------------------
(***************************************************************************)
(* Modules to analyse: "main" is one block that calls "f", and "f" has     *)
(* every control flow graph of three blocks over a menu of block bodies,   *)
(* so it branches, loops, returns early or never, calls itself, and calls  *)
(* "g", which calls "f".                                                   *)
(***************************************************************************)
EXTENDS AnalysisResult

B == INSTANCE Build

MCName   == {"a", "b", "c", RETURN}
MCMethod == {"main", "f", "g"}
Blocks   == {"f0", "f1", "f2"}
MCNode   == Blocks \cup {"m", "g0"}

a == B!Named("a")
b == B!Named("b")
c == B!Named("c")

\* int g(int a) { return f(-a); }
G == <<B!Negate("b", a), B!Call("f", "c", <<b>>)>> \o B!Return(c)

Params    == [main |-> <<>>, f |-> <<"a">>, g |-> <<"a">>]
BlocksOf(blocks) == [main |-> <<"m">>, f |-> blocks, g |-> <<"g0">>]

Main == <<B!Store("a", B!Const(1)), B!Call("f", "b", <<a>>)>> \o B!Return(b)

\* Bodies, without the terminator: nothing, a step that turns the sign, a call
\* that always has the same value context, and one that may have any.
Bodies == {<<>>,
           <<B!Negate("b", a)>>,
           <<B!Call("f", "c", <<B!Const(0)>>), B!Insn("add", "b", <<c, B!Const(0)>>)>>,
           <<B!Call("f", "c", <<b>>), B!Store("b", c)>>}

\* Where a block may go: nowhere, or to one or both of the others but the entry.
Targets == {<<>>, <<"f1">>, <<"f2">>, <<"f1", "f2">>, <<"f2", "f1">>}

Goes(s, p, n) == n \in Range(s[p])

\* The shapes in which the entry goes somewhere and every block is reached.
Shapes ==
  {s \in [Blocks -> Targets] :
     /\ Goes(s, "f0", "f1") \/ (Goes(s, "f0", "f2") /\ Goes(s, "f2", "f1"))
     /\ Goes(s, "f0", "f2") \/ (Goes(s, "f0", "f1") /\ Goes(s, "f1", "f2"))}

\* The module of a shape and bodies.  The first instruction of "f" gives "b" a
\* sign, so that no operand is missing.
ModuleOf(s, body, first) ==
  [main   |-> "main",
   params |-> Params,
   blocks |-> BlocksOf(<<"f0", "f1", "f2">>),
   succs  |-> [n \in Node |-> IF n \in Blocks THEN s[n] ELSE <<>>],
   code   |-> [n \in Node |->
                 CASE n \in Blocks -> (IF n = "f0" THEN first ELSE <<>>) \o body[n]
                                        \o (IF s[n] = <<>> THEN B!Return(b) ELSE B!Jump)
                   [] n = "g0"     -> G
                   [] OTHER        -> Main]]

ModulesOf(shapes, bodies) ==
  {ModuleOf(s, body, <<B!Store("b", B!Const(1))>>) : s \in shapes, body \in bodies}

NoBody == [n \in Blocks |-> <<>>]

\* "b" is defined in some blocks only, if at all: where it is read it may have no
\* sign, as a global variable has none.
PartlyDefined ==
  {ModuleOf(s, body, <<>>) : s \in Shapes, body \in [Blocks -> {<<>>, <<B!Store("b", B!Const(1))>>}]}

\* A block that calls itself through "f" and through "g"; no other calls anything.
CallsApartModules ==
  LET twoCalls == <<B!Call("f", "c", <<b>>), B!Call("g", "b", <<c>>)>>
      bodies(n) == {body \in [Blocks -> {<<>>, <<B!Negate("b", a)>>, twoCalls}] :
                      \A p \in Blocks : body[p] = twoCalls <=> p = n}
  IN ModulesOf(Shapes, UNION {bodies(n) : n \in Blocks})

AllModules == ModulesOf(Shapes, [Blocks -> Bodies]) \cup PartlyDefined \cup CallsApartModules

-----------------------------------------------------------------------------
(***************************************************************************)
(* Modules the analysis is wrong about.                                    *)
(***************************************************************************)
Line == [n \in Blocks |-> CASE n = "f0" -> <<"f1">> [] n = "f1" -> <<"f2">> [] OTHER -> <<>>]

MCFourNode == MCNode \cup {"f3"}

\* f(a): b = 1; while(...); return b;
LoopModules == ModulesOf({[Line EXCEPT !["f1"] = <<"f1", "f2">>]}, {NoBody})

\* f(a): b = 1; if(a || b) a = 1; return b;      f2 loads b, f1 assigns, f3 returns
OrModules ==
  {[main   |-> "main",
    params |-> Params,
    blocks |-> BlocksOf(<<"f0", "f2", "f1", "f3">>),
    succs  |-> [n \in Node |-> CASE n = "f0" -> <<"f1", "f2">>
                                 [] n = "f2" -> <<"f1", "f3">>
                                 [] n = "f1" -> <<"f3">>
                                 [] OTHER    -> <<>>],
    code   |-> [n \in Node |-> CASE n = "m"  -> Main
                                 [] n = "g0" -> G
                                 [] n = "f0" -> <<B!Store("b", B!Const(1))>> \o B!Jump
                                 [] n = "f1" -> <<B!Store("a", B!Const(1))>> \o B!Jump
                                 [] n = "f2" -> <<B!Insn("load", "c", <<b>>)>> \o B!Jump
                                 [] OTHER    -> B!Return(b)]]}

\* Both lose the exit value of f.
LostExitModules == LoopModules \cup OrModules

\* f(a): switch(...) { case 0: return -f(0); case 1: return f(0); default: return 1; }
\* main: return f(0);
CallZero == B!Call("f", "c", <<B!Const(0)>>)

TwoCallModules ==
  {[main   |-> "main",
    params |-> Params,
    blocks |-> BlocksOf(<<"f0", "f1", "f2", "f3">>),
    succs  |-> [n \in Node |-> IF n = "f0" THEN <<"f1", "f2", "f3">> ELSE <<>>],
    code   |-> [n \in Node |->
                  CASE n = "f1" -> <<CallZero, B!Negate("b", c)>> \o B!Return(b)
                    [] n = "f3" -> B!Return(B!Const(1))
                    [] n = "f0" -> B!Jump
                    [] n = "g0" -> G
                    [] OTHER    -> <<CallZero>> \o B!Return(c)]]}

\* f(a): if(...) { c = f(0); b = f(1); return -c; } return 1;    in one block
SharedSiteModules ==
  {ModuleOf([n \in Blocks |-> IF n = "f0" THEN <<"f1", "f2">> ELSE <<>>],
            [NoBody EXCEPT !["f1"] = <<CallZero, B!Call("f", "b", <<B!Const(1)>>),
                                       B!Negate("b", c)>>],
            <<B!Store("b", B!Const(1))>>)}

\* "f" has no parameter and no local variable, and its first block only branches.
BareEntryModules ==
  {[ModuleOf(Line, [NoBody EXCEPT !["f1"] = <<B!Store("b", B!Const(1))>>], <<>>)
      EXCEPT !.params["f"] = <<>>,
             !.code["m"] = <<B!Call("f", "b", <<>>)>> \o B!Return(b),
             !.code["g0"] = B!Return(a)]}
=============================================================================
