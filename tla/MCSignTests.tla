----------------------------- MODULE MCSignTests -----------------------------
(***************************************************************************)
(* project/tests/sign_test1.c to sign_test4.c, with every choice of signs  *)
(* for their constants: "main" calls two mutually recursive functions, or  *)
(* one function from two of its blocks.                                    *)
(***************************************************************************)
EXTENDS Execution

B == INSTANCE Build

MCName   == {"a", "b", "c", RETURN}
MCMethod == {"main", "f", "g"}
MCNode   == {"m0", "m1", "m2", "m3", "f0", "f1", "f2", "f3", "g0"}

a == B!Named("a")
b == B!Named("b")
c == B!Named("c")
Signs == {B!Const(-1), B!Const(0), B!Const(1)}

NoSuccs == [n \in Node |-> <<>>]
NoCode  == [n \in Node |-> B!Return(B!Const(0))]
Params  == [h \in Method |-> CASE h = "main" -> <<>> [] h = "f" -> <<"a", "b">> [] OTHER -> <<"a">>]
Entry   == [h \in Method |-> CASE h = "main" -> <<"m0">> [] h = "f" -> <<"f0">> [] OTHER -> <<"g0">>]

\* int g(int a) { int c = f(-a, a); return c; }
\* int main() { a = p; b = f(a, y); c = g(-b); return 0; }
CallF == <<B!Negate("b", a), B!Call("f", "c", <<b, a>>)>> \o B!Return(c)
Main(p, y) == <<B!Store("a", p), B!Call("f", "b", <<a, y>>), B!Negate("c", b),
                B!Call("g", "a", <<c>>)>> \o B!Return(B!Const(0))

CallG(k) == <<B!Call("g", "b", <<k>>), B!Store("c", b)>>

\* int f(int a, int b) { int c; if(a + b == 0) c = a op b; else c = g(k); return c; }
Test1(p, y, k, op) ==
  [main |-> "main", params |-> Params,
   blocks |-> [Entry EXCEPT !["f"] = <<"f0", "f1", "f3", "f2">>],
   succs |-> [NoSuccs EXCEPT !["f0"] = <<"f1", "f2">>, !["f1"] = <<"f3">>, !["f2"] = <<"f3">>],
   code |-> [NoCode EXCEPT
               !["m0"] = Main(p, y), !["g0"] = CallF,
               !["f0"] = <<B!Insn("alloca", "c", <<>>)>> \o B!Jump,
               !["f1"] = <<B!Insn(op, "b", <<a, b>>), B!Store("c", b)>> \o B!Jump,
               !["f2"] = CallG(k) \o B!Jump,
               !["f3"] = B!Return(c)]]

\* int f(int a, int b) { int c; c = g(k); return c; }
Test3(p, y, k) ==
  [main |-> "main", params |-> Params, blocks |-> Entry, succs |-> NoSuccs,
   code |-> [NoCode EXCEPT !["m0"] = Main(p, y), !["g0"] = CallF,
                           !["f0"] = CallG(k) \o B!Return(c)]]

\* int f(int a, int b) { int c; if(1) { c = g(k); } return c; }
Test4(p, y, k) ==
  [Test3(p, y, k) EXCEPT
     !.blocks["f"] = <<"f0", "f1", "f2">>,
     !.succs["f0"] = <<"f1">>, !.succs["f1"] = <<"f2">>,
     !.code["f0"] = <<B!Insn("alloca", "c", <<>>)>> \o B!Jump,
     !.code["f1"] = CallG(k) \o B!Jump,
     !.code["f2"] = B!Return(c)]

\* int g(int a) { return k; }
\* int main() { a = g(0); b = a - 100; if(b < 0) c = a op g(0); else c = -a; return c; }
\* sign_test2's five() has no parameter; the argument here is the constant 0.
Test2(k, op) ==
  [main |-> "main", params |-> Params,
   blocks |-> [Entry EXCEPT !["main"] = <<"m0", "m1", "m3", "m2">>],
   succs |-> [NoSuccs EXCEPT !["m0"] = <<"m1", "m2">>, !["m1"] = <<"m3">>, !["m2"] = <<"m3">>],
   code |-> [NoCode EXCEPT
               !["m0"] = <<B!Call("g", "a", <<B!Const(0)>>),
                           B!Insn("sub", "b", <<a, B!Const(100)>>)>> \o B!Jump,
               !["m1"] = <<B!Call("g", "b", <<B!Const(0)>>), B!Insn(op, "c", <<a, b>>)>> \o B!Jump,
               !["m2"] = <<B!Negate("c", a)>> \o B!Jump,
               !["m3"] = B!Return(c),
               !["g0"] = B!Return(k)]]

\* Room for a - 100.
MCRepresentable == -101..101

TestModules ==
  {Test1(p, y, k, op) : p, y, k \in Signs, op \in {"add", "mul"}}
    \cup {Test3(p, y, k) : p, y, k \in Signs}
    \cup {Test4(p, y, k) : p, y, k \in Signs}
    \cup {Test2(k, op) : k \in Signs, op \in {"add", "mul", "binop"}}
=============================================================================
