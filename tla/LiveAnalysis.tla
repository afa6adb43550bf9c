---------------------------- MODULE LiveAnalysis ----------------------------
(***************************************************************************)
(* LiveAnalysis::run of assign4/lva.cpp: live variables of one function,   *)
(* by rounds over all its blocks until no round adds a value to the set    *)
(* before a block.                                                         *)
(*                                                                         *)
(* The code keeps sets before and after every instruction.  Only those at  *)
(* the ends of a block are read again before they are recomputed, and only *)
(* they are state here: In[b] is In[first instruction], Out[b] and         *)
(* OutKill[b] are Out[terminator] and OutKill[terminator].  One action is  *)
(* one turn of a loop of the code.                                         *)
(*                                                                         *)
(* An instruction is what the pass reads of it: the value it kills (its    *)
(* result; for a store its pointer), the values it generates (its          *)
(* operands; for a store the stored one) and, of a phi node, which value   *)
(* comes from which predecessor.  A local variable is its alloca.          *)
(***************************************************************************)
EXTENDS Integers, FiniteSets, SequencesExt

CONSTANTS Value,        \* instructions and arguments
          Node,         \* basic blocks
          FunctionSet,  \* the functions considered, every block reachable
          NULL          \* no block

Insn == {i \in [kill : SUBSET Value, gen : SUBSET Value, incoming : SUBSET (Value \X Node)] :
           i.incoming # {} => i.gen = {e[1] : e \in i.incoming}}

Function == [entry : Node, succs : [Node -> SUBSET Node], code : [Node -> Seq(Insn)]]

ASSUME FunctionsAssumption == FunctionSet \subseteq Function
ASSUME NodeAssumption == IsFiniteSet(Node) /\ NULL \notin Node

VARIABLES F,         \* the function; never changes
          order,     \* its blocks in depth_first order; never changes
          workList,  \* a stack
          change,
          BB,        \* the block taken from it
          pc,        \* how many of its instructions are left, the first ones
          live,      \* In of the instruction after those, or Out of the block
          In, Out, OutKill

block == <<BB, pc, live>>
sets  == <<In, Out, OutKill>>
vars  == <<F, order, workList, change, block, sets>>

BlockSets == [Node -> SUBSET Value]

\* The worklist is what is left of one round.
TypeOK == /\ F \in Function
          /\ order \in Seq(Node) /\ IsPrefix(workList, order)
          /\ change \in BOOLEAN
          /\ BB \in Node \cup {NULL}
          /\ pc \in 0..(IF BB = NULL THEN 0 ELSE Len(F.code[BB]))
          /\ live \in SUBSET Value
          /\ In \in BlockSets /\ Out \in BlockSets /\ OutKill \in BlockSets

PredsOf(b) == {p \in Node : b \in F.succs[p]}

\* A preorder of a depth first search: every block after the first is a
\* successor of the last one before it that has a successor not yet seen.
IsDepthFirst(f, o) ==
  /\ o[1] = f.entry
  /\ \A i \in 2..Len(o) : \E j \in 1..i - 1 :
       /\ o[i] \in f.succs[o[j]]
       /\ \A k \in j + 1..i - 1 : f.succs[o[k]] \subseteq {o[l] : l \in 1..i - 1}

Init == /\ F \in FunctionSet
        /\ order \in {o \in SetToSeqs(Node) : IsDepthFirst(F, o)}
        /\ workList = <<>>
        /\ change = TRUE
        /\ BB = NULL /\ pc = 0 /\ live = {}
        /\ In = [b \in Node |-> {}] /\ Out = In /\ OutKill = In

-----------------------------------------------------------------------------
\* Mutant: a change starts another round at once.
StartRoundEarly == /\ change /\ BB = NULL
                   /\ change' = FALSE
                   /\ workList' = workList \o order
                   /\ UNCHANGED <<F, order, block, sets>>

\* A round: every block, the last of the preorder first.
StartRound == /\ change /\ workList = <<>> /\ BB = NULL
              /\ change' = FALSE
              /\ workList' = order
              /\ UNCHANGED <<F, order, block, sets>>

\* Out only grows by what the successors have now, less what their phi nodes kill.
TakeBlock ==
  /\ workList # <<>> /\ BB = NULL
  /\ LET b   == Last(workList)
         out == (Out[b] \cup UNION {In[s] : s \in F.succs[b]}) \ OutKill[b]
     IN /\ BB' = b
        /\ pc' = Len(F.code[b])
        /\ live' = out
        /\ Out' = [Out EXCEPT ![b] = out]
  /\ workList' = Front(workList)
  /\ UNCHANGED <<F, order, change, In, OutKill>>

\* Mutant: nothing is killed.
ThroughKillingNothing(i, out) == out \cup i.gen

\* The value an instruction kills, then those it generates.
Through(i, out) == (out \ i.kill) \cup i.gen

\* Every operand of a phi node is dead at the end of every predecessor but the
\* one it comes from.
PhiKill(b, i, kill) ==
  [p \in Node |-> IF i.incoming # {} /\ p \in PredsOf(b)
                    THEN (kill[p] \cup i.gen) \ {v \in Value : <<v, p>> \in i.incoming}
                    ELSE kill[p]]

\* The instructions of a block are taken last to first.
ProcessInsn ==
  /\ BB # NULL /\ pc > 0
  /\ live' = Through(F.code[BB][pc], live)
  /\ OutKill' = PhiKill(BB, F.code[BB][pc], OutKill)
  /\ pc' = pc - 1
  /\ UNCHANGED <<F, order, workList, change, BB, In, Out>>

\* Mutants: the last block of a round decides alone whether there is another;
\* what a block had before is forgotten.
ChangedLast(old, new)  == ~(new \subseteq old)
ChangedAlways(old, new) == change \/ new # {}

Changed(old, new) == change \/ ~(new \subseteq old)

FinishBlock ==
  /\ BB # NULL /\ pc = 0
  /\ In' = [In EXCEPT ![BB] = live]
  /\ change' = Changed(In[BB], live)
  /\ BB' = NULL /\ live' = {} /\ UNCHANGED pc
  /\ UNCHANGED <<F, order, workList, Out, OutKill>>

Done == workList = <<>> /\ BB = NULL /\ ~change

Finish == Done /\ UNCHANGED vars

Next == StartRound \/ TakeBlock \/ ProcessInsn \/ FinishBlock \/ Finish

\* The pass is a loop that nothing interrupts.
Spec == Init /\ [][Next]_vars /\ WF_vars(Next)

-----------------------------------------------------------------------------
(***************************************************************************)
(* Liveness of variables, independently of the pass: the least sets after  *)
(* the blocks that contain what the successors' phi nodes take from a      *)
(* block and what the successors need otherwise.                           *)
(***************************************************************************)
IsPhi(i) == i.incoming # {}

\* The first k instructions of block s do not define v.
Intact(v, s, k) == \A j \in 1..k : v \notin F.code[s][j].kill

TakenFrom(b, s) == {v \in Value : \E i \in DOMAIN F.code[s] : <<v, b>> \in F.code[s][i].incoming}

\* Before s: what it uses before it defines it, and what of out it does not define.
Needed(s, out) ==
  {v \in Value :
     \/ v \in out /\ Intact(v, s, Len(F.code[s]))
     \/ \E i \in DOMAIN F.code[s] :
          v \in F.code[s][i].gen /\ ~IsPhi(F.code[s][i]) /\ Intact(v, s, i - 1)}

Closed(sol) == \A b \in Node : \A s \in F.succs[b] :
                 TakenFrom(b, s) \cup Needed(s, sol[s]) \subseteq sol[b]

LiveAfter(b) == {v \in Value : \A sol \in BlockSets : Closed(sol) => v \in sol[b]}

\* Phi nodes that do not get into each other's way: at the end of a predecessor
\* no operand is live but those taken from there, and none of those is defined
\* by an earlier phi node of the block.
PhisApart ==
  \A s \in Node : \A i \in DOMAIN F.code[s] : \A b \in PredsOf(s) :
    IsPhi(F.code[s][i]) =>
      \A v \in F.code[s][i].gen :
        IF <<v, b>> \in F.code[s][i].incoming THEN Intact(v, s, i - 1) ELSE v \notin LiveAfter(b)

\* No live value is missed: when the rounds end, every value some path from
\* the end of a block uses is in the set after the block.
Covered     == \A b \in Node : LiveAfter(b) \subseteq Out[b]
LiveCovered == Done => Covered

\* The pass fails at nothing else: without phi nodes that clash it keeps that
\* promise, although a round looks at the sets before the blocks alone.
LiveIfPhisApart == Done /\ PhisApart => Covered

\* Nothing dead is ever reported, not even halfway and whatever phi nodes there
\* are: sets only grow towards the solution, though Out is never reset between
\* the rounds and a phi node may take back what another one has killed.
NothingDead == \A b \in Node : Out[b] \subseteq LiveAfter(b)

-----------------------------------------------------------------------------
(***************************************************************************)
(* The pass as a solver of the equations of live variables, which have one *)
(* unknown for each block, the values live before it.                      *)
(***************************************************************************)
NoPhis == \A b \in Node : \A i \in DOMAIN F.code[b] : ~IsPhi(F.code[b][i])

\* What block b of function f uses before it defines it, and what is live before
\* a successor and not defined in b.
Equation(f, before, b) ==
  LET code         == f.code[b]
      intact(v, k) == \A j \in 1..k : v \notin code[j].kill
  IN {v \in Value :
        \/ intact(v, Len(code)) /\ \E s \in f.succs[b] : v \in before[s]
        \/ \E i \in DOMAIN code : v \in code[i].gen /\ intact(v, i - 1)}

AllNodes(f) == Node

Solver == INSTANCE ChaoticIteration WITH
            Output <- SUBSET Value, Problems <- FunctionSet,
            Unknowns <- AllNodes, Rhs <- Equation,
            problem <- F, sol <- In, returned <- Done

\* Without phi nodes every block finished is an equation applied to the sets of
\* now, although Out piles up what the successors ever had, and the rounds end
\* only when all equations hold.
SolvesWithoutPhis == [][NoPhis => [Solver!Next]_(Solver!vars)]_vars

\* The rounds end.
RoundsEnd == <>Done
=============================================================================
