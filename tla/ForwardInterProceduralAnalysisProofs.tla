---------------- MODULE ForwardInterProceduralAnalysisProofs ----------------
(***************************************************************************)
(* Theorems about the control of doAnalysis of                             *)
(* project/forward_inter_procedural_analysis.cpp, for every module, every  *)
(* number of methods, blocks and names.  It is well typed; no value        *)
(* context is created twice; no context with work left is off the stack;   *)
(* the exit marker is never in company, so the assertion of the exit       *)
(* branch holds.                                                           *)
(***************************************************************************)
EXTENDS ForwardInterProceduralAnalysis, SignAnalysisProofs, WellFoundedInduction

-----------------------------------------------------------------------------
(* The context transition table.                                           *)

LEMMA WithoutType ==
  ASSUME NEW S, NEW s \in Seq(S), NEW e
  PROVE  Without(s, e) \in Seq(S)
<1>1. CASE \E i \in DOMAIN s : s[i] = e
  <2>1. PICK i \in DOMAIN s : Without(s, e) = RemoveAt(s, i)
    BY <1>1 DEF Without
  <2>2. /\ Len(s) \in Nat /\ DOMAIN s = 1..Len(s)
        /\ \A j \in 1..Len(s) : s[j] \in S
    BY LenProperties, ElementOfSeq
  <2>3. i \in Int /\ 1 <= i /\ i <= Len(s)
    BY <2>1, <2>2
  <2>4. SubSeq(s, 1, i - 1) \in Seq(S)
    <3>1. \A j \in 1..i - 1 : s[j] \in S
      BY <2>2, <2>3
    <3>2. QED
      BY <2>3, <3>1, SubSeqProperties
  <2>5. SubSeq(s, i + 1, Len(s)) \in Seq(S)
    <3>1. \A j \in i + 1..Len(s) : s[j] \in S
      BY <2>2, <2>3
    <3>2. QED
      BY <2>2, <2>3, <3>1, SubSeqProperties
  <2>6. QED
    BY <2>1, <2>4, <2>5, ConcatProperties DEF RemoveAt
<1>2. CASE ~ \E i \in DOMAIN s : s[i] = e
  BY <1>2 DEF Without
<1>3. QED
  BY <1>1, <1>2

\* Both maps keep their types, the callers of every context whatever the set of
\* call sites they are known to be in.
LEMMA AddTransitionType ==
  ASSUME TableTypeOK, NEW site \in CallSite, NEW f \in Method, NEW target \in ContextId,
         addTransition(site, f, target)
  PROVE  /\ TableTypeOK'
         /\ DOMAIN callers' = DOMAIN callers \cup {target}
         /\ \A S : /\ \A t \in DOMAIN callers : callers[t] \in Seq(S)
                   /\ site \in S
                   => \A t \in DOMAIN callers' : callers'[t] \in Seq(S)
<1> DEFINE key     == <<site, f>>
           kept(t) == IF key \in DOMAIN transitions /\ transitions[key] = t
                        THEN Without(getCallers(t), site) ELSE getCallers(t)
<1>1. /\ transitions' = [k \in DOMAIN transitions \cup {key} |->
                           IF k = key THEN target ELSE transitions[k]]
      /\ callers' = [t \in DOMAIN callers \cup {target} |->
                       IF t = target THEN Append(kept(t), site) ELSE kept(t)]
  BY DEF addTransition
<1>2. ASSUME NEW S, \A t \in DOMAIN callers : callers[t] \in Seq(S), site \in S
      PROVE  \A t \in DOMAIN callers' : callers'[t] \in Seq(S)
  <2>1. \A t : getCallers(t) \in Seq(S)
    BY <1>2 DEF getCallers
  <2>2. \A t : kept(t) \in Seq(S)
    BY <2>1, WithoutType
  <2>3. \A t : Append(kept(t), site) \in Seq(S)
    BY <1>2, <2>2, AppendProperties
  <2>4. QED
    BY <1>1, <2>2, <2>3
<1>3. DOMAIN callers' = DOMAIN callers \cup {target}
  BY <1>1
<1>4. callers' \in [DOMAIN callers' -> Seq(CallSite)] /\ DOMAIN callers' \subseteq ContextId
  <2>1. \A t \in DOMAIN callers : callers[t] \in Seq(CallSite)
    BY DEF TableTypeOK
  <2>2. \A t \in DOMAIN callers' : callers'[t] \in Seq(CallSite)
    BY <1>2, <2>1
  <2>3. callers' = [t \in DOMAIN callers' |-> callers'[t]]
    BY <1>1
  <2>4. QED
    BY <1>3, <2>2, <2>3 DEF TableTypeOK
<1>5. transitions' \in [DOMAIN transitions' -> ContextId]
      /\ DOMAIN transitions' \subseteq CallSite \X Method
  BY <1>1 DEF TableTypeOK
<1>6. QED
  BY <1>2, <1>3, <1>4, <1>5 DEF TableTypeOK

-----------------------------------------------------------------------------
(* The data.                                                               *)

LEMMA FrontProperty ==
  ASSUME NEW S, NEW s \in Seq(S), s # <<>>
  PROVE  /\ Front(s) \in Seq(S)
         /\ Len(s) \in Nat \ {0}
         /\ Len(Front(s)) = Len(s) - 1
         /\ \A i \in 1..Len(s) - 1 : Front(s)[i] = s[i]
         /\ Last(s) = s[Len(s)]
         /\ Last(s) \in S
<1>1. Len(s) \in Nat \ {0}
  BY EmptySeq
<1>2. \A i \in 1..Len(s) : s[i] \in S
  BY ElementOfSeq
<1>3. /\ SubSeq(s, 1, Len(s) - 1) \in Seq(S)
      /\ Len(SubSeq(s, 1, Len(s) - 1)) = IF 1 <= Len(s) - 1 THEN Len(s) - 1 - 1 + 1 ELSE 0
      /\ \A i \in 1..Len(s) - 1 - 1 + 1 : SubSeq(s, 1, Len(s) - 1)[i] = s[1 + i - 1]
  <2>1. \A i \in 1..Len(s) - 1 : s[i] \in S
    BY <1>1, <1>2
  <2>2. 1 \in Int /\ Len(s) - 1 \in Int
    BY <1>1
  <2>3. QED
    BY <2>1, <2>2, SubSeqProperties
<1>4. Front(s) \in Seq(S) /\ Len(Front(s)) = Len(s) - 1
  <2>1. (IF 1 <= Len(s) - 1 THEN Len(s) - 1 - 1 + 1 ELSE 0) = Len(s) - 1
    <3>1. \A k \in Nat \ {0} : (IF 1 <= k - 1 THEN k - 1 - 1 + 1 ELSE 0) = k - 1
      OBVIOUS
    <3>2. QED
      BY <1>1, <3>1
  <2>2. Front(s) = SubSeq(s, 1, Len(s) - 1)
    BY DEF Front
  <2>3. QED
    BY <1>3, <2>1, <2>2, Zenon
<1>5. \A i \in 1..Len(s) - 1 : Front(s)[i] = s[i]
  BY <1>1, <1>3 DEF Front
<1>6. Last(s) = s[Len(s)] /\ Last(s) \in S
  BY <1>1, <1>2 DEF Last
<1>7. QED
  BY <1>1, <1>4, <1>5, <1>6

LEMMA LeastElement ==
  ASSUME NEW T, T \subseteq Nat, T # {}
  PROVE  \E x \in T : \A y \in T : x <= y
<1> DEFINE R == {ss \in Nat \X Nat : ss[1] < ss[2]}
<1>1. IsWellFoundedOn(R, Nat)
  BY NatLessThanWellFounded DEF OpToRel
<1>2. \E x \in T : \A y \in T : <<y, x>> \notin R
  <2> HIDE DEF R
  <2> QED
    BY <1>1, WFMin
<1>3. \A x, y \in Nat : <<y, x>> \notin R => x <= y
  OBVIOUS
<1>4. QED
  BY <1>2, <1>3

\* What one assignment to a member of a context leaves as it is.
LEMMA ContextFields ==
  ASSUME NEW c \in Context
  PROVE  /\ c.method \in Method /\ c.entryValue \in Values /\ c.exitValue \in Values
         /\ c.before \in [Node -> Values] /\ c.after \in [Node -> Values]
         /\ c.worklist \in Seq(Node \cup {NULL})
         /\ [c EXCEPT !.analysed = TRUE] \in Context
         /\ \A w \in Seq(Node \cup {NULL}) : [c EXCEPT !.worklist = w] \in Context
         /\ \A n \in Node, v \in Values :
              /\ [c EXCEPT !.before[n] = v] \in Context
              /\ [c EXCEPT !.after[n] = v] \in Context
         /\ \A v \in Values : [c EXCEPT !.exitValue = v, !.analysed = TRUE] \in Context
BY DEF Context

LEMMA UpdateContext ==
  ASSUME contexts \in Seq(Context), NEW c \in DOMAIN contexts, NEW r \in Context,
         contexts' = [contexts EXCEPT ![c] = r]
  PROVE  /\ contexts' \in Seq(Context)
         /\ DOMAIN contexts' = DOMAIN contexts
         /\ contexts'[c] = r
         /\ \A d \in DOMAIN contexts : d # c => contexts'[d] = contexts[d]
<1>1. DOMAIN contexts = 1..Len(contexts)
  BY LenProperties
<1>2. QED
  BY <1>1, ExceptSeq

LEMMA ModuleType ==
  ASSUME module \in Module
  PROVE  /\ module.main \in Method
         /\ \A f \in Method : /\ module.params[f] \in Seq(Name)
                              /\ module.blocks[f] \in Seq(Node)
                              /\ EntryNode(f) \in Node
         /\ \A n \in Node :
              /\ SuccsOf(n) \in Seq(Node)
              /\ module.code[n] \in Seq(Instruction)
              /\ Len(module.code[n]) \in Nat
              /\ \A i \in 1..Len(module.code[n]) :
                   /\ module.code[n][i] \in Instruction
                   /\ module.code[n][i].op = "call" =>
                        Len(module.params[module.code[n][i].callee])
                          = Len(module.code[n][i].operands)
<1>1. /\ module.main \in Method
      /\ module.params \in [Method -> Seq(Name)]
      /\ module.blocks \in [Method -> Seq(Node)]
      /\ module.succs \in [Node -> Seq(Node)]
      /\ module.code \in [Node -> Seq(Instruction)]
      /\ WellFormed(module)
  BY DEF Module
<1>2. ASSUME NEW f \in Method
      PROVE  EntryNode(f) \in Node
  <2>1. module.blocks[f] \in Seq(Node) /\ module.blocks[f] # <<>>
    BY <1>1 DEF WellFormed
  <2>2. 1 \in 1..Len(module.blocks[f])
    BY <2>1, EmptySeq
  <2>3. QED
    BY <2>1, <2>2, ElementOfSeq DEF EntryNode
<1>3. ASSUME NEW n \in Node
      PROVE  /\ module.code[n] \in Seq(Instruction)
             /\ Len(module.code[n]) \in Nat
             /\ \A i \in 1..Len(module.code[n]) :
                   /\ module.code[n][i] \in Instruction
                   /\ module.code[n][i].op = "call" =>
                        Len(module.params[module.code[n][i].callee])
                          = Len(module.code[n][i].operands)
  <2>1. module.code[n] \in Seq(Instruction)
    BY <1>1
  <2>2. DOMAIN module.code[n] = 1..Len(module.code[n]) /\ Len(module.code[n]) \in Nat
    BY <2>1, LenProperties
  <2>3. \A i \in 1..Len(module.code[n]) : module.code[n][i] \in Instruction
    BY <2>1, ElementOfSeq
  <2>4. QED
    BY <1>1, <2>1, <2>2, <2>3 DEF WellFormed
<1>4. QED
  BY <1>1, <1>2, <1>3 DEF SuccsOf

LEMMA InitContextType ==
  ASSUME module \in Module, NEW f \in Method, NEW v \in Values
  PROVE  InitContext(f, v) \in Context
<1>1. EntryNode(f) \in Node
  BY ModuleType
<1>2. <<EntryNode(f)>> \in Seq(Node \cup {NULL})
  BY <1>1
<1>3. [n \in Node |-> IF n = EntryNode(f) THEN v ELSE topValue] \in [Node -> Values]
  BY TopValueType
<1>4. [n \in Node |-> topValue] \in [Node -> Values]
  BY TopValueType
<1>5. QED
  BY <1>2, <1>3, <1>4, TopValueType DEF InitContext, Context

LEMMA CallExitType ==
  ASSUME NEW i \in Instruction, NEW exit \in Values
  PROVE  callExitFlowFunction(i, exit) \in Values
<1>1. i.def \in Name /\ TOP \in SIGN
  BY InstructionOperands DEF SIGN
<1>2. exit[RETURN] \in SIGN \cup {Absent}
  BY NameAssumption DEF Values
<1>3. QED
  BY <1>1, <1>2, TopValueType DEF callExitFlowFunction, Values

-----------------------------------------------------------------------------
(* Types.  TypeOK is not inductive: current is a context, node a node and  *)
(* pc an instruction only where doAnalysis has set them, and a call site   *)
(* can be notified only if its context exists.                             *)

Sites == [context : DOMAIN contexts, node : Node]

Control ==
  /\ at \in {"meet", "flow"} => current \in DOMAIN contexts /\ node \in Node
  /\ at \in {"exit", "notify"} => current \in DOMAIN contexts
  /\ at = "flow" => pc >= 1
  /\ at = "notify" => sites # <<>>
  /\ sites \in Seq(Sites)
  /\ \A t \in DOMAIN callers : callers[t] \in Seq(Sites)

TypeInv == TypeOK /\ Control

LEMMA ContextsDomain ==
  ASSUME TypeOK
  PROVE  /\ Len(contexts) \in Nat
         /\ DOMAIN contexts = 1..Len(contexts)
         /\ DOMAIN contexts \subseteq ContextId
         /\ \A c \in DOMAIN contexts : contexts[c] \in Context
<1>1. contexts \in Seq(Context)
  BY DEF TypeOK
<1>2. Len(contexts) \in Nat /\ DOMAIN contexts = 1..Len(contexts)
  BY <1>1, LenProperties
<1>3. \A c \in 1..Len(contexts) : contexts[c] \in Context
  BY <1>1, ElementOfSeq
<1>4. QED
  BY <1>2, <1>3 DEF ContextId

\* While the set of contexts and the callers stay as they are.
LEMMA SameDomain ==
  ASSUME TypeInv, DOMAIN contexts' = DOMAIN contexts
  PROVE  /\ Sites' = Sites
         /\ DOMAIN callers \subseteq DOMAIN contexts'
         /\ workList \in Seq(DOMAIN contexts')
         /\ current \in DOMAIN contexts' \cup {0}
         /\ sites \in Seq(Sites')
         /\ \A t \in DOMAIN callers : callers[t] \in Seq(Sites')
BY DEF TypeInv, TypeOK, Control, Sites

LEMMA TopType ==
  ASSUME TypeOK, workList # <<>>
  PROVE  /\ top \in DOMAIN contexts
         /\ Front(workList) \in Seq(DOMAIN contexts)
BY FrontProperty DEF TypeOK, top

LEMMA TypeInit ==
  ASSUME Init
  PROVE  TypeInv
<1>1. module \in Module
  BY ModulesAssumption DEF Init
<1>2. InitContext(module.main, topValue) \in Context
  BY <1>1, ModuleType, InitContextType, TopValueType
<1>3. contexts \in Seq(Context) /\ DOMAIN contexts = {1}
  BY <1>2 DEF Init
<1>4. workList \in Seq(DOMAIN contexts)
  BY <1>3 DEF Init
<1>5. TableTypeOK /\ DOMAIN callers = {}
  BY DEF Init, TableInit, TableTypeOK
<1>6. TypeOK
  BY <1>1, <1>3, <1>4, <1>5, TopValueType DEF Init, TypeOK
<1>7. Control
  BY <1>5 DEF Init, Control
<1>8. QED
  BY <1>6, <1>7 DEF TypeInv

\* The head of the loop.
LEMMA TypeLoop ==
  ASSUME TypeInv, PopContext \/ TakeNode \/ TakeExitMarker
  PROVE  TypeInv'
<1> USE DEF TypeInv
<1>1. CASE PopContext
  <2>1. top \in DOMAIN contexts /\ Front(workList) \in Seq(DOMAIN contexts)
    BY <1>1, TopType DEF PopContext
  <2>2. [contexts[top] EXCEPT !.analysed = TRUE] \in Context
    BY <2>1, ContextsDomain, ContextFields
  <2>3. contexts' \in Seq(Context) /\ DOMAIN contexts' = DOMAIN contexts
    BY <1>1, <2>1, <2>2, UpdateContext DEF PopContext, TypeOK
  <2>4. TypeOK'
    BY <1>1, <2>1, <2>3 DEF PopContext, TypeOK, TableTypeOK, locals, tableVars
  <2>5. Control'
    BY <1>1, <2>3, SameDomain DEF PopContext, Control, locals, tableVars
  <2>6. QED
    BY <2>4, <2>5
<1>2. CASE TakeNode \/ TakeExitMarker
  <2>1. top \in DOMAIN contexts /\ contexts[top].worklist # <<>> /\ Pop(top)
    BY <1>2, TopType DEF TakeNode, TakeExitMarker
  <2>2. /\ contexts[top].worklist \in Seq(Node \cup {NULL})
        /\ contexts[top].method \in Method
    BY <2>1, ContextsDomain, ContextFields
  <2>3. Front(contexts[top].worklist) \in Seq(Node \cup {NULL})
    BY <2>1, <2>2, FrontProperty
  <2>4. getLastWorklist(top) \in Node \cup {NULL}
    BY <2>1, <2>2, FrontProperty DEF getLastWorklist
  <2>5. [contexts[top] EXCEPT !.worklist = Front(@)] \in Context
    BY <2>1, <2>3, ContextsDomain, ContextFields
  <2>6. contexts' \in Seq(Context) /\ DOMAIN contexts' = DOMAIN contexts
    BY <2>1, <2>5, UpdateContext DEF Pop, TypeOK
  <2>7. TailsOf(contexts[top].method) \subseteq Node
    <3>1. module.blocks[contexts[top].method] \in Seq(Node)
      BY <2>2, ModuleType DEF TypeOK
    <3>2. QED
      BY <3>1, RangeOfSeq DEF TailsOf
  <2>8. current' = top /\ at' \in {"meet", "exit", "aborted"} /\ todo' \subseteq Node
        /\ node' \in Node \cup {NULL} /\ (at' = "meet" => node' \in Node)
        /\ UNCHANGED <<module, workList, callers, transitions, pc, value, sites>>
    BY <1>2, <2>4, <2>7 DEF TakeNode, TakeExitMarker, PredsOf, TypeOK, tableVars
  <2>9. TypeOK'
    BY <2>1, <2>6, <2>8 DEF TypeOK, TableTypeOK
  <2>10. Control'
    BY <2>1, <2>6, <2>8, SameDomain DEF Control
  <2>11. QED
    BY <2>9, <2>10
<1>3. QED
  BY <1>1, <1>2

\* The values met before a node and before an exit.
LEMMA TypeMeet ==
  ASSUME TypeInv, MeetPredecessor \/ EnterNode \/ MeetTail
  PROVE  TypeInv'
<1> USE DEF TypeInv
<1>1. CASE MeetPredecessor \/ MeetTail
  <2>1. current \in DOMAIN contexts
    BY <1>1 DEF MeetPredecessor, MeetTail, Control
  <2>2. \A p \in Node : this.after[p] \in Values
    BY <2>1, ContextsDomain, ContextFields DEF this
  <2>3. \A p \in Node : meet(value, this.after[p]) \in Values
    BY <2>2, MeetType DEF TypeOK
  <2>4. /\ value' \in Values /\ todo' \subseteq Node
        /\ UNCHANGED <<module, contexts, workList, tableVars, at, current, node, pc, sites>>
    BY <1>1, <2>3 DEF MeetPredecessor, MeetTail, TypeOK
  <2>5. TypeOK'
    BY <2>4 DEF TypeOK, TableTypeOK, tableVars
  <2>6. Control'
    BY <2>4 DEF Control, tableVars, Sites
  <2>7. QED
    BY <2>5, <2>6
<1>2. CASE EnterNode
  <2>1. current \in DOMAIN contexts /\ node \in Node /\ at = "meet"
    BY <1>2 DEF EnterNode, Control
  <2>2. this.before[node] \in Values /\ [this EXCEPT !.before[node] = value] \in Context
    BY <2>1, ContextsDomain, ContextFields DEF this, TypeOK
  <2>3. CASE PredsOf(node) = {}
    <3>1. /\ value' \in Values /\ at' = "flow" /\ pc' = 1
          /\ UNCHANGED <<module, contexts, workList, tableVars, current, node, todo, sites>>
      BY <1>2, <2>2, <2>3 DEF EnterNode
    <3>2. TypeOK'
      BY <3>1 DEF TypeOK, TableTypeOK, tableVars
    <3>3. Control'
      BY <2>1, <3>1, SameDomain DEF Control, tableVars
    <3>4. QED
      BY <3>2, <3>3
  <2>4. CASE PredsOf(node) # {}
    <3>1. /\ contexts' = [contexts EXCEPT ![current] = [this EXCEPT !.before[node] = value]]
          /\ at' = "flow" /\ pc' = 1
          /\ UNCHANGED <<module, workList, tableVars, value, current, node, todo, sites>>
      BY <1>2, <2>4 DEF EnterNode, this
    <3>2. contexts' \in Seq(Context) /\ DOMAIN contexts' = DOMAIN contexts
      BY <2>1, <2>2, <3>1, UpdateContext DEF TypeOK
    <3>3. TypeOK'
      BY <3>1, <3>2 DEF TypeOK, TableTypeOK, tableVars
    <3>4. Control'
      BY <2>1, <3>1, <3>2, SameDomain DEF Control, tableVars
    <3>5. QED
      BY <3>3, <3>4
  <2>5. QED
    BY <2>3, <2>4
<1>3. QED
  BY <1>1, <1>2

\* Where an instruction is executed.
LEMMA InstructionType ==
  ASSUME TypeInv, AtInstruction
  PROVE  /\ at = "flow" /\ current \in DOMAIN contexts /\ node \in Node
         /\ this \in Context
         /\ insn \in Instruction
         /\ insn.callee \in Method
         /\ pc + 1 \in Nat /\ pc + 1 >= 1
         /\ callSite \in Sites /\ callSite \in CallSite
         /\ insn.op = "call" /\ OperandsDefined(value, insn) =>
              /\ entryValue \in Values
              /\ \A x \in Name : entryValue[x] # Absent <=> x \in Range(module.params[insn.callee])
         /\ pc \in DOMAIN module.code[node]
<1>1. at = "flow" /\ current \in DOMAIN contexts /\ node \in Node
  BY DEF AtInstruction, TypeInv, Control
<1>2. pc \in 1..Len(module.code[node]) /\ pc \in Nat
  <2>1. Len(module.code[node]) \in Nat /\ pc \in Nat /\ pc >= 1
    BY <1>1, ModuleType DEF TypeInv, TypeOK, Control
  <2>2. QED
    BY <2>1 DEF AtInstruction
<1>3. /\ insn \in Instruction
      /\ insn.op = "call" => Len(module.params[insn.callee]) = Len(insn.operands)
  BY <1>1, <1>2, ModuleType DEF insn, TypeInv, TypeOK
<1>4. insn.callee \in Method
  BY <1>3, InstructionOperands
<1>5. module.params[insn.callee] \in Seq(Name)
  BY <1>4, ModuleType DEF TypeInv, TypeOK
<1>6. insn.op = "call" /\ OperandsDefined(value, insn) =>
        /\ entryValue \in Values
        /\ \A x \in Name : entryValue[x] # Absent <=> x \in Range(module.params[insn.callee])
  BY <1>3, <1>5, CallEntryType DEF entryValue, TypeInv, TypeOK
<1>7. callSite \in Sites /\ callSite \in CallSite
  BY <1>1, ContextsDomain DEF callSite, Sites, CallSite, TypeInv
<1>8. pc \in DOMAIN module.code[node]
  BY <1>1, <1>2, ModuleType, LenProperties DEF TypeInv, TypeOK
<1>9. QED
  BY <1>1, <1>2, <1>3, <1>4, <1>6, <1>7, <1>8, ContextsDomain DEF this, TypeInv

\* Instructions other than calls.
LEMMA TypeInstruction ==
  ASSUME TypeInv, FlowInstruction \/ MissingOperand
  PROVE  TypeInv'
<1>1. AtInstruction
  BY DEF FlowInstruction, MissingOperand
<1>2. /\ at' \in {"flow", "aborted"} /\ pc' \in Nat /\ pc' >= 1 /\ value' \in Values
      /\ UNCHANGED <<module, contexts, workList, tableVars, current, node, todo, sites>>
  <2>1. CASE FlowInstruction
    <3>1. normalFlow(insn, value) \in Values
      BY <1>1, <2>1, InstructionType, NormalFlowType DEF FlowInstruction, TypeInv, TypeOK
    <3>2. QED
      BY <1>1, <2>1, <3>1, InstructionType DEF FlowInstruction
  <2>2. CASE MissingOperand
    BY <1>1, <2>2, InstructionType DEF MissingOperand, TypeInv, TypeOK, Control
  <2>3. QED
    BY <2>1, <2>2
<1>3. TypeOK'
  BY <1>2 DEF TypeInv, TypeOK, TableTypeOK, tableVars
<1>4. current \in DOMAIN contexts /\ node \in Node
  BY <1>1, InstructionType
<1>5. Control'
  BY <1>2, <1>4, SameDomain DEF Control, tableVars
<1>6. QED
  BY <1>3, <1>5 DEF TypeInv

LEMMA GetContext ==
  ASSUME TypeOK, NEW f, NEW v, ContextsOf(f, v) # {}
  PROVE  /\ getContext(f, v) \in ContextsOf(f, v)
         /\ getContext(f, v) \in DOMAIN contexts
         /\ contexts[getContext(f, v)].method = f
         /\ contexts[getContext(f, v)].entryValue = v
<1>1. DOMAIN contexts \subseteq Nat /\ ContextsOf(f, v) \subseteq DOMAIN contexts
  BY ContextsDomain DEF ContextsOf, ContextId
<1>2. \E c \in ContextsOf(f, v) : \A d \in ContextsOf(f, v) : c <= d
  BY <1>1, LeastElement
<1>3. getContext(f, v) \in ContextsOf(f, v)
  BY <1>2 DEF getContext
<1>4. QED
  BY <1>1, <1>3 DEF ContextsOf

\* A call that leads to an existing context.
LEMMA TypeCallKnown ==
  ASSUME TypeInv, CallKnownContext
  PROVE  TypeInv'
<1> DEFINE target == getContext(insn.callee, entryValue)
<1>1. /\ AtInstruction
      /\ ContextsOf(insn.callee, entryValue) # {}
      /\ addTransition(callSite, insn.callee, target)
      /\ value' = meet(value, callExitFlowFunction(insn, contexts[target].exitValue))
      /\ pc' = pc + 1
      /\ UNCHANGED <<module, contexts, workList, at, current, node, todo, sites>>
  BY DEF CallKnownContext, AtCall
<1>2. target \in DOMAIN contexts /\ target \in ContextId
  BY <1>1, GetContext, ContextsDomain DEF TypeInv
<1>3. /\ TableTypeOK' /\ DOMAIN callers' = DOMAIN callers \cup {target}
      /\ \A t \in DOMAIN callers' : callers'[t] \in Seq(Sites)
  BY <1>1, <1>2, InstructionType, AddTransitionType DEF TypeInv, TypeOK, Control
<1>4. value' \in Values
  <2>1. contexts[target].exitValue \in Values
    BY <1>2, ContextsDomain, ContextFields DEF TypeInv
  <2>2. QED
    BY <1>1, <2>1, InstructionType, CallExitType, MeetType DEF TypeInv, TypeOK
<1>5. TypeOK'
  BY <1>1, <1>2, <1>3, <1>4, InstructionType DEF TypeInv, TypeOK
<1>6. Control'
  BY <1>1, <1>3, InstructionType, SameDomain DEF TypeInv, Control
<1>7. QED
  BY <1>5, <1>6 DEF TypeInv

\* A call that needs a new context: what happens to contexts.
LEMMA NewContext ==
  ASSUME TypeInv, CallNewContext
  PROVE  /\ InitContext(insn.callee, entryValue) \in Context
         /\ contexts' \in Seq(Context)
         /\ DOMAIN contexts' = DOMAIN contexts \cup {Len(contexts) + 1}
         /\ Len(contexts) + 1 \notin DOMAIN contexts
         /\ Len(contexts) + 1 \in ContextId
         /\ contexts'[Len(contexts) + 1] = InitContext(insn.callee, entryValue)
         /\ contexts'[current] = [this EXCEPT !.worklist = Append(@, node)]
         /\ \A c \in DOMAIN contexts : c # current => contexts'[c] = contexts[c]
<1> DEFINE waiting == [contexts EXCEPT ![current] = [this EXCEPT !.worklist = Append(@, node)]]
<1>1. /\ AtCall /\ AtInstruction
      /\ contexts' = Append(waiting, InitContext(insn.callee, entryValue))
  BY DEF CallNewContext, AtCall, this
<1>2. InitContext(insn.callee, entryValue) \in Context
  BY <1>1, InstructionType, InitContextType DEF AtCall, TypeInv, TypeOK
<1>3. [this EXCEPT !.worklist = Append(@, node)] \in Context
  <2>1. this.worklist \in Seq(Node \cup {NULL}) /\ node \in Node \cup {NULL}
    BY <1>1, InstructionType, ContextFields
  <2>2. Append(this.worklist, node) \in Seq(Node \cup {NULL})
    BY <2>1, AppendProperties
  <2>3. QED
    BY <1>1, <2>2, InstructionType, ContextFields
<1>4. /\ waiting \in Seq(Context) /\ Len(waiting) = Len(contexts)
      /\ DOMAIN waiting = DOMAIN contexts
      /\ waiting[current] = [this EXCEPT !.worklist = Append(@, node)]
      /\ \A c \in DOMAIN contexts : c # current => waiting[c] = contexts[c]
  <2> HIDE DEF waiting
  <2>1. DOMAIN contexts = 1..Len(contexts) /\ contexts \in Seq(Context)
    BY ContextsDomain DEF TypeInv, TypeOK
  <2>2. current \in DOMAIN contexts
    BY <1>1, InstructionType
  <2>3. QED
    BY <1>3, <2>1, <2>2, ExceptSeq DEF waiting
<1>5. /\ contexts' \in Seq(Context)
      /\ Len(contexts') = Len(contexts) + 1
      /\ DOMAIN contexts' = 1..Len(contexts')
      /\ \A c \in 1..Len(contexts) : contexts'[c] = waiting[c]
      /\ contexts'[Len(contexts) + 1] = InitContext(insn.callee, entryValue)
  <2> HIDE DEF waiting
  <2>1. QED
    BY <1>1, <1>2, <1>4, AppendProperties, LenProperties
<1>6. /\ DOMAIN contexts = 1..Len(contexts) /\ Len(contexts) \in Nat
      /\ current \in DOMAIN contexts
  BY <1>1, ContextsDomain, InstructionType DEF TypeInv
<1>7. QED
  <2> HIDE DEF waiting
  <2>1. DOMAIN contexts' = DOMAIN contexts \cup {Len(contexts) + 1}
    BY <1>5, <1>6
  <2>2. Len(contexts) + 1 \notin DOMAIN contexts /\ Len(contexts) + 1 \in ContextId
    BY <1>6 DEF ContextId
  <2>3. contexts'[current] = [this EXCEPT !.worklist = Append(@, node)]
    BY <1>4, <1>5, <1>6
  <2>4. \A c \in DOMAIN contexts : c # current => contexts'[c] = contexts[c]
    BY <1>4, <1>5, <1>6
  <2>5. QED
    BY <1>2, <1>5, <2>1, <2>2, <2>3, <2>4

LEMMA TypeCallNew ==
  ASSUME TypeInv, CallNewContext
  PROVE  TypeInv'
<1> DEFINE new == Len(contexts) + 1
<1>1. /\ AtInstruction
      /\ workList' = Append(workList, new)
      /\ addTransition(callSite, insn.callee, new)
      /\ value' = this.after[node]
      /\ pc' = Len(module.code[node]) + 1
      /\ UNCHANGED <<module, at, current, node, todo, sites>>
  BY DEF CallNewContext, AtCall
<1>2. /\ contexts' \in Seq(Context)
      /\ DOMAIN contexts' = DOMAIN contexts \cup {new}
      /\ new \in ContextId
  BY NewContext
<1>3. Sites \subseteq Sites'
  BY <1>2 DEF Sites
<1>4. /\ TableTypeOK' /\ DOMAIN callers' = DOMAIN callers \cup {new}
      /\ \A t \in DOMAIN callers' : callers'[t] \in Seq(Sites)
  BY <1>1, <1>2, InstructionType, AddTransitionType DEF TypeInv, TypeOK, Control
<1>5. \A t \in DOMAIN callers' : callers'[t] \in Seq(Sites')
  BY <1>3, <1>4, SeqMonotonic
<1>6. sites \in Seq(Sites')
  BY <1>3, SeqMonotonic DEF TypeInv, Control
<1>7. workList' \in Seq(DOMAIN contexts')
  <2>1. workList \in Seq(DOMAIN contexts')
    BY <1>2, SeqMonotonic DEF TypeInv, TypeOK
  <2>2. QED
    BY <1>1, <1>2, <2>1, AppendProperties
<1>8. value' \in Values /\ pc' \in Nat /\ pc' >= 1
  <2>1. this.after[node] \in Values
    BY <1>1, InstructionType, ContextFields
  <2>2. Len(module.code[node]) \in Nat
    BY <1>1, InstructionType, ModuleType DEF TypeInv, TypeOK
  <2>3. QED
    BY <1>1, <2>1, <2>2
<1>9. TypeOK'
  BY <1>1, <1>2, <1>4, <1>7, <1>8 DEF TypeInv, TypeOK
<1>10. Control'
  BY <1>1, <1>2, <1>5, <1>6, <1>8, InstructionType DEF TypeInv, Control
<1>11. QED
  BY <1>9, <1>10 DEF TypeInv

\* The end of a node: what happens to contexts.
LEMMA FinishedNode ==
  ASSUME TypeInv, FinishNode
  PROVE  LET out == OutMet(this.after[node]) IN
         /\ current \in DOMAIN contexts /\ node \in Node /\ this \in Context
         /\ out \in Values
         /\ contexts' \in Seq(Context)
         /\ DOMAIN contexts' = DOMAIN contexts
         /\ contexts'[current] = [this EXCEPT !.after = [this.after EXCEPT ![node] = out],
                                              !.worklist = WorklistAfter(out # this.after[node])]
         /\ \A c \in DOMAIN contexts : c # current => contexts'[c] = contexts[c]
<1> DEFINE out  == OutMet(this.after[node])
           next == WorklistAfter(out # this.after[node])
           new  == [this EXCEPT !.after = [this.after EXCEPT ![node] = out], !.worklist = next]
<1>1. current \in DOMAIN contexts /\ node \in Node
  BY DEF FinishNode, TypeInv, Control
<1>2. this \in Context
  BY <1>1, ContextsDomain DEF TypeInv, this
<1>3. out \in Values
  BY <1>1, <1>2, ContextFields, MeetType DEF OutMet, TypeInv, TypeOK
<1>4. next \in Seq(Node \cup {NULL})
  <2> DEFINE succs == IF out # this.after[node] THEN SuccsOf(node) ELSE <<>>
  <2>1. this.worklist \in Seq(Node \cup {NULL})
    BY <1>2, ContextFields
  <2>2. SuccsOf(node) \in Seq(Node \cup {NULL})
    <3>1. SuccsOf(node) \in Seq(Node)
      BY <1>1, ModuleType DEF TypeInv, TypeOK
    <3>2. QED
      BY <3>1, SeqMonotonic
  <2>3. succs \in Seq(Node \cup {NULL})
    BY <2>2
  <2>4. this.worklist \o succs \in Seq(Node \cup {NULL})
    <3> HIDE DEF succs
    <3>1. QED
      BY <2>1, <2>3, ConcatProperties
  <2>5. <<NULL>> \in Seq(Node \cup {NULL})
    OBVIOUS
  <2>6. QED
    BY <2>4, <2>5 DEF WorklistAfter
<1>5. new \in Context
  <2> HIDE DEF out, next
  <2>1. [this.after EXCEPT ![node] = out] \in [Node -> Values]
    BY <1>1, <1>2, <1>3, ContextFields
  <2>2. QED
    BY <1>2, <1>4, <2>1 DEF Context
<1>6. contexts' = [contexts EXCEPT ![current] = new]
  <2>1. contexts' = [contexts EXCEPT ![current].after[node] = out, ![current].worklist = next]
    BY DEF FinishNode, OutMet
  <2> HIDE DEF out, next
  <2>2. QED
    BY <1>1, <2>1 DEF this
<1>7. QED
  <2> HIDE DEF new
  <2>1. /\ contexts' \in Seq(Context) /\ DOMAIN contexts' = DOMAIN contexts
        /\ contexts'[current] = new
        /\ \A c \in DOMAIN contexts : c # current => contexts'[c] = contexts[c]
    BY <1>1, <1>5, <1>6, UpdateContext DEF TypeInv, TypeOK
  <2>2. QED
    BY <1>1, <1>2, <1>3, <2>1 DEF new

LEMMA TypeFinish ==
  ASSUME TypeInv, FinishNode
  PROVE  TypeInv'
<1>1. contexts' \in Seq(Context) /\ DOMAIN contexts' = DOMAIN contexts
  BY FinishedNode
<1>2. UNCHANGED <<module, workList, tableVars>> /\ Idle
  BY DEF FinishNode
<1>3. TypeOK'
  BY <1>1, <1>2, TopValueType DEF TypeInv, TypeOK, Idle, TableTypeOK, tableVars
<1>4. Control'
  BY <1>1, <1>2, SameDomain DEF Control, Idle, tableVars
<1>5. QED
  BY <1>3, <1>4 DEF TypeInv

\* The exit of a context.
LEMMA ExitSet ==
  ASSUME TypeInv, SetExit
  PROVE  /\ current \in DOMAIN contexts
         /\ contexts' \in Seq(Context)
         /\ DOMAIN contexts' = DOMAIN contexts
         /\ contexts'[current] = [this EXCEPT !.exitValue = value, !.analysed = TRUE]
         /\ \A c \in DOMAIN contexts : c # current => contexts'[c] = contexts[c]
<1>1. current \in DOMAIN contexts
  BY DEF SetExit, TypeInv, Control
<1>2. [this EXCEPT !.exitValue = value, !.analysed = TRUE] \in Context
  BY <1>1, ContextsDomain, ContextFields DEF this, TypeInv, TypeOK
<1>3. contexts' = [contexts EXCEPT ![current] = [this EXCEPT !.exitValue = value,
                                                            !.analysed = TRUE]]
  BY <1>1 DEF SetExit, this
<1>4. QED
  BY <1>1, <1>2, <1>3, UpdateContext DEF TypeInv, TypeOK

LEMMA TypeSetExit ==
  ASSUME TypeInv, SetExit
  PROVE  TypeInv'
<1>1. /\ current \in DOMAIN contexts
      /\ contexts' \in Seq(Context) /\ DOMAIN contexts' = DOMAIN contexts
  BY ExitSet
<1>2. UNCHANGED <<module, workList, tableVars>>
  BY DEF SetExit
<1>3. CASE Idle
  <2>1. TypeOK'
    BY <1>1, <1>2, <1>3, TopValueType DEF TypeInv, TypeOK, Idle, TableTypeOK, tableVars
  <2>2. Control'
    BY <1>1, <1>2, <1>3, SameDomain DEF Control, Idle, tableVars
  <2>3. QED
    BY <2>1, <2>2 DEF TypeInv
<1>4. CASE /\ at' = "notify" /\ getCallers(current) # <<>>
           /\ sites' = getCallers(current)
           /\ UNCHANGED <<current, node, todo, pc, value>>
  <2>1. sites' \in Seq(Sites) /\ sites' \in Seq(CallSite)
    BY <1>4 DEF getCallers, TypeInv, TypeOK, TableTypeOK, Control
  <2>2. TypeOK'
    BY <1>1, <1>2, <1>4, <2>1 DEF TypeInv, TypeOK, TableTypeOK, tableVars
  <2>3. Control'
    BY <1>1, <1>2, <1>4, <2>1, SameDomain DEF Control, tableVars
  <2>4. QED
    BY <2>2, <2>3 DEF TypeInv
<1>5. QED
  BY <1>3, <1>4 DEF SetExit

\* The notification of a call site.
LEMMA NotifiedCaller ==
  ASSUME TypeInv, NotifyCaller
  PROVE  /\ current \in DOMAIN contexts
         /\ Head(sites).context \in DOMAIN contexts
         /\ Head(sites).node \in Node
         /\ Tail(sites) \in Seq(Sites) /\ Tail(sites) \in Seq(CallSite)
         /\ Len(sites) # 1 => Tail(sites) # <<>>
         /\ contexts' \in Seq(Context)
         /\ DOMAIN contexts' = DOMAIN contexts
         /\ getLastWorklist(Head(sites).context) = NULL =>
              contexts'[Head(sites).context] =
                [contexts[Head(sites).context] EXCEPT !.worklist = Append(@, Head(sites).node)]
         /\ getLastWorklist(Head(sites).context) # NULL => contexts' = contexts
         /\ \A c \in DOMAIN contexts : c # Head(sites).context => contexts'[c] = contexts[c]
<1> DEFINE c == Head(sites).context
           n == Head(sites).node
<1>1. sites \in Seq(Sites) /\ sites # <<>> /\ sites \in Seq(CallSite) /\ current \in DOMAIN contexts
  BY DEF NotifyCaller, TypeInv, TypeOK, Control
<1>2. /\ Head(sites) \in Sites /\ Tail(sites) \in Seq(Sites) /\ Tail(sites) \in Seq(CallSite)
      /\ Len(Tail(sites)) = Len(sites) - 1
  BY <1>1, HeadTailProperties
<1>3. c \in DOMAIN contexts /\ n \in Node
  BY <1>2 DEF Sites
<1>4. Len(sites) # 1 => Tail(sites) # <<>>
  BY <1>1, <1>2, EmptySeq
<1>5. [contexts[c] EXCEPT !.worklist = Append(@, n)] \in Context
  <2>1. contexts[c] \in Context /\ contexts[c].worklist \in Seq(Node \cup {NULL})
    BY <1>3, ContextsDomain, ContextFields DEF TypeInv
  <2>2. Append(contexts[c].worklist, n) \in Seq(Node \cup {NULL})
    BY <1>3, <2>1, AppendProperties
  <2>3. QED
    BY <2>1, <2>2, ContextFields
<1>6. contexts' = IF getLastWorklist(c) = NULL
                    THEN [contexts EXCEPT ![c] = [contexts[c] EXCEPT !.worklist = Append(@, n)]]
                    ELSE contexts
  BY DEF NotifyCaller
<1>7. CASE getLastWorklist(c) = NULL
  <2>1. /\ contexts' \in Seq(Context) /\ DOMAIN contexts' = DOMAIN contexts
        /\ contexts'[c] = [contexts[c] EXCEPT !.worklist = Append(@, n)]
        /\ \A d \in DOMAIN contexts : d # c => contexts'[d] = contexts[d]
    BY <1>3, <1>5, <1>6, <1>7, UpdateContext DEF TypeInv, TypeOK
  <2>2. QED
    BY <1>1, <1>2, <1>3, <1>4, <1>7, <2>1
<1>8. CASE getLastWorklist(c) # NULL
  BY <1>1, <1>2, <1>3, <1>4, <1>6, <1>8 DEF TypeInv, TypeOK
<1>9. QED
  BY <1>7, <1>8

LEMMA TypeNotify ==
  ASSUME TypeInv, NotifyCaller
  PROVE  TypeInv'
<1>1. /\ contexts' \in Seq(Context) /\ DOMAIN contexts' = DOMAIN contexts
      /\ current \in DOMAIN contexts
  BY NotifiedCaller
<1>2. UNCHANGED <<module, tableVars>> /\ workList' = Append(workList, Head(sites).context)
  BY DEF NotifyCaller
<1>3. workList' \in Seq(DOMAIN contexts')
  BY <1>1, <1>2, NotifiedCaller, AppendProperties DEF TypeInv, TypeOK
<1>4. CASE Idle
  <2>1. TypeOK'
    BY <1>1, <1>2, <1>3, <1>4, TopValueType DEF TypeInv, TypeOK, Idle, TableTypeOK, tableVars
  <2>2. Control'
    BY <1>1, <1>2, <1>4, SameDomain DEF Control, Idle, tableVars
  <2>3. QED
    BY <2>1, <2>2 DEF TypeInv
<1>5. CASE /\ Len(sites) # 1 /\ sites' = Tail(sites)
           /\ UNCHANGED <<at, current, node, todo, pc, value>>
  <2>1. at = "notify"
    BY DEF NotifyCaller
  <2>2. TypeOK'
    BY <1>1, <1>2, <1>3, <1>5, NotifiedCaller DEF TypeInv, TypeOK, TableTypeOK, tableVars
  <2>3. Control'
    BY <1>1, <1>2, <1>5, <2>1, NotifiedCaller, SameDomain DEF Control, tableVars
  <2>4. QED
    BY <2>2, <2>3 DEF TypeInv
<1>6. QED
  BY <1>4, <1>5 DEF NotifyCaller

LEMMA TypeStep ==
  ASSUME TypeInv, [Next]_vars
  PROVE  TypeInv'
<1>1. CASE Next
  <2>1. CASE PopContext \/ TakeNode \/ TakeExitMarker
    BY <2>1, TypeLoop
  <2>2. CASE MeetPredecessor \/ EnterNode \/ MeetTail
    BY <2>2, TypeMeet
  <2>3. CASE FlowInstruction \/ MissingOperand
    BY <2>3, TypeInstruction
  <2>4. CASE CallKnownContext
    BY <2>4, TypeCallKnown
  <2>5. CASE CallNewContext
    BY <2>5, TypeCallNew
  <2>6. CASE FinishNode
    BY <2>6, TypeFinish
  <2>7. CASE SetExit
    BY <2>7, TypeSetExit
  <2>8. CASE NotifyCaller
    BY <2>8, TypeNotify
  <2>9. CASE Stutter
    BY <2>9 DEF Stutter, vars, locals, TypeInv, TypeOK, TableTypeOK, Control, Sites
  <2>10. QED
    BY <1>1, <2>1, <2>2, <2>3, <2>4, <2>5, <2>6, <2>7, <2>8, <2>9 DEF Next
<1>2. CASE UNCHANGED vars
  BY <1>2 DEF vars, locals, TypeInv, TypeOK, TableTypeOK, Control, Sites
<1>3. QED
  BY <1>1, <1>2

\* What doAnalysis relies on at each point of its loop: besides the types, which
\* locals are set there, and that whatever is referred to has been created.
THEOREM TypeInvariant == Spec => []TypeInv
BY TypeInit, TypeStep, PTL DEF Spec

\* Every reachable state of the analysis is well typed: in particular no node,
\* context or call site is ever read that does not exist, and no transfer
\* function leaves the lattice (SIGN's INVALID member is never stored).
THEOREM TypeCorrect == Spec => []TypeOK
BY TypeInvariant, PTL DEF TypeInv

-----------------------------------------------------------------------------
(* The two levels of worklists: sequences.                                 *)

LEMMA RangeFront ==
  ASSUME NEW S, NEW s \in Seq(S), s # <<>>
  PROVE  Range(s) = Range(Front(s)) \cup {Last(s)}
<1>1. /\ Front(s) \in Seq(S) /\ Len(s) \in Nat \ {0} /\ Len(Front(s)) = Len(s) - 1
      /\ \A i \in 1..Len(s) - 1 : Front(s)[i] = s[i]
      /\ Last(s) = s[Len(s)]
  BY FrontProperty
<1>2. DOMAIN s = 1..Len(s) /\ DOMAIN Front(s) = 1..Len(s) - 1
  BY <1>1, LenProperties
<1>3. DOMAIN s = DOMAIN Front(s) \cup {Len(s)}
  BY <1>1, <1>2
<1>4. QED
  BY <1>1, <1>2, <1>3 DEF Range

LEMMA RangeAppend ==
  ASSUME NEW S, NEW s \in Seq(S), NEW e \in S
  PROVE  /\ Range(Append(s, e)) = Range(s) \cup {e}
         /\ Append(s, e) # <<>>
<1>1. /\ Append(s, e) \in Seq(S) /\ Len(Append(s, e)) = Len(s) + 1 /\ Len(s) \in Nat
      /\ \A i \in 1..Len(s) : Append(s, e)[i] = s[i]
      /\ Append(s, e)[Len(s) + 1] = e
  BY AppendProperties, LenProperties
<1>2. DOMAIN s = 1..Len(s) /\ DOMAIN Append(s, e) = 1..Len(s) + 1
  BY <1>1, LenProperties
<1>3. DOMAIN Append(s, e) = DOMAIN s \cup {Len(s) + 1}
  BY <1>1, <1>2
<1>4. QED
  BY <1>1, <1>2, <1>3, EmptySeq DEF Range

-----------------------------------------------------------------------------
(* What the remaining actions do to contexts.                              *)

LEMMA PoppedContext ==
  ASSUME TypeInv, PopContext
  PROVE  /\ top \in DOMAIN contexts
         /\ DOMAIN contexts' = DOMAIN contexts
         /\ contexts'[top] = [contexts[top] EXCEPT !.analysed = TRUE]
         /\ \A c \in DOMAIN contexts : c # top => contexts'[c] = contexts[c]
<1>1. top \in DOMAIN contexts
  BY TopType DEF PopContext, TypeInv
<1>2. [contexts[top] EXCEPT !.analysed = TRUE] \in Context
  BY <1>1, ContextsDomain, ContextFields DEF TypeInv
<1>3. contexts' = [contexts EXCEPT ![top] = [contexts[top] EXCEPT !.analysed = TRUE]]
  BY DEF PopContext
<1>4. QED
  BY <1>1, <1>2, <1>3, UpdateContext DEF TypeInv, TypeOK

LEMMA TakenNode ==
  ASSUME TypeInv, TakeNode \/ TakeExitMarker
  PROVE  /\ top \in DOMAIN contexts
         /\ contexts[top].worklist \in Seq(Node \cup {NULL})
         /\ contexts[top].worklist # <<>>
         /\ getLastWorklist(top) = Last(contexts[top].worklist)
         /\ DOMAIN contexts' = DOMAIN contexts
         /\ contexts'[top] = [contexts[top] EXCEPT !.worklist = Front(contexts[top].worklist)]
         /\ \A c \in DOMAIN contexts : c # top => contexts'[c] = contexts[c]
<1>1. top \in DOMAIN contexts /\ contexts[top].worklist # <<>> /\ Pop(top)
  BY TopType DEF TakeNode, TakeExitMarker, TypeInv
<1>2. contexts[top].worklist \in Seq(Node \cup {NULL})
  BY <1>1, ContextsDomain, ContextFields DEF TypeInv
<1>3. [contexts[top] EXCEPT !.worklist = Front(contexts[top].worklist)] \in Context
  BY <1>1, <1>2, FrontProperty, ContextsDomain, ContextFields DEF TypeInv
<1>4. contexts' = [contexts EXCEPT ![top] =
                     [contexts[top] EXCEPT !.worklist = Front(contexts[top].worklist)]]
  BY <1>1 DEF Pop
<1>5. QED
  BY <1>1, <1>2, <1>3, <1>4, UpdateContext DEF TypeInv, TypeOK, getLastWorklist

LEMMA EnteredNode ==
  ASSUME TypeInv, EnterNode
  PROVE  /\ current \in DOMAIN contexts /\ node \in Node
         /\ DOMAIN contexts' = DOMAIN contexts
         /\ PredsOf(node) = {} => contexts' = contexts
         /\ PredsOf(node) # {} =>
              contexts'[current] = [this EXCEPT !.before = [this.before EXCEPT ![node] = value]]
         /\ \A c \in DOMAIN contexts : c # current => contexts'[c] = contexts[c]
<1>1. current \in DOMAIN contexts /\ node \in Node
  BY DEF EnterNode, TypeInv, Control
<1>2. this \in Context /\ this.before \in [Node -> Values]
  BY <1>1, ContextsDomain, ContextFields DEF this, TypeInv
<1>3. CASE PredsOf(node) = {}
  BY <1>1, <1>3 DEF EnterNode
<1>4. CASE PredsOf(node) # {}
  <2> DEFINE new == [this EXCEPT !.before = [this.before EXCEPT ![node] = value]]
  <2>1. [this.before EXCEPT ![node] = value] \in [Node -> Values]
    BY <1>1, <1>2 DEF TypeInv, TypeOK
  <2>2. new \in Context
    BY <1>2, <2>1 DEF Context
  <2>3. contexts' = [contexts EXCEPT ![current] = new]
    BY <1>1, <1>4 DEF EnterNode, this
  <2> HIDE DEF new
  <2>4. /\ DOMAIN contexts' = DOMAIN contexts /\ contexts'[current] = new
        /\ \A c \in DOMAIN contexts : c # current => contexts'[c] = contexts[c]
    BY <1>1, <2>2, <2>3, UpdateContext DEF TypeInv, TypeOK
  <2>5. QED
    BY <1>1, <1>4, <2>4 DEF new
<1>5. QED
  BY <1>3, <1>4

\* The other actions leave contexts as it is.
Reads == MeetPredecessor \/ MeetTail \/ FlowInstruction \/ MissingOperand \/ CallKnownContext

LEMMA ReadsOnly ==
  ASSUME Reads
  PROVE  /\ UNCHANGED <<module, contexts, workList, current, node, sites>>
         /\ at # "loop"
         /\ at' = at \/ at' = "aborted"
BY DEF Reads, MeetPredecessor, MeetTail, FlowInstruction, MissingOperand, CallKnownContext,
       AtCall, AtInstruction

LEMMA Actions ==
  ASSUME [Next]_vars
  PROVE  \/ PopContext \/ TakeNode \/ TakeExitMarker \/ EnterNode \/ Reads
         \/ CallNewContext \/ FinishNode \/ SetExit \/ NotifyCaller \/ UNCHANGED vars
BY DEF Next, Reads, Stutter

-----------------------------------------------------------------------------
(* The identity of a context, its method and entry value, never changes,   *)
(* and only CallNewContext adds one.                                       *)

SameIdentity ==
  /\ DOMAIN contexts \subseteq DOMAIN contexts'
  /\ \A c \in DOMAIN contexts : /\ contexts'[c].method = contexts[c].method
                                /\ contexts'[c].entryValue = contexts[c].entryValue
  /\ DOMAIN contexts' = DOMAIN contexts \/ CallNewContext
  /\ module' = module

LEMMA Identity ==
  ASSUME TypeInv, [Next]_vars
  PROVE  SameIdentity
<1>0. \A c \in DOMAIN contexts : contexts[c] \in Context
  BY ContextsDomain DEF TypeInv
<1>1. CASE PopContext
  <2>1. /\ top \in DOMAIN contexts /\ DOMAIN contexts' = DOMAIN contexts
        /\ contexts'[top] = [contexts[top] EXCEPT !.analysed = TRUE]
        /\ \A c \in DOMAIN contexts : c # top => contexts'[c] = contexts[c]
    BY <1>1, PoppedContext
  <2>2. module' = module
    BY <1>1 DEF PopContext
  <2>3. QED
    BY <1>0, <2>1, <2>2 DEF SameIdentity, Context
<1>2. CASE TakeNode \/ TakeExitMarker
  <2>1. /\ top \in DOMAIN contexts /\ DOMAIN contexts' = DOMAIN contexts
        /\ contexts'[top] = [contexts[top] EXCEPT !.worklist = Front(contexts[top].worklist)]
        /\ \A c \in DOMAIN contexts : c # top => contexts'[c] = contexts[c]
    BY <1>2, TakenNode
  <2>2. module' = module
    BY <1>2 DEF TakeNode, TakeExitMarker
  <2>3. QED
    BY <1>0, <2>1, <2>2 DEF SameIdentity, Context
<1>3. CASE EnterNode
  <2>1. /\ current \in DOMAIN contexts /\ DOMAIN contexts' = DOMAIN contexts
        /\ PredsOf(node) = {} => contexts' = contexts
        /\ PredsOf(node) # {} =>
             contexts'[current] = [this EXCEPT !.before = [this.before EXCEPT ![node] = value]]
        /\ \A c \in DOMAIN contexts : c # current => contexts'[c] = contexts[c]
    BY <1>3, EnteredNode
  <2>2. module' = module
    BY <1>3 DEF EnterNode
  <2>3. this \in Context
    BY <1>0, <2>1 DEF this
  <2>4. /\ contexts'[current].method = contexts[current].method
        /\ contexts'[current].entryValue = contexts[current].entryValue
    BY <2>1, <2>3 DEF this, Context
  <2>5. QED
    BY <2>1, <2>2, <2>4 DEF SameIdentity
<1>4. CASE Reads \/ UNCHANGED vars
  <2>1. UNCHANGED <<module, contexts>>
    BY <1>4, ReadsOnly DEF vars
  <2>2. QED
    BY <2>1 DEF SameIdentity
<1>5. CASE CallNewContext
  <2>1. /\ DOMAIN contexts \subseteq DOMAIN contexts'
        /\ contexts'[current] = [this EXCEPT !.worklist = Append(@, node)]
        /\ \A c \in DOMAIN contexts : c # current => contexts'[c] = contexts[c]
    BY <1>5, NewContext
  <2>2. current \in DOMAIN contexts /\ this \in Context /\ module' = module
    BY <1>5, InstructionType DEF CallNewContext, AtCall
  <2>3. /\ contexts'[current].method = contexts[current].method
        /\ contexts'[current].entryValue = contexts[current].entryValue
    BY <2>1, <2>2 DEF this, Context
  <2>4. QED
    BY <1>5, <2>1, <2>2, <2>3 DEF SameIdentity
<1>6. CASE FinishNode
  <2> DEFINE out == OutMet(this.after[node])
  <2>1. /\ current \in DOMAIN contexts /\ this \in Context
        /\ DOMAIN contexts' = DOMAIN contexts
        /\ contexts'[current] = [this EXCEPT !.after = [this.after EXCEPT ![node] = out],
                                             !.worklist = WorklistAfter(out # this.after[node])]
        /\ \A c \in DOMAIN contexts : c # current => contexts'[c] = contexts[c]
    BY <1>6, FinishedNode
  <2>2. module' = module
    BY <1>6 DEF FinishNode
  <2>3. /\ contexts'[current].method = contexts[current].method
        /\ contexts'[current].entryValue = contexts[current].entryValue
    <3> HIDE DEF out
    <3>1. QED
      BY <2>1 DEF this, Context
  <2>4. QED
    BY <2>1, <2>2, <2>3 DEF SameIdentity
<1>7. CASE SetExit
  <2>1. /\ current \in DOMAIN contexts /\ DOMAIN contexts' = DOMAIN contexts
        /\ contexts'[current] = [this EXCEPT !.exitValue = value, !.analysed = TRUE]
        /\ \A c \in DOMAIN contexts : c # current => contexts'[c] = contexts[c]
    BY <1>7, ExitSet
  <2>2. module' = module
    BY <1>7 DEF SetExit
  <2>3. this \in Context
    BY <1>0, <2>1 DEF this
  <2>4. /\ contexts'[current].method = contexts[current].method
        /\ contexts'[current].entryValue = contexts[current].entryValue
    BY <2>1, <2>3 DEF this, Context
  <2>5. QED
    BY <2>1, <2>2, <2>4 DEF SameIdentity
<1>8. CASE NotifyCaller
  <2> DEFINE c == Head(sites).context
  <2>1. /\ c \in DOMAIN contexts /\ DOMAIN contexts' = DOMAIN contexts
        /\ getLastWorklist(c) = NULL =>
             contexts'[c] = [contexts[c] EXCEPT !.worklist = Append(@, Head(sites).node)]
        /\ getLastWorklist(c) # NULL => contexts' = contexts
        /\ \A d \in DOMAIN contexts : d # c => contexts'[d] = contexts[d]
    BY <1>8, NotifiedCaller
  <2>2. module' = module
    BY <1>8 DEF NotifyCaller
  <2>3. /\ contexts'[c].method = contexts[c].method
        /\ contexts'[c].entryValue = contexts[c].entryValue
    BY <1>0, <2>1 DEF Context
  <2>4. QED
    BY <2>1, <2>2, <2>3 DEF SameIdentity
<1>9. QED
  BY <1>1, <1>2, <1>3, <1>4, <1>5, <1>6, <1>7, <1>8, Actions

LEMMA UniqueInit ==
  ASSUME Init
  PROVE  UniqueValueContexts
<1>1. DOMAIN contexts = {1}
  BY DEF Init
<1>2. QED
  BY <1>1 DEF UniqueValueContexts

LEMMA UniqueStep ==
  ASSUME TypeInv, UniqueValueContexts, [Next]_vars
  PROVE  UniqueValueContexts'
<1>1. SameIdentity
  BY Identity
<1>2. CASE DOMAIN contexts' = DOMAIN contexts
  BY <1>1, <1>2 DEF SameIdentity, UniqueValueContexts
<1>3. CASE CallNewContext
  <2> DEFINE new == Len(contexts) + 1
  <2>1. /\ DOMAIN contexts' = DOMAIN contexts \cup {new}
        /\ contexts'[new] = InitContext(insn.callee, entryValue)
    BY <1>3, NewContext
  <2>2. /\ contexts'[new].method = insn.callee
        /\ contexts'[new].entryValue = entryValue
    BY <2>1 DEF InitContext
  <2>3. \A c \in DOMAIN contexts :
          ~(contexts[c].method = insn.callee /\ contexts[c].entryValue = entryValue)
    BY <1>3 DEF CallNewContext, ContextsOf
  <2> HIDE DEF new
  <2>4. ASSUME NEW c \in DOMAIN contexts', NEW d \in DOMAIN contexts',
               contexts'[c].method = contexts'[d].method,
               contexts'[c].entryValue = contexts'[d].entryValue
        PROVE  c = d
    <3>1. CASE c \in DOMAIN contexts /\ d \in DOMAIN contexts
      BY <1>1, <2>4, <3>1 DEF SameIdentity, UniqueValueContexts
    <3>2. CASE c = new /\ d \in DOMAIN contexts
      BY <1>1, <2>2, <2>3, <2>4, <3>2 DEF SameIdentity
    <3>3. CASE c \in DOMAIN contexts /\ d = new
      BY <1>1, <2>2, <2>3, <2>4, <3>3 DEF SameIdentity
    <3>4. QED
      BY <2>1, <2>4, <3>1, <3>2, <3>3
  <2>5. QED
    BY <2>4 DEF UniqueValueContexts
<1>4. QED
  BY <1>1, <1>2, <1>3 DEF SameIdentity

\* getContext finds every context again, for every module: no method is
\* analysed in two contexts with equal entry values.
THEOREM UniqueContexts == Spec => []UniqueValueContexts
BY UniqueInit, UniqueStep, TypeInvariant, PTL DEF Spec

-----------------------------------------------------------------------------
(* Work left, and the stack of contexts.  What a node adds to its context  *)
(* when it is finished is safe because the context is still on the stack   *)
(* then, below a new one at most.                                          *)

WorkInv ==
  /\ PendingIsScheduled
  /\ at \in {"meet", "flow"} => current \in Range(workList)

LEMMA WorkInit ==
  ASSUME Init
  PROVE  WorkInv
<1>1. DOMAIN contexts = {1} /\ workList = <<1>> /\ at = "loop"
  BY DEF Init
<1>2. 1 \in Range(workList)
  <2>1. DOMAIN workList = {1} /\ workList[1] = 1
    BY <1>1
  <2>2. QED
    BY <2>1 DEF Range
<1>3. QED
  BY <1>1, <1>2 DEF WorkInv, PendingIsScheduled

LEMMA WorkLoop ==
  ASSUME TypeInv, WorkInv, PopContext \/ TakeNode \/ TakeExitMarker
  PROVE  WorkInv'
<1>1. /\ workList # <<>> /\ workList \in Seq(DOMAIN contexts)
      /\ top \in DOMAIN contexts
  BY TopType DEF PopContext, TakeNode, TakeExitMarker, TypeInv, TypeOK
<1>2. Range(workList) = Range(Front(workList)) \cup {top}
  BY <1>1, RangeFront DEF top
<1>3. \A c \in DOMAIN contexts : contexts[c] \in Context
  BY ContextsDomain DEF TypeInv
<1>4. CASE PopContext
  <2>1. /\ DOMAIN contexts' = DOMAIN contexts
        /\ contexts'[top] = [contexts[top] EXCEPT !.analysed = TRUE]
        /\ \A c \in DOMAIN contexts : c # top => contexts'[c] = contexts[c]
    BY <1>4, PoppedContext
  <2>2. contexts'[top].worklist = <<>>
    BY <1>1, <1>3, <1>4, <2>1 DEF PopContext, Context
  <2>3. workList' = Front(workList) /\ at' = "loop"
    BY <1>4 DEF PopContext, locals
  <2>4. QED
    BY <1>2, <2>1, <2>2, <2>3 DEF WorkInv, PendingIsScheduled
<1>5. CASE TakeNode \/ TakeExitMarker
  <2>1. /\ DOMAIN contexts' = DOMAIN contexts
        /\ \A c \in DOMAIN contexts : c # top => contexts'[c] = contexts[c]
    BY <1>5, TakenNode
  <2>2. workList' = workList /\ current' = top
    BY <1>5 DEF TakeNode, TakeExitMarker
  <2>3. QED
    BY <1>2, <2>1, <2>2 DEF WorkInv, PendingIsScheduled
<1>6. QED
  BY <1>4, <1>5

\* The actions between the node and its end, and the exit of a context.
LEMMA WorkNode ==
  ASSUME TypeInv, WorkInv, EnterNode \/ Reads \/ FinishNode \/ SetExit
  PROVE  WorkInv'
<1>1. CASE EnterNode
  <2>1. /\ current \in DOMAIN contexts /\ DOMAIN contexts' = DOMAIN contexts
        /\ \A c \in DOMAIN contexts : c # current => contexts'[c] = contexts[c]
    BY <1>1, EnteredNode
  <2>2. at = "meet" /\ UNCHANGED <<workList, current>>
    BY <1>1 DEF EnterNode
  <2>3. QED
    BY <2>1, <2>2 DEF WorkInv, PendingIsScheduled
<1>2. CASE Reads
  BY <1>2, ReadsOnly DEF WorkInv, PendingIsScheduled
<1>3. CASE FinishNode
  <2>1. /\ DOMAIN contexts' = DOMAIN contexts
        /\ \A c \in DOMAIN contexts : c # current => contexts'[c] = contexts[c]
    BY <1>3, FinishedNode
  <2>2. at = "flow" /\ at' = "loop" /\ workList' = workList
    BY <1>3 DEF FinishNode, Idle
  <2>3. QED
    BY <2>1, <2>2 DEF WorkInv, PendingIsScheduled
<1>4. CASE SetExit
  <2>1. /\ current \in DOMAIN contexts /\ DOMAIN contexts' = DOMAIN contexts
        /\ contexts'[current] = [this EXCEPT !.exitValue = value, !.analysed = TRUE]
        /\ \A c \in DOMAIN contexts : c # current => contexts'[c] = contexts[c]
    BY <1>4, ExitSet
  <2>2. this \in Context
    BY <2>1, ContextsDomain DEF this, TypeInv
  <2>3. contexts'[current].worklist = contexts[current].worklist
    BY <2>1, <2>2 DEF this, Context
  <2>4. at' \in {"loop", "notify"} /\ workList' = workList
    BY <1>4 DEF SetExit, Idle
  <2>5. QED
    BY <2>1, <2>3, <2>4 DEF WorkInv, PendingIsScheduled
<1>5. QED
  BY <1>1, <1>2, <1>3, <1>4

\* The actions that push a context.
LEMMA WorkPush ==
  ASSUME TypeInv, WorkInv, CallNewContext \/ NotifyCaller
  PROVE  WorkInv'
<1>1. workList \in Seq(DOMAIN contexts)
  BY DEF TypeInv, TypeOK
<1>2. CASE CallNewContext
  <2> DEFINE new == Len(contexts) + 1
  <2>1. /\ DOMAIN contexts' = DOMAIN contexts \cup {new}
        /\ \A c \in DOMAIN contexts : c # current => contexts'[c] = contexts[c]
    BY <1>2, NewContext
  <2>2. workList' = Append(workList, new) /\ at = "flow" /\ UNCHANGED <<at, current>>
    BY <1>2, InstructionType DEF CallNewContext, AtCall
  <2>3. workList \in Seq(DOMAIN contexts')
    BY <1>1, <2>1, SeqMonotonic
  <2>4. Range(workList') = Range(workList) \cup {new}
    BY <2>1, <2>2, <2>3, RangeAppend
  <2> HIDE DEF new
  <2>5. QED
    BY <2>1, <2>2, <2>4 DEF WorkInv, PendingIsScheduled
<1>3. CASE NotifyCaller
  <2>1. /\ Head(sites).context \in DOMAIN contexts /\ DOMAIN contexts' = DOMAIN contexts
        /\ \A c \in DOMAIN contexts : c # Head(sites).context => contexts'[c] = contexts[c]
    BY <1>3, NotifiedCaller
  <2>2. workList' = Append(workList, Head(sites).context) /\ at' \in {"loop", "notify"}
    BY <1>3 DEF NotifyCaller, Idle
  <2>3. Range(workList') = Range(workList) \cup {Head(sites).context}
    BY <1>1, <2>1, <2>2, RangeAppend
  <2>4. QED
    BY <2>1, <2>2, <2>3 DEF WorkInv, PendingIsScheduled
<1>4. QED
  BY <1>2, <1>3

LEMMA WorkStep ==
  ASSUME TypeInv, WorkInv, [Next]_vars
  PROVE  WorkInv'
<1>1. CASE UNCHANGED vars
  BY <1>1 DEF vars, locals, WorkInv, PendingIsScheduled
<1>2. QED
  BY <1>1, Actions, WorkLoop, WorkNode, WorkPush

\* No node is forgotten, for every module: a context with something to do is on
\* the stack, so that doAnalysis does not end before it is done.
THEOREM NoNodeForgotten == Spec => []PendingIsScheduled
<1>1. Spec => []WorkInv
  BY WorkInit, WorkStep, TypeInvariant, PTL DEF Spec
<1>2. WorkInv => PendingIsScheduled
  BY DEF WorkInv
<1>3. QED
  BY <1>1, <1>2, PTL

-----------------------------------------------------------------------------
(* The exit marker.  Two things keep it alone: it is taken in the turn     *)
(* after the one that queued it, before anybody can be notified; and it is *)
(* queued only into an empty worklist, which, if the node has just created *)
(* a context, its own worklist is not.                                     *)

Marked(c) == NULL \in Range(contexts[c].worklist)

MarkerInv ==
  /\ \A c \in DOMAIN contexts : Marked(c) =>
       at = "loop" /\ workList # <<>> /\ c = top /\ contexts[c].worklist = <<NULL>>
  /\ at \in {"meet", "flow"} => workList # <<>> /\ (current = top \/ this.worklist # <<>>)

LEMMA SingleRange == \A e : Range(<<e>>) = {e}
<1>1. \A e : DOMAIN <<e>> = {1} /\ <<e>>[1] = e
  OBVIOUS
<1>2. QED
  BY <1>1 DEF Range

LEMMA MarkerInit ==
  ASSUME Init
  PROVE  MarkerInv
<1>1. DOMAIN contexts = {1} /\ at = "loop"
  BY DEF Init
<1>2. contexts[1].worklist = <<EntryNode(module.main)>> /\ EntryNode(module.main) \in Node
  BY TypeInit, ModuleType DEF Init, InitContext, TypeInv, TypeOK
<1>3. ~Marked(1)
  BY <1>2, SingleRange, NULLAssumption DEF Marked
<1>4. QED
  BY <1>1, <1>3 DEF MarkerInv

LEMMA MarkerLoop ==
  ASSUME TypeInv, MarkerInv, PopContext \/ TakeNode \/ TakeExitMarker
  PROVE  MarkerInv'
<1>1. \A c \in DOMAIN contexts : contexts[c] \in Context
  BY ContextsDomain DEF TypeInv
<1>2. CASE PopContext
  <2>1. /\ top \in DOMAIN contexts /\ contexts[top].worklist = <<>> /\ at' = "loop"
        /\ DOMAIN contexts' = DOMAIN contexts
        /\ contexts'[top] = [contexts[top] EXCEPT !.analysed = TRUE]
        /\ \A c \in DOMAIN contexts : c # top => contexts'[c] = contexts[c]
    BY <1>2, PoppedContext DEF PopContext, locals
  <2>2. ~Marked(top)
    BY <2>1 DEF MarkerInv
  <2>3. \A c \in DOMAIN contexts : contexts'[c].worklist = contexts[c].worklist
    BY <1>1, <2>1 DEF Context
  <2>4. \A c \in DOMAIN contexts' : ~Marked(c)'
    BY <2>1, <2>2, <2>3 DEF MarkerInv, Marked
  <2>5. QED
    BY <2>1, <2>4 DEF MarkerInv
<1>3. CASE TakeNode \/ TakeExitMarker
  <2> DEFINE w == contexts[top].worklist
  <2>1. /\ top \in DOMAIN contexts /\ w \in Seq(Node \cup {NULL}) /\ w # <<>>
        /\ getLastWorklist(top) = Last(w)
        /\ DOMAIN contexts' = DOMAIN contexts
        /\ contexts'[top] = [contexts[top] EXCEPT !.worklist = Front(w)]
        /\ \A c \in DOMAIN contexts : c # top => contexts'[c] = contexts[c]
    BY <1>3, TakenNode
  <2>2. contexts'[top].worklist = Front(w)
    BY <1>1, <2>1 DEF Context
  <2>3. Range(w) = Range(Front(w)) \cup {Last(w)}
    BY <2>1, RangeFront
  <2>4. NULL \notin Range(Front(w))
    <3>1. CASE Marked(top)
      <4>1. w = <<NULL>>
        BY <2>1, <3>1 DEF MarkerInv
      <4>2. Len(Front(w)) = 0
        <5>1. Len(Front(w)) = Len(w) - 1
          BY <2>1, FrontProperty
        <5>2. QED
          BY <4>1, <5>1
      <4>3. DOMAIN Front(w) = {}
        <5>1. Front(w) \in Seq(Node \cup {NULL})
          BY <2>1, FrontProperty
        <5>2. QED
          BY <4>2, <5>1, LenProperties
      <4>4. QED
        BY <4>3 DEF Range
    <3>2. CASE ~Marked(top)
      BY <2>3, <3>2 DEF Marked
    <3>3. QED
      BY <3>1, <3>2
  <2>5. \A c \in DOMAIN contexts' : ~Marked(c)'
    BY <2>1, <2>2, <2>4 DEF MarkerInv, Marked
  <2>6. /\ workList # <<>> /\ workList' = workList /\ current' = top
    BY <1>3 DEF TakeNode, TakeExitMarker
  <2>7. QED
    BY <2>5, <2>6 DEF MarkerInv, top
<1>4. QED
  BY <1>2, <1>3

\* Outside the head of the loop there is no marker anywhere.
LEMMA NoMarker ==
  ASSUME MarkerInv, at # "loop"
  PROVE  \A c \in DOMAIN contexts : ~Marked(c)
BY DEF MarkerInv

LEMMA MarkerNode ==
  ASSUME TypeInv, MarkerInv, EnterNode \/ Reads \/ SetExit
  PROVE  MarkerInv'
<1>1. \A c \in DOMAIN contexts : contexts[c] \in Context
  BY ContextsDomain DEF TypeInv
<1>2. at # "loop"
  BY ReadsOnly DEF EnterNode, SetExit
<1>3. CASE EnterNode
  <2>1. /\ current \in DOMAIN contexts /\ DOMAIN contexts' = DOMAIN contexts
        /\ PredsOf(node) = {} => contexts' = contexts
        /\ PredsOf(node) # {} =>
             contexts'[current] = [this EXCEPT !.before = [this.before EXCEPT ![node] = value]]
        /\ \A c \in DOMAIN contexts : c # current => contexts'[c] = contexts[c]
    BY <1>3, EnteredNode
  <2>2. contexts'[current].worklist = contexts[current].worklist
    <3>1. this \in Context
      BY <1>1, <2>1 DEF this
    <3>2. QED
      BY <2>1, <3>1 DEF this, Context
  <2>3. \A c \in DOMAIN contexts' : ~Marked(c)'
    BY <1>2, <2>1, <2>2, NoMarker DEF Marked
  <2>4. at = "meet" /\ UNCHANGED <<workList, current>>
    BY <1>3 DEF EnterNode
  <2>5. this'.worklist = this.worklist
    BY <2>2, <2>4 DEF this
  <2>6. QED
    BY <2>3, <2>4, <2>5 DEF MarkerInv, top
<1>4. CASE Reads
  <2>1. UNCHANGED <<contexts, workList, current>> /\ (at' = at \/ at' = "aborted")
    BY <1>4, ReadsOnly
  <2>2. \A c \in DOMAIN contexts' : ~Marked(c)'
    BY <1>2, <2>1, NoMarker DEF Marked
  <2>3. QED
    BY <2>1, <2>2 DEF MarkerInv, top, this
<1>5. CASE SetExit
  <2>1. /\ current \in DOMAIN contexts /\ DOMAIN contexts' = DOMAIN contexts
        /\ contexts'[current] = [this EXCEPT !.exitValue = value, !.analysed = TRUE]
        /\ \A c \in DOMAIN contexts : c # current => contexts'[c] = contexts[c]
    BY <1>5, ExitSet
  <2>2. contexts'[current].worklist = contexts[current].worklist
    <3>1. this \in Context
      BY <1>1, <2>1 DEF this
    <3>2. QED
      BY <2>1, <3>1 DEF this, Context
  <2>3. \A c \in DOMAIN contexts' : ~Marked(c)'
    BY <1>2, <2>1, <2>2, NoMarker DEF Marked
  <2>4. at' \in {"loop", "notify"}
    BY <1>5 DEF SetExit, Idle
  <2>5. QED
    BY <2>3, <2>4 DEF MarkerInv
<1>6. QED
  BY <1>3, <1>4, <1>5

\* What the context has to do after a node: the nodes it had to do and the
\* successors, or the exit.
LEMMA WorklistAfterNode ==
  ASSUME TypeInv, current \in DOMAIN contexts, node \in Node, NEW changed \in BOOLEAN
  PROVE  \/ /\ this.worklist = <<>>
            /\ WorklistAfter(changed) = <<NULL>>
            /\ changed => Range(SuccsOf(node)) = {}
         \/ Range(WorklistAfter(changed)) =
              Range(this.worklist) \cup (IF changed THEN Range(SuccsOf(node)) ELSE {})
<1> DEFINE succs == IF changed THEN SuccsOf(node) ELSE <<>>
           next  == this.worklist \o succs
<1>1. this.worklist \in Seq(Node \cup {NULL})
  BY ContextsDomain, ContextFields DEF this, TypeInv
<1>2. succs \in Seq(Node \cup {NULL})
  <2>1. SuccsOf(node) \in Seq(Node)
    BY ModuleType DEF TypeInv, TypeOK
  <2>2. SuccsOf(node) \in Seq(Node \cup {NULL})
    BY <2>1, SeqMonotonic
  <2>3. QED
    BY <2>2
<1>3. Range(<<>>) = {}
  BY DEF Range
<1>4. Range(succs) = IF changed THEN Range(SuccsOf(node)) ELSE {}
  BY <1>3
<1>5. Range(next) = Range(this.worklist) \cup Range(succs)
  <2> HIDE DEF succs
  <2>1. QED
    BY <1>1, <1>2, RangeConcatenation
<1>6. WorklistAfter(changed) = IF next = <<>> /\ node \in TailsOf(this.method)
                                 THEN <<NULL>> ELSE next
  BY DEF WorklistAfter
<1>7. CASE next = <<>>
  <2>1. this.worklist = <<>> /\ succs = <<>>
    <3> HIDE DEF succs
    <3>1. QED
      BY <1>1, <1>2, <1>7, ConcatEqualIffEmpty
  <2>2. Range(SuccsOf(node)) = {} \/ ~changed
    BY <1>3, <1>4, <2>1
  <2>3. QED
    BY <1>4, <1>5, <1>6, <2>1, <2>2
<1>8. CASE next # <<>>
  BY <1>4, <1>5, <1>6, <1>8
<1>9. QED
  BY <1>7, <1>8

LEMMA MarkerFinish ==
  ASSUME TypeInv, MarkerInv, FinishNode
  PROVE  MarkerInv'
<1> DEFINE out     == OutMet(this.after[node])
           changed == out # this.after[node]
<1>1. at = "flow" /\ at' = "loop" /\ workList' = workList /\ workList # <<>>
  BY DEF FinishNode, Idle, MarkerInv
<1>2. /\ current \in DOMAIN contexts /\ node \in Node /\ this \in Context
      /\ DOMAIN contexts' = DOMAIN contexts
      /\ contexts'[current] = [this EXCEPT !.after = [this.after EXCEPT ![node] = out],
                                           !.worklist = WorklistAfter(changed)]
      /\ \A c \in DOMAIN contexts : c # current => contexts'[c] = contexts[c]
  BY FinishedNode
<1>3. contexts'[current].worklist = WorklistAfter(changed)
  <2> HIDE DEF out, changed
  <2>1. QED
    BY <1>2 DEF Context
<1>4. \A c \in DOMAIN contexts : c # current => ~Marked(c)'
  BY <1>1, <1>2, NoMarker DEF Marked
<1>5. CASE this.worklist = <<>> /\ WorklistAfter(changed) = <<NULL>>
  <2>1. current = top
    BY <1>1, <1>5 DEF MarkerInv
  <2>2. top' = current
    BY <1>1, <2>1 DEF top
  <2>3. \A c \in DOMAIN contexts' : Marked(c)' =>
          at' = "loop" /\ workList' # <<>> /\ c = top' /\ contexts'[c].worklist = <<NULL>>
    BY <1>1, <1>2, <1>3, <1>4, <1>5, <2>2
  <2>4. QED
    BY <1>1, <2>3 DEF MarkerInv
<1>6. CASE Range(WorklistAfter(changed)) =
             Range(this.worklist) \cup (IF changed THEN Range(SuccsOf(node)) ELSE {})
  <2>1. NULL \notin Range(this.worklist)
    BY <1>1, <1>2, NoMarker DEF Marked, this
  <2>2. NULL \notin Range(SuccsOf(node))
    <3>1. SuccsOf(node) \in Seq(Node)
      BY <1>2, ModuleType DEF TypeInv, TypeOK
    <3>2. QED
      BY <3>1, RangeOfSeq, NULLAssumption
  <2>3. NULL \notin Range(WorklistAfter(changed))
    <3> HIDE DEF changed
    <3>1. QED
      BY <1>6, <2>1, <2>2
  <2>4. NULL \notin Range(contexts'[current].worklist)
    BY <1>3, <2>3
  <2>5. \A c \in DOMAIN contexts' : ~Marked(c)'
    <3> HIDE DEF changed, out
    <3>1. QED
      BY <1>2, <1>4, <2>4 DEF Marked
  <2>6. QED
    BY <1>1, <2>5 DEF MarkerInv
<1>7. changed \in BOOLEAN
  OBVIOUS
<1>8. QED
  <2> HIDE DEF changed
  <2>1. QED
    BY <1>2, <1>5, <1>6, <1>7, WorklistAfterNode

LEMMA MarkerPush ==
  ASSUME TypeInv, MarkerInv, CallNewContext \/ NotifyCaller
  PROVE  MarkerInv'
<1>1. \A c \in DOMAIN contexts : contexts[c] \in Context
                              /\ contexts[c].worklist \in Seq(Node \cup {NULL})
  BY ContextsDomain, ContextFields DEF TypeInv
<1>2. CASE CallNewContext
  <2> DEFINE new == Len(contexts) + 1
  <2>1. /\ at = "flow" /\ current \in DOMAIN contexts /\ node \in Node /\ this \in Context
        /\ insn.callee \in Method
    BY <1>2, InstructionType DEF CallNewContext, AtCall
  <2>2. /\ DOMAIN contexts' = DOMAIN contexts \cup {new} /\ new \notin DOMAIN contexts
        /\ contexts'[new] = InitContext(insn.callee, entryValue)
        /\ contexts'[current] = [this EXCEPT !.worklist = Append(@, node)]
        /\ \A c \in DOMAIN contexts : c # current => contexts'[c] = contexts[c]
    BY <1>2, NewContext
  <2>3. /\ contexts'[current].worklist = Append(this.worklist, node)
        /\ contexts'[new].worklist = <<EntryNode(insn.callee)>>
    BY <2>1, <2>2 DEF InitContext, Context
  <2>4. /\ Range(contexts'[current].worklist) = Range(this.worklist) \cup {node}
        /\ contexts'[current].worklist # <<>>
    BY <1>1, <2>1, <2>3, RangeAppend DEF this
  <2>5. NULL \notin Range(contexts'[current].worklist)
    BY <2>1, <2>4, NoMarker, NULLAssumption DEF Marked, this
  <2>6. NULL \notin Range(contexts'[new].worklist)
    <3>1. EntryNode(insn.callee) \in Node
      BY <2>1, ModuleType DEF TypeInv, TypeOK
    <3>2. QED
      BY <2>3, <3>1, SingleRange, NULLAssumption
  <2>7. \A c \in DOMAIN contexts' : NULL \notin Range(contexts'[c].worklist)
    <3> HIDE DEF new
    <3>1. QED
      BY <2>1, <2>2, <2>5, <2>6, NoMarker DEF Marked
  <2>8. workList' = Append(workList, new) /\ UNCHANGED <<at, current>>
    BY <1>2 DEF CallNewContext
  <2>9. workList' # <<>>
    <3>1. workList \in Seq(DOMAIN contexts')
      BY <2>2, SeqMonotonic DEF TypeInv, TypeOK
    <3>2. QED
      BY <2>2, <2>8, <3>1, AppendProperties
  <2>10. this'.worklist # <<>>
    BY <2>4, <2>8 DEF this
  <2>11. QED
    BY <2>7, <2>9, <2>10 DEF MarkerInv, Marked
<1>3. CASE NotifyCaller
  <2> DEFINE c == Head(sites).context
             n == Head(sites).node
  <2>1. /\ c \in DOMAIN contexts /\ n \in Node /\ DOMAIN contexts' = DOMAIN contexts
        /\ getLastWorklist(c) = NULL =>
             contexts'[c] = [contexts[c] EXCEPT !.worklist = Append(@, n)]
        /\ getLastWorklist(c) # NULL => contexts' = contexts
        /\ \A d \in DOMAIN contexts : d # c => contexts'[d] = contexts[d]
    BY <1>3, NotifiedCaller
  <2>2. at = "notify" /\ at' \in {"loop", "notify"}
    BY <1>3 DEF NotifyCaller, Idle
  <2>3. \A d \in DOMAIN contexts : NULL \notin Range(contexts[d].worklist)
    BY <2>2, NoMarker DEF Marked
  <2>4. contexts'[c].worklist \in {contexts[c].worklist, Append(contexts[c].worklist, n)}
    BY <1>1, <2>1 DEF Context
  <2>5. NULL \notin Range(Append(contexts[c].worklist, n))
    <3>1. Range(Append(contexts[c].worklist, n)) = Range(contexts[c].worklist) \cup {n}
      BY <1>1, <2>1, RangeAppend
    <3>2. QED
      BY <2>1, <2>3, <3>1, NULLAssumption
  <2>6. NULL \notin Range(contexts'[c].worklist)
    BY <2>1, <2>3, <2>4, <2>5
  <2>7. \A d \in DOMAIN contexts' : NULL \notin Range(contexts'[d].worklist)
    <3> HIDE DEF c, n
    <3>1. QED
      BY <2>1, <2>3, <2>6
  <2>8. QED
    BY <2>2, <2>7 DEF MarkerInv, Marked
<1>4. QED
  BY <1>2, <1>3

LEMMA MarkerStep ==
  ASSUME TypeInv, MarkerInv, [Next]_vars
  PROVE  MarkerInv'
<1>1. CASE UNCHANGED vars
  BY <1>1 DEF vars, locals, MarkerInv, Marked, top, this
<1>2. QED
  BY <1>1, Actions, MarkerLoop, MarkerNode, MarkerFinish, MarkerPush

LEMMA MarkedIsAlone == TypeInv /\ MarkerInv => ExitMarkerAlone
<1> SUFFICES ASSUME TypeInv, MarkerInv,
                    NEW c \in DOMAIN contexts, NEW i \in DOMAIN contexts[c].worklist,
                    contexts[c].worklist[i] = NULL
             PROVE  Len(contexts[c].worklist) = 1
  BY DEF ExitMarkerAlone
<1>1. Marked(c)
  BY DEF Marked, Range
<1>2. contexts[c].worklist = <<NULL>>
  BY <1>1 DEF MarkerInv
<1>3. QED
  BY <1>2

\* assert(isEmptyWorklist()) of the exit branch cannot fail, for any module,
\* although calls and notifications push to the same worklists.
THEOREM MarkerAlone == Spec => []ExitMarkerAlone
BY MarkerInit, MarkerStep, MarkedIsAlone, TypeInvariant, PTL DEF Spec
=============================================================================
