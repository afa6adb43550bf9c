------------------- MODULE ForwardInterProceduralAnalysis -------------------
(***************************************************************************)
(* doAnalysis of project/forward_inter_procedural_analysis.cpp, with the   *)
(* contexts of context.cpp, the context lookup of                          *)
(* inter_procedural_analysis.cpp and the sign analysis of                  *)
(* sign_analysis.cpp: which value contexts exist, which node is processed  *)
(* next, and when a context's exit value reaches its callers.              *)
(*                                                                         *)
(* One turn of the while loop is the run of actions from at = "loop" back  *)
(* to it; each action is one turn of an inner loop or the straight code    *)
(* between two.  Predecessors and tails are met in any order: LLVM's use   *)
(* lists and depth_first fix one.                                          *)
(***************************************************************************)
EXTENDS SignAnalysis, ContextTransitionTable

CONSTANTS NULL,     \* the exit marker in a context's worklist
          Modules   \* the llvm::Modules considered

ASSUME NULLAssumption == NULL \notin Node
ASSUME ModulesAssumption == Modules \subseteq Module

VARIABLES
  module,    \* the analysed module; never changes
  contexts,  \* the contexts by id: the one with id i is the i-th created
  workList,  \* ids of the contexts to work on, a stack: the last is the top
  at,        \* where doAnalysis is
  current,   \* current_context
  node,      \* the node taken from its worklist
  todo,      \* predecessors or tails still to be met
  pc,        \* the next instruction of node
  value,     \* in, then out_value, then exit_value
  sites      \* call sites still to be notified

locals == <<at, current, node, todo, pc, value, sites>>
vars   == <<module, contexts, workList, transitions, callers, locals>>

Context == [method     : Method,
            entryValue : Values,
            exitValue  : Values,
            before     : [Node -> Values],
            after      : [Node -> Values],
            worklist   : Seq(Node \cup {NULL}),
            analysed   : BOOLEAN]

TypeOK ==
  /\ module \in Module
  /\ contexts \in Seq(Context)
  /\ workList \in Seq(DOMAIN contexts)
  /\ TableTypeOK
  /\ DOMAIN callers \subseteq DOMAIN contexts
  /\ at \in {"loop", "meet", "flow", "exit", "notify", "aborted"}
  /\ current \in DOMAIN contexts \cup {0}
  /\ node \in Node \cup {NULL}
  /\ todo \subseteq Node
  /\ pc \in Nat
  /\ value \in Values
  /\ sites \in Seq(CallSite)

-----------------------------------------------------------------------------
(***************************************************************************)
(* The control flow graph, and the contexts.                               *)
(***************************************************************************)
EntryNode(f) == module.blocks[f][1]
SuccsOf(n)   == module.succs[n]
PredsOf(n)   == {p \in Node : n \in Range(module.succs[p])}
TailsOf(f)   == {n \in Range(module.blocks[f]) :
                   \E i \in DOMAIN module.code[n] : module.code[n][i].op = "ret"}

\* Mutant: the value before the entry node is not set.
InitContextNoEntry(f, v) ==
  [method     |-> f,
   entryValue |-> v,
   exitValue  |-> topValue,
   before     |-> [n \in Node |-> topValue],
   after      |-> [n \in Node |-> topValue],
   worklist   |-> <<EntryNode(f)>>,
   analysed   |-> FALSE]

\* initContext: every value is topValue, but that before the entry node, and
\* only the entry node is to be processed.
InitContext(f, v) ==
  [method     |-> f,
   entryValue |-> v,
   exitValue  |-> topValue,
   before     |-> [n \in Node |-> IF n = EntryNode(f) THEN v ELSE topValue],
   after      |-> [n \in Node |-> topValue],
   worklist   |-> <<EntryNode(f)>>,
   analysed   |-> FALSE]

getLastWorklist(c) ==
  IF contexts[c].worklist = <<>> THEN NULL ELSE Last(contexts[c].worklist)

\* Mutant: the contexts are told apart by their exit values, as for a backward
\* analysis.
ContextsByExit(f, v) ==
  {c \in DOMAIN contexts : contexts[c].method = f /\ contexts[c].exitValue = v}

\* The contexts getContext finds; it takes the first created.
ContextsOf(f, v) ==
  {c \in DOMAIN contexts : contexts[c].method = f /\ contexts[c].entryValue = v}

getContext(f, v) ==
  CHOOSE c \in ContextsOf(f, v) : \A d \in ContextsOf(f, v) : c <= d

this == contexts[current]
insn == module.code[node][pc]

Idle == /\ at' = "loop" /\ current' = 0 /\ node' = NULL /\ todo' = {}
        /\ pc' = 0 /\ value' = topValue /\ sites' = <<>>

Init ==
  /\ module \in Modules
  /\ contexts = <<InitContext(module.main, topValue)>>
  /\ workList = <<1>>
  /\ TableInit
  /\ at = "loop" /\ current = 0 /\ node = NULL /\ todo = {}
  /\ pc = 0 /\ value = topValue /\ sites = <<>>

-----------------------------------------------------------------------------
(***************************************************************************)
(* The head of the while loop.                                             *)
(***************************************************************************)
top == Last(workList)

\* Mutants: a context with something to do is popped; a finished one is not.
PopContextEarly ==
  /\ at = "loop" /\ workList # <<>>
  /\ contexts' = [contexts EXCEPT ![top].analysed = TRUE]
  /\ workList' = Front(workList)
  /\ UNCHANGED <<module, tableVars, locals>>

PopContextNever ==
  /\ at = "loop" /\ workList # <<>>
  /\ contexts[top].worklist = <<>>
  /\ contexts' = [contexts EXCEPT ![top].analysed = TRUE]
  /\ UNCHANGED <<module, workList, tableVars, locals>>

\* A context with nothing to do is finished.
PopContext ==
  /\ at = "loop" /\ workList # <<>>
  /\ contexts[top].worklist = <<>>
  /\ contexts' = [contexts EXCEPT ![top].analysed = TRUE]
  /\ workList' = Front(workList)
  /\ UNCHANGED <<module, tableVars, locals>>

\* getAndPopWorklist.
Pop(c) == contexts' = [contexts EXCEPT ![c].worklist = Front(@)]

TakeNode ==
  /\ at = "loop" /\ workList # <<>>
  /\ contexts[top].worklist # <<>> /\ getLastWorklist(top) # NULL
  /\ Pop(top)
  /\ at' = "meet"
  /\ current' = top
  /\ node' = getLastWorklist(top)
  /\ todo' = PredsOf(getLastWorklist(top))
  /\ UNCHANGED <<module, workList, tableVars, pc, value, sites>>

\* The exit marker must be the last thing a context has to do: otherwise
\* assert(isEmptyWorklist()) aborts.
TakeExitMarker ==
  /\ at = "loop" /\ workList # <<>>
  /\ contexts[top].worklist # <<>> /\ getLastWorklist(top) = NULL
  /\ Pop(top)
  /\ at' = IF Len(contexts[top].worklist) = 1 THEN "exit" ELSE "aborted"
  /\ current' = top
  /\ todo' = TailsOf(contexts[top].method)
  /\ UNCHANGED <<module, workList, tableVars, node, pc, value, sites>>

-----------------------------------------------------------------------------
(***************************************************************************)
(* A node: the value before it, its instructions, the value after it.      *)
(***************************************************************************)
MeetPredecessor ==
  /\ at = "meet"
  /\ \E p \in todo : /\ value' = meet(value, this.after[p])
                     /\ todo' = todo \ {p}
  /\ UNCHANGED <<module, contexts, workList, tableVars, at, current, node, pc, sites>>

\* Mutant: the value met is used and not stored.
EnterNodeStale ==
  /\ at = "meet" /\ todo = {}
  /\ value' = IF PredsOf(node) = {} THEN this.before[node] ELSE value
  /\ at' = "flow"
  /\ pc' = 1
  /\ UNCHANGED <<module, contexts, workList, tableVars, current, node, todo, sites>>

\* A node without predecessors, the entry, keeps the value before it.
EnterNode ==
  /\ at = "meet" /\ todo = {}
  /\ IF PredsOf(node) = {}
       THEN /\ value' = this.before[node]
            /\ UNCHANGED contexts
       ELSE /\ contexts' = [contexts EXCEPT ![current].before[node] = value]
            /\ UNCHANGED value
  /\ at' = "flow"
  /\ pc' = 1
  /\ UNCHANGED <<module, workList, tableVars, current, node, todo, sites>>

AtInstruction == at = "flow" /\ pc <= Len(module.code[node])

\* normalFlowFunction, and callCustomFlowFunction for what is not a call.
FlowInstruction ==
  /\ AtInstruction
  /\ insn.op # "call"
  /\ OperandsDefined(value, insn)
  /\ value' = normalFlow(insn, value)
  /\ pc' = pc + 1
  /\ UNCHANGED <<module, contexts, workList, tableVars, at, current, node, todo, sites>>

\* assert(false) in signOf and callEntryFlowFunction.
MissingOperand ==
  /\ AtInstruction
  /\ ~OperandsDefined(value, insn)
  /\ at' = "aborted"
  /\ UNCHANGED <<module, contexts, workList, tableVars, current, node, todo, pc, value, sites>>

\* Mutant: the call is recorded for the entry of the calling method.
callSiteOfEntry == [context |-> current, node |-> EntryNode(this.method)]

callSite   == [context |-> current, node |-> node]
entryValue == callEntryFlowFunction(insn, module.params[insn.callee], value)

AtCall == AtInstruction /\ insn.op = "call" /\ OperandsDefined(value, insn)

\* A call that leads to an existing context: its exit value of now is used.
CallKnownContext ==
  /\ AtCall
  /\ ContextsOf(insn.callee, entryValue) # {}
  /\ LET target == getContext(insn.callee, entryValue) IN
     /\ addTransition(callSite, insn.callee, target)
     /\ value' = meet(value, callExitFlowFunction(insn, contexts[target].exitValue))
  /\ pc' = pc + 1
  /\ UNCHANGED <<module, contexts, workList, at, current, node, todo, sites>>

\* A call that needs a new context: the node waits for it in the worklist of
\* its own context, below the new one on the stack, and has its old out value.
CallNewContext ==
  /\ AtCall
  /\ ContextsOf(insn.callee, entryValue) = {}
  /\ contexts' = Append([contexts EXCEPT ![current].worklist = Append(@, node)],
                        InitContext(insn.callee, entryValue))
  /\ workList' = Append(workList, Len(contexts) + 1)
  /\ addTransition(callSite, insn.callee, Len(contexts) + 1)
  /\ value' = this.after[node]
  /\ pc' = Len(module.code[node]) + 1
  /\ UNCHANGED <<module, at, current, node, todo, sites>>

\* Mutant: the new value replaces the old one.
OutReplaced(old) == value

\* The value after a node is met with its old one.
OutMet(old) == meet(value, old)

\* Mutants: only the first successor is queued; the exit marker is queued
\* beside other nodes.
WorklistOneSuccessor(changed) ==
  LET next == this.worklist \o (IF changed /\ SuccsOf(node) # <<>>
                                  THEN <<SuccsOf(node)[1]>> ELSE <<>>)
  IN IF next = <<>> /\ node \in TailsOf(this.method) THEN <<NULL>> ELSE next

WorklistMarkerEarly(changed) ==
  this.worklist \o (IF changed THEN SuccsOf(node) ELSE <<>>)
                \o (IF node \in TailsOf(this.method) THEN <<NULL>> ELSE <<>>)

\* What the context has to do after its node: if the value after it changed, the
\* successors too, and if that is nothing and the node a tail, the exit.
WorklistAfter(changed) ==
  LET next == this.worklist \o (IF changed THEN SuccsOf(node) ELSE <<>>)
  IN IF next = <<>> /\ node \in TailsOf(this.method) THEN <<NULL>> ELSE next

FinishNode ==
  LET old == this.after[node]
      out == OutMet(old)
  IN /\ at = "flow" /\ pc > Len(module.code[node])
     /\ contexts' = [contexts EXCEPT ![current].after[node] = out,
                                     ![current].worklist = WorklistAfter(out # old)]
     /\ Idle
     /\ UNCHANGED <<module, workList, tableVars>>

-----------------------------------------------------------------------------
(***************************************************************************)
(* The exit of a context.                                                  *)
(***************************************************************************)
\* Mutant: the last tail decides alone.
MeetTailLast ==
  /\ at = "exit"
  /\ \E t \in todo : /\ value' = this.after[t]
                     /\ todo' = todo \ {t}
  /\ UNCHANGED <<module, contexts, workList, tableVars, at, current, node, pc, sites>>

MeetTail ==
  /\ at = "exit"
  /\ \E t \in todo : /\ value' = meet(value, this.after[t])
                     /\ todo' = todo \ {t}
  /\ UNCHANGED <<module, contexts, workList, tableVars, at, current, node, pc, sites>>

SetExit ==
  /\ at = "exit" /\ todo = {}
  /\ contexts' = [contexts EXCEPT ![current].exitValue = value,
                                  ![current].analysed = TRUE]
  /\ IF getCallers(current) # <<>> /\ ~isReturnEqual(this.exitValue, value)
       THEN /\ at' = "notify"
            /\ sites' = getCallers(current)
            /\ UNCHANGED <<current, node, todo, pc, value>>
       ELSE Idle
  /\ UNCHANGED <<module, workList, tableVars>>

\* A caller that waits for nothing takes its call node again; in any case it is
\* put on the stack.
NotifyCaller ==
  /\ at = "notify"
  /\ LET site == Head(sites)
         c    == site.context
     IN /\ contexts' = IF getLastWorklist(c) = NULL
                         THEN [contexts EXCEPT ![c].worklist = Append(@, site.node)]
                         ELSE contexts
        /\ workList' = Append(workList, c)
  /\ IF Len(sites) = 1
       THEN Idle
       ELSE /\ sites' = Tail(sites)
            /\ UNCHANGED <<at, current, node, todo, pc, value>>
  /\ UNCHANGED <<module, tableVars>>

-----------------------------------------------------------------------------
Done == at = "loop" /\ workList = <<>>

\* doAnalysis has returned, or an assertion has failed.
Stopped == Done \/ at = "aborted"

Stutter == Stopped /\ UNCHANGED vars

Next ==
  \/ PopContext \/ TakeNode \/ TakeExitMarker
  \/ MeetPredecessor \/ EnterNode
  \/ FlowInstruction \/ MissingOperand \/ CallKnownContext \/ CallNewContext \/ FinishNode
  \/ MeetTail \/ SetExit \/ NotifyCaller
  \/ Stutter

\* The pass is a loop that nothing interrupts.
Spec == Init /\ [][Next]_vars /\ WF_vars(Next)

-----------------------------------------------------------------------------
(***************************************************************************)
(* Safety.                                                                 *)
(***************************************************************************)

\* assert(isEmptyWorklist()) of the exit branch cannot fail: the marker never
\* has company, although notification appends to a worklist it may be in.
ExitMarkerAlone ==
  \A c \in DOMAIN contexts : \A i \in DOMAIN contexts[c].worklist :
    contexts[c].worklist[i] = NULL => Len(contexts[c].worklist) = 1

\* getContext finds every context again: no method is analysed twice for equal
\* entry values, however often and from wherever it is called.
UniqueValueContexts ==
  \A c, d \in DOMAIN contexts :
    /\ contexts[c].method = contexts[d].method
    /\ contexts[c].entryValue = contexts[d].entryValue
    => c = d

\* No node is forgotten: a context with something to do is on the stack.
PendingIsScheduled ==
  \A c \in DOMAIN contexts : contexts[c].worklist # <<>> => c \in Range(workList)

\* Whoever is notified calls the notifier: a recorded call site is a node of
\* its context's method that calls the method of the context it leads to, so
\* getContextbyId finds the context by the node's parent.
CallersCall ==
  \A t \in DOMAIN callers : \A i \in DOMAIN callers[t] :
    LET s == callers[t][i] IN
    /\ s.context \in DOMAIN contexts
    /\ s.node \in Range(module.blocks[contexts[s.context].method])
    /\ \E j \in DOMAIN module.code[s.node] :
         /\ module.code[s.node][j].op = "call"
         /\ module.code[s.node][j].callee = contexts[t].method

\* Every edge of the control flow graph is respected or its target is still to
\* be processed: the value before a node is below what each predecessor sends.
EdgesRespected ==
  \A c \in DOMAIN contexts, p \in Node : \A n \in Range(SuccsOf(p)) :
    \/ n \in Range(contexts[c].worklist)
    \/ at = "meet" /\ c = current /\ n = node
    \/ Below(contexts[c].before[n], contexts[c].after[p])

-----------------------------------------------------------------------------
(***************************************************************************)
(* What a step may never do.                                               *)
(***************************************************************************)

\* Values only descend, although the transfer functions are not monotone: the
\* value after a node and a context's exit value never rise again, which is
\* what bounds the number of turns.
ValuesDescend ==
  [][\A c \in DOMAIN contexts :
       /\ Below(contexts'[c].exitValue, contexts[c].exitValue)
       /\ \A n \in Node : Below(contexts'[c].after[n], contexts[c].after[n])]_vars

-----------------------------------------------------------------------------
(***************************************************************************)
(* Liveness, and the result.                                               *)
(***************************************************************************)

\* The analysis ends for every module, recursive ones included.
Termination == <>Stopped
-----------------------------------------------------------------------------
(***************************************************************************)
(* The promise of an analysis by value contexts: a key of the table is the *)
(* method and entry value of a context.                                    *)
(***************************************************************************)
KeyOf(c) == <<contexts[c].method, contexts[c].entryValue>>

TableOfContexts ==
  [k \in {KeyOf(c) : c \in DOMAIN contexts} |->
     LET c == getContext(k[1], k[2])
     IN [before |-> contexts[c].before, after |-> contexts[c].after, exit |-> contexts[c].exitValue]]

Promise == INSTANCE ValueContexts WITH table <- TableOfContexts, returned <- Done

\* doAnalysis keeps it: whatever is popped, queued again and notified, the
\* contexts grow only by calls of the program and each has one place, no value
\* rises, not even one before a node, and doAnalysis returns only with every edge
\* respected.
KeepsPromise == Promise!Spec
=============================================================================
