------------------------------ MODULE Execution ------------------------------
(***************************************************************************)
(* The whole: doAnalysis runs on a program, and then the program itself    *)
(* runs on integers, from "main" and with a call stack.  Every frame has   *)
(* with it the context in which the analysis covers it and the value the   *)
(* analysis gives it at its instruction, so that what the analysis says is *)
(* compared with what happens across blocks, calls and returns.            *)
(*                                                                         *)
(* The machine may take any branch.  The program stops when "main" returns *)
(* and where it has no defined behaviour, and the model at MaxDepth frames.*)
(***************************************************************************)
EXTENDS AnalysisResult, Machine

CONSTANT MaxDepth  \* the bound on the call stack

ASSUME DepthAssumption == MaxDepth \in Nat \ {0}

\* A constant of a program is an integer of the machine.
ASSUME ConstantsAssumption ==
  \A m \in Modules : \A n \in Node : \A i \in Range(m.code[n]) : \A x \in Range(i.operands) :
    x.kind = "constant" => x.value \in Representable

VARIABLES running,  \* the program has been started
          stack     \* its frames, the last one active

executionVars == <<vars, running, stack>>

Frame(c, n, k, store, dfv) ==
  [context |-> c, node |-> n, pc |-> k, store |-> store, value |-> dfv]

EntryFrame(c, store) ==
  LET n == EntryNode(contexts[c].method) IN Frame(c, n, 1, store, contexts[c].before[n])

ExecutionTypeOK ==
  /\ running \in BOOLEAN
  /\ stack \in Seq([context : DOMAIN contexts, node : Node, pc : Nat \ {0},
                    store : [Name -> Stored], value : Values])
  /\ Len(stack) <= MaxDepth

ExecutionInit == Init /\ running = FALSE /\ stack = <<>>

-----------------------------------------------------------------------------
\* runOnModule.
Analyse == ~running /\ Next /\ UNCHANGED <<running, stack>>

\* Results known to be wrong (the runs lost_exit, two_calls, shared_site and
\* bare_entry) are not compared.
Start ==
  /\ Done /\ ~running
  /\ ResultIsSolution /\ ExitCoversTails
  /\ running' = TRUE
  /\ stack' = <<EntryFrame(1, NoStore)>>
  /\ UNCHANGED vars

frame   == Last(stack)
command == module.code[frame.node][frame.pc]

AtOp(ops) ==
  /\ stack # <<>>
  /\ frame.pc <= Len(module.code[frame.node])
  /\ command.op \in ops

Active(f) == Append(Front(stack), f)

Compute ==
  /\ AtOp(OpCode \ {"call", "br", "ret"})
  /\ \E v \in Results(command, frame.store) \cap Stored :
       stack' = Active(Frame(frame.context, frame.node, frame.pc + 1,
                             [frame.store EXCEPT ![command.def] = v],
                             normalFlow(command, frame.value)))
  /\ UNCHANGED <<vars, running>>

Branch ==
  /\ AtOp({"br"})
  /\ \E n \in Range(SuccsOf(frame.node)) :
       stack' = Active(Frame(frame.context, n, 1, frame.store,
                             contexts[frame.context].before[n]))
  /\ UNCHANGED <<vars, running>>

\* What the analysis enters the callee of call i with, in a frame.
CalleeEntry(i, f) == callEntryFlowFunction(i, module.params[i.callee], f.value)

\* The callee runs in the context the analysis finds for the call.
CallMethod ==
  /\ AtOp({"call"})
  /\ Len(stack) < MaxDepth
  /\ LET entry == CalleeEntry(command, frame) IN
     /\ ContextsOf(command.callee, entry) # {}
     /\ stack' = Append(stack,
                   EntryFrame(getContext(command.callee, entry),
                              Arguments(command, module.params[command.callee], frame.store)))
  /\ UNCHANGED <<vars, running>>

\* A caller behind its call, in the analysis with the exit value.
Resumed(caller, v, exit) ==
  LET call == module.code[caller.node][caller.pc] IN
  Frame(caller.context, caller.node, caller.pc + 1, [caller.store EXCEPT ![call.def] = v],
        meet(caller.value, callExitFlowFunction(call, exit)))

ReturnToCaller ==
  /\ AtOp({"ret"})
  /\ LET waiting == Front(stack) IN
     stack' = IF waiting = <<>> THEN <<>>
              ELSE Append(Front(waiting),
                          Resumed(Last(waiting), OperandValue(command, frame.store, 1),
                                  contexts[frame.context].exitValue))
  /\ UNCHANGED <<vars, running>>

Execute == Compute \/ Branch \/ CallMethod \/ ReturnToCaller

ExecutionNext == Analyse \/ Start \/ Execute

ExecutionSpec == ExecutionInit /\ [][ExecutionNext]_executionVars

-----------------------------------------------------------------------------
\* If the result solves the equations and covers the returns, it covers the
\* program: in every frame of every execution each name that holds an integer
\* has a sign, and the integer has that sign.
ExecutionCovered ==
  \A i \in DOMAIN stack : Covers(stack[i].store, stack[i].value)

\* No execution comes to an instruction that reads a name without a sign: what
\* doAnalysis asserts on its way holds on every way through the program.
OperandsSigned == AtOp(OpCode) => OperandsDefined(frame.value, command)

\* No execution makes a call the analysis has no context for.
CallsAnalysed ==
  AtOp({"call"}) => ContextsOf(command.callee, CalleeEntry(command, frame)) # {}
=============================================================================
