--------------------------- MODULE AnalysisResult ---------------------------
(***************************************************************************)
(* What the analysis leaves behind when doAnalysis returns, or when an     *)
(* assertion stops it: is it a solution of the data flow equations?        *)
(* FlowOf is the equation of a node, with every call resolved to its value *)
(* context.                                                                *)
(***************************************************************************)
EXTENDS ForwardInterProceduralAnalysis

\* A call no context exists for has not returned.
Returned(i, v) ==
  LET entry == callEntryFlowFunction(i, module.params[i.callee], v)
  IN IF ContextsOf(i.callee, entry) = {} THEN topValue
     ELSE contexts[getContext(i.callee, entry)].exitValue

FlowStep(v, i) ==
  IF i.op = "call" THEN meet(v, callExitFlowFunction(i, Returned(i, v)))
                   ELSE normalFlow(i, v)

\* The values in node n of context c: Flow(c, n)[k] is what its first k
\* instructions make of the value before it.
Flow(c, n) ==
  LET flow[k \in Nat] == IF k = 0 THEN contexts[c].before[n]
                         ELSE FlowStep(flow[k - 1], module.code[n][k])
  IN flow

\* The flow function of node n of context c, applied once more.
FlowOf(c, n) == Flow(c, n)[Len(module.code[n])]

\* The blocks a path from n leads to that goes on from no block of a set.
ReachedFrom(n, stops) ==
  {m \in Node : \A ns \in SUBSET Node :
     n \in ns /\ (\A p \in ns \ stops : Range(SuccsOf(p)) \subseteq ns) => m \in ns}

\* The blocks some path through f leads to.
Reached(f) == ReachedFrom(EntryNode(f), {})

\* The value after each of them is below what the block makes of the value
\* before it and of the final exit values of the contexts it calls.  With
\* EdgesRespected: the result is a solution, whichever contexts were created
\* in whichever order and re-analysed how often.
ResultIsSolution ==
  Done => \A c \in DOMAIN contexts : \A n \in Reached(contexts[c].method) :
            Below(contexts[c].after[n], FlowOf(c, n))

\* What a context hands to its callers is below the value after each of its
\* returning blocks: no return is missed.
ExitCoversTails ==
  Done => \A c \in DOMAIN contexts : \A t \in TailsOf(contexts[c].method) :
            Below(contexts[c].exitValue, contexts[c].after[t])

-----------------------------------------------------------------------------
(***************************************************************************)
(* Which programs the result is right for.                                 *)
(***************************************************************************)

DefinedIn(instructions) ==
  {IF i.op = "ret" THEN RETURN ELSE i.def : i \in {j \in Range(instructions) : j.op # "br"}}

\* A branch leads to returns only, as where a recursion ends: no node waits in a
\* worklist while a path goes on.
BranchesReturn ==
  \A f \in Method : \A n \in Range(module.blocks[f]) :
    Len(SuccsOf(n)) > 1 => Range(SuccsOf(n)) \subseteq TailsOf(f)

CallSitesIn(f) ==
  UNION {{<<n, i>> : i \in {j \in DOMAIN module.code[n] : module.code[n][j].op = "call"}} :
         n \in Range(module.blocks[f])}

CalleeAt(s) == module.code[s[1]][s[2]].callee

\* The calls of a method are in one block, and of different methods.
CallsApart ==
  \A f \in Method : \A s, t \in CallSitesIn(f) :
    s[1] = t[1] /\ (CalleeAt(s) = CalleeAt(t) => s = t)

\* After the entry of every method some name has a sign.
EntriesDefine ==
  \A f \in Method : \/ f # module.main /\ module.params[f] # <<>>
                    \/ DefinedIn(module.code[EntryNode(f)]) # {}

\* If its calls are in one block and of different methods, no two call sites of a
\* context compete for its worklist (NotifyCaller) or for their place in the table
\* (addTransition): the result is a solution, recursion and loops included, unless
\* the value after an entry is the empty map it starts as.
SolutionIfCallsApart == Done /\ CallsApart /\ EntriesDefine => ResultIsSolution

\* Then the block taken last is a tail, changed or not, and every exit value is
\* complete, however often a call comes back to its context.
ExitCoversIfBranchesReturn == Done /\ BranchesReturn => ExitCoversTails

-----------------------------------------------------------------------------
(***************************************************************************)
(* Failed assertions.                                                      *)
(***************************************************************************)

\* Nothing calls "main" with arguments.
DefinedAtEntry(f) == IF f = module.main THEN {} ELSE Range(module.params[f])

\* Name x has no definition on some path from the entry of f to instruction i
\* of block n.
MayBeUndefined(x, f, n, i) ==
  /\ x \notin DefinedAtEntry(f) \cup DefinedIn(SubSeq(module.code[n], 1, i - 1))
  /\ n \in ReachedFrom(EntryNode(f), {p \in Node : x \in DefinedIn(module.code[p])})

\* The assertions fail only for a program that really has a path on which an
\* operand is not defined: no name gets lost in a context's entry value, in a
\* meet, or while a block waits for its calls to return.
AbortsOnlyIfUndefined ==
  at = "aborted" =>
    \E k \in DOMAIN insn.operands :
      /\ insn.operands[k].kind = "name"
      /\ MayBeUndefined(insn.operands[k].name, this.method, node, pc)
=============================================================================
