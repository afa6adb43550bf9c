------------------------ MODULE ValueContextsProofs -------------------------
(***************************************************************************)
(* The values doAnalysis of                                                *)
(* project/forward_inter_procedural_analysis.cpp computes, for every       *)
(* module: values before and after nodes and exit values only descend,     *)
(* though the transfer functions are not monotone, and every edge of a     *)
(* control flow graph is respected or its target is still to be processed. *)
(* The call sites it notifies (with context_transition_table.cpp): the two *)
(* maps of the table are inverse, and whoever is recorded as a caller of a *)
(* context is a block that calls its method, so getContextbyId finds its   *)
(* context.  And, from all its invariants: doAnalysis implements           *)
(* ValueContexts.                                                          *)
(***************************************************************************)
EXTENDS ForwardInterProceduralAnalysisProofs

-----------------------------------------------------------------------------
(* Which action assigns which value of a context.                          *)

SameValues(c) == /\ contexts'[c].before = contexts[c].before
                 /\ contexts'[c].after = contexts[c].after
                 /\ contexts'[c].exitValue = contexts[c].exitValue

\* The actions that assign none.
LEMMA ValuesKept ==
  ASSUME TypeInv, NEW c \in DOMAIN contexts,
         \/ PopContext \/ TakeNode \/ TakeExitMarker \/ Reads \/ CallNewContext
         \/ NotifyCaller \/ UNCHANGED vars
  PROVE  SameValues(c)
<1>1. \A d \in DOMAIN contexts : contexts[d] \in Context
  BY ContextsDomain DEF TypeInv
<1>2. CASE PopContext
  <2>1. /\ top \in DOMAIN contexts
        /\ contexts'[top] = [contexts[top] EXCEPT !.analysed = TRUE]
        /\ \A d \in DOMAIN contexts : d # top => contexts'[d] = contexts[d]
    BY <1>2, PoppedContext
  <2>2. QED
    BY <1>1, <2>1 DEF SameValues, Context
<1>3. CASE TakeNode \/ TakeExitMarker
  <2>1. /\ top \in DOMAIN contexts
        /\ contexts'[top] = [contexts[top] EXCEPT !.worklist = Front(contexts[top].worklist)]
        /\ \A d \in DOMAIN contexts : d # top => contexts'[d] = contexts[d]
    BY <1>3, TakenNode
  <2>2. QED
    BY <1>1, <2>1 DEF SameValues, Context
<1>4. CASE Reads \/ UNCHANGED vars
  <2>1. contexts' = contexts
    BY <1>4, ReadsOnly DEF vars
  <2>2. QED
    BY <2>1 DEF SameValues
<1>5. CASE CallNewContext
  <2>1. /\ contexts'[current] = [this EXCEPT !.worklist = Append(@, node)]
        /\ \A d \in DOMAIN contexts : d # current => contexts'[d] = contexts[d]
    BY <1>5, NewContext
  <2>2. current \in DOMAIN contexts /\ this \in Context
    BY <1>5, InstructionType DEF CallNewContext, AtCall
  <2>3. SameValues(current)
    BY <2>1, <2>2 DEF SameValues, this, Context
  <2>4. QED
    BY <2>1, <2>3 DEF SameValues
<1>6. CASE NotifyCaller
  <2> DEFINE d == Head(sites).context
  <2>1. /\ d \in DOMAIN contexts
        /\ getLastWorklist(d) = NULL =>
             contexts'[d] = [contexts[d] EXCEPT !.worklist = Append(@, Head(sites).node)]
        /\ getLastWorklist(d) # NULL => contexts' = contexts
        /\ \A e \in DOMAIN contexts : e # d => contexts'[e] = contexts[e]
    BY <1>6, NotifiedCaller
  <2>2. SameValues(d)
    BY <1>1, <2>1 DEF SameValues, Context
  <2>3. QED
    BY <2>1, <2>2 DEF SameValues
<1>7. QED
  BY <1>2, <1>3, <1>4, <1>5, <1>6

LEMMA ValuesEntered ==
  ASSUME TypeInv, EnterNode
  PROVE  /\ \A c \in DOMAIN contexts :
              /\ contexts'[c].after = contexts[c].after
              /\ contexts'[c].exitValue = contexts[c].exitValue
              /\ contexts'[c].worklist = contexts[c].worklist
              /\ c # current => contexts'[c].before = contexts[c].before
         /\ \A n \in Node : contexts'[current].before[n] =
              IF n = node /\ PredsOf(node) # {} THEN value ELSE this.before[n]
<1>1. /\ current \in DOMAIN contexts /\ node \in Node
      /\ PredsOf(node) = {} => contexts' = contexts
      /\ PredsOf(node) # {} =>
           contexts'[current] = [this EXCEPT !.before = [this.before EXCEPT ![node] = value]]
      /\ \A c \in DOMAIN contexts : c # current => contexts'[c] = contexts[c]
  BY EnteredNode
<1>2. this \in Context /\ this.before \in [Node -> Values]
  BY <1>1, ContextsDomain, ContextFields DEF TypeInv, this
<1>3. CASE PredsOf(node) = {}
  BY <1>1, <1>3 DEF this
<1>4. CASE PredsOf(node) # {}
  <2> DEFINE b == [this.before EXCEPT ![node] = value]
  <2>1. \A n \in Node : b[n] = IF n = node THEN value ELSE this.before[n]
    BY <1>1, <1>2
  <2>2. contexts'[current] = [this EXCEPT !.before = b]
    BY <1>1, <1>4
  <2> HIDE DEF b
  <2>3. /\ contexts'[current].before = b
        /\ contexts'[current].after = this.after
        /\ contexts'[current].exitValue = this.exitValue
        /\ contexts'[current].worklist = this.worklist
    BY <1>2, <2>2 DEF Context
  <2>4. QED
    BY <1>1, <1>4, <2>1, <2>3 DEF this
<1>5. QED
  BY <1>3, <1>4

LEMMA ValuesFinished ==
  ASSUME TypeInv, FinishNode
  PROVE  /\ current \in DOMAIN contexts /\ node \in Node
         /\ \A c \in DOMAIN contexts :
              /\ contexts'[c].before = contexts[c].before
              /\ contexts'[c].exitValue = contexts[c].exitValue
              /\ c # current => contexts'[c] = contexts[c]
         /\ \A n \in Node : contexts'[current].after[n] =
              IF n = node THEN OutMet(this.after[node]) ELSE this.after[n]
         /\ contexts'[current].worklist =
              WorklistAfter(OutMet(this.after[node]) # this.after[node])
<1> DEFINE out == OutMet(this.after[node])
           w   == WorklistAfter(out # this.after[node])
           a   == [this.after EXCEPT ![node] = out]
<1>1. /\ current \in DOMAIN contexts /\ node \in Node /\ this \in Context
      /\ contexts'[current] = [this EXCEPT !.after = a, !.worklist = w]
      /\ \A c \in DOMAIN contexts : c # current => contexts'[c] = contexts[c]
  BY FinishedNode
<1>2. \A n \in Node : a[n] = IF n = node THEN out ELSE this.after[n]
  <2>1. this.after \in [Node -> Values]
    BY <1>1, ContextFields
  <2>2. QED
    BY <1>1, <2>1
<1>3. /\ contexts'[current].before = this.before
      /\ contexts'[current].after = a
      /\ contexts'[current].exitValue = this.exitValue
      /\ contexts'[current].worklist = w
  <2> HIDE DEF a, w
  <2>1. QED
    BY <1>1 DEF Context
<1>4. QED
  <2> HIDE DEF a
  <2>1. QED
    BY <1>1, <1>2, <1>3 DEF this

LEMMA ValuesExit ==
  ASSUME TypeInv, SetExit
  PROVE  /\ current \in DOMAIN contexts
         /\ \A c \in DOMAIN contexts :
              /\ contexts'[c].before = contexts[c].before
              /\ contexts'[c].after = contexts[c].after
              /\ contexts'[c].worklist = contexts[c].worklist
              /\ contexts'[c].exitValue = IF c = current THEN value ELSE contexts[c].exitValue
<1>1. /\ current \in DOMAIN contexts
      /\ contexts'[current] = [this EXCEPT !.exitValue = value, !.analysed = TRUE]
      /\ \A c \in DOMAIN contexts : c # current => contexts'[c] = contexts[c]
  BY ExitSet
<1>2. this \in Context
  BY <1>1, ContextsDomain DEF TypeInv, this
<1>3. /\ contexts'[current].before = this.before
      /\ contexts'[current].after = this.after
      /\ contexts'[current].worklist = this.worklist
      /\ contexts'[current].exitValue = value
  BY <1>1, <1>2 DEF Context
<1>4. QED
  BY <1>1, <1>3 DEF this

\* What a step does to the worklist of a context.
LEMMA WorklistStep ==
  ASSUME TypeInv, [Next]_vars, NEW c \in DOMAIN contexts
  PROVE  \/ contexts'[c].worklist = contexts[c].worklist
         \/ /\ TakeNode \/ TakeExitMarker
            /\ c = top /\ contexts[c].worklist # <<>>
            /\ contexts'[c].worklist = Front(contexts[c].worklist)
         \/ /\ CallNewContext /\ c = current /\ node \in Node
            /\ contexts'[c].worklist = Append(contexts[c].worklist, node)
         \/ /\ FinishNode /\ c = current /\ node \in Node
            /\ contexts'[c].worklist = WorklistAfter(OutMet(this.after[node]) # this.after[node])
         \/ /\ NotifyCaller /\ c = Head(sites).context /\ getLastWorklist(c) = NULL
            /\ contexts'[c].worklist = Append(contexts[c].worklist, Head(sites).node)
<1>1. \A d \in DOMAIN contexts : contexts[d] \in Context
  BY ContextsDomain DEF TypeInv
<1>2. CASE PopContext
  BY <1>1, <1>2, PoppedContext DEF Context
<1>3. CASE TakeNode \/ TakeExitMarker
  <2>1. /\ top \in DOMAIN contexts /\ contexts[top].worklist # <<>>
        /\ contexts'[top] = [contexts[top] EXCEPT !.worklist = Front(contexts[top].worklist)]
        /\ \A d \in DOMAIN contexts : d # top => contexts'[d] = contexts[d]
    BY <1>3, TakenNode
  <2>2. QED
    BY <1>1, <1>3, <2>1 DEF Context
<1>4. CASE EnterNode \/ SetExit
  BY <1>4, ValuesEntered, ValuesExit
<1>5. CASE Reads \/ UNCHANGED vars
  BY <1>5, ReadsOnly DEF vars
<1>6. CASE CallNewContext
  <2>1. /\ contexts'[current] = [this EXCEPT !.worklist = Append(@, node)]
        /\ \A d \in DOMAIN contexts : d # current => contexts'[d] = contexts[d]
    BY <1>6, NewContext
  <2>2. current \in DOMAIN contexts /\ this \in Context /\ node \in Node
    BY <1>6, InstructionType DEF CallNewContext, AtCall
  <2>3. contexts'[current].worklist = Append(contexts[current].worklist, node)
    BY <2>1, <2>2 DEF Context, this
  <2>4. QED
    BY <1>6, <2>1, <2>2, <2>3
<1>7. CASE FinishNode
  BY <1>7, ValuesFinished
<1>8. CASE NotifyCaller
  <2> DEFINE d == Head(sites).context
             n == Head(sites).node
  <2>1. /\ d \in DOMAIN contexts
        /\ getLastWorklist(d) = NULL =>
             contexts'[d] = [contexts[d] EXCEPT !.worklist = Append(@, n)]
        /\ getLastWorklist(d) # NULL => contexts' = contexts
        /\ c # d => contexts'[c] = contexts[c]
    BY <1>8, NotifiedCaller
  <2>2. getLastWorklist(d) = NULL => contexts'[d].worklist = Append(contexts[d].worklist, n)
    BY <1>1, <2>1 DEF Context
  <2> HIDE DEF d, n
  <2>3. QED
    BY <1>8, <2>1, <2>2 DEF d, n
<1>9. QED
  BY <1>2, <1>3, <1>4, <1>5, <1>6, <1>7, <1>8, Actions

-----------------------------------------------------------------------------
(* Descent.  The value after a node is met with its old one, so it         *)
(* descends.  The exit value is computed afresh from the values after the  *)
(* tails: it descends because it is their greatest lower bound, while the  *)
(* old one was a lower bound of nothing but higher values.                 *)

LEMMA ContextValues ==
  ASSUME TypeInv, NEW c \in DOMAIN contexts
  PROVE  /\ contexts[c].method \in Method
         /\ contexts[c].exitValue \in Values
         /\ \A n \in Node : contexts[c].after[n] \in Values /\ contexts[c].before[n] \in Values
         /\ TailsOf(contexts[c].method) \subseteq Node
<1>1. /\ contexts[c].method \in Method /\ contexts[c].exitValue \in Values
      /\ contexts[c].after \in [Node -> Values] /\ contexts[c].before \in [Node -> Values]
  BY ContextsDomain, ContextFields DEF TypeInv
<1>2. module.blocks[contexts[c].method] \in Seq(Node)
  BY <1>1, ModuleType DEF TypeInv, TypeOK
<1>3. QED
  BY <1>1, <1>2, RangeOfSeq DEF TailsOf

LEMMA AfterValues ==
  ASSUME TypeInv', NEW c \in DOMAIN contexts'
  PROVE  \A n \in Node : contexts'[c].after[n] \in Values
<1>1. \A d \in DOMAIN contexts' : contexts'[d] \in Context
  BY ContextsDomain DEF TypeInv, TypeOK
<1>2. contexts'[c].after \in [Node -> Values]
  BY <1>1 DEF Context
<1>3. QED
  BY <1>2

\* What is below the value after every tail of a set of them.
BelowTails(v, c, tails) == \A t \in tails : Below(v, contexts[c].after[t])

MetTails == TailsOf(this.method) \ todo

ExitInv ==
  /\ at = "loop" => value = topValue
  /\ \A c \in DOMAIN contexts : \A v \in Values :
       BelowTails(v, c, TailsOf(contexts[c].method)) => Below(v, contexts[c].exitValue)
  /\ at = "exit" => /\ todo \subseteq TailsOf(this.method)
                    /\ BelowTails(value, current, MetTails)
                    /\ \A v \in Values : BelowTails(v, current, MetTails) => Below(v, value)

LEMMA AfterDescends ==
  ASSUME TypeInv, [Next]_vars, NEW c \in DOMAIN contexts, NEW n \in Node
  PROVE  Below(contexts'[c].after[n], contexts[c].after[n])
<1>1. contexts[c].after[n] \in Values
  BY ContextValues
<1>2. CASE contexts'[c].after[n] = contexts[c].after[n]
  BY <1>1, <1>2, BelowOrder
<1>3. CASE FinishNode
  <2>1. CASE c = current /\ n = node
    <3>1. contexts'[current].after[node] = meet(value, this.after[node])
      BY <1>3, <2>1, ValuesFinished DEF OutMet
    <3>2. value \in Values /\ this.after[node] \in Values
      BY <1>1, <2>1 DEF TypeInv, TypeOK, this
    <3>3. QED
      BY <2>1, <3>1, <3>2, MeetIsGreatest DEF this
  <2>2. CASE ~(c = current /\ n = node)
    <3>1. contexts'[c].after[n] = contexts[c].after[n]
      BY <1>3, <2>2, ValuesFinished DEF this
    <3>2. QED
      BY <1>2, <3>1
  <2>3. QED
    BY <2>1, <2>2
<1>4. CASE ~FinishNode
  <2>1. contexts'[c].after = contexts[c].after
    BY <1>4, Actions, ValuesKept, ValuesEntered, ValuesExit DEF SameValues
  <2>2. QED
    BY <1>2, <2>1
<1>5. QED
  BY <1>3, <1>4

LEMMA ExitInit ==
  ASSUME Init
  PROVE  ExitInv
<1>1. DOMAIN contexts = {1} /\ at = "loop" /\ value = topValue
  BY DEF Init
<1>2. contexts[1].exitValue = topValue
  BY DEF Init, InitContext
<1>3. QED
  BY <1>1, <1>2, BelowOrder DEF ExitInv

\* The exit values, whatever the step.
LEMMA ExitValuesStep ==
  ASSUME TypeInv, TypeInv', ExitInv, [Next]_vars,
         NEW c \in DOMAIN contexts', NEW v \in Values,
         BelowTails(v, c, TailsOf(contexts[c].method))'
  PROVE  Below(v, contexts'[c].exitValue)
<1>1. SameIdentity
  BY Identity
<1>2. CASE c \in DOMAIN contexts
  <2>1. TailsOf(contexts[c].method)' = TailsOf(contexts[c].method)
    BY <1>1, <1>2 DEF TailsOf, SameIdentity
  <2>2. TailsOf(contexts[c].method) \subseteq Node
    BY <1>2, ContextValues
  <2>3. ASSUME NEW t \in TailsOf(contexts[c].method)
        PROVE  Below(v, contexts[c].after[t])
    <3>1. t \in Node
      BY <2>2
    <3>2. Below(v, contexts'[c].after[t])
      BY <2>1 DEF BelowTails
    <3>3. Below(contexts'[c].after[t], contexts[c].after[t])
      BY <1>2, <3>1, AfterDescends
    <3>4. contexts[c].after[t] \in Values
      BY <1>2, <3>1, ContextValues
    <3>5. contexts'[c].after[t] \in Values
      BY <3>1, AfterValues
    <3>6. QED
      BY <3>2, <3>3, <3>4, <3>5, BelowOrder
  <2>4. BelowTails(v, c, TailsOf(contexts[c].method))
    BY <2>3 DEF BelowTails
  <2>5. CASE contexts'[c].exitValue = contexts[c].exitValue
    BY <1>2, <2>4, <2>5 DEF ExitInv
  <2>6. CASE SetExit
    <3>1. CASE c = current
      <4>1. at = "exit" /\ todo = {} /\ contexts'[c].exitValue = value
        BY <1>2, <2>6, <3>1, ValuesExit DEF SetExit
      <4>2. MetTails = TailsOf(contexts[c].method)
        BY <3>1, <4>1 DEF MetTails, this
      <4>3. QED
        BY <2>4, <3>1, <4>1, <4>2 DEF ExitInv
    <3>2. CASE c # current
      BY <1>2, <2>5, <2>6, <3>2, ValuesExit
    <3>3. QED
      BY <3>1, <3>2
  <2>7. CASE ~SetExit
    BY <1>2, <2>5, <2>7, Actions, ValuesKept, ValuesEntered, ValuesFinished DEF SameValues
  <2>8. QED
    BY <2>6, <2>7
<1>3. CASE c \notin DOMAIN contexts
  <2>1. CallNewContext
    BY <1>1, <1>3 DEF SameIdentity
  <2>2. contexts'[c].exitValue = topValue
    BY <1>3, <2>1, NewContext DEF InitContext
  <2>3. QED
    BY <2>2, BelowOrder
<1>4. QED
  BY <1>2, <1>3

LEMMA ExitLocalStep ==
  ASSUME TypeInv, ExitInv, [Next]_vars
  PROVE  /\ at' = "loop" => value' = topValue
         /\ at' = "exit" =>
              /\ todo' \subseteq TailsOf(this.method)'
              /\ BelowTails(value, current, MetTails)'
              /\ \A v \in Values : BelowTails(v, current, MetTails)' => Below(v, value')
<1>1. CASE TakeExitMarker
  <2>1. /\ todo' = TailsOf(contexts[top].method) /\ current' = top
        /\ value' = topValue /\ at' # "loop" /\ module' = module
    BY <1>1 DEF TakeExitMarker, ExitInv
  <2>2. top \in DOMAIN contexts
    BY <1>1, TakenNode
  <2>3. TailsOf(this.method)' = todo'
    <3>1. SameIdentity
      BY Identity
    <3>2. contexts'[top].method = contexts[top].method
      BY <2>2, <3>1 DEF SameIdentity
    <3>3. QED
      BY <2>1, <3>2 DEF TailsOf, this
  <2>4. MetTails' = {}
    BY <2>3 DEF MetTails
  <2>5. QED
    BY <2>1, <2>3, <2>4, BelowOrder DEF BelowTails
<1>2. CASE MeetTail
  <2>1. PICK p \in todo : value' = meet(value, this.after[p]) /\ todo' = todo \ {p}
    BY <1>2 DEF MeetTail
  <2>2. at = "exit" /\ UNCHANGED <<module, contexts, current, at>>
    BY <1>2 DEF MeetTail
  <2>3. current \in DOMAIN contexts /\ p \in Node /\ value \in Values
    BY <2>2 DEF TypeInv, TypeOK, Control
  <2>4. /\ \A n \in Node : this.after[n] \in Values
        /\ TailsOf(this.method) \subseteq Node
    BY <2>3, ContextValues DEF this
  <2>5. /\ Below(value', value) /\ Below(value', this.after[p]) /\ value' \in Values
        /\ \A v \in Values : Below(v, value) /\ Below(v, this.after[p]) => Below(v, value')
    BY <2>1, <2>3, <2>4, MeetIsGreatest, MeetType
  <2>6. /\ todo \subseteq TailsOf(this.method)
        /\ BelowTails(value, current, MetTails)
        /\ \A v \in Values : BelowTails(v, current, MetTails) => Below(v, value)
    BY <2>2 DEF ExitInv
  <2>7. TailsOf(this.method)' = TailsOf(this.method)
    BY <2>2 DEF TailsOf, this
  <2>8. MetTails' = MetTails \cup {p}
    BY <2>1, <2>6, <2>7 DEF MetTails
  <2>9. MetTails \subseteq Node
    BY <2>4 DEF MetTails
  <2>10. \A v : BelowTails(v, current, MetTails)' <=>
                  BelowTails(v, current, MetTails) /\ Below(v, this.after[p])
    BY <2>2, <2>8 DEF BelowTails, this
  <2>11. BelowTails(value', current, MetTails)
    <3>1. \A t \in MetTails : Below(value, this.after[t]) /\ this.after[t] \in Values
      BY <2>4, <2>6, <2>9 DEF BelowTails, this
    <3>2. \A t \in MetTails : Below(value', this.after[t])
      BY <2>3, <2>5, <3>1, BelowOrder
    <3>3. QED
      BY <3>2 DEF BelowTails, this
  <2>12. BelowTails(value, current, MetTails)'
    <3>1. \A t \in MetTails' : Below(value', contexts'[current'].after[t])
      BY <2>2, <2>5, <2>8, <2>11 DEF BelowTails, this
    <3>2. QED
      BY <3>1 DEF BelowTails
  <2>13. \A v \in Values : BelowTails(v, current, MetTails)' => Below(v, value')
    BY <2>5, <2>6, <2>10
  <2>14. todo' \subseteq TailsOf(this.method)'
    BY <2>1, <2>6, <2>7
  <2>15. QED
    BY <2>2, <2>12, <2>13, <2>14
<1>3. CASE PopContext \/ FinishNode \/ SetExit \/ NotifyCaller
  <2>1. /\ at' \in {"loop", "notify"}
        /\ at' = "loop" => value' = topValue
    BY <1>3 DEF PopContext, FinishNode, SetExit, NotifyCaller, Idle, locals, ExitInv
  <2>2. QED
    BY <2>1
<1>4. CASE \/ TakeNode \/ MeetPredecessor \/ EnterNode \/ FlowInstruction \/ MissingOperand
           \/ CallKnownContext \/ CallNewContext
  <2>1. at' \in {"meet", "flow", "aborted"}
    BY <1>4 DEF TakeNode, MeetPredecessor, EnterNode, FlowInstruction, MissingOperand,
                CallKnownContext, CallNewContext, AtCall, AtInstruction
  <2>2. QED
    BY <2>1
<1>5. CASE UNCHANGED vars
  BY <1>5 DEF vars, locals, ExitInv, BelowTails, MetTails, TailsOf, this
<1>6. QED
  BY <1>1, <1>2, <1>3, <1>4, <1>5 DEF Next, Stutter

LEMMA ExitStep ==
  ASSUME TypeInv, TypeInv', ExitInv, [Next]_vars
  PROVE  ExitInv'
<1>1. \A c \in DOMAIN contexts' : \A v \in Values :
        BelowTails(v, c, TailsOf(contexts[c].method))' => Below(v, contexts'[c].exitValue)
  BY ExitValuesStep
<1>2. /\ at' = "loop" => value' = topValue
      /\ at' = "exit" => /\ todo' \subseteq TailsOf(this.method)'
                         /\ BelowTails(value, current, MetTails)'
                         /\ \A v \in Values :
                              BelowTails(v, current, MetTails)' => Below(v, value')
  BY ExitLocalStep
<1>3. QED
  BY <1>1, <1>2 DEF ExitInv

LEMMA DescentStep ==
  ASSUME TypeInv, ExitInv, [Next]_vars, NEW c \in DOMAIN contexts
  PROVE  /\ Below(contexts'[c].exitValue, contexts[c].exitValue)
         /\ \A n \in Node : Below(contexts'[c].after[n], contexts[c].after[n])
<1>1. \A n \in Node : Below(contexts'[c].after[n], contexts[c].after[n])
  BY AfterDescends
<1>2. contexts[c].exitValue \in Values
  BY ContextValues
<1>3. CASE contexts'[c].exitValue = contexts[c].exitValue
  BY <1>1, <1>2, <1>3, BelowOrder
<1>4. CASE SetExit /\ c = current
  <2>1. at = "exit" /\ todo = {} /\ contexts'[c].exitValue = value
    BY <1>4, ValuesExit DEF SetExit
  <2>2. BelowTails(value, c, TailsOf(contexts[c].method))
    BY <1>4, <2>1 DEF ExitInv, MetTails, this
  <2>3. value \in Values
    BY DEF TypeInv, TypeOK
  <2>4. QED
    BY <1>1, <2>1, <2>2, <2>3 DEF ExitInv
<1>5. CASE ~(SetExit /\ c = current)
  <2>1. contexts'[c].exitValue = contexts[c].exitValue
    BY <1>5, Actions, ValuesKept, ValuesEntered, ValuesFinished, ValuesExit DEF SameValues
  <2>2. QED
    BY <1>3, <2>1
<1>6. QED
  BY <1>4, <1>5

\* Values only descend, for every module: a value after a node or an exit value
\* never rises, although the transfer functions are not monotone and an exit
\* value is computed without a look at the old one.
THEOREM Descent == Spec => ValuesDescend
<1>1. Spec => []ExitInv
  BY ExitInit, ExitStep, TypeInvariant, PTL DEF Spec
<1>2. TypeInv /\ ExitInv /\ [Next]_vars =>
        [\A c \in DOMAIN contexts :
           /\ Below(contexts'[c].exitValue, contexts[c].exitValue)
           /\ \A n \in Node : Below(contexts'[c].after[n], contexts[c].after[n])]_vars
  BY DescentStep
<1>3. QED
  BY <1>1, <1>2, TypeInvariant, PTL DEF Spec, ValuesDescend

-----------------------------------------------------------------------------
(* Edges.  The value before a node is a copy; while it is computed it lies *)
(* below what the predecessors met so far send.                            *)

EdgeInv ==
  /\ EdgesRespected
  /\ at = "meet" => \A p \in PredsOf(node) \ todo : Below(value, this.after[p])

LEMMA SuccessorIsNode ==
  ASSUME module \in Module, NEW p \in Node, NEW n \in Range(SuccsOf(p))
  PROVE  /\ n \in Node /\ p \in PredsOf(n)
         /\ \A f \in Method : n # EntryNode(f)
<1>1. SuccsOf(p) \in Seq(Node)
  BY ModuleType
<1>2. n \in Node
  BY <1>1, RangeOfSeq
<1>3. \A f \in Method : EntryNode(f) \notin Range(module.succs[p])
  BY DEF Module, WellFormed, EntryNode
<1>4. QED
  BY <1>2, <1>3 DEF PredsOf, SuccsOf

LEMMA EdgeInit ==
  ASSUME Init
  PROVE  EdgeInv
<1>1. DOMAIN contexts = {1} /\ at = "loop" /\ contexts[1] = InitContext(module.main, topValue)
  BY DEF Init
<1>2. \A n \in Node : contexts[1].before[n] = topValue /\ contexts[1].after[n] = topValue
  BY <1>1 DEF InitContext
<1>3. ASSUME NEW p \in Node, NEW n \in Range(SuccsOf(p))
      PROVE  Below(contexts[1].before[n], contexts[1].after[p])
  <2>1. n \in Node
    BY TypeInit, SuccessorIsNode DEF TypeInv, TypeOK
  <2>2. QED
    BY <1>2, <2>1, TopValueType, BelowOrder
<1>4. QED
  BY <1>1, <1>3 DEF EdgeInv, EdgesRespected

\* The edge from p to n in context c.
Edge(c, p, n) == \/ n \in Range(contexts[c].worklist)
                 \/ at = "meet" /\ c = current /\ n = node
                 \/ Below(contexts[c].before[n], contexts[c].after[p])

\* Where the values stay, an edge is respected that was, unless its target
\* leaves the worklist.
LEMMA EdgeKept ==
  ASSUME NEW c, NEW p \in Node, NEW n \in Node,
         Edge(c, p, n),
         Range(contexts[c].worklist) \subseteq Range(contexts'[c].worklist),
         at = "meet" => UNCHANGED <<at, current, node>>,
         contexts'[c].before[n] = contexts[c].before[n],
         contexts'[c].after[p] = contexts[c].after[p]
  PROVE  Edge(c, p, n)'
<1>1. CASE n \in Range(contexts[c].worklist)
  <2>1. n \in Range(contexts'[c].worklist)
    BY <1>1
  <2>2. QED
    BY <2>1 DEF Edge
<1>2. CASE at = "meet" /\ c = current /\ n = node
  BY <1>2 DEF Edge
<1>3. CASE Below(contexts[c].before[n], contexts[c].after[p])
  <2>1. Below(contexts'[c].before[n], contexts'[c].after[p])
    BY <1>3
  <2>2. QED
    BY <2>1 DEF Edge
<1>4. QED
  BY <1>1, <1>2, <1>3 DEF Edge

\* Only a turn of its own shortens what a context has to do.
LEMMA WorklistGrows ==
  ASSUME TypeInv, [Next]_vars, NEW c \in DOMAIN contexts,
         c = top => ~(TakeNode \/ TakeExitMarker)
  PROVE  Range(contexts[c].worklist) \subseteq Range(contexts'[c].worklist)
<1>1. \A d \in DOMAIN contexts : contexts[d] \in Context
                              /\ contexts[d].worklist \in Seq(Node \cup {NULL})
  BY ContextsDomain, ContextFields DEF TypeInv
<1>2. CASE PopContext
  <2>1. /\ contexts'[top] = [contexts[top] EXCEPT !.analysed = TRUE] /\ top \in DOMAIN contexts
        /\ \A d \in DOMAIN contexts : d # top => contexts'[d] = contexts[d]
    BY <1>2, PoppedContext
  <2>2. contexts'[c].worklist = contexts[c].worklist
    BY <1>1, <2>1 DEF Context
  <2>3. QED
    BY <2>2
<1>3. CASE TakeNode \/ TakeExitMarker
  BY <1>3, TakenNode
<1>4. CASE EnterNode \/ SetExit
  BY <1>4, ValuesEntered, ValuesExit
<1>5. CASE Reads \/ UNCHANGED vars
  BY <1>5, ReadsOnly DEF vars
<1>6. CASE CallNewContext
  <2>1. /\ contexts'[current] = [this EXCEPT !.worklist = Append(@, node)]
        /\ \A d \in DOMAIN contexts : d # current => contexts'[d] = contexts[d]
    BY <1>6, NewContext
  <2>2. current \in DOMAIN contexts /\ this \in Context /\ node \in Node
    BY <1>6, InstructionType DEF CallNewContext, AtCall
  <2>3. contexts'[current].worklist = Append(this.worklist, node)
    BY <2>1, <2>2 DEF Context
  <2>4. Range(contexts'[current].worklist) = Range(this.worklist) \cup {node}
    BY <1>1, <2>2, <2>3, RangeAppend DEF this
  <2>5. QED
    BY <2>1, <2>4 DEF this
<1>7. CASE FinishNode
  <2> DEFINE changed == OutMet(this.after[node]) # this.after[node]
  <2>1. /\ current \in DOMAIN contexts /\ node \in Node
        /\ contexts'[current].worklist = WorklistAfter(changed)
        /\ c # current => contexts'[c] = contexts[c]
    BY <1>7, ValuesFinished
  <2>2. changed \in BOOLEAN
    OBVIOUS
  <2>3. Range(this.worklist) \subseteq Range(WorklistAfter(changed))
    <3> HIDE DEF changed
    <3>1. Range(<<>>) = {}
      BY DEF Range
    <3>2. QED
      BY <2>1, <2>2, <3>1, WorklistAfterNode
  <2>4. QED
    <3> HIDE DEF changed
    <3>1. QED
      BY <2>1, <2>3 DEF this
<1>8. CASE NotifyCaller
  <2> DEFINE d == Head(sites).context
             n == Head(sites).node
  <2>1. /\ d \in DOMAIN contexts /\ n \in Node
        /\ getLastWorklist(d) = NULL =>
             contexts'[d] = [contexts[d] EXCEPT !.worklist = Append(@, n)]
        /\ getLastWorklist(d) # NULL => contexts' = contexts
        /\ c # d => contexts'[c] = contexts[c]
    BY <1>8, NotifiedCaller
  <2>2. contexts'[d].worklist \in {contexts[d].worklist, Append(contexts[d].worklist, n)}
    BY <1>1, <2>1 DEF Context
  <2>3. Range(Append(contexts[d].worklist, n)) = Range(contexts[d].worklist) \cup {n}
    BY <1>1, <2>1, RangeAppend
  <2>4. Range(contexts[d].worklist) \subseteq Range(contexts'[d].worklist)
    BY <2>2, <2>3
  <2>5. QED
    <3> HIDE DEF d
    <3>1. QED
      BY <2>1, <2>4
<1>9. QED
  BY <1>2, <1>3, <1>4, <1>5, <1>6, <1>7, <1>8, Actions

\* The edges of a context that exists.
LEMMA EdgeStep ==
  ASSUME TypeInv, EdgeInv, [Next]_vars,
         NEW c \in DOMAIN contexts, NEW p \in Node, NEW n \in Range(SuccsOf(p))
  PROVE  Edge(c, p, n)'
<1>1. n \in Node /\ p \in PredsOf(n)
  BY SuccessorIsNode DEF TypeInv, TypeOK
<1>2. Edge(c, p, n)
  BY DEF EdgeInv, EdgesRespected, Edge
<1>3. CASE TakeNode \/ TakeExitMarker
  <2>1. SameValues(c)
    BY <1>3, ValuesKept
  <2>2. at = "loop" /\ current' = top /\ at' \in {"meet", "exit", "aborted"}
    BY <1>3 DEF TakeNode, TakeExitMarker
  <2>3. CASE c = top
    <3> DEFINE w == contexts[top].worklist
    <3>1. /\ w \in Seq(Node \cup {NULL}) /\ w # <<>> /\ getLastWorklist(top) = Last(w)
          /\ contexts'[top] = [contexts[top] EXCEPT !.worklist = Front(w)]
          /\ top \in DOMAIN contexts
      BY <1>3, TakenNode
    <3>2. Range(w) = Range(Front(w)) \cup {Last(w)}
      BY <3>1, RangeFront
    <3>3. contexts'[top].worklist = Front(w)
      <4>1. contexts[top] \in Context
        BY <3>1, ContextsDomain DEF TypeInv
      <4>2. QED
        BY <3>1, <4>1 DEF Context
    <3>4. CASE n \in Range(w) /\ n = Last(w)
      <4>1. TakeNode
        BY <1>1, <1>3, <3>1, <3>4, NULLAssumption DEF TakeExitMarker
      <4>2. at' = "meet" /\ node' = n
        BY <3>1, <3>4, <4>1 DEF TakeNode
      <4>3. QED
        BY <2>2, <2>3, <4>2 DEF Edge
    <3>5. CASE n \in Range(w) /\ n # Last(w)
      <4>1. n \in Range(contexts'[c].worklist)
        BY <2>3, <3>2, <3>3, <3>5
      <4>2. QED
        BY <4>1 DEF Edge
    <3>6. CASE n \notin Range(w)
      <4>1. Below(contexts[c].before[n], contexts[c].after[p])
        BY <1>2, <2>2, <2>3, <3>6 DEF Edge
      <4>2. Below(contexts'[c].before[n], contexts'[c].after[p])
        BY <2>1, <4>1 DEF SameValues
      <4>3. QED
        BY <4>2 DEF Edge
    <3>7. QED
      BY <3>4, <3>5, <3>6
  <2>4. CASE c # top
    BY <1>1, <1>2, <2>1, <2>2, <2>4, WorklistGrows, EdgeKept DEF SameValues
  <2>5. QED
    BY <2>3, <2>4
<1>4. CASE EnterNode
  <2>1. /\ \A d \in DOMAIN contexts : d # current => contexts'[d].before = contexts[d].before
        /\ contexts'[current].before[n] =
             IF n = node /\ PredsOf(node) # {} THEN value ELSE this.before[n]
        /\ contexts'[c].after = contexts[c].after
        /\ contexts'[c].worklist = contexts[c].worklist
    BY <1>1, <1>4, ValuesEntered
  <2>2. at = "meet" /\ todo = {} /\ current \in DOMAIN contexts
    BY <1>4, EnteredNode DEF EnterNode
  <2>3. CASE n = node /\ c = current
    <3>1. p \in PredsOf(node) \ todo
      BY <1>1, <2>2, <2>3
    <3>2. Below(value, contexts[c].after[p])
      BY <2>2, <2>3, <3>1 DEF EdgeInv, this
    <3>3. Below(contexts'[c].before[n], contexts'[c].after[p])
      BY <2>1, <2>3, <3>1, <3>2
    <3>4. QED
      BY <3>3 DEF Edge
  <2>4. CASE n # node \/ c # current
    <3>1. n \in Range(contexts[c].worklist) \/ Below(contexts[c].before[n], contexts[c].after[p])
      BY <1>2, <2>4 DEF Edge
    <3>2. contexts'[c].before[n] = contexts[c].before[n]
      BY <2>1, <2>4 DEF this
    <3>3. n \in Range(contexts'[c].worklist) \/ Below(contexts'[c].before[n], contexts'[c].after[p])
      BY <2>1, <3>1, <3>2
    <3>4. QED
      BY <3>3 DEF Edge
  <2>5. QED
    BY <2>3, <2>4
<1>5. CASE FinishNode
  <2> DEFINE changed == OutMet(this.after[node]) # this.after[node]
  <2>1. /\ current \in DOMAIN contexts /\ node \in Node
        /\ contexts'[c].before = contexts[c].before
        /\ c # current => contexts'[c] = contexts[c]
        /\ contexts'[current].after[p] =
             IF p = node THEN OutMet(this.after[node]) ELSE this.after[p]
        /\ contexts'[current].worklist = WorklistAfter(changed)
    BY <1>5, ValuesFinished
  <2>2. at = "flow" /\ at' = "loop"
    BY <1>5 DEF FinishNode, Idle
  <2>3. CASE contexts'[c].after[p] = contexts[c].after[p]
    <3>1. Range(contexts[c].worklist) \subseteq Range(contexts'[c].worklist)
      BY <1>5, <2>2, WorklistGrows DEF TakeNode, TakeExitMarker
    <3>2. QED
      BY <1>1, <1>2, <2>1, <2>2, <2>3, <3>1, EdgeKept
  <2>4. CASE contexts'[c].after[p] # contexts[c].after[p]
    <3>1. c = current /\ p = node /\ changed
      BY <2>1, <2>4 DEF this
    <3>2. n \in Range(SuccsOf(node))
      BY <3>1
    <3>3. n \in Range(WorklistAfter(changed))
      <4>1. changed \in BOOLEAN
        OBVIOUS
      <4> HIDE DEF changed
      <4>2. QED
        BY <2>1, <3>1, <3>2, <4>1, WorklistAfterNode
    <3>4. n \in Range(contexts'[c].worklist)
      BY <2>1, <3>1, <3>3
    <3>5. QED
      BY <3>4 DEF Edge
  <2>5. QED
    BY <2>3, <2>4
<1>6. CASE PopContext \/ Reads \/ CallNewContext \/ SetExit \/ NotifyCaller \/ UNCHANGED vars
  <2>1. contexts'[c].before = contexts[c].before /\ contexts'[c].after = contexts[c].after
    BY <1>6, ValuesKept, ValuesExit DEF SameValues
  <2>2. at = "meet" => UNCHANGED <<at, current, node>>
    BY <1>6 DEF PopContext, Reads, MeetPredecessor, MeetTail, FlowInstruction, MissingOperand,
                CallKnownContext, CallNewContext, SetExit, NotifyCaller, vars, locals,
                AtCall, AtInstruction
  <2>3. CASE TakeNode \/ TakeExitMarker
    BY <1>3, <2>3
  <2>4. CASE ~(TakeNode \/ TakeExitMarker)
    BY <1>1, <1>2, <2>1, <2>2, <2>4, WorklistGrows, EdgeKept
  <2>5. QED
    BY <2>3, <2>4
<1>7. QED
  BY <1>3, <1>4, <1>5, <1>6, Actions

\* The value being computed before a node.
LEMMA EdgeMeetStep ==
  ASSUME TypeInv, EdgeInv, [Next]_vars
  PROVE  at' = "meet" => \A p \in PredsOf(node)' \ todo' : Below(value', this'.after[p])
<1>1. CASE TakeNode
  <2>1. todo' = PredsOf(node)'
    BY <1>1 DEF TakeNode, PredsOf
  <2>2. QED
    BY <2>1
<1>2. CASE MeetPredecessor
  <2>1. PICK q \in todo : value' = meet(value, this.after[q]) /\ todo' = todo \ {q}
    BY <1>2 DEF MeetPredecessor
  <2>2. at = "meet" /\ UNCHANGED <<module, contexts, current, node, at>>
    BY <1>2 DEF MeetPredecessor
  <2>3. current \in DOMAIN contexts /\ q \in Node /\ value \in Values
    BY <2>2 DEF TypeInv, TypeOK, Control
  <2>4. \A n \in Node : this.after[n] \in Values
    BY <2>3, ContextValues DEF this
  <2>5. Below(value', value) /\ Below(value', this.after[q]) /\ value' \in Values
    BY <2>1, <2>3, <2>4, MeetIsGreatest, MeetType
  <2>6. PredsOf(node)' = PredsOf(node) /\ PredsOf(node) \subseteq Node /\ this' = this
    BY <2>2 DEF PredsOf, this
  <2>7. ASSUME NEW p \in PredsOf(node) \ todo'
        PROVE  Below(value', this.after[p])
    <3>1. CASE p = q
      BY <2>5, <3>1
    <3>2. CASE p # q
      <4>1. p \in PredsOf(node) \ todo /\ p \in Node
        BY <2>1, <2>6, <2>7, <3>2
      <4>2. Below(value, this.after[p])
        BY <2>2, <4>1 DEF EdgeInv
      <4>3. QED
        BY <2>3, <2>4, <2>5, <4>1, <4>2, BelowOrder
    <3>3. QED
      BY <3>1, <3>2
  <2>8. QED
    BY <2>6, <2>7
<1>3. CASE UNCHANGED vars
  BY <1>3 DEF vars, locals, EdgeInv, PredsOf, this
<1>4. CASE \/ PopContext \/ TakeExitMarker \/ EnterNode \/ FlowInstruction \/ MissingOperand
           \/ CallKnownContext \/ CallNewContext \/ FinishNode \/ MeetTail \/ SetExit
           \/ NotifyCaller
  <2>1. at' # "meet"
    BY <1>4 DEF PopContext, TakeExitMarker, EnterNode, FlowInstruction, MissingOperand,
                CallKnownContext, CallNewContext, FinishNode, MeetTail, SetExit, NotifyCaller,
                AtCall, AtInstruction, Idle, locals
  <2>2. QED
    BY <2>1
<1>5. QED
  BY <1>1, <1>2, <1>3, <1>4 DEF Next, Stutter

LEMMA EdgeInvStep ==
  ASSUME TypeInv, EdgeInv, [Next]_vars
  PROVE  EdgeInv'
<1>1. SameIdentity
  BY Identity
<1>2. ASSUME NEW c \in DOMAIN contexts', NEW p \in Node, NEW n \in Range(SuccsOf(p)')
      PROVE  Edge(c, p, n)'
  <2>1. n \in Range(SuccsOf(p))
    BY <1>1, <1>2 DEF SuccsOf, SameIdentity
  <2>2. CASE c \in DOMAIN contexts
    BY <2>1, <2>2, EdgeStep
  <2>3. CASE c \notin DOMAIN contexts
    <3>1. CallNewContext
      BY <1>1, <2>3 DEF SameIdentity
    <3>2. contexts'[c] = InitContext(insn.callee, entryValue) /\ insn.callee \in Method
      BY <2>3, <3>1, NewContext, InstructionType DEF CallNewContext, AtCall
    <3>3. n \in Node /\ n # EntryNode(insn.callee)
      BY <2>1, <3>2, SuccessorIsNode DEF TypeInv, TypeOK
    <3>4. contexts'[c].before[n] = topValue /\ contexts'[c].after[p] = topValue
      BY <3>2, <3>3 DEF InitContext
    <3>5. Below(contexts'[c].before[n], contexts'[c].after[p])
      BY <3>4, TopValueType, BelowOrder
    <3>6. QED
      BY <3>5 DEF Edge
  <2>4. QED
    BY <2>2, <2>3
<1>3. EdgesRespected'
  BY <1>2 DEF EdgesRespected, Edge
<1>4. at' = "meet" => \A p \in PredsOf(node)' \ todo' : Below(value', this'.after[p])
  BY EdgeMeetStep
<1>5. QED
  BY <1>3, <1>4 DEF EdgeInv

\* Every edge is respected or its target is still to be processed, for every
\* module: no copy of a predecessor's value stays stale.
THEOREM NoStaleEdge == Spec => []EdgesRespected
<1>1. Spec => []EdgeInv
  BY EdgeInit, EdgeInvStep, TypeInvariant, PTL DEF Spec
<1>2. EdgeInv => EdgesRespected
  BY DEF EdgeInv
<1>3. QED
  BY <1>1, <1>2, PTL

-----------------------------------------------------------------------------
(* The values before nodes.  The one before the entry of a method is what  *)
(* its context is for; the others are met afresh from the values after the *)
(* predecessors each time a node is taken, and descend as exit values do.  *)

\* The value before the entry of a method is the one its context is for.
EntryKept ==
  /\ 1 \in DOMAIN contexts
  /\ \A c \in DOMAIN contexts :
       contexts[c].before[EntryNode(contexts[c].method)] = contexts[c].entryValue

LEMMA EntryHasNoPredecessor ==
  ASSUME module \in Module, NEW f \in Method
  PROVE  PredsOf(EntryNode(f)) = {}
BY DEF Module, WellFormed, PredsOf, EntryNode

LEMMA EntryInit ==
  ASSUME Init
  PROVE  EntryKept
<1>1. DOMAIN contexts = {1} /\ contexts[1] = InitContext(module.main, topValue)
  BY DEF Init
<1>2. module \in Module
  BY ModulesAssumption DEF Init
<1>3. module.main \in Method /\ EntryNode(module.main) \in Node
  BY <1>2, ModuleType
<1>4. QED
  BY <1>1, <1>3 DEF EntryKept, InitContext

LEMMA EntryStep ==
  ASSUME TypeInv, EntryKept, [Next]_vars
  PROVE  EntryKept'
<1>1. SameIdentity
  BY Identity
<1>2. module \in Module
  BY DEF TypeInv, TypeOK
<1>3. \A f \in Method : EntryNode(f)' = EntryNode(f) /\ EntryNode(f) \in Node
  BY <1>1, <1>2, ModuleType DEF EntryNode, SameIdentity
<1>4. ASSUME NEW c \in DOMAIN contexts
      PROVE  contexts'[c].before[EntryNode(contexts[c].method)] = contexts[c].entryValue
  <2> DEFINE n == EntryNode(contexts[c].method)
  <2>1. n \in Node /\ PredsOf(n) = {} /\ contexts[c].before[n] = contexts[c].entryValue
    BY <1>2, <1>3, ContextValues, EntryHasNoPredecessor DEF EntryKept
  <2>2. CASE EnterNode
    <3>1. current \in DOMAIN contexts
      BY <2>2, EnteredNode
    <3>2. contexts'[c].before[n] = contexts[c].before[n]
      BY <2>1, <2>2, <3>1, ValuesEntered DEF this
    <3>3. QED
      BY <2>1, <3>2
  <2>3. CASE ~EnterNode
    <3>1. contexts'[c].before = contexts[c].before
      BY <2>3, Actions, ValuesKept, ValuesFinished, ValuesExit DEF SameValues
    <3>2. QED
      BY <2>1, <3>1
  <2>4. QED
    BY <2>2, <2>3
<1>5. ASSUME NEW c \in DOMAIN contexts', c \notin DOMAIN contexts
      PROVE  contexts'[c].before[EntryNode(contexts'[c].method)] = contexts'[c].entryValue
  <2>1. CallNewContext
    BY <1>1, <1>5 DEF SameIdentity
  <2>2. contexts'[c] = InitContext(insn.callee, entryValue) /\ insn.callee \in Method
    BY <1>5, <2>1, NewContext, InstructionType DEF CallNewContext, AtCall
  <2>3. QED
    BY <1>3, <2>2 DEF InitContext
<1>6. ASSUME NEW c \in DOMAIN contexts'
      PROVE  contexts'[c].before[EntryNode(contexts[c].method)'] = contexts'[c].entryValue
  <2>1. CASE c \in DOMAIN contexts
    <3>1. /\ contexts'[c].method = contexts[c].method
          /\ contexts'[c].entryValue = contexts[c].entryValue
          /\ contexts[c].method \in Method
      BY <1>1, <2>1, ContextValues DEF SameIdentity
    <3>2. EntryNode(contexts[c].method)' = EntryNode(contexts[c].method)
      BY <1>1, <3>1 DEF EntryNode, SameIdentity
    <3>3. QED
      BY <1>4, <2>1, <3>1, <3>2
  <2>2. CASE c \notin DOMAIN contexts
    BY <1>1, <1>5, <2>2 DEF EntryNode, SameIdentity
  <2>3. QED
    BY <2>1, <2>2
<1>7. 1 \in DOMAIN contexts'
  BY <1>1 DEF EntryKept, SameIdentity
<1>8. QED
  BY <1>6, <1>7 DEF EntryKept

\* The value before a node is the greatest lower bound of values that descend.
BeforeInv ==
  /\ \A c \in DOMAIN contexts : \A n \in Node : \A v \in Values :
       PredsOf(n) # {} /\ BelowTails(v, c, PredsOf(n)) => Below(v, contexts[c].before[n])
  /\ at = "meet" =>
       /\ todo \subseteq PredsOf(node)
       /\ \A v \in Values : BelowTails(v, current, PredsOf(node) \ todo) => Below(v, value)

LEMMA BeforeInit ==
  ASSUME Init
  PROVE  BeforeInv
<1>1. DOMAIN contexts = {1} /\ at = "loop" /\ contexts[1] = InitContext(module.main, topValue)
  BY DEF Init
<1>2. module \in Module
  BY ModulesAssumption DEF Init
<1>3. \A n \in Node : contexts[1].before[n] = topValue
  BY <1>1 DEF InitContext
<1>4. QED
  BY <1>1, <1>3, BelowOrder DEF BeforeInv

LEMMA AfterWasHigher ==
  ASSUME TypeInv, TypeInv', [Next]_vars, NEW c \in DOMAIN contexts, NEW v \in Values, NEW p \in Node,
         Below(v, contexts'[c].after[p])
  PROVE  Below(v, contexts[c].after[p])
<1>1. Below(contexts'[c].after[p], contexts[c].after[p])
  BY AfterDescends
<1>2. contexts[c].after[p] \in Values
  BY ContextValues
<1>3. c \in DOMAIN contexts'
  BY Identity DEF SameIdentity
<1>4. contexts'[c].after[p] \in Values
  BY <1>3, AfterValues
<1>5. QED
  BY <1>1, <1>2, <1>4, BelowOrder

LEMMA PredsKept ==
  ASSUME [Next]_vars, TypeInv
  PROVE  \A n : PredsOf(n)' = PredsOf(n) /\ PredsOf(n) \subseteq Node
BY Identity DEF SameIdentity, PredsOf

\* The values before nodes, whatever the step.
LEMMA BeforeValuesStep ==
  ASSUME TypeInv, TypeInv', BeforeInv, [Next]_vars,
         NEW c \in DOMAIN contexts', NEW n \in Node, NEW v \in Values,
         PredsOf(n) # {}, BelowTails(v, c, PredsOf(n))'
  PROVE  Below(v, contexts'[c].before[n])
<1>1. SameIdentity /\ PredsOf(n)' = PredsOf(n) /\ PredsOf(n) \subseteq Node
  BY Identity, PredsKept
<1>2. CASE c \in DOMAIN contexts
  <2>1. BelowTails(v, c, PredsOf(n))
    BY <1>1, <1>2, AfterWasHigher DEF BelowTails
  <2>2. CASE contexts'[c].before[n] = contexts[c].before[n]
    BY <1>2, <2>1, <2>2 DEF BeforeInv
  <2>3. CASE EnterNode
    <3>1. CASE c = current /\ n = node
      <4>1. at = "meet" /\ todo = {} /\ contexts'[c].before[n] = value
        BY <2>3, <3>1, ValuesEntered DEF EnterNode
      <4>2. PredsOf(node) \ todo = PredsOf(n)
        BY <3>1, <4>1
      <4>3. QED
        BY <2>1, <3>1, <4>1, <4>2 DEF BeforeInv
    <3>2. CASE ~(c = current /\ n = node)
      BY <1>2, <2>2, <2>3, <3>2, ValuesEntered DEF this
    <3>3. QED
      BY <3>1, <3>2
  <2>4. CASE ~EnterNode
    BY <1>2, <2>2, <2>4, Actions, ValuesKept, ValuesFinished, ValuesExit DEF SameValues
  <2>5. QED
    BY <2>3, <2>4
<1>3. CASE c \notin DOMAIN contexts
  <2>1. CallNewContext
    BY <1>1, <1>3 DEF SameIdentity
  <2>2. contexts'[c] = InitContext(insn.callee, entryValue) /\ insn.callee \in Method
    BY <1>3, <2>1, NewContext, InstructionType DEF CallNewContext, AtCall
  <2>3. n # EntryNode(insn.callee)
    BY <2>2, EntryHasNoPredecessor DEF TypeInv, TypeOK
  <2>4. contexts'[c].before[n] = topValue
    BY <2>2, <2>3 DEF InitContext
  <2>5. QED
    BY <2>4, BelowOrder
<1>4. QED
  BY <1>2, <1>3

LEMMA BeforeLocalStep ==
  ASSUME TypeInv, ExitInv, BeforeInv, [Next]_vars, at' = "meet"
  PROVE  /\ todo' \subseteq PredsOf(node)'
         /\ \A v \in Values : BelowTails(v, current, PredsOf(node) \ todo)' => Below(v, value')
<1>1. CASE TakeNode
  <2>1. value' = topValue /\ todo' = PredsOf(node)'
    BY <1>1 DEF TakeNode, ExitInv, PredsOf
  <2>2. QED
    BY <2>1, BelowOrder
<1>2. CASE MeetPredecessor
  <2>1. PICK p \in todo : value' = meet(value, this.after[p]) /\ todo' = todo \ {p}
    BY <1>2 DEF MeetPredecessor
  <2>2. at = "meet" /\ UNCHANGED <<module, contexts, current, node>>
    BY <1>2 DEF MeetPredecessor
  <2>3. current \in DOMAIN contexts /\ todo \subseteq PredsOf(node) /\ todo \subseteq Node /\ value \in Values
    BY <2>2 DEF TypeInv, TypeOK, Control, BeforeInv
  <2>4. this.after[p] \in Values
    BY <2>1, <2>3, ContextValues DEF this
  <2>5. PredsOf(node)' = PredsOf(node)
    BY <2>2 DEF PredsOf
  <2>6. (PredsOf(node) \ todo)' = (PredsOf(node) \ todo) \cup {p}
    BY <2>1, <2>3, <2>5
  <2>7. ASSUME NEW v \in Values, BelowTails(v, current, PredsOf(node) \ todo)'
        PROVE  Below(v, value')
    <3>1. BelowTails(v, current, PredsOf(node) \ todo) /\ Below(v, this.after[p])
      BY <2>2, <2>6, <2>7 DEF BelowTails, this
    <3>2. Below(v, value)
      BY <2>2, <3>1 DEF BeforeInv
    <3>3. QED
      BY <2>1, <2>3, <2>4, <3>1, <3>2, MeetIsGreatest
  <2>8. QED
    BY <2>1, <2>3, <2>5, <2>7
<1>3. CASE UNCHANGED vars
  BY <1>3 DEF vars, locals, BeforeInv, BelowTails, PredsOf
<1>4. CASE ~(TakeNode \/ MeetPredecessor \/ UNCHANGED vars)
  <2>1. at' # "meet"
    BY <1>4 DEF Next, Stutter, PopContext, TakeExitMarker, EnterNode, FlowInstruction, MissingOperand,
                CallKnownContext, CallNewContext, FinishNode, MeetTail, SetExit, NotifyCaller, Idle,
                AtCall, AtInstruction, locals
  <2>2. QED
    BY <2>1
<1>5. QED
  BY <1>1, <1>2, <1>3, <1>4

LEMMA BeforeStep ==
  ASSUME TypeInv, TypeInv', ExitInv, BeforeInv, [Next]_vars
  PROVE  BeforeInv'
<1>1. \A c \in DOMAIN contexts' : \A n \in Node : \A v \in Values :
        (PredsOf(n) # {} /\ BelowTails(v, c, PredsOf(n)))' => Below(v, contexts'[c].before[n])
  BY BeforeValuesStep, PredsKept
<1>2. at' = "meet" =>
        /\ todo' \subseteq PredsOf(node)'
        /\ \A v \in Values : BelowTails(v, current, PredsOf(node) \ todo)' => Below(v, value')
  BY BeforeLocalStep
<1>3. QED
  BY <1>1, <1>2 DEF BeforeInv

LEMMA BeforeDescends ==
  ASSUME TypeInv, EdgeInv, BeforeInv, [Next]_vars, NEW c \in DOMAIN contexts, NEW n \in Node
  PROVE  Below(contexts'[c].before[n], contexts[c].before[n])
<1>1. contexts[c].before[n] \in Values
  BY ContextValues
<1>2. CASE contexts'[c].before[n] = contexts[c].before[n]
  BY <1>1, <1>2, BelowOrder
<1>3. CASE EnterNode /\ c = current /\ n = node /\ PredsOf(node) # {}
  <2>1. at = "meet" /\ todo = {} /\ contexts'[c].before[n] = value
    BY <1>3, ValuesEntered DEF EnterNode
  <2>2. \A p \in PredsOf(node) : Below(value, this.after[p])
    BY <2>1 DEF EdgeInv
  <2>3. BelowTails(value, c, PredsOf(n)) /\ value \in Values
    BY <1>3, <2>2 DEF BelowTails, this, TypeInv, TypeOK
  <2>4. QED
    BY <1>3, <2>1, <2>3 DEF BeforeInv
<1>4. CASE ~(EnterNode /\ c = current /\ n = node /\ PredsOf(node) # {})
  <2>1. contexts'[c].before[n] = contexts[c].before[n]
    BY <1>4, Actions, ValuesKept, ValuesEntered, ValuesFinished, ValuesExit DEF SameValues, this
  <2>2. QED
    BY <1>2, <2>1
<1>5. QED
  BY <1>3, <1>4

-----------------------------------------------------------------------------
(* addTransition keeps the two maps of the table inverse.                  *)

Distinct(s) == \A i, j \in DOMAIN s : s[i] = s[j] => i = j

LEMMA WithoutEffect ==
  ASSUME NEW S, NEW s \in Seq(S), Distinct(s), NEW e
  PROVE  Distinct(Without(s, e)) /\ Range(Without(s, e)) = Range(s) \ {e}
<1>1. /\ Len(s) \in Nat /\ DOMAIN s = 1..Len(s)
      /\ \A j \in 1..Len(s) : s[j] \in S
  BY LenProperties, ElementOfSeq
<1>2. CASE \E i \in DOMAIN s : s[i] = e
  <2>1. PICK i \in DOMAIN s : s[i] = e /\ Without(s, e) = RemoveAt(s, i)
    BY <1>2 DEF Without
  <2>2. i \in Int /\ 1 <= i /\ i <= Len(s)
    BY <1>1, <2>1
  <2> DEFINE l == SubSeq(s, 1, i - 1)
             r == SubSeq(s, i + 1, Len(s))
             w == l \o r
  <2>3. /\ l \in Seq(S) /\ Len(l) = i - 1
        /\ \A j \in 1..i - 1 : l[j] = s[j]
    <3>1. \A j \in 1..i - 1 : s[j] \in S
      BY <1>1, <2>2
    <3>2. /\ l \in Seq(S) /\ Len(l) = (IF 1 <= i - 1 THEN i - 1 - 1 + 1 ELSE 0)
          /\ \A j \in 1..i - 1 - 1 + 1 : l[j] = s[1 + j - 1]
      BY <2>2, <3>1, SubSeqProperties
    <3>3. (IF 1 <= i - 1 THEN i - 1 - 1 + 1 ELSE 0) = i - 1
      BY <2>2
    <3>4. \A j \in 1..i - 1 : j \in 1..i - 1 - 1 + 1 /\ 1 + j - 1 = j
      BY <2>2
    <3>5. QED
      BY <3>2, <3>3, <3>4
  <2>4. /\ r \in Seq(S) /\ Len(r) = Len(s) - i
        /\ \A j \in 1..Len(s) - i : r[j] = s[i + j]
    <3>1. \A j \in i + 1..Len(s) : s[j] \in S
      BY <1>1, <2>2
    <3>2. /\ r \in Seq(S)
          /\ Len(r) = (IF i + 1 <= Len(s) THEN Len(s) - (i + 1) + 1 ELSE 0)
          /\ \A j \in 1..Len(s) - (i + 1) + 1 : r[j] = s[i + 1 + j - 1]
      BY <1>1, <2>2, <3>1, SubSeqProperties
    <3>3. (IF i + 1 <= Len(s) THEN Len(s) - (i + 1) + 1 ELSE 0) = Len(s) - i
      BY <1>1, <2>2
    <3>4. \A j \in 1..Len(s) - i : j \in 1..Len(s) - (i + 1) + 1 /\ i + 1 + j - 1 = i + j
      BY <1>1, <2>2
    <3>5. QED
      BY <3>2, <3>3, <3>4
  <2>5. /\ w \in Seq(S) /\ Len(w) = Len(s) - 1
        /\ \A j \in 1..Len(s) - 1 : w[j] = IF j < i THEN s[j] ELSE s[j + 1]
    <3> HIDE DEF l, r
    <3>1. /\ w \in Seq(S) /\ Len(w) = Len(l) + Len(r)
          /\ \A j \in 1..Len(l) + Len(r) : w[j] = IF j <= Len(l) THEN l[j] ELSE r[j - Len(l)]
      BY <2>3, <2>4, ConcatProperties
    <3>2. Len(l) + Len(r) = Len(s) - 1
      BY <1>1, <2>2, <2>3, <2>4
    <3>3. ASSUME NEW j \in 1..Len(s) - 1
          PROVE  w[j] = IF j < i THEN s[j] ELSE s[j + 1]
      <4>1. CASE j < i
        BY <1>1, <2>2, <2>3, <3>1, <3>2, <4>1
      <4>2. CASE ~(j < i)
        <5>1. w[j] = r[j - (i - 1)]
          BY <1>1, <2>2, <2>3, <3>1, <3>2, <4>2
        <5>2. j - (i - 1) \in 1..Len(s) - i /\ i + (j - (i - 1)) = j + 1
          BY <1>1, <2>2, <4>2
        <5>3. QED
          BY <2>4, <4>2, <5>1, <5>2
      <4>3. QED
        BY <4>1, <4>2
    <3>4. QED
      BY <3>1, <3>2, <3>3
  <2>6. Without(s, e) = w
    BY <2>1 DEF RemoveAt
  <2> HIDE DEF w
  <2>7. DOMAIN w = 1..Len(s) - 1
    BY <2>5, LenProperties
  <2>8. Distinct(w)
    <3>1. ASSUME NEW j \in DOMAIN w, NEW k \in DOMAIN w, w[j] = w[k]
          PROVE  j = k
      <4>1. j \in Int /\ k \in Int
        BY <2>7
      <4> DEFINE a == IF j < i THEN j ELSE j + 1
                 b == IF k < i THEN k ELSE k + 1
      <4>2. a \in DOMAIN s /\ b \in DOMAIN s
        BY <1>1, <2>2, <2>7, <4>1
      <4>3. s[a] = s[b]
        BY <2>5, <2>7, <3>1
      <4>4. a = b
        BY <4>2, <4>3 DEF Distinct
      <4>5. QED
        BY <2>2, <4>1, <4>4
    <3>2. QED
      BY <3>1 DEF Distinct
  <2>9. \A j \in DOMAIN w : w[j] \in Range(s) \ {e}
    <3>1. ASSUME NEW j \in DOMAIN w
          PROVE  w[j] \in Range(s) \ {e}
      <4> DEFINE a == IF j < i THEN j ELSE j + 1
      <4>1. a \in DOMAIN s /\ a # i
        BY <1>1, <2>2, <2>7
      <4>2. w[j] = s[a]
        BY <2>5, <2>7
      <4>3. s[a] # e
        BY <2>1, <4>1 DEF Distinct
      <4>4. QED
        BY <4>1, <4>2, <4>3 DEF Range
    <3>2. QED
      BY <3>1
  <2>10. \A a \in DOMAIN s : s[a] # e => s[a] \in Range(w)
    <3>1. ASSUME NEW a \in DOMAIN s, s[a] # e
          PROVE  s[a] \in Range(w)
      <4> DEFINE j == IF a < i THEN a ELSE a - 1
      <4>1. a # i /\ a \in Int
        BY <1>1, <2>1, <3>1
      <4>2. j \in DOMAIN w /\ s[a] = w[j]
        BY <1>1, <2>2, <2>5, <2>7, <4>1
      <4>3. QED
        BY <4>2 DEF Range
    <3>2. QED
      BY <3>1
  <2>11. QED
    BY <2>6, <2>8, <2>9, <2>10 DEF Range
<1>3. CASE ~ \E i \in DOMAIN s : s[i] = e
  BY <1>3 DEF Without, Range
<1>4. QED
  BY <1>2, <1>3

\* CallersInverse, with the call sites of a context as a set.
LEMMA InverseSets ==
  ASSUME TableTypeOK
  PROVE  CallersInverse <=>
           /\ \A k \in DOMAIN transitions : k[1] \in Range(getCallers(transitions[k]))
           /\ \A t \in DOMAIN callers : \A s \in Range(callers[t]) :
                \E m \in Method : <<s, m>> \in DOMAIN transitions /\ transitions[<<s, m>>] = t
           /\ \A t \in DOMAIN callers : Distinct(callers[t])
<1>1. \A t : getCallers(t) = IF t \in DOMAIN callers THEN callers[t] ELSE <<>>
  BY DEF getCallers
<1>2. \A k \in DOMAIN transitions :
        (\E i \in DOMAIN getCallers(transitions[k]) : callers[transitions[k]][i] = k[1])
          <=> k[1] \in Range(getCallers(transitions[k]))
  BY <1>1 DEF Range
<1>3. \A t \in DOMAIN callers :
        (\A i \in DOMAIN callers[t] :
           \E m \in Method : <<callers[t][i], m>> \in DOMAIN transitions
                             /\ transitions[<<callers[t][i], m>>] = t)
          <=> (\A s \in Range(callers[t]) :
                 \E m \in Method : <<s, m>> \in DOMAIN transitions /\ transitions[<<s, m>>] = t)
  BY DEF Range
<1>4. QED
  BY <1>2, <1>3 DEF CallersInverse, Distinct

\* The call sites of every context after addTransition.
LEMMA AddTransitionCallers ==
  ASSUME TableTypeOK, \A t \in DOMAIN callers : Distinct(callers[t]),
         NEW site \in CallSite, NEW f \in Method, NEW target \in ContextId,
         addTransition(site, f, target),
         \/ <<site, f>> \in DOMAIN transitions /\ transitions[<<site, f>>] = target
         \/ site \notin Range(getCallers(target))
  PROVE  \A t \in DOMAIN callers' :
           /\ Distinct(callers'[t])
           /\ Range(callers'[t]) =
                (Range(getCallers(t)) \ (IF /\ <<site, f>> \in DOMAIN transitions
                                            /\ transitions[<<site, f>>] = t
                                         THEN {site} ELSE {}))
                  \cup (IF t = target THEN {site} ELSE {})
<1> DEFINE key      == <<site, f>>
           moved(t) == key \in DOMAIN transitions /\ transitions[key] = t
           kept(t)  == IF moved(t) THEN Without(getCallers(t), site) ELSE getCallers(t)
<1>1. callers' = [t \in DOMAIN callers \cup {target} |->
                    IF t = target THEN Append(kept(t), site) ELSE kept(t)]
  BY DEF addTransition
<1>2. \A t : getCallers(t) \in Seq(CallSite) /\ Distinct(getCallers(t))
  BY DEF getCallers, TableTypeOK, Distinct
<1>3. \A t : /\ kept(t) \in Seq(CallSite) /\ Distinct(kept(t))
             /\ Range(kept(t)) = Range(getCallers(t)) \ (IF moved(t) THEN {site} ELSE {})
  BY <1>2, WithoutType, WithoutEffect
<1>4. site \notin Range(kept(target))
  BY <1>3
<1> HIDE DEF kept, moved
<1>5. /\ Distinct(Append(kept(target), site))
      /\ Range(Append(kept(target), site)) = Range(kept(target)) \cup {site}
  <2> DEFINE s == kept(target)
             a == Append(s, site)
  <2>1. /\ Len(a) = Len(s) + 1 /\ Len(s) \in Nat /\ DOMAIN s = 1..Len(s)
        /\ \A i \in 1..Len(s) : a[i] = s[i]
        /\ a[Len(s) + 1] = site /\ DOMAIN a = 1..Len(s) + 1
    BY <1>3, AppendProperties, LenProperties
  <2>2. Distinct(s) /\ site \notin Range(s)
    BY <1>3, <1>4
  <2> HIDE DEF s, a
  <2>3. DOMAIN a = DOMAIN s \cup {Len(s) + 1} /\ \A i \in DOMAIN s : a[i] # site
    BY <2>1, <2>2 DEF Range
  <2>4. Distinct(a)
    BY <2>1, <2>2, <2>3 DEF Distinct
  <2>5. Range(a) = Range(s) \cup {site}
    BY <2>1, <2>3 DEF Range
  <2>6. QED
    BY <2>4, <2>5 DEF a, s
<1>6. QED
  BY <1>1, <1>3, <1>5 DEF moved

\* A call site moves without a trace, provided that a context belongs to one
\* method: owner says which.
LEMMA AddTransitionInverse ==
  ASSUME TableTypeOK, CallersInverse,
         NEW site \in CallSite, NEW f \in Method, NEW target \in ContextId,
         addTransition(site, f, target),
         NEW owner, owner[target] = f,
         \A k \in DOMAIN transitions : owner[transitions[k]] = k[2]
  PROVE  CallersInverse'
<1> DEFINE key      == <<site, f>>
           moved(t) == key \in DOMAIN transitions /\ transitions[key] = t
<1>1. /\ transitions' = [k \in DOMAIN transitions \cup {key} |->
                           IF k = key THEN target ELSE transitions[k]]
      /\ DOMAIN callers' = DOMAIN callers \cup {target}
  BY DEF addTransition
<1>2. /\ \A k \in DOMAIN transitions : k[1] \in Range(getCallers(transitions[k]))
      /\ \A t \in DOMAIN callers : \A s \in Range(callers[t]) :
           \E m \in Method : <<s, m>> \in DOMAIN transitions /\ transitions[<<s, m>>] = t
      /\ \A t \in DOMAIN callers : Distinct(callers[t])
  BY InverseSets
<1>3. \A t : \A s \in Range(getCallers(t)) :
        \E m \in Method : <<s, m>> \in DOMAIN transitions /\ transitions[<<s, m>>] = t
  <2>1. Range(<<>>) = {}
    BY DEF Range
  <2>2. ASSUME NEW t, NEW s \in Range(getCallers(t))
        PROVE  \E m \in Method : <<s, m>> \in DOMAIN transitions /\ transitions[<<s, m>>] = t
    <3>1. t \in DOMAIN callers /\ getCallers(t) = callers[t]
      BY <2>1, <2>2 DEF getCallers
    <3>2. QED
      BY <1>2, <2>2, <3>1
  <2>3. QED
    BY <2>2
<1>4. moved(target) \/ site \notin Range(getCallers(target))
  <2>1. ASSUME site \in Range(getCallers(target))
        PROVE  moved(target)
    <3>1. PICK m \in Method : <<site, m>> \in DOMAIN transitions /\ transitions[<<site, m>>] = target
      BY <1>3, <2>1
    <3>2. m = f
      BY <3>1
    <3>3. QED
      BY <3>1, <3>2
  <2>2. QED
    BY <2>1
<1>5. \A t \in DOMAIN callers' :
        /\ Distinct(callers'[t])
        /\ Range(callers'[t]) = (Range(getCallers(t)) \ (IF moved(t) THEN {site} ELSE {}))
                                  \cup (IF t = target THEN {site} ELSE {})
  BY <1>2, <1>4, AddTransitionCallers
<1>6. ASSUME NEW k \in DOMAIN transitions'
      PROVE  k[1] \in Range(getCallers(transitions[k])')
  <2>1. CASE k = key
    <3>1. transitions'[k] = target /\ k[1] = site /\ target \in DOMAIN callers'
      BY <1>1, <2>1
    <3>2. site \in Range(callers'[target])
      BY <1>5, <3>1
    <3>3. QED
      BY <3>1, <3>2 DEF getCallers
  <2>2. CASE k # key
    <3> DEFINE t == transitions[k]
    <3>1. k \in DOMAIN transitions /\ transitions'[k] = t
      BY <1>1, <1>6, <2>2
    <3>2. k[1] \in Range(getCallers(t))
      BY <1>2, <3>1
    <3>3. t \in DOMAIN callers
      BY <3>2 DEF getCallers, Range
    <3>4. ~(k[1] = site /\ moved(t))
      <4>1. ASSUME k[1] = site, moved(t)
            PROVE  FALSE
        <5>1. k[2] = f
          <6>1. owner[t] = k[2]
            BY <3>1
          <6>2. owner[transitions[key]] = key[2] /\ key[2] = f
            BY <4>1
          <6>3. QED
            BY <4>1, <6>1, <6>2
        <5>2. k = <<k[1], k[2]>>
          BY <3>1 DEF TableTypeOK
        <5>3. QED
          BY <2>2, <4>1, <5>1, <5>2
      <4>2. QED
        BY <4>1
    <3>5. k[1] \in Range(callers'[t]) /\ t \in DOMAIN callers'
      BY <1>1, <1>5, <3>2, <3>3, <3>4
    <3>6. QED
      BY <3>1, <3>5 DEF getCallers
  <2>3. QED
    BY <2>1, <2>2
<1>7. ASSUME NEW t \in DOMAIN callers', NEW s \in Range(callers'[t])
      PROVE  \E m \in Method : <<s, m>> \in DOMAIN transitions' /\ transitions'[<<s, m>>] = t
  <2>1. CASE s = site /\ t = target
    BY <1>1, <2>1
  <2>2. CASE ~(s = site /\ t = target)
    <3>1. s \in Range(getCallers(t)) /\ ~(s = site /\ moved(t))
      BY <1>5, <1>7, <2>2
    <3>2. PICK m \in Method : <<s, m>> \in DOMAIN transitions /\ transitions[<<s, m>>] = t
      BY <1>3, <3>1
    <3>3. <<s, m>> # key
      BY <3>1, <3>2
    <3>4. QED
      BY <1>1, <3>2, <3>3
  <2>3. QED
    BY <2>1, <2>2
<1>8. TableTypeOK'
  BY AddTransitionType
<1>9. QED
  <2>1. (/\ \A k \in DOMAIN transitions : k[1] \in Range(getCallers(transitions[k]))
         /\ \A t \in DOMAIN callers : \A s \in Range(callers[t]) :
              \E m \in Method : <<s, m>> \in DOMAIN transitions /\ transitions[<<s, m>>] = t
         /\ \A t \in DOMAIN callers : Distinct(callers[t]))'
    BY <1>5, <1>6, <1>7
  <2>2. QED
    BY <1>8, <2>1, InverseSets, PTL

-----------------------------------------------------------------------------
(* The table changes at calls alone.                                       *)

Recorded(target) == /\ AtCall
                    /\ addTransition(callSite, insn.callee, target)
                    /\ target \in DOMAIN contexts'
                    /\ contexts'[target].method = insn.callee
                    /\ UNCHANGED <<at, current, node, sites>>

LEMMA TableStep ==
  ASSUME TypeInv, [Next]_vars
  PROVE  UNCHANGED tableVars \/ \E target \in ContextId : Recorded(target)
<1>1. CASE CallKnownContext
  <2> DEFINE target == getContext(insn.callee, entryValue)
  <2>1. /\ AtCall /\ ContextsOf(insn.callee, entryValue) # {}
        /\ addTransition(callSite, insn.callee, target)
        /\ UNCHANGED <<contexts, at, current, node, sites>>
    BY <1>1 DEF CallKnownContext
  <2>2. target \in DOMAIN contexts /\ contexts[target].method = insn.callee
    BY <2>1, GetContext DEF TypeInv
  <2>3. target \in ContextId
    BY <2>2, ContextsDomain DEF TypeInv
  <2> HIDE DEF target
  <2>4. QED
    BY <2>1, <2>2, <2>3 DEF Recorded
<1>2. CASE CallNewContext
  <2> DEFINE target == Len(contexts) + 1
  <2>1. /\ AtCall /\ addTransition(callSite, insn.callee, target)
        /\ UNCHANGED <<at, current, node, sites>>
    BY <1>2 DEF CallNewContext
  <2>2. /\ target \in DOMAIN contexts' /\ target \in ContextId
        /\ contexts'[target].method = insn.callee
    BY <1>2, NewContext DEF InitContext
  <2> HIDE DEF target
  <2>3. QED
    BY <2>1, <2>2 DEF Recorded
<1>3. CASE UNCHANGED vars
  BY <1>3 DEF vars, tableVars
<1>4. CASE \/ PopContext \/ TakeNode \/ TakeExitMarker \/ MeetPredecessor \/ EnterNode
           \/ FlowInstruction \/ MissingOperand \/ FinishNode \/ MeetTail \/ SetExit
           \/ NotifyCaller
  BY <1>4 DEF PopContext, TakeNode, TakeExitMarker, MeetPredecessor, EnterNode,
              FlowInstruction, MissingOperand, FinishNode, MeetTail, SetExit, NotifyCaller
<1>5. QED
  BY <1>1, <1>2, <1>3, <1>4 DEF Next, Stutter

-----------------------------------------------------------------------------
(* The maps are inverse because a call site leads to a context of the      *)
(* method it is recorded for, hence to different ones for two methods.     *)

TargetInv ==
  \A k \in DOMAIN transitions : /\ transitions[k] \in DOMAIN contexts
                                /\ contexts[transitions[k]].method = k[2]

InverseInv == TargetInv /\ CallersInverse

LEMMA InverseInit ==
  ASSUME Init
  PROVE  InverseInv
<1>1. DOMAIN transitions = {} /\ DOMAIN callers = {}
  BY DEF Init, TableInit
<1>2. QED
  BY <1>1 DEF InverseInv, TargetInv, CallersInverse

LEMMA InverseStep ==
  ASSUME TypeInv, InverseInv, [Next]_vars
  PROVE  InverseInv'
<1>1. SameIdentity
  BY Identity
<1>2. CASE UNCHANGED tableVars
  <2>1. TargetInv'
    BY <1>1, <1>2 DEF SameIdentity, InverseInv, TargetInv, tableVars
  <2>2. CallersInverse'
    BY <1>2 DEF InverseInv, CallersInverse, tableVars, getCallers
  <2>3. QED
    BY <2>1, <2>2 DEF InverseInv
<1>3. ASSUME NEW target \in ContextId, Recorded(target)
      PROVE  InverseInv'
  <2> DEFINE f     == insn.callee
             owner == [c \in DOMAIN contexts' |-> contexts'[c].method]
  <2>1. /\ addTransition(callSite, f, target)
        /\ target \in DOMAIN contexts' /\ contexts'[target].method = f
    BY <1>3 DEF Recorded
  <2>2. callSite \in CallSite /\ f \in Method
    BY <1>3, InstructionType DEF Recorded, AtCall
  <2>3. \A k \in DOMAIN transitions : owner[transitions[k]] = k[2]
    BY <1>1 DEF SameIdentity, InverseInv, TargetInv
  <2>4. owner[target] = f
    BY <2>1
  <2>5. CallersInverse'
    <3> HIDE DEF owner, f
    <3>1. QED
      BY <2>1, <2>2, <2>3, <2>4, AddTransitionInverse DEF InverseInv, TypeInv, TypeOK
  <2>6. TargetInv'
    <3>1. transitions' = [k \in DOMAIN transitions \cup {<<callSite, f>>} |->
                            IF k = <<callSite, f>> THEN target ELSE transitions[k]]
      BY <2>1 DEF addTransition
    <3>2. \A k \in DOMAIN transitions : /\ transitions[k] \in DOMAIN contexts'
                                        /\ contexts'[transitions[k]].method = k[2]
      BY <1>1 DEF SameIdentity, InverseInv, TargetInv
    <3>3. <<callSite, f>>[2] = f
      OBVIOUS
    <3> DEFINE key == <<callSite, f>>
    <3> HIDE DEF key, f
    <3>4. \A k \in DOMAIN transitions' : /\ transitions'[k] \in DOMAIN contexts'
                                         /\ contexts'[transitions'[k]].method = k[2]
      BY <2>1, <3>1, <3>2, <3>3 DEF key
    <3>5. QED
      BY <3>4 DEF TargetInv
  <2>7. QED
    BY <2>5, <2>6 DEF InverseInv
<1>4. QED
  BY <1>2, <1>3, TableStep

\* transitions and callers stay inverse, for every module: no context notifies
\* a call site that has moved on, and none it still serves is missed.
THEOREM CallersAreInverse == Spec => []CallersInverse
<1>1. Spec => []InverseInv
  BY InverseInit, InverseStep, TypeInvariant, PTL DEF Spec
<1>2. InverseInv => CallersInverse
  BY DEF InverseInv
<1>3. QED
  BY <1>1, <1>2, PTL

-----------------------------------------------------------------------------
(* Callers call.  A recorded call site is the node the engine was at, and  *)
(* that node is a block of its context's method because every worklist     *)
(* holds blocks of its own method: what a notification queues included.    *)
(* More than that: only blocks the analysis has reached are ever taken,    *)
(* the entry and the blocks one of whose predecessors has a value.         *)

StartedIn(m, context) ==
  {n \in Range(m.blocks[context.method]) :
     \/ n = m.blocks[context.method][1]
     \/ \E p \in Node : n \in Range(m.succs[p]) /\ context.after[p] # topValue}

Started(c) == StartedIn(module, contexts[c])

\* Block s.node belongs to the method of context s.context, and calls f.
Calls(m, all, s, f) == /\ s.context \in DOMAIN all
                       /\ s.node \in StartedIn(m, all[s.context])
                       /\ \E j \in DOMAIN m.code[s.node] :
                            /\ m.code[s.node][j].op = "call"
                            /\ m.code[s.node][j].callee = f

PlaceInv ==
  /\ \A c \in DOMAIN contexts : Range(contexts[c].worklist) \subseteq Started(c) \cup {NULL}
  /\ at \in {"meet", "flow"} => node \in Started(current)
  /\ \A s \in Range(sites) : s.node \in Started(s.context)
  /\ \A t \in DOMAIN callers : \A s \in Range(callers[t]) :
       Calls(module, contexts, s, contexts[t].method)

LEMMA BlocksType ==
  ASSUME module \in Module, NEW f \in Method
  PROVE  /\ EntryNode(f) \in Range(module.blocks[f])
         /\ \A n \in Range(module.blocks[f]) : Range(SuccsOf(n)) \subseteq Range(module.blocks[f])
<1>1. module.blocks[f] \in Seq(Node) /\ module.blocks[f] # <<>> /\ WellFormed(module)
  BY DEF Module, WellFormed
<1>2. 1 \in DOMAIN module.blocks[f]
  BY <1>1, EmptySeq, LenProperties
<1>3. QED
  BY <1>1, <1>2 DEF WellFormed, EntryNode, SuccsOf, Range

\* A value with a sign does not lose it by descending.
LEMMA BelowNotTop ==
  ASSUME NEW v \in Values, NEW w \in Values, Below(v, w), w # topValue
  PROVE  v # topValue
<1>1. PICK x \in Name : w[x] # Absent
  BY DEF topValue, Values
<1>2. v[x] # Absent
  BY <1>1 DEF Below, SignBelow
<1>3. QED
  BY <1>2 DEF topValue

\* A meet that changes a value has a sign.
LEMMA MeetNotTop ==
  ASSUME NEW v \in Values, NEW w \in Values, meet(v, w) # w
  PROVE  meet(v, w) # topValue
<1>1. SUFFICES ASSUME meet(v, w) = topValue
               PROVE  FALSE
  OBVIOUS
<1>2. Below(meet(v, w), w)
  BY MeetIsGreatest
<1>3. w = topValue
  BY <1>1, <1>2, BelowNotTop, TopValueType
<1>4. QED
  BY <1>1, <1>3

\* What has been reached stays so.
LEMMA StartedKept ==
  ASSUME TypeInv, TypeInv', [Next]_vars, NEW c \in DOMAIN contexts
  PROVE  /\ c \in DOMAIN contexts'
         /\ Started(c) \subseteq StartedIn(module', contexts'[c])
<1>1. /\ c \in DOMAIN contexts' /\ module' = module
      /\ contexts'[c].method = contexts[c].method
  BY Identity DEF SameIdentity
<1>2. ASSUME NEW p \in Node, contexts[c].after[p] # topValue
      PROVE  contexts'[c].after[p] # topValue
  <2>1. Below(contexts'[c].after[p], contexts[c].after[p]) /\ contexts[c].after[p] \in Values
    BY AfterDescends, ContextValues
  <2>2. contexts'[c].after[p] \in Values
    BY <1>1, AfterValues
  <2>3. QED
    BY <1>2, <2>1, <2>2, BelowNotTop
<1>3. QED
  BY <1>1, <1>2 DEF Started, StartedIn

LEMMA PlaceInit ==
  ASSUME Init
  PROVE  PlaceInv
<1>1. /\ DOMAIN contexts = {1} /\ at = "loop" /\ sites = <<>> /\ DOMAIN callers = {}
      /\ module \in Module
  BY ModulesAssumption DEF Init, TableInit
<1>2. contexts[1].method = module.main /\ contexts[1].worklist = <<EntryNode(module.main)>>
  BY DEF Init, InitContext
<1>3. EntryNode(module.main) \in Started(1)
  BY <1>1, <1>2, ModuleType, BlocksType DEF Started, StartedIn, EntryNode
<1>4. Range(contexts[1].worklist) \subseteq Started(1) \cup {NULL}
  BY <1>2, <1>3, SingleRange
<1>5. Range(sites) = {}
  BY <1>1 DEF Range
<1>6. QED
  BY <1>1, <1>4, <1>5 DEF PlaceInv

\* What the actions add to a worklist.
LEMMA PlaceWorklist ==
  ASSUME TypeInv, PlaceInv, [Next]_vars, ~FinishNode, NEW c \in DOMAIN contexts
  PROVE  Range(contexts'[c].worklist) \subseteq Started(c) \cup {NULL}
<1> DEFINE w == contexts[c].worklist
<1>1. w \in Seq(Node \cup {NULL})
  BY ContextsDomain, ContextFields DEF TypeInv
<1>2. Range(w) \subseteq Started(c) \cup {NULL}
  BY DEF PlaceInv
<1>3. CASE w # <<>> /\ contexts'[c].worklist = Front(w)
  BY <1>1, <1>2, <1>3, RangeFront
<1>4. CASE CallNewContext /\ c = current /\ node \in Node /\ contexts'[c].worklist = Append(w, node)
  <2>1. node \in Started(c)
    BY <1>4, InstructionType DEF CallNewContext, AtCall, PlaceInv
  <2>2. QED
    BY <1>1, <1>2, <1>4, <2>1, RangeAppend
<1>5. CASE /\ NotifyCaller /\ c = Head(sites).context
           /\ contexts'[c].worklist = Append(w, Head(sites).node)
  <2>1. sites \in Seq(Sites) /\ sites # <<>>
    BY <1>5 DEF NotifyCaller, TypeInv, Control
  <2>2. 1 \in DOMAIN sites /\ Head(sites) = sites[1]
    BY <2>1, EmptySeq, LenProperties
  <2>3. Head(sites).node \in Started(c) /\ Head(sites).node \in Node
    BY <1>5, <2>2, NotifiedCaller DEF PlaceInv, Range
  <2>4. QED
    BY <1>1, <1>2, <1>5, <2>3, RangeAppend
<1>6. QED
  BY <1>2, <1>3, <1>4, <1>5, WorklistStep

\* Once a node has a value, its successors are reached.
LEMMA PlaceFinish ==
  ASSUME TypeInv, TypeInv', PlaceInv, [Next]_vars, FinishNode, NEW c \in DOMAIN contexts
  PROVE  Range(contexts'[c].worklist) \subseteq StartedIn(module', contexts'[c]) \cup {NULL}
<1> DEFINE out     == OutMet(this.after[node])
           changed == out # this.after[node]
<1>1. /\ current \in DOMAIN contexts /\ node \in Node /\ this \in Context
      /\ contexts'[current] = [this EXCEPT !.after = [this.after EXCEPT ![node] = out],
                                           !.worklist = WorklistAfter(changed)]
      /\ \A d \in DOMAIN contexts : d # current => contexts'[d] = contexts[d]
  BY FinishedNode
<1>2. contexts'[current].worklist = WorklistAfter(changed) /\ contexts'[current].after[node] = out
  <2>1. this.after \in [Node -> Values]
    BY <1>1 DEF Context
  <2> HIDE DEF out, changed
  <2>2. QED
    BY <1>1, <2>1 DEF Context
<1>3. /\ Started(c) \subseteq StartedIn(module', contexts'[c])
      /\ Started(current) \subseteq StartedIn(module', contexts'[current])
  BY <1>1, StartedKept
<1>4. changed => Range(SuccsOf(node)) \subseteq StartedIn(module', contexts'[current])
  <2>1. node \in Range(module.blocks[this.method]) /\ this.method \in Method /\ module \in Module
    BY <1>1, ContextFields DEF PlaceInv, FinishNode, Started, StartedIn, this, TypeInv, TypeOK
  <2>2. Range(SuccsOf(node)) \subseteq Range(module.blocks[this.method])
    BY <2>1, BlocksType
  <2>3. changed => out # topValue
    <3>1. value \in Values /\ this.after[node] \in Values
      BY <1>1, ContextValues DEF TypeInv, TypeOK, this
    <3>2. QED
      BY <3>1, MeetNotTop DEF OutMet
  <2>4. module' = module /\ contexts'[current].method = this.method
    BY <1>1, Identity DEF SameIdentity, this
  <2> HIDE DEF out, changed
  <2>5. QED
    BY <1>1, <1>2, <2>2, <2>3, <2>4 DEF StartedIn, SuccsOf
<1>5. Range(this.worklist) \subseteq Started(current) \cup {NULL}
  BY <1>1 DEF PlaceInv, this
<1>6. changed \in BOOLEAN
  OBVIOUS
<1>7. Range(WorklistAfter(changed)) \subseteq StartedIn(module', contexts'[current]) \cup {NULL}
  <2> HIDE DEF changed
  <2>1. QED
    BY <1>1, <1>3, <1>4, <1>5, <1>6, WorklistAfterNode, SingleRange
<1>8. CASE c = current
  BY <1>2, <1>7, <1>8
<1>9. CASE c # current
  <2>1. contexts'[c].worklist = contexts[c].worklist
    BY <1>1, <1>9
  <2>2. QED
    BY <1>3, <2>1 DEF PlaceInv
<1>10. QED
  BY <1>8, <1>9

LEMMA PlaceNode ==
  ASSUME TypeInv, TypeInv', PlaceInv, [Next]_vars, at' \in {"meet", "flow"}
  PROVE  node' \in StartedIn(module', contexts'[current'])
<1>1. CASE TakeNode
  <2> DEFINE w == contexts[top].worklist
  <2>1. /\ top \in DOMAIN contexts /\ w \in Seq(Node \cup {NULL}) /\ w # <<>>
        /\ getLastWorklist(top) = Last(w)
    BY <1>1, TakenNode
  <2>2. current' = top /\ node' = Last(w) /\ node' # NULL
    BY <1>1, <2>1 DEF TakeNode
  <2>3. Last(w) \in Range(w)
    BY <2>1, RangeFront
  <2>4. node' \in Started(top)
    BY <2>1, <2>2, <2>3 DEF PlaceInv
  <2>5. QED
    BY <2>1, <2>2, <2>4, StartedKept
<1>2. CASE EnterNode \/ Reads \/ CallNewContext \/ UNCHANGED vars
  <2>1. at \in {"meet", "flow"} /\ UNCHANGED <<current, node>>
    BY <1>2, ReadsOnly, InstructionType DEF EnterNode, CallNewContext, AtCall, vars, locals
  <2>2. current \in DOMAIN contexts
    BY <2>1 DEF TypeInv, Control
  <2>3. QED
    BY <2>1, <2>2, StartedKept DEF PlaceInv
<1>3. CASE PopContext \/ TakeExitMarker \/ FinishNode \/ SetExit \/ NotifyCaller
  BY <1>3 DEF PopContext, TakeExitMarker, FinishNode, SetExit, NotifyCaller, Idle, locals
<1>4. QED
  BY <1>1, <1>2, <1>3, Actions

LEMMA PlaceSites ==
  ASSUME TypeInv, TypeInv', PlaceInv, [Next]_vars, NEW s \in Range(sites')
  PROVE  s.node \in StartedIn(module', contexts'[s.context])
<1>1. Range(<<>>) = {}
  BY DEF Range
<1>2. ASSUME s.context \in DOMAIN contexts, s.node \in Started(s.context)
      PROVE  s.node \in StartedIn(module', contexts'[s.context])
  BY <1>2, StartedKept
<1>3. CASE s \in Range(sites)
  <2>1. s.context \in DOMAIN contexts
    <3>1. PICK i \in DOMAIN sites : sites[i] = s
      BY <1>3 DEF Range
    <3>2. sites \in Seq(Sites)
      BY DEF TypeInv, Control
    <3>3. s \in Sites
      BY <3>1, <3>2
    <3>4. QED
      BY <3>3 DEF Sites
  <2>2. QED
    BY <1>2, <1>3, <2>1 DEF PlaceInv
<1>4. CASE SetExit
  <2>1. sites' = getCallers(current)
    BY <1>1, <1>4 DEF SetExit, Idle
  <2>2. current \in DOMAIN callers /\ s \in Range(callers[current])
    BY <1>1, <2>1 DEF getCallers
  <2>3. s.context \in DOMAIN contexts /\ s.node \in Started(s.context)
    BY <2>2 DEF PlaceInv, Calls, Started
  <2>4. QED
    BY <1>2, <2>3
<1>5. CASE NotifyCaller
  <2>1. sites' = Tail(sites)
    BY <1>1, <1>5 DEF NotifyCaller, Idle
  <2>2. sites \in Seq(Sites) /\ sites # <<>>
    BY <1>5 DEF NotifyCaller, TypeInv, Control
  <2>3. /\ Tail(sites) \in Seq(Sites) /\ Len(Tail(sites)) = Len(sites) - 1
        /\ \A i \in 1..Len(Tail(sites)) : Tail(sites)[i] = sites[i + 1]
    BY <2>2, HeadTailProperties
  <2>4. PICK i \in DOMAIN Tail(sites) : Tail(sites)[i] = s
    BY <2>1 DEF Range
  <2>5. i + 1 \in DOMAIN sites /\ sites[i + 1] = s
    BY <2>2, <2>3, <2>4, LenProperties
  <2>6. QED
    BY <1>3, <2>5 DEF Range
<1>6. CASE FinishNode
  BY <1>1, <1>6 DEF FinishNode, Idle
<1>7. CASE \/ PopContext \/ TakeNode \/ TakeExitMarker \/ EnterNode \/ Reads \/ CallNewContext
           \/ UNCHANGED vars
  <2>1. sites' = sites
    BY <1>7, ReadsOnly DEF PopContext, TakeNode, TakeExitMarker, EnterNode, CallNewContext,
                           vars, locals
  <2>2. QED
    BY <1>3, <2>1
<1>8. QED
  BY <1>4, <1>5, <1>6, <1>7, Actions

\* addTransition adds one call site to one context.
LEMMA AddedCaller ==
  ASSUME TableTypeOK, NEW site \in CallSite, NEW f \in Method, NEW target \in ContextId,
         addTransition(site, f, target)
  PROVE  \A t \in DOMAIN callers' :
           Range(callers'[t]) \subseteq
             Range(getCallers(t)) \cup (IF t = target THEN {site} ELSE {})
<1> DEFINE kept(t) == IF <<site, f>> \in DOMAIN transitions /\ transitions[<<site, f>>] = t
                        THEN Without(getCallers(t), site) ELSE getCallers(t)
<1>1. callers' = [t \in DOMAIN callers \cup {target} |->
                    IF t = target THEN Append(kept(t), site) ELSE kept(t)]
  BY DEF addTransition
<1>2. \A t : getCallers(t) \in Seq(CallSite)
  BY DEF getCallers, TableTypeOK
<1>3. \A t : getCallers(t) \in Seq(Range(getCallers(t)))
  BY <1>2, SeqOfRange
<1>4. \A t : kept(t) \in Seq(Range(getCallers(t))) /\ kept(t) \in Seq(CallSite)
  BY <1>2, <1>3, WithoutType
<1> HIDE DEF kept
<1>5. \A t : Range(kept(t)) \subseteq Range(getCallers(t))
  BY <1>4, RangeOfSeq
<1>6. Range(Append(kept(target), site)) = Range(kept(target)) \cup {site}
  BY <1>4, RangeAppend
<1>7. QED
  BY <1>1, <1>5, <1>6

LEMMA PlaceCallers ==
  ASSUME TypeInv, TypeInv', PlaceInv, [Next]_vars
  PROVE  \A t \in DOMAIN callers' : \A s \in Range(callers'[t]) :
           Calls(module', contexts', s, contexts'[t].method)
<1>1. SameIdentity
  BY Identity
<1>2. \A t \in DOMAIN callers : t \in DOMAIN contexts
  BY DEF TypeInv, TypeOK
<1>3. \A t \in DOMAIN callers : \A s \in Range(callers[t]) :
        Calls(module, contexts, s, contexts[t].method)
  BY DEF PlaceInv
<1>4. ASSUME NEW s, NEW f, Calls(module, contexts, s, f)
      PROVE  Calls(module', contexts', s, f)
  BY <1>1, <1>4, StartedKept DEF SameIdentity, Calls, Started
<1>5. CASE UNCHANGED tableVars
  <2>1. callers' = callers
    BY <1>5 DEF tableVars
  <2>2. \A t \in DOMAIN callers : contexts'[t].method = contexts[t].method
    BY <1>1, <1>2 DEF SameIdentity
  <2>3. QED
    BY <1>3, <1>4, <2>1, <2>2
<1>6. ASSUME NEW target \in ContextId, Recorded(target)
      PROVE  \A t \in DOMAIN callers' : \A s \in Range(callers'[t]) :
               Calls(module', contexts', s, contexts'[t].method)
  <2>1. /\ AtInstruction /\ insn.op = "call"
        /\ addTransition(callSite, insn.callee, target)
        /\ contexts'[target].method = insn.callee
    BY <1>6 DEF Recorded, AtCall
  <2>2. /\ at = "flow" /\ current \in DOMAIN contexts /\ node \in Node
        /\ callSite \in CallSite /\ insn.callee \in Method
    BY <2>1, InstructionType
  <2>3. \A t \in DOMAIN callers' :
          Range(callers'[t]) \subseteq
            Range(getCallers(t)) \cup (IF t = target THEN {callSite} ELSE {})
    BY <2>1, <2>2, AddedCaller DEF TypeInv, TypeOK
  <2>4. Calls(module, contexts, callSite, insn.callee)
    <3>1. node \in Started(current)
      BY <2>2 DEF PlaceInv
    <3>2. pc \in DOMAIN module.code[node]
      <4>1. module.code[node] \in Seq(Instruction) /\ Len(module.code[node]) \in Nat
        BY <2>2, ModuleType DEF TypeInv, TypeOK
      <4>2. pc \in 1..Len(module.code[node])
        BY <2>1, <2>2, <4>1 DEF AtInstruction, TypeInv, TypeOK, Control
      <4>3. QED
        BY <4>1, <4>2, LenProperties
    <3>3. QED
      BY <2>1, <2>2, <3>1, <3>2 DEF callSite, insn, Started, Calls
  <2>5. ASSUME NEW t \in DOMAIN callers', NEW s \in Range(callers'[t])
        PROVE  Calls(module, contexts, s, contexts'[t].method)
    <3>1. CASE s \in Range(getCallers(t))
      <4>1. t \in DOMAIN callers /\ s \in Range(callers[t])
        BY <3>1 DEF getCallers, Range
      <4>2. contexts'[t].method = contexts[t].method
        BY <1>1, <1>2, <4>1 DEF SameIdentity
      <4>3. QED
        BY <1>3, <4>1, <4>2
    <3>2. CASE t = target /\ s = callSite
      BY <2>1, <2>4, <3>2
    <3>3. QED
      BY <2>3, <2>5, <3>1, <3>2
  <2>6. QED
    BY <1>4, <2>5
<1>7. QED
  BY <1>5, <1>6, TableStep

LEMMA PlaceStep ==
  ASSUME TypeInv, TypeInv', PlaceInv, [Next]_vars
  PROVE  PlaceInv'
<1>1. ASSUME NEW c \in DOMAIN contexts'
      PROVE  Range(contexts'[c].worklist) \subseteq StartedIn(module', contexts'[c]) \cup {NULL}
  <2>1. CASE c \in DOMAIN contexts
    BY <2>1, PlaceWorklist, PlaceFinish, StartedKept
  <2>2. CASE c \notin DOMAIN contexts
    <3> DEFINE f == insn.callee
    <3>1. CallNewContext
      BY <1>1, <2>2, Identity DEF SameIdentity
    <3>2. contexts'[c] = InitContext(f, entryValue)
      BY <1>1, <2>2, <3>1, NewContext
    <3>3. f \in Method /\ module' = module /\ module \in Module
      BY <3>1, InstructionType DEF CallNewContext, AtCall, TypeInv, TypeOK
    <3> HIDE DEF f
    <3>4. contexts'[c].worklist = <<EntryNode(f)>> /\ contexts'[c].method = f
      BY <3>2 DEF InitContext
    <3>5. Range(contexts'[c].worklist) = {EntryNode(f)}
      BY <3>4, SingleRange
    <3>6. EntryNode(f) \in Range(module.blocks[f])
      BY <3>3, BlocksType
    <3>7. QED
      BY <3>3, <3>4, <3>5, <3>6 DEF StartedIn, EntryNode
  <2>3. QED
    BY <2>1, <2>2
<1>2. QED
  BY <1>1, PlaceNode, PlaceSites, PlaceCallers DEF PlaceInv, Started

\* Whoever is notified calls the notifier, for every module: the call sites
\* that doAnalysis queues again are blocks of their contexts that call the
\* method whose exit value has changed.
THEOREM CallersDoCall == Spec => []CallersCall
<1>1. Spec => []PlaceInv
  BY PlaceInit, PlaceStep, TypeInvariant, PTL DEF Spec
<1>2. PlaceInv => CallersCall
  BY DEF PlaceInv, CallersCall, Calls, StartedIn, Range
<1>3. QED
  BY <1>1, <1>2, PTL

-----------------------------------------------------------------------------
(* The promise.  doAnalysis implements ValueContexts: the actions that     *)
(* assign a value lower the table under the key of the current context,    *)
(* CallNewContext discovers a key, popping the last context returns, and   *)
(* the table is blind to everything else.                                  *)

\* The table of any contexts, so that it can be compared before and after a step.
TableOf(cs) ==
  [k \in {<<cs[c].method, cs[c].entryValue>> : c \in DOMAIN cs} |->
     LET found == {c \in DOMAIN cs : cs[c].method = k[1] /\ cs[c].entryValue = k[2]}
         c     == CHOOSE c \in found : \A d \in found : c <= d
     IN [before |-> cs[c].before, after |-> cs[c].after, exit |-> cs[c].exitValue]]

Key(cs, c) == <<cs[c].method, cs[c].entryValue>>
Row(cs, c) == [before |-> cs[c].before, after |-> cs[c].after, exit |-> cs[c].exitValue]

KeysDiffer(cs) ==
  \A c, d \in DOMAIN cs : cs[c].method = cs[d].method /\ cs[c].entryValue = cs[d].entryValue => c = d

\* A table with one row for each context.
IsTableOf(t, cs) ==
  /\ DOMAIN t = {Key(cs, c) : c \in DOMAIN cs}
  /\ \A c \in DOMAIN cs : t[Key(cs, c)] = Row(cs, c)
  /\ t = [k \in DOMAIN t |-> t[k]]

LEMMA TableRows ==
  ASSUME NEW cs, DOMAIN cs \subseteq Nat, KeysDiffer(cs)
  PROVE  IsTableOf(TableOf(cs), cs)
<1> DEFINE found(k) == {c \in DOMAIN cs : cs[c].method = k[1] /\ cs[c].entryValue = k[2]}
           first(k) == CHOOSE c \in found(k) : \A d \in found(k) : c <= d
           row(k)   == [before |-> cs[first(k)].before, after |-> cs[first(k)].after,
                        exit |-> cs[first(k)].exitValue]
<1>1. TableOf(cs) = [k \in {Key(cs, c) : c \in DOMAIN cs} |-> row(k)]
  BY DEF TableOf, Key
<1>2. ASSUME NEW c \in DOMAIN cs
      PROVE  row(Key(cs, c)) = Row(cs, c)
  <2>1. found(Key(cs, c)) = {c}
    BY DEF KeysDiffer, Key
  <2>2. first(Key(cs, c)) = c
    <3> HIDE DEF found
    <3> QED
      BY <2>1
  <2>3. QED
    <3> HIDE DEF first
    <3> QED
      BY <2>2 DEF Row
<1>3. QED
  <2> HIDE DEF row
  <2> QED
    BY <1>1, <1>2 DEF IsTableOf

LEMMA TablesEqual ==
  ASSUME NEW cs, NEW ds, NEW t, NEW u, IsTableOf(t, cs), IsTableOf(u, ds),
         DOMAIN cs = DOMAIN ds,
         \A c \in DOMAIN cs : Key(cs, c) = Key(ds, c) /\ Row(cs, c) = Row(ds, c)
  PROVE  t = u
<1>1. DOMAIN t = DOMAIN u
  BY DEF IsTableOf
<1>2. \A k \in DOMAIN t : t[k] = u[k]
  BY DEF IsTableOf
<1>3. QED
  BY <1>1, <1>2 DEF IsTableOf

\* The engine works on some context until it has finished a node or an exit.
BusyInv == at \in {"meet", "flow", "exit"} => workList # <<>>

PromiseInv ==
  /\ TypeInv /\ UniqueValueContexts /\ WorkInv /\ ExitInv /\ EdgeInv /\ EntryKept /\ BeforeInv
  /\ PlaceInv /\ BusyInv

LEMMA PromiseInit ==
  ASSUME Init
  PROVE  PromiseInv
<1>1. BusyInv
  BY DEF Init, BusyInv
<1>2. QED
  BY <1>1, TypeInit, UniqueInit, WorkInit, ExitInit, EdgeInit, EntryInit, BeforeInit, PlaceInit
     DEF PromiseInv

LEMMA BusyStep ==
  ASSUME PromiseInv, [Next]_vars
  PROVE  BusyInv'
<1>1. CASE PopContext \/ FinishNode \/ SetExit \/ NotifyCaller
  <2>1. at' \in {"loop", "notify"}
    BY <1>1 DEF PopContext, FinishNode, SetExit, NotifyCaller, Idle, locals
  <2>2. QED
    BY <2>1 DEF BusyInv
<1>2. CASE CallNewContext
  <2>1. workList' = Append(workList, Len(contexts) + 1)
    BY <1>2 DEF CallNewContext
  <2>2. workList \in Seq(DOMAIN contexts)
    BY DEF PromiseInv, TypeInv, TypeOK
  <2>3. QED
    BY <2>1, <2>2 DEF BusyInv
<1>3. CASE TakeNode \/ TakeExitMarker
  BY <1>3 DEF BusyInv, TakeNode, TakeExitMarker
<1>4. CASE EnterNode \/ Reads
  BY <1>4, ReadsOnly DEF EnterNode, BusyInv, PromiseInv
<1>5. CASE UNCHANGED vars
  BY <1>5 DEF BusyInv, PromiseInv, vars, locals
<1>6. QED
  BY <1>1, <1>2, <1>3, <1>4, <1>5, Actions

LEMMA PromiseStep ==
  ASSUME PromiseInv, [Next]_vars
  PROVE  PromiseInv'
<1>1. TypeInv'
  BY TypeStep DEF PromiseInv
<1>2. QED
  BY <1>1, UniqueStep, WorkStep, ExitStep, EdgeInvStep, EntryStep, BeforeStep, PlaceStep, BusyStep
     DEF PromiseInv

LEMMA TableBefore ==
  ASSUME PromiseInv
  PROVE  IsTableOf(TableOfContexts, contexts)
<1>1. TableOfContexts = TableOf(contexts)
  BY DEF TableOfContexts, TableOf, KeyOf, getContext, ContextsOf
<1>2. DOMAIN contexts \subseteq Nat /\ KeysDiffer(contexts)
  BY ContextsDomain DEF PromiseInv, TypeInv, UniqueValueContexts, KeysDiffer, ContextId
<1>3. QED
  BY <1>1, <1>2, TableRows

LEMMA TableAfter ==
  ASSUME PromiseInv'
  PROVE  IsTableOf(TableOfContexts', contexts')
<1>1. TableOfContexts' = TableOf(contexts')
  BY DEF TableOfContexts, TableOf, KeyOf, getContext, ContextsOf
<1>2. DOMAIN contexts' \subseteq Nat /\ KeysDiffer(contexts')
  BY ContextsDomain DEF PromiseInv, TypeInv, UniqueValueContexts, KeysDiffer, ContextId
<1>3. QED
  BY <1>1, <1>2, TableRows

\* A step that keeps a context's values keeps its row.
LEMMA RowKept ==
  ASSUME SameIdentity, NEW c \in DOMAIN contexts
  PROVE  /\ Key(contexts', c) = Key(contexts, c)
         /\ SameValues(c) => Row(contexts', c) = Row(contexts, c)
BY DEF SameIdentity, SameValues, Key, Row

LEMMA StepSame ==
  ASSUME PromiseInv, PromiseInv', SameIdentity, DOMAIN contexts' = DOMAIN contexts,
         \A c \in DOMAIN contexts : SameValues(c)
  PROVE  TableOfContexts' = TableOfContexts
BY TableBefore, TableAfter, TablesEqual, RowKept

\* What the promise takes from SignAnalysis is what the engine takes.
LEMMA SameOrder ==
  ASSUME NEW v, NEW w
  PROVE  /\ Promise!Below(v, w) <=> Below(v, w)
         /\ Promise!Values = Values
         /\ Promise!topValue = topValue
         /\ Promise!Absent = Absent
<1>1. \A x, y : Promise!SignBelow(x, y) <=> SignBelow(x, y)
  BY DEF Promise!SignBelow, SignBelow, Promise!AtMost, AtMost, Promise!SIGN_meet, SIGN_meet,
         Promise!Absent, Absent, Promise!TOP, TOP, Promise!BOTTOM, BOTTOM, Promise!Definite, Definite,
         Promise!ZERO, ZERO, Promise!POSITIVE, POSITIVE, Promise!NEGATIVE, NEGATIVE,
         Promise!INVALID, INVALID
<1>2. Promise!SIGN = SIGN
  BY DEF Promise!SIGN, SIGN, Promise!Definite, Definite, Promise!TOP, TOP, Promise!BOTTOM, BOTTOM,
         Promise!ZERO, ZERO, Promise!POSITIVE, POSITIVE, Promise!NEGATIVE, NEGATIVE,
         Promise!INVALID, INVALID
<1>3. QED
  BY <1>1, <1>2 DEF Promise!Below, Below, Promise!Values, Values, Promise!topValue, topValue,
                    Promise!Absent, Absent

LEMMA SameRange ==
  ASSUME NEW f
  PROVE  /\ Promise!Range(f) = Range(f)
         /\ Promise!IsInjective(f) <=> IsInjective(f)
BY DEF Promise!Range, Range, Promise!IsInjective, IsInjective

LEMMA SameModules == Promise!Module = Module
<1>1. Promise!Instruction = Instruction
  <2>1. Promise!OpCode = OpCode /\ Promise!Operand = Operand
    BY DEF OpCode, Promise!OpCode, Copies, Promise!Copies, BinaryOps, Promise!BinaryOps,
           Operand, Promise!Operand
  <2>2. \A op : Promise!Arity(op) = Arity(op)
    BY DEF Arity, Promise!Arity, Copies, Promise!Copies, BinaryOps, Promise!BinaryOps
  <2>3. QED
    BY <2>1, <2>2 DEF Instruction, Promise!Instruction
<1>2. ASSUME NEW m
      PROVE  Promise!WellFormed(m) <=> WellFormed(m)
  BY DEF WellFormed, Promise!WellFormed, Range, Promise!Range, IsInjective, Promise!IsInjective
<1>3. QED
  BY <1>1, <1>2 DEF Module, Promise!Module

LEMMA EntryIs == \A f : Promise!Entry(f) = EntryNode(f) /\ Promise!Entry(f)' = EntryNode(f)'
BY DEF Promise!Entry, EntryNode

\* A step that assigns a value of one context.
LEMMA StepLower ==
  ASSUME PromiseInv, PromiseInv', [Next]_vars, DOMAIN contexts' = DOMAIN contexts,
         NEW c \in DOMAIN contexts, \A d \in DOMAIN contexts : d # c => SameValues(d),
         ~Done, ~Done'
  PROVE  Promise!Lower
<1> DEFINE t == TableOfContexts
           u == TableOfContexts'
           k == Key(contexts, c)
<1>1. SameIdentity
  BY Identity DEF PromiseInv
<1>2. IsTableOf(t, contexts) /\ IsTableOf(u, contexts')
  BY TableBefore, TableAfter
<1>3. \A d \in DOMAIN contexts : Key(contexts', d) = Key(contexts, d)
  BY <1>1, RowKept
<1> HIDE DEF t, u
<1>4. DOMAIN u = DOMAIN t /\ k \in DOMAIN t
  BY <1>2, <1>3 DEF IsTableOf
<1>5. t[k] = Row(contexts, c) /\ u[k] = Row(contexts', c)
  BY <1>2, <1>3 DEF IsTableOf
<1>6. \A j \in DOMAIN t : j # k => u[j] = t[j]
  <2>1. ASSUME NEW d \in DOMAIN contexts, Key(contexts, d) # k
        PROVE  u[Key(contexts, d)] = t[Key(contexts, d)]
    <3>1. SameValues(d)
      BY <2>1
    <3>2. Row(contexts', d) = Row(contexts, d)
      BY <1>1, <3>1, RowKept
    <3>3. QED
      BY <1>2, <1>3, <3>2 DEF IsTableOf
  <2>2. QED
    BY <1>2, <2>1 DEF IsTableOf
<1>7. Promise!Descends(u[k], t[k])
  <2>1. /\ Below(contexts'[c].exitValue, contexts[c].exitValue)
        /\ \A n \in Node : Below(contexts'[c].after[n], contexts[c].after[n])
    BY DescentStep DEF PromiseInv
  <2>2. \A n \in Node : Below(contexts'[c].before[n], contexts[c].before[n])
    BY BeforeDescends DEF PromiseInv
  <2>3. QED
    BY <1>5, <2>1, <2>2, SameOrder DEF Promise!Descends, Row
<1>8. u[k].before[Promise!Entry(k[1])] = k[2]
  <2>1. contexts'[c].before[EntryNode(contexts[c].method)'] = contexts'[c].entryValue
    BY DEF PromiseInv, EntryKept
  <2>2. EntryNode(contexts[c].method)' = EntryNode(contexts[c].method)
    BY <1>1 DEF EntryNode, SameIdentity
  <2>3. k[1] = contexts[c].method /\ k[2] = contexts'[c].entryValue
    BY <1>1 DEF Key, SameIdentity
  <2>4. QED
    BY <1>5, <2>1, <2>2, <2>3, EntryIs DEF Row
<1>9. QED
  <2> HIDE DEF k
  <2>1. module' = module
    BY <1>1 DEF SameIdentity
  <2>2. Done' = Done
    BY DEF Done
  <2>3. QED
    BY <1>4, <1>6, <1>7, <1>8, <2>1, <2>2 DEF Promise!Lower, t, u

\* The table a module has when its "main" is entered.
LEMMA StepInit ==
  ASSUME Init
  PROVE  Promise!Init
<1> DEFINE f == module.main
           t == TableOfContexts
<1>1. contexts = <<InitContext(f, topValue)>> /\ DOMAIN contexts = {1} /\ module \in Module
  BY ModulesAssumption DEF Init
<1>2. IsTableOf(t, contexts)
  BY PromiseInit, TableBefore
<1>3. Key(contexts, 1) = <<f, topValue>> /\ Row(contexts, 1) = Promise!Fresh(f, topValue)
  BY <1>1, SameOrder, EntryIs DEF Key, Row, InitContext, Promise!Fresh
<1>4. t = [k \in {<<f, topValue>>} |-> Promise!Fresh(f, topValue)]
  <2> HIDE DEF t, f
  <2>1. DOMAIN t = {<<f, topValue>>} /\ t[<<f, topValue>>] = Promise!Fresh(f, topValue)
    BY <1>1, <1>2, <1>3 DEF IsTableOf
  <2>2. t = [k \in DOMAIN t |-> t[k]]
    BY <1>2 DEF IsTableOf
  <2>3. QED
    BY <2>1, <2>2
<1>5. Done = FALSE
  BY DEF Init, Done
<1>6. module \in Promise!Module
  BY <1>1, SameModules
<1>7. QED
  BY <1>4, <1>5, <1>6, SameOrder DEF Promise!Init

LEMMA StepDiscover ==
  ASSUME PromiseInv, PromiseInv', CallNewContext
  PROVE  Promise!Discover
<1> DEFINE t   == TableOfContexts
           u   == TableOfContexts'
           new == Len(contexts) + 1
           g   == insn.callee
           v   == entryValue
           k   == <<g, v>>
           c   == Key(contexts, current)
<1>1. SameIdentity
  BY Identity DEF PromiseInv, Next
<1>2. IsTableOf(t, contexts) /\ IsTableOf(u, contexts')
  BY TableBefore, TableAfter
<1>3. /\ DOMAIN contexts' = DOMAIN contexts \cup {new} /\ new \notin DOMAIN contexts
      /\ contexts'[new] = InitContext(g, v)
  BY NewContext DEF PromiseInv
<1>4. /\ at = "flow" /\ current \in DOMAIN contexts /\ node \in Node /\ insn.op = "call"
      /\ g \in Method /\ v \in Values
      /\ \A x \in Name : v[x] # Absent <=> x \in Range(module.params[g])
      /\ pc \in DOMAIN module.code[node]
  BY InstructionType DEF CallNewContext, AtCall, PromiseInv
<1>5. \A d \in DOMAIN contexts : SameValues(d)
  BY ValuesKept DEF PromiseInv
<1>6. module' = module /\ at' = at
  BY DEF CallNewContext
<1>7. Key(contexts', new) = k /\ Row(contexts', new) = Promise!Fresh(g, v)
  BY <1>3, SameOrder, EntryIs DEF Key, Row, InitContext, Promise!Fresh
<1>8. k \notin DOMAIN t
  <2>1. \A d \in DOMAIN contexts : ~(contexts[d].method = g /\ contexts[d].entryValue = v)
    BY DEF CallNewContext, ContextsOf
  <2>2. QED
    BY <1>2, <2>1 DEF IsTableOf, Key
<1>9. c \in DOMAIN t /\ c[1] = contexts[current].method
  BY <1>2, <1>4 DEF IsTableOf, Key
<1>10. Promise!Calls(c[1], g)
  <2>1. node \in Range(module.blocks[c[1]])
    BY <1>4, <1>9 DEF PromiseInv, PlaceInv, Started, StartedIn
  <2>2. QED
    BY <1>4, <2>1, SameRange DEF Promise!Calls, insn
<1>11. k \in Promise!Keys(g) \ DOMAIN t
  BY <1>4, <1>8, SameOrder, SameRange DEF Promise!Keys
<1>12. u = [j \in DOMAIN t \cup {k} |-> IF j = k THEN Promise!Fresh(g, v) ELSE t[j]]
  <2> HIDE DEF t, u, k, new, g, v
  <2>1. \A d \in DOMAIN contexts :
          /\ Key(contexts', d) = Key(contexts, d)
          /\ Row(contexts', d) = Row(contexts, d)
    BY <1>1, <1>5, RowKept
  <2>2. DOMAIN u = DOMAIN t \cup {k}
    BY <1>2, <1>3, <1>7, <2>1 DEF IsTableOf
  <2>3. u[k] = Promise!Fresh(g, v)
    BY <1>2, <1>3, <1>7 DEF IsTableOf
  <2>4. \A j \in DOMAIN t : u[j] = t[j]
    BY <1>2, <1>3, <2>1 DEF IsTableOf
  <2>5. u = [j \in DOMAIN u |-> u[j]]
    BY <1>2 DEF IsTableOf
  <2>6. QED
    BY <1>8, <2>2, <2>3, <2>4, <2>5
<1>13. ~Done /\ Done' = Done
  BY <1>4, <1>6 DEF Done
<1>14. QED
  <2> HIDE DEF c, g, v
  <2>1. k[2] = v
    OBVIOUS
  <2> HIDE DEF k
  <2>2. QED
    BY <1>4, <1>6, <1>9, <1>10, <1>11, <1>12, <1>13, <2>1 DEF Promise!Discover

\* Nothing is left to do: every edge is respected.
LEMMA StepReturn ==
  ASSUME PromiseInv, PromiseInv', SameIdentity, DOMAIN contexts' = DOMAIN contexts,
         \A c \in DOMAIN contexts : SameValues(c), ~Done, Done'
  PROVE  Promise!Return
<1>1. TableOfContexts' = TableOfContexts /\ module' = module
  BY StepSame DEF SameIdentity
<1>2. Range(workList') = {} /\ at' = "loop"
  BY DEF Done, Range
<1>3. ASSUME NEW c \in DOMAIN contexts, NEW p \in Node, NEW n \in Range(module.succs[p])
      PROVE  Below(contexts[c].before[n], contexts[c].after[p])
  <2>1. contexts'[c].worklist = <<>>
    BY <1>2 DEF PromiseInv, WorkInv, PendingIsScheduled
  <2>2. Range(contexts'[c].worklist) = {}
    BY <2>1 DEF Range
  <2>3. n \in Range(SuccsOf(p)')
    BY <1>1 DEF SuccsOf
  <2>4. Below(contexts'[c].before[n], contexts'[c].after[p])
    BY <1>2, <2>2, <2>3 DEF PromiseInv, EdgeInv, EdgesRespected
  <2>5. QED
    BY <2>4 DEF SameValues
<1>4. Promise!Solved
  <2>1. IsTableOf(TableOfContexts, contexts)
    BY TableBefore
  <2>2. ASSUME NEW c \in DOMAIN contexts
        PROVE  /\ TableOfContexts[Key(contexts, c)].before = contexts[c].before
               /\ TableOfContexts[Key(contexts, c)].after = contexts[c].after
    <3>1. TableOfContexts[Key(contexts, c)] = Row(contexts, c)
      BY <2>1 DEF IsTableOf
    <3>2. QED
      BY <3>1 DEF Row
  <2>3. ASSUME NEW k \in DOMAIN TableOfContexts, NEW p \in Node, NEW n \in Range(module.succs[p])
        PROVE  Below(TableOfContexts[k].before[n], TableOfContexts[k].after[p])
    <3>1. PICK c \in DOMAIN contexts : k = Key(contexts, c)
      BY <2>1 DEF IsTableOf
    <3>2. QED
      BY <1>3, <2>2, <3>1
  <2>4. QED
    BY <2>3, SameOrder, SameRange DEF Promise!Solved
<1>5. Done' = TRUE
  BY DEF Done
<1>6. QED
  BY <1>1, <1>4, <1>5 DEF Promise!Return

LEMMA StepMaps ==
  ASSUME PromiseInv, PromiseInv', [Next]_vars
  PROVE  [Promise!Next]_(Promise!tableVars)
<1>1. SameIdentity
  BY Identity DEF PromiseInv
<1>2. CASE EnterNode \/ FinishNode \/ SetExit
  <2>1. /\ current \in DOMAIN contexts /\ DOMAIN contexts' = DOMAIN contexts
        /\ \A d \in DOMAIN contexts : d # current => SameValues(d)
    BY <1>2, EnteredNode, FinishedNode, ExitSet DEF PromiseInv, SameValues
  <2>2. ~Done
    BY <1>2 DEF EnterNode, FinishNode, SetExit, Done
  <2>3. ~Done'
    <3>1. workList' = workList /\ workList # <<>>
      BY <1>2 DEF EnterNode, FinishNode, SetExit, PromiseInv, BusyInv
    <3>2. QED
      BY <3>1 DEF Done
  <2>4. Promise!Lower
    BY <2>1, <2>2, <2>3, StepLower
  <2>5. QED
    BY <2>4 DEF Promise!Next
<1>3. CASE CallNewContext
  BY <1>3, StepDiscover DEF Promise!Next
<1>4. CASE \/ PopContext \/ TakeNode \/ TakeExitMarker \/ Reads \/ NotifyCaller \/ UNCHANGED vars
  <2>1. \A c \in DOMAIN contexts : SameValues(c)
    BY <1>4, ValuesKept DEF PromiseInv
  <2>2. DOMAIN contexts' = DOMAIN contexts
    BY <1>4, PoppedContext, TakenNode, ReadsOnly, NotifiedCaller DEF PromiseInv, vars
  <2>3. TableOfContexts' = TableOfContexts /\ module' = module
    BY <1>1, <2>1, <2>2, StepSame DEF SameIdentity
  <2>4. CASE Done' = Done
    BY <2>3, <2>4 DEF Promise!tableVars
  <2>5. CASE Done
    <3>1. UNCHANGED vars
      BY <1>4, <2>5, ReadsOnly DEF Done, PopContext, TakeNode, TakeExitMarker, NotifyCaller
    <3>2. Done' = Done
      BY <3>1 DEF Done, vars, locals
    <3>3. QED
      BY <2>4, <3>2
  <2>6. CASE ~Done /\ Done'
    BY <1>1, <2>1, <2>2, <2>6, StepReturn DEF Promise!Next
  <2>7. CASE ~Done /\ ~Done'
    <3>1. Done' = Done
      BY <2>7 DEF Done
    <3>2. QED
      BY <2>4, <3>1
  <2>8. QED
    BY <2>5, <2>6, <2>7
<1>5. QED
  BY <1>2, <1>3, <1>4, Actions

\* doAnalysis implements the promise of an analysis by value contexts, for every
\* module: whatever is queued, popped and notified, it only adds the method and
\* entry value of a call, lowers the values under one of them, or returns with
\* every edge respected.
THEOREM ImplementsValueContexts == Spec => KeepsPromise
<1>1. Spec => []PromiseInv
  BY PromiseInit, PromiseStep, PTL DEF Spec
<1>2. Init => Promise!Init
  BY StepInit
<1>3. PromiseInv /\ PromiseInv' /\ [Next]_vars => [Promise!Next]_(Promise!tableVars)
  BY StepMaps
<1>4. QED
  BY <1>1, <1>2, <1>3, PTL DEF Spec, KeepsPromise, Promise!Spec
=============================================================================
