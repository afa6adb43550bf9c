--------------------------- MODULE ExecutionProofs ---------------------------
(***************************************************************************)
(* The whole, for every module.                                            *)
(*                                                                         *)
(* First, what doAnalysis of project/forward_inter_procedural_analysis.cpp *)
(* leaves behind: an assertion of project/sign_analysis.cpp fails only for *)
(* a name without a definition; no return is missed where branches lead to *)
(* returns only; and the result solves the equations where the calls of a  *)
(* method are in one block and of different methods.                       *)
(*                                                                         *)
(* Then the program itself: the analysis covers every execution of the     *)
(* program it was run on, of any length and any depth, provided its result *)
(* solves the equations and covers the returns when doAnalysis comes back. *)
(***************************************************************************)
EXTENDS Execution, ValueContextsProofs

-----------------------------------------------------------------------------
(* The values in a node, one instruction after the other.                  *)

LEMMA NatSetInduction ==
  ASSUME NEW S, 0 \in S, \A k \in S : k \in Nat => k + 1 \in S
  PROVE  Nat \subseteq S
<1>1. SUFFICES ASSUME Nat \ S # {}
               PROVE  FALSE
  OBVIOUS
<1>2. PICK x \in Nat \ S : \A y \in Nat \ S : x <= y
  BY <1>1, LeastElement
<1>3. x # 0 /\ x - 1 \in Nat /\ ~(x <= x - 1) /\ (x - 1) + 1 = x
  BY <1>2
<1>4. x - 1 \in S
  BY <1>2, <1>3
<1>5. QED
  BY <1>2, <1>3, <1>4

\* A prefix of the recursion, as a function on 0..m.
IsFlowPrefix(h, m, c, n) ==
  h = [k \in 0..m |-> IF k = 0 THEN contexts[c].before[n]
                      ELSE FlowStep(h[k - 1], module.code[n][k])]

LEMMA PrefixExists ==
  ASSUME NEW c, NEW n
  PROVE  \A m \in Nat : \E h : IsFlowPrefix(h, m, c, n)
<1> DEFINE S == {m \in Nat : \E h : IsFlowPrefix(h, m, c, n)}
<1>1. 0 \in S
  <2> DEFINE h == [k \in 0..0 |-> contexts[c].before[n]]
  <2>1. IsFlowPrefix(h, 0, c, n)
    BY DEF IsFlowPrefix
  <2>2. QED
    BY <2>1
<1>2. ASSUME NEW m \in S
      PROVE  m + 1 \in S
  <2>1. m \in Nat /\ 0 \in 0..m
    OBVIOUS
  <2>2. PICK g : IsFlowPrefix(g, m, c, n)
    OBVIOUS
  <2> DEFINE h == [k \in 0..m + 1 |-> IF k = m + 1 THEN FlowStep(g[m], module.code[n][m + 1])
                                      ELSE g[k]]
             next(f, k) == IF k = 0 THEN contexts[c].before[n]
                           ELSE FlowStep(f[k - 1], module.code[n][k])
  <2>3. ASSUME NEW k \in 0..m + 1
        PROVE  h[k] = next(h, k)
    <3>1. CASE k = m + 1
      <4>1. k # 0 /\ k - 1 = m /\ m \in 0..m + 1 /\ m # m + 1
        BY <2>1, <3>1
      <4>2. h[m] = g[m]
        BY <4>1
      <4>3. QED
        BY <3>1, <4>1, <4>2
    <3>2. CASE k # m + 1
      <4>1. k \in 0..m /\ (k # 0 => k - 1 \in 0..m + 1 /\ k - 1 # m + 1)
        BY <2>1, <2>3, <3>2
      <4>2. g[k] = next(g, k)
        BY <2>2, <4>1 DEF IsFlowPrefix
      <4>3. h[k] = g[k] /\ (k # 0 => h[k - 1] = g[k - 1])
        BY <2>3, <3>2, <4>1
      <4>4. QED
        BY <4>2, <4>3
    <3>3. QED
      BY <3>1, <3>2
  <2>4. h = [k \in 0..m + 1 |-> h[k]]
    OBVIOUS
  <2>5. h = [k \in 0..m + 1 |-> next(h, k)]
    <3> HIDE DEF h, next
    <3> QED
      BY <2>3, <2>4
  <2>6. IsFlowPrefix(h, m + 1, c, n)
    BY <2>5 DEF IsFlowPrefix
  <2>7. QED
    <3> HIDE DEF h
    <3> QED
      BY <2>1, <2>6
<1>3. QED
  <2> HIDE DEF S
  <2>1. Nat \subseteq S
    BY <1>1, <1>2, NatSetInduction
  <2>2. QED
    BY <2>1 DEF S

LEMMA PrefixUnique ==
  ASSUME NEW c, NEW n
  PROVE  \A k \in Nat : \A m1, m2 \in Nat : \A g, h :
           IsFlowPrefix(g, m1, c, n) /\ IsFlowPrefix(h, m2, c, n) /\ k <= m1 /\ k <= m2 => g[k] = h[k]
<1> DEFINE Agree(k) == \A m1, m2 \in Nat : \A g, h :
             IsFlowPrefix(g, m1, c, n) /\ IsFlowPrefix(h, m2, c, n) /\ k <= m1 /\ k <= m2 => g[k] = h[k]
           S == {k \in Nat : Agree(k)}
<1>1. 0 \in S
  <2>1. ASSUME NEW m1 \in Nat, NEW m2 \in Nat, NEW g, NEW h,
               IsFlowPrefix(g, m1, c, n), IsFlowPrefix(h, m2, c, n)
        PROVE  g[0] = h[0]
    <3>1. 0 \in 0..m1 /\ 0 \in 0..m2
      OBVIOUS
    <3>2. g[0] = contexts[c].before[n] /\ h[0] = contexts[c].before[n]
      BY <2>1, <3>1 DEF IsFlowPrefix
    <3>3. QED
      BY <3>2
  <2>2. Agree(0)
    BY <2>1
  <2>3. QED
    <3> HIDE DEF Agree
    <3> QED
      BY <2>2
<1>2. ASSUME NEW k \in S
      PROVE  k + 1 \in S
  <2>1. k \in Nat /\ Agree(k)
    OBVIOUS
  <2>2. ASSUME NEW m1 \in Nat, NEW m2 \in Nat, NEW g, NEW h,
               IsFlowPrefix(g, m1, c, n), IsFlowPrefix(h, m2, c, n), k + 1 <= m1, k + 1 <= m2
        PROVE  g[k + 1] = h[k + 1]
    <3>1. k <= m1 /\ k <= m2 /\ k + 1 \in 0..m1 /\ k + 1 \in 0..m2 /\ (k + 1) - 1 = k /\ k + 1 # 0
      BY <2>1, <2>2
    <3>2. g[k] = h[k]
      BY <2>1, <2>2, <3>1
    <3>3. /\ g[k + 1] = FlowStep(g[k], module.code[n][k + 1])
          /\ h[k + 1] = FlowStep(h[k], module.code[n][k + 1])
      BY <2>2, <3>1 DEF IsFlowPrefix
    <3>4. QED
      BY <3>2, <3>3
  <2>3. Agree(k + 1)
    BY <2>2
  <2>4. QED
    <3> HIDE DEF Agree
    <3> QED
      BY <2>1, <2>3
<1>3. QED
  <2> HIDE DEF Agree
  <2>1. Nat \subseteq S
    <3> HIDE DEF S
    <3> QED
      BY <1>1, <1>2, NatSetInduction
  <2>2. \A k \in Nat : Agree(k)
    BY <2>1
  <2>3. QED
    BY <2>2 DEF Agree

LEMMA FlowUnfolds ==
  ASSUME NEW c, NEW n
  PROVE  /\ Flow(c, n)[0] = contexts[c].before[n]
         /\ \A k \in Nat : Flow(c, n)[k + 1] = FlowStep(Flow(c, n)[k], module.code[n][k + 1])
<1> DEFINE part(k) == CHOOSE h : IsFlowPrefix(h, k, c, n)
           g       == [k \in Nat |-> part(k)[k]]
           next(f, k) == IF k = 0 THEN contexts[c].before[n]
                         ELSE FlowStep(f[k - 1], module.code[n][k])
<1>1. \A k \in Nat : IsFlowPrefix(part(k), k, c, n)
  BY PrefixExists
<1>2. ASSUME NEW k \in Nat
      PROVE  g[k] = next(g, k)
  <2> HIDE DEF part
  <2>1. k \in 0..k /\ (k # 0 => k - 1 \in Nat /\ k - 1 <= k /\ k - 1 <= k - 1 /\ k - 1 \in 0..k)
    OBVIOUS
  <2>2. part(k)[k] = next(part(k), k)
    BY <1>1, <2>1 DEF IsFlowPrefix
  <2>3. k # 0 => part(k)[k - 1] = part(k - 1)[k - 1]
    BY <1>1, <2>1, PrefixUnique
  <2>4. g[k] = part(k)[k] /\ (k # 0 => g[k - 1] = part(k - 1)[k - 1])
    BY <2>1
  <2>5. QED
    <3> HIDE DEF g
    <3> QED
      BY <2>2, <2>3, <2>4
<1>3. g = [k \in Nat |-> next(g, k)]
  <2>1. g = [k \in Nat |-> g[k]]
    OBVIOUS
  <2> HIDE DEF g, next
  <2>2. QED
    BY <1>2, <2>1
<1>4. Flow(c, n) = [k \in Nat |-> next(Flow(c, n), k)]
  <2> HIDE DEF g
  <2>1. \E f : f = [k \in Nat |-> next(f, k)]
    BY <1>3
  <2>2. QED
    BY <2>1 DEF Flow
<1>5. QED
  <2>1. \A k \in Nat : k + 1 \in Nat /\ k + 1 # 0 /\ (k + 1) - 1 = k
    OBVIOUS
  <2>2. \A k \in Nat : Flow(c, n)[k] = next(Flow(c, n), k)
    <3> HIDE DEF next
    <3> QED
      BY <1>4
  <2>3. QED
    BY <2>1, <2>2

-----------------------------------------------------------------------------
(* Names without a definition.  A name a value misses has no definition on *)
(* some path to where the value holds: it is missing in the entry value of *)
(* the context, then in what a predecessor sends, and no instruction taken *)
(* since defines it.  So an assertion on an operand fails only where the   *)
(* program really has such a path.                                         *)

LEMMA ReachedOn ==
  ASSUME module \in Module, NEW n \in Node, NEW stops
  PROVE  /\ n \in ReachedFrom(n, stops)
         /\ \A p \in ReachedFrom(n, stops) \ stops : Range(SuccsOf(p)) \subseteq ReachedFrom(n, stops)
<1>1. n \in ReachedFrom(n, stops)
  BY DEF ReachedFrom
<1>2. ASSUME NEW p \in ReachedFrom(n, stops) \ stops, NEW s \in Range(SuccsOf(p))
      PROVE  s \in ReachedFrom(n, stops)
  <2>1. p \in Node
    BY DEF ReachedFrom
  <2>2. s \in Node
    BY <2>1, SuccessorIsNode
  <2>3. ASSUME NEW ns \in SUBSET Node, n \in ns, \A q \in ns \ stops : Range(SuccsOf(q)) \subseteq ns
        PROVE  s \in ns
    <3>1. p \in ns \ stops
      BY <2>3 DEF ReachedFrom
    <3>2. QED
      BY <2>3, <3>1
  <2>4. QED
    BY <2>2, <2>3 DEF ReachedFrom
<1>3. QED
  BY <1>1, <1>2

\* The name an instruction defines, if any.
NameOf(i) == IF i.op = "ret" THEN RETURN ELSE i.def

LEMMA DefinedByPrefix ==
  ASSUME NEW s \in Seq(Instruction)
  PROVE  /\ DefinedIn(SubSeq(s, 1, 0)) = {}
         /\ DefinedIn(SubSeq(s, 1, Len(s))) = DefinedIn(s)
         /\ \A k \in 1..Len(s) :
              DefinedIn(SubSeq(s, 1, k)) =
                DefinedIn(SubSeq(s, 1, k - 1)) \cup (IF s[k].op = "br" THEN {} ELSE {NameOf(s[k])})
<1>1. Len(s) \in Nat /\ DOMAIN s = 1..Len(s)
  BY LenProperties
<1>2. \A k \in 0..Len(s) : SubSeq(s, 1, k) = [i \in 1..k |-> s[i]]
  <2>1. TAKE k \in 0..Len(s)
  <2>2. 1..(1 + k - 1) = 1..k
    BY <1>1
  <2>3. \A i \in 1..k : s[i + 1 - 1] = s[i]
    BY <1>1
  <2>4. QED
    BY <2>2, <2>3
<1>3. \A k \in 0..Len(s) : Range(SubSeq(s, 1, k)) = {s[i] : i \in 1..k}
  BY <1>2 DEF Range
<1>4. \A k \in 1..Len(s) : /\ k - 1 \in 0..Len(s) /\ k \in 0..Len(s)
                           /\ 1..k = (1..k - 1) \cup {k}
  BY <1>1
<1>5. Range(s) = {s[i] : i \in 1..Len(s)} /\ Len(s) \in 0..Len(s) /\ 0 \in 0..Len(s)
  BY <1>1 DEF Range
<1>6. 1..0 = {}
  OBVIOUS
<1>7. \A k \in 1..Len(s) : Range(SubSeq(s, 1, k)) = Range(SubSeq(s, 1, k - 1)) \cup {s[k]}
  BY <1>3, <1>4
<1>8. ASSUME NEW k \in 1..Len(s)
      PROVE  DefinedIn(SubSeq(s, 1, k)) =
               DefinedIn(SubSeq(s, 1, k - 1)) \cup (IF s[k].op = "br" THEN {} ELSE {NameOf(s[k])})
  BY <1>7 DEF DefinedIn, NameOf
<1>9. DefinedIn(SubSeq(s, 1, Len(s))) = DefinedIn(s)
  BY <1>3, <1>5 DEF DefinedIn
<1>10. DefinedIn(SubSeq(s, 1, 0)) = {}
  BY <1>3, <1>5, <1>6 DEF DefinedIn
<1>11. QED
  BY <1>8, <1>9, <1>10

LEMMA UndefinedAtEntry ==
  ASSUME module \in Module, NEW f \in Method, NEW x, x \notin DefinedAtEntry(f)
  PROVE  MayBeUndefined(x, f, EntryNode(f), 1)
<1>1. EntryNode(f) \in Node /\ module.code[EntryNode(f)] \in Seq(Instruction)
  BY ModuleType
<1>2. DefinedIn(SubSeq(module.code[EntryNode(f)], 1, 1 - 1)) = {}
  BY <1>1, DefinedByPrefix
<1>3. QED
  BY <1>1, <1>2, ReachedOn DEF MayBeUndefined

\* After the last instruction of block p.
UndefinedAfter(x, f, p) == MayBeUndefined(x, f, p, Len(module.code[p]) + 1)

LEMMA UndefinedOnEdge ==
  ASSUME module \in Module, NEW f \in Method, NEW x, NEW p \in Node, UndefinedAfter(x, f, p),
         NEW n \in Range(SuccsOf(p))
  PROVE  MayBeUndefined(x, f, n, 1)
<1>1. n \in Node /\ EntryNode(f) \in Node
  BY SuccessorIsNode, ModuleType
<1>2. module.code[p] \in Seq(Instruction) /\ module.code[n] \in Seq(Instruction)
  BY <1>1, ModuleType
<1>3. Len(module.code[p]) + 1 - 1 = Len(module.code[p])
  BY <1>2, LenProperties
<1>4. x \notin DefinedAtEntry(f) \cup DefinedIn(module.code[p])
  BY <1>2, <1>3, DefinedByPrefix DEF UndefinedAfter, MayBeUndefined
<1>5. DefinedIn(SubSeq(module.code[n], 1, 1 - 1)) = {}
  BY <1>2, DefinedByPrefix
<1>6. QED
  BY <1>1, <1>4, <1>5, ReachedOn DEF UndefinedAfter, MayBeUndefined

LEMMA UndefinedNext ==
  ASSUME module \in Module, NEW f \in Method, NEW x, NEW n \in Node,
         NEW k \in 1..Len(module.code[n]), MayBeUndefined(x, f, n, k),
         module.code[n][k].op = "br" \/ x # NameOf(module.code[n][k])
  PROVE  MayBeUndefined(x, f, n, k + 1)
<1>1. module.code[n] \in Seq(Instruction) /\ k + 1 - 1 = k
  BY ModuleType
<1>2. x \notin DefinedIn(SubSeq(module.code[n], 1, k))
  BY <1>1, DefinedByPrefix DEF MayBeUndefined
<1>3. QED
  BY <1>1, <1>2 DEF MayBeUndefined

LEMMA SameUndefined ==
  ASSUME module' = module, NEW f, NEW x, NEW n, NEW k
  PROVE  /\ MayBeUndefined(x, f, n, k)' <=> MayBeUndefined(x, f, n, k)
         /\ UndefinedAfter(x, f, n)' <=> UndefinedAfter(x, f, n)
BY DEF MayBeUndefined, UndefinedAfter, DefinedAtEntry, ReachedFrom, SuccsOf, EntryNode

\* What a meet misses both of its arguments miss.
LEMMA MeetMisses ==
  ASSUME NEW v \in Values, NEW w \in Values, NEW x \in Name, meet(v, w)[x] = Absent
  PROVE  v[x] = Absent /\ w[x] = Absent
BY MeetIsGreatest DEF Below, SignBelow

\* An entry value has a sign for every parameter.  A value after a node that has
\* one misses only names that may be undefined there; so does the value in a node,
\* unless it is the old one of a node that waits for a call.  (The quantifiers
\* give names to what the next state evaluates anew.)
AbortInv ==
  /\ \A c \in DOMAIN contexts : \A f \in Method : \A x \in Name :
       contexts[c].method = f /\ contexts[c].entryValue[x] = Absent => x \notin DefinedAtEntry(f)
  /\ \A c \in DOMAIN contexts : \A f \in Method : \A p \in Node : \A x \in Name :
       /\ contexts[c].method = f
       /\ contexts[c].after[p] # topValue
       /\ contexts[c].after[p][x] = Absent
       => UndefinedAfter(x, f, p)
  /\ at = "flow" =>
       /\ pc <= Len(module.code[node]) + 1
       /\ \/ /\ pc = Len(module.code[node]) + 1
             /\ value = this.after[node] /\ node \in Range(this.worklist)
          \/ \A f \in Method : \A n \in Node : \A k \in Nat : \A x \in Name :
               this.method = f /\ node = n /\ pc = k /\ value[x] = Absent
               => MayBeUndefined(x, f, n, k)
  /\ at = "aborted" =>
       \E f \in Method : \E n \in Node : \E k \in Nat : \E x \in Name :
         /\ this.method = f /\ node = n /\ pc = k
         /\ \E j \in DOMAIN insn.operands : insn.operands[j].kind = "name" /\ insn.operands[j].name = x
         /\ MayBeUndefined(x, f, n, k)

LEMMA AbortInit ==
  ASSUME Init
  PROVE  AbortInv
<1>1. /\ DOMAIN contexts = {1} /\ at = "loop"
      /\ contexts[1] = InitContext(module.main, topValue)
  BY DEF Init
<1>2. /\ contexts[1].method = module.main
      /\ \A p \in Node : contexts[1].after[p] = topValue
  BY <1>1 DEF InitContext
<1>3. DefinedAtEntry(module.main) = {}
  BY DEF DefinedAtEntry
<1>4. QED
  BY <1>1, <1>2, <1>3 DEF AbortInv

\* Every new context is for an entry value with a sign for every parameter.
LEMMA AbortEntryStep ==
  ASSUME TypeInv, AbortInv, [Next]_vars, NEW c \in DOMAIN contexts', NEW f \in Method, NEW x \in Name,
         contexts'[c].method = f, contexts'[c].entryValue[x] = Absent
  PROVE  x \notin DefinedAtEntry(f)'
<1>1. SameIdentity
  BY Identity
<1>2. DefinedAtEntry(f)' = DefinedAtEntry(f)
  BY <1>1 DEF SameIdentity, DefinedAtEntry
<1>3. CASE c \in DOMAIN contexts
  BY <1>1, <1>2, <1>3 DEF SameIdentity, AbortInv
<1>4. CASE c \notin DOMAIN contexts
  <2>1. CallNewContext
    BY <1>1, <1>4 DEF SameIdentity
  <2>2. f = insn.callee /\ entryValue[x] = Absent
    BY <1>4, <2>1, NewContext DEF InitContext
  <2>3. x \notin Range(module.params[f])
    BY <2>1, <2>2, InstructionType DEF CallNewContext, AtCall
  <2>4. QED
    BY <1>2, <2>3 DEF DefinedAtEntry
<1>5. QED
  BY <1>3, <1>4

LEMMA AbortAfterStep ==
  ASSUME TypeInv, AbortInv, [Next]_vars, NEW c \in DOMAIN contexts', NEW f \in Method,
         NEW p \in Node, NEW x \in Name,
         contexts'[c].method = f, contexts'[c].after[p] # topValue, contexts'[c].after[p][x] = Absent
  PROVE  UndefinedAfter(x, f, p)
<1>1. SameIdentity
  BY Identity
<1>2. CASE c \in DOMAIN contexts /\ contexts'[c].after[p] = contexts[c].after[p]
  BY <1>1, <1>2 DEF SameIdentity, AbortInv
<1>3. CASE FinishNode /\ c = current /\ p = node
  <2> DEFINE old == this.after[node]
  <2>1. current \in DOMAIN contexts /\ node \in Node
    BY <1>3, ValuesFinished
  <2>2. contexts'[current].after[node] = meet(value, old)
    BY <1>3, <2>1, ValuesFinished DEF OutMet
  <2>3. value \in Values /\ old \in Values
    BY <2>1, ContextValues DEF TypeInv, TypeOK, this
  <2>4. this.method = f
    BY <1>1, <1>3, <2>1 DEF SameIdentity, this
  <2> HIDE DEF old
  <2>5. value[x] = Absent /\ old[x] = Absent
    BY <1>3, <2>2, <2>3, MeetMisses
  <2>6. CASE old # topValue
    BY <1>3, <2>1, <2>4, <2>5, <2>6 DEF AbortInv, old, this
  <2>7. CASE old = topValue
    <3>1. value # topValue
      <4>1. meet(topValue, topValue) = topValue
        BY DEF meet, topValue
      <4>2. QED
        BY <1>3, <2>2, <2>7, <4>1
    <3>2. /\ at = "flow" /\ pc > Len(module.code[node]) /\ pc \in Nat
          /\ Len(module.code[node]) \in Nat
      BY <1>3, <2>1, ModuleType DEF FinishNode, TypeInv, TypeOK
    <3>3. pc <= Len(module.code[node]) + 1
      BY <3>2 DEF AbortInv
    <3>4. pc = Len(module.code[node]) + 1
      BY <3>2, <3>3
    <3>5. MayBeUndefined(x, f, node, pc)
      BY <1>3, <2>1, <2>4, <2>5, <2>7, <3>1, <3>2 DEF AbortInv, old
    <3>6. QED
      BY <1>3, <3>4, <3>5 DEF UndefinedAfter
  <2>8. QED
    BY <2>6, <2>7
<1>4. CASE c \in DOMAIN contexts /\ ~(FinishNode /\ c = current /\ p = node)
  <2>1. CASE FinishNode
    BY <1>2, <1>4, <2>1, ValuesFinished DEF this
  <2>2. CASE ~FinishNode
    BY <1>2, <1>4, <2>2, Actions, ValuesKept, ValuesEntered, ValuesExit DEF SameValues
  <2>3. QED
    BY <2>1, <2>2
<1>5. CASE c \notin DOMAIN contexts
  <2>1. CallNewContext
    BY <1>1, <1>5 DEF SameIdentity
  <2>2. contexts'[c].after[p] = topValue
    BY <1>5, <2>1, NewContext DEF InitContext
  <2>3. QED
    BY <2>2
<1>6. QED
  BY <1>3, <1>4, <1>5 DEF SameIdentity

LEMMA AbortEnterStep ==
  ASSUME TypeInv, EdgeInv, EntryKept, PlaceInv, AbortInv, EnterNode,
         NEW f \in Method, NEW x \in Name, this.method = f, value'[x] = Absent
  PROVE  MayBeUndefined(x, f, node, 1)
<1>1. at = "meet" /\ todo = {} /\ current \in DOMAIN contexts /\ node \in Node /\ module \in Module
  BY DEF EnterNode, TypeInv, TypeOK, Control
<1>2. /\ node \in Range(module.blocks[f])
      /\ node = EntryNode(f) \/ \E p \in PredsOf(node) : this.after[p] # topValue
  BY <1>1 DEF PlaceInv, Started, StartedIn, this, EntryNode, PredsOf
<1>3. CASE PredsOf(node) = {}
  <2>1. node = EntryNode(f) /\ value' = this.before[node]
    BY <1>2, <1>3 DEF EnterNode
  <2>2. this.entryValue[x] = Absent
    BY <1>1, <2>1 DEF EntryKept, this
  <2>3. x \notin DefinedAtEntry(f)
    BY <1>1, <2>2 DEF AbortInv, this
  <2>4. QED
    BY <1>1, <2>1, <2>3, UndefinedAtEntry
<1>4. CASE PredsOf(node) # {}
  <2>1. node # EntryNode(f) /\ value' = value
    BY <1>1, <1>4, EntryHasNoPredecessor DEF EnterNode
  <2>2. PICK p \in PredsOf(node) : this.after[p] # topValue
    BY <1>2, <2>1
  <2>3. p \in Node /\ node \in Range(SuccsOf(p))
    BY DEF PredsOf, SuccsOf
  <2>4. Below(value, this.after[p])
    BY <1>1 DEF EdgeInv
  <2>5. this.after[p][x] = Absent
    BY <2>1, <2>4 DEF Below, SignBelow
  <2>6. UndefinedAfter(x, f, p)
    BY <1>1, <2>2, <2>3, <2>5 DEF AbortInv, this
  <2>7. QED
    BY <1>1, <2>3, <2>6, UndefinedOnEdge
<1>5. QED
  BY <1>3, <1>4

LEMMA AbortFlowStep ==
  ASSUME TypeInv, AbortInv, FlowInstruction \/ CallKnownContext,
         NEW f \in Method, NEW x \in Name, this.method = f, value'[x] = Absent
  PROVE  MayBeUndefined(x, f, node, pc + 1)
<1>1. /\ AtInstruction /\ at = "flow" /\ node \in Node /\ insn \in Instruction
      /\ pc \in DOMAIN module.code[node] /\ module \in Module
      /\ value \in Values /\ insn.def \in Name
  BY InstructionType, InstructionOperands DEF FlowInstruction, CallKnownContext, AtCall,
                                              TypeInv, TypeOK
<1>2. pc \in 1..Len(module.code[node]) /\ pc \in Nat /\ pc # Len(module.code[node]) + 1
  <2>1. DOMAIN module.code[node] = 1..Len(module.code[node]) /\ Len(module.code[node]) \in Nat
    BY <1>1, ModuleType, LenProperties
  <2>2. QED
    BY <1>1, <2>1
<1>3. \A y \in Name : value[y] = Absent => MayBeUndefined(y, f, node, pc)
  BY <1>1, <1>2 DEF AbortInv
<1>4. value[x] = Absent /\ (insn.op = "br" \/ x # NameOf(insn))
  <2>1. CASE FlowInstruction
    <3>1. value' = normalFlow(insn, value) /\ signOf(insn, value) # Absent
      BY <1>1, <2>1, SignOfType, AbsentIsNoSign DEF FlowInstruction
    <3>2. QED
      BY <1>1, <3>1, NameAssumption DEF normalFlow, NameOf, Values
  <2>2. CASE CallKnownContext
    <3> DEFINE exit == contexts[getContext(insn.callee, entryValue)].exitValue
               w    == callExitFlowFunction(insn, exit)
    <3>1. value' = meet(value, w) /\ insn.op = "call"
      BY <2>2 DEF CallKnownContext, AtCall
    <3>2. exit \in Values
      BY <2>2, GetContext, ContextValues DEF CallKnownContext, TypeInv
    <3>3. w \in Values
      BY <1>1, <3>2, CallExitType
    <3>4. w[insn.def] # Absent
      <4>1. TOP # Absent
        BY DEF TOP, Absent
      <4>2. QED
        BY <1>1, <4>1 DEF callExitFlowFunction, topValue
    <3> HIDE DEF exit, w
    <3>5. value[x] = Absent /\ w[x] = Absent
      BY <1>1, <3>1, <3>3, MeetMisses
    <3>6. QED
      BY <3>1, <3>4, <3>5 DEF NameOf
  <2>3. QED
    BY <2>1, <2>2
<1>5. QED
  BY <1>1, <1>2, <1>3, <1>4, UndefinedNext DEF insn

\* The node of a call that needs a new context waits.
LEMMA CallWaits ==
  ASSUME TypeInv, CallNewContext
  PROVE  pc' > Len(module'.code[node']) /\ node' \in Range(this'.worklist)
<1>1. /\ pc' = Len(module.code[node]) + 1 /\ UNCHANGED <<module, current, node>>
      /\ current \in DOMAIN contexts /\ node \in Node
  BY InstructionType DEF CallNewContext, AtCall
<1>2. contexts'[current].worklist = Append(contexts[current].worklist, node)
  <2>1. contexts'[current] = [this EXCEPT !.worklist = Append(@, node)] /\ this \in Context
    BY <1>1, NewContext, ContextsDomain DEF TypeInv, this
  <2>2. QED
    BY <2>1 DEF Context, this
<1>3. node \in Range(contexts'[current].worklist)
  <2>1. contexts[current].worklist \in Seq(Node \cup {NULL}) /\ node \in Node \cup {NULL}
    BY <1>1, ContextsDomain, ContextFields DEF TypeInv
  <2>2. QED
    BY <1>2, <2>1, RangeAppend
<1>4. Len(module.code[node]) \in Nat
  BY <1>1, ModuleType DEF TypeInv, TypeOK
<1>5. QED
  BY <1>1, <1>3, <1>4 DEF this

\* The value in a node.
LEMMA AbortLocalStep ==
  ASSUME TypeInv, EdgeInv, EntryKept, PlaceInv, AbortInv, [Next]_vars, at' = "flow"
  PROVE  /\ pc' <= Len(module'.code[node']) + 1
         /\ \/ /\ pc' = Len(module'.code[node']) + 1
               /\ value' = this'.after[node'] /\ node' \in Range(this'.worklist)
            \/ \A f \in Method : \A n \in Node : \A k \in Nat : \A x \in Name :
                 this'.method = f /\ node' = n /\ pc' = k /\ value'[x] = Absent
                 => MayBeUndefined(x, f, n, k)
<1>1. CASE EnterNode
  <2>1. /\ current \in DOMAIN contexts /\ node \in Node /\ UNCHANGED <<module, current, node>>
        /\ pc' = 1
    BY <1>1, EnteredNode DEF EnterNode
  <2>2. this'.method = this.method
    BY <2>1, Identity DEF SameIdentity, this
  <2>3. Len(module.code[node]) \in Nat
    BY <2>1, ModuleType DEF TypeInv, TypeOK
  <2>4. QED
    BY <1>1, <2>1, <2>2, <2>3, AbortEnterStep
<1>2. CASE FlowInstruction \/ CallKnownContext
  <2>1. /\ AtInstruction /\ UNCHANGED <<module, contexts, current, node>> /\ pc' = pc + 1
    BY <1>2 DEF FlowInstruction, CallKnownContext, AtCall
  <2>2. node \in Node /\ pc \in Nat /\ pc <= Len(module.code[node])
    BY <2>1, InstructionType DEF AtInstruction, TypeInv, TypeOK
  <2>3. this' = this
    BY <2>1 DEF this
  <2>4. Len(module.code[node]) \in Nat
    BY <2>2, ModuleType DEF TypeInv, TypeOK
  <2>5. QED
    BY <1>2, <2>1, <2>2, <2>3, <2>4, AbortFlowStep
<1>3. CASE CallNewContext
  <2>1. /\ pc' = Len(module.code[node]) + 1 /\ value' = this.after[node]
        /\ UNCHANGED <<module, current, node>>
        /\ current \in DOMAIN contexts /\ node \in Node
    BY <1>3, InstructionType DEF CallNewContext, AtCall
  <2>2. contexts'[current].after = contexts[current].after
    BY <1>3, <2>1, ValuesKept DEF SameValues
  <2>3. node' \in Range(this'.worklist)
    BY <1>3, CallWaits
  <2>4. Len(module.code[node]) \in Nat
    BY <2>1, ModuleType DEF TypeInv, TypeOK
  <2>5. QED
    BY <2>1, <2>2, <2>3, <2>4 DEF this
<1>4. CASE UNCHANGED vars
  <2>1. /\ at = "flow" /\ this' = this
        /\ UNCHANGED <<module, node, pc, value>>
    BY <1>4 DEF vars, locals, this
  <2>2. QED
    BY <2>1 DEF AbortInv
<1>5. CASE ~(EnterNode \/ FlowInstruction \/ CallKnownContext \/ CallNewContext \/ UNCHANGED vars)
  BY <1>5 DEF Next, Stutter, PopContext, TakeNode, TakeExitMarker, MeetPredecessor,
              MissingOperand, FinishNode, MeetTail, SetExit, NotifyCaller, Idle, locals
<1>6. QED
  BY <1>1, <1>2, <1>3, <1>4, <1>5

LEMMA AbortedStep ==
  ASSUME TypeInv, ExitMarkerAlone, AbortInv, [Next]_vars, at' = "aborted"
  PROVE  \E f \in Method : \E n \in Node : \E k \in Nat : \E x \in Name :
           /\ this'.method = f /\ node' = n /\ pc' = k
           /\ \E j \in DOMAIN insn'.operands :
                insn'.operands[j].kind = "name" /\ insn'.operands[j].name = x
           /\ MayBeUndefined(x, f, n, k)
<1>1. CASE MissingOperand
  <2>1. /\ at = "flow" /\ node \in Node /\ pc \in Nat /\ insn \in Instruction
        /\ this \in Context /\ this.method \in Method
        /\ pc \in DOMAIN module.code[node] /\ pc # Len(module.code[node]) + 1
    <3>1. AtInstruction
      BY <1>1 DEF MissingOperand
    <3>2. /\ at = "flow" /\ node \in Node /\ insn \in Instruction /\ this \in Context
          /\ pc \in DOMAIN module.code[node] /\ pc \in Nat
      BY <3>1, InstructionType DEF TypeInv, TypeOK
    <3>3. Len(module.code[node]) \in Nat
      BY <3>2, ModuleType DEF TypeInv, TypeOK
    <3>4. pc # Len(module.code[node]) + 1
      BY <3>1, <3>2, <3>3 DEF AtInstruction
    <3>5. this.method \in Method
      BY <3>2, ContextFields
    <3>6. QED
      BY <3>2, <3>4, <3>5
  <2>2. PICK j \in 1..Len(insn.operands) : ~IsDefined(value, insn.operands[j])
    BY <1>1 DEF MissingOperand, OperandsDefined
  <2>3. /\ insn.operands[j].kind = "name" /\ value[insn.operands[j].name] = Absent
        /\ insn.operands[j] \in Operand /\ j \in DOMAIN insn.operands
    BY <2>1, <2>2, InstructionOperands, LenProperties DEF IsDefined
  <2>4. insn.operands[j].name \in Name
    BY <2>3 DEF Operand
  <2>5. MayBeUndefined(insn.operands[j].name, this.method, node, pc)
    BY <2>1, <2>3, <2>4 DEF AbortInv
  <2>6. this' = this /\ insn' = insn /\ UNCHANGED <<node, pc>>
    BY <1>1 DEF MissingOperand, this, insn
  <2>7. QED
    BY <2>1, <2>3, <2>4, <2>5, <2>6
<1>2. CASE UNCHANGED vars
  <2>1. at = "aborted" /\ this' = this /\ insn' = insn /\ UNCHANGED <<node, pc>>
    BY <1>2 DEF vars, locals, this, insn
  <2>2. QED
    BY <2>1 DEF AbortInv
<1>3. ~TakeExitMarker
  <2>1. SUFFICES ASSUME TakeExitMarker
                 PROVE  FALSE
    OBVIOUS
  <2> DEFINE w == contexts[top].worklist
  <2>2. top \in DOMAIN contexts /\ w \in Seq(Node \cup {NULL}) /\ w # <<>> /\ Last(w) = NULL
    BY <2>1, TakenNode DEF TakeExitMarker
  <2>3. Len(w) \in DOMAIN w /\ w[Len(w)] = NULL
    <3> HIDE DEF w
    <3>1. Len(w) \in Nat \ {0} /\ Last(w) = w[Len(w)]
      BY <2>2, FrontProperty
    <3>2. QED
      BY <2>2, <3>1, LenProperties
  <2>4. Len(w) = 1
    BY <2>2, <2>3 DEF ExitMarkerAlone
  <2>5. QED
    BY <2>1, <2>4 DEF TakeExitMarker
<1>4. CASE \/ PopContext \/ TakeNode \/ EnterNode \/ MeetPredecessor \/ MeetTail
           \/ FlowInstruction \/ CallKnownContext \/ CallNewContext
  <2>1. at' \in {"loop", "meet", "flow", "exit"}
    BY <1>4 DEF PopContext, TakeNode, EnterNode, MeetPredecessor, MeetTail, FlowInstruction,
                CallKnownContext, CallNewContext, AtCall, AtInstruction, locals
  <2>2. QED
    BY <2>1
<1>5. CASE FinishNode \/ SetExit \/ NotifyCaller
  <2>1. at' \in {"loop", "notify"}
    BY <1>5 DEF FinishNode, SetExit, NotifyCaller, Idle
  <2>2. QED
    BY <2>1
<1>6. QED
  BY <1>1, <1>2, <1>3, <1>4, <1>5 DEF Next, Stutter

LEMMA AbortStep ==
  ASSUME TypeInv, ExitMarkerAlone, EdgeInv, EntryKept, PlaceInv, AbortInv, [Next]_vars
  PROVE  AbortInv'
<1>1. module' = module
  BY Identity DEF SameIdentity
<1>2. \A f, x, n, k : MayBeUndefined(x, f, n, k)' <=> MayBeUndefined(x, f, n, k)
  BY <1>1, SameUndefined
<1>3. \A f, x, p : UndefinedAfter(x, f, p)' <=> UndefinedAfter(x, f, p)
  BY <1>1, SameUndefined
<1>4. QED
  BY <1>2, <1>3, AbortEntryStep, AbortAfterStep, AbortLocalStep, AbortedStep DEF AbortInv

-----------------------------------------------------------------------------
(* The exits.  The marker is queued after a tail and only into an empty    *)
(* worklist.  Where branches lead to returns only, a worklist holds one    *)
(* node or nothing but tails, so whichever is taken last is a tail; and    *)
(* the value after a tail changes only when the tail is taken, after which *)
(* its context is not finished before its exit value is computed again.    *)

Ends(c) == TailsOf(contexts[c].method)

\* A node that waits for a call ends with the value it had.
Parked == /\ at = "flow" /\ pc > Len(module.code[node])
         /\ this.worklist = <<node>> /\ value = this.after[node]

ScheduleInv ==
  BranchesReturn =>
    /\ \A c \in DOMAIN contexts :
         Len(contexts[c].worklist) <= 1 \/ Range(contexts[c].worklist) \subseteq Ends(c)
    /\ at \in {"meet", "flow"} =>
         \/ this.worklist = <<>>
         \/ Range(this.worklist) \cup {node} \subseteq Ends(current)
         \/ Parked

\* The exit value covers the returns, or the marker is still to be queued.
Covered(c) == \A t \in Ends(c) : Below(contexts[c].exitValue, contexts[c].after[t])

Unfinished(c) ==
  \/ contexts[c].worklist # <<>> /\ Range(contexts[c].worklist) \subseteq Ends(c) \cup {NULL}
  \/ at \in {"meet", "flow"} /\ c = current /\ node \in Ends(c)
  \/ at = "exit" /\ c = current

CoverInv ==
  BranchesReturn /\ at # "aborted" => \A c \in DOMAIN contexts : Covered(c) \/ Unfinished(c)

LEMMA ReturnLeadsNowhere ==
  ASSUME module \in Module, NEW f \in Method, NEW t \in TailsOf(f)
  PROVE  t \in Node /\ t \in Range(module.blocks[f]) /\ SuccsOf(t) = <<>>
<1>1. module.blocks[f] \in Seq(Node) /\ WellFormed(module)
  BY DEF Module
<1>2. t \in Range(module.blocks[f]) /\ t \in Node
  BY <1>1, RangeOfSeq DEF TailsOf
<1>3. QED
  BY <1>1, <1>2 DEF WellFormed, TailsOf, SuccsOf

LEMMA SameEnds ==
  ASSUME TypeInv, [Next]_vars, NEW c \in DOMAIN contexts
  PROVE  /\ c \in DOMAIN contexts'
         /\ Ends(c)' = Ends(c)
         /\ BranchesReturn' <=> BranchesReturn
         /\ Ends(c) \subseteq Node
         /\ \A t \in Ends(c) : SuccsOf(t) = <<>>
<1>1. module' = module /\ c \in DOMAIN contexts' /\ contexts'[c].method = contexts[c].method
  BY Identity DEF SameIdentity
<1>2. contexts[c].method \in Method /\ module \in Module
  BY ContextValues DEF TypeInv, TypeOK
<1>3. QED
  BY <1>1, <1>2, ReturnLeadsNowhere DEF Ends, TailsOf, BranchesReturn, SuccsOf

\* What is left of a worklist of returns after a node.
LEMMA ScheduleFinish ==
  ASSUME TypeInv, MarkerInv, PlaceInv, ScheduleInv, BranchesReturn, FinishNode, [Next]_vars,
         current \in DOMAIN contexts, node \in Node
  PROVE  /\ \/ Len(contexts'[current].worklist) <= 1
            \/ Range(contexts'[current].worklist) \subseteq Ends(current)
         /\ this.worklist # <<>> => contexts'[current].worklist = this.worklist
         /\ node \in Ends(current) =>
              /\ contexts'[current].worklist # <<>>
              /\ Range(contexts'[current].worklist) \subseteq Ends(current) \cup {NULL}
<1> DEFINE w       == contexts'[current].worklist
           out     == OutMet(this.after[node])
           changed == out # this.after[node]
           succs   == IF changed THEN SuccsOf(node) ELSE <<>>
           next    == this.worklist \o succs
<1>1. at = "flow"
  BY DEF FinishNode
<1>2. w = IF next = <<>> /\ node \in Ends(current) THEN <<NULL>> ELSE next
  BY ValuesFinished DEF WorklistAfter, Ends, this
<1>3. this.worklist \in Seq(Node \cup {NULL}) /\ SuccsOf(node) \in Seq(Node)
  BY ContextsDomain, ContextFields, ModuleType DEF this, TypeInv, TypeOK
<1>4. succs \in Seq(Node)
  BY <1>3
<1>5. node \in Ends(current) => SuccsOf(node) = <<>>
  BY SameEnds
<1>6. CASE this.worklist = <<>>
  <2>1. next = succs
    BY <1>4, <1>6
  <2>2. Len(SuccsOf(node)) <= 1 \/ Range(SuccsOf(node)) \subseteq Ends(current)
    <3>1. node \in Range(module.blocks[this.method]) /\ this.method \in Method
      BY <1>1, ContextValues DEF PlaceInv, Started, StartedIn, this
    <3>2. Len(SuccsOf(node)) \in Nat
      BY <1>3
    <3>3. QED
      BY <3>1, <3>2 DEF BranchesReturn, Ends, this
  <2>3. Len(succs) <= 1 \/ Range(succs) \subseteq Ends(current)
    BY <2>2
  <2>4. node \in Ends(current) => w = <<NULL>>
    BY <1>2, <1>5, <2>1
  <2>41. Len(<<NULL>>) = 1 /\ <<NULL>> # <<>>
    OBVIOUS
  <2>5. node \notin Ends(current) => w = succs
    BY <1>2, <2>1
  <2> HIDE DEF w, next, succs
  <2>6. Len(w) <= 1 \/ Range(w) \subseteq Ends(current)
    <3>1. CASE node \in Ends(current)
      <4>1. Len(w) = 1
        BY <2>4, <2>41, <3>1
      <4>2. QED
        BY <4>1
    <3>2. CASE node \notin Ends(current)
      BY <2>3, <2>5, <3>2
    <3>3. QED
      BY <3>1, <3>2
  <2>7. QED
    BY <1>6, <2>4, <2>41, <2>6, SingleRange DEF w
<1>7. CASE this.worklist # <<>>
  <2>1. \/ Range(this.worklist) \cup {node} \subseteq Ends(current)
        \/ this.worklist = <<node>> /\ value = this.after[node]
    BY <1>1, <1>7 DEF ScheduleInv, Parked
  <2>2. succs = <<>>
    <3>1. CASE node \in Ends(current)
      BY <1>5, <3>1
    <3>2. CASE value = this.after[node]
      <4>1. this.after[node] \in Values
        BY ContextValues DEF this
      <4>2. out = this.after[node]
        BY <3>2, <4>1, MeetIsGreatest, MeetType, BelowOrder DEF OutMet
      <4>3. QED
        BY <4>2
    <3>3. QED
      BY <2>1, <3>1, <3>2
  <2>3. next = this.worklist
    BY <1>3, <2>2, ConcatEmptySeq
  <2>4. w = this.worklist
    BY <1>2, <1>7, <2>3
  <2>5. Len(<<node>>) = 1 /\ Range(<<node>>) = {node}
    BY SingleRange
  <2> HIDE DEF w, next, succs
  <2>6. CASE Range(this.worklist) \cup {node} \subseteq Ends(current)
    BY <1>7, <2>4, <2>6 DEF w
  <2>7. CASE this.worklist = <<node>>
    <3>1. Len(w) = 1 /\ Range(w) = {node}
      BY <2>4, <2>5, <2>7
    <3>2. QED
      BY <1>7, <2>4, <3>1 DEF w
  <2>8. QED
    BY <2>1, <2>6, <2>7
<1>8. QED
  BY <1>6, <1>7

LEMMA ScheduleInit ==
  ASSUME Init
  PROVE  ScheduleInv /\ CoverInv
<1>1. DOMAIN contexts = {1} /\ at = "loop" /\ contexts[1] = InitContext(module.main, topValue)
  BY DEF Init
<1>2. Len(contexts[1].worklist) = 1
  BY <1>1 DEF InitContext
<1>3. \A t \in Node : contexts[1].exitValue = topValue /\ contexts[1].after[t] = topValue
  BY <1>1 DEF InitContext
<1>4. Ends(1) \subseteq Node
  BY <1>1, TypeInit, ContextValues DEF Ends
<1>5. Covered(1)
  BY <1>3, <1>4, TopValueType, BelowOrder DEF Covered
<1>6. Len(contexts[1].worklist) <= 1
  BY <1>2
<1>7. QED
  BY <1>1, <1>5, <1>6 DEF ScheduleInv, CoverInv

\* No worklist holds a marker when a caller is notified: it is empty then.
LEMMA NotifiedWorklist ==
  ASSUME TypeInv, MarkerInv, NotifyCaller, NEW c \in DOMAIN contexts, getLastWorklist(c) = NULL
  PROVE  contexts[c].worklist = <<>>
<1>1. SUFFICES ASSUME contexts[c].worklist # <<>>
               PROVE  FALSE
  OBVIOUS
<1>2. contexts[c].worklist \in Seq(Node \cup {NULL})
  BY ContextsDomain, ContextFields DEF TypeInv
<1>3. NULL \in Range(contexts[c].worklist)
  BY <1>1, <1>2, RangeFront DEF getLastWorklist
<1>4. QED
  BY <1>3, NoMarker DEF NotifyCaller, Marked

\* A call that needs a new context leaves either nothing or returns waiting.
LEMMA ScheduleNewContext ==
  ASSUME TypeInv, ScheduleInv, BranchesReturn, CallNewContext
  PROVE  \/ this.worklist = <<>> /\ Append(this.worklist, node) = <<node>>
         \/ Range(Append(this.worklist, node)) \subseteq Ends(current)
<1>1. at = "flow" /\ current \in DOMAIN contexts /\ node \in Node
  BY InstructionType DEF CallNewContext, AtCall
<1>2. this.worklist \in Seq(Node \cup {NULL})
  BY <1>1, ContextsDomain, ContextFields DEF TypeInv, this
<1>3. Range(Append(this.worklist, node)) = Range(this.worklist) \cup {node}
  BY <1>1, <1>2, RangeAppend
<1>4. ~(pc > Len(module.code[node]))
  <2>1. Len(module.code[node]) \in Nat /\ pc \in Nat
    BY <1>1, ModuleType DEF TypeInv, TypeOK
  <2>2. QED
    BY <2>1 DEF CallNewContext, AtCall, AtInstruction
<1>5. this.worklist = <<>> \/ Range(this.worklist) \cup {node} \subseteq Ends(current)
  BY <1>1, <1>4 DEF ScheduleInv, Parked
<1>6. Append(<<>>, node) = <<node>>
  OBVIOUS
<1>7. QED
  BY <1>3, <1>5, <1>6

LEMMA ScheduleWorklist ==
  ASSUME TypeInv, MarkerInv, PlaceInv, ScheduleInv, BranchesReturn, [Next]_vars,
         NEW c \in DOMAIN contexts'
  PROVE  Len(contexts'[c].worklist) <= 1 \/ Range(contexts'[c].worklist) \subseteq Ends(c)'
<1> DEFINE w == contexts[c].worklist
<1>1. CASE c \notin DOMAIN contexts
  <2>1. CallNewContext
    BY <1>1, Identity DEF SameIdentity
  <2>2. contexts'[c] = InitContext(insn.callee, entryValue)
    BY <1>1, <2>1, NewContext
  <2>3. Len(contexts'[c].worklist) = 1
    BY <2>2 DEF InitContext
  <2>4. QED
    BY <2>3
<1>2. CASE c \in DOMAIN contexts
  <2>1. w \in Seq(Node \cup {NULL}) /\ (Len(w) <= 1 \/ Range(w) \subseteq Ends(c))
    BY <1>2, ContextsDomain, ContextFields DEF TypeInv, ScheduleInv
  <2>2. Ends(c)' = Ends(c)
    BY <1>2, SameEnds
  <2>3. CASE w # <<>> /\ contexts'[c].worklist = Front(w)
    <3>1. Len(w) \in Nat /\ Len(Front(w)) = Len(w) - 1 /\ Range(Front(w)) \subseteq Range(w)
      BY <2>1, <2>3, FrontProperty, RangeFront
    <3>2. QED
      BY <2>1, <2>2, <2>3, <3>1
  <2>4. CASE CallNewContext /\ c = current /\ contexts'[c].worklist = Append(w, node)
    <3>1. Len(<<node>>) = 1
      OBVIOUS
    <3>2. QED
      BY <2>2, <2>4, <3>1, ScheduleNewContext DEF this
  <2>5. CASE FinishNode /\ c = current /\ node \in Node
    BY <1>2, <2>2, <2>5, ScheduleFinish
  <2>6. CASE /\ NotifyCaller /\ getLastWorklist(c) = NULL
             /\ contexts'[c].worklist = Append(w, Head(sites).node)
    <3>1. w = <<>>
      BY <1>2, <2>6, NotifiedWorklist
    <3>2. Len(Append(w, Head(sites).node)) = 1
      BY <3>1
    <3>3. QED
      BY <2>6, <3>2
  <2>7. QED
    BY <1>2, <2>1, <2>2, <2>3, <2>4, <2>5, <2>6, WorklistStep
<1>3. QED
  BY <1>1, <1>2

LEMMA ScheduleNode ==
  ASSUME TypeInv, MarkerInv, ScheduleInv, BranchesReturn, [Next]_vars, at' \in {"meet", "flow"}
  PROVE  \/ this'.worklist = <<>>
         \/ Range(this'.worklist) \cup {node'} \subseteq Ends(current)'
         \/ Parked'
<1>1. CASE TakeNode
  <2> DEFINE w == contexts[top].worklist
  <2>1. /\ top \in DOMAIN contexts /\ w \in Seq(Node \cup {NULL}) /\ w # <<>>
        /\ getLastWorklist(top) = Last(w)
    BY <1>1, TakenNode
  <2>2. this'.worklist = Front(w) /\ node' = Last(w) /\ current' = top
    BY <1>1, <2>1, TakenNode, ContextsDomain DEF TakeNode, this, TypeInv, Context
  <2>3. Len(w) \in Nat \ {0} /\ Len(Front(w)) = Len(w) - 1 /\ Front(w) \in Seq(Node \cup {NULL})
    BY <2>1, FrontProperty
  <2>4. Range(w) = Range(Front(w)) \cup {Last(w)}
    BY <2>1, RangeFront
  <2>5. Ends(current)' = Ends(top)
    BY <2>1, <2>2, SameEnds DEF Ends
  <2>6. CASE Len(w) <= 1
    <3>1. Len(Front(w)) = 0
      <4> HIDE DEF w
      <4>1. QED
        BY <2>3, <2>6
    <3>2. Front(w) = <<>>
      BY <2>3, <3>1, EmptySeq
    <3>3. QED
      BY <2>2, <3>2
  <2>7. CASE Range(w) \subseteq Ends(top)
    BY <2>2, <2>4, <2>5, <2>7
  <2>8. QED
    BY <2>1, <2>6, <2>7 DEF ScheduleInv
<1>2. CASE CallNewContext
  <2>1. /\ current \in DOMAIN contexts /\ node \in Node /\ this \in Context
        /\ module.code[node] \in Seq(Instruction) /\ Len(module.code[node]) \in Nat
    BY <1>2, InstructionType, ModuleType DEF CallNewContext, AtCall, TypeInv, TypeOK
  <2>2. contexts'[current] = [this EXCEPT !.worklist = Append(@, node)]
    BY <1>2, NewContext
  <2>3. /\ at' = "flow" /\ current' = current /\ node' = node /\ module' = module
        /\ value' = this.after[node] /\ pc' = Len(module.code[node]) + 1
    BY <1>2 DEF CallNewContext, AtCall, AtInstruction
  <2>4. this'.worklist = Append(this.worklist, node) /\ this'.after[node] = this.after[node]
    BY <2>1, <2>2, <2>3 DEF this, Context
  <2>5. Ends(current)' = Ends(current)
    BY <2>1, <2>3, SameEnds DEF Ends
  <2>6. CASE Append(this.worklist, node) = <<node>>
    <3>1. pc' > Len(module'.code[node'])
      BY <2>1, <2>3
    <3>2. QED
      BY <2>3, <2>4, <2>6, <3>1 DEF Parked, this
  <2>7. CASE Range(Append(this.worklist, node)) \subseteq Ends(current)
    <3>1. this.worklist \in Seq(Node \cup {NULL}) /\ node \in Node \cup {NULL}
      BY <2>1, ContextFields
    <3>2. node \in Range(Append(this.worklist, node))
      BY <3>1, RangeAppend
    <3>3. QED
      BY <2>3, <2>4, <2>5, <2>7, <3>2
  <2>8. QED
    BY <1>2, <2>6, <2>7, ScheduleNewContext
<1>3. CASE EnterNode \/ Reads \/ UNCHANGED vars
  <2>1. /\ at \in {"meet", "flow"} /\ UNCHANGED <<current, node, module>>
        /\ at = "flow" => contexts' = contexts /\ at' = "flow"
    BY <1>3, ReadsOnly DEF EnterNode, vars, locals
  <2>2. current \in DOMAIN contexts
    BY <2>1 DEF TypeInv, Control
  <2>3. this'.worklist = this.worklist /\ Ends(current)' = Ends(current)
    BY <1>3, <2>1, <2>2, ValuesEntered, ReadsOnly, SameEnds DEF this, vars, Ends
  <2>4. Parked => Parked'
    <3> SUFFICES ASSUME Parked
                 PROVE  Parked'
      OBVIOUS
    <3>1. node \in Node /\ Len(module.code[node]) \in Nat /\ pc \in Nat
      BY <2>1, ModuleType DEF TypeInv, TypeOK, Control
    <3>2. at = "flow" /\ ~AtInstruction
      BY <3>1 DEF Parked, AtInstruction
    <3>3. UNCHANGED <<value, pc>>
      BY <1>3, <3>2 DEF EnterNode, Reads, MeetPredecessor, MeetTail, FlowInstruction,
                        MissingOperand, CallKnownContext, AtCall, vars, locals
    <3>4. QED
      BY <2>1, <3>2, <3>3 DEF Parked, this
  <2>5. QED
    BY <2>1, <2>3, <2>4 DEF ScheduleInv
<1>4. CASE PopContext \/ TakeExitMarker \/ FinishNode \/ SetExit \/ NotifyCaller
  BY <1>4 DEF PopContext, TakeExitMarker, FinishNode, SetExit, NotifyCaller, Idle, locals
<1>5. QED
  BY <1>1, <1>2, <1>3, <1>4, Actions

LEMMA ScheduleStep ==
  ASSUME TypeInv, MarkerInv, PlaceInv, ScheduleInv, [Next]_vars
  PROVE  ScheduleInv'
<1> SUFFICES ASSUME BranchesReturn'
             PROVE  /\ \A c \in DOMAIN contexts' : \/ Len(contexts'[c].worklist) <= 1
                                                   \/ Range(contexts'[c].worklist) \subseteq Ends(c)'
                    /\ at' \in {"meet", "flow"} =>
                         \/ this'.worklist = <<>>
                         \/ Range(this'.worklist) \cup {node'} \subseteq Ends(current)'
                         \/ Parked'
  BY DEF ScheduleInv
<1>1. BranchesReturn
  BY Identity DEF SameIdentity, BranchesReturn, TailsOf, SuccsOf
<1>2. QED
  BY <1>1, ScheduleWorklist, ScheduleNode

\* A context no step of which is on the way keeps its values.
LEMMA CoveredKept ==
  ASSUME TypeInv, [Next]_vars, NEW c \in DOMAIN contexts, Covered(c),
         contexts'[c].exitValue = contexts[c].exitValue,
         \A t \in Ends(c) : contexts'[c].after[t] = contexts[c].after[t]
  PROVE  Covered(c)'
BY SameEnds DEF Covered

\* The returns have been met: the exit value covers them.
LEMMA ExitCovered ==
  ASSUME TypeInv, ExitInv, [Next]_vars, SetExit, NEW c \in DOMAIN contexts, c = current
  PROVE  Covered(c)'
<1>1. contexts'[c].exitValue = value /\ contexts'[c].after = contexts[c].after
  BY ValuesExit
<1>2. \A t \in Ends(c) : Below(value, contexts[c].after[t])
  BY DEF SetExit, ExitInv, MetTails, BelowTails, Ends, this
<1>3. Ends(c)' = Ends(c)
  BY SameEnds
<1>4. QED
  BY <1>1, <1>2, <1>3 DEF Covered

LEMMA CoverValues ==
  ASSUME TypeInv, MarkerInv, PlaceInv, ExitInv, ScheduleInv, BranchesReturn, [Next]_vars,
         NEW c \in DOMAIN contexts, Covered(c)
  PROVE  Covered(c)' \/ Unfinished(c)'
<1>1. CASE SetExit
  BY <1>1, ExitCovered, CoveredKept, ValuesExit
<1>2. CASE FinishNode
  <2>1. CASE c = current /\ node \in Ends(c)
    <3>1. /\ contexts'[c].worklist # <<>>
          /\ Range(contexts'[c].worklist) \subseteq Ends(c) \cup {NULL}
      BY <1>2, <2>1, SameEnds, ScheduleFinish
    <3>2. Ends(c)' = Ends(c)
      BY SameEnds
    <3>3. QED
      BY <3>1, <3>2 DEF Unfinished
  <2>2. CASE ~(c = current /\ node \in Ends(c))
    <3>1. \A t \in Ends(c) : contexts'[c].after[t] = contexts[c].after[t]
      BY <1>2, <2>2, ValuesFinished, SameEnds DEF this
    <3>2. QED
      BY <1>2, <3>1, CoveredKept, ValuesFinished
  <2>3. QED
    BY <2>1, <2>2
<1>3. CASE ~SetExit /\ ~FinishNode
  BY <1>3, Actions, ValuesKept, ValuesEntered, CoveredKept DEF SameValues
<1>4. QED
  BY <1>1, <1>2, <1>3

LEMMA CoverPending ==
  ASSUME TypeInv, MarkerInv, PlaceInv, ExitInv, ScheduleInv, BranchesReturn, [Next]_vars,
         NEW c \in DOMAIN contexts, at' # "aborted", Unfinished(c)
  PROVE  Covered(c)' \/ Unfinished(c)'
<1> DEFINE w == contexts[c].worklist
<1>1. Ends(c)' = Ends(c)
  BY SameEnds
<1>2. w \in Seq(Node \cup {NULL})
  BY ContextsDomain, ContextFields DEF TypeInv
<1>3. CASE w # <<>> /\ Range(w) \subseteq Ends(c) \cup {NULL}
  <2>1. CASE contexts'[c].worklist = w
    BY <1>1, <1>3, <2>1 DEF Unfinished
  <2>2. CASE (TakeNode \/ TakeExitMarker) /\ c = top
    <3>1. Last(w) \in Ends(c) \cup {NULL} /\ getLastWorklist(c) = Last(w)
      BY <1>2, <1>3, RangeFront DEF getLastWorklist
    <3>2. CASE TakeNode
      <4>1. at' = "meet" /\ current' = c /\ node' = Last(w) /\ node' # NULL
        BY <2>2, <3>1, <3>2 DEF TakeNode
      <4>2. QED
        BY <1>1, <3>1, <4>1 DEF Unfinished
    <3>3. CASE TakeExitMarker
      <4>1. at' = "exit" /\ current' = c
        BY <2>2, <3>3 DEF TakeExitMarker
      <4>2. QED
        BY <4>1 DEF Unfinished
    <3>4. QED
      BY <2>2, <3>2, <3>3
  <2>3. CASE CallNewContext /\ c = current /\ contexts'[c].worklist = Append(w, node) /\ node \in Node
    <3>1. Range(Append(w, node)) \subseteq Ends(c)
      BY <1>3, <2>3, ScheduleNewContext DEF this
    <3>2. Append(w, node) # <<>>
      BY <1>2, <2>3, RangeAppend
    <3>3. QED
      BY <1>1, <2>3, <3>1, <3>2 DEF Unfinished
  <2>4. CASE FinishNode /\ c = current /\ node \in Node
    <3>1. contexts'[c].worklist = w
      BY <1>3, <2>4, ScheduleFinish DEF this
    <3>2. QED
      BY <2>1, <3>1
  <2>5. CASE NotifyCaller /\ getLastWorklist(c) = NULL
    BY <1>3, <2>5, NotifiedWorklist
  <2>6. QED
    BY <2>1, <2>2, <2>3, <2>4, <2>5, WorklistStep
<1>4. CASE at \in {"meet", "flow"} /\ c = current /\ node \in Ends(c)
  <2>1. CASE FinishNode
    <3>1. /\ contexts'[c].worklist # <<>>
          /\ Range(contexts'[c].worklist) \subseteq Ends(c) \cup {NULL}
      BY <1>4, <2>1, SameEnds, ScheduleFinish
    <3>2. QED
      BY <1>1, <3>1 DEF Unfinished
  <2>2. CASE ~FinishNode
    <3>1. UNCHANGED <<current, node>> /\ at' \in {"meet", "flow"}
      BY <1>4, <2>2, Actions, ReadsOnly
         DEF PopContext, TakeNode, TakeExitMarker, EnterNode, CallNewContext, SetExit,
             NotifyCaller, AtCall, AtInstruction, vars, locals
    <3>2. QED
      BY <1>1, <1>4, <3>1 DEF Unfinished
  <2>3. QED
    BY <2>1, <2>2
<1>5. CASE at = "exit" /\ c = current
  <2>1. CASE SetExit
    BY <1>5, <2>1, ExitCovered
  <2>2. CASE ~SetExit
    <3>1. current' = current /\ at' = "exit"
      BY <1>5, <2>2, Actions, ReadsOnly
         DEF PopContext, TakeNode, TakeExitMarker, EnterNode, CallNewContext, FinishNode,
             NotifyCaller, AtCall, AtInstruction, vars, locals
    <3>2. QED
      BY <1>5, <3>1 DEF Unfinished
  <2>3. QED
    BY <2>1, <2>2
<1>6. QED
  BY <1>3, <1>4, <1>5 DEF Unfinished

\* Nothing happens after a failed assertion.
LEMMA StaysAborted ==
  ASSUME [Next]_vars, at' # "aborted"
  PROVE  at # "aborted"
BY Actions, ReadsOnly
   DEF PopContext, TakeNode, TakeExitMarker, EnterNode, CallNewContext, FinishNode, SetExit,
       NotifyCaller, AtCall, AtInstruction, Reads, MeetPredecessor, MeetTail, FlowInstruction,
       MissingOperand, CallKnownContext, vars, locals

LEMMA CoverStep ==
  ASSUME TypeInv, MarkerInv, PlaceInv, ExitInv, ScheduleInv, CoverInv, [Next]_vars
  PROVE  CoverInv'
<1> SUFFICES ASSUME BranchesReturn', at' # "aborted", NEW c \in DOMAIN contexts'
             PROVE  Covered(c)' \/ Unfinished(c)'
  BY DEF CoverInv
<1>1. BranchesReturn
  BY Identity DEF SameIdentity, BranchesReturn, TailsOf, SuccsOf
<1>2. at # "aborted"
  BY StaysAborted
<1>3. CASE c \in DOMAIN contexts
  BY <1>1, <1>2, <1>3, CoverValues, CoverPending DEF CoverInv
<1>4. CASE c \notin DOMAIN contexts
  <2>1. CallNewContext
    BY <1>4, Identity DEF SameIdentity
  <2>2. contexts'[c] = InitContext(insn.callee, entryValue) /\ module' = module
    BY <1>4, <2>1, NewContext DEF CallNewContext
  <2>3. \A t \in Node : contexts'[c].exitValue = topValue /\ contexts'[c].after[t] = topValue
    BY <2>2 DEF InitContext
  <2>4. Ends(c)' \subseteq Node
    <3>1. insn.callee \in Method /\ module \in Module
      BY <2>1, InstructionType DEF CallNewContext, AtCall, TypeInv, TypeOK
    <3>2. contexts'[c].method = insn.callee
      BY <2>2 DEF InitContext
    <3>3. TailsOf(insn.callee) \subseteq Node
      BY <3>1, ReturnLeadsNowhere
    <3>4. QED
      BY <2>2, <3>2, <3>3 DEF Ends, TailsOf
  <2>5. QED
    BY <2>3, <2>4, TopValueType, BelowOrder DEF Covered
<1>5. QED
  BY <1>3, <1>4

LEMMA ExitsCovered == CoverInv /\ PendingIsScheduled => ExitCoversIfBranchesReturn
<1> SUFFICES ASSUME CoverInv, PendingIsScheduled, Done, BranchesReturn, NEW c \in DOMAIN contexts
             PROVE  Covered(c)
  BY DEF ExitCoversIfBranchesReturn, ExitCoversTails, Covered, Ends
<1>1. at = "loop" /\ Range(workList) = {}
  BY DEF Done, Range
<1>2. contexts[c].worklist = <<>>
  BY <1>1 DEF PendingIsScheduled
<1>3. QED
  BY <1>1, <1>2 DEF CoverInv, Unfinished

-----------------------------------------------------------------------------
(* The equations.  The value after a block is below what a run of the      *)
(* block gave, and the run is still one: the values it read have not       *)
(* changed since.  A call's value can only change with the exit value of   *)
(* the context the table leads to, and then the block is notified.         *)

Site(c, n)      == [context |-> c, node |-> n]
Target(c, n, i) == transitions[<<Site(c, n), i.callee>>]

\* The table leads call i of node n to the context of its method and entry value.
Linked(c, n, i, v) ==
  /\ <<Site(c, n), i.callee>> \in DOMAIN transitions
  /\ contexts[Target(c, n, i)].entryValue = callEntryFlowFunction(i, module.params[i.callee], v)

RunStep(c, n, i, v) ==
  IF i.op = "call" THEN meet(v, callExitFlowFunction(i, contexts[Target(c, n, i)].exitValue))
                   ELSE normalFlow(i, v)

\* h[k] is what the first k instructions of node n make of the value before it.
IsRun(h, m, c, n) ==
  /\ h[0] = contexts[c].before[n]
  /\ \A k \in 1..m : /\ h[k] = RunStep(c, n, module.code[n][k], h[k - 1])
                     /\ module.code[n][k].op = "call" => Linked(c, n, module.code[n][k], h[k - 1])

LEMMA LinkedTarget ==
  ASSUME TargetInv, NEW c, NEW n, NEW i, NEW v, Linked(c, n, i, v)
  PROVE  Target(c, n, i) \in DOMAIN contexts /\ contexts[Target(c, n, i)].method = i.callee
BY DEF Linked, Target, TargetInv

\* What the table leads to is what getContext finds.
LEMMA LinkedReturns ==
  ASSUME TypeInv, TargetInv, UniqueValueContexts, NEW c, NEW n, NEW i, NEW v, Linked(c, n, i, v)
  PROVE  Returned(i, v) = contexts[Target(c, n, i)].exitValue
<1> DEFINE entry == callEntryFlowFunction(i, module.params[i.callee], v)
           t     == Target(c, n, i)
<1>1. t \in DOMAIN contexts /\ contexts[t].method = i.callee /\ contexts[t].entryValue = entry
  BY LinkedTarget DEF Linked
<1>2. t \in ContextsOf(i.callee, entry)
  BY <1>1 DEF ContextsOf
<1>3. getContext(i.callee, entry) = t
  <2> HIDE DEF t, entry
  <2>1. /\ getContext(i.callee, entry) \in DOMAIN contexts
        /\ contexts[getContext(i.callee, entry)].method = i.callee
        /\ contexts[getContext(i.callee, entry)].entryValue = entry
    BY <1>2, GetContext DEF TypeInv
  <2>2. QED
    BY <1>1, <2>1 DEF UniqueValueContexts
<1>4. QED
  BY <1>2, <1>3 DEF Returned

\* So a run is the flow function.
LEMMA RunIsFlow ==
  ASSUME TypeInv, TargetInv, UniqueValueContexts,
         NEW c, NEW n, NEW m \in Nat, NEW h, IsRun(h, m, c, n)
  PROVE  h[m] = Flow(c, n)[m]
<1> DEFINE S == {k \in Nat : k <= m => h[k] = Flow(c, n)[k]}
<1>1. 0 \in S
  BY FlowUnfolds DEF IsRun
<1>2. ASSUME NEW k \in S, k \in Nat
      PROVE  k + 1 \in S
  <2>1. ASSUME k + 1 <= m
        PROVE  h[k + 1] = Flow(c, n)[k + 1]
    <3> DEFINE i == module.code[n][k + 1]
    <3>1. k <= m /\ k + 1 \in 1..m /\ (k + 1) - 1 = k
      BY <1>2, <2>1
    <3>2. h[k] = Flow(c, n)[k]
      BY <1>2, <3>1
    <3>3. /\ h[k + 1] = RunStep(c, n, i, h[k])
          /\ i.op = "call" => Linked(c, n, i, h[k])
      BY <3>1 DEF IsRun
    <3>4. Flow(c, n)[k + 1] = FlowStep(Flow(c, n)[k], i)
      BY <1>2, FlowUnfolds
    <3> HIDE DEF i
    <3>5. RunStep(c, n, i, h[k]) = FlowStep(h[k], i)
      BY <3>3, LinkedReturns DEF RunStep, FlowStep
    <3>6. QED
      BY <3>2, <3>3, <3>4, <3>5
  <2>2. QED
    BY <1>2, <2>1
<1>3. Nat \subseteq S
  <2> HIDE DEF S
  <2>1. QED
    BY <1>1, <1>2, NatSetInduction
<1>4. QED
  BY <1>3

\* Told that a context it calls has another exit value.
Told(c, n) == at = "notify" /\ Site(c, n) \in Range(sites)

LEMMA LinkedKept ==
  ASSUME TypeInv, TargetInv, [Next]_vars, NEW c, NEW n, NEW i, NEW v, Linked(c, n, i, v),
         ~(c = current /\ n = node) \/ UNCHANGED tableVars
  PROVE  Linked(c, n, i, v)' /\ Target(c, n, i)' = Target(c, n, i)
<1> DEFINE key == <<Site(c, n), i.callee>>
<1>1. key \in DOMAIN transitions
  BY DEF Linked
<1>2. key \in DOMAIN transitions' /\ transitions'[key] = transitions[key]
  <2>1. CASE UNCHANGED tableVars
    BY <1>1, <2>1 DEF tableVars
  <2>2. ASSUME NEW target \in ContextId, Recorded(target), ~(c = current /\ n = node)
        PROVE  key \in DOMAIN transitions' /\ transitions'[key] = transitions[key]
    <3> DEFINE new == <<callSite, insn.callee>>
    <3>1. transitions' = [k \in DOMAIN transitions \cup {new} |->
                            IF k = new THEN target ELSE transitions[k]]
      BY <2>2 DEF Recorded, addTransition
    <3>2. key # new
      <4>1. Site(c, n) # callSite
        BY <2>2 DEF Site, callSite
      <4>2. QED
        BY <4>1
    <3> HIDE DEF key, new
    <3>3. QED
      BY <1>1, <3>1, <3>2
  <2>3. QED
    BY <2>1, <2>2, TableStep
<1>3. Target(c, n, i)' = Target(c, n, i)
  BY <1>2 DEF Target
<1>4. contexts'[Target(c, n, i)].entryValue = contexts[Target(c, n, i)].entryValue
  BY LinkedTarget, Identity DEF SameIdentity
<1>5. module' = module
  BY Identity DEF SameIdentity
<1>6. QED
  BY <1>2, <1>3, <1>4, <1>5 DEF Linked

\* A linked call site is told when the value it uses changes: it is a caller.
LEMMA LinkedIsTold ==
  ASSUME TypeInv, InverseInv, [Next]_vars, NEW c, NEW n, NEW i, NEW v, Linked(c, n, i, v)
  PROVE  LET t == Target(c, n, i)
         IN contexts'[t].exitValue[RETURN] = contexts[t].exitValue[RETURN] \/ Told(c, n)'
<1> DEFINE t == Target(c, n, i)
<1>1. t \in DOMAIN contexts
  BY LinkedTarget DEF InverseInv
<1>2. CASE SetExit /\ t = current
  <2>1. Site(c, n) \in Range(getCallers(t))
    <3>1. TableTypeOK /\ CallersInverse
      BY DEF TypeInv, TypeOK, InverseInv
    <3>2. \A k \in DOMAIN transitions : k[1] \in Range(getCallers(transitions[k]))
      BY <3>1, InverseSets
    <3>3. QED
      BY <3>2 DEF Linked, Target
  <2>2. getCallers(current) # <<>>
    BY <1>2, <2>1 DEF Range
  <2>3. contexts'[t].exitValue = value /\ contexts[t].exitValue = this.exitValue
    BY <1>1, <1>2, ValuesExit DEF this
  <2>4. CASE isReturnEqual(this.exitValue, value)
    BY <2>3, <2>4 DEF isReturnEqual
  <2>5. CASE ~isReturnEqual(this.exitValue, value)
    <3>1. at' = "notify" /\ sites' = getCallers(current)
      BY <1>2, <2>2, <2>5 DEF SetExit
    <3>2. QED
      BY <1>2, <2>1, <3>1 DEF Told, Site
  <2>6. QED
    BY <2>4, <2>5
<1>3. CASE ~(SetExit /\ t = current)
  <2>1. contexts'[t].exitValue = contexts[t].exitValue
    <3> HIDE DEF t
    <3>1. QED
      BY <1>1, <1>3, Actions, ValuesKept, ValuesEntered, ValuesFinished, ValuesExit DEF SameValues
  <2>2. QED
    BY <2>1
<1>4. QED
  BY <1>2, <1>3

LEMMA RunKept ==
  ASSUME TypeInv, InverseInv, [Next]_vars, NEW c \in DOMAIN contexts, NEW n, NEW m \in Nat, NEW h,
         IsRun(h, m, c, n), ~Told(c, n)',
         ~(c = current /\ n = node) \/ UNCHANGED tableVars,
         contexts'[c].before[n] = contexts[c].before[n]
  PROVE  IsRun(h, m, c, n)'
<1>1. module' = module
  BY Identity DEF SameIdentity
<1>2. ASSUME NEW k \in 1..m, NEW i, i = module.code[n][k]
      PROVE  h[k] = RunStep(c, n, i, h[k - 1])' /\ (i.op = "call" => Linked(c, n, i, h[k - 1])')
  <2>1. h[k] = RunStep(c, n, i, h[k - 1]) /\ (i.op = "call" => Linked(c, n, i, h[k - 1]))
    BY <1>2 DEF IsRun
  <2>2. CASE i.op = "call"
    <3>1. Linked(c, n, i, h[k - 1])' /\ Target(c, n, i)' = Target(c, n, i)
      BY <2>1, <2>2, LinkedKept DEF InverseInv
    <3>2. contexts'[Target(c, n, i)].exitValue[RETURN] = contexts[Target(c, n, i)].exitValue[RETURN]
      BY <2>1, <2>2, LinkedIsTold
    <3>3. QED
      BY <2>1, <2>2, <3>1, <3>2 DEF RunStep, callExitFlowFunction
  <2>3. CASE i.op # "call"
    BY <2>1, <2>3 DEF RunStep
  <2>4. QED
    BY <2>2, <2>3
<1>3. h[0] = contexts'[c].before[n]
  BY DEF IsRun
<1>4. \A k \in 1..m : \A i : i = module'.code[n][k] =>
        h[k] = RunStep(c, n, i, h[k - 1])' /\ (i.op = "call" => Linked(c, n, i, h[k - 1])')
  BY <1>1, <1>2
<1>5. QED
  BY <1>3, <1>4 DEF IsRun, RunStep, Linked, Target

-----------------------------------------------------------------------------
(* A run grows with the instructions taken, and a call does not disturb    *)
(* what comes before it: no other call of the block has its place in the   *)
(* table.                                                                  *)

RightPrograms == CallsApart /\ EntriesDefine

\* In a node: it waits for a call, or value is that of a run.
RunInv ==
  RightPrograms /\ at = "flow" =>
    \/ pc > Len(module.code[node]) /\ node \in Range(this.worklist)
    \/ \A c, n : \A m \in Nat : c = current /\ n = node /\ pc = m + 1 =>
         \E h : IsRun(h, m, c, n) /\ h[m] = value

LEMMA SamePrograms ==
  ASSUME TypeInv, [Next]_vars
  PROVE  /\ RightPrograms' <=> RightPrograms
         /\ EntriesDefine' <=> EntriesDefine
BY Identity DEF SameIdentity, RightPrograms, CallsApart, CallSitesIn, CalleeAt, EntriesDefine, EntryNode,
                DefinedIn

LEMMA CallsOfMethod ==
  ASSUME CallsApart, NEW f \in Method, NEW n1 \in Range(module.blocks[f]),
         NEW n2 \in Range(module.blocks[f]),
         NEW i \in DOMAIN module.code[n1], NEW j \in DOMAIN module.code[n2],
         module.code[n1][i].op = "call", module.code[n2][j].op = "call"
  PROVE  /\ n1 = n2
         /\ module.code[n1][i].callee = module.code[n2][j].callee => i = j
<1>1. <<n1, i>> \in CallSitesIn(f) /\ <<n2, j>> \in CallSitesIn(f)
  BY DEF CallSitesIn
<1>2. n1 = n2 /\ (module.code[n1][i].callee = module.code[n2][j].callee => <<n1, i>> = <<n2, j>>)
  BY <1>1 DEF CallsApart, CalleeAt
<1>3. QED
  BY <1>2

LEMMA RunStarts ==
  ASSUME NEW c, NEW n, NEW w, w = contexts'[c].before[n]
  PROVE  \E h : IsRun(h, 0, c, n)' /\ h[0] = w
<1> DEFINE h == [k \in {0} |-> w]
<1>1. h[0] = w /\ 1..0 = {}
  OBVIOUS
<1> HIDE DEF h
<1>2. IsRun(h, 0, c, n)'
  BY <1>1 DEF IsRun
<1>3. QED
  BY <1>1, <1>2

LEMMA RunExtends ==
  ASSUME NEW c, NEW n, NEW m \in Nat, NEW h, IsRun(h, m, c, n)',
         NEW i, i = module'.code[n][m + 1], NEW w, w = RunStep(c, n, i, h[m])',
         i.op = "call" => Linked(c, n, i, h[m])'
  PROVE  \E g : IsRun(g, m + 1, c, n)' /\ g[m + 1] = w
<1> DEFINE g == [k \in 0..m + 1 |-> IF k = m + 1 THEN w ELSE h[k]]
<1>1. g[0] = h[0] /\ g[m] = h[m] /\ g[m + 1] = w
  OBVIOUS
<1>2. \A k \in 1..m : g[k] = h[k] /\ g[k - 1] = h[k - 1]
  OBVIOUS
<1>3. \A k \in 1..m + 1 : k \in 1..m \/ (k = m + 1 /\ k - 1 = m)
  OBVIOUS
<1> HIDE DEF g
<1>4. \A k \in 1..m : \A j : j = module'.code[n][k] =>
        g[k] = RunStep(c, n, j, g[k - 1])' /\ (j.op = "call" => Linked(c, n, j, g[k - 1])')
  <2>1. \A k \in 1..m : \A j : j = module'.code[n][k] =>
        h[k] = RunStep(c, n, j, h[k - 1])' /\ (j.op = "call" => Linked(c, n, j, h[k - 1])')
    BY DEF IsRun, RunStep, Linked, Target
  <2>2. QED
    BY <1>2, <2>1
<1>5. g[m + 1] = RunStep(c, n, i, g[m])' /\ (i.op = "call" => Linked(c, n, i, g[m])')
  BY <1>1
<1>6. \A k \in 1..m + 1 : \A j : j = module'.code[n][k] =>
        g[k] = RunStep(c, n, j, g[k - 1])' /\ (j.op = "call" => Linked(c, n, j, g[k - 1])')
  BY <1>3, <1>4, <1>5
<1>7. g[0] = contexts'[c].before[n]
  BY <1>1 DEF IsRun
<1>8. IsRun(g, m + 1, c, n)'
  BY <1>6, <1>7 DEF IsRun, RunStep, Linked, Target
<1>9. QED
  BY <1>1, <1>8

\* The steps of a node before a call: those calls are of other methods.
LEMMA RunBeforeCall ==
  ASSUME UNCHANGED <<module, contexts>>, NEW c, NEW n, NEW m \in Nat, NEW h, IsRun(h, m, c, n),
         NEW g, NEW target, addTransition(Site(c, n), g, target),
         \A k \in 1..m : module.code[n][k].op = "call" => module.code[n][k].callee # g
  PROVE  IsRun(h, m, c, n)'
<1>1. \A k \in 1..m : \A i : i = module'.code[n][k] =>
        h[k] = RunStep(c, n, i, h[k - 1])' /\ (i.op = "call" => Linked(c, n, i, h[k - 1])')
  <2> SUFFICES ASSUME NEW k \in 1..m, NEW i, i = module.code[n][k]
               PROVE  /\ h[k] = RunStep(c, n, i, h[k - 1])'
                      /\ i.op = "call" => Linked(c, n, i, h[k - 1])'
    OBVIOUS
  <2>1. h[k] = RunStep(c, n, i, h[k - 1]) /\ (i.op = "call" => Linked(c, n, i, h[k - 1]))
    BY DEF IsRun
  <2>2. CASE i.op = "call"
    <3> DEFINE key == <<Site(c, n), i.callee>>
    <3>1. key \in DOMAIN transitions /\ key # <<Site(c, n), g>>
      BY <2>1, <2>2 DEF Linked
    <3>2. key \in DOMAIN transitions' /\ transitions'[key] = transitions[key]
      BY <3>1 DEF addTransition
    <3>3. QED
      BY <2>1, <2>2, <3>1, <3>2 DEF Linked, Target, RunStep
  <2>3. QED
    BY <2>1, <2>2 DEF RunStep
<1>2. h[0] = contexts'[c].before[n]
  BY DEF IsRun
<1>3. QED
  BY <1>1, <1>2 DEF IsRun, RunStep, Linked, Target

LEMMA RunEnters ==
  ASSUME TypeInv, EnterNode
  PROVE  \A c, n : \A m \in Nat : c = current' /\ n = node' /\ pc' = m + 1 =>
           \E h : IsRun(h, m, c, n)' /\ h[m] = value'
<1>1. /\ current \in DOMAIN contexts /\ node \in Node /\ UNCHANGED <<current, node>> /\ pc' = 1
      /\ this \in Context
  BY EnteredNode, ContextsDomain DEF EnterNode, TypeInv, this
<1>2. value' = contexts'[current].before[node]
  <2>1. CASE PredsOf(node) = {}
    BY <2>1 DEF EnterNode, this
  <2>2. CASE PredsOf(node) # {}
    BY <1>1, <2>2, ValuesEntered DEF EnterNode
  <2>3. QED
    BY <2>1, <2>2
<1>3. \A m \in Nat : pc' = m + 1 => m = 0
  BY <1>1
<1>4. QED
  BY <1>1, <1>2, <1>3, RunStarts

LEMMA RunFlows ==
  ASSUME TypeInv, InverseInv, PlaceInv, RunInv, [Next]_vars, RightPrograms,
         FlowInstruction \/ CallKnownContext
  PROVE  \A c, n : \A m \in Nat : c = current' /\ n = node' /\ pc' = m + 1 =>
           \E h : IsRun(h, m, c, n)' /\ h[m] = value'
<1> SUFFICES ASSUME NEW c, NEW n, NEW m1 \in Nat, c = current', n = node', pc' = m1 + 1
             PROVE  \E h : IsRun(h, m1, c, n)' /\ h[m1] = value'
  OBVIOUS
<1>1. /\ AtInstruction /\ at = "flow" /\ at' = "flow" /\ c = current /\ n = node /\ pc' = pc + 1
      /\ UNCHANGED <<module, contexts>>
  BY DEF FlowInstruction, CallKnownContext, AtCall, AtInstruction
<1>2. /\ c \in DOMAIN contexts /\ n \in Node /\ pc \in Nat /\ pc >= 1 /\ insn \in Instruction
      /\ pc \in DOMAIN module.code[n] /\ Len(module.code[n]) \in Nat /\ pc <= Len(module.code[n])
      /\ DOMAIN module.code[n] = 1..Len(module.code[n])
  BY <1>1, InstructionType, ModuleType, LenProperties DEF TypeInv, TypeOK, Control, AtInstruction
<1> DEFINE m == m1 - 1
<1>3. m \in Nat /\ pc = m + 1 /\ m1 = m + 1
  BY <1>1, <1>2
<1> HIDE DEF m
<1>4. PICK h : IsRun(h, m, c, n) /\ h[m] = value
  <2>1. ~(pc > Len(module.code[node]))
    BY <1>1, <1>2
  <2>2. QED
    BY <1>1, <1>3, <2>1 DEF RunInv
<1>5. PICK i : i = insn
  OBVIOUS
<1>6. i = module'.code[n][m + 1]
  BY <1>1, <1>3, <1>5 DEF insn
<1>7. CASE FlowInstruction
  <2>1. IsRun(h, m, c, n)'
    BY <1>1, <1>2, <1>3, <1>4, <1>7, RunKept DEF FlowInstruction, Told
  <2>2. i.op # "call" /\ value' = normalFlow(i, h[m])
    BY <1>4, <1>5, <1>7 DEF FlowInstruction
  <2>3. value' = RunStep(c, n, i, h[m])'
    BY <2>2 DEF RunStep
  <2>4. QED
    BY <1>3, <1>6, <2>1, <2>2, <2>3, RunExtends
<1>8. CASE CallKnownContext
  <2> DEFINE target == getContext(insn.callee, entryValue)
             key    == <<callSite, insn.callee>>
  <2>1. /\ i.op = "call" /\ ContextsOf(insn.callee, entryValue) # {}
        /\ addTransition(callSite, insn.callee, target)
        /\ value' = meet(value, callExitFlowFunction(insn, contexts[target].exitValue))
    BY <1>5, <1>8 DEF CallKnownContext, AtCall
  <2>2. contexts[target].entryValue = entryValue
    BY <2>1, GetContext DEF TypeInv
  <2>3. key \in DOMAIN transitions' /\ transitions'[key] = target
    BY <2>1 DEF addTransition
  <2>4. key = <<Site(c, n), i.callee>>
    BY <1>1, <1>5 DEF callSite, Site
  <2>5. entryValue = callEntryFlowFunction(i, module.params[i.callee], h[m])
    BY <1>4, <1>5 DEF entryValue
  <2> HIDE DEF target, key
  <2>6. Target(c, n, i)' = target
    BY <2>3, <2>4 DEF Target
  <2>7. Linked(c, n, i, h[m])'
    BY <1>1, <2>2, <2>3, <2>4, <2>5, <2>6 DEF Linked
  <2>8. value' = RunStep(c, n, i, h[m])'
    BY <1>1, <1>4, <1>5, <2>1, <2>6 DEF RunStep
  <2>9. ASSUME NEW k \in 1..m, module.code[n][k].op = "call"
        PROVE  module.code[n][k].callee # i.callee
    <3>1. k \in DOMAIN module.code[n] /\ k # pc
      BY <1>2, <1>3
    <3>2. n \in Range(module.blocks[contexts[c].method]) /\ contexts[c].method \in Method
      BY <1>1, <1>2, ContextValues DEF PlaceInv, Started, StartedIn
    <3>3. module.code[n][pc].op = "call"
      BY <1>1, <1>5, <2>1 DEF insn
    <3>4. QED
      BY <1>1, <1>2, <1>5, <2>9, <3>1, <3>2, <3>3, CallsOfMethod DEF RightPrograms, insn
  <2>10. IsRun(h, m, c, n)'
    BY <1>1, <1>3, <1>4, <1>5, <2>1, <2>9, RunBeforeCall DEF callSite, Site
  <2>11. QED
    BY <1>3, <1>6, <2>7, <2>8, <2>10, RunExtends
<1>9. QED
  BY <1>7, <1>8

LEMMA RunInvStep ==
  ASSUME TypeInv, InverseInv, PlaceInv, RunInv, [Next]_vars
  PROVE  RunInv'
<1> SUFFICES ASSUME RightPrograms', at' = "flow"
             PROVE  \/ pc' > Len(module'.code[node']) /\ node' \in Range(this'.worklist)
                    \/ \A c, n : \A m \in Nat : c = current' /\ n = node' /\ pc' = m + 1 =>
                         \E h : IsRun(h, m, c, n)' /\ h[m] = value'
  BY DEF RunInv
<1>0. RightPrograms
  BY SamePrograms
<1>1. CASE EnterNode
  BY <1>1, RunEnters
<1>2. CASE FlowInstruction \/ CallKnownContext
  BY <1>0, <1>2, RunFlows
<1>3. CASE CallNewContext
  BY <1>3, CallWaits
<1>4. CASE UNCHANGED vars
  <2>1. /\ at = "flow" /\ this' = this
        /\ UNCHANGED <<module, contexts, transitions, current, node, pc, value>>
    BY <1>4 DEF vars, locals, this
  <2>2. \A c, n, m, h : IsRun(h, m, c, n)' <=> IsRun(h, m, c, n)
    BY <2>1 DEF IsRun, RunStep, Linked, Target
  <2>3. QED
    BY <1>0, <2>1, <2>2 DEF RunInv
<1>5. CASE ~(EnterNode \/ FlowInstruction \/ CallKnownContext \/ CallNewContext \/ UNCHANGED vars)
  BY <1>5 DEF Next, Stutter, PopContext, TakeNode, TakeExitMarker, MeetPredecessor,
              MissingOperand, FinishNode, MeetTail, SetExit, NotifyCaller, Idle, locals
<1>6. QED
  BY <1>1, <1>2, <1>3, <1>4, <1>5

-----------------------------------------------------------------------------
(* Who waits.  Only the top of the stack is worked on, so a context below  *)
(* it with something to do has a call node in its worklist.                *)

HasCall(n) == \E j \in DOMAIN module.code[n] : module.code[n][j].op = "call"
Waiting(c) == \E n \in Range(contexts[c].worklist) \cap Node : HasCall(n)

WaitInv ==
  /\ \A c \in DOMAIN contexts : \/ contexts[c].worklist = <<>>
                                \/ Waiting(c)
                                \/ at \in {"loop", "meet", "flow"} /\ c = top
                                \/ at = "aborted"
  /\ at = "meet" \/ AtInstruction => current = top
  /\ \A s \in Range(sites) : HasCall(s.node)

LEMMA WaitInit ==
  ASSUME Init
  PROVE  WaitInv
<1>1. /\ DOMAIN contexts = {1} /\ workList = <<1>> /\ at = "loop" /\ Range(sites) = {}
  BY DEF Init, Range
<1>2. top = 1
  <2>1. Len(<<1>>) = 1 /\ <<1>>[1] = 1
    OBVIOUS
  <2>2. QED
    BY <1>1, <2>1 DEF Last, top
<1>3. QED
  BY <1>1, <1>2 DEF WaitInv, AtInstruction

LEMMA WaitingKept ==
  ASSUME TypeInv, [Next]_vars, NEW c \in DOMAIN contexts, Waiting(c),
         Range(contexts[c].worklist) \subseteq Range(contexts'[c].worklist)
  PROVE  Waiting(c)'
BY Identity DEF SameIdentity, Waiting, HasCall

LEMMA WaitFinish ==
  ASSUME TypeInv, MarkerInv, WaitInv, [Next]_vars, FinishNode, NEW c, c = current, c # top
  PROVE  Waiting(c)'
<1>1. /\ at = "flow" /\ current \in DOMAIN contexts /\ node \in Node
  BY ValuesFinished DEF FinishNode
<1>2. this.worklist # <<>> /\ Waiting(current)
  BY <1>1 DEF MarkerInv, WaitInv, this
<1>3. Range(this.worklist) \subseteq Range(contexts'[current].worklist)
  BY <1>1, <1>2, ValuesFinished, WorklistAfterNode
<1>4. QED
  BY <1>1, <1>2, <1>3, WaitingKept DEF this

LEMMA WaitAppended ==
  ASSUME TypeInv, [Next]_vars, NEW c \in DOMAIN contexts, NEW n \in Node, HasCall(n),
         contexts'[c].worklist = Append(contexts[c].worklist, n)
  PROVE  Waiting(c)'
<1>1. contexts[c].worklist \in Seq(Node \cup {NULL})
  BY ContextsDomain, ContextFields DEF TypeInv
<1>2. n \in Range(contexts'[c].worklist) \cap Node
  BY <1>1, RangeAppend
<1>3. QED
  BY <1>2, Identity DEF SameIdentity, Waiting, HasCall

LEMMA WaitSites ==
  ASSUME TypeInv, PlaceInv, WaitInv, [Next]_vars, NEW s \in Range(sites')
  PROVE  HasCall(s.node)'
<1>1. module' = module
  BY Identity DEF SameIdentity
<1>2. CASE s \in Range(sites)
  BY <1>1, <1>2 DEF WaitInv, HasCall
<1>3. CASE SetExit
  <2>1. sites' = getCallers(current) \/ sites' = <<>>
    BY <1>3 DEF SetExit, Idle
  <2>2. s \in Range(getCallers(current))
    BY <2>1 DEF Range
  <2>3. current \in DOMAIN callers /\ s \in Range(callers[current])
    BY <2>2 DEF getCallers, Range
  <2>4. HasCall(s.node)
    BY <2>3 DEF PlaceInv, Calls, HasCall
  <2>5. QED
    BY <1>1, <2>4 DEF HasCall
<1>4. CASE NotifyCaller
  <2>1. sites \in Seq(Sites) /\ sites # <<>>
    BY <1>4 DEF NotifyCaller, TypeInv, Control
  <2>2. sites' = Tail(sites) \/ sites' = <<>>
    BY <1>4 DEF NotifyCaller, Idle
  <2>3. Range(Tail(sites)) \subseteq Range(sites) /\ Range(<<>>) = {}
    <3>1. /\ Len(sites) \in Nat \ {0} /\ DOMAIN sites = 1..Len(sites)
          /\ Len(Tail(sites)) = Len(sites) - 1
          /\ \A j \in 1..Len(sites) - 1 : Tail(sites)[j] = sites[j + 1]
          /\ DOMAIN Tail(sites) = 1..Len(Tail(sites))
      BY <2>1, EmptySeq, LenProperties, HeadTailProperties
    <3>2. \A j \in 1..Len(sites) - 1 : j + 1 \in 1..Len(sites)
      BY <3>1
    <3>3. QED
      BY <3>1, <3>2 DEF Range
  <2>4. QED
    BY <1>2, <2>2, <2>3
<1>5. CASE ~SetExit /\ ~NotifyCaller
  <2>1. sites' = sites \/ sites' = <<>>
    BY <1>5, Actions, ReadsOnly
       DEF PopContext, TakeNode, TakeExitMarker, EnterNode, CallNewContext, FinishNode, Idle, vars, locals
  <2>2. QED
    BY <1>2, <2>1 DEF Range
<1>6. QED
  BY <1>3, <1>4, <1>5

LEMMA LastAppended ==
  ASSUME NEW S, NEW s \in Seq(S), NEW e
  PROVE  Last(Append(s, e)) = e
<1>1. Len(Append(s, e)) = Len(s) + 1 /\ Append(s, e)[Len(s) + 1] = e
  OBVIOUS
<1>2. QED
  BY <1>1 DEF Last

LEMMA WaitStep ==
  ASSUME TypeInv, MarkerInv, PlaceInv, WaitInv, [Next]_vars
  PROVE  WaitInv'
<1>1. ASSUME NEW c \in DOMAIN contexts', at' # "aborted"
      PROVE  \/ contexts'[c].worklist = <<>>
             \/ Waiting(c)'
             \/ at' \in {"loop", "meet", "flow"} /\ c = top'
  <2>1. CASE CallNewContext
    <3>1. at' = "flow" /\ workList' = Append(workList, Len(contexts) + 1)
      BY <2>1 DEF CallNewContext, AtCall, AtInstruction
    <3>2. top' = Len(contexts) + 1
      BY <3>1, LastAppended DEF TypeInv, TypeOK, top
    <3>3. CASE c = Len(contexts) + 1
      BY <3>1, <3>2, <3>3
    <3>4. CASE c \in DOMAIN contexts /\ c = current
      <4>1. node \in Node /\ insn = module.code[node][pc] /\ pc \in DOMAIN module.code[node]
        BY <2>1, InstructionType DEF CallNewContext, AtCall, insn
      <4>2. HasCall(node)
        BY <2>1, <4>1 DEF HasCall, CallNewContext, AtCall
      <4>3. contexts'[c].worklist = Append(contexts[c].worklist, node)
        <5>1. contexts'[c] = [contexts[c] EXCEPT !.worklist = Append(@, node)] /\ contexts[c] \in Context
          BY <2>1, <3>4, NewContext, ContextsDomain DEF TypeInv, this
        <5>2. QED
          BY <5>1 DEF Context
      <4>4. QED
        BY <3>4, <4>1, <4>2, <4>3, WaitAppended
    <3>5. CASE c \in DOMAIN contexts /\ c # current
      <4>1. contexts'[c].worklist = contexts[c].worklist /\ current = top
        BY <2>1, <3>5, NewContext DEF WaitInv, CallNewContext, AtCall
      <4>2. contexts[c].worklist = <<>> \/ Waiting(c)
        BY <2>1, <3>5, <4>1 DEF WaitInv, CallNewContext, AtCall, AtInstruction
      <4>3. QED
        BY <3>5, <4>1, <4>2, WaitingKept
    <3>6. QED
      BY <2>1, <3>3, <3>4, <3>5, NewContext
  <2>2. CASE FinishNode
    <3>1. c \in DOMAIN contexts /\ top' = top /\ at' = "loop"
      BY <1>1, <2>2, Identity 
         DEF SameIdentity, FinishNode, CallNewContext, AtCall, AtInstruction, Idle, top
    <3>2. CASE c = current
      BY <2>2, <3>1, <3>2, WaitFinish
    <3>3. CASE c # current
      <4>1. contexts'[c].worklist = contexts[c].worklist
        BY <2>2, <3>1, <3>3, ValuesFinished
      <4>2. contexts[c].worklist = <<>> \/ Waiting(c) \/ c = top
        BY <2>2, <3>1 DEF WaitInv, FinishNode
      <4>3. QED
        BY <3>1, <4>1, <4>2, WaitingKept
    <3>4. QED
      BY <3>2, <3>3
  <2>3. CASE NotifyCaller
    <3>1. c \in DOMAIN contexts
      BY <1>1, <2>3, NotifiedCaller
    <3>2. contexts[c].worklist = <<>> \/ Waiting(c)
      BY <2>3, <3>1 DEF WaitInv, NotifyCaller
    <3>3. CASE contexts'[c].worklist = contexts[c].worklist
      BY <3>1, <3>2, <3>3, WaitingKept
    <3>4. CASE contexts'[c].worklist # contexts[c].worklist
      <4>1. /\ c = Head(sites).context
            /\ contexts'[c].worklist = Append(contexts[c].worklist, Head(sites).node)
        BY <2>3, <3>1, <3>4, WorklistStep
           DEF NotifyCaller, TakeNode, TakeExitMarker, CallNewContext, AtCall, AtInstruction, FinishNode
      <4>2. Head(sites).node \in Node /\ Head(sites) \in Range(sites)
        <5>1. sites \in Seq(Sites) /\ sites # <<>>
          BY <2>3 DEF NotifyCaller, TypeInv, Control
        <5>2. 1 \in DOMAIN sites /\ sites[1] = Head(sites)
          BY <5>1, EmptySeq, LenProperties, HeadTailProperties
        <5>3. QED
          BY <2>3, <5>2, NotifiedCaller DEF Range
      <4>3. QED
        BY <3>1, <4>1, <4>2, WaitAppended DEF WaitInv
    <3>5. QED
      BY <3>3, <3>4
  <2>4. CASE TakeNode \/ TakeExitMarker
    <3>1. c \in DOMAIN contexts /\ top' = top
      BY <1>1, <2>4, TakenNode DEF TakeNode, TakeExitMarker, top
    <3>2. CASE c # top
      <4>1. contexts'[c].worklist = contexts[c].worklist
        BY <2>4, <3>1, <3>2, TakenNode
      <4>2. contexts[c].worklist = <<>> \/ Waiting(c)
        BY <2>4, <3>1, <3>2 DEF WaitInv, TakeNode, TakeExitMarker
      <4>3. QED
        BY <3>1, <4>1, <4>2, WaitingKept
    <3>3. CASE c = top /\ TakeNode
      BY <3>1, <3>3 DEF TakeNode
    <3>4. CASE c = top /\ TakeExitMarker
      <4>1. contexts[c].worklist \in Seq(Node \cup {NULL}) /\ contexts[c].worklist # <<>>
            /\ Last(contexts[c].worklist) = NULL
        BY <3>4, TakenNode DEF TakeExitMarker
      <4>2. Marked(c)
        BY <4>1, RangeFront DEF Marked
      <4>3. contexts[c].worklist = <<NULL>>
        BY <3>1, <4>2 DEF MarkerInv
      <4>4. contexts'[c].worklist = Front(contexts[c].worklist)
        BY <3>1, <3>4, TakenNode, ContextsDomain DEF TypeInv, Context
      <4>5. Len(<<NULL>>) = 1
        OBVIOUS
      <4>6. Front(contexts[c].worklist) \in Seq(Node \cup {NULL}) /\ Len(Front(contexts[c].worklist)) = 1 - 1
        BY <4>1, <4>3, <4>5, FrontProperty
      <4>7. Front(contexts[c].worklist) = <<>>
        BY <4>6, EmptySeq
      <4>8. QED
        BY <4>4, <4>7
    <3>5. QED
      BY <2>4, <3>2, <3>3, <3>4
  <2>5. CASE PopContext
    <3>1. c \in DOMAIN contexts /\ contexts'[c].worklist = contexts[c].worklist
      BY <1>1, <2>5, PoppedContext, ContextsDomain DEF TypeInv, Context
    <3>2. contexts[c].worklist = <<>> \/ Waiting(c)
      BY <2>5, <3>1 DEF WaitInv, PopContext
    <3>3. QED
      BY <3>1, <3>2, WaitingKept
  <2>6. CASE EnterNode \/ Reads \/ SetExit \/ UNCHANGED vars
    <3>1. /\ c \in DOMAIN contexts /\ contexts'[c].worklist = contexts[c].worklist /\ top' = top
          /\ at # "aborted"
      BY <1>1, <2>6, ValuesEntered, EnteredNode, ValuesExit, ExitSet, ReadsOnly
         DEF EnterNode, SetExit, Reads, MeetPredecessor, MeetTail, FlowInstruction,
             MissingOperand, CallKnownContext, AtCall, AtInstruction, vars, locals, top
    <3>2. at \in {"loop", "meet", "flow"} => at' \in {"loop", "meet", "flow"}
      BY <1>1, <2>6, ReadsOnly DEF EnterNode, SetExit, vars, locals
    <3>3. QED
      BY <3>1, <3>2, WaitingKept DEF WaitInv
  <2>7. QED
    BY <2>1, <2>2, <2>3, <2>4, <2>5, <2>6, Actions
<1>2. at' = "meet" \/ AtInstruction' => current' = top'
  <2>1. SUFFICES ASSUME at' = "meet" \/ AtInstruction'
                 PROVE  current' = top'
    OBVIOUS
  <2>2. at' \in {"meet", "flow"}
    BY <2>1 DEF AtInstruction
  <2>3. CASE TakeNode
    BY <2>3 DEF TakeNode, top
  <2>4. CASE EnterNode \/ MeetPredecessor \/ FlowInstruction \/ CallKnownContext
    <3>1. UNCHANGED <<current, workList>> /\ (at = "meet" \/ AtInstruction)
      BY <2>4 DEF EnterNode, MeetPredecessor, FlowInstruction, CallKnownContext, AtCall
    <3>2. QED
      BY <3>1 DEF WaitInv, top
  <2>5. CASE CallNewContext
    <3>1. node \in Node /\ at' = "flow" /\ pc' = Len(module.code[node]) + 1 /\ UNCHANGED <<module, node>>
      BY <2>5, InstructionType DEF CallNewContext, AtCall, AtInstruction
    <3>2. Len(module.code[node]) \in Nat
      BY <3>1, ModuleType DEF TypeInv, TypeOK
    <3>3. QED
      BY <2>1, <3>1, <3>2 DEF AtInstruction
  <2>6. CASE UNCHANGED vars
    <3>1. UNCHANGED <<module, at, node, pc, current, workList>>
      BY <2>6 DEF vars, locals
    <3>2. QED
      BY <2>1, <3>1 DEF WaitInv, AtInstruction, top
  <2>7. CASE ~(TakeNode \/ EnterNode \/ MeetPredecessor \/ FlowInstruction \/ CallKnownContext
               \/ CallNewContext \/ UNCHANGED vars)
    BY <2>2, <2>7 DEF Next, Stutter, PopContext, TakeExitMarker, MissingOperand, FinishNode,
                      MeetTail, SetExit, NotifyCaller, Idle, locals
  <2>8. QED
    BY <2>3, <2>4, <2>5, <2>6, <2>7
<1>3. QED
  BY <1>1, <1>2, WaitSites DEF WaitInv

-----------------------------------------------------------------------------
(* At the end.  A block that is not to be processed and that some path has *)
(* reached was run, with the exit values of now: or a notification is on   *)
(* its way to it.                                                          *)

Ran(c, n) == \E h : /\ IsRun(h, Len(module.code[n]), c, n)
                    /\ Below(contexts[c].after[n], h[Len(module.code[n])])

Pending(c, n)   == n \in Range(contexts[c].worklist)
Busy(c, n)      == at \in {"meet", "flow"} /\ c = current /\ n = node
Virgin(c, f, n) == /\ n # EntryNode(f)
                   /\ contexts[c].before[n] = topValue
                   /\ contexts[c].after[n] = topValue

Solved(c, f, n) == \/ Pending(c, n)
                   \/ Busy(c, n)
                   \/ Virgin(c, f, n)
                   \/ contexts[c].after[n] # topValue /\ (Told(c, n) \/ Ran(c, n))

SolveInv ==
  RightPrograms /\ at # "aborted" =>
    \A c \in DOMAIN contexts : \A f \in Method : contexts[c].method = f =>
      \A n \in Range(module.blocks[f]) : Solved(c, f, n)

\* After the entry of a method some name has a sign on every path.
LEMMA SomeDefined ==
  ASSUME module \in Module, EntriesDefine, NEW f \in Method
  PROVE  \E x \in Name : \A n \in Node : ~UndefinedAfter(x, f, n)
<1>1. CASE f # module.main /\ module.params[f] # <<>>
  <2>1. module.params[f] \in Seq(Name)
    BY ModuleType
  <2>2. 1 \in DOMAIN module.params[f]
    BY <1>1, <2>1, EmptySeq, LenProperties
  <2>3. module.params[f][1] \in Name /\ module.params[f][1] \in DefinedAtEntry(f)
    BY <1>1, <2>1, <2>2, ElementOfSeq DEF DefinedAtEntry, Range
  <2>4. QED
    BY <2>3 DEF UndefinedAfter, MayBeUndefined
<1>2. CASE DefinedIn(module.code[EntryNode(f)]) # {}
  <2> DEFINE e == EntryNode(f)
  <2>1. e \in Node /\ \A n \in Node : module.code[n] \in Seq(Instruction)
    BY ModuleType
  <2>2. PICK x \in DefinedIn(module.code[e]) : TRUE
    BY <1>2
  <2>3. x \in Name
    <3>1. PICK i \in Range(module.code[e]) : x = NameOf(i)
      BY DEF DefinedIn, NameOf
    <3>2. i \in Instruction
      BY <2>1, RangeOfSeq
    <3>3. QED
      BY <3>1, <3>2, NameAssumption DEF NameOf, Instruction
  <2>4. ASSUME NEW n \in Node, UndefinedAfter(x, f, n)
        PROVE  FALSE
    <3>1. Len(module.code[n]) + 1 - 1 = Len(module.code[n])
      BY <2>1, LenProperties
    <3>2. x \notin DefinedIn(module.code[n])
      BY <2>1, <2>4, <3>1, DefinedByPrefix DEF UndefinedAfter, MayBeUndefined
    <3>3. n \in ReachedFrom(e, {p \in Node : x \in DefinedIn(module.code[p])})
      BY <2>4 DEF UndefinedAfter, MayBeUndefined
    <3>4. e \in {p \in Node : x \in DefinedIn(module.code[p])}
      BY <2>1, <2>2
    <3> HIDE DEF e
    <3>5. n \in {e}
      BY <2>1, <3>3, <3>4 DEF ReachedFrom
    <3>6. QED
      BY <2>2, <3>2, <3>5
  <2>5. QED
    BY <2>3, <2>4
<1>3. QED
  BY <1>1, <1>2 DEF EntriesDefine

LEMMA SolvePending ==
  ASSUME TypeInv, [Next]_vars, NEW c \in DOMAIN contexts, NEW n \in Node, Pending(c, n)
  PROVE  Pending(c, n)' \/ Busy(c, n)'
<1>1. CASE c = top => ~(TakeNode \/ TakeExitMarker)
  BY <1>1, WorklistGrows DEF Pending
<1>2. CASE c = top /\ (TakeNode \/ TakeExitMarker)
  <2> DEFINE w == contexts[c].worklist
  <2>1. /\ w \in Seq(Node \cup {NULL}) /\ w # <<>> /\ contexts[c] \in Context
        /\ contexts'[c].worklist = Front(w) /\ getLastWorklist(c) = Last(w)
    BY <1>2, TakenNode, ContextsDomain DEF TypeInv, Context
  <2>2. n \in Range(Front(w)) \/ n = Last(w)
    BY <2>1, RangeFront DEF Pending
  <2>3. CASE n \in Range(Front(w))
    BY <2>1, <2>3 DEF Pending
  <2>4. CASE n = Last(w)
    <3>1. TakeNode
      BY <1>2, <2>1, <2>4, NULLAssumption DEF TakeExitMarker
    <3>2. QED
      BY <1>2, <2>1, <2>4, <3>1 DEF TakeNode, Busy
  <2>5. QED
    BY <2>2, <2>3, <2>4
<1>3. QED
  BY <1>1, <1>2

LEMMA StaysBusy ==
  ASSUME [Next]_vars, at' # "aborted", ~FinishNode, NEW c, NEW n, Busy(c, n)
  PROVE  Busy(c, n)'
<1>1. UNCHANGED <<current, node>> /\ at' \in {"meet", "flow"}
  BY Actions, ReadsOnly
     DEF Busy, PopContext, TakeNode, TakeExitMarker, EnterNode, CallNewContext, SetExit,
         NotifyCaller, AtCall, AtInstruction, vars, locals
<1>2. QED
  BY <1>1 DEF Busy

LEMMA FinishedAt ==
  ASSUME TypeInv, AbortInv, FinishNode
  PROVE  Len(module.code[node]) \in Nat /\ pc = Len(module.code[node]) + 1
<1> DEFINE m == Len(module.code[node])
<1>1. m \in Nat /\ pc \in Nat
  BY ValuesFinished, ModuleType DEF TypeInv, TypeOK
<1>2. pc > m /\ pc <= m + 1
  BY DEF FinishNode, AbortInv
<1> HIDE DEF m
<1>3. m \in Nat /\ pc = m + 1
  BY <1>1, <1>2
<1>4. QED
  BY <1>3 DEF m

\* Where entries define a name a node that does not wait has a value after it.
LEMMA FinishedWithValue ==
  ASSUME TypeInv, AbortInv, EntriesDefine, FinishNode,
         NEW c \in DOMAIN contexts, NEW n \in Node, c = current, n = node,
         n \notin Range(this.worklist)
  PROVE  /\ contexts'[c].before[n] = contexts[c].before[n]
         /\ Below(contexts'[c].after[n], value)
         /\ contexts'[c].after[n] # topValue
<1>1. value \in Values /\ contexts[c].after[n] \in Values /\ contexts[c].method \in Method
  BY ContextValues DEF TypeInv, TypeOK
<1>2. value # topValue
  <2>1. PICK x \in Name : ~UndefinedAfter(x, contexts[c].method, n)
    BY <1>1, SomeDefined DEF TypeInv, TypeOK
  <2>2. PICK k \in Nat : k = pc /\ k = Len(module.code[n]) + 1
    BY FinishedAt
  <2>3. ~MayBeUndefined(x, contexts[c].method, n, k)
    BY <2>1, <2>2 DEF UndefinedAfter
  <2>4. value[x] # Absent
    BY <1>1, <2>2, <2>3 DEF AbortInv, FinishNode, this
  <2>5. QED
    BY <2>4 DEF topValue
<1>3. /\ contexts'[c].after[n] = meet(value, contexts[c].after[n])
      /\ contexts'[c].before[n] = contexts[c].before[n]
  BY ValuesFinished DEF OutMet, this
<1>4. /\ meet(value, contexts[c].after[n]) \in Values
      /\ Below(meet(value, contexts[c].after[n]), value)
  BY <1>1, MeetType, MeetIsGreatest
<1>5. QED
  BY <1>1, <1>2, <1>3, <1>4, BelowNotTop

LEMMA SolveBusy ==
  ASSUME TypeInv, InverseInv, PlaceInv, AbortInv, RunInv, RightPrograms, [Next]_vars, at' # "aborted",
         NEW c \in DOMAIN contexts, NEW f \in Method, contexts[c].method = f,
         NEW n \in Node, Busy(c, n)
  PROVE  Solved(c, f, n)'
<1>1. CASE ~FinishNode
  BY <1>1, StaysBusy DEF Solved
<1>2. CASE FinishNode
  <2>0. PICK m : m = Len(module.code[n])
    OBVIOUS
  <2>1. /\ at = "flow" /\ at' = "loop" /\ c = current /\ n = node /\ UNCHANGED tableVars
        /\ module' = module /\ pc > Len(module.code[node])
    BY <1>2 DEF Busy, FinishNode, Idle
  <2>2. CASE n \in Range(this.worklist)
    <3>1. Range(contexts[c].worklist) \subseteq Range(contexts'[c].worklist)
      BY <1>2, WorklistGrows DEF TakeNode, TakeExitMarker, FinishNode
    <3>2. QED
      BY <2>1, <2>2, <3>1 DEF Solved, Pending, this
  <2>3. CASE n \notin Range(this.worklist)
    <3>1. m \in Nat /\ pc = m + 1
      BY <1>2, <2>0, <2>1, FinishedAt
    <3>2. PICK h : IsRun(h, m, c, n) /\ h[m] = value
      BY <2>1, <2>3, <3>1 DEF RunInv
    <3>3. /\ contexts'[c].before[n] = contexts[c].before[n]
          /\ Below(contexts'[c].after[n], value)
          /\ contexts'[c].after[n] # topValue
      BY <1>2, <2>1, <2>3, FinishedWithValue DEF RightPrograms
    <3>4. IsRun(h, m, c, n)'
      BY <2>1, <3>1, <3>2, <3>3, RunKept DEF Told
    <3>5. Len(module'.code[n]) = m
      BY <2>0, <2>1
    <3>6. \A k : k = Len(module'.code[n]) => IsRun(h, k, c, n)' /\ Below(contexts'[c].after[n], h[k])
      BY <3>2, <3>3, <3>4, <3>5
    <3>7. Ran(c, n)'
      BY <3>6 DEF Ran, IsRun, RunStep, Linked, Target
    <3>8. QED
      BY <3>3, <3>7 DEF Solved
  <2>4. QED
    BY <2>2, <2>3
<1>3. QED
  BY <1>1, <1>2

\* A node no step of which is taken keeps its values.
LEMMA IdleValues ==
  ASSUME TypeInv, [Next]_vars, NEW c \in DOMAIN contexts, NEW n \in Node, ~Busy(c, n)
  PROVE  /\ contexts'[c].before[n] = contexts[c].before[n]
         /\ contexts'[c].after[n] = contexts[c].after[n]
<1>1. CASE EnterNode
  BY <1>1, ValuesEntered, EnteredNode DEF Busy, EnterNode, this
<1>2. CASE FinishNode
  BY <1>2, ValuesFinished DEF Busy, FinishNode, this
<1>3. CASE ~EnterNode /\ ~FinishNode
  BY <1>3, Actions, ValuesKept, ValuesExit DEF SameValues
<1>4. QED
  BY <1>1, <1>2, <1>3

\* Whoever is notified waits for its node: if its context has something queued,
\* then a block that waits for a call, and no other block calls.
LEMMA SolveTold ==
  ASSUME TypeInv, PlaceInv, WaitInv, CallsApart, [Next]_vars,
         NEW c \in DOMAIN contexts, NEW f \in Method, contexts[c].method = f,
         NEW n \in Range(module.blocks[f]), n \in Node, Told(c, n)
  PROVE  Told(c, n)' \/ Pending(c, n)'
<1>1. at = "notify" /\ sites \in Seq(Sites) /\ sites # <<>>
  BY DEF Told, TypeInv, Control
<1>2. PICK j \in DOMAIN sites : sites[j] = Site(c, n)
  BY DEF Told, Range
<1>3. /\ Len(sites) \in Nat \ {0} /\ DOMAIN sites = 1..Len(sites)
      /\ Head(sites) = sites[1] /\ Len(Tail(sites)) = Len(sites) - 1
      /\ \A i \in 1..Len(Tail(sites)) : Tail(sites)[i] = sites[i + 1]
      /\ DOMAIN Tail(sites) = 1..Len(Tail(sites))
  BY <1>1, EmptySeq, LenProperties, HeadTailProperties
<1>4. CASE ~NotifyCaller
  <2>1. UNCHANGED vars
    BY <1>1, <1>4, Actions
       DEF Reads, MeetPredecessor, MeetTail, FlowInstruction, MissingOperand, CallKnownContext,
           PopContext, TakeNode, TakeExitMarker, EnterNode, CallNewContext, FinishNode, SetExit,
           AtCall, AtInstruction
  <2>2. QED
    BY <2>1 DEF Told, vars, locals
<1>5. CASE NotifyCaller /\ j # 1
  <2>1. Len(sites) # 1 /\ j - 1 \in 1..Len(Tail(sites)) /\ (j - 1) + 1 = j
    BY <1>2, <1>3, <1>5
  <2>2. Tail(sites)[j - 1] = Site(c, n)
    BY <1>2, <1>3, <2>1
  <2>3. sites' = Tail(sites) /\ at' = "notify"
    BY <1>1, <1>5, <2>1 DEF NotifyCaller
  <2>4. QED
    BY <1>3, <2>1, <2>2, <2>3 DEF Told, Range
<1>6. CASE NotifyCaller /\ j = 1
  <2>1. Head(sites).context = c /\ Head(sites).node = n
    BY <1>2, <1>3, <1>6 DEF Site
  <2>2. contexts[c].worklist \in Seq(Node \cup {NULL})
    BY ContextsDomain, ContextFields DEF TypeInv
  <2>3. CASE getLastWorklist(c) = NULL
    <3>1. /\ contexts'[c] = [contexts[c] EXCEPT !.worklist = Append(@, n)]
          /\ contexts[c] \in Context
      BY <1>6, <2>1, <2>3, NotifiedCaller, ContextsDomain DEF TypeInv
    <3>2. contexts'[c].worklist = Append(contexts[c].worklist, n)
      BY <3>1 DEF Context
    <3>3. QED
      BY <2>2, <3>2, RangeAppend DEF Pending
  <2>4. CASE getLastWorklist(c) # NULL
    <3>1. contexts' = contexts /\ contexts[c].worklist # <<>>
      BY <1>6, <2>1, <2>4, NotifiedCaller DEF getLastWorklist
    <3>2. PICK p \in Range(contexts[c].worklist) \cap Node : HasCall(p)
      BY <1>1, <3>1 DEF WaitInv, Waiting
    <3>3. p \in Range(module.blocks[f])
      BY <3>2, NULLAssumption DEF PlaceInv, Started, StartedIn
    <3>4. HasCall(n)
      BY <1>2, <2>1 DEF WaitInv, Range, Site
    <3>5. p = n
      BY <3>2, <3>3, <3>4, CallsOfMethod DEF HasCall
    <3>6. QED
      BY <3>1, <3>2, <3>5 DEF Pending
  <2>5. QED
    BY <2>3, <2>4
<1>7. QED
  BY <1>4, <1>5, <1>6

LEMMA SolveIdle ==
  ASSUME TypeInv, InverseInv, PlaceInv, WaitInv, RightPrograms, [Next]_vars,
         NEW c \in DOMAIN contexts, NEW f \in Method, contexts[c].method = f,
         NEW n \in Range(module.blocks[f]), n \in Node, ~Busy(c, n),
         \/ Virgin(c, f, n)
         \/ contexts[c].after[n] # topValue /\ (Told(c, n) \/ Ran(c, n))
  PROVE  Solved(c, f, n)'
<1>1. /\ contexts'[c].before[n] = contexts[c].before[n]
      /\ contexts'[c].after[n] = contexts[c].after[n]
      /\ module' = module
  BY IdleValues, Identity DEF SameIdentity
<1>2. CASE Virgin(c, f, n)
  BY <1>1, <1>2 DEF Solved, Virgin, EntryNode
<1>3. CASE contexts[c].after[n] # topValue /\ Told(c, n)
  BY <1>1, <1>3, SolveTold DEF Solved, RightPrograms
<1>4. CASE contexts[c].after[n] # topValue /\ Told(c, n)'
  BY <1>1, <1>4 DEF Solved
<1>5. CASE contexts[c].after[n] # topValue /\ Ran(c, n) /\ ~Told(c, n)'
  <2>0. PICK m : m = Len(module.code[n])
    OBVIOUS
  <2>1. PICK h : IsRun(h, m, c, n) /\ Below(contexts[c].after[n], h[m])
    BY <1>5, <2>0 DEF Ran
  <2>2. m \in Nat
    BY <2>0, ModuleType DEF TypeInv, TypeOK
  <2>3. ~(c = current /\ n = node) \/ UNCHANGED tableVars
    BY TableStep DEF Recorded, AtCall, AtInstruction, Busy
  <2>4. IsRun(h, m, c, n)'
    BY <1>1, <1>5, <2>1, <2>2, <2>3, RunKept
  <2>5. \A k : k = Len(module'.code[n]) => IsRun(h, k, c, n)' /\ Below(contexts'[c].after[n], h[k])
    BY <1>1, <2>0, <2>1, <2>4
  <2>6. Ran(c, n)'
    BY <2>5 DEF Ran, IsRun, RunStep, Linked, Target
  <2>7. QED
    BY <1>1, <1>5, <2>6 DEF Solved
<1>6. QED
  BY <1>2, <1>3, <1>4, <1>5

LEMMA StartsPendingOrVirgin ==
  ASSUME TypeInv, CallNewContext, NEW c \in DOMAIN contexts', c \notin DOMAIN contexts,
         NEW f \in Method, contexts'[c].method = f, NEW n \in Node
  PROVE  Pending(c, n)' \/ Virgin(c, f, n)'
<1>1. contexts'[c] = InitContext(insn.callee, entryValue) /\ module' = module
  BY NewContext DEF CallNewContext
<1>2. f = insn.callee
  BY <1>1 DEF InitContext
<1>3. CASE n = EntryNode(f)
  <2>1. contexts'[c].worklist = <<n>>
    BY <1>1, <1>2, <1>3 DEF InitContext
  <2>2. Range(<<n>>) = {n}
    BY SingleRange
  <2>3. QED
    BY <2>1, <2>2 DEF Pending
<1>4. CASE n # EntryNode(f)
  <2>1. contexts'[c].before[n] = topValue /\ contexts'[c].after[n] = topValue
    BY <1>1, <1>2, <1>4 DEF InitContext
  <2>2. QED
    BY <1>1, <1>4, <2>1 DEF Virgin, EntryNode
<1>5. QED
  BY <1>3, <1>4

LEMMA SolveStep ==
  ASSUME TypeInv, InverseInv, PlaceInv, AbortInv, WaitInv, RunInv, SolveInv, [Next]_vars
  PROVE  SolveInv'
<1> SUFFICES ASSUME RightPrograms', at' # "aborted", NEW c \in DOMAIN contexts', NEW f \in Method,
                    contexts'[c].method = f, NEW n \in Range(module'.blocks[f])
             PROVE  Solved(c, f, n)'
  BY DEF SolveInv
<1>1. RightPrograms /\ at # "aborted" /\ module' = module
  BY SamePrograms, StaysAborted, Identity DEF SameIdentity
<1>2. n \in Range(module.blocks[f]) /\ n \in Node
  BY <1>1, ModuleType, RangeOfSeq DEF TypeInv, TypeOK
<1>3. CASE c \notin DOMAIN contexts
  <2>1. CallNewContext
    BY <1>3, Identity DEF SameIdentity
  <2>2. Pending(c, n)' \/ Virgin(c, f, n)'
    BY <1>2, <1>3, <2>1, StartsPendingOrVirgin
  <2>3. QED
    BY <2>2 DEF Solved
<1>4. CASE c \in DOMAIN contexts
  <2>1. contexts[c].method = f
    BY <1>4, Identity DEF SameIdentity
  <2>2. Solved(c, f, n)
    BY <1>1, <1>2, <1>4, <2>1 DEF SolveInv
  <2>3. CASE Busy(c, n)
    BY <1>1, <1>2, <1>4, <2>1, <2>3, SolveBusy
  <2>4. CASE Pending(c, n)
    BY <1>2, <1>4, <2>4, SolvePending DEF Solved
  <2>5. CASE ~Busy(c, n) /\ ~Pending(c, n)
    BY <1>1, <1>2, <1>4, <2>1, <2>2, <2>5, SolveIdle DEF Solved
  <2>6. QED
    BY <2>3, <2>4, <2>5
<1>5. QED
  BY <1>3, <1>4

LEMMA InitPendingOrVirgin ==
  ASSUME Init, NEW n \in Node
  PROVE  Pending(1, n) \/ Virgin(1, module.main, n)
<1>1. contexts[1] = InitContext(module.main, topValue)
  BY DEF Init
<1>2. contexts[1].worklist = <<EntryNode(module.main)>>
  BY <1>1 DEF InitContext
<1>3. Pending(1, EntryNode(module.main))
  BY <1>2, SingleRange DEF Pending
<1>4. QED
  BY <1>1, <1>3 DEF Virgin, InitContext

LEMMA SolveInit ==
  ASSUME Init
  PROVE  RunInv /\ SolveInv
<1>1. DOMAIN contexts = {1} /\ at = "loop" /\ contexts[1].method = module.main
  BY DEF Init, InitContext
<1>2. \A f \in Method : Range(module.blocks[f]) \subseteq Node
  BY TypeInit, ModuleType, RangeOfSeq DEF TypeInv, TypeOK
<1>3. QED
  BY <1>1, <1>2, InitPendingOrVirgin DEF RunInv, SolveInv, Solved

LEMMA NothingLeft ==
  ASSUME PendingIsScheduled, Done, NEW c \in DOMAIN contexts, NEW n
  PROVE  ~Pending(c, n) /\ ~Busy(c, n) /\ ~Told(c, n)
<1>1. at = "loop" /\ contexts[c].worklist = <<>> /\ Range(<<>>) = {}
  BY DEF Done, PendingIsScheduled, Range
<1>2. QED
  BY <1>1 DEF Pending, Busy, Told

\* If only virgin blocks have no value at the end, every block a path leads to has
\* one: the entry has, and a block one of whose predecessors has.
LEMMA ReachedHasValue ==
  ASSUME TypeInv, EdgesRespected, PendingIsScheduled, Done, NEW c \in DOMAIN contexts,
         \A p \in Range(module.blocks[contexts[c].method]) :
           Virgin(c, contexts[c].method, p) \/ contexts[c].after[p] # topValue,
         NEW n \in Reached(contexts[c].method)
  PROVE  n \in Range(module.blocks[contexts[c].method]) /\ contexts[c].after[n] # topValue
<1> DEFINE f  == contexts[c].method
           ns == {p \in Range(module.blocks[f]) : contexts[c].after[p] # topValue}
<1>1. \A p : ~Pending(c, p) /\ at = "loop"
  BY NothingLeft DEF Done
<1>2. f \in Method /\ module \in Module
  BY ContextValues DEF TypeInv, TypeOK
<1>3. Range(module.blocks[f]) \subseteq Node
  BY <1>2, ModuleType, RangeOfSeq
<1>4. \A p \in Range(module.blocks[f]) : Virgin(c, f, p) \/ p \in ns
  OBVIOUS
<1>5. EntryNode(f) \in ns
  BY <1>2, <1>4, BlocksType DEF Virgin
<1>6. ASSUME NEW p \in ns, NEW s \in Range(SuccsOf(p))
      PROVE  s \in ns
  <2>1. s \in Range(module.blocks[f]) /\ p \in Node
    BY <1>2, <1>3, BlocksType
  <2>2. Below(contexts[c].before[s], contexts[c].after[p])
    BY <1>1, <2>1 DEF EdgesRespected, Pending
  <2>3. contexts[c].before[s] \in Values /\ contexts[c].after[p] \in Values
    BY <1>3, <2>1, ContextValues
  <2>4. contexts[c].before[s] # topValue
    BY <2>2, <2>3, BelowNotTop
  <2>5. QED
    BY <1>4, <2>1, <2>4 DEF Virgin
<1>7. ns \in SUBSET Node
  BY <1>3
<1>8. n \in ns
  <2> HIDE DEF ns
  <2> QED
    BY <1>5, <1>6, <1>7 DEF Reached, ReachedFrom
<1>9. QED
  BY <1>8

\* So every block a path leads to is run at the end.
LEMMA AllRan ==
  ASSUME TypeInv, EdgesRespected, PendingIsScheduled, SolveInv, Done, RightPrograms,
         NEW c \in DOMAIN contexts, NEW n \in Reached(contexts[c].method)
  PROVE  Ran(c, n)
<1> DEFINE f == contexts[c].method
<1>1. at = "loop" /\ f \in Method
  BY ContextValues DEF Done, TypeInv
<1>2. \A p : ~Pending(c, p) /\ ~Busy(c, p) /\ ~Told(c, p)
  BY NothingLeft
<1>3. \A p \in Range(module.blocks[f]) :
        Virgin(c, f, p) \/ (contexts[c].after[p] # topValue /\ Ran(c, p))
  BY <1>1, <1>2 DEF SolveInv, Solved
<1>4. n \in Range(module.blocks[f]) /\ contexts[c].after[n] # topValue
  BY <1>3, ReachedHasValue
<1>5. QED
  BY <1>3, <1>4 DEF Virgin

LEMMA Solution ==
  ASSUME TypeInv, TargetInv, UniqueValueContexts, EdgesRespected, PendingIsScheduled, SolveInv
  PROVE  SolutionIfCallsApart
<1> SUFFICES ASSUME Done, RightPrograms, NEW c \in DOMAIN contexts,
                    NEW n \in Reached(contexts[c].method)
             PROVE  Below(contexts[c].after[n], FlowOf(c, n))
  BY DEF SolutionIfCallsApart, ResultIsSolution, RightPrograms
<1> DEFINE m == Len(module.code[n])
<1>1. PICK h : IsRun(h, m, c, n) /\ Below(contexts[c].after[n], h[m])
  BY AllRan DEF Ran
<1>2. m \in Nat
  BY ModuleType DEF TypeInv, TypeOK, Reached, ReachedFrom
<1> HIDE DEF m
<1>3. h[m] = Flow(c, n)[m]
  BY <1>1, <1>2, RunIsFlow
<1>4. QED
  BY <1>1, <1>3 DEF FlowOf, m

-----------------------------------------------------------------------------
(* The operands.  A node leaves the loop only when all its instructions    *)
(* have been taken, or to wait for a call: so wherever the analysis ends,  *)
(* what an instruction reads has a sign before the block or is defined in  *)
(* it.                                                                     *)

\* The names with a sign before instruction k of node n.
Given(c, n, k) ==
  {x \in Name : \/ contexts[c].before[n][x] # Absent
                \/ x \in DefinedIn(SubSeq(module.code[n], 1, k - 1))}

OperandsGiven(c, n, k) ==
  \A j \in DOMAIN module.code[n][k].operands :
    LET operand == module.code[n][k].operands[j] IN
    operand.kind = "name" => operand.name \in Given(c, n, k)

Ready(c, n) == \A k \in 1..Len(module.code[n]) : OperandsGiven(c, n, k)

\* Before instruction k, with value v.
Passed(c, n, k, v) ==
  /\ \A j \in 1..k - 1 : OperandsGiven(c, n, j)
  /\ \A x \in Name : v[x] # Absent => x \in Given(c, n, k)

\* In a node: it waits for a call, or what has a sign is given.
PassedInv ==
  at = "flow" =>
    \/ pc > Len(module.code[node]) /\ node \in Range(this.worklist)
    \/ \A c, n, k, v : c = current /\ n = node /\ k = pc /\ v = value => Passed(c, n, k, v)

Usable(c, f, n) == \/ Pending(c, n)
                   \/ Busy(c, n)
                   \/ Virgin(c, f, n)
                   \/ contexts[c].after[n] # topValue /\ Ready(c, n)

ReadyInv ==
  EntriesDefine /\ at # "aborted" =>
    \A c \in DOMAIN contexts : \A f \in Method : contexts[c].method = f =>
      \A n \in Range(module.blocks[f]) : Usable(c, f, n)

LEMMA GivenKept ==
  ASSUME module' = module, NEW c, NEW n, contexts'[c].before[n] = contexts[c].before[n]
  PROVE  /\ \A k : Given(c, n, k)' = Given(c, n, k)
         /\ \A k : OperandsGiven(c, n, k)' <=> OperandsGiven(c, n, k)
         /\ Ready(c, n)' <=> Ready(c, n)
<1>1. ASSUME NEW k
      PROVE  Given(c, n, k)' = Given(c, n, k)
  BY DEF Given
<1>2. ASSUME NEW k
      PROVE  OperandsGiven(c, n, k)' <=> OperandsGiven(c, n, k)
  BY <1>1 DEF OperandsGiven
<1>3. Ready(c, n)' <=> Ready(c, n)
  BY <1>2 DEF Ready
<1>4. QED
  BY <1>1, <1>2, <1>3

LEMMA GivenNext ==
  ASSUME module \in Module, NEW c, NEW n \in Node, NEW k \in 1..Len(module.code[n])
  PROVE  LET i == module.code[n][k] IN
         Given(c, n, k + 1) =
           Given(c, n, k) \cup (IF i.op = "br" THEN {} ELSE {NameOf(i)} \cap Name)
<1>1. module.code[n] \in Seq(Instruction) /\ (k + 1) - 1 = k
  BY ModuleType
<1>2. DefinedIn(SubSeq(module.code[n], 1, k)) =
        DefinedIn(SubSeq(module.code[n], 1, k - 1))
          \cup (IF module.code[n][k].op = "br" THEN {} ELSE {NameOf(module.code[n][k])})
  BY <1>1, DefinedByPrefix
<1>3. QED
  BY <1>1, <1>2 DEF Given

\* What an instruction gives a sign to is the name it defines.
LEMMA FlowNames ==
  ASSUME TypeInv, FlowInstruction \/ CallKnownContext, NEW x \in Name, value'[x] # Absent
  PROVE  value[x] # Absent \/ (insn.op # "br" /\ x = NameOf(insn))
<1>1. insn \in Instruction /\ insn.def \in Name /\ value \in Values
  BY InstructionType, InstructionOperands DEF FlowInstruction, CallKnownContext, AtCall,
                                              TypeInv, TypeOK
<1>2. CASE FlowInstruction
  <2>1. value' = normalFlow(insn, value)
    BY <1>2 DEF FlowInstruction
  <2>2. QED
    BY <1>1, <2>1, NameAssumption DEF normalFlow, NameOf, Values
<1>3. CASE CallKnownContext
  <2> DEFINE w == callExitFlowFunction(insn, contexts[getContext(insn.callee, entryValue)].exitValue)
  <2>1. value' = meet(value, w) /\ insn.op = "call"
    BY <1>3 DEF CallKnownContext, AtCall
  <2>2. \A y \in Name : y # insn.def => w[y] = Absent
    BY <1>1 DEF callExitFlowFunction, topValue
  <2> HIDE DEF w
  <2>3. x = insn.def \/ value'[x] = IF value[x] = Absent THEN Absent ELSE value[x]
    BY <2>1, <2>2 DEF meet
  <2>4. QED
    BY <2>1, <2>3 DEF NameOf
<1>4. QED
  BY <1>2, <1>3

LEMMA PassedEnters ==
  ASSUME TypeInv, EnterNode
  PROVE  \A c, n, k, v : c = current' /\ n = node' /\ k = pc' /\ v = value' => Passed(c, n, k, v)'
<1> SUFFICES ASSUME NEW c, NEW n, NEW k, c = current', n = node', k = pc', NEW v, v = value'
             PROVE  Passed(c, n, k, v)'
  OBVIOUS
<1>1. /\ current \in DOMAIN contexts /\ node \in Node /\ c = current /\ n = node /\ k = 1
      /\ this \in Context
  BY EnteredNode, ContextsDomain DEF EnterNode, TypeInv, this
<1>2. v = contexts'[c].before[n]
  <2>1. CASE PredsOf(node) = {}
    BY <1>1, <2>1 DEF EnterNode, this
  <2>2. CASE PredsOf(node) # {}
    BY <1>1, <2>2, ValuesEntered DEF EnterNode
  <2>3. QED
    BY <2>1, <2>2
<1>3. 1..k - 1 = {}
  BY <1>1
<1>4. QED
  BY <1>2, <1>3 DEF Passed, Given

LEMMA PassedFlows ==
  ASSUME TypeInv, PassedInv, FlowInstruction \/ CallKnownContext
  PROVE  \A c, n, k, v : c = current' /\ n = node' /\ k = pc' /\ v = value' => Passed(c, n, k, v)'
<1> SUFFICES ASSUME NEW c, NEW n, NEW k1, c = current', n = node', k1 = pc', NEW v, v = value'
             PROVE  Passed(c, n, k1, v)'
  OBVIOUS
<1>1. /\ AtInstruction /\ at = "flow" /\ c = current /\ n = node /\ pc' = pc + 1
      /\ UNCHANGED <<module, contexts>> /\ OperandsDefined(value, insn)
  BY DEF FlowInstruction, CallKnownContext, AtCall, AtInstruction
<1>2. PICK k : k = pc
  OBVIOUS
<1>3. /\ n \in Node /\ k \in Nat /\ k1 = k + 1 /\ module \in Module /\ insn \in Instruction
      /\ k \in 1..Len(module.code[n]) /\ ~(k > Len(module.code[n])) /\ insn = module.code[n][k]
  <2>1. /\ n \in Node /\ pc \in Nat /\ module \in Module /\ insn \in Instruction
        /\ pc \in DOMAIN module.code[n]
    BY <1>1, InstructionType DEF TypeInv, TypeOK
  <2>2. DOMAIN module.code[n] = 1..Len(module.code[n]) /\ Len(module.code[n]) \in Nat
    BY <2>1, ModuleType, LenProperties
  <2>3. QED
    BY <1>1, <1>2, <2>1, <2>2 DEF insn
<1>4. Passed(c, n, k, value)
  BY <1>1, <1>2, <1>3 DEF PassedInv
<1>5. OperandsGiven(c, n, k)
  <2> SUFFICES ASSUME NEW j \in DOMAIN insn.operands, insn.operands[j].kind = "name"
               PROVE  insn.operands[j].name \in Given(c, n, k)
    BY <1>3 DEF OperandsGiven
  <2>1. j \in 1..Len(insn.operands) /\ insn.operands[j] \in Operand
    BY <1>3, InstructionOperands, LenProperties
  <2>2. insn.operands[j].name \in Name
    BY <2>1 DEF Operand
  <2>3. value[insn.operands[j].name] # Absent
    BY <1>1, <2>1 DEF OperandsDefined, IsDefined
  <2>4. QED
    BY <1>4, <2>2, <2>3 DEF Passed
<1>6. \A j \in 1..k1 - 1 : j \in 1..k - 1 \/ j = k
  BY <1>3
<1>7. \A j \in 1..k1 - 1 : OperandsGiven(c, n, j)
  BY <1>4, <1>5, <1>6 DEF Passed
<1>8. ASSUME NEW x \in Name, v[x] # Absent
      PROVE  x \in Given(c, n, k1)
  <2>1. value[x] # Absent \/ (insn.op # "br" /\ x = NameOf(insn))
    BY <1>8, FlowNames
  <2>2. x \in Given(c, n, k) \/ (insn.op # "br" /\ x = NameOf(insn))
    BY <1>4, <2>1 DEF Passed
  <2>3. QED
    BY <1>3, <2>2, GivenNext
<1>9. /\ Given(c, n, k1)' = Given(c, n, k1)
      /\ \A j : OperandsGiven(c, n, j)' <=> OperandsGiven(c, n, j)
  BY <1>1, GivenKept
<1>10. QED
  BY <1>7, <1>8, <1>9 DEF Passed

LEMMA PassedStep ==
  ASSUME TypeInv, PassedInv, [Next]_vars
  PROVE  PassedInv'
<1> SUFFICES ASSUME at' = "flow"
             PROVE  \/ pc' > Len(module'.code[node']) /\ node' \in Range(this'.worklist)
                    \/ \A c, n, k, v : c = current' /\ n = node' /\ k = pc' /\ v = value'
                         => Passed(c, n, k, v)'
  BY DEF PassedInv
<1>1. CASE EnterNode
  BY <1>1, PassedEnters
<1>2. CASE FlowInstruction \/ CallKnownContext
  BY <1>2, PassedFlows
<1>3. CASE CallNewContext
  BY <1>3, CallWaits
<1>4. CASE UNCHANGED vars
  <2>1. /\ at = "flow" /\ this' = this
        /\ UNCHANGED <<module, contexts, current, node, pc, value>>
    BY <1>4 DEF vars, locals, this
  <2>2. \A c, n, k, v : Passed(c, n, k, v)' <=> Passed(c, n, k, v)
    BY <2>1 DEF Passed, OperandsGiven, Given
  <2>3. QED
    BY <2>1, <2>2 DEF PassedInv
<1>5. CASE ~(EnterNode \/ FlowInstruction \/ CallKnownContext \/ CallNewContext \/ UNCHANGED vars)
  BY <1>5 DEF Next, Stutter, PopContext, TakeNode, TakeExitMarker, MeetPredecessor,
              MissingOperand, FinishNode, MeetTail, SetExit, NotifyCaller, Idle, locals
<1>6. QED
  BY <1>1, <1>2, <1>3, <1>4, <1>5

\* A node that is finished and does not wait is ready, and has a value after it.
LEMMA ReadyBusy ==
  ASSUME TypeInv, AbortInv, PassedInv, EntriesDefine, [Next]_vars, at' # "aborted",
         NEW c \in DOMAIN contexts, NEW f \in Method, contexts[c].method = f,
         NEW n \in Node, Busy(c, n)
  PROVE  Usable(c, f, n)'
<1>1. CASE ~FinishNode
  BY <1>1, StaysBusy DEF Usable
<1>2. CASE FinishNode
  <2>0. PICK m : m = Len(module.code[n])
    OBVIOUS
  <2>1. /\ at = "flow" /\ c = current /\ n = node /\ module' = module
        /\ pc > Len(module.code[node])
    BY <1>2 DEF Busy, FinishNode
  <2>2. CASE n \in Range(this.worklist)
    <3>1. Range(contexts[c].worklist) \subseteq Range(contexts'[c].worklist)
      BY <1>2, WorklistGrows DEF TakeNode, TakeExitMarker, FinishNode
    <3>2. QED
      BY <2>1, <2>2, <3>1 DEF Usable, Pending, this
  <2>3. CASE n \notin Range(this.worklist)
    <3>1. m \in Nat /\ pc = m + 1
      BY <1>2, <2>0, <2>1, FinishedAt
    <3>2. Passed(c, n, m + 1, value)
      BY <2>1, <2>3, <3>1 DEF PassedInv
    <3>3. Ready(c, n)
      <4>1. 1..(m + 1) - 1 = 1..m
        BY <3>1
      <4>2. QED
        BY <2>0, <3>2, <4>1 DEF Ready, Passed
    <3>4. contexts'[c].after[n] # topValue /\ contexts'[c].before[n] = contexts[c].before[n]
      BY <1>2, <2>1, <2>3, FinishedWithValue
    <3>5. Ready(c, n)'
      BY <2>1, <3>3, <3>4, GivenKept
    <3>6. QED
      BY <3>4, <3>5 DEF Usable
  <2>4. QED
    BY <2>2, <2>3
<1>3. QED
  BY <1>1, <1>2

LEMMA ReadyStep ==
  ASSUME TypeInv, AbortInv, PassedInv, ReadyInv, [Next]_vars
  PROVE  ReadyInv'
<1> SUFFICES ASSUME EntriesDefine', at' # "aborted", NEW c \in DOMAIN contexts', NEW f \in Method,
                    contexts'[c].method = f, NEW n \in Range(module'.blocks[f])
             PROVE  Usable(c, f, n)'
  BY DEF ReadyInv
<1>1. EntriesDefine /\ at # "aborted" /\ module' = module
  BY SamePrograms, StaysAborted, Identity DEF SameIdentity
<1>2. n \in Range(module.blocks[f]) /\ n \in Node
  BY <1>1, ModuleType, RangeOfSeq DEF TypeInv, TypeOK
<1>3. CASE c \notin DOMAIN contexts
  <2>1. CallNewContext
    BY <1>3, Identity DEF SameIdentity
  <2>2. Pending(c, n)' \/ Virgin(c, f, n)'
    BY <1>2, <1>3, <2>1, StartsPendingOrVirgin
  <2>3. QED
    BY <2>2 DEF Usable
<1>4. CASE c \in DOMAIN contexts
  <2>1. contexts[c].method = f
    BY <1>4, Identity DEF SameIdentity
  <2>2. Usable(c, f, n)
    BY <1>1, <1>2, <1>4, <2>1 DEF ReadyInv
  <2>3. CASE Busy(c, n)
    BY <1>1, <1>2, <1>4, <2>1, <2>3, ReadyBusy
  <2>4. CASE Pending(c, n)
    BY <1>2, <1>4, <2>4, SolvePending DEF Usable
  <2>5. CASE ~Busy(c, n) /\ ~Pending(c, n)
    <3>1. /\ contexts'[c].before[n] = contexts[c].before[n]
          /\ contexts'[c].after[n] = contexts[c].after[n]
      BY <1>2, <1>4, <2>5, IdleValues
    <3>2. CASE Virgin(c, f, n)
      BY <1>1, <3>1, <3>2 DEF Usable, Virgin, EntryNode
    <3>3. CASE contexts[c].after[n] # topValue /\ Ready(c, n)
      <4>1. Ready(c, n)'
        BY <1>1, <3>1, <3>3, GivenKept
      <4>2. QED
        BY <3>1, <3>3, <4>1 DEF Usable
    <3>4. QED
      BY <2>2, <2>5, <3>2, <3>3 DEF Usable
  <2>6. QED
    BY <2>3, <2>4, <2>5
<1>5. QED
  BY <1>3, <1>4

LEMMA ReadyInit ==
  ASSUME Init
  PROVE  PassedInv /\ ReadyInv
<1>1. DOMAIN contexts = {1} /\ at = "loop" /\ contexts[1].method = module.main
  BY DEF Init, InitContext
<1>2. \A f \in Method : Range(module.blocks[f]) \subseteq Node
  BY TypeInit, ModuleType, RangeOfSeq DEF TypeInv, TypeOK
<1>3. QED
  BY <1>1, <1>2, InitPendingOrVirgin DEF PassedInv, ReadyInv, Usable

\* At the end the operands of every block a path leads to are given.
LEMMA AllReady ==
  ASSUME TypeInv, EdgesRespected, PendingIsScheduled, ReadyInv, Done, EntriesDefine,
         NEW c \in DOMAIN contexts, NEW n \in Reached(contexts[c].method)
  PROVE  Ready(c, n)
<1> DEFINE f == contexts[c].method
<1>1. at = "loop" /\ f \in Method
  BY ContextValues DEF Done, TypeInv
<1>2. \A p : ~Pending(c, p) /\ ~Busy(c, p)
  BY NothingLeft
<1>3. \A p \in Range(module.blocks[f]) :
        Virgin(c, f, p) \/ (contexts[c].after[p] # topValue /\ Ready(c, p))
  BY <1>1, <1>2 DEF ReadyInv, Usable
<1>4. n \in Range(module.blocks[f]) /\ contexts[c].after[n] # topValue
  BY <1>3, ReachedHasValue
<1>5. QED
  BY <1>3, <1>4 DEF Virgin

-----------------------------------------------------------------------------
(* The invariant of doAnalysis, everything together.                       *)

EngineInv ==
  /\ TypeInv /\ UniqueValueContexts /\ WorkInv /\ MarkerInv /\ ExitInv /\ EdgeInv
  /\ EntryKept /\ InverseInv /\ PlaceInv
  /\ AbortInv
  /\ ScheduleInv /\ CoverInv
  /\ WaitInv /\ RunInv /\ SolveInv
  /\ PassedInv /\ ReadyInv

LEMMA EngineInit ==
  ASSUME Init
  PROVE  EngineInv
BY TypeInit, UniqueInit, WorkInit, MarkerInit, ExitInit, EdgeInit, EntryInit, InverseInit,
   PlaceInit, AbortInit, ScheduleInit, WaitInit, SolveInit, ReadyInit DEF EngineInv

LEMMA EngineStep ==
  ASSUME EngineInv, [Next]_vars
  PROVE  EngineInv'
<1> USE DEF EngineInv
<1>1. TypeInv'
  BY TypeStep
<1>2. UniqueValueContexts' /\ WorkInv' /\ MarkerInv'
  BY UniqueStep, WorkStep, MarkerStep
<1>3. ExitInv' /\ EdgeInv' /\ EntryKept'
  BY <1>1, ExitStep, EdgeInvStep, EntryStep
<1>4. InverseInv' /\ PlaceInv'
  BY <1>1, InverseStep, PlaceStep
<1>5. AbortInv'
  BY AbortStep, MarkedIsAlone
<1>6. ScheduleInv' /\ CoverInv'
  BY ScheduleStep, CoverStep
<1>7. WaitInv' /\ RunInv' /\ SolveInv'
  BY WaitStep, RunInvStep, SolveStep
<1>8. PassedInv' /\ ReadyInv'
  BY PassedStep, ReadyStep
<1>9. QED
  BY <1>1, <1>2, <1>3, <1>4, <1>5, <1>6, <1>7, <1>8

LEMMA EngineInvariant == Spec => []EngineInv
BY EngineInit, EngineStep, PTL DEF Spec

LEMMA EngineResult == EngineInv => ExitCoversIfBranchesReturn /\ SolutionIfCallsApart
BY ExitsCovered, Solution DEF EngineInv, WorkInv, EdgeInv, InverseInv

\* An assertion on an operand fails only if the program has a path on which
\* the operand has no definition, for every module: whatever is met, called,
\* queued again or waiting for a call, no name that is defined is lost.
THEOREM AbortsForAReason == Spec => []AbortsOnlyIfUndefined
<1>1. EngineInv => AbortsOnlyIfUndefined
  BY DEF EngineInv, AbortInv, AbortsOnlyIfUndefined
<1>2. QED
  BY <1>1, EngineInvariant, PTL

\* No return is missed where branches lead to returns only, for every module:
\* what a context hands to its callers is below the value after each of its
\* returning blocks, however often calls came back to it.
THEOREM ExitsComplete == Spec => []ExitCoversIfBranchesReturn
BY EngineInvariant, EngineResult, PTL

\* The result is a solution, for every module in which the calls of every method are
\* in one block and of different methods, and a name has a sign after every entry: the value after every block is below
\* what the block makes of the value before it and of the final exit values of
\* the contexts it calls, recursion and loops included.
THEOREM ResultSolvesIfCallsApart == Spec => []SolutionIfCallsApart
BY EngineInvariant, EngineResult, PTL

-----------------------------------------------------------------------------
(* What doAnalysis leaves behind.                                          *)

\* When nothing is left to do every edge is respected.
LEMMA EdgesDone ==
  ASSUME EngineInv, Done, NEW c \in DOMAIN contexts, NEW p \in Node, NEW n \in Range(SuccsOf(p))
  PROVE  Below(contexts[c].before[n], contexts[c].after[p])
<1>1. Range(workList) = {} /\ at = "loop"
  BY DEF Done, Range
<1>2. contexts[c].worklist = <<>>
  BY <1>1 DEF EngineInv, WorkInv, PendingIsScheduled
<1>3. Range(contexts[c].worklist) = {}
  BY <1>2 DEF Range
<1>4. QED
  BY <1>1, <1>3 DEF EngineInv, EdgeInv, EdgesRespected

-----------------------------------------------------------------------------
(* A frame, and what one instruction makes of it.                          *)

FrameInv(f) ==
  /\ f.context \in DOMAIN contexts
  /\ f.node \in Reached(contexts[f.context].method)
  /\ f.pc \in Nat \ {0}
  /\ f.store \in Stores
  /\ f.value = Flow(f.context, f.node)[f.pc - 1]
  /\ IsMap(f.value)
  /\ Covers(f.store, f.value)

\* A frame stands before the call the next one was made by.
Waits(f, g) ==
  LET call == module.code[f.node][f.pc] IN
  /\ f.pc <= Len(module.code[f.node])
  /\ call.op = "call"
  /\ ContextsOf(call.callee, CalleeEntry(call, f)) # {}
  /\ g.context = getContext(call.callee, CalleeEntry(call, f))

LEMMA ReachedBlocks ==
  ASSUME module \in Module, NEW f \in Method
  PROVE  /\ EntryNode(f) \in Reached(f)
         /\ Reached(f) \subseteq Node \cap Range(module.blocks[f])
         /\ \A n \in Reached(f) : Range(SuccsOf(n)) \subseteq Reached(f)
<1>1. EntryNode(f) \in Node \cap Range(module.blocks[f])
  <2>1. module.blocks[f] \in Seq(Node) /\ module.blocks[f] # <<>>
    BY ModuleType DEF Module, WellFormed
  <2>2. 1 \in DOMAIN module.blocks[f]
    BY <2>1, EmptySeq, LenProperties
  <2>3. QED
    BY <2>1, <2>2, RangeOfSeq DEF EntryNode, Range
<1>2. \A n \in Range(module.blocks[f]) : Range(SuccsOf(n)) \subseteq Range(module.blocks[f])
  BY DEF Module, WellFormed, SuccsOf
<1>3. Range(module.blocks[f]) \subseteq Node
  BY ModuleType, RangeOfSeq
<1>4. Reached(f) \subseteq Range(module.blocks[f])
  BY <1>1, <1>2, <1>3 DEF Reached, ReachedFrom
<1>5. QED
  BY <1>1, <1>3, <1>4, ReachedOn DEF Reached

LEMMA SameReached ==
  ASSUME module' = module, NEW f
  PROVE  Reached(f)' = Reached(f)
BY DEF Reached, ReachedFrom, EntryNode, SuccsOf

LEMMA TerminatorIsLast ==
  ASSUME module \in Module, NEW n \in Node, NEW i \in 1..Len(module.code[n]),
         module.code[n][i].op \in {"ret", "br"}
  PROVE  i = Len(module.code[n])
<1>1. DOMAIN module.code[n] = 1..Len(module.code[n])
  BY ModuleType, LenProperties
<1>2. QED
  BY <1>1 DEF Module, WellFormed

LEMMA FrameType ==
  ASSUME EngineInv, NEW f, FrameInv(f)
  PROVE  /\ module \in Module
         /\ contexts[f.context].method \in Method
         /\ f.node \in Node
         /\ f.pc \in Nat /\ f.pc - 1 \in Nat /\ (f.pc - 1) + 1 = f.pc
         /\ f.pc <= Len(module.code[f.node]) =>
              /\ f.pc \in 1..Len(module.code[f.node])
              /\ module.code[f.node][f.pc] \in Instruction
         /\ \A n \in Node : /\ contexts[f.context].before[n] \in Values
                            /\ contexts[f.context].after[n] \in Values
         /\ contexts[f.context].exitValue \in Values
         /\ Flow(f.context, f.node)[f.pc] = FlowStep(f.value, module.code[f.node][f.pc])
<1>1. module \in Module
  BY DEF EngineInv, TypeInv, TypeOK
<1>2. /\ contexts[f.context].method \in Method
      /\ \A n \in Node : /\ contexts[f.context].before[n] \in Values
                         /\ contexts[f.context].after[n] \in Values
      /\ contexts[f.context].exitValue \in Values
  BY ContextValues DEF EngineInv, FrameInv
<1>3. f.node \in Node
  BY <1>1, <1>2, ReachedBlocks DEF FrameInv
<1>4. f.pc \in Nat /\ f.pc - 1 \in Nat /\ (f.pc - 1) + 1 = f.pc /\ f.pc >= 1
  BY DEF FrameInv
<1>5. Len(module.code[f.node]) \in Nat
  BY <1>1, <1>3, ModuleType
<1>6. f.pc <= Len(module.code[f.node]) => f.pc \in 1..Len(module.code[f.node])
  BY <1>4, <1>5
<1>7. f.pc <= Len(module.code[f.node]) => module.code[f.node][f.pc] \in Instruction
  BY <1>1, <1>3, <1>6, ModuleType
<1>8. Flow(f.context, f.node)[f.pc] = FlowStep(f.value, module.code[f.node][f.pc])
  <2>1. f.value = Flow(f.context, f.node)[f.pc - 1]
    BY DEF FrameInv
  <2>2. QED
    BY <1>4, <2>1, FlowUnfolds
<1>9. QED
  BY <1>1, <1>2, <1>3, <1>4, <1>6, <1>7, <1>8

\* A frame entered in a context whose entry value covers its store.
LEMMA EnteredFrame ==
  ASSUME EngineInv, NEW c \in DOMAIN contexts, NEW store \in Stores,
         Covers(store, contexts[c].entryValue)
  PROVE  FrameInv(EntryFrame(c, store))
<1> DEFINE n == EntryNode(contexts[c].method)
           v == contexts[c].before[n]
<1>1. module \in Module /\ contexts[c].method \in Method
  BY ContextValues DEF EngineInv, TypeInv, TypeOK
<1>2. n \in Reached(contexts[c].method) /\ n \in Node
  BY <1>1, ReachedBlocks
<1>3. v = contexts[c].entryValue /\ v \in Values
  BY <1>2, ContextValues DEF EngineInv, EntryKept
<1>4. v = Flow(c, n)[0] /\ IsMap(v)
  BY <1>3, FlowUnfolds DEF IsMap, Values
<1>5. EntryFrame(c, store) = [context |-> c, node |-> n, pc |-> 1, store |-> store, value |-> v]
  BY DEF EntryFrame, Frame
<1>6. QED
  <2> HIDE DEF n, v
  <2>1. 1 \in Nat \ {0} /\ 1 - 1 = 0
    OBVIOUS
  <2>2. QED
    BY <1>2, <1>3, <1>4, <1>5, <2>1 DEF FrameInv

LEMMA ComputedFrame ==
  ASSUME EngineInv, NEW f, FrameInv(f), f.pc <= Len(module.code[f.node]),
         module.code[f.node][f.pc].op \in OpCode \ {"call", "br", "ret"},
         NEW v \in Results(module.code[f.node][f.pc], f.store) \cap Stored
  PROVE  FrameInv(Frame(f.context, f.node, f.pc + 1,
                        [f.store EXCEPT ![module.code[f.node][f.pc].def] = v],
                        normalFlow(module.code[f.node][f.pc], f.value)))
<1> DEFINE i   == module.code[f.node][f.pc]
           st  == [f.store EXCEPT ![i.def] = v]
           val == normalFlow(i, f.value)
           g   == Frame(f.context, f.node, f.pc + 1, st, val)
<1>1. i \in Instruction /\ f.pc \in Nat
  BY FrameType
<1>2. v \in Int \cup {Undef}
  BY RepresentableAssumption DEF Stored
<1>3. Defines(i) = i.def
  BY DEF Defines
<1>4. f.store \in Stores /\ IsMap(f.value) /\ Covers(f.store, f.value)
  BY DEF FrameInv
<1>5. IsMap(val) /\ st \in Stores /\ Covers(st, val)
  <2> HIDE DEF i
  <2>1. i.op \notin {"call", "br"}
    BY DEF i
  <2>2. v \in Results(i, f.store)
    BY DEF i
  <2>3. QED
    BY <1>1, <1>2, <1>3, <1>4, <2>1, <2>2, InstructionCovered
<1>6. Flow(f.context, f.node)[f.pc] = val
  BY FrameType DEF FlowStep
<1>7. f.pc + 1 \in Nat \ {0} /\ (f.pc + 1) - 1 = f.pc
  BY <1>1
<1>8. /\ g.context = f.context /\ g.node = f.node
      /\ g.pc = f.pc + 1 /\ g.store = st /\ g.value = val
  BY DEF Frame
<1>9. FrameInv(g)
  <2> HIDE DEF st, val, g
  <2> QED
    BY <1>5, <1>6, <1>7, <1>8 DEF FrameInv
<1>10. QED
  BY <1>9

LEMMA BranchedFrame ==
  ASSUME EngineInv, Done, ResultIsSolution, NEW f, FrameInv(f),
         f.pc <= Len(module.code[f.node]), module.code[f.node][f.pc].op = "br",
         NEW n \in Range(SuccsOf(f.node))
  PROVE  FrameInv(Frame(f.context, n, 1, f.store, contexts[f.context].before[n]))
<1> DEFINE c == f.context
           b == contexts[c].before[n]
           a == contexts[c].after[f.node]
           g == Frame(c, n, 1, f.store, b)
<1>1. /\ c \in DOMAIN contexts /\ f.node \in Reached(contexts[c].method)
      /\ f.store \in Stores /\ Covers(f.store, f.value)
  BY DEF FrameInv
<1>2. module \in Module /\ contexts[c].method \in Method /\ f.node \in Node
  BY FrameType
<1>3. n \in Reached(contexts[c].method) /\ n \in Node
  BY <1>1, <1>2, ReachedBlocks
<1>4. a \in Values /\ b \in Values
  BY <1>2, <1>3, FrameType
<1>5. FlowOf(c, f.node) = f.value
  <2>1. f.pc = Len(module.code[f.node])
    BY <1>2, FrameType, TerminatorIsLast
  <2>2. Flow(c, f.node)[f.pc] = f.value
    BY FrameType DEF FlowStep, normalFlow
  <2>3. QED
    BY <2>1, <2>2 DEF FlowOf
<1>6. Covers(f.store, a)
  <2>1. Below(a, FlowOf(c, f.node))
    BY <1>1 DEF ResultIsSolution
  <2>2. QED
    <3> HIDE DEF a
    <3> QED
      BY <1>1, <1>4, <1>5, <2>1, CoversBelow
<1>7. Covers(f.store, b)
  <2>1. Below(b, a)
    BY <1>1, <1>2, EdgesDone
  <2>2. QED
    <3> HIDE DEF a, b
    <3> QED
      BY <1>1, <1>4, <1>6, <2>1, CoversBelow
<1>8. b = Flow(c, n)[0] /\ IsMap(b)
  BY <1>4, FlowUnfolds DEF IsMap, Values
<1>9. /\ g.context = c /\ g.node = n
      /\ g.pc = 1 /\ g.store = f.store /\ g.value = b
  BY DEF Frame
<1>10. FrameInv(g)
  <2> HIDE DEF b, g
  <2>1. 1 \in Nat \ {0} /\ 1 - 1 = 0
    OBVIOUS
  <2>2. QED
    BY <1>1, <1>3, <1>7, <1>8, <1>9, <2>1 DEF FrameInv
<1>11. QED
  BY <1>10

\* The frame of a call, in the context the analysis finds for it.
LEMMA CalledFrame ==
  ASSUME EngineInv, NEW f, FrameInv(f),
         f.pc <= Len(module.code[f.node]), module.code[f.node][f.pc].op = "call",
         ContextsOf(module.code[f.node][f.pc].callee,
                    CalleeEntry(module.code[f.node][f.pc], f)) # {}
  PROVE  LET i == module.code[f.node][f.pc]
             g == EntryFrame(getContext(i.callee, CalleeEntry(i, f)),
                             Arguments(i, module.params[i.callee], f.store))
         IN FrameInv(g) /\ Waits(f, g)
<1> DEFINE i     == module.code[f.node][f.pc]
           entry == CalleeEntry(i, f)
           c     == getContext(i.callee, entry)
           st    == Arguments(i, module.params[i.callee], f.store)
<1>1. /\ module \in Module /\ f.node \in Node /\ f.pc \in 1..Len(module.code[f.node])
      /\ i \in Instruction
  BY FrameType
<1>2. Len(module.params[i.callee]) = Len(i.operands) /\ i.callee \in Method
  BY <1>1, ModuleType, InstructionOperands
<1>3. module.params[i.callee] \in Seq(Name)
  BY <1>1, <1>2, ModuleType
<1>4. st \in Stores /\ Covers(st, entry)
  <2> HIDE DEF i
  <2>1. f.store \in Stores /\ Covers(f.store, f.value)
    BY DEF FrameInv
  <2>2. QED
    BY <1>1, <1>2, <1>3, <2>1, EntryCovered DEF CalleeEntry
<1>5. c \in DOMAIN contexts /\ contexts[c].entryValue = entry
  BY GetContext DEF EngineInv, TypeInv
<1>6. FrameInv(EntryFrame(c, st))
  <2> HIDE DEF st, c, entry
  <2> QED
    BY <1>4, <1>5, EnteredFrame
<1>7. EntryFrame(c, st).context = c
  BY DEF EntryFrame, Frame
<1>8. Waits(f, EntryFrame(c, st))
  BY <1>7 DEF Waits
<1>9. QED
  BY <1>6, <1>8

\* What a frame returns has the sign of "return" in its context's exit value.
LEMMA ReturnedSign ==
  ASSUME EngineInv, Done, ResultIsSolution, ExitCoversTails, NEW g, FrameInv(g),
         g.pc <= Len(module.code[g.node]), module.code[g.node][g.pc].op = "ret"
  PROVE  LET v == OperandValue(module.code[g.node][g.pc], g.store, 1) IN
         /\ v \in Int \cup {Undef}
         /\ SignCovers(v, contexts[g.context].exitValue[RETURN])
<1> DEFINE i    == module.code[g.node][g.pc]
           v    == OperandValue(i, g.store, 1)
           c    == g.context
           a    == contexts[c].after[g.node]
           exit == contexts[c].exitValue
           st   == [g.store EXCEPT ![RETURN] = v]
<1>1. /\ c \in DOMAIN contexts /\ g.node \in Reached(contexts[c].method)
      /\ g.store \in Stores /\ IsMap(g.value) /\ Covers(g.store, g.value)
  BY DEF FrameInv
<1>2. /\ module \in Module /\ g.node \in Node /\ i \in Instruction
      /\ g.pc \in 1..Len(module.code[g.node])
      /\ a \in Values /\ exit \in Values
  BY FrameType
<1>3. v \in Int \cup {Undef}
  <2>1. Len(i.operands) = 1
    BY <1>2, InstructionOperands DEF Copies
  <2>2. 1 \in 1..Len(i.operands)
    BY <2>1
  <2> HIDE DEF i
  <2>3. QED
    BY <1>1, <1>2, <2>2, OperandStored
<1>4. g.pc = Len(module.code[g.node])
  BY <1>2, TerminatorIsLast
<1>5. st \in Stores /\ Covers(st, FlowOf(c, g.node))
  <2>1. FlowOf(c, g.node) = normalFlow(i, g.value)
    BY <1>4, FrameType DEF FlowOf, FlowStep
  <2>2. Defines(i) = RETURN /\ v \in Results(i, g.store) /\ i.op \notin {"call", "br"}
    BY DEF Defines, Results, Copies
  <2> HIDE DEF i, v
  <2>3. QED
    BY <1>1, <1>2, <1>3, <2>1, <2>2, InstructionCovered
<1>6. Covers(st, a)
  <2>1. Below(a, FlowOf(c, g.node))
    BY <1>1 DEF ResultIsSolution
  <2> HIDE DEF a, st
  <2>2. QED
    BY <1>2, <1>5, <2>1, CoversBelow
<1>7. Covers(st, exit)
  <2>1. g.node \in TailsOf(contexts[c].method)
    <3>1. g.pc \in DOMAIN module.code[g.node]
      BY <1>2, ModuleType, LenProperties
    <3>2. g.node \in Range(module.blocks[contexts[c].method])
      BY <1>1, <1>2, FrameType, ReachedBlocks
    <3>3. QED
      BY <3>1, <3>2 DEF TailsOf
  <2>2. Below(exit, a)
    BY <1>1, <2>1 DEF ExitCoversTails
  <2> HIDE DEF a, st, exit
  <2>3. QED
    BY <1>2, <1>5, <1>6, <2>2, CoversBelow
<1>8. st[RETURN] = v /\ SignCovers(st[RETURN], exit[RETURN])
  BY <1>1, <1>7, NameAssumption DEF Stores, Covers
<1>9. QED
  BY <1>3, <1>8

LEMMA ResumedFrame ==
  ASSUME EngineInv, NEW f, FrameInv(f), NEW g, Waits(f, g),
         NEW v \in Int \cup {Undef}, SignCovers(v, contexts[g.context].exitValue[RETURN])
  PROVE  FrameInv(Resumed(f, v, contexts[g.context].exitValue))
<1> DEFINE i    == module.code[f.node][f.pc]
           exit == contexts[g.context].exitValue
           st   == [f.store EXCEPT ![i.def] = v]
           val  == meet(f.value, callExitFlowFunction(i, exit))
           h    == Frame(f.context, f.node, f.pc + 1, st, val)
<1>1. i.op = "call" /\ f.pc <= Len(module.code[f.node])
  BY DEF Waits
<1>2. i \in Instruction /\ f.pc \in Nat
  BY <1>1, FrameType
<1>3. IsMap(val) /\ st \in Stores /\ Covers(st, val)
  <2>1. f.store \in Stores /\ IsMap(f.value) /\ Covers(f.store, f.value)
    BY DEF FrameInv
  <2> HIDE DEF i, exit
  <2>2. SignCovers(v, exit[RETURN])
    BY DEF exit
  <2>3. QED
    BY <1>2, <2>1, <2>2, ReturnCovered
<1>4. Flow(f.context, f.node)[f.pc] = val
  <2>1. Returned(i, f.value) = exit
    BY DEF Returned, Waits, CalleeEntry
  <2>2. FlowStep(f.value, i) = val
    BY <1>1, <2>1 DEF FlowStep
  <2>3. QED
    BY <2>2, FrameType
<1>5. f.pc + 1 \in Nat \ {0} /\ (f.pc + 1) - 1 = f.pc
  BY <1>2
<1>6. /\ h.context = f.context /\ h.node = f.node
      /\ h.pc = f.pc + 1 /\ h.store = st /\ h.value = val
  BY DEF Frame
<1>7. FrameInv(h)
  <2> HIDE DEF st, val, h
  <2> QED
    BY <1>3, <1>4, <1>5, <1>6 DEF FrameInv
<1>8. h = Resumed(f, v, exit)
  BY DEF Resumed
<1>9. QED
  BY <1>7, <1>8

-----------------------------------------------------------------------------
(* The stack.                                                              *)

Frames(s) ==
  /\ s \in Seq(Range(s))
  /\ \A i \in DOMAIN s : FrameInv(s[i])
  /\ \A i \in DOMAIN s : i + 1 \in DOMAIN s => Waits(s[i], s[i + 1])

LEMMA FramesPush ==
  ASSUME NEW s, Frames(s), NEW g, FrameInv(g), s # <<>> => Waits(Last(s), g)
  PROVE  Frames(Append(s, g)) /\ Append(s, g) # <<>>
<1> DEFINE S == Range(s) \cup {g}
           t == Append(s, g)
<1>1. s \in Seq(S)
  <2>1. DOMAIN s = 1..Len(s) /\ s \in Seq(Range(s))
    BY LenProperties DEF Frames
  <2>2. \A i \in DOMAIN s : s[i] \in S
    BY DEF Range
  <2>3. QED
    BY <2>1, <2>2
<1>2. /\ t \in Seq(S) /\ Len(t) = Len(s) + 1 /\ Len(s) \in Nat
      /\ DOMAIN s = 1..Len(s) /\ DOMAIN t = 1..Len(s) + 1
      /\ \A i \in 1..Len(s) : t[i] = s[i]
      /\ t[Len(s) + 1] = g
  <2>1. t \in Seq(S) /\ Len(t) = Len(s) + 1 /\ Len(s) \in Nat
        /\ \A i \in 1..Len(s) : t[i] = s[i]
        /\ t[Len(s) + 1] = g
    BY <1>1, AppendProperties, LenProperties
  <2>2. DOMAIN s = 1..Len(s) /\ DOMAIN t = 1..Len(t)
    BY <1>1, <2>1, LenProperties
  <2>3. QED
    BY <2>1, <2>2
<1>3. Range(t) = S /\ t # <<>>
  BY <1>1, RangeAppend
<1>4. ASSUME NEW i \in DOMAIN t
      PROVE  FrameInv(t[i])
  <2>1. i \in DOMAIN s \/ i = Len(s) + 1
    BY <1>2
  <2>2. QED
    BY <1>2, <2>1 DEF Frames
<1>5. ASSUME NEW i \in DOMAIN t, i + 1 \in DOMAIN t
      PROVE  Waits(t[i], t[i + 1])
  <2>1. CASE i + 1 \in DOMAIN s
    <3>1. i \in DOMAIN s /\ t[i] = s[i] /\ t[i + 1] = s[i + 1]
      BY <1>2, <1>5, <2>1
    <3>2. QED
      BY <2>1, <3>1 DEF Frames
  <2>2. CASE i + 1 \notin DOMAIN s
    <3>1. i = Len(s) /\ i \in 1..Len(s) /\ i + 1 = Len(s) + 1
      BY <1>2, <1>5, <2>2
    <3>2. t[i] = s[Len(s)] /\ t[i + 1] = g /\ s # <<>>
      BY <1>1, <1>2, <3>1, EmptySeq
    <3>3. QED
      BY <3>2 DEF Last
  <2>3. QED
    BY <2>1, <2>2
<1>6. QED
  <2> HIDE DEF t, S
  <2>1. t \in Seq(Range(t))
    BY <1>2, <1>3
  <2>2. Frames(t)
    BY <1>4, <1>5, <2>1 DEF Frames
  <2>3. QED
    BY <1>3, <2>2 DEF t

LEMMA FramesPop ==
  ASSUME NEW s, Frames(s), s # <<>>
  PROVE  /\ Frames(Front(s))
         /\ FrameInv(Last(s))
         /\ Front(s) # <<>> => Waits(Last(Front(s)), Last(s))
<1> DEFINE t == Front(s)
<1>1. /\ t \in Seq(Range(s)) /\ Len(s) \in Nat \ {0} /\ Len(t) = Len(s) - 1
      /\ \A i \in 1..Len(s) - 1 : t[i] = s[i]
      /\ Last(s) = s[Len(s)]
  BY FrontProperty DEF Frames
<1>2. DOMAIN s = 1..Len(s) /\ DOMAIN t = 1..Len(s) - 1
  BY <1>1, LenProperties DEF Frames
<1>3. t \in Seq(Range(t))
  <2> HIDE DEF t
  <2>1. \A i \in DOMAIN t : t[i] \in Range(t)
    BY DEF Range
  <2>2. DOMAIN t = 1..Len(t)
    BY <1>1, LenProperties
  <2>3. QED
    BY <1>1, <2>1, <2>2
<1>4. ASSUME NEW i \in DOMAIN t
      PROVE  FrameInv(t[i])
  <2>1. i \in DOMAIN s /\ t[i] = s[i]
    BY <1>1, <1>2
  <2>2. QED
    BY <2>1 DEF Frames
<1>5. ASSUME NEW i \in DOMAIN t, i + 1 \in DOMAIN t
      PROVE  Waits(t[i], t[i + 1])
  <2>1. i \in DOMAIN s /\ t[i] = s[i] /\ i + 1 \in DOMAIN s /\ t[i + 1] = s[i + 1]
    BY <1>1, <1>2, <1>5
  <2>2. QED
    BY <2>1 DEF Frames
<1>6. Len(s) \in DOMAIN s
  BY <1>1, <1>2
<1>7. FrameInv(Last(s))
  BY <1>1, <1>6 DEF Frames
<1>8. ASSUME t # <<>>
      PROVE  Waits(Last(t), Last(s))
  <2>1. Len(t) # 0
    <3> HIDE DEF t
    <3> QED
      BY <1>1, <1>8, EmptySeq
  <2>2. Len(t) \in DOMAIN s /\ Len(t) + 1 = Len(s) /\ t[Len(t)] = s[Len(t)]
    BY <1>1, <1>2, <2>1
  <2>3. Waits(s[Len(t)], s[Len(t) + 1])
    BY <1>6, <2>2 DEF Frames
  <2>4. QED
    BY <1>1, <2>2, <2>3 DEF Last
<1>9. QED
  <2>1. Frames(t)
    BY <1>3, <1>4, <1>5 DEF Frames
  <2>2. QED
    BY <1>7, <1>8, <2>1

\* Who waits for a frame waits for every frame of its context.
LEMMA WaitsForContext ==
  ASSUME NEW f, NEW g, NEW h, Waits(f, g), h.context = g.context
  PROVE  Waits(f, h)
BY DEF Waits

-----------------------------------------------------------------------------
(* While the program runs the result of the analysis stays what it is.     *)

LEMMA SameFlow ==
  ASSUME UNCHANGED vars, NEW c, NEW n
  PROVE  Flow(c, n)' = Flow(c, n) /\ FlowOf(c, n)' = FlowOf(c, n)
<1>1. Flow(c, n)' = Flow(c, n)
  BY DEF vars, ContextsOf, getContext, Flow, FlowStep, Returned
<1>2. module' = module
  BY DEF vars
<1>3. QED
  BY <1>1, <1>2 DEF FlowOf

LEMMA SameResult ==
  ASSUME UNCHANGED vars, Done, ResultIsSolution, ExitCoversTails
  PROVE  Done' /\ ResultIsSolution' /\ ExitCoversTails'
<1>1. UNCHANGED <<module, contexts, workList, at>>
  BY DEF vars, locals
<1>2. Done' /\ ExitCoversTails'
  BY <1>1 DEF Done, ExitCoversTails, TailsOf
<1>3. ASSUME NEW c \in DOMAIN contexts, NEW n \in Reached(contexts[c].method)
      PROVE  Below(contexts[c].after[n], FlowOf(c, n)')
  BY SameFlow DEF ResultIsSolution
<1>4. \A c \in DOMAIN contexts : Reached(contexts[c].method)' = Reached(contexts[c].method)
  BY <1>1, SameReached
<1>5. ResultIsSolution'
  BY <1>1, <1>3, <1>4 DEF ResultIsSolution
<1>6. QED
  BY <1>2, <1>5

LEMMA SameFrame ==
  ASSUME UNCHANGED vars, NEW f, NEW g
  PROVE  /\ FrameInv(f) => FrameInv(f)'
         /\ Waits(f, g) => Waits(f, g)'
<1>1. UNCHANGED <<module, contexts>>
  BY DEF vars
<1>2. Flow(f.context, f.node)' = Flow(f.context, f.node)
  BY SameFlow
<1>3. FrameInv(f) => FrameInv(f)'
  <2>1. Reached(contexts[f.context].method)' = Reached(contexts[f.context].method)
    BY <1>1, SameReached
  <2>2. QED
    BY <1>1, <1>2, <2>1 DEF FrameInv
<1>4. \A m, v : /\ ContextsOf(m, v)' = ContextsOf(m, v)
                /\ getContext(m, v)' = getContext(m, v)
  BY <1>1 DEF ContextsOf, getContext
<1>5. Waits(f, g) => Waits(f, g)'
  BY <1>1, <1>4 DEF Waits, CalleeEntry
<1>6. QED
  BY <1>3, <1>5

LEMMA SameFrames ==
  ASSUME UNCHANGED vars, Frames(stack')
  PROVE  Frames(stack)'
<1>1. \A f, g : /\ FrameInv(f) => FrameInv(f)'
                /\ Waits(f, g) => Waits(f, g)'
  BY SameFrame
<1>2. QED
  BY <1>1 DEF Frames

-----------------------------------------------------------------------------
(* The program.                                                            *)

ExecutionInv ==
  /\ EngineInv
  /\ running => Done /\ ResultIsSolution /\ ExitCoversTails
  /\ stack # <<>> => running
  /\ Frames(stack)

LEMMA NoFrames == Frames(<<>>)
<1>1. DOMAIN <<>> = {} /\ <<>> \in Seq(Range(<<>>))
  OBVIOUS
<1>2. QED
  BY <1>1 DEF Frames

LEMMA ActiveFrame ==
  ASSUME ExecutionInv, NEW ops, AtOp(ops)
  PROVE  /\ FrameInv(frame)
         /\ frame.pc <= Len(module.code[frame.node])
         /\ module.code[frame.node][frame.pc].op \in ops
         /\ Done /\ ResultIsSolution /\ ExitCoversTails
         /\ \A g : FrameInv(g) /\ g.context = frame.context =>
                     Frames(Append(Front(stack), g)) /\ Append(Front(stack), g) # <<>>
<1>1. stack # <<>> /\ Frames(stack)
  BY DEF AtOp, ExecutionInv
<1>2. /\ Frames(Front(stack)) /\ FrameInv(frame)
      /\ Front(stack) # <<>> => Waits(Last(Front(stack)), frame)
  BY <1>1, FramesPop DEF frame
<1>3. ASSUME NEW g, FrameInv(g), g.context = frame.context
      PROVE  Frames(Append(Front(stack), g)) /\ Append(Front(stack), g) # <<>>
  <2>1. Front(stack) # <<>> => Waits(Last(Front(stack)), g)
    BY <1>2, <1>3, WaitsForContext
  <2>2. QED
    BY <1>2, <1>3, <2>1, FramesPush
<1>4. QED
  BY <1>1, <1>2, <1>3 DEF AtOp, ExecutionInv, command

\* Every step of the program leads to frames the analysis covers.
LEMMA ExecuteStep ==
  ASSUME ExecutionInv, Execute
  PROVE  Frames(stack')
<1>1. EngineInv
  BY DEF ExecutionInv
<1>2. CASE Compute
  <2>1. AtOp(OpCode \ {"call", "br", "ret"})
    BY <1>2 DEF Compute
  <2>2. PICK v \in Results(command, frame.store) \cap Stored :
          stack' = Active(Frame(frame.context, frame.node, frame.pc + 1,
                                [frame.store EXCEPT ![command.def] = v],
                                normalFlow(command, frame.value)))
    BY <1>2 DEF Compute
  <2> DEFINE g == Frame(frame.context, frame.node, frame.pc + 1,
                        [frame.store EXCEPT ![command.def] = v],
                        normalFlow(command, frame.value))
  <2>3. FrameInv(g)
    BY <1>1, <2>1, ActiveFrame, ComputedFrame DEF command
  <2>4. g.context = frame.context
    BY DEF Frame
  <2>5. QED
    <3> HIDE DEF g
    <3>1. Frames(Append(Front(stack), g))
      BY <2>1, <2>3, <2>4, ActiveFrame
    <3>2. QED
      BY <2>2, <3>1 DEF g, Active
<1>3. CASE Branch
  <2>1. AtOp({"br"})
    BY <1>3 DEF Branch
  <2>2. PICK n \in Range(SuccsOf(frame.node)) :
          stack' = Active(Frame(frame.context, n, 1, frame.store,
                                contexts[frame.context].before[n]))
    BY <1>3 DEF Branch
  <2> DEFINE g == Frame(frame.context, n, 1, frame.store, contexts[frame.context].before[n])
  <2>3. FrameInv(g)
    BY <1>1, <2>1, ActiveFrame, BranchedFrame
  <2>4. g.context = frame.context
    BY DEF Frame
  <2>5. QED
    <3> HIDE DEF g
    <3>1. Frames(Append(Front(stack), g))
      BY <2>1, <2>3, <2>4, ActiveFrame
    <3>2. QED
      BY <2>2, <3>1 DEF g, Active
<1>4. CASE CallMethod
  <2> DEFINE entry == CalleeEntry(command, frame)
             g     == EntryFrame(getContext(command.callee, entry),
                                 Arguments(command, module.params[command.callee], frame.store))
  <2>1. /\ AtOp({"call"}) /\ ContextsOf(command.callee, entry) # {}
        /\ stack' = Append(stack, g)
    BY <1>4 DEF CallMethod
  <2>2. FrameInv(g) /\ Waits(frame, g)
    <3>1. /\ FrameInv(frame) /\ frame.pc <= Len(module.code[frame.node])
          /\ module.code[frame.node][frame.pc].op = "call"
      BY <2>1, ActiveFrame
    <3>2. command = module.code[frame.node][frame.pc]
      BY DEF command
    <3>3. ContextsOf(module.code[frame.node][frame.pc].callee,
                     CalleeEntry(module.code[frame.node][frame.pc], frame)) # {}
      BY <2>1, <3>2
    <3>4. QED
      BY <1>1, <3>1, <3>2, <3>3, CalledFrame
  <2>3. Frames(stack)
    BY DEF ExecutionInv
  <2>4. QED
    <3> HIDE DEF g
    <3>1. QED
      BY <2>1, <2>2, <2>3, FramesPush DEF frame
<1>5. CASE ReturnToCaller
  <2> DEFINE waiting == Front(stack)
             exit    == contexts[frame.context].exitValue
             v       == OperandValue(command, frame.store, 1)
  <2>1. /\ AtOp({"ret"}) /\ stack # <<>>
        /\ stack' = IF waiting = <<>> THEN <<>>
                    ELSE Append(Front(waiting), Resumed(Last(waiting), v, exit))
    BY <1>5 DEF ReturnToCaller, AtOp
  <2>2. /\ Frames(waiting)
        /\ waiting # <<>> => Waits(Last(waiting), frame)
    BY <2>1, FramesPop DEF ExecutionInv, frame
  <2>3. v \in Int \cup {Undef} /\ SignCovers(v, exit[RETURN])
    BY <1>1, <2>1, ActiveFrame, ReturnedSign DEF command
  <2>4. CASE waiting = <<>>
    BY <2>1, <2>4, NoFrames
  <2>5. CASE waiting # <<>>
    <3> DEFINE caller == Last(waiting)
               h      == Resumed(caller, v, exit)
    <3>1. /\ Frames(Front(waiting)) /\ FrameInv(caller)
          /\ Front(waiting) # <<>> => Waits(Last(Front(waiting)), caller)
      BY <2>2, <2>5, FramesPop
    <3>2. FrameInv(h)
      <4> HIDE DEF v, caller
      <4>1. Waits(caller, frame)
        BY <2>2, <2>5 DEF caller
      <4>2. QED
        BY <1>1, <2>3, <3>1, <4>1, ResumedFrame
    <3>3. h.context = caller.context
      BY DEF Resumed, Frame
    <3>4. stack' = Append(Front(waiting), h)
      BY <2>1, <2>5
    <3>5. QED
      <4> HIDE DEF h, caller, waiting
      <4>1. Front(waiting) # <<>> => Waits(Last(Front(waiting)), h)
        BY <3>1, <3>3, WaitsForContext
      <4>2. QED
        BY <3>1, <3>2, <3>4, <4>1, FramesPush
  <2>6. QED
    BY <2>4, <2>5
<1>6. QED
  BY <1>2, <1>3, <1>4, <1>5 DEF Execute

LEMMA ExecutionInvInit ==
  ASSUME ExecutionInit
  PROVE  ExecutionInv
<1>1. Init /\ running = FALSE /\ stack = <<>>
  BY DEF ExecutionInit
<1>2. Frames(stack)
  BY <1>1, NoFrames
<1>3. QED
  BY <1>1, <1>2, EngineInit DEF ExecutionInv

LEMMA ExecutionInvStep ==
  ASSUME ExecutionInv, [ExecutionNext]_executionVars
  PROVE  ExecutionInv'
<1>1. EngineInv
  BY DEF ExecutionInv
<1>2. CASE Analyse
  <2>1. Next /\ ~running /\ UNCHANGED <<running, stack>>
    BY <1>2 DEF Analyse
  <2>2. stack = <<>>
    BY <2>1 DEF ExecutionInv
  <2>3. EngineInv'
    BY <1>1, <2>1, EngineStep
  <2>4. Frames(stack)'
    <3>1. stack' = <<>> /\ DOMAIN stack' = {} /\ stack' \in Seq(Range(stack'))
      BY <2>1, <2>2
    <3>2. QED
      BY <3>1 DEF Frames
  <2>5. QED
    BY <2>1, <2>2, <2>3, <2>4 DEF ExecutionInv
<1>3. CASE UNCHANGED vars
  <2>1. EngineInv'
    BY <1>1, <1>3, EngineStep
  <2>2. CASE Start
    <3> DEFINE f == EntryFrame(1, NoStore)
    <3>1. /\ Done /\ ResultIsSolution /\ ExitCoversTails /\ running' = TRUE
          /\ stack' = <<f>>
      BY <2>2 DEF Start
    <3>2. FrameInv(f)
      <4>1. NoStore \in Stores /\ \A v : Covers(NoStore, v)
        BY DEF NoStore, Stores, Covers, SignCovers
      <4>2. QED
        BY <1>1, <4>1, EnteredFrame DEF EngineInv, EntryKept
    <3>3. Frames(<<f>>)
      <4> HIDE DEF f
      <4>1. Append(<<>>, f) = <<f>>
        OBVIOUS
      <4>2. QED
        BY <3>2, <4>1, NoFrames, FramesPush
    <3>4. Frames(stack)'
      <4> HIDE DEF f
      <4>1. QED
        BY <1>3, <3>1, <3>3, SameFrames
    <3>5. QED
      BY <1>3, <2>1, <3>1, <3>4, SameResult DEF ExecutionInv
  <2>3. CASE Execute
    <3>1. stack # <<>> /\ running' = running
      BY <2>3 DEF Execute, Compute, Branch, CallMethod, ReturnToCaller, AtOp
    <3>2. Frames(stack)'
      BY <1>3, <2>3, ExecuteStep, SameFrames
    <3>3. running /\ Done /\ ResultIsSolution /\ ExitCoversTails
      BY <3>1 DEF ExecutionInv
    <3>4. QED
      BY <1>3, <2>1, <3>1, <3>2, <3>3, SameResult DEF ExecutionInv
  <2>4. CASE UNCHANGED <<running, stack>>
    <3>1. Frames(stack)'
      BY <1>3, <2>4, SameFrames DEF ExecutionInv
    <3>2. QED
      BY <1>3, <2>1, <2>4, <3>1, SameResult DEF ExecutionInv
  <2>5. QED
    BY <1>2, <2>2, <2>3, <2>4 DEF ExecutionNext, executionVars
<1>4. QED
  BY <1>2, <1>3 DEF ExecutionNext, executionVars, Start, Execute, Compute, Branch, CallMethod,
                    ReturnToCaller

\* The analysis is right for every module and every execution, of any length
\* and depth: when doAnalysis has returned with a solution that covers the
\* returns, every integer a name holds in any frame has the sign the analysis
\* gives the name there.
THEOREM AnalysisCoversExecution == ExecutionSpec => []ExecutionCovered
<1>1. ExecutionInv => ExecutionCovered
  BY DEF ExecutionInv, Frames, FrameInv, ExecutionCovered
<1>2. QED
  BY <1>1, ExecutionInvInit, ExecutionInvStep, PTL DEF ExecutionSpec

-----------------------------------------------------------------------------
(* The types of the frames.  The value of a frame is one the analysis      *)
(* could have: an instruction never reads a name without a sign, because   *)
(* the analysis has taken every block the program gets to.                 *)

Typed ==
  {f \in [context : DOMAIN contexts, node : Node, pc : Nat \ {0},
          store : [Name -> Stored], value : Values] :
     \A x \in Given(f.context, f.node, f.pc) : f.value[x] # Absent}

TypedInv ==
  /\ running \in BOOLEAN
  /\ module \in Modules
  /\ EntriesDefine => stack \in Seq(Typed) /\ Len(stack) <= MaxDepth

LEMMA TypedFrame ==
  ASSUME NEW c \in DOMAIN contexts, NEW n \in Node, NEW k \in Nat \ {0},
         NEW store \in [Name -> Stored], NEW dfv \in Values,
         \A x \in Given(c, n, k) : dfv[x] # Absent
  PROVE  Frame(c, n, k, store, dfv) \in Typed
BY DEF Frame, Typed

\* What an operand holds is stored somewhere or written in the program.
LEMMA OperandInStore ==
  ASSUME module \in Modules, NEW n \in Node, NEW k \in 1..Len(module.code[n]),
         NEW store \in [Name -> Stored],
         NEW j \in 1..Len(module.code[n][k].operands)
  PROVE  OperandValue(module.code[n][k], store, j) \in Stored
<1> DEFINE i == module.code[n][k]
<1>1. module \in Module
  BY ModulesAssumption
<1>2. i \in Instruction /\ i \in Range(module.code[n])
  <2>1. DOMAIN module.code[n] = 1..Len(module.code[n])
    BY <1>1, ModuleType, LenProperties
  <2>2. QED
    BY <1>1, <2>1, ModuleType DEF Range
<1>3. i.operands[j] \in Operand /\ i.operands[j] \in Range(i.operands)
  <2>1. i.operands \in Seq(Operand)
    BY <1>2, InstructionOperands
  <2> HIDE DEF i
  <2>2. DOMAIN i.operands = 1..Len(i.operands)
    BY <2>1, LenProperties
  <2>3. j \in DOMAIN i.operands
    BY <2>2 DEF i
  <2>4. QED
    BY <1>2, <2>2, <2>3, InstructionOperands DEF Range
<1>4. CASE i.operands[j].kind = "constant"
  <2>1. i.operands[j].value \in Representable
    BY <1>2, <1>3, <1>4, ConstantsAssumption
  <2>2. QED
    BY <1>4, <2>1 DEF OperandValue, Stored
<1>5. CASE i.operands[j].kind # "constant"
  <2>1. i.operands[j].name \in Name
    BY <1>3, <1>5 DEF Operand
  <2>2. QED
    BY <1>5, <2>1 DEF OperandValue
<1>6. QED
  BY <1>4, <1>5

\* What an instruction of a frame reads has a sign.
LEMMA FrameOperands ==
  ASSUME EngineInv, Done, EntriesDefine, NEW f \in Typed, FrameInv(f),
         f.pc <= Len(module.code[f.node])
  PROVE  OperandsDefined(f.value, module.code[f.node][f.pc])
<1> DEFINE i == module.code[f.node][f.pc]
<1>1. f.pc \in 1..Len(module.code[f.node]) /\ i \in Instruction
  BY FrameType
<1>2. OperandsGiven(f.context, f.node, f.pc)
  <2>1. Ready(f.context, f.node)
    BY AllReady DEF EngineInv, FrameInv, WorkInv, EdgeInv
  <2>2. QED
    BY <1>1, <2>1 DEF Ready
<1>3. ASSUME NEW j \in 1..Len(i.operands), i.operands[j].kind = "name"
      PROVE  f.value[i.operands[j].name] # Absent
  <2>1. j \in DOMAIN i.operands
    BY <1>1, InstructionOperands, LenProperties
  <2>2. i.operands[j].name \in Given(f.context, f.node, f.pc)
    BY <1>2, <1>3, <2>1 DEF OperandsGiven
  <2>3. QED
    BY <2>2 DEF Typed
<1>4. QED
  BY <1>3 DEF OperandsDefined, IsDefined

\* Before the first instruction of a block.
LEMMA GivenFirst ==
  ASSUME module \in Module, NEW c, NEW n \in Node
  PROVE  \A x \in Given(c, n, 1) : contexts[c].before[n][x] # Absent
<1>1. module.code[n] \in Seq(Instruction) /\ 1 - 1 = 0
  BY ModuleType
<1>2. DefinedIn(SubSeq(module.code[n], 1, 1 - 1)) = {}
  BY <1>1, DefinedByPrefix
<1>3. QED
  BY <1>2 DEF Given

LEMMA EnteredTyped ==
  ASSUME EngineInv, NEW c \in DOMAIN contexts, NEW store \in [Name -> Stored]
  PROVE  EntryFrame(c, store) \in Typed
<1> DEFINE n == EntryNode(contexts[c].method)
<1>1. module \in Module /\ contexts[c].method \in Method
  BY ContextValues DEF EngineInv, TypeInv, TypeOK
<1>2. n \in Node
  BY <1>1, ModuleType
<1>3. contexts[c].before[n] \in Values
  BY <1>2, ContextValues DEF EngineInv
<1> HIDE DEF n
<1>4. Frame(c, n, 1, store, contexts[c].before[n]) \in Typed
  BY <1>1, <1>2, <1>3, GivenFirst, TypedFrame
<1>5. QED
  BY <1>4 DEF EntryFrame, n

LEMMA ComputedTyped ==
  ASSUME EngineInv, Done, EntriesDefine, NEW f \in Typed, FrameInv(f),
         f.pc <= Len(module.code[f.node]),
         module.code[f.node][f.pc].op \in OpCode \ {"call", "br", "ret"},
         NEW v \in Stored
  PROVE  Frame(f.context, f.node, f.pc + 1,
               [f.store EXCEPT ![module.code[f.node][f.pc].def] = v],
               normalFlow(module.code[f.node][f.pc], f.value)) \in Typed
<1> DEFINE i   == module.code[f.node][f.pc]
           st  == [f.store EXCEPT ![i.def] = v]
           val == normalFlow(i, f.value)
<1>1. /\ f.context \in DOMAIN contexts /\ f.node \in Node /\ f.pc + 1 \in Nat \ {0}
      /\ f.store \in [Name -> Stored] /\ f.value \in Values
      /\ \A x \in Given(f.context, f.node, f.pc) : f.value[x] # Absent
  BY DEF Typed
<1>2. /\ module \in Module /\ i \in Instruction /\ f.pc \in 1..Len(module.code[f.node])
      /\ i.op \notin {"br", "ret"} /\ i.def \in Name
  BY FrameType, InstructionOperands
<1>3. OperandsDefined(f.value, i)
  BY FrameOperands
<1>4. Given(f.context, f.node, f.pc + 1) = Given(f.context, f.node, f.pc) \cup {i.def}
  BY <1>1, <1>2, GivenNext DEF NameOf
<1> HIDE DEF i
<1>5. st \in [Name -> Stored]
  BY <1>1, <1>2
<1>6. val \in Values /\ val = [f.value EXCEPT ![i.def] = signOf(i, f.value)]
      /\ signOf(i, f.value) # Absent
  BY <1>1, <1>2, <1>3, NormalFlowType, SignOfType, AbsentIsNoSign DEF normalFlow
<1>7. \A x \in Given(f.context, f.node, f.pc + 1) : val[x] # Absent
  <2> HIDE DEF val
  <2>1. Given(f.context, f.node, f.pc) \subseteq Name
    BY DEF Given
  <2>2. QED
    BY <1>1, <1>2, <1>4, <1>6, <2>1 DEF Values
<1>8. Frame(f.context, f.node, f.pc + 1, st, val) \in Typed
  <2> HIDE DEF st, val
  <2> QED
    BY <1>1, <1>5, <1>6, <1>7, TypedFrame
<1>9. QED
  BY <1>8 DEF i

LEMMA BranchedTyped ==
  ASSUME EngineInv, NEW f \in Typed, NEW n \in Range(SuccsOf(f.node))
  PROVE  Frame(f.context, n, 1, f.store, contexts[f.context].before[n]) \in Typed
<1>1. f.context \in DOMAIN contexts /\ f.node \in Node /\ f.store \in [Name -> Stored]
  BY DEF Typed
<1>2. module \in Module
  BY DEF EngineInv, TypeInv, TypeOK
<1>3. n \in Node
  BY <1>1, <1>2, SuccessorIsNode
<1>4. contexts[f.context].before[n] \in Values
  BY <1>1, <1>3, ContextValues DEF EngineInv
<1>5. QED
  BY <1>1, <1>2, <1>3, <1>4, GivenFirst, TypedFrame

LEMMA CalledTyped ==
  ASSUME EngineInv, module \in Modules, NEW f \in Typed,
         f.pc \in 1..Len(module.code[f.node]), module.code[f.node][f.pc].op = "call",
         NEW c \in DOMAIN contexts
  PROVE  LET i == module.code[f.node][f.pc] IN
         EntryFrame(c, Arguments(i, module.params[i.callee], f.store)) \in Typed
<1> DEFINE i      == module.code[f.node][f.pc]
           params == module.params[i.callee]
           st     == Arguments(i, params, f.store)
<1>1. f.node \in Node /\ f.store \in [Name -> Stored] /\ module \in Module
  BY ModulesAssumption DEF Typed
<1>2. /\ Len(params) = Len(i.operands) /\ params \in Seq(Name)
  BY <1>1, ModuleType, InstructionOperands
<1>3. \A j \in 1..Len(i.operands) : OperandValue(i, f.store, j) \in Stored
  BY <1>1, OperandInStore
<1>4. st \in [Name -> Stored]
  <2> HIDE DEF i, params
  <2>1. DOMAIN params = 1..Len(i.operands)
    BY <1>2, LenProperties
  <2>2. ASSUME NEW x \in Range(params)
        PROVE  (CHOOSE k \in DOMAIN params : params[k] = x) \in 1..Len(i.operands)
    BY <2>1 DEF Range
  <2>3. \A x \in Name : st[x] \in Stored
    BY <1>3, <2>2 DEF Arguments, Stored
  <2>4. QED
    BY <2>3 DEF Arguments
<1>5. QED
  BY <1>4, EnteredTyped

LEMMA ResumedTyped ==
  ASSUME EngineInv, NEW f \in Typed, FrameInv(f), f.pc <= Len(module.code[f.node]),
         module.code[f.node][f.pc].op = "call", NEW v \in Stored, NEW exit \in Values
  PROVE  Resumed(f, v, exit) \in Typed
<1> DEFINE i   == module.code[f.node][f.pc]
           st  == [f.store EXCEPT ![i.def] = v]
           w   == callExitFlowFunction(i, exit)
           val == meet(f.value, w)
<1>1. /\ f.context \in DOMAIN contexts /\ f.node \in Node /\ f.pc + 1 \in Nat \ {0}
      /\ f.store \in [Name -> Stored] /\ f.value \in Values
      /\ \A x \in Given(f.context, f.node, f.pc) : f.value[x] # Absent
  BY DEF Typed
<1>2. /\ module \in Module /\ i \in Instruction /\ f.pc \in 1..Len(module.code[f.node])
      /\ i.def \in Name
  BY FrameType, InstructionOperands
<1>3. Given(f.context, f.node, f.pc + 1) = Given(f.context, f.node, f.pc) \cup {i.def}
  BY <1>1, <1>2, GivenNext DEF NameOf
<1> HIDE DEF i
<1>4. st \in [Name -> Stored]
  BY <1>1, <1>2
<1>5. w \in Values
  BY <1>2, CallExitType
<1>6. w[i.def] # Absent
  <2>1. TOP # Absent
    BY DEF TOP, Absent
  <2>2. QED
    BY <1>2, <2>1 DEF callExitFlowFunction, topValue
<1>7. val \in Values /\ \A x \in Given(f.context, f.node, f.pc + 1) : val[x] # Absent
  <2> HIDE DEF w
  <2>1. val \in Values
    BY <1>1, <1>5, MeetType
  <2>2. ASSUME NEW x \in Given(f.context, f.node, f.pc + 1), val[x] = Absent
        PROVE  FALSE
    <3>1. x \in Name
      BY DEF Given
    <3>2. f.value[x] = Absent /\ w[x] = Absent
      BY <1>1, <1>5, <2>2, <3>1, MeetMisses
    <3>3. QED
      BY <1>1, <1>3, <1>6, <3>2
  <2>3. QED
    BY <2>1, <2>2
<1>8. Frame(f.context, f.node, f.pc + 1, st, val) \in Typed
  <2> HIDE DEF st, val
  <2> QED
    BY <1>1, <1>4, <1>7, TypedFrame
<1>9. QED
  BY <1>8 DEF Resumed, i

LEMMA TypedExecute ==
  ASSUME ExecutionInv, TypedInv, EntriesDefine, Execute
  PROVE  stack' \in Seq(Typed) /\ Len(stack') <= MaxDepth
<1>1. /\ EngineInv /\ module \in Modules /\ stack \in Seq(Typed) /\ Len(stack) <= MaxDepth
      /\ stack # <<>>
  BY DEF ExecutionInv, TypedInv, Execute, Compute, Branch, CallMethod, ReturnToCaller, AtOp
<1>2. /\ Front(stack) \in Seq(Typed) /\ frame \in Typed
      /\ Len(stack) \in Nat \ {0} /\ Len(Front(stack)) = Len(stack) - 1
      /\ MaxDepth \in Nat
  BY <1>1, FrontProperty, DepthAssumption DEF frame
<1>3. /\ FrameInv(frame) /\ frame.pc <= Len(module.code[frame.node])
      /\ frame.pc \in 1..Len(module.code[frame.node]) /\ Done
  <2>1. \E ops : AtOp(ops)
    BY DEF Execute, Compute, Branch, CallMethod, ReturnToCaller
  <2>2. FrameInv(frame) /\ frame.pc <= Len(module.code[frame.node]) /\ Done
    BY <2>1, ActiveFrame
  <2>3. QED
    BY <1>1, <2>2, FrameType
<1>4. ASSUME NEW g \in Typed, stack' = Active(g)
      PROVE  stack' \in Seq(Typed) /\ Len(stack') <= MaxDepth
  <2>1. stack' \in Seq(Typed) /\ Len(stack') = Len(Front(stack)) + 1
    BY <1>2, <1>4, AppendProperties DEF Active
  <2>2. QED
    BY <1>1, <1>2, <2>1
<1>5. CASE Compute
  <2>1. PICK v \in Results(command, frame.store) \cap Stored :
          stack' = Active(Frame(frame.context, frame.node, frame.pc + 1,
                                [frame.store EXCEPT ![command.def] = v],
                                normalFlow(command, frame.value)))
    BY <1>5 DEF Compute
  <2>2. command.op \in OpCode \ {"call", "br", "ret"} /\ v \in Stored
    BY <1>5 DEF Compute, AtOp
  <2>3. QED
    BY <1>1, <1>2, <1>3, <1>4, <2>1, <2>2, ComputedTyped DEF command
<1>6. CASE Branch
  <2>1. PICK n \in Range(SuccsOf(frame.node)) :
          stack' = Active(Frame(frame.context, n, 1, frame.store,
                                contexts[frame.context].before[n]))
    BY <1>6 DEF Branch
  <2>2. QED
    BY <1>1, <1>2, <1>4, <2>1, BranchedTyped
<1>7. CASE CallMethod
  <2> DEFINE c == getContext(command.callee, CalleeEntry(command, frame))
             g == EntryFrame(c, Arguments(command, module.params[command.callee], frame.store))
  <2>1. /\ command.op = "call" /\ Len(stack) < MaxDepth /\ stack' = Append(stack, g)
        /\ ContextsOf(command.callee, CalleeEntry(command, frame)) # {}
    BY <1>7 DEF CallMethod, AtOp
  <2>2. c \in DOMAIN contexts
    BY <1>1, <2>1, GetContext DEF EngineInv, TypeInv
  <2>3. g \in Typed
    <3> HIDE DEF c
    <3> QED
      BY <1>1, <1>2, <1>3, <2>1, <2>2, CalledTyped DEF command
  <2>4. stack' \in Seq(Typed) /\ Len(stack') = Len(stack) + 1
    <3> HIDE DEF g
    <3> QED
      BY <1>1, <2>1, <2>3, AppendProperties
  <2>5. QED
    BY <1>2, <2>1, <2>4
<1>8. CASE ReturnToCaller
  <2> DEFINE waiting == Front(stack)
             exit    == contexts[frame.context].exitValue
             v       == OperandValue(command, frame.store, 1)
  <2>1. /\ command.op = "ret"
        /\ stack' = IF waiting = <<>> THEN <<>>
                    ELSE Append(Front(waiting), Resumed(Last(waiting), v, exit))
    BY <1>8 DEF ReturnToCaller, AtOp
  <2>2. CASE waiting = <<>>
    BY <1>2, <2>1, <2>2
  <2>3. CASE waiting # <<>>
    <3> DEFINE caller == Last(waiting)
    <3>1. /\ Front(waiting) \in Seq(Typed) /\ caller \in Typed
          /\ Len(waiting) \in Nat \ {0} /\ Len(Front(waiting)) = Len(waiting) - 1
      BY <1>2, <2>3, FrontProperty
    <3>2. FrameInv(caller) /\ Waits(caller, frame)
      BY <1>1, <2>3, FramesPop DEF ExecutionInv, frame
    <3>3. v \in Stored
      <4>1. command \in Instruction /\ command = module.code[frame.node][frame.pc]
        BY <1>1, <1>3, FrameType DEF command
      <4>2. 1 \in 1..Len(command.operands)
        <5>1. Len(command.operands) = 1
          BY <2>1, <4>1, InstructionOperands DEF Copies
        <5>2. QED
          BY <5>1
      <4>3. frame.node \in Node /\ frame.store \in [Name -> Stored]
        BY <1>2 DEF Typed
      <4>4. QED
        BY <1>1, <1>3, <4>1, <4>2, <4>3, OperandInStore
    <3>4. exit \in Values
      BY <1>1, <1>3, FrameType
    <3>5. Resumed(caller, v, exit) \in Typed
      <4> HIDE DEF v, exit, caller
      <4> QED
        BY <1>1, <3>1, <3>2, <3>3, <3>4, ResumedTyped DEF Waits
    <3>6. stack' \in Seq(Typed) /\ Len(stack') = Len(Front(waiting)) + 1
      <4> HIDE DEF waiting, v, exit
      <4> QED
        BY <2>1, <2>3, <3>1, <3>5, AppendProperties
    <3>7. QED
      <4> HIDE DEF waiting
      <4>1. Len(waiting) = Len(stack) - 1
        BY <1>2 DEF waiting
      <4>2. QED
        BY <1>1, <1>2, <3>1, <3>6, <4>1
  <2>4. QED
    BY <2>2, <2>3
<1>9. QED
  BY <1>5, <1>6, <1>7, <1>8 DEF Execute

LEMMA SameTyped ==
  ASSUME UNCHANGED vars
  PROVE  Typed' = Typed
<1>1. UNCHANGED <<module, contexts>>
  BY DEF vars
<1>2. \A c, n, k : Given(c, n, k)' = Given(c, n, k)
  BY <1>1, GivenKept
<1>3. QED
  BY <1>1, <1>2 DEF Typed

LEMMA TypedInit ==
  ASSUME ExecutionInit
  PROVE  TypedInv
<1>1. stack = <<>> /\ running = FALSE /\ module \in Modules
  BY DEF ExecutionInit, Init
<1>2. <<>> \in Seq(Typed) /\ Len(<<>>) = 0 /\ 0 <= MaxDepth
  BY DepthAssumption
<1>3. QED
  BY <1>1, <1>2 DEF TypedInv

LEMMA TypedStep ==
  ASSUME ExecutionInv, TypedInv, [ExecutionNext]_executionVars
  PROVE  TypedInv'
<1>1. EngineInv /\ [Next]_vars
  BY DEF ExecutionInv, ExecutionNext, executionVars, Analyse, Start, Execute, Compute, Branch,
         CallMethod, ReturnToCaller
<1>2. module' = module /\ (EntriesDefine' <=> EntriesDefine)
  BY <1>1, Identity, SamePrograms DEF SameIdentity, EngineInv
<1>3. running' \in BOOLEAN
  BY DEF TypedInv, ExecutionNext, executionVars, Analyse, Start, Execute, Compute, Branch,
         CallMethod, ReturnToCaller
<1>4. ASSUME EntriesDefine
      PROVE  stack' \in Seq(Typed') /\ Len(stack') <= MaxDepth
  <2>1. CASE Analyse
    <3>1. stack' = <<>>
      BY <2>1 DEF ExecutionInv, Analyse
    <3>2. Len(<<>>) = 0 /\ 0 <= MaxDepth
      BY DepthAssumption
    <3>3. QED
      BY <3>1, <3>2
  <2>2. CASE Start
    <3> DEFINE f == EntryFrame(1, NoStore)
    <3>1. stack' = <<f>> /\ UNCHANGED vars
      BY <2>2 DEF Start
    <3>2. f \in Typed
      <4>1. NoStore \in [Name -> Stored]
        BY DEF NoStore, Stored
      <4>2. QED
        BY <1>1, <4>1, EnteredTyped DEF EngineInv, EntryKept
    <3>3. Len(<<f>>) = 1 /\ 1 <= MaxDepth
      BY DepthAssumption
    <3>4. <<f>> \in Seq(Typed)
      <4> HIDE DEF f
      <4> QED
        BY <3>2
    <3>5. QED
      <4> HIDE DEF f
      <4> QED
        BY <3>1, <3>3, <3>4, SameTyped
  <2>3. CASE Execute
    <3>1. UNCHANGED vars
      BY <2>3 DEF Execute, Compute, Branch, CallMethod, ReturnToCaller
    <3>2. QED
      BY <1>4, <2>3, <3>1, TypedExecute, SameTyped
  <2>4. CASE UNCHANGED executionVars
    <3>1. UNCHANGED vars /\ stack' = stack
      BY <2>4 DEF executionVars
    <3>2. QED
      BY <1>4, <3>1, SameTyped DEF TypedInv
  <2>5. QED
    BY <2>1, <2>2, <2>3, <2>4 DEF ExecutionNext
<1>5. QED
  BY <1>2, <1>3, <1>4 DEF TypedInv

LEMMA ExecutionTyped == ExecutionSpec => [](ExecutionInv /\ TypedInv)
<1>1. ExecutionInit => ExecutionInv /\ TypedInv
  BY ExecutionInvInit, TypedInit
<1>2. ExecutionInv /\ TypedInv /\ [ExecutionNext]_executionVars => (ExecutionInv /\ TypedInv)'
  BY ExecutionInvStep, TypedStep
<1>3. QED
  BY <1>1, <1>2, PTL DEF ExecutionSpec

\* Every frame of every execution is well typed where a name has a sign after
\* every entry: no frame is in a context or at an instruction that does not
\* exist, no store holds what the machine cannot, and no flow function leaves
\* the lattice along an execution, in blocks and under exit values it may never
\* have been applied to in this order.
THEOREM ExecutionTypeCorrect == ExecutionSpec => [](EntriesDefine => ExecutionTypeOK)
<1>1. ExecutionInv /\ TypedInv => (EntriesDefine => ExecutionTypeOK)
  <2> DEFINE S == [context : DOMAIN contexts, node : Node, pc : Nat \ {0},
                   store : [Name -> Stored], value : Values]
  <2>1. Typed \subseteq S
    BY DEF Typed
  <2>2. stack \in Seq(Typed) => stack \in Seq(S)
    <3> HIDE DEF S
    <3> QED
      BY <2>1
  <2>3. QED
    BY <2>2 DEF TypedInv, ExecutionTypeOK
<1>2. QED
  BY <1>1, ExecutionTyped, PTL

\* Nor does an execution come to an instruction that reads a name without a sign:
\* the assertions of sign_analysis.cpp hold on every way through the program, not
\* only on the one doAnalysis took.
THEOREM OperandsHaveSigns == ExecutionSpec => [](EntriesDefine => OperandsSigned)
<1>1. ExecutionInv /\ TypedInv => (EntriesDefine => OperandsSigned)
  <2> SUFFICES ASSUME ExecutionInv, TypedInv, EntriesDefine, AtOp(OpCode)
               PROVE  OperandsDefined(frame.value, command)
    BY DEF OperandsSigned
  <2>1. FrameInv(frame) /\ frame.pc <= Len(module.code[frame.node]) /\ Done
    BY ActiveFrame
  <2>2. frame \in Typed
    BY FrontProperty DEF AtOp, TypedInv, frame
  <2>3. QED
    BY <2>1, <2>2, FrameOperands DEF ExecutionInv, command
<1>2. QED
  BY <1>1, ExecutionTyped, PTL

-----------------------------------------------------------------------------
(* The programs the result is known to be right for.                       *)

\* If the calls of every method are apart and a name has a sign after every entry, no
\* execution makes a call the analysis has no context for, at any depth of the
\* recursion: every call has been resolved with the signs it has in the end.
THEOREM CallsAreAnalysed == ExecutionSpec => [](CallsApart /\ EntriesDefine => CallsAnalysed)
<1>1. ExecutionInv => (CallsApart /\ EntriesDefine => CallsAnalysed)
  <2> SUFFICES ASSUME ExecutionInv, RightPrograms, AtOp({"call"})
               PROVE  ContextsOf(command.callee, CalleeEntry(command, frame)) # {}
    BY DEF CallsAnalysed, RightPrograms
  <2> DEFINE c == frame.context
             n == frame.node
             k == frame.pc
             m == Len(module.code[n])
             i == module.code[n][k]
  <2>1. /\ TypeInv /\ UniqueValueContexts /\ TargetInv
        /\ EdgesRespected /\ PendingIsScheduled /\ SolveInv
    BY DEF ExecutionInv, EngineInv, InverseInv, EdgeInv, WorkInv
  <2>2. stack # <<>> /\ Done /\ k <= m /\ i.op = "call" /\ command = i
    BY DEF AtOp, ExecutionInv, command
  <2>3. FrameInv(frame)
    BY <2>2, ActiveFrame DEF ExecutionInv
  <2>4. /\ c \in DOMAIN contexts /\ n \in Reached(contexts[c].method)
        /\ k \in Nat \ {0} /\ frame.value = Flow(c, n)[k - 1]
    BY <2>3 DEF FrameInv
  <2>5. PICK h : IsRun(h, m, c, n)
    BY <2>1, <2>2, <2>4, AllRan DEF Ran
  <2>6. m \in Nat
    BY <2>1, <2>4, ModuleType DEF TypeInv, TypeOK, Reached, ReachedFrom
  <2>7. CalleeEntry(command, frame) = callEntryFlowFunction(i, module.params[i.callee], frame.value)
    BY <2>2 DEF CalleeEntry
  <2> HIDE DEF c, n, k, m, i
  <2>8. Linked(c, n, i, h[k - 1]) /\ IsRun(h, k - 1, c, n) /\ k - 1 \in Nat
    <3>1. k \in 1..m /\ k - 1 \in Nat /\ 1..(k - 1) \subseteq 1..m
      BY <2>2, <2>4, <2>6
    <3>2. QED
      BY <2>2, <2>5, <3>1 DEF IsRun, i
  <2>9. h[k - 1] = frame.value
    BY <2>1, <2>4, <2>8, RunIsFlow
  <2>10. Target(c, n, i) \in ContextsOf(i.callee, CalleeEntry(command, frame))
    BY <2>1, <2>7, <2>8, <2>9, LinkedTarget DEF Linked, ContextsOf
  <2>11. QED
    BY <2>2, <2>10
<1>2. QED
  BY <1>1, ExecutionInvInit, ExecutionInvStep, PTL DEF ExecutionSpec

\* The proviso of AnalysisCoversExecution is met by every module in which the calls
\* of every method are apart, a name has a sign after every entry, and branches lead
\* to returns only: recursive ones among them.
THEOREM RightProgramsStart ==
  ExecutionSpec => [](/\ Done /\ CallsApart /\ EntriesDefine /\ BranchesReturn
                      => ResultIsSolution /\ ExitCoversTails)
<1>1. ExecutionInv => (Done /\ CallsApart /\ EntriesDefine /\ BranchesReturn
                       => ResultIsSolution /\ ExitCoversTails)
  BY EngineResult DEF ExecutionInv, SolutionIfCallsApart, ExitCoversIfBranchesReturn
<1>2. QED
  BY <1>1, ExecutionInvInit, ExecutionInvStep, PTL DEF ExecutionSpec
=============================================================================
