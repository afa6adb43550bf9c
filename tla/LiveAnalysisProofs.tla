------------------------- MODULE LiveAnalysisProofs -------------------------
(***************************************************************************)
(* Theorems about LiveAnalysis::run of assign4/lva.cpp, for every function *)
(* and every order of its blocks.                                          *)
(***************************************************************************)
EXTENDS LiveAnalysis, SequenceTheorems, FiniteSetTheorems, TLAPS

-----------------------------------------------------------------------------
(* The order of the blocks, and what is left of it.                        *)

\* The order has every block.
Complete == \A b \in Node : \E i \in DOMAIN order : order[i] = b

LEMMA OrderComplete ==
  ASSUME NEW o \in SetToSeqs(Node)
  PROVE  o \in Seq(Node) /\ \A b \in Node : \E i \in DOMAIN o : o[i] = b
<1> DEFINE N == Cardinality(Node)
<1>1. N \in Nat
  BY NodeAssumption, FS_CardinalityType
<1>2. o \in [1..N -> Node] /\ \A i, j \in 1..N : i # j => o[i] # o[j]
  BY DEF SetToSeqs
<1>3. o \in Injection(1..N, Node)
  BY <1>2 DEF Injection, IsInjective
<1>4. Cardinality(1..N) = N
  <2> HIDE DEF N
  <2> QED
    BY <1>1, FS_Interval
<1>5. o \in Surjection(1..N, Node)
  BY <1>3, <1>4, NodeAssumption, FS_Injection
<1>6. o \in Seq(Node)
  <2> HIDE DEF N
  <2> QED
    BY <1>1, <1>2
<1>7. QED
  BY <1>2, <1>5, <1>6 DEF Surjection

LEMMA PrefixOfOrder ==
  ASSUME NEW S, NEW t \in Seq(S), NEW k \in 0..Len(t)
  PROVE  LET w == SubSeq(t, 1, k) IN
         /\ w \in Seq(S) /\ Len(w) = k /\ IsPrefix(w, t)
         /\ \A i \in 1..k : w[i] = t[i]
         /\ k > 0 => Last(w) = t[k] /\ Front(w) = SubSeq(t, 1, k - 1)
<1> DEFINE w == SubSeq(t, 1, k)
<1>1. Len(t) \in Nat /\ \A i \in 1..Len(t) : t[i] \in S
  BY LenProperties, ElementOfSeq
<1>2. w \in Seq(S) /\ Len(w) = k /\ \A i \in 1..k : w[i] = t[i]
  <2>1. /\ w \in Seq(S)
        /\ Len(w) = IF 1 <= k THEN k - 1 + 1 ELSE 0
        /\ \A i \in 1..k - 1 + 1 : w[i] = t[1 + i - 1]
    BY <1>1, SubSeqProperties
  <2> HIDE DEF w
  <2>2. QED
    BY <2>1
<1>3. ASSUME NEW j \in 0..k
      PROVE  SubSeq(w, 1, j) = SubSeq(t, 1, j)
  <2>1. /\ SubSeq(t, 1, j) \in Seq(S)
        /\ Len(SubSeq(t, 1, j)) = IF 1 <= j THEN j - 1 + 1 ELSE 0
        /\ \A i \in 1..j - 1 + 1 : SubSeq(t, 1, j)[i] = t[1 + i - 1]
    BY <1>1, SubSeqProperties
  <2> HIDE DEF w
  <2>2. /\ SubSeq(w, 1, j) \in Seq(S)
        /\ Len(SubSeq(w, 1, j)) = IF 1 <= j THEN j - 1 + 1 ELSE 0
        /\ \A i \in 1..j - 1 + 1 : SubSeq(w, 1, j)[i] = w[1 + i - 1]
    <3>1. \A i \in 1..j : w[i] \in S
      BY <1>1, <1>2
    <3>2. QED
      BY <3>1, SubSeqProperties
  <2>3. Len(SubSeq(w, 1, j)) = Len(SubSeq(t, 1, j))
    BY <2>1, <2>2
  <2>4. \A i \in 1..Len(SubSeq(w, 1, j)) : SubSeq(w, 1, j)[i] = SubSeq(t, 1, j)[i]
    BY <1>2, <2>1, <2>2
  <2>5. QED
    BY <2>1, <2>2, <2>3, <2>4, SeqEqual
<1> HIDE DEF w
<1>4. IsPrefix(w, t)
  BY <1>1, <1>2, <1>3 DEF IsPrefix
<1>5. k > 0 => Last(w) = t[k] /\ Front(w) = SubSeq(t, 1, k - 1)
  BY <1>2, <1>3 DEF Last, Front
<1>6. QED
  BY <1>2, <1>4, <1>5 DEF w

\* The worklist is a prefix of the order: the blocks after it have been taken in
\* this round.
OrderInv == /\ Complete
            /\ Len(workList) \in 0..Len(order)
            /\ workList = SubSeq(order, 1, Len(workList))

Taken(b) == \E i \in DOMAIN order : i > Len(workList) /\ order[i] = b

LEMMA TakeLast ==
  ASSUME OrderInv, order \in Seq(Node), workList # <<>>, workList' = Front(workList), order' = order
  PROVE  /\ Last(workList) \in Node
         /\ OrderInv'
         /\ \A b \in Node : Taken(b)' <=> Taken(b) \/ b = Last(workList)
<1> DEFINE k == Len(workList)
<1>1. /\ Len(order) \in Nat /\ DOMAIN order = 1..Len(order)
      /\ \A i \in 1..Len(order) : order[i] \in Node
  BY LenProperties, ElementOfSeq
<1>2. k \in 0..Len(order) /\ workList = SubSeq(order, 1, k)
  BY DEF OrderInv
<1>3. workList \in Seq(Node)
  BY <1>2, PrefixOfOrder
<1>4. k > 0
  BY <1>2, <1>3, EmptySeq
<1>5. Last(workList) = order[k] /\ workList' = SubSeq(order, 1, k - 1)
  <2> HIDE DEF k
  <2> QED
    BY <1>2, <1>4, PrefixOfOrder
<1>6. Len(workList') = k - 1
  <2> HIDE DEF k
  <2>1. k - 1 \in 0..Len(order)
    BY <1>1, <1>2, <1>4
  <2>2. QED
    BY <1>5, <2>1, PrefixOfOrder
<1>7. k - 1 \in 0..Len(order') /\ k \in DOMAIN order
  BY <1>1, <1>2, <1>4
<1>8. OrderInv'
  BY <1>5, <1>6, <1>7 DEF OrderInv, Complete
<1>9. \A b \in Node : Taken(b)' <=> Taken(b) \/ b = Last(workList)
  <2> HIDE DEF k
  <2>1. \A i \in 1..Len(order) : i > k - 1 <=> i > k \/ i = k
    BY <1>1, <1>7
  <2>2. \A b \in Node : Taken(b)' <=> \E i \in 1..Len(order) : i > k - 1 /\ order[i] = b
    BY <1>1, <1>6 DEF Taken
  <2>3. \A b \in Node : Taken(b) <=> \E i \in 1..Len(order) : i > k /\ order[i] = b
    BY <1>1 DEF Taken, k
  <2>4. QED
    BY <1>1, <1>5, <1>7, <2>1, <2>2, <2>3
<1>10. Last(workList) \in Node
  BY <1>1, <1>5, <1>7
<1>11. QED
  BY <1>8, <1>9, <1>10

-----------------------------------------------------------------------------
(* A block, an instruction at a time.                                      *)

\* The value of v is not defined by the instructions after the k-th up to the i-th.
IntactIn(v, code, k, i) == \A j \in k + 1..i : v \notin code[j].kill

\* What the instructions after the k-th make of out.
ThroughFrom(code, k, out) ==
  {v \in Value :
     \/ v \in out /\ IntactIn(v, code, k, Len(code))
     \/ \E i \in k + 1..Len(code) : v \in code[i].gen /\ IntactIn(v, code, k, i - 1)}

PhiOperands(code, k) ==
  {v \in Value : \E i \in k + 1..Len(code) : IsPhi(code[i]) /\ v \in code[i].gen}

LEMMA CodeType ==
  ASSUME F \in Function, NEW s \in Node
  PROVE  /\ F.code[s] \in Seq(Insn)
         /\ F.succs[s] \in SUBSET Node
         /\ Len(F.code[s]) \in Nat /\ DOMAIN F.code[s] = 1..Len(F.code[s])
         /\ \A i \in 1..Len(F.code[s]) : F.code[s][i] \in Insn
<1>1. F.code[s] \in Seq(Insn) /\ F.succs[s] \in SUBSET Node
  BY DEF Function
<1>2. QED
  BY <1>1, LenProperties, ElementOfSeq

LEMMA ThroughEnds ==
  ASSUME NEW code \in Seq(Insn), NEW out \in SUBSET Value
  PROVE  ThroughFrom(code, Len(code), out) = out
<1>1. Len(code) \in Nat
  BY LenProperties
<1>2. Len(code) + 1..Len(code) = {}
  BY <1>1
<1>3. QED
  BY <1>2 DEF ThroughFrom, IntactIn

LEMMA ThroughStep ==
  ASSUME NEW code \in Seq(Insn), NEW k \in 1..Len(code), NEW out \in SUBSET Value
  PROVE  /\ ThroughFrom(code, k - 1, out) = Through(code[k], ThroughFrom(code, k, out))
         /\ PhiOperands(code, k - 1) = PhiOperands(code, k) \cup (IF IsPhi(code[k]) THEN code[k].gen ELSE {})
<1>1. /\ Len(code) \in Nat
      /\ \A i \in 1..Len(code) : code[i].gen \in SUBSET Value /\ code[i].kill \in SUBSET Value
  <2>1. Len(code) \in Nat /\ \A i \in 1..Len(code) : code[i] \in Insn
    BY LenProperties, ElementOfSeq
  <2>2. QED
    BY <2>1 DEF Insn
<1>2. /\ (k - 1) + 1 = k
      /\ \A i \in k..Len(code) : i = k \/ i \in k + 1..Len(code)
      /\ \A i \in k + 1..Len(code) : i \in k..Len(code)
      /\ k \in k..Len(code)
  BY <1>1
<1>3. ASSUME NEW v \in Value, NEW i \in k..Len(code)
      PROVE  IntactIn(v, code, k - 1, i) <=> v \notin code[k].kill /\ IntactIn(v, code, k, i)
  <2>1. \A j : j \in k..i <=> j = k \/ j \in k + 1..i
    BY <1>1
  <2>2. QED
    BY <1>2, <2>1 DEF IntactIn
<1>4. ASSUME NEW v \in Value
      PROVE  v \in ThroughFrom(code, k - 1, out) <=> v \in Through(code[k], ThroughFrom(code, k, out))
  <2> DEFINE Exposed(m) == \E i \in m + 1..Len(code) : v \in code[i].gen /\ IntactIn(v, code, m, i - 1)
  <2>1. IntactIn(v, code, k - 1, k - 1)
    BY <1>1 DEF IntactIn
  <2>2. ASSUME NEW i \in k + 1..Len(code)
        PROVE  IntactIn(v, code, k - 1, i - 1) <=> v \notin code[k].kill /\ IntactIn(v, code, k, i - 1)
    <3>1. i - 1 \in k..Len(code)
      BY <1>1
    <3>2. QED
      BY <1>3, <3>1
  <2>3. Exposed(k - 1) <=> v \in code[k].gen \/ (v \notin code[k].kill /\ Exposed(k))
    BY <1>2, <2>1, <2>2
  <2>4. IntactIn(v, code, k - 1, Len(code)) <=> v \notin code[k].kill /\ IntactIn(v, code, k, Len(code))
    <3>1. Len(code) \in k..Len(code)
      BY <1>1
    <3>2. QED
      BY <1>3, <3>1
  <2>5. \A m : v \in ThroughFrom(code, m, out) <=>
                 (v \in out /\ IntactIn(v, code, m, Len(code))) \/ Exposed(m)
    BY DEF ThroughFrom
  <2> HIDE DEF Exposed
  <2>6. QED
    BY <2>3, <2>4, <2>5 DEF Through
<1>5. ThroughFrom(code, k - 1, out) \subseteq Value /\ Through(code[k], ThroughFrom(code, k, out)) \subseteq Value
  BY <1>1 DEF ThroughFrom, Through
<1>6. PhiOperands(code, k - 1) = PhiOperands(code, k) \cup (IF IsPhi(code[k]) THEN code[k].gen ELSE {})
  BY <1>1, <1>2 DEF PhiOperands
<1>7. QED
  BY <1>4, <1>5, <1>6

\* A whole block generates no more than it needs and its phi nodes read.
LEMMA ThroughBlock ==
  ASSUME F \in Function, NEW s \in Node, NEW out \in SUBSET Value
  PROVE  /\ Needed(s, out) \subseteq ThroughFrom(F.code[s], 0, out)
         /\ ThroughFrom(F.code[s], 0, out) \subseteq Needed(s, out) \cup PhiOperands(F.code[s], 0)
<1> DEFINE code == F.code[s]
<1>1. Len(code) \in Nat /\ DOMAIN code = 1..Len(code) /\ 0 + 1 = 1
  BY CodeType
<1>2. \A v, i : IntactIn(v, code, 0, i) <=> Intact(v, s, i)
  BY <1>1 DEF IntactIn, Intact
<1> DEFINE used(v)    == \E i \in 1..Len(code) : v \in code[i].gen /\ ~IsPhi(code[i]) /\ Intact(v, s, i - 1)
           exposed(v) == \E i \in 1..Len(code) : v \in code[i].gen /\ Intact(v, s, i - 1)
           phi(v)     == \E i \in 1..Len(code) : IsPhi(code[i]) /\ v \in code[i].gen
<1>3. \A v : (used(v) => exposed(v)) /\ (exposed(v) => used(v) \/ phi(v))
  OBVIOUS
<1>4. \A v \in Value : /\ v \in Needed(s, out) <=> (v \in out /\ Intact(v, s, Len(code))) \/ used(v)
                       /\ v \in PhiOperands(code, 0) <=> phi(v)
                       /\ v \in ThroughFrom(code, 0, out) <=>
                            (v \in out /\ Intact(v, s, Len(code))) \/ exposed(v)
  BY <1>1, <1>2 DEF Needed, PhiOperands, ThroughFrom
<1>5. Needed(s, out) \subseteq Value /\ ThroughFrom(code, 0, out) \subseteq Value
  BY DEF Needed, ThroughFrom
<1> HIDE DEF used, exposed, phi
<1>6. QED
  BY <1>3, <1>4, <1>5

-----------------------------------------------------------------------------
(* Liveness.                                                               *)

LEMMA NeededMonotone ==
  ASSUME NEW s, NEW o1, NEW o2, o1 \subseteq o2
  PROVE  Needed(s, o1) \subseteq Needed(s, o2)
BY DEF Needed

\* The live values solve their own equations.
LEMMA LiveClosed ==
  ASSUME F \in Function, NEW b \in Node, NEW s \in F.succs[b]
  PROVE  /\ LiveAfter(b) \in SUBSET Value
         /\ TakenFrom(b, s) \subseteq LiveAfter(b)
         /\ Needed(s, LiveAfter(s)) \subseteq LiveAfter(b)
<1>1. ASSUME NEW v \in TakenFrom(b, s) \cup Needed(s, LiveAfter(s)), NEW sol \in BlockSets, Closed(sol)
      PROVE  v \in sol[b]
  <2>1. LiveAfter(s) \subseteq sol[s]
    BY <1>1 DEF LiveAfter
  <2>2. v \in TakenFrom(b, s) \cup Needed(s, sol[s])
    BY <1>1, <2>1, NeededMonotone
  <2>3. QED
    BY <1>1, <2>2 DEF Closed
<1>2. TakenFrom(b, s) \cup Needed(s, LiveAfter(s)) \subseteq Value
  BY DEF TakenFrom, Needed
<1>3. QED
  BY <1>1, <1>2 DEF LiveAfter

LEMMA SameFunction ==
  ASSUME F' = F
  PROVE  /\ \A b : LiveAfter(b)' = LiveAfter(b) /\ PredsOf(b)' = PredsOf(b)
         /\ PhisApart' = PhisApart
<1>1. \A b : PredsOf(b)' = PredsOf(b)
  BY DEF PredsOf
<1>2. \A v, s, k : Intact(v, s, k)' = Intact(v, s, k)
  BY DEF Intact
<1>3. \A b, s, out : TakenFrom(b, s)' = TakenFrom(b, s) /\ Needed(s, out)' = Needed(s, out)
  BY <1>2 DEF TakenFrom, Needed
<1>4. \A sol : Closed(sol)' = Closed(sol)
  BY <1>3 DEF Closed
<1>5. \A b : LiveAfter(b)' = LiveAfter(b)
  BY <1>4 DEF LiveAfter
<1>6. PhisApart' = PhisApart
  BY <1>1, <1>2, <1>5 DEF PhisApart
<1>7. QED
  BY <1>1, <1>5, <1>6

-----------------------------------------------------------------------------
(* Types.                                                                  *)

TypeInv == TypeOK /\ OrderInv

LEMMA TypeInit ==
  ASSUME Init
  PROVE  TypeInv
<1>1. F \in Function
  BY FunctionsAssumption DEF Init
<1>2. order \in Seq(Node) /\ Complete
  BY OrderComplete DEF Init, Complete
<1>3. workList = SubSeq(order, 1, 0) /\ Len(workList) = 0
  BY <1>2, SubSeqEmpty, EmptySeq DEF Init
<1>4. Len(order) \in Nat
  BY <1>2, LenProperties
<1>5. OrderInv
  BY <1>2, <1>3, <1>4 DEF OrderInv
<1>6. IsPrefix(workList, order)
  BY <1>2, <1>3, <1>4, PrefixOfOrder
<1>7. pc \in 0..(IF BB = NULL THEN 0 ELSE Len(F.code[BB]))
  BY DEF Init
<1>8. QED
  BY <1>1, <1>2, <1>5, <1>6, <1>7 DEF Init, TypeInv, TypeOK, BlockSets

\* The block that is taken, and what stays.
LEMMA TakenBlock ==
  ASSUME TypeInv, TakeBlock
  PROVE  LET b   == Last(workList)
             out == (Out[b] \cup UNION {In[s] : s \in F.succs[b]}) \ OutKill[b] IN
         /\ OrderInv' /\ IsPrefix(workList', order')
         /\ \A c \in Node : Taken(c)' <=> Taken(c) \/ c = b
         /\ b \in Node /\ BB = NULL /\ BB' = b
         /\ out \in SUBSET Value /\ live' = out
         /\ pc' = Len(F.code[b])
         /\ Out' = [Out EXCEPT ![b] = out] /\ Out' \in BlockSets
<1> DEFINE b   == Last(workList)
           out == (Out[b] \cup UNION {In[s] : s \in F.succs[b]}) \ OutKill[b]
<1>1. order \in Seq(Node) /\ OrderInv /\ F \in Function
  BY DEF TypeInv, TypeOK
<1>2. b \in Node /\ OrderInv' /\ \A c \in Node : Taken(c)' <=> Taken(c) \/ c = b
  BY <1>1, TakeLast DEF TakeBlock
<1>3. IsPrefix(workList', order')
  <2>1. order' \in Seq(Node)
    BY <1>1 DEF TakeBlock
  <2>2. QED
    BY <1>2, <2>1, PrefixOfOrder DEF OrderInv
<1>4. F.succs[b] \subseteq Node
  BY <1>1, <1>2, CodeType
<1>5. out \in SUBSET Value
  <2>1. \A c \in Node : In[c] \in SUBSET Value /\ Out[c] \in SUBSET Value
    BY DEF TypeInv, TypeOK, BlockSets
  <2> HIDE DEF b
  <2>2. QED
    BY <1>2, <1>4, <2>1
<1>6. BB = NULL /\ BB' = b /\ live' = out /\ pc' = Len(F.code[b]) /\ Out' = [Out EXCEPT ![b] = out]
  BY DEF TakeBlock
<1>7. Out' \in BlockSets
  <2> HIDE DEF b, out
  <2>1. QED
    BY <1>2, <1>5, <1>6 DEF TypeInv, TypeOK, BlockSets
<1>8. QED
  BY <1>2, <1>3, <1>5, <1>6, <1>7

\* The instruction that is processed.
LEMMA ProcessedInsn ==
  ASSUME TypeInv, ProcessInsn
  PROVE  LET i == F.code[BB][pc] IN
         /\ BB \in Node /\ BB' = BB
         /\ i \in Insn /\ pc \in 1..Len(F.code[BB]) /\ pc' = pc - 1
         /\ live' = Through(i, live) /\ live' \in SUBSET Value
         /\ OutKill' \in BlockSets
         /\ \A p \in Node :
              OutKill'[p] = IF IsPhi(i) /\ p \in PredsOf(BB)
                              THEN (OutKill[p] \cup i.gen) \ {v \in Value : <<v, p>> \in i.incoming}
                              ELSE OutKill[p]
<1> DEFINE i == F.code[BB][pc]
<1>1. BB \in Node
  BY DEF TypeInv, TypeOK, ProcessInsn
<1>2. pc \in 1..Len(F.code[BB])
  <2>1. BB # NULL /\ pc > 0 /\ pc \in 0..(IF BB = NULL THEN 0 ELSE Len(F.code[BB]))
    BY DEF TypeInv, TypeOK, ProcessInsn
  <2>2. Len(F.code[BB]) \in Nat
    BY <1>1, CodeType DEF TypeInv, TypeOK
  <2>3. QED
    BY <2>1, <2>2
<1>3. i \in Insn
  BY <1>1, <1>2, CodeType DEF TypeInv, TypeOK
<1>4. i.gen \in SUBSET Value
  BY <1>3 DEF Insn
<1>5. live' = Through(i, live) /\ live \in SUBSET Value /\ pc' = pc - 1 /\ BB' = BB
  BY DEF TypeInv, TypeOK, ProcessInsn
<1>6. live' \in SUBSET Value
  <2> HIDE DEF i
  <2>1. QED
    BY <1>4, <1>5 DEF Through
<1>7. \A p \in Node :
        OutKill'[p] = IF IsPhi(i) /\ p \in PredsOf(BB)
                        THEN (OutKill[p] \cup i.gen) \ {v \in Value : <<v, p>> \in i.incoming}
                        ELSE OutKill[p]
  BY DEF ProcessInsn, PhiKill, IsPhi
<1>8. OutKill' \in BlockSets
  <2>1. OutKill' = [p \in Node |-> OutKill'[p]]
    BY DEF ProcessInsn, PhiKill
  <2>2. \A p \in Node : OutKill[p] \in SUBSET Value
    BY DEF TypeInv, TypeOK, BlockSets
  <2>3. \A p \in Node : OutKill'[p] \in SUBSET Value
    <3> HIDE DEF i
    <3>1. QED
      BY <1>4, <1>7, <2>2
  <2>4. QED
    BY <2>1, <2>3 DEF BlockSets
<1>9. QED
  BY <1>1, <1>2, <1>3, <1>5, <1>6, <1>7, <1>8

LEMMA FinishedBlock ==
  ASSUME TypeInv, FinishBlock
  PROVE  /\ BB \in Node /\ pc = 0 /\ BB' = NULL
         /\ In' = [In EXCEPT ![BB] = live] /\ In' \in BlockSets
         /\ ~change' => ~change /\ live \subseteq In[BB]
BY DEF TypeInv, TypeOK, FinishBlock, BlockSets, Changed

LEMMA TypeStep ==
  ASSUME TypeInv, [Next]_vars
  PROVE  TypeInv'
<1>1. TypeOK /\ OrderInv
  BY DEF TypeInv
<1>2. CASE StartRound
  <2>1. Len(order) \in Nat /\ order' = order /\ order \in Seq(Node) /\ workList' = order
    BY <1>1, <1>2, LenProperties DEF StartRound, TypeOK
  <2>2. order = SubSeq(order, 1, Len(order))
    <3>1. \A i \in 1..Len(order) : order[i] \in Node
      BY <2>1, ElementOfSeq
    <3>2. /\ SubSeq(order, 1, Len(order)) \in Seq(Node)
          /\ Len(SubSeq(order, 1, Len(order))) = Len(order)
          /\ \A i \in 1..Len(order) : SubSeq(order, 1, Len(order))[i] = order[i]
      BY <2>1, PrefixOfOrder
    <3>3. QED
      BY <2>1, <3>2, SeqEqual
  <2>3. IsPrefix(workList', order')
    <3>1. Len(order) \in 0..Len(order)
      BY <2>1
    <3>2. IsPrefix(SubSeq(order, 1, Len(order)), order)
      BY <2>1, <3>1, PrefixOfOrder
    <3>3. QED
      BY <2>1, <2>2, <3>2
  <2>4. OrderInv'
    BY <1>1, <2>1, <2>2 DEF OrderInv, Complete
  <2>5. QED
    BY <1>1, <1>2, <2>3, <2>4 DEF StartRound, block, sets, TypeInv, TypeOK
<1>3. CASE TakeBlock
  <2>1. OrderInv' /\ IsPrefix(workList', order')
    BY <1>3, TakenBlock
  <2>2. BB' \in Node /\ live' \in SUBSET Value /\ Out' \in BlockSets
    BY <1>3, TakenBlock
  <2>3. pc' \in 0..(IF BB' = NULL THEN 0 ELSE Len(F'.code[BB']))
    <3>1. F' = F /\ BB' = Last(workList) /\ pc' = Len(F.code[BB'])
      BY <1>3, TakenBlock DEF TakeBlock
    <3>2. pc' \in Nat
      BY <1>1, <2>2, <3>1, CodeType DEF TypeOK
    <3>3. BB' # NULL
      BY <2>2, NodeAssumption
    <3>4. QED
      BY <3>1, <3>2, <3>3
  <2>4. QED
    BY <1>1, <1>3, <2>1, <2>2, <2>3 DEF TakeBlock, TypeInv, TypeOK
<1>4. CASE ProcessInsn
  <2>1. BB' = BB /\ BB # NULL /\ live' \in SUBSET Value /\ OutKill' \in BlockSets
    BY <1>4, ProcessedInsn DEF ProcessInsn
  <2>2. pc' \in 0..(IF BB' = NULL THEN 0 ELSE Len(F'.code[BB']))
    <3>1. pc \in 1..Len(F.code[BB]) /\ pc' = pc - 1 /\ F' = F
      BY <1>4, ProcessedInsn DEF ProcessInsn
    <3>2. QED
      BY <2>1, <3>1
  <2>3. OrderInv'
    BY <1>1, <1>4 DEF ProcessInsn, OrderInv, Complete
  <2>4. QED
    BY <1>1, <1>4, <2>1, <2>2, <2>3 DEF ProcessInsn, TypeInv, TypeOK
<1>5. CASE FinishBlock
  <2>1. OrderInv'
    BY <1>1, <1>5 DEF FinishBlock, OrderInv, Complete
  <2>2. BB' = NULL /\ pc' = 0 /\ In' \in BlockSets /\ change' \in BOOLEAN
    BY <1>1, <1>5, FinishedBlock DEF FinishBlock, Changed, TypeOK
  <2>3. QED
    BY <1>1, <1>5, <2>1, <2>2 DEF FinishBlock, TypeInv, TypeOK
<1>6. CASE UNCHANGED vars
  <2>1. OrderInv'
    BY <1>1, <1>6 DEF vars, OrderInv, Complete
  <2>2. TypeOK'
    BY <1>1, <1>6 DEF vars, block, sets, TypeOK
  <2>3. QED
    BY <2>1, <2>2 DEF TypeInv
<1>7. QED
  BY <1>2, <1>3, <1>4, <1>5, <1>6 DEF Next, Finish

THEOREM TypeInvariant == Spec => []TypeInv
<1>1. Init => TypeInv
  BY TypeInit
<1>2. TypeInv /\ [Next]_vars => TypeInv'
  BY TypeStep
<1>3. QED
  BY <1>1, <1>2, PTL DEF Spec

\* Every state of the pass is well typed, and what is on the worklist is what is
\* left of one round.
THEOREM TypeCorrect == Spec => []TypeOK
BY TypeInvariant, PTL DEF TypeInv

-----------------------------------------------------------------------------
(* Nothing dead is reported.                                               *)

\* What a block has before it is live after each predecessor or killed there.
InLiveOrKilled == \A s \in Node : \A b \in PredsOf(s) : In[s] \subseteq LiveAfter(b) \cup OutKill[b]

\* So are the operands of the phi nodes the pass has seen of a block; live is
\* what the instructions it has seen make of Out.
HalfwayThrough ==
  \A s \in Node :
    BB = s => /\ live = ThroughFrom(F.code[s], pc, Out[s])
              /\ \A b \in PredsOf(s) : PhiOperands(F.code[s], pc) \subseteq LiveAfter(b) \cup OutKill[b]

LiveInv == TypeInv /\ NothingDead /\ InLiveOrKilled /\ HalfwayThrough

LEMMA LiveInit ==
  ASSUME Init
  PROVE  LiveInv
<1>1. TypeInv
  BY TypeInit
<1>2. NothingDead /\ InLiveOrKilled
  BY DEF Init, NothingDead, InLiveOrKilled, PredsOf
<1>3. HalfwayThrough
  BY NodeAssumption DEF Init, HalfwayThrough
<1>4. QED
  BY <1>1, <1>2, <1>3 DEF LiveInv

LEMMA LiveTake ==
  ASSUME LiveInv, TakeBlock
  PROVE  NothingDead' /\ InLiveOrKilled' /\ HalfwayThrough'
<1> DEFINE b   == Last(workList)
           out == (Out[b] \cup UNION {In[s] : s \in F.succs[b]}) \ OutKill[b]
<1>1. /\ b \in Node /\ BB = NULL /\ BB' = b
      /\ out \in SUBSET Value /\ live' = out
      /\ pc' = Len(F.code[b])
      /\ Out' = [Out EXCEPT ![b] = out]
  BY TakenBlock DEF LiveInv
<1>2. F' = F /\ In' = In /\ OutKill' = OutKill
  BY DEF TakeBlock
<1>3. \A c : LiveAfter(c)' = LiveAfter(c) /\ PredsOf(c)' = PredsOf(c)
  BY <1>2, SameFunction
<1>4. F \in Function /\ Out \in BlockSets
  BY DEF LiveInv, TypeInv, TypeOK
<1>5. out \subseteq LiveAfter(b)
  <2>1. \A s \in F.succs[b] : s \in Node /\ b \in PredsOf(s)
    BY <1>1, <1>4, CodeType DEF PredsOf
  <2>2. \A s \in F.succs[b] : In[s] \subseteq LiveAfter(b) \cup OutKill[b]
    BY <2>1 DEF LiveInv, InLiveOrKilled
  <2>3. Out[b] \subseteq LiveAfter(b)
    BY <1>1 DEF LiveInv, NothingDead
  <2> HIDE DEF b
  <2>4. QED
    BY <2>2, <2>3
<1>6. \A c \in Node : Out'[c] = IF c = b THEN out ELSE Out[c]
  <2> HIDE DEF b, out
  <2>1. QED
    BY <1>1, <1>4 DEF BlockSets
<1>7. NothingDead'
  <2>1. \A c \in Node : Out'[c] \subseteq LiveAfter(c)
    BY <1>5, <1>6 DEF LiveInv, NothingDead
  <2>2. QED
    BY <1>3, <2>1 DEF NothingDead
<1>8. InLiveOrKilled'
  BY <1>2, <1>3 DEF LiveInv, InLiveOrKilled
<1>9. HalfwayThrough'
  <2> HIDE DEF b, out
  <2>1. F.code[b] \in Seq(Insn) /\ Len(F.code[b]) \in Nat
    BY <1>1, <1>4, CodeType
  <2>2. live' = ThroughFrom(F.code[b], pc', Out'[b])
    BY <1>1, <1>6, <2>1, ThroughEnds
  <2>3. PhiOperands(F.code[b], pc') = {}
    <3>1. Len(F.code[b]) + 1..Len(F.code[b]) = {}
      BY <2>1
    <3>2. QED
      BY <1>1, <3>1 DEF PhiOperands
  <2>4. QED
    BY <1>1, <1>2, <2>2, <2>3 DEF HalfwayThrough
<1>10. QED
  BY <1>7, <1>8, <1>9

\* A phi node spares at the end of a predecessor what it takes from there, which
\* is live there, and kills its other operands.
LEMMA PhiKilled ==
  ASSUME TypeInv, ProcessInsn, NEW b \in Node
  PROVE  LET i == F.code[BB][pc] IN
         /\ OutKill[b] \subseteq LiveAfter(b) \cup OutKill'[b]
         /\ b \in PredsOf(BB) /\ IsPhi(i) => i.gen \subseteq LiveAfter(b) \cup OutKill'[b]
<1> DEFINE i == F.code[BB][pc]
           taken == {v \in Value : <<v, b>> \in i.incoming}
<1>1. BB \in Node /\ i \in Insn /\ pc \in 1..Len(F.code[BB]) /\ F \in Function
  BY ProcessedInsn DEF TypeInv, TypeOK
<1>2. OutKill'[b] = IF IsPhi(i) /\ b \in PredsOf(BB) THEN (OutKill[b] \cup i.gen) \ taken
                    ELSE OutKill[b]
  BY ProcessedInsn
<1>3. b \in PredsOf(BB) => taken \subseteq LiveAfter(b)
  <2>1. taken \subseteq TakenFrom(b, BB)
    BY <1>1, CodeType DEF TakenFrom
  <2>2. b \in PredsOf(BB) => BB \in F.succs[b]
    BY DEF PredsOf
  <2> HIDE DEF taken
  <2>3. QED
    BY <1>1, <2>1, <2>2, LiveClosed
<1> HIDE DEF i, taken
<1>4. QED
  BY <1>2, <1>3 DEF i

LEMMA LiveProcess ==
  ASSUME LiveInv, ProcessInsn
  PROVE  NothingDead' /\ InLiveOrKilled' /\ HalfwayThrough'
<1> DEFINE i == F.code[BB][pc]
<1>1. /\ BB \in Node /\ BB' = BB
      /\ i \in Insn /\ pc \in 1..Len(F.code[BB]) /\ pc' = pc - 1
      /\ live' = Through(i, live)
  BY ProcessedInsn DEF LiveInv
<1>2. F' = F /\ In' = In /\ Out' = Out
  BY DEF ProcessInsn
<1>3. \A c : LiveAfter(c)' = LiveAfter(c) /\ PredsOf(c)' = PredsOf(c)
  BY <1>2, SameFunction
<1>4. \A c \in Node : /\ OutKill[c] \subseteq LiveAfter(c) \cup OutKill'[c]
                      /\ c \in PredsOf(BB) /\ IsPhi(i) => i.gen \subseteq LiveAfter(c) \cup OutKill'[c]
  BY PhiKilled DEF LiveInv
<1>5. \A s : PredsOf(s) \subseteq Node
  BY DEF PredsOf
<1>6. NothingDead'
  BY <1>2, <1>3 DEF LiveInv, NothingDead
<1>7. InLiveOrKilled'
  <2>1. \A s \in Node : \A b \in PredsOf(s) : In[s] \subseteq LiveAfter(b) \cup OutKill'[b]
    BY <1>4, <1>5 DEF LiveInv, InLiveOrKilled
  <2>2. QED
    BY <1>2, <1>3, <2>1 DEF InLiveOrKilled
<1>8. HalfwayThrough'
  <2>1. /\ live = ThroughFrom(F.code[BB], pc, Out[BB])
        /\ \A b \in PredsOf(BB) : PhiOperands(F.code[BB], pc) \subseteq LiveAfter(b) \cup OutKill[b]
    BY <1>1 DEF LiveInv, HalfwayThrough
  <2>2. F.code[BB] \in Seq(Insn) /\ Out[BB] \in SUBSET Value
    BY <1>1, CodeType DEF LiveInv, TypeInv, TypeOK, BlockSets
  <2>3. /\ ThroughFrom(F.code[BB], pc - 1, Out[BB]) = Through(i, ThroughFrom(F.code[BB], pc, Out[BB]))
        /\ PhiOperands(F.code[BB], pc - 1)
             = PhiOperands(F.code[BB], pc) \cup (IF IsPhi(i) THEN i.gen ELSE {})
    BY <1>1, <2>2, ThroughStep
  <2>4. live' = ThroughFrom(F.code[BB], pc', Out'[BB])
    BY <1>1, <1>2, <2>1, <2>3
  <2> HIDE DEF i
  <2>5. \A b \in PredsOf(BB) : PhiOperands(F.code[BB], pc') \subseteq LiveAfter(b) \cup OutKill'[b]
    BY <1>1, <1>4, <1>5, <2>1, <2>3
  <2>6. QED
    BY <1>1, <1>2, <1>3, <2>4, <2>5 DEF HalfwayThrough
<1>9. QED
  BY <1>6, <1>7, <1>8

LEMMA LiveFinish ==
  ASSUME LiveInv, FinishBlock
  PROVE  NothingDead' /\ InLiveOrKilled' /\ HalfwayThrough'
<1>1. BB \in Node /\ pc = 0 /\ BB' = NULL /\ In' = [In EXCEPT ![BB] = live]
  BY FinishedBlock DEF LiveInv
<1>2. F' = F /\ Out' = Out /\ OutKill' = OutKill
  BY DEF FinishBlock
<1>3. \A c : LiveAfter(c)' = LiveAfter(c) /\ PredsOf(c)' = PredsOf(c)
  BY <1>2, SameFunction
<1>4. F \in Function /\ In \in BlockSets /\ Out[BB] \in SUBSET Value
  BY <1>1 DEF LiveInv, TypeInv, TypeOK, BlockSets
<1>5. \A b \in PredsOf(BB) : live \subseteq LiveAfter(b) \cup OutKill[b]
  <2>1. /\ live = ThroughFrom(F.code[BB], 0, Out[BB])
        /\ \A b \in PredsOf(BB) : PhiOperands(F.code[BB], 0) \subseteq LiveAfter(b) \cup OutKill[b]
    BY <1>1 DEF LiveInv, HalfwayThrough
  <2>2. live \subseteq Needed(BB, Out[BB]) \cup PhiOperands(F.code[BB], 0)
    BY <1>1, <1>4, <2>1, ThroughBlock
  <2>3. Needed(BB, Out[BB]) \subseteq Needed(BB, LiveAfter(BB))
    BY <1>1, NeededMonotone DEF LiveInv, NothingDead
  <2>4. \A b \in PredsOf(BB) : Needed(BB, LiveAfter(BB)) \subseteq LiveAfter(b)
    BY <1>4, LiveClosed DEF PredsOf
  <2>5. QED
    BY <2>1, <2>2, <2>3, <2>4
<1>6. \A s \in Node : In'[s] = IF s = BB THEN live ELSE In[s]
  BY <1>1, <1>4 DEF BlockSets
<1>7. NothingDead'
  BY <1>2, <1>3 DEF LiveInv, NothingDead
<1>8. InLiveOrKilled'
  <2>1. \A s \in Node : \A b \in PredsOf(s) : In'[s] \subseteq LiveAfter(b) \cup OutKill[b]
    BY <1>5, <1>6 DEF LiveInv, InLiveOrKilled
  <2>2. QED
    BY <1>2, <1>3, <2>1 DEF InLiveOrKilled
<1>9. HalfwayThrough'
  BY <1>1, NodeAssumption DEF HalfwayThrough
<1>10. QED
  BY <1>7, <1>8, <1>9

LEMMA LiveStep ==
  ASSUME LiveInv, [Next]_vars
  PROVE  LiveInv'
<1>1. TypeInv'
  BY TypeStep DEF LiveInv
<1>2. CASE StartRound \/ Finish \/ UNCHANGED vars
  <2>1. F' = F /\ BB' = BB /\ pc' = pc /\ live' = live /\ In' = In /\ Out' = Out /\ OutKill' = OutKill
    BY <1>2 DEF StartRound, Finish, vars, block, sets
  <2>2. \A c : LiveAfter(c)' = LiveAfter(c) /\ PredsOf(c)' = PredsOf(c)
    BY <2>1, SameFunction
  <2>3. NothingDead' /\ InLiveOrKilled'
    BY <2>1, <2>2 DEF LiveInv, NothingDead, InLiveOrKilled
  <2>4. HalfwayThrough'
    BY <2>1, <2>2 DEF LiveInv, HalfwayThrough
  <2>5. QED
    BY <1>1, <2>3, <2>4 DEF LiveInv
<1>3. CASE TakeBlock \/ ProcessInsn \/ FinishBlock
  BY <1>1, <1>3, LiveTake, LiveProcess, LiveFinish DEF LiveInv
<1>4. QED
  BY <1>2, <1>3 DEF Next

THEOREM LiveInvariant == Spec => []LiveInv
<1>1. Init => LiveInv
  BY LiveInit
<1>2. LiveInv /\ [Next]_vars => LiveInv'
  BY LiveStep
<1>3. QED
  BY <1>1, <1>2, PTL DEF Spec

\* The sets after the blocks never hold a value that is dead there, in no state
\* of the pass and for no function, whatever its phi nodes.
THEOREM OnlyLiveReported == Spec => []NothingDead
BY LiveInvariant, PTL DEF LiveInv

-----------------------------------------------------------------------------
(* No live value is missed, unless phi nodes clash.                        *)

\* The blocks taken in this round are processed, but for the one in work.
TakenProcessed ==
  \A b \in Node : Taken(b) /\ BB # b => In[b] = ThroughFrom(F.code[b], 0, Out[b])

\* What those blocks took from their successors is all there is to take.
NothingNew ==
  \A b \in Node : Taken(b) => \A s \in F.succs[b] : In[s] \cap LiveAfter(b) \subseteq Out[b]

KillsDead == \A b \in Node : OutKill[b] \cap LiveAfter(b) = {}

\* Both as long as the round has changed nothing.
CoverInv == /\ ~change => TakenProcessed
            /\ PhisApart => KillsDead /\ (~change => NothingNew)

LEMMA CoverInit ==
  ASSUME Init
  PROVE  CoverInv
BY DEF Init, CoverInv, KillsDead

LEMMA CoverStart ==
  ASSUME TypeInv, StartRound, CoverInv
  PROVE  CoverInv'
<1>1. F' = F /\ workList' = order /\ order' = order /\ OutKill' = OutKill
  BY DEF StartRound, sets
<1>2. \A b : ~Taken(b)'
  <2>1. Len(order) \in Nat /\ DOMAIN order = 1..Len(order)
    BY LenProperties DEF TypeInv, TypeOK
  <2>2. QED
    BY <1>1, <2>1 DEF Taken
<1>3. TakenProcessed' /\ NothingNew'
  BY <1>2 DEF TakenProcessed, NothingNew
<1>4. PhisApart' => KillsDead'
  <2>1. (\A b : LiveAfter(b)' = LiveAfter(b)) /\ PhisApart' = PhisApart
    BY <1>1, SameFunction
  <2>2. QED
    BY <1>1, <2>1 DEF CoverInv, KillsDead
<1>5. QED
  BY <1>3, <1>4 DEF CoverInv

LEMMA CoverTake ==
  ASSUME TypeInv, TakeBlock, CoverInv
  PROVE  CoverInv'
<1> DEFINE b   == Last(workList)
           out == (Out[b] \cup UNION {In[s] : s \in F.succs[b]}) \ OutKill[b]
<1>1. /\ \A c \in Node : Taken(c)' <=> Taken(c) \/ c = b
      /\ b \in Node /\ BB = NULL /\ BB' = b
      /\ Out' = [Out EXCEPT ![b] = out]
  BY TakenBlock
<1>2. F' = F /\ In' = In /\ OutKill' = OutKill /\ change' = change
  BY DEF TakeBlock
<1>3. (\A c : LiveAfter(c)' = LiveAfter(c)) /\ PhisApart' = PhisApart
  BY <1>2, SameFunction
<1>4. \A c \in Node : Out'[c] = IF c = b THEN out ELSE Out[c]
  <2> HIDE DEF b, out
  <2>1. QED
    BY <1>1 DEF TypeInv, TypeOK, BlockSets
<1>5. \A c \in Node : c # NULL
  BY NodeAssumption
<1>6. ~change => TakenProcessed'
  <2> HIDE DEF b, out
  <2>1. QED
    BY <1>1, <1>2, <1>4, <1>5 DEF CoverInv, TakenProcessed
<1>7. PhisApart => KillsDead'
  BY <1>2, <1>3 DEF CoverInv, KillsDead
<1>8. PhisApart /\ ~change => NothingNew'
  <2> SUFFICES ASSUME PhisApart, ~change, NEW c \in Node, Taken(c)', NEW s \in F.succs[c]
               PROVE  In[s] \cap LiveAfter(c) \subseteq Out'[c]
    BY <1>2, <1>3 DEF NothingNew
  <2>1. CASE c = b
    <3>1. OutKill[c] \cap LiveAfter(c) = {}
      BY DEF CoverInv, KillsDead
    <3>2. Out'[c] = (Out[c] \cup UNION {In[t] : t \in F.succs[c]}) \ OutKill[c]
      BY <1>4, <2>1
    <3> HIDE DEF b, out
    <3>3. QED
      BY <3>1, <3>2
  <2>2. CASE c # b
    BY <1>1, <1>4, <2>2 DEF CoverInv, NothingNew
  <2>3. QED
    BY <2>1, <2>2
<1>9. QED
  BY <1>2, <1>3, <1>6, <1>7, <1>8 DEF CoverInv

LEMMA CoverProcess ==
  ASSUME TypeInv, ProcessInsn, CoverInv
  PROVE  CoverInv'
<1> DEFINE i == F.code[BB][pc]
<1>1. /\ BB \in Node /\ BB' = BB /\ i \in Insn /\ pc \in 1..Len(F.code[BB])
      /\ \A p \in Node :
           OutKill'[p] = IF IsPhi(i) /\ p \in PredsOf(BB)
                           THEN (OutKill[p] \cup i.gen) \ {v \in Value : <<v, p>> \in i.incoming}
                           ELSE OutKill[p]
  BY ProcessedInsn
<1>2. F' = F /\ In' = In /\ Out' = Out /\ change' = change /\ workList' = workList /\ order' = order
  BY DEF ProcessInsn
<1>3. (\A c : LiveAfter(c)' = LiveAfter(c)) /\ PhisApart' = PhisApart
  BY <1>2, SameFunction
<1>4. \A c : Taken(c)' = Taken(c)
  BY <1>2 DEF Taken
<1>5. ~change => TakenProcessed'
  BY <1>1, <1>2, <1>4 DEF CoverInv, TakenProcessed
<1>6. PhisApart /\ ~change => NothingNew'
  BY <1>2, <1>3, <1>4 DEF CoverInv, NothingNew
<1>7. PhisApart => KillsDead'
  <2> SUFFICES ASSUME PhisApart, NEW p \in Node
               PROVE  OutKill'[p] \cap LiveAfter(p) = {}
    BY <1>3 DEF KillsDead
  <2>1. OutKill[p] \cap LiveAfter(p) = {}
    BY DEF CoverInv, KillsDead
  <2>2. IsPhi(i) /\ p \in PredsOf(BB) =>
          \A v \in i.gen : <<v, p>> \in i.incoming \/ v \notin LiveAfter(p)
    <3>1. pc \in DOMAIN F.code[BB]
      BY <1>1, CodeType DEF TypeInv, TypeOK
    <3>2. QED
      BY <1>1, <3>1 DEF PhisApart
  <2>3. i.gen \subseteq Value
    BY <1>1 DEF Insn
  <2> HIDE DEF i
  <2>4. QED
    BY <1>1, <2>1, <2>2, <2>3
<1>8. QED
  BY <1>2, <1>3, <1>5, <1>6, <1>7 DEF CoverInv

LEMMA CoverFinish ==
  ASSUME LiveInv, FinishBlock, CoverInv
  PROVE  CoverInv'
<1>1. /\ BB \in Node /\ pc = 0 /\ BB' = NULL /\ In' = [In EXCEPT ![BB] = live]
      /\ ~change' => ~change /\ live \subseteq In[BB]
  BY FinishedBlock DEF LiveInv
<1>2. F' = F /\ Out' = Out /\ OutKill' = OutKill /\ workList' = workList /\ order' = order
  BY DEF FinishBlock
<1>3. (\A c : LiveAfter(c)' = LiveAfter(c)) /\ PhisApart' = PhisApart
  BY <1>2, SameFunction
<1>4. \A c : Taken(c)' = Taken(c)
  BY <1>2 DEF Taken
<1>5. \A s \in Node : In'[s] = IF s = BB THEN live ELSE In[s]
  BY <1>1 DEF LiveInv, TypeInv, TypeOK, BlockSets
<1>6. live = ThroughFrom(F.code[BB], 0, Out[BB])
  BY <1>1 DEF LiveInv, HalfwayThrough
<1>7. ~change' => TakenProcessed'
  BY <1>1, <1>2, <1>4, <1>5, <1>6 DEF CoverInv, TakenProcessed
<1>8. PhisApart => KillsDead'
  BY <1>2, <1>3 DEF CoverInv, KillsDead
<1>9. PhisApart /\ ~change' => NothingNew'
  <2>1. \A b \in Node : F.succs[b] \subseteq Node
    BY CodeType DEF LiveInv, TypeInv, TypeOK
  <2>2. ~change' => \A s \in Node : In'[s] \subseteq In[s]
    BY <1>1, <1>5
  <2>3. QED
    BY <1>1, <1>2, <1>3, <1>4, <2>1, <2>2 DEF CoverInv, NothingNew
<1>10. QED
  BY <1>3, <1>7, <1>8, <1>9 DEF CoverInv

LEMMA CoverStep ==
  ASSUME LiveInv, CoverInv, [Next]_vars
  PROVE  CoverInv'
<1>1. CASE Finish \/ UNCHANGED vars
  <2>1. /\ F' = F /\ BB' = BB /\ In' = In /\ Out' = Out /\ OutKill' = OutKill
        /\ change' = change /\ workList' = workList /\ order' = order
    BY <1>1 DEF Finish, vars, block, sets
  <2>2. (\A c : LiveAfter(c)' = LiveAfter(c)) /\ PhisApart' = PhisApart
    BY <2>1, SameFunction
  <2>3. \A c : Taken(c)' = Taken(c)
    BY <2>1 DEF Taken
  <2>4. TakenProcessed' = TakenProcessed /\ NothingNew' = NothingNew /\ KillsDead' = KillsDead
    BY <2>1, <2>2, <2>3 DEF TakenProcessed, NothingNew, KillsDead
  <2>5. QED
    BY <2>1, <2>2, <2>4 DEF CoverInv
<1>2. QED
  BY <1>1, CoverStart, CoverTake, CoverProcess, CoverFinish DEF Next, LiveInv

\* When the rounds end, the part of Out that is live solves the equations of
\* liveness, and is the whole.
LEMMA CoverEnd ==
  ASSUME LiveInv, CoverInv, Done, PhisApart
  PROVE  Covered
<1> DEFINE sol == [b \in Node |-> Out[b] \cap LiveAfter(b)]
<1>1. \A b \in Node : Taken(b) /\ BB # b
  <2>1. order \in Seq(Node) /\ DOMAIN order = 1..Len(order) /\ Len(order) \in Nat
    BY LenProperties DEF LiveInv, TypeInv, TypeOK
  <2>2. Len(workList) = 0 /\ BB = NULL
    BY EmptySeq DEF Done
  <2>3. \A i \in DOMAIN order : i > Len(workList)
    BY <2>1, <2>2
  <2>4. QED
    BY <2>2, <2>3, NodeAssumption DEF Taken, LiveInv, TypeInv, OrderInv, Complete
<1>2. TakenProcessed /\ NothingNew
  BY DEF CoverInv, Done
<1>3. F \in Function /\ \A b \in Node : Out[b] \in SUBSET Value
  BY DEF LiveInv, TypeInv, TypeOK, BlockSets
<1>4. ASSUME NEW b \in Node, NEW s \in F.succs[b],
             NEW v \in TakenFrom(b, s) \cup Needed(s, sol[s])
      PROVE  v \in Out[b] \cap LiveAfter(b)
  <2>1. s \in Node /\ b \in PredsOf(s)
    BY <1>3, CodeType DEF PredsOf
  <2>2. sol[s] \subseteq Out[s] /\ sol[s] \subseteq LiveAfter(s)
    BY <2>1
  <2> HIDE DEF sol
  <2>3. v \in LiveAfter(b)
    BY <1>3, <1>4, <2>1, <2>2, NeededMonotone, LiveClosed
  <2>4. In[s] = ThroughFrom(F.code[s], 0, Out[s])
    BY <1>1, <1>2, <2>1 DEF TakenProcessed
  <2>5. CASE v \in Needed(s, sol[s])
    <3>1. v \in Needed(s, Out[s])
      BY <2>2, <2>5, NeededMonotone
    <3>2. v \in In[s]
      BY <1>3, <2>1, <2>4, <3>1, ThroughBlock
    <3>3. QED
      BY <1>1, <1>2, <2>3, <3>2 DEF NothingNew
  <2>6. CASE v \in TakenFrom(b, s)
    <3>1. PICK i \in DOMAIN F.code[s] : <<v, b>> \in F.code[s][i].incoming
      BY <2>6 DEF TakenFrom
    <3>2. i \in 0 + 1..Len(F.code[s]) /\ F.code[s][i] \in Insn
      BY <1>3, <2>1, CodeType
    <3>3. IsPhi(F.code[s][i]) /\ v \in F.code[s][i].gen
      <4>1. F.code[s][i].gen = {e[1] : e \in F.code[s][i].incoming}
        BY <3>1, <3>2 DEF Insn
      <4>2. QED
        BY <3>1, <4>1 DEF IsPhi
    <3>4. Intact(v, s, i - 1)
      BY <2>1, <3>1, <3>3 DEF PhisApart
    <3>5. IntactIn(v, F.code[s], 0, i - 1)
      BY <3>4 DEF Intact, IntactIn
    <3>6. v \in Value
      BY <2>6 DEF TakenFrom
    <3>7. v \in In[s]
      BY <2>4, <3>2, <3>3, <3>5, <3>6 DEF ThroughFrom
    <3>8. QED
      BY <1>1, <1>2, <2>3, <3>7 DEF NothingNew
  <2>7. QED
    BY <1>4, <2>5, <2>6
<1>5. sol \in BlockSets
  BY <1>3 DEF BlockSets
<1>6. Closed(sol)
  <2>1. \A b \in Node : sol[b] = Out[b] \cap LiveAfter(b)
    OBVIOUS
  <2> HIDE DEF sol
  <2>2. QED
    BY <1>4, <2>1 DEF Closed
<1>7. \A b \in Node : LiveAfter(b) \subseteq sol[b]
  BY <1>5, <1>6 DEF LiveAfter
<1>8. QED
  BY <1>7 DEF Covered

\* A function whose phi nodes do not clash has, when the pass ends, every live
\* value in the set after its block, whatever its loops and the order of the
\* blocks; with OnlyLiveReported, the sets are then exactly the live values.
THEOREM NoLiveValueMissed == Spec => []LiveIfPhisApart
<1>1. Init => CoverInv
  BY CoverInit
<1>2. LiveInv /\ CoverInv /\ [Next]_vars => CoverInv'
  BY CoverStep
<1>3. LiveInv /\ CoverInv => LiveIfPhisApart
  BY CoverEnd DEF LiveIfPhisApart
<1>4. QED
  BY <1>1, <1>2, <1>3, LiveInvariant, PTL DEF Spec

-----------------------------------------------------------------------------
(* The equations of a function without phi nodes.                          *)

FromSuccs(b) == UNION {In[s] : s \in F.succs[b]}

Right(b) == ThroughFrom(F.code[b], 0, FromSuccs(b))

\* Out has nothing but what the successors have now, and before a block is nothing
\* that does not come from its Out.  In a round that has changed nothing so far the
\* equations of the blocks processed hold.
PlainInv ==
  NoPhis =>
    /\ \A b \in Node : /\ OutKill[b] = {}
                       /\ Out[b] \subseteq FromSuccs(b)
                       /\ BB = b => Out[b] = FromSuccs(b)
                       /\ In[b] \subseteq ThroughFrom(F.code[b], 0, Out[b])
    /\ ~change => \A b \in Node : Taken(b) /\ BB # b => In[b] = Right(b)

LEMMA RightIsEquation ==
  ASSUME F \in Function, NEW b \in Node
  PROVE  Right(b) = Equation(F, In, b)
<1>1. Len(F.code[b]) \in Nat /\ DOMAIN F.code[b] = 1..Len(F.code[b]) /\ 0 + 1 = 1
  BY CodeType
<1>2. QED
  BY <1>1 DEF Right, Equation, ThroughFrom, IntactIn, FromSuccs

LEMMA ThroughMonotone ==
  ASSUME NEW code, NEW k, NEW o1, NEW o2, o1 \subseteq o2
  PROVE  ThroughFrom(code, k, o1) \subseteq ThroughFrom(code, k, o2)
BY DEF ThroughFrom

LEMMA PlainInit ==
  ASSUME Init
  PROVE  PlainInv
<1>1. change /\ \A b \in Node : Out[b] = {} /\ In[b] = {} /\ OutKill[b] = {} /\ BB # b
  BY NodeAssumption DEF Init
<1>2. QED
  BY <1>1 DEF PlainInv

LEMMA SamePlain ==
  ASSUME F' = F
  PROVE  /\ NoPhis' <=> NoPhis
         /\ In' = In => \A b : FromSuccs(b)' = FromSuccs(b) /\ Right(b)' = Right(b)
BY DEF NoPhis, FromSuccs, Right

LEMMA PlainTake ==
  ASSUME TypeInv, TakeBlock, PlainInv
  PROVE  PlainInv'
<1> SUFFICES ASSUME NoPhis
             PROVE  PlainInv'
  BY SamePlain DEF PlainInv, TakeBlock
<1> DEFINE b   == Last(workList)
           out == (Out[b] \cup UNION {In[s] : s \in F.succs[b]}) \ OutKill[b]
<1>1. /\ \A c \in Node : Taken(c)' <=> Taken(c) \/ c = b
      /\ b \in Node /\ BB = NULL /\ BB' = b
      /\ Out' = [Out EXCEPT ![b] = out]
  BY TakenBlock
<1>2. F' = F /\ In' = In /\ OutKill' = OutKill /\ change' = change
  BY DEF TakeBlock
<1>3. \A c : FromSuccs(c)' = FromSuccs(c) /\ Right(c)' = Right(c)
  BY <1>2, SamePlain
<1>4. out = FromSuccs(b)
  <2>1. OutKill[b] = {} /\ Out[b] \subseteq FromSuccs(b)
    BY <1>1 DEF PlainInv
  <2> HIDE DEF b
  <2>2. QED
    BY <2>1 DEF FromSuccs
<1>5. \A c \in Node : Out'[c] = IF c = b THEN FromSuccs(b) ELSE Out[c]
  <2> HIDE DEF b, out
  <2>1. QED
    BY <1>1, <1>4 DEF TypeInv, TypeOK, BlockSets
<1> HIDE DEF b, out
<1>6. \A c \in Node : /\ OutKill'[c] = {}
                      /\ Out'[c] \subseteq FromSuccs(c)
                      /\ BB' = c => Out'[c] = FromSuccs(c)
  BY <1>1, <1>2, <1>5 DEF PlainInv
<1>7. ASSUME NEW c \in Node
      PROVE  In[c] \subseteq ThroughFrom(F.code[c], 0, Out'[c])
  <2>1. Out[c] \subseteq Out'[c] /\ In[c] \subseteq ThroughFrom(F.code[c], 0, Out[c])
    BY <1>5 DEF PlainInv
  <2>2. QED
    BY <2>1, ThroughMonotone
<1>8. ~change => \A c \in Node : Taken(c)' /\ BB' # c => In[c] = Right(c)
  BY <1>1, NodeAssumption DEF PlainInv
<1>9. QED
  BY <1>2, <1>3, <1>6, <1>7, <1>8 DEF PlainInv

\* Finishing a block applies its equation, and loses nothing.
LEMMA PlainFinished ==
  ASSUME LiveInv, FinishBlock, PlainInv, NoPhis
  PROVE  /\ BB \in Node
         /\ live = Right(BB) /\ In[BB] \subseteq live
         /\ \A c \in Node : In'[c] = IF c = BB THEN live ELSE In[c]
<1>1. BB \in Node /\ pc = 0 /\ In' = [In EXCEPT ![BB] = live]
  BY FinishedBlock DEF LiveInv
<1>2. live = ThroughFrom(F.code[BB], 0, Out[BB])
  BY <1>1 DEF LiveInv, HalfwayThrough
<1>3. Out[BB] = FromSuccs(BB) /\ In[BB] \subseteq ThroughFrom(F.code[BB], 0, Out[BB])
  BY <1>1 DEF PlainInv
<1>4. \A c \in Node : In'[c] = IF c = BB THEN live ELSE In[c]
  BY <1>1 DEF LiveInv, TypeInv, TypeOK, BlockSets
<1>5. QED
  BY <1>1, <1>2, <1>3, <1>4 DEF Right

LEMMA PlainFinish ==
  ASSUME LiveInv, FinishBlock, PlainInv
  PROVE  PlainInv'
<1> SUFFICES ASSUME NoPhis
             PROVE  PlainInv'
  BY SamePlain DEF PlainInv, FinishBlock
<1>1. /\ BB \in Node /\ live = Right(BB) /\ In[BB] \subseteq live
      /\ \A c \in Node : In'[c] = IF c = BB THEN live ELSE In[c]
  BY PlainFinished
<1>2. /\ F' = F /\ Out' = Out /\ OutKill' = OutKill /\ workList' = workList /\ order' = order
      /\ BB' = NULL /\ In' = [In EXCEPT ![BB] = live]
      /\ ~change' => ~change /\ live \subseteq In[BB]
  BY FinishedBlock DEF FinishBlock, LiveInv
<1>3. /\ F \in Function /\ In \in BlockSets
      /\ \A c \in Node : F.succs[c] \subseteq Node
  BY CodeType DEF LiveInv, TypeInv, TypeOK
<1>4. \A c \in Node : FromSuccs(c) \subseteq FromSuccs(c)'
  BY <1>1, <1>2, <1>3 DEF FromSuccs
<1>5. ASSUME NEW c \in Node
      PROVE  /\ OutKill'[c] = {}
             /\ Out'[c] \subseteq FromSuccs(c)'
             /\ BB' # c
             /\ In'[c] \subseteq ThroughFrom(F'.code[c], 0, Out'[c])
  <2>1. OutKill[c] = {} /\ Out[c] \subseteq FromSuccs(c) /\ In[c] \subseteq ThroughFrom(F.code[c], 0, Out[c])
    BY DEF PlainInv
  <2>2. In'[c] \subseteq ThroughFrom(F.code[c], 0, Out[c])
    <3>1. Out[BB] = FromSuccs(BB)
      BY <1>1 DEF PlainInv
    <3>2. QED
      BY <1>1, <2>1, <3>1 DEF Right
  <2>3. BB' # c
    BY <1>2, NodeAssumption
  <2>4. QED
    BY <1>2, <1>4, <2>1, <2>2, <2>3
<1>6. ASSUME ~change', NEW c \in Node, Taken(c)'
      PROVE  In'[c] = Right(c)'
  <2>0. live = In[BB]
    BY <1>1, <1>2, <1>6
  <2>1. In' = In
    BY <1>2, <1>3, <2>0 DEF BlockSets
  <2>2. Right(c)' = Right(c) /\ Taken(c)
    <3>1. Right(c)' = Right(c)
      BY <1>2, <2>1, SamePlain
    <3>2. Taken(c)
      BY <1>2, <1>6 DEF Taken
    <3>3. QED
      BY <3>1, <3>2
  <2>3. In[c] = Right(c)
    <3>1. CASE c = BB
      BY <1>1, <2>0, <3>1
    <3>2. CASE c # BB
      BY <1>2, <1>6, <2>2, <3>2 DEF PlainInv
    <3>3. QED
      BY <3>1, <3>2
  <2>4. QED
    BY <2>1, <2>2, <2>3
<1>7. QED
  BY <1>5, <1>6 DEF PlainInv

LEMMA PlainStep ==
  ASSUME LiveInv, PlainInv, [Next]_vars
  PROVE  PlainInv'
<1>1. CASE StartRound
  <2>1. /\ F' = F /\ In' = In /\ Out' = Out /\ OutKill' = OutKill /\ BB' = BB
        /\ workList' = order /\ order' = order
    BY <1>1 DEF StartRound, sets, block
  <2>2. \A b : ~Taken(b)'
    <3>1. Len(order) \in Nat /\ DOMAIN order = 1..Len(order)
      BY LenProperties DEF LiveInv, TypeInv, TypeOK
    <3>2. QED
      BY <2>1, <3>1 DEF Taken
  <2>3. QED
    BY <2>1, <2>2, SamePlain DEF PlainInv
<1>2. CASE ProcessInsn
  <2>1. F' = F /\ In' = In /\ Out' = Out /\ change' = change /\ workList' = workList /\ order' = order
    BY <1>2 DEF ProcessInsn
  <2>2. /\ BB \in Node /\ BB' = BB /\ pc \in DOMAIN F.code[BB]
        /\ \A p \in Node :
             OutKill'[p] = IF IsPhi(F.code[BB][pc]) /\ p \in PredsOf(BB)
                             THEN (OutKill[p] \cup F.code[BB][pc].gen)
                                    \ {v \in Value : <<v, p>> \in F.code[BB][pc].incoming}
                             ELSE OutKill[p]
    BY <1>2, ProcessedInsn, CodeType DEF LiveInv, TypeInv, TypeOK
  <2>3. NoPhis => \A p \in Node : OutKill'[p] = OutKill[p]
    BY <2>2 DEF NoPhis
  <2>4. \A c : Taken(c)' = Taken(c)
    BY <2>1 DEF Taken
  <2>5. QED
    BY <2>1, <2>2, <2>3, <2>4, SamePlain DEF PlainInv
<1>3. CASE Finish \/ UNCHANGED vars
  <2>1. /\ F' = F /\ BB' = BB /\ In' = In /\ Out' = Out /\ OutKill' = OutKill
        /\ change' = change /\ workList' = workList /\ order' = order
    BY <1>3 DEF Finish, vars, block, sets
  <2>2. \A c : Taken(c)' = Taken(c)
    BY <2>1 DEF Taken
  <2>3. QED
    BY <2>1, <2>2, SamePlain DEF PlainInv
<1>4. QED
  BY <1>1, <1>2, <1>3, PlainTake, PlainFinish DEF Next, LiveInv

\* The last block finished ends the rounds, with every equation solved; any other
\* applies its own.
LEMMA SolverFinish ==
  ASSUME LiveInv, PlainInv, PlainInv', NoPhis, FinishBlock
  PROVE  [Solver!Next]_(Solver!vars)
<1>1. /\ BB \in Node /\ live = Right(BB) /\ In[BB] \subseteq live
      /\ \A c \in Node : In'[c] = IF c = BB THEN live ELSE In[c]
  BY PlainFinished
<1>2. /\ F' = F /\ BB' = NULL /\ In' = [In EXCEPT ![BB] = live]
      /\ ~change' => live \subseteq In[BB]
  BY FinishedBlock DEF FinishBlock, LiveInv
<1>3. F \in Function /\ In \in BlockSets
  BY DEF LiveInv, TypeInv, TypeOK
<1>4. Done = FALSE /\ Done' \in BOOLEAN
  BY <1>1, NodeAssumption DEF Done
<1>5. CASE ~Done'
  <2>1. Solver!Apply(BB)
    BY <1>1, <1>2, <1>3, <1>4, <1>5, RightIsEquation DEF Solver!Apply
  <2>2. QED
    BY <1>1, <2>1 DEF Solver!Next, AllNodes
<1>6. CASE Done'
  <2>1. In' = In
    <3>1. live = In[BB]
      BY <1>1, <1>2, <1>6 DEF Done
    <3>2. QED
      BY <1>2, <1>3, <3>1 DEF BlockSets
  <2>2. \A b \in Node : Taken(b)'
    <3>1. order' = order /\ order \in Seq(Node) /\ Complete
      BY DEF FinishBlock, LiveInv, TypeInv, TypeOK, OrderInv
    <3>2. DOMAIN order = 1..Len(order) /\ Len(order) \in Nat /\ Len(workList') = 0
      BY <1>6, <3>1, LenProperties, EmptySeq DEF Done
    <3>3. \A i \in DOMAIN order : i > Len(workList')
      BY <3>2
    <3>4. QED
      BY <3>1, <3>3 DEF Taken, Complete
  <2>3. NoPhis' /\ ~change' /\ \A b \in Node : BB' # b /\ Right(b)' = Right(b)
    BY <1>2, <1>6, <2>1, SamePlain, NodeAssumption DEF Done
  <2>4. \A b \in Node : In[b] = Right(b)
    BY <2>1, <2>2, <2>3 DEF PlainInv
  <2>5. Solver!Return
    BY <1>2, <1>3, <1>4, <1>6, <2>1, <2>4, RightIsEquation DEF Solver!Return, Solver!Solved, AllNodes
  <2>6. QED
    BY <2>5 DEF Solver!Next
<1>7. QED
  BY <1>5, <1>6

LEMMA SolverStep ==
  ASSUME LiveInv, PlainInv, PlainInv', NoPhis, [Next]_vars
  PROVE  [Solver!Next]_(Solver!vars)
<1>1. CASE StartRound
  <2>1. order # <<>>
    <3>1. F.entry \in Node
      BY DEF LiveInv, TypeInv, TypeOK, Function
    <3>2. \E i \in DOMAIN order : order[i] = F.entry
      BY <3>1 DEF LiveInv, TypeInv, OrderInv, Complete
    <3>3. QED
      BY <3>2
  <2>2. Done = FALSE /\ Done' = FALSE /\ F' = F /\ In' = In
    BY <1>1, <2>1 DEF StartRound, Done, sets
  <2>3. QED
    BY <2>2 DEF Solver!vars
<1>2. CASE TakeBlock
  <2>1. Done = FALSE /\ Done' = FALSE /\ F' = F /\ In' = In
    BY <1>2, TakenBlock, NodeAssumption DEF TakeBlock, Done, LiveInv
  <2>2. QED
    BY <2>1 DEF Solver!vars
<1>3. CASE ProcessInsn
  <2>1. Done = FALSE /\ Done' = FALSE /\ F' = F /\ In' = In
    BY <1>3 DEF ProcessInsn, Done
  <2>2. QED
    BY <2>1 DEF Solver!vars
<1>4. CASE Finish \/ UNCHANGED vars
  <2>1. Done' = Done /\ F' = F /\ In' = In
    BY <1>4 DEF Finish, vars, block, sets, Done
  <2>2. QED
    BY <2>1 DEF Solver!vars
<1>5. QED
  BY <1>1, <1>2, <1>3, <1>4, SolverFinish DEF Next

\* Without phi nodes LiveAnalysis implements ChaoticIteration, for every function
\* and every order of its blocks: each block finished is its equation applied, with
\* nothing left in Out of earlier rounds, and the pass ends only on a solution.
THEOREM ImplementsSolver == Spec => SolvesWithoutPhis
<1>1. Init => PlainInv
  BY PlainInit
<1>2. LiveInv /\ PlainInv /\ [Next]_vars => PlainInv'
  BY PlainStep
<1>3. LiveInv /\ PlainInv /\ PlainInv' /\ [Next]_vars
        => [NoPhis => [Solver!Next]_(Solver!vars)]_vars
  BY SolverStep
<1>4. QED
  BY <1>1, <1>2, <1>3, LiveInvariant, PTL DEF Spec, SolvesWithoutPhis
=============================================================================
