---------------------------- MODULE ValueContexts ----------------------------
(***************************************************************************)
(* What an analysis by value contexts promises, whatever order it works    *)
(* in.  Its state is one table.  A key is a method with the value it is    *)
(* entered with; what the table has under a key are the values before and  *)
(* after every block of the method and the value it exits with.  Keys are  *)
(* only added, for calls the program has; values only descend; and when    *)
(* the table is returned every edge is respected in it, and it is final.   *)
(***************************************************************************)
EXTENDS SignAnalysis

VARIABLES module, table, returned

tableVars == <<module, table, returned>>

Entry(f) == module.blocks[f][1]

\* A method about to be analysed.
Fresh(f, v) == [before |-> [n \in Node |-> IF n = Entry(f) THEN v ELSE topValue],
                after  |-> [n \in Node |-> topValue],
                exit   |-> topValue]

\* The keys a call may add: a sign for every parameter and for nothing else.
Keys(f) ==
  {<<f, v>> : v \in {w \in Values : \A x \in Name : w[x] # Absent <=> x \in Range(module.params[f])}}

Calls(f, g) ==
  \E n \in Range(module.blocks[f]) : \E i \in DOMAIN module.code[n] :
    module.code[n][i].op = "call" /\ module.code[n][i].callee = g

Descends(new, old) ==
  /\ Below(new.exit, old.exit)
  /\ \A n \in Node : Below(new.before[n], old.before[n]) /\ Below(new.after[n], old.after[n])

Solved ==
  \A k \in DOMAIN table : \A p \in Node : \A n \in Range(module.succs[p]) :
    Below(table[k].before[n], table[k].after[p])

Init ==
  /\ module \in Module
  /\ table = [k \in {<<module.main, topValue>>} |-> Fresh(module.main, topValue)]
  /\ returned = FALSE

\* A method that has been called gets a key of its own, unless it has it.
Discover ==
  /\ ~returned
  /\ \E c \in DOMAIN table, g \in Method :
       /\ Calls(c[1], g)
       /\ \E k \in Keys(g) \ DOMAIN table :
            table' = [j \in DOMAIN table \cup {k} |-> IF j = k THEN Fresh(g, k[2]) ELSE table[j]]
  /\ UNCHANGED <<module, returned>>

\* The values under one key descend; what it is entered with stays.
Lower ==
  /\ ~returned
  /\ DOMAIN table' = DOMAIN table
  /\ \E k \in DOMAIN table :
       /\ Descends(table'[k], table[k])
       /\ table'[k].before[Entry(k[1])] = k[2]
       /\ \A j \in DOMAIN table : j # k => table'[j] = table[j]
  /\ UNCHANGED <<module, returned>>

Return ==
  /\ ~returned
  /\ Solved
  /\ returned' = TRUE
  /\ UNCHANGED <<module, table>>

Next == Lower \/ Return \/ Discover

Spec == Init /\ [][Next]_tableVars
=============================================================================
