-------------------------- MODULE ChaoticIteration --------------------------
(***************************************************************************)
(* What a data flow solver promises: it applies equations, one at a time   *)
(* and in any order, and returns only when all of them hold.               *)
(***************************************************************************)
CONSTANTS Node,           \* where there may be an unknown
          Output,         \* the values of unknowns
          Problems,       \* the systems of equations
          Unknowns(_),    \* the nodes a problem has an equation for
          Rhs(_, _, _)    \* Rhs(p, sol, n): the right-hand side of n's equation

VARIABLES problem, sol, returned

vars == <<problem, sol, returned>>

Init == /\ problem \in Problems
        /\ sol \in [Node -> Output]
        /\ returned = FALSE

Apply(n) == /\ ~returned
            /\ sol' = [sol EXCEPT ![n] = Rhs(problem, sol, n)]
            /\ UNCHANGED <<problem, returned>>

Solved == \A n \in Unknowns(problem) : sol[n] = Rhs(problem, sol, n)

Return == /\ ~returned
          /\ Solved
          /\ returned' = TRUE
          /\ UNCHANGED <<problem, sol>>

Next == Return \/ \E n \in Unknowns(problem) : Apply(n)

Spec == Init /\ [][Next]_vars
=============================================================================
