----------------------- MODULE ContextTransitionTable -----------------------
(***************************************************************************)
(* project/context_transition_table.cpp: which context a call site leads   *)
(* to, per called method (transitions), and which call sites lead to a     *)
(* context (callers).                                                      *)
(*                                                                         *)
(* A context is its id: Context's operator== and hash look at nothing      *)
(* else.  A call site is the pair of the calling context and the basic     *)
(* block of the call: two calls in one block share it.                     *)
(***************************************************************************)
EXTENDS IR, SequencesExt

ContextId == Nat \ {0}

CallSite == [context : ContextId, node : Node]

VARIABLES transitions,  \* unordered_map: <<call site, method>> -> context
          callers       \* unordered_map: context -> vector of call sites

tableVars == <<transitions, callers>>

TableTypeOK ==
  /\ transitions \in [DOMAIN transitions -> ContextId]
  /\ DOMAIN transitions \subseteq CallSite \X Method
  /\ callers \in [DOMAIN callers -> Seq(CallSite)]
  /\ DOMAIN callers \subseteq ContextId

TableInit == transitions = <<>> /\ callers = <<>>

getCallers(t) == IF t \in DOMAIN callers THEN callers[t] ELSE <<>>

\* Mutant: the call site stays with the context it led to.
WithoutNothing(siteList, site) == siteList

\* erase(remove(...)): a vector holds a call site at most once (CallersInverse).
Without(siteList, site) ==
  IF \E i \in DOMAIN siteList : siteList[i] = site
    THEN RemoveAt(siteList, CHOOSE i \in DOMAIN siteList : siteList[i] = site)
    ELSE siteList

\* The call site moves from the context it led to for this method to the new one.
addTransition(site, method, target) ==
  LET key     == <<site, method>>
      kept(t) == IF key \in DOMAIN transitions /\ transitions[key] = t
                   THEN Without(getCallers(t), site)
                   ELSE getCallers(t)
  IN /\ transitions' = [k \in DOMAIN transitions \cup {key} |->
                          IF k = key THEN target ELSE transitions[k]]
     /\ callers' = [t \in DOMAIN callers \cup {target} |->
                      IF t = target THEN Append(kept(t), site) ELSE kept(t)]

-----------------------------------------------------------------------------
\* The two maps are inverse: the callers of a context are exactly the call
\* sites whose transitions lead to it, each once, whatever moves from context
\* to context.
CallersInverse ==
  /\ \A k \in DOMAIN transitions :
       \E i \in DOMAIN getCallers(transitions[k]) : callers[transitions[k]][i] = k[1]
  /\ \A t \in DOMAIN callers : \A i \in DOMAIN callers[t] :
       /\ \E m \in Method : /\ <<callers[t][i], m>> \in DOMAIN transitions
                            /\ transitions[<<callers[t][i], m>>] = t
       /\ \A j \in DOMAIN callers[t] : callers[t][i] = callers[t][j] => i = j
=============================================================================
