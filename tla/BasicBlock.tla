----------------------------- MODULE BasicBlock -----------------------------
(***************************************************************************)
(* One basic block, run twice in step: by the machine, on integers, and by *)
(* normalFlowFunction / callCustomFlowFunction of                          *)
(* project/sign_analysis.cpp, on signs.  It says what the flow functions   *)
(* are for: whatever the machine computes has the sign they predict.       *)
(***************************************************************************)
EXTENDS Machine

CONSTANT Blocks  \* the blocks considered: sequences of instructions

ASSUME BlocksAssumption == Blocks \subseteq Seq(Instruction)

VARIABLES block,      \* the block that runs
          pc,         \* the next instruction of it
          store,      \* the machine's value of every name
          out_value,  \* the analysis' sign of every name
          aborted     \* the analysis hit assert(false)

vars == <<block, pc, store, out_value, aborted>>

TypeOK == /\ block \in Blocks
          /\ pc \in 1..Len(block) + 1
          /\ store \in [Name -> Stored]
          /\ out_value \in Values
          /\ aborted \in BOOLEAN

\* The block is entered with an in_value that covers the machine's store.
Init == /\ block \in Blocks
        /\ pc = 1
        /\ store \in [Name -> Stored]
        /\ out_value \in {dfv \in Values : Covers(store, dfv)}
        /\ aborted = FALSE

-----------------------------------------------------------------------------
insn == block[pc]

Goes == pc <= Len(block) /\ ~aborted

\* An instruction whose operands the analysis knows, other than a call.
Compute ==
  /\ Goes
  /\ insn.op \notin {"call", "br"}
  /\ OperandsDefined(out_value, insn)
  /\ \E v \in Results(insn, store) \cap Stored : store' = [store EXCEPT ![Defines(insn)] = v]
  /\ out_value' = normalFlow(insn, out_value)
  /\ pc' = pc + 1
  /\ UNCHANGED <<block, aborted>>

Branch ==
  /\ Goes
  /\ insn.op = "br"
  /\ out_value' = normalFlow(insn, out_value)
  /\ pc' = pc + 1
  /\ UNCHANGED <<block, store, aborted>>

\* A call of a method some context of which has been analysed: it returns a
\* value its exit value covers, and what it returns is met with out_value.
Call ==
  /\ Goes
  /\ insn.op = "call"
  /\ OperandsDefined(out_value, insn)
  /\ \E v \in Stored : \E s \in {t \in SIGN : SignCovers(v, t)} :
       LET exit == [topValue EXCEPT ![RETURN] = s] IN
       /\ store' = [store EXCEPT ![insn.def] = v]
       /\ out_value' = meet(out_value, callExitFlowFunction(insn, exit))
  /\ pc' = pc + 1
  /\ UNCHANGED <<block, aborted>>

\* assert(false) of signOf and callEntryFlowFunction.
MissingOperand ==
  /\ Goes
  /\ ~OperandsDefined(out_value, insn)
  /\ aborted' = TRUE
  /\ UNCHANGED <<block, pc, store, out_value>>

Next == Compute \/ Branch \/ Call \/ MissingOperand

Spec == Init /\ [][Next]_vars

-----------------------------------------------------------------------------
(***************************************************************************)
(* Properties.                                                             *)
(***************************************************************************)

\* The signs the flow functions compute cover the integers the machine
\* computes, after every instruction of every block: SIGN_plus, SIGN_mult,
\* SIGN_negate, the copies, and the meet a call ends in lose no value.
Sound == Covers(store, out_value)
=============================================================================
