---------------------------- MODULE MCExecution ----------------------------
EXTENDS Execution, MCAnalysis
MCRepresentable == -1..1
=============================================================================
