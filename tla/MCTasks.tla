------------------------------ MODULE MCTasks ------------------------------
(***************************************************************************)
(* Instances of Tasks for TLC: which system calls the programs make.       *)
(***************************************************************************)
EXTENDS Tasks

NoDrivers == {}
FirstIsDriver == {1}

LifecycleCalls == {"spawn", "exit", "texit", "join", "sleepTick", "sleepTimer", "kill", "fault", "exec"}
SignalCalls == {"spawn", "read", "write", "catch", "check", "sigterm", "sigintfg", "wait", "kill"}
ComputeCalls == {"spawn", "exit", "texit", "kill", "fault"}
WaitCalls == {"wait", "exit"}

NoMasks == {}
EverySignal == {Signals}
=============================================================================
