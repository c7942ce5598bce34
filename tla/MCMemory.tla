------------------------------ MODULE MCMemory ------------------------------
EXTENDS Memory

\* Every process on a CPU of its own, or all on one.
OwnOrOneCpu == {[p \in Pids |-> p], [p \in Pids |-> 1]}

=============================================================================
