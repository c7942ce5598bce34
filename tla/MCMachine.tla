----------------------------- MODULE MCMachine -----------------------------
EXTENDS Machine

Enabled(id) == [apic |-> id, enabled |-> TRUE]
Disabled(id) == [apic |-> id, enabled |-> FALSE]

\* Five processors of six listed, of which 4 never answers; a table that
\* enables none, and one that enables more than MAX_CPUS.
Firmwares == {<<Enabled(0), Enabled(4), Disabled(2), Enabled(6), Enabled(8), Enabled(10)>>,
              <<Disabled(0)>>,
              <<Enabled(0), Enabled(4), Enabled(6), Enabled(8), Enabled(10), Enabled(12)>>}
DeadOne == {4}
=============================================================================
