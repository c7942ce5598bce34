------------------------------- MODULE MCIpc -------------------------------
EXTENDS Ipc, TLC

\* No action or invariant names a process, or a name other than the audio
\* channel's.
Symmetry == Permutations(Procs) \cup Permutations(Names \ {Audio})
=============================================================================
