------------------------------- MODULE MCVfs -------------------------------
\* Small instances of Vfs for TLC.
EXTENDS Vfs

\* A directory d that can hold the file f, and that can itself be a file.
TwoLevels == {<<>>, <<"d">>, <<"d", "f">>}

=============================================================================
