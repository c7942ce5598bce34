------------------------------- MODULE MCParts -------------------------------
(***************************************************************************)
(* Parts that share no state, side by side, so that each behaviour is of   *)
(* one of them, chosen at the start: descriptors and pipes, the kernel's   *)
(* heap, the page tables, the allocator of the programs, the shell's       *)
(* session at the terminal, a command's arguments, the PS/2 port between   *)
(* the keyboard and the mouse driver, and the test driver on the host.     *)
(***************************************************************************)
EXTENDS Files, Heap, PageTables, Session, UserHeap, Ps2, Args, Pipeline

ThePrompt == <<">">>

Less == <<"b">>

Ktop == <<"b", "b">>

\* A history that has just wrapped
ThreeLines == {<<<<"a">>, <<"a", "b">>, <<"b", "a">>>>}

\* Output without a newline, a line, cmd_clear, a program cut off inside an
\* escape sequence, and a cursor sent to and past the last row.
SomeOutputs ==
    {<<"o">>, <<"o">> \o CrLf, ClearHome, <<"o", "ESC", "[">>,
     <<"ESC", "[", "9", "B">>, <<"ESC", "[", "9", "H">>}

-----------------------------------------------------------------------------
ShortPrefix == <<"/", "b">>

ShortSuffix == <<".">>

\* A line, twice, and a pause; then the prompt
Steps ==
    <<[kind |-> "repeat", count |-> 2, body |-> <<[kind |-> "send"]>>],
      [kind |-> "wait", time |-> 1], [kind |-> "expect", pat |-> "prompt"]>>

AllCalls == {"pipe", "close", "read", "tryread", "write", "exec", "kill", "sigint", "exit"}

\* A small, an aligned, a medium and a large layout
FourLayouts ==
    {[size |-> 1, align |-> 1], [size |-> 1, align |-> 4],
     [size |-> 5, align |-> 4], [size |-> 14, align |-> 1]}

\* Blocks that leave a rest, that need alignment, and that fill an arena
SomeRequests ==
    {[size |-> 3, align |-> 2], [size |-> 4, align |-> 8], [size |-> 16, align |-> 1]}

-----------------------------------------------------------------------------
VARIABLE which      \* the part this behaviour is of

kernelVars == <<filesVars, heapVars, ptVars>>

userVars == <<userHeapVars, sessionVars, argsVars, ps2Vars, pipelineVars>>

mcVars == <<which, kernelVars, userVars>>

MCInit ==
    /\ which \in {"files", "heap", "tables", "userheap", "session", "args", "ps2", "pipeline"}
    /\ FilesInit /\ (which # "files" => fds[1][3] = Empty)
    /\ HeapInit /\ PtInit /\ UserHeapInit /\ Ps2Init
    /\ SessionInit /\ (which # "session" => \A h \in Heights : height <= h)
    /\ ArgsInit /\ (which # "args" => typedLine = <<>>)
    /\ PipelineInit /\ (which # "pipeline" => watcher.pattern = NoPattern)

MCNext ==
    \/ /\ which = "files" /\ FilesNext
       /\ UNCHANGED <<which, heapVars, ptVars, userVars>>
    \/ /\ which = "heap" /\ HeapNext
       /\ UNCHANGED <<which, filesVars, ptVars, userVars>>
    \/ /\ which = "tables" /\ PtNext
       /\ UNCHANGED <<which, filesVars, heapVars, userVars>>
    \/ /\ which = "userheap" /\ UserHeapNext
       /\ UNCHANGED <<which, kernelVars, sessionVars, argsVars, ps2Vars, pipelineVars>>
    \/ /\ which = "session" /\ SessionNext
       /\ UNCHANGED <<which, kernelVars, userHeapVars, argsVars, ps2Vars, pipelineVars>>
    \/ /\ which = "args" /\ ArgsNext
       /\ UNCHANGED <<which, kernelVars, userHeapVars, sessionVars, ps2Vars, pipelineVars>>
    \/ /\ which = "ps2" /\ Ps2Next
       /\ UNCHANGED <<which, kernelVars, userHeapVars, sessionVars, argsVars, pipelineVars>>
    \/ /\ which = "pipeline" /\ PipelineNext
       /\ UNCHANGED <<which, kernelVars, userHeapVars, sessionVars, argsVars, ps2Vars>>

MCSpec == MCInit /\ [][MCNext]_mcVars
=============================================================================
