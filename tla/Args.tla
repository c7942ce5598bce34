-------------------------------- MODULE Args --------------------------------
(***************************************************************************)
(* A command line on its way to the program: the shell packs the path and  *)
(* the arguments into one buffer (shell.rs), SYS_EXEC takes it apart again *)
(* (syscall/runtime.rs), the loader lays the arguments out on the new      *)
(* stack (task/exec.rs), and the program reads them there through argv     *)
(* (cpuburner.rs, as every program does).                                  *)
(*                                                                         *)
(* A line is a sequence of characters.  A byte of memory is a character or *)
(* NUL, or one of the eight bytes of a number, which as a character is     *)
(* none of a line.                                                         *)
(***************************************************************************)
EXTENDS Integers, SequencesExt

CONSTANTS
    ArgChars,       \* characters of a line besides space and slash
    MaxLine,        \* bound on its length
    ArgBuf,         \* buf of try_exec_path, 128 bytes
    BinPrefix,      \* "/bin/"
    BinSuffix,      \* ".kxe"
    StackTop,       \* USER_STACK_TOP, a multiple of 16
    StackSize       \* USER_STACK_SIZE

VARIABLES
    typedLine,  \* what was typed
    stage,      \* "shell", "kernel", "program", "done", or "refused" (u64::MAX)
    packed,     \* the bytes given to SYS_EXEC
    path,       \* the program to load
    argList,    \* the arguments sys_exec found
    stack,      \* the bytes of the new stack, by user address
    regs,       \* rsp, and argc and argv as the program finds them
    argv        \* what the program reads

argsVars == <<typedLine, stage, packed, path, argList, stack, regs, argv>>

Nul == "NUL"

Lines == UNION {[1 .. n -> ArgChars \cup {" ", "/"}] : n \in 0 .. MaxLine}

ArgsInit ==
    /\ typedLine \in {l \in Lines : l # <<>> => l[1] # " " /\ l[Len(l)] # " "}
    /\ stage = "shell"
    /\ packed = <<>> /\ path = <<>> /\ argList = <<>> /\ argv = <<>>
    /\ stack = <<>> /\ regs = [rsp |-> 0, argc |-> 0, argv |-> 0]

-----------------------------------------------------------------------------
(* shell.rs: exec_bin and try_exec_path.                                   *)

\* The pieces between the separators c, as slice::split gives them
Pieces(s, c) ==
    LET Cut(acc, x) == IF x = c THEN Append(acc, <<>>)
                       ELSE [acc EXCEPT ![Len(acc)] = Append(@, x)]
    IN  FoldLeft(Cut, << <<>> >>, s)

\* The non-empty words of a text
Tokens(s) == SelectSeq(Pieces(s, " "), LAMBDA w : w # <<>>)

\* The path of a command name
PathOf(name) ==
    CASE ~Contains(name, "/") -> BinPrefix \o name \o BinSuffix
      [] Contains(name, "/") /\ name[1] = "/" -> name
      [] OTHER -> <<"/">> \o name

\* The path and every argument end with NUL; whatever does not fit is refused.
PackCommand ==
    LET name == Pieces(typedLine, " ")[1]
        words == Tokens(SubSeq(typedLine, Len(name) + 2, Len(typedLine)))
        text == FoldLeft(LAMBDA acc, w : acc \o Append(w, Nul), Append(PathOf(name), Nul), words)
    IN  /\ stage = "shell" /\ typedLine # <<>>
        /\ IF Len(text) > ArgBuf THEN stage' = "refused" /\ UNCHANGED packed
           ELSE stage' = "kernel" /\ packed' = text
        /\ UNCHANGED <<typedLine, path, argList, stack, regs, argv>>

-----------------------------------------------------------------------------
(* sys_exec and push_args_onto_stack.                                      *)

\* The arguments are read up to an empty one, which ends the list.
SysExecArgs(bytes) ==
    LET all == Pieces(bytes, Nul)
        rest == Tail(all)
        ends == {i \in DOMAIN rest : rest[i] = <<>>}
    IN  IF ends = {} THEN rest
        ELSE SubSeq(rest, 1, (CHOOSE i \in ends : \A j \in ends : i <= j) - 1)

\* The bytes of a u64 at an address, and of a text
Word(at, v) == [a \in at .. (at + 7) |-> [char |-> "other", value |-> v, byte |-> a - at]]

Text(at, s) == [a \in at .. (at + Len(s) - 1) |-> [char |-> s[a - at + 1], value |-> 0, byte |-> 8]]

\* A later write wins where two overlap.
Over(mem, new) == [a \in DOMAIN mem \cup DOMAIN new |->
                        IF a \in DOMAIN new THEN new[a] ELSE mem[a]]

SlotsShort(argc) == argc + 1

\* The slots before the texts: argc, the pointers, a null
Slots(argc) == argc + 2

\* Where the text of argument i lies
TextAt(base, args, i) ==
    FoldLeft(LAMBDA at, w : at + Len(w) + 1, base + Slots(Len(args)) * 8, SubSeq(args, 1, i - 1))

\* push_args_onto_stack: pointers and texts first, then the null and argc.
PushArgs(args) ==
    LET argc == Len(args)
        size == Slots(argc) * 8 + FoldLeft(LAMBDA n, w : n + Len(w) + 1, 0, args)
        base == ((StackTop - size) \div 16) * 16
        PutArg(mem, i) == Over(Over(mem, Word(base + 8 * i, TextAt(base, args, i))),
                               Text(TextAt(base, args, i), Append(args[i], Nul)))
        filled == FoldLeft(PutArg, <<>>, [i \in 1 .. argc |-> i])
    IN  [rsp |-> base, argc |-> argc, argv |-> base + 8,
         mem |-> Over(Over(filled, Word(base + 8 * (argc + 1), 0)), Word(base, argc))]

SysExecSpawn ==
    LET found == SysExecArgs(packed)
        pushed == PushArgs(found)
    IN  /\ stage = "kernel"
        /\ stage' = "program"
        /\ path' = Pieces(packed, Nul)[1]
        /\ argList' = found
        /\ IF found = <<>>
           THEN regs' = [rsp |-> StackTop, argc |-> 0, argv |-> 0] /\ UNCHANGED stack
           ELSE /\ stack' = pushed.mem
                /\ regs' = [rsp |-> pushed.rsp, argc |-> pushed.argc, argv |-> pushed.argv]
        /\ UNCHANGED <<typedLine, packed, argv>>

-----------------------------------------------------------------------------
(* The program.                                                            *)

\* A u64 read from the stack: a number only if its eight bytes are its own.
ReadWord(at) ==
    IF /\ at .. (at + 7) \subseteq DOMAIN stack
       /\ \A k \in 0 .. 7 : stack[at + k].value = stack[at].value /\ stack[at + k].byte = k
    THEN stack[at].value ELSE -1

\* The bytes from an address up to a NUL
ReadText(at) ==
    LET ends == {a \in DOMAIN stack : a >= at /\ stack[a].char = Nul}
        end == CHOOSE a \in ends : \A b \in ends : a <= b
    IN  IF ends = {} THEN <<>> ELSE [i \in 1 .. (end - at) |-> stack[at + i - 1].char]

ReadArgs ==
    /\ stage = "program"
    /\ stage' = "done"
    /\ argv' = [n \in 1 .. regs.argc |-> ReadText(ReadWord(regs.argv + 8 * (n - 1)))]
    /\ UNCHANGED <<typedLine, packed, path, argList, stack, regs>>

ArgsNext == PackCommand \/ SysExecSpawn \/ ReadArgs

ArgsSpec == ArgsInit /\ [][ArgsNext]_argsVars

-----------------------------------------------------------------------------
(* Properties.                                                             *)

\* The program reads the words of the line after the command's name, each one
\* whole and no more of them, with its stack aligned and inside the pages of the
\* stack, whatever spaces lie between them (exec_bin, try_exec_path, sys_exec,
\* push_args_onto_stack).
ArgsArrive ==
    stage = "done" =>
        /\ argv = Tail(Tokens(typedLine))
        /\ path = PathOf(Tokens(typedLine)[1])
        /\ regs.rsp % 16 = 0
        /\ DOMAIN stack \subseteq (StackTop - StackSize) .. (StackTop - 1)
=============================================================================
