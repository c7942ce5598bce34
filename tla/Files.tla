------------------------------- MODULE Files -------------------------------
(***************************************************************************)
(* File descriptors and pipes: fs/fd.rs, fs/pipe.rs, the descriptor system *)
(* calls of syscall/runtime.rs, the descriptors sys_exec hands to a child, *)
(* and notify_pipe_readers, which completes a blocked read from the        *)
(* writer's side.                                                          *)
(*                                                                         *)
(* One action is one section under THREADS_LOCK.  Every process has one    *)
(* thread, each on a CPU of its own, so that any two processes interleave  *)
(* at any section boundary.  A byte is its position in the pipe's stream.  *)
(***************************************************************************)
EXTENDS Integers, FiniteSets, Sequences, FiniteSetsExt

CONSTANTS
    MaxPid,     \* processes ever created (pids are never reused)
    MaxFd,      \* MAX_FD, scaled down
    MaxPipes,   \* bound on pipe slots in use at once
    MaxBytes,   \* bound on bytes written to one pipe
    MaxCount,     \* bound on the length of a read or write
    Calls       \* the system calls and events of this instance

ASSUME FilesAssumption ==
    /\ MaxPid \in Nat \ {0} /\ MaxFd \in Nat /\ MaxFd >= 4
    /\ MaxPipes \in Nat \ {0} /\ MaxBytes \in Nat \ {0} /\ MaxCount \in Nat \ {0}

Pids == 1..MaxPid
PipeIds == 1..MaxPipes

\* FdEntry.  File and device entries hold no reference; Vfs models them.
Entry(kind, id) == [kind |-> kind, id |-> id]
Empty == Entry("Empty", 0)
ConsoleIn == Entry("ConsoleIn", 0)
ConsoleOut == Entry("ConsoleOut", 0)
FdEntry == {Empty, ConsoleIn, ConsoleOut} \cup
           {Entry(k, i) : k \in {"PipeRead", "PipeWrite"}, i \in PipeIds}

\* PipeState, and the slot of a pipe that is gone.  sent and recd count the
\* bytes that ever entered and left the buffer.
NoPipe == [live |-> FALSE, data |-> <<>>, write_refs |-> 0, read_refs |-> 0, sent |-> 0, recd |-> 0]
NewPipe == [NoPipe EXCEPT !.live = TRUE]

\* A thread that waits for nothing.
Idle == [sleeping |-> FALSE, pipe |-> 0, len |-> 0, frame |-> FALSE, stash |-> 0, rax |-> 0, got |-> 0, intr |-> FALSE]

VARIABLES
    fds,      \* TABLES: pid -> sequence of FdEntry
    pipes,    \* PIPES
    th,       \* the blocking state of each process's thread
    life,     \* "none", "building" (spawned, not yet set ready), "live", "dead",
              \* or "stillborn" (died while building)
    killed,   \* kill_pending
    pc,       \* where each process's thread is
    loc,      \* its locals: the pipe and child of the call, the fds of the call
    eof,      \* the pipes whose end sys_read told each process about
    nextPid

filesVars == <<fds, pipes, th, life, killed, pc, loc, eof, nextPid>>

Places == {"user", "call", "pipe2", "pipe3", "notify", "park", "off", "try2", "try3",
           "exec2", "exec3", "exec4", "exec5"}

NoLocals == [pipe |-> 0, child |-> 0, fd |-> 0, out |-> 0]

\* One process, with the console on its descriptors or its fd 2 closed.
FilesInit ==
    /\ \E stderr \in {ConsoleOut, Empty} :
          fds = [p \in Pids |-> IF p = 1 THEN <<ConsoleIn, ConsoleOut, stderr>> ELSE <<>>]
    /\ pipes = [i \in PipeIds |-> NoPipe]
    /\ th = [p \in Pids |-> Idle]
    /\ life = [p \in Pids |-> IF p = 1 THEN "live" ELSE "none"]
    /\ killed = [p \in Pids |-> FALSE]
    /\ pc = [p \in Pids |-> "user"]
    /\ loc = [p \in Pids |-> NoLocals]
    /\ eof = [p \in Pids |-> {}]
    /\ nextPid = 2

-----------------------------------------------------------------------------
(* fs/pipe.rs, on a table ps of pipes                                      *)

IsEmpty(ps, i) == ~ps[i].live \/ ps[i].data = <<>>
WriterClosed(ps, i) == ~ps[i].live \/ ps[i].write_refs = 0

\* clone_write and clone_read, through pipe_clone: a no-op if the pipe is gone.
PipeClone(ps, e) ==
    IF e.kind \notin {"PipeRead", "PipeWrite"} \/ ~ps[e.id].live THEN ps
    ELSE IF e.kind = "PipeWrite" THEN [ps EXCEPT ![e.id].write_refs = @ + 1]
    ELSE [ps EXCEPT ![e.id].read_refs = @ + 1]

Dropped(n) == IF n = 0 THEN 0 ELSE n - 1

\* The slot is freed when neither end is referenced.
Freed(ps, i) ==
    IF ps[i].write_refs = 0 /\ ps[i].read_refs = 0 THEN [ps EXCEPT ![i] = NoPipe] ELSE ps

CloseWrite(ps, i) ==
    IF ps[i].live THEN Freed([ps EXCEPT ![i].write_refs = Dropped(@)], i) ELSE ps

CloseRead(ps, i) ==
    IF ps[i].live THEN Freed([ps EXCEPT ![i].read_refs = Dropped(@)], i) ELSE ps

\* write: nothing is stored when nobody can read it.
Write(ps, i, n) ==
    IF ps[i].live /\ ps[i].read_refs > 0
    THEN [ps EXCEPT ![i].data = @ \o [k \in 1..n |-> ps[i].sent + k], ![i].sent = @ + n]
    ELSE ps

\* read and read_raw take up to len bytes from the front.
ReadCount(ps, i, len) == IF Len(ps[i].data) < len THEN Len(ps[i].data) ELSE len

ReadNoDrain(ps, i, len) == [ps EXCEPT ![i].recd = @ + ReadCount(ps, i, len)]

Read(ps, i, len) ==
    LET n == ReadCount(ps, i, len) IN
    [ps EXCEPT ![i].data = SubSeq(@, n + 1, Len(@)), ![i].recd = @ + n]

-----------------------------------------------------------------------------
(* Waking readers and closing entries change the pipes and the threads     *)
(* together: they are functions on records [pipes, th, eof].               *)

Kernel == [pipes |-> pipes, th |-> th, eof |-> eof]
SetKernel(k) == pipes' = k.pipes /\ th' = k.th /\ eof' = k.eof

\* restore_ctx_from_blocking_frame: a no-op until the frame is committed.
RestoreCtx(t, n) == IF t.frame THEN [t EXCEPT !.rax = n, !.frame = FALSE] ELSE t

WakeReaderNoStash(k, p) ==
    LET t == k.th[p]
        n == ReadCount(k.pipes, t.pipe, t.len)
    IN  [pipes |-> Read(k.pipes, t.pipe, t.len),
         th |-> [k.th EXCEPT ![p] = RestoreCtx([t EXCEPT !.got = n, !.sleeping = FALSE, !.pipe = 0, !.len = 0], n)],
         eof |-> k.eof]

\* One blocked reader is given what there is, possibly nothing, and made Ready.
WakeReader(k, p) ==
    LET t == k.th[p]
        n == ReadCount(k.pipes, t.pipe, t.len)
    IN  [pipes |-> Read(k.pipes, t.pipe, t.len),
         th |-> [k.th EXCEPT ![p] = RestoreCtx([t EXCEPT !.stash = n, !.got = n, !.sleeping = FALSE,
                                                          !.pipe = 0, !.len = 0], n)],
         eof |-> k.eof]

\* notify_pipe_readers goes through the threads in order.  It skips a reader
\* whose buffer is no longer mapped: here nobody's is, as the only thread that
\* could have unmapped it is the reader itself, which is blocked.
Notified(k, i, p) == IF k.th[p].sleeping /\ k.th[p].pipe = i THEN WakeReader(k, p) ELSE k

NotifyPipeReaders(k, i) ==
    LET seen[p \in 0..MaxPid] == IF p = 0 THEN k ELSE Notified(seen[p - 1], i, p)
    IN  seen[MaxPid]

CloseEntryQuietly(k, e) ==
    CASE e.kind = "PipeWrite" -> [k EXCEPT !.pipes = CloseWrite(@, e.id)]
      [] e.kind = "PipeRead" -> [k EXCEPT !.pipes = CloseRead(@, e.id)]
      [] OTHER -> k

\* close_entry.
CloseEntry(k, e) ==
    CASE e.kind = "PipeWrite" -> NotifyPipeReaders([k EXCEPT !.pipes = CloseWrite(@, e.id)], e.id)
      [] e.kind = "PipeRead" -> [k EXCEPT !.pipes = CloseRead(@, e.id)]
      [] OTHER -> k

\* A process that closes its reading end forgets what it was told.
Forget(k, p, e) == [k EXCEPT !.eof[p] = IF e.kind = "PipeRead" THEN @ \ {e.id} ELSE @]

-----------------------------------------------------------------------------
(* fs/fd.rs                                                                *)

IsFd(p, f) == f \in DOMAIN fds[p]

\* get_fd: None (here Empty) beyond the table.
GetFd(p, f) == IF IsFd(p, f) THEN fds[p][f] ELSE Empty

PipeFds(p) == {f \in DOMAIN fds[p] : fds[p][f].kind \in {"PipeRead", "PipeWrite"}}

\* alloc_fd: the lowest hole, else the end of the table, else 0 (None).
FreeFd(table) ==
    LET holes == {f \in DOMAIN table : table[f] = Empty} IN
    IF holes # {} THEN Min(holes) ELSE IF Len(table) < MaxFd THEN Len(table) + 1 ELSE 0

Put(table, f, e) ==
    [g \in 1..(IF f > Len(table) THEN f ELSE Len(table)) |->
        IF g = f THEN e ELSE IF g \in DOMAIN table THEN table[g] ELSE Empty]

-----------------------------------------------------------------------------
\* A kill that arrives after syscall_dispatch has looked for one takes effect at
\* the next entry.
InCall(p, s) == s \in Calls /\ pc[p] = "call"

GoTo(p, place) == pc' = [pc EXCEPT ![p] = place]
EndCall(p) == GoTo(p, "user") /\ loc' = [loc EXCEPT ![p] = NoLocals]

\* syscall_dispatch: a process that was killed exits instead (Exit).
Int80(p) ==
    /\ life[p] = "live" /\ pc[p] = "user" /\ ~killed[p]
    /\ GoTo(p, "call")
    /\ UNCHANGED <<fds, pipes, th, life, killed, loc, eof, nextPid>>

\* sys_pipe: pipe::create takes the first free slot.
SysPipe(p) ==
    /\ InCall(p, "pipe")
    /\ \E i \in PipeIds : /\ ~pipes[i].live
                          /\ \A j \in PipeIds : j < i => pipes[j].live
                          /\ pipes' = [pipes EXCEPT ![i] = NewPipe]
                          /\ loc' = [loc EXCEPT ![p].pipe = i]
    /\ GoTo(p, "pipe2")
    /\ UNCHANGED <<fds, th, life, killed, eof, nextPid>>

\* alloc_fd(PipeRead), then alloc_fd(PipeWrite), each in a section of its own.
SysPipeAllocRead(p) ==
    LET e == Entry("PipeRead", loc[p].pipe)
        f == FreeFd(fds[p])
    IN  /\ pc[p] = "pipe2"
        /\ fds' = IF f = 0 THEN fds ELSE [fds EXCEPT ![p] = Put(@, f, e)]
        /\ pipes' = IF f = 0 THEN pipes ELSE PipeClone(pipes, e)
        /\ loc' = [loc EXCEPT ![p].fd = f]
        /\ GoTo(p, "pipe3")
        /\ UNCHANGED <<th, life, killed, eof, nextPid>>

\* The second descriptor, and the two answers: both are installed and the
\* numbers copied out, or what was installed is closed again (table full, or
\* the caller's buffer is not writable).
SysPipeAllocWrite(p) ==
    LET e == Entry("PipeWrite", loc[p].pipe)
        r == loc[p].fd
        w == FreeFd(fds[p])
        both == Put(fds[p], w, e)
        closedRead(k) == IF r = 0 THEN k ELSE CloseEntry(k, Entry("PipeRead", loc[p].pipe))
    IN  /\ pc[p] = "pipe3"
        /\ \/ /\ r # 0 /\ w # 0
              /\ fds' = [fds EXCEPT ![p] = both]
              /\ pipes' = PipeClone(pipes, e)
              /\ UNCHANGED <<th, eof>>
           \/ /\ r # 0 /\ w # 0
              /\ fds' = [fds EXCEPT ![p] = Put(Put(both, r, Empty), w, Empty)]
              /\ SetKernel(CloseEntry(closedRead([Kernel EXCEPT !.pipes = PipeClone(@, e)]), e))
           \/ /\ r = 0 \/ w = 0
              /\ fds' = IF r = 0 THEN fds ELSE [fds EXCEPT ![p][r] = Empty]
              /\ SetKernel(closedRead(Kernel))
        /\ EndCall(p)
        /\ UNCHANGED <<life, killed, nextPid>>

\* sys_close, of a descriptor that names a pipe: the console's hold nothing.
SysClose(p) ==
    /\ InCall(p, "close")
    /\ \E f \in PipeFds(p) :
          /\ SetKernel(Forget(CloseEntry(Kernel, fds[p][f]), p, fds[p][f]))
          /\ fds' = [fds EXCEPT ![p][f] = Empty]
    /\ EndCall(p)
    /\ UNCHANGED <<life, killed, nextPid>>

-----------------------------------------------------------------------------
\* sys_read on a pipe decides in one section: bytes, end of file, or block.
SysReadBytes(p) ==
    /\ InCall(p, "read")
    /\ \E f \in DOMAIN fds[p], len \in 1..MaxCount :
          /\ fds[p][f].kind = "PipeRead"
          /\ ~IsEmpty(pipes, fds[p][f].id)
          /\ pipes' = Read(pipes, fds[p][f].id, len)
    /\ EndCall(p)
    /\ UNCHANGED <<fds, th, life, killed, eof, nextPid>>

SysReadEof(p) ==
    /\ InCall(p, "read")
    /\ \E f \in DOMAIN fds[p] :
          /\ fds[p][f].kind = "PipeRead"
          /\ IsEmpty(pipes, fds[p][f].id)
          /\ WriterClosed(pipes, fds[p][f].id)
          /\ eof' = [eof EXCEPT ![p] = @ \cup {fds[p][f].id}]
    /\ EndCall(p)
    /\ UNCHANGED <<fds, pipes, th, life, killed, nextPid>>

\* set_wait_target and set_sleeping: the thread sleeps until pipe i can give it up to len bytes.
Blocked(t, i, len) == [t EXCEPT !.sleeping = TRUE, !.pipe = i, !.len = len, !.got = 0]

SysReadBlock(p) ==
    /\ InCall(p, "read")
    /\ \E f \in DOMAIN fds[p], len \in 1..MaxCount :
          /\ fds[p][f].kind = "PipeRead"
          /\ IsEmpty(pipes, fds[p][f].id)
          /\ ~WriterClosed(pipes, fds[p][f].id)
          /\ th' = [th EXCEPT ![p] = Blocked(@, fds[p][f].id, len)]
    /\ GoTo(p, "park")
    /\ UNCHANGED <<fds, pipes, life, killed, loc, eof, nextPid>>

\* syscall_block_fn commits the frame in a later section.
CommitBlock(p) ==
    /\ pc[p] = "park"
    /\ th' = [th EXCEPT ![p].frame = TRUE]
    /\ GoTo(p, "off")
    /\ UNCHANGED <<fds, pipes, life, killed, loc, eof, nextPid>>

\* What a blocked call returns: the stash if its frame is still there
\* (take_blocking_rsp, take_blocking_retval), else the restored context.
ReturnValue(p) == IF th[p].frame THEN th[p].stash ELSE th[p].rax

Resumed(t) ==
    [t EXCEPT !.frame = FALSE, !.stash = IF t.frame THEN 0 ELSE @,
              !.rax = 0, !.got = 0, !.intr = FALSE, !.pipe = 0, !.len = 0]

Resume(p) ==
    /\ pc[p] = "off" /\ ~th[p].sleeping
    /\ th' = [th EXCEPT ![p] = Resumed(@)]
    /\ GoTo(p, "user")
    /\ UNCHANGED <<fds, pipes, life, killed, loc, eof, nextPid>>

\* sys_try_read looks at the buffer, at the writers, and reads, in three
\* sections.
SysTryRead(p) ==
    /\ InCall(p, "tryread")
    /\ \E f \in DOMAIN fds[p] :
          /\ fds[p][f].kind = "PipeRead"
          /\ loc' = [loc EXCEPT ![p].pipe = fds[p][f].id]
          /\ GoTo(p, IF IsEmpty(pipes, fds[p][f].id) THEN "try2" ELSE "try3")
    /\ UNCHANGED <<fds, pipes, th, life, killed, eof, nextPid>>

SysTryReadEnd(p) ==
    /\ pc[p] = "try2"
    /\ EndCall(p)
    /\ UNCHANGED <<fds, pipes, th, life, killed, eof, nextPid>>

SysTryReadBytes(p) ==
    /\ pc[p] = "try3"
    /\ \E len \in 1..MaxCount : pipes' = Read(pipes, loc[p].pipe, len)
    /\ EndCall(p)
    /\ UNCHANGED <<fds, th, life, killed, eof, nextPid>>

\* sys_write on a pipe: write, then wake the readers in a second section.
SysWrite(p) ==
    /\ InCall(p, "write")
    /\ \E f \in DOMAIN fds[p], n \in 1..MaxCount :
          /\ fds[p][f].kind = "PipeWrite"
          /\ pipes[fds[p][f].id].sent + n <= MaxBytes
          /\ pipes' = Write(pipes, fds[p][f].id, n)
          /\ loc' = [loc EXCEPT ![p].pipe = fds[p][f].id]
    /\ GoTo(p, "notify")
    /\ UNCHANGED <<fds, th, life, killed, eof, nextPid>>

SysWriteNotify(p) ==
    /\ pc[p] = "notify"
    /\ SetKernel(NotifyPipeReaders(Kernel, loc[p].pipe))
    /\ EndCall(p)
    /\ UNCHANGED <<fds, life, killed, nextPid>>

-----------------------------------------------------------------------------
\* sys_exec with explicit stdio: the child starts Sleeping, with the console
\* on fd 2; its fds 0 and 1 are copies of two of the caller's, or the console.
SysExec(p) ==
    /\ InCall(p, "exec")
    /\ nextPid <= MaxPid
    /\ \E in, out \in {0} \cup PipeFds(p) :
          loc' = [loc EXCEPT ![p] = [NoLocals EXCEPT !.child = nextPid, !.fd = in, !.out = out]]
    /\ life' = [life EXCEPT ![nextPid] = "building"]
    /\ fds' = [fds EXCEPT ![nextPid] = <<Empty, Empty, ConsoleOut>>]
    /\ nextPid' = nextPid + 1
    /\ GoTo(p, "exec2")
    /\ UNCHANGED <<pipes, th, killed, eof>>

AllocFdAtUncounted(q, f, e) ==
    /\ pipes' = pipes
    /\ fds' = [fds EXCEPT ![q] = Put(@, f, e)]

\* alloc_fd_at: the reference is taken and the entry stored, whoever holds it.
AllocFdAt(q, f, e) ==
    /\ pipes' = PipeClone(pipes, e)
    /\ fds' = [fds EXCEPT ![q] = Put(@, f, e)]

SysExecStdin(p) ==
    /\ pc[p] = "exec2"
    /\ AllocFdAt(loc[p].child, 1, IF loc[p].fd = 0 THEN ConsoleIn ELSE GetFd(p, loc[p].fd))
    /\ GoTo(p, "exec3")
    /\ UNCHANGED <<th, life, killed, loc, eof, nextPid>>

SysExecStdout(p) ==
    /\ pc[p] = "exec3"
    /\ AllocFdAt(loc[p].child, 2, IF loc[p].out = 0 THEN ConsoleOut ELSE GetFd(p, loc[p].out))
    /\ GoTo(p, "exec4")
    /\ UNCHANGED <<th, life, killed, loc, eof, nextPid>>

\* STDIO_CTTY: fd 3 of the child is a copy of the caller's fd 0.
SysExecCtty(p) ==
    /\ pc[p] = "exec4"
    /\ \/ UNCHANGED <<pipes, fds>>
       \/ AllocFdAt(loc[p].child, 4, GetFd(p, 1))
    /\ GoTo(p, "exec5")
    /\ UNCHANGED <<th, life, killed, loc, eof, nextPid>>

\* set_ready: a no-op if the child has died meanwhile.
SysExecSetReady(p) ==
    /\ pc[p] = "exec5"
    /\ life' = [life EXCEPT ![loc[p].child] = IF @ = "building" THEN "live" ELSE @]
    /\ EndCall(p)
    /\ UNCHANGED <<fds, pipes, th, killed, eof, nextPid>>

-----------------------------------------------------------------------------
\* kill_pid: flag the process and make its thread Ready.
Kill(p) ==
    /\ "kill" \in Calls
    /\ life[p] \in {"building", "live"} /\ ~killed[p]
    /\ killed' = [killed EXCEPT ![p] = TRUE]
    /\ th' = [th EXCEPT ![p].sleeping = FALSE]
    /\ UNCHANGED <<fds, pipes, life, pc, loc, eof, nextPid>>

\* send_sigint to a process that catches it: a sleeping thread is resumed.
Interrupted(t) ==
    [RestoreCtx(t, t.stash) EXCEPT !.stash = IF t.frame THEN 0 ELSE @,
                                   !.sleeping = FALSE, !.pipe = 0, !.len = 0, !.intr = TRUE]

SendSigint(p) ==
    /\ "sigint" \in Calls
    /\ life[p] = "live" /\ th[p].sleeping
    /\ th' = [th EXCEPT ![p] = Interrupted(@)]
    /\ UNCHANGED <<fds, pipes, life, killed, pc, loc, eof, nextPid>>

\* close_all closes every entry in order.
CloseAll(p, k) ==
    LET closed[f \in 0..Len(fds[p])] == IF f = 0 THEN k ELSE CloseEntry(closed[f - 1], fds[p][f])
    IN  closed[Len(fds[p])]

\* exit_current, for a call of SYS_EXIT or a deferred kill.
Exit(p) ==
    /\ \/ InCall(p, "exit")
       \/ pc[p] = "user" /\ killed[p] /\ life[p] \in {"building", "live"}
    /\ SetKernel([CloseAll(p, Kernel) EXCEPT !.th[p] = Idle, !.eof[p] = {}])
    /\ fds' = [fds EXCEPT ![p] = <<>>]
    /\ life' = [life EXCEPT ![p] = IF @ = "building" THEN "stillborn" ELSE "dead"]
    /\ EndCall(p)
    /\ UNCHANGED <<killed, nextPid>>

-----------------------------------------------------------------------------
\* The steps of a process inside the kernel.
KernelStep(p) ==
    \/ SysPipeAllocRead(p) \/ SysPipeAllocWrite(p)
    \/ CommitBlock(p) \/ Resume(p)
    \/ SysTryReadEnd(p) \/ SysTryReadBytes(p)
    \/ SysWriteNotify(p)
    \/ SysExecStdin(p) \/ SysExecStdout(p) \/ SysExecCtty(p) \/ SysExecSetReady(p)

UserStep(p) ==
    \/ Int80(p) \/ SysPipe(p) \/ SysClose(p)
    \/ SysReadBytes(p) \/ SysReadEof(p) \/ SysReadBlock(p)
    \/ SysTryRead(p) \/ SysWrite(p) \/ SysExec(p)
    \/ Exit(p)

FilesNext == \E p \in Pids : KernelStep(p) \/ UserStep(p) \/ Kill(p) \/ SendSigint(p)

FilesSpec == FilesInit /\ [][FilesNext]_filesVars

-----------------------------------------------------------------------------
FilesTypeOK ==
    /\ fds \in [Pids -> Seq(FdEntry)] /\ \A p \in Pids : Len(fds[p]) <= MaxFd
    /\ pipes \in [PipeIds -> [live : BOOLEAN, data : Seq(1..MaxBytes), write_refs : Nat, read_refs : Nat,
                              sent : Nat, recd : Nat]]
    /\ th \in [Pids -> [sleeping : BOOLEAN, pipe : 0..MaxPipes, len : 0..MaxCount, frame : BOOLEAN,
                        stash : 0..MaxCount, rax : 0..MaxCount, got : 0..MaxCount, intr : BOOLEAN]]
    /\ life \in [Pids -> {"none", "building", "live", "dead", "stillborn"}]
    /\ killed \in [Pids -> BOOLEAN]
    /\ pc \in [Pids -> Places]
    /\ loc \in [Pids -> [pipe : 0..MaxPipes, child : 0..MaxPid, fd : 0..MaxFd, out : 0..MaxFd]]
    /\ eof \in [Pids -> SUBSET PipeIds]
    /\ nextPid \in 1..(MaxPid + 1)

\* The entries of all tables that name an end of a pipe.
Holders(kind, i) == UNION {{p} \X {f \in DOMAIN fds[p] : fds[p][f] = Entry(kind, i)} : p \in Pids}

\* The reference counts of a pipe are the numbers of descriptors that name its
\* ends, over all processes, and no descriptor names a pipe that is gone: the
\* counts alone decide when a reader sees the end and when the slot is reused.
RefsExact ==
    \A i \in PipeIds :
        /\ pipes[i].write_refs = Cardinality(Holders("PipeWrite", i))
        /\ pipes[i].read_refs = Cardinality(Holders("PipeRead", i))
        /\ ~pipes[i].live => pipes[i].write_refs = 0 /\ pipes[i].read_refs = 0

\* No wake-up is lost: a sleeping reader's pipe is open for writing and empty,
\* unless a writer is about to notify it (sys_read decides and sleeps in one
\* section; close_entry and sys_write notify).
NoReaderStranded ==
    \A p \in Pids : th[p].sleeping =>
        LET i == th[p].pipe IN
        /\ pipes[i].live /\ pipes[i].write_refs > 0
        /\ pipes[i].data = <<>> \/ \E q \in Pids : pc[q] = "notify" /\ loc[q].pipe = i

\* Every byte written leaves the pipe once and in order, whether its reader
\* found it there or was blocked and had it copied in by the writer.
BytesInOrder ==
    \A i \in PipeIds :
        /\ pipes[i].sent = pipes[i].recd + Len(pipes[i].data)
        /\ \A k \in DOMAIN pipes[i].data : pipes[i].data[k] = pipes[i].recd + k

\* A dead process holds no end of a pipe, so its readers see the end, unless
\* it was killed while sys_exec was still installing its descriptors.
DeadHoldsNothing ==
    \A p \in Pids : life[p] = "dead" =>
        \A f \in DOMAIN fds[p] : fds[p][f].kind \notin {"PipeRead", "PipeWrite"}

\* A blocked reader returns the number of bytes that were put in its buffer,
\* also when it was woken before its frame was committed (the value stashed
\* by notify_pipe_readers), unless a caught signal cut the wait short.
ReturnsItsCount ==
    [][\A p \in Pids : Resume(p) /\ ~killed[p] /\ ~th[p].intr => ReturnValue(p) = th[p].got]_filesVars

\* Once sys_read has returned 0 because no writer is left, no byte and no
\* writer appears in the pipe while its reader keeps it: no write end is
\* brought back by a spawn that inherits descriptors.
EofIsFinal ==
    \A p \in Pids : \A i \in eof[p] : pipes[i].data = <<>> /\ pipes[i].write_refs = 0

\* A pipe is a stream with one end: its bytes arrive once and in order
\* (Pipe::write, Pipe::read), and the end of the file comes after all of them.
StreamIntact == BytesInOrder /\ EofIsFinal

\* Tables and pipes agree: descriptors are what alloc_fd and alloc_fd_at may
\* store, the counts of every pipe are exact, and what a process held is given
\* back by its exit.
FilesInv ==
    /\ FilesTypeOK
    /\ RefsExact
    /\ DeadHoldsNothing

=============================================================================
