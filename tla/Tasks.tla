------------------------------- MODULE Tasks -------------------------------
(***************************************************************************)
(* Threads, processes and CPUs of the kernel: src/crates/kernel/src/task/  *)
(* (process.rs, thread.rs, scheduler.rs), the timer interrupt and the      *)
(* int 0x80 entry and exit paths.                                          *)
(*                                                                         *)
(* int 0x80 is an interrupt gate, so a CPU in the kernel is not preempted  *)
(* by its own timer.  What interleaves is the CPUs: every action below is  *)
(* at most one section under THREADS_LOCK (plus CPU-local work), and a     *)
(* system call that takes the lock several times is several actions.       *)
(***************************************************************************)
EXTENDS Integers, FiniteSets, FiniteSetsExt

CONSTANTS
    NumCpus,    \* CPUs running the scheduler
    MaxTid,     \* bound: threads ever created
    MaxPid,     \* bound: processes ever created
    NumBoot,    \* single-threaded processes ready when the CPUs start
    Drivers,    \* which of them were spawned with PrivilegeLevel::Driver
    MaxHops,    \* how far foreground_leaf follows a wait chain (64 in the code)
    Calls,      \* the system calls the programs of this instance issue
    Masks       \* the sets of signals they ask SYS_SIGNAL_CATCH for

ASSUME ConstantsAssumption ==
    /\ NumCpus \in Nat \ {0}
    /\ MaxTid \in Nat
    /\ MaxPid \in Nat
    /\ NumBoot \in Nat
    /\ MaxHops \in Nat
    /\ NumBoot <= MaxTid
    /\ NumBoot <= MaxPid
    /\ Drivers \subseteq 1..NumBoot

Cpus == 0..(NumCpus - 1)
Tids == 1..MaxTid
Pids == 1..MaxPid
Nobody == 0

\* NEXT_TID starts at 1 and NEXT_ASSIGN_CPU at 0 and they advance together.
AssignedCpu(t) == (t - 1) % NumCpus

\* A thread that is not in THREADS (not created yet, or reaped) is "Absent":
\* Exited is only ever seen inside the section that also removes the thread.
ThreadStates == {"Absent", "Ready", "Running", "Sleeping"}

WaitTarget == [on : {"None", "Pid", "Tid", "Tick", "Timer", "Io"}, id : Nat]
NoTarget == [on |-> "None", id |-> 0]

Signals == {"INT", "TERM"}

ASSUME MasksAssumption == Masks \subseteq SUBSET Signals

\* Where a CPU is.  "user" and the two idle loops run with interrupts on.
Places == {"user", "sys", "wait2", "texit2", "exec2", "exec3", "sig2", "block",
           "exit1", "exit2", "return", "sched", "idle", "idleLoop"}

\* Which entry path an exiting thread took, hence where exit_current returns.
Vias == {"call", "timer", "fault"}

VARIABLES
    state,        \* Thread.state
    tpid,         \* Thread.pid
    waitTarget,   \* Thread.wait_target
    blockingRsp,  \* Thread.blocking_rsp # 0: a syscall frame is saved
    ctxFresh,     \* Thread.user_context is where the thread last left user mode
    alive,        \* the process is in PROCESSES
    threads,      \* Process.threads
    mainTid,      \* Process.main_tid
    parent,       \* Process.parent
    killPending,  \* Process.kill_pending
    catch,        \* Process.sigint_catch, sigterm_catch
    pending,      \* Process.sigint_pending, sigterm_pending
    aspace,       \* the process's page tables: "none", "live", "freed" or "leaked"
    nextTid,      \* NEXT_TID
    nextPid,      \* NEXT_PID
    currentTid,   \* CURRENT_USER_TID of each CPU
    pc,           \* where each CPU is
    arg,          \* the local variable it carries to its next section
    via,          \* the entry path of the exit in progress
    kstack,       \* thread whose kernel stack the CPU uses (TSS rsp0 while in
                  \* user mode); Nobody is the CPU's own return stack
    stacks,       \* kernel stacks allocated and not yet freed
    pendingFree   \* PENDING_STACK_FREE

threadVars == <<state, tpid, waitTarget, blockingRsp, ctxFresh>>
procVars == <<alive, threads, mainTid, parent, killPending, catch, pending, aspace>>
counters == <<nextTid, nextPid>>
cpuVars == <<currentTid, pc, arg, via, kstack>>
stackVars == <<stacks, pendingFree>>
vars == <<threadVars, procVars, counters, cpuVars, stackVars>>

-----------------------------------------------------------------------------
(* Reading the tables                                                      *)

Present(t) == t \in Tids /\ state[t] # "Absent"
CurrentPid(c) == IF currentTid[c] = Nobody THEN Nobody ELSE tpid[currentTid[c]]
LiveThreads(p) == {t \in threads[p] : Present(t)}

KillableDriverToo(p) == p \in Pids /\ alive[p]

\* kill_pid refuses pid 0, unknown pids and drivers.
Killable(p) == p \in Pids /\ alive[p] /\ p \notin Drivers

\* The main threads a set of processes' set_ready reaches.
MainsOf(P) == {t \in Tids : Present(t) /\ \E p \in P : mainTid[p] = t}

SleepersOn(target) == {t \in Tids : state[t] = "Sleeping" /\ waitTarget[t] = target}
On(kind, id) == [on |-> kind, id |-> id]

ScheduleNextLowest(c, current, st) ==
    LET ready == {t \in Tids : AssignedCpu(t) = c /\ st[t] = "Ready"}
    IN  IF ready # {} THEN Min(ready) ELSE Nobody

\* schedule_next: this CPU's lowest Ready tid above current, else its lowest.
ScheduleNext(c, current, st) ==
    LET ready == {t \in Tids : AssignedCpu(t) = c /\ st[t] = "Ready"}
        higher == {t \in ready : t > current}
    IN  IF higher # {} THEN Min(higher)
        ELSE IF ready # {} THEN Min(ready) ELSE Nobody

-----------------------------------------------------------------------------
(* Changing the tables                                                     *)

\* set_ready on threads of T: keeps the wait target and the saved frame.
SetReady(T, st) == [t \in Tids |-> IF t \in T THEN "Ready" ELSE st[t]]

\* What every wakeup_* does to the sleepers W: Ready, wait target dropped, and
\* restore_ctx_from_blocking_frame, a no-op until the frame is committed.
Untargeted(W) == [t \in Tids |-> IF t \in W THEN NoTarget ELSE waitTarget[t]]
UnblockedNever(W) == blockingRsp

Unblocked(W) == [t \in Tids |-> t \notin W /\ blockingRsp[t]]
Restored(W) == [t \in Tids |-> ctxFresh[t] \/ (t \in W /\ blockingRsp[t])]

WakeContexts(W) ==
    /\ waitTarget' = Untargeted(W)
    /\ blockingRsp' = Unblocked(W)
    /\ ctxFresh' = Restored(W)

Wake(W) == state' = SetReady(W, state) /\ WakeContexts(W)

\* Continue this CPU at another place of the kernel, carrying one local value.
Goto(c, place, value) ==
    /\ pc' = [pc EXCEPT ![c] = place]
    /\ arg' = [arg EXCEPT ![c] = value]
    /\ UNCHANGED <<currentTid, via, kstack>>

ReturnToUser(c) == Goto(c, "user", 0)

\* Enter user mode as thread n.  Of the saved states bl and cf it consumes the
\* syscall frame if there is one (take_blocking_rsp, apply_blocking_return), and
\* otherwise user_context, which is out of date as soon as the thread runs.
Resume(c, n, st, bl, cf) ==
    /\ state' = [st EXCEPT ![n] = "Running"]
    /\ blockingRsp' = [bl EXCEPT ![n] = FALSE]
    /\ ctxFresh' = [cf EXCEPT ![n] = FALSE]
    /\ currentTid' = [currentTid EXCEPT ![c] = n]
    /\ kstack' = [kstack EXCEPT ![c] = n]
    /\ pc' = [pc EXCEPT ![c] = "user"]

-----------------------------------------------------------------------------
Init ==
    /\ state = [t \in Tids |-> IF t <= NumBoot THEN "Ready" ELSE "Absent"]
    /\ tpid = [t \in Tids |-> IF t <= NumBoot THEN t ELSE Nobody]
    /\ waitTarget = [t \in Tids |-> NoTarget]
    /\ blockingRsp = [t \in Tids |-> FALSE]
    /\ ctxFresh = [t \in Tids |-> t <= NumBoot]
    /\ alive = [p \in Pids |-> p <= NumBoot]
    /\ threads = [p \in Pids |-> IF p <= NumBoot THEN {p} ELSE {}]
    /\ mainTid = [p \in Pids |-> IF p <= NumBoot THEN p ELSE Nobody]
    /\ parent = [p \in Pids |-> Nobody]
    /\ killPending = [p \in Pids |-> FALSE]
    /\ catch = [p \in Pids |-> {}]
    /\ pending = [p \in Pids |-> {}]
    /\ aspace = [p \in Pids |-> IF p <= NumBoot THEN "live" ELSE "none"]
    /\ nextTid = NumBoot + 1
    /\ nextPid = NumBoot + 1
    /\ currentTid = [c \in Cpus |-> Nobody]
    /\ pc = [c \in Cpus |-> "sched"]
    /\ arg = [c \in Cpus |-> 0]
    /\ via = [c \in Cpus |-> "call"]
    /\ kstack = [c \in Cpus |-> Nobody]
    /\ stacks = {t \in Tids : t <= NumBoot}
    /\ pendingFree = [c \in Cpus |-> Nobody]

-----------------------------------------------------------------------------
(* Timer interrupt: taken in user mode or in an idle loop, never mid-syscall *)

\* Any set of Timer sleepers may have reached their deadline; all Tick
\* sleepers are woken.
Expired == {E \cup SleepersOn(On("Tick", 0)) : E \in SUBSET SleepersOn(On("Timer", 0))}

\* The interrupted thread's process is flagged to die: exit it here.
TimerReap(c) ==
    /\ pc[c] = "user"
    /\ killPending[CurrentPid(c)]
    /\ \E W \in Expired : Wake(W)
    /\ pc' = [pc EXCEPT ![c] = "exit1"]
    /\ via' = [via EXCEPT ![c] = "timer"]
    /\ UNCHANGED <<tpid, procVars, counters, currentTid, arg, kstack, stackVars>>

\* Save the interrupted thread, make it Ready, and run the next one.
TimerSwitch(c) ==
    /\ pc[c] = "user"
    /\ ~killPending[CurrentPid(c)]
    /\ \E W \in Expired :
          LET me == currentTid[c]
              st == SetReady(W \cup {me}, state)
          IN  /\ Resume(c, ScheduleNext(c, me, st), st, Unblocked(W), [Restored(W) EXCEPT ![me] = TRUE])
              /\ waitTarget' = Untargeted(W)
    /\ UNCHANGED <<tpid, procVars, counters, arg, via, stackVars>>

\* From an idle loop: switch to a Ready thread, or go back to hlt.
TimerIdle(c) ==
    /\ pc[c] \in {"idle", "idleLoop"}
    /\ \E W \in Expired :
          LET st == SetReady(W, state)
              n  == ScheduleNext(c, Nobody, st)
          IN  \/ /\ n # Nobody
                 /\ Resume(c, n, st, Unblocked(W), Restored(W))
                 /\ waitTarget' = Untargeted(W)
              \/ /\ n = Nobody
                 /\ Wake(W)
                 /\ UNCHANGED <<currentTid, kstack, pc>>
    /\ UNCHANGED <<tpid, procVars, counters, arg, via, stackVars>>

Timer(c) == TimerReap(c) \/ TimerSwitch(c) \/ TimerIdle(c)

\* enter_next_process: always looks from tid 0; idles when nothing is Ready.
EnterNextProcess(c) ==
    /\ pc[c] \in {"sched", "idle"}
    /\ LET n == ScheduleNext(c, Nobody, state)
       IN  \/ n # Nobody /\ Resume(c, n, state, blockingRsp, ctxFresh)
           \/ /\ n = Nobody
              /\ pc[c] = "sched"
              /\ pc' = [pc EXCEPT ![c] = "idle"]
              /\ currentTid' = [currentTid EXCEPT ![c] = Nobody]
              /\ UNCHANGED <<state, blockingRsp, ctxFresh, kstack>>
    /\ UNCHANGED <<tpid, waitTarget, procVars, counters, arg, via, stackVars>>

-----------------------------------------------------------------------------
(* Leaving user mode, and dying                                            *)

\* int 0x80 and syscall_dispatch's deferred-kill check.
Int80(c) ==
    /\ Calls \ {"fault"} # {}
    /\ pc[c] = "user"
    /\ pc' = [pc EXCEPT ![c] = IF killPending[CurrentPid(c)] THEN "exit1" ELSE "sys"]
    /\ via' = [via EXCEPT ![c] = "call"]
    /\ UNCHANGED <<threadVars, procVars, counters, currentTid, arg, kstack, stackVars>>

\* A CPU exception in user mode.
Fault(c) ==
    /\ "fault" \in Calls
    /\ pc[c] = "user"
    /\ pc' = [pc EXCEPT ![c] = "exit1"]
    /\ via' = [via EXCEPT ![c] = "fault"]
    /\ UNCHANGED <<threadVars, procVars, counters, currentTid, arg, kstack, stackVars>>

FreeKernelStackNow(c, me) ==
    /\ stacks' = stacks \ {me}
    /\ UNCHANGED pendingFree

\* defer_free_kernel_stack: free what this CPU stashed before, stash me.
DeferFreeKernelStack(c, me) ==
    /\ stacks' = stacks \ {pendingFree[c]}
    /\ pendingFree' = [pendingFree EXCEPT ![c] = me]

\* exit_current_thread, inside the lock.
ExitCurrentThread(c) ==
    LET me == currentTid[c]
        W  == SleepersOn(On("Tid", me))
    IN  /\ state' = [SetReady(W, state) EXCEPT ![me] = "Absent"]
        /\ WakeContexts(W)
        /\ threads' = [threads EXCEPT ![tpid[me]] = @ \ {me}]
        /\ DeferFreeKernelStack(c, me)
        /\ currentTid' = [currentTid EXCEPT ![c] = Nobody]
        /\ pc' = [pc EXCEPT ![c] = "return"]
        /\ arg' = [arg EXCEPT ![c] = me]
        /\ UNCHANGED <<tpid, alive, mainTid, parent, catch, pending, aspace,
                       counters, via, kstack>>

ExitNeverLast(c) ==
    /\ pc[c] = "exit1"
    /\ killPending' = [killPending EXCEPT ![CurrentPid(c)] = TRUE]
    /\ ExitCurrentThread(c)

\* exit_current, first section: not the last thread means only this thread
\* leaves, with the process flagged so the others follow.
ExitUnlessLast(c) ==
    LET p == CurrentPid(c)
    IN  /\ pc[c] = "exit1"
        /\ \/ /\ Cardinality(LiveThreads(p)) > 1
              /\ killPending' = [killPending EXCEPT ![p] = TRUE]
              /\ ExitCurrentThread(c)
           \/ /\ Cardinality(LiveThreads(p)) <= 1
              /\ Goto(c, "exit2", arg[c])
              /\ UNCHANGED <<threadVars, procVars, counters, stackVars>>

OrphansForgotten(p) == {}

\* kill_children: the processes p's exit flags to die.
Orphans(p) == {q \in Pids : Killable(q) /\ parent[q] = p}

\* wakeup_pid_waiters and wakeup_thread_waiters.
Waiters(p, me, st) ==
    {t \in Tids : st[t] = "Sleeping" /\ waitTarget[t] \in {On("Pid", p), On("Tid", me)}}

\* exit_current, second section: tear the process down.  The page tables are
\* found through the main thread, so they are lost if it left before.
ExitLast(c) ==
    LET me == currentTid[c]
        p  == CurrentPid(c)
        K  == Orphans(p)
        st == SetReady(MainsOf(K), state)
        W  == Waiters(p, me, st)
    IN  /\ pc[c] = "exit2"
        /\ state' = [t \in Tids |-> IF t \in threads[p] THEN "Absent" ELSE SetReady(W, st)[t]]
        /\ WakeContexts(W)
        /\ killPending' = [q \in Pids |-> IF q = p THEN FALSE ELSE q \in K \/ killPending[q]]
        /\ aspace' = [aspace EXCEPT ![p] = IF Present(mainTid[p]) THEN "freed" ELSE "leaked"]
        /\ alive' = [alive EXCEPT ![p] = FALSE]
        /\ threads' = [threads EXCEPT ![p] = {}]
        /\ mainTid' = [mainTid EXCEPT ![p] = Nobody]
        /\ parent' = [parent EXCEPT ![p] = Nobody]
        /\ catch' = [catch EXCEPT ![p] = {}]
        /\ pending' = [pending EXCEPT ![p] = {}]
        /\ DeferFreeKernelStack(c, me)
        /\ currentTid' = [currentTid EXCEPT ![c] = Nobody]
        /\ pc' = [pc EXCEPT ![c] = "return"]
        /\ arg' = [arg EXCEPT ![c] = me]
        /\ UNCHANGED <<tpid, counters, via, kstack>>

\* After a syscall exit the stub moves to the CPU's return stack; a faulting
\* thread's exit stays on the dead thread's stack.
ReturnToScheduler(c) ==
    /\ pc[c] = "return"
    /\ via[c] \in {"call", "fault"}
    /\ pc' = [pc EXCEPT ![c] = "sched"]
    /\ arg' = [arg EXCEPT ![c] = 0]
    /\ currentTid' = [currentTid EXCEPT ![c] = Nobody]
    /\ kstack' = [kstack EXCEPT ![c] = IF via[c] = "call" THEN Nobody ELSE @]
    /\ UNCHANGED <<threadVars, procVars, counters, via, stackVars>>

\* The rest of the timer handler after it reaped the interrupted thread.
TimerAfterReap(c) ==
    /\ pc[c] = "return"
    /\ via[c] = "timer"
    /\ arg' = [arg EXCEPT ![c] = 0]
    /\ LET n == ScheduleNext(c, arg[c], state)
       IN  \/ n # Nobody /\ Resume(c, n, state, blockingRsp, ctxFresh)
           \/ /\ n = Nobody
              /\ pc' = [pc EXCEPT ![c] = "idleLoop"]
              /\ currentTid' = [currentTid EXCEPT ![c] = Nobody]
              /\ kstack' = [kstack EXCEPT ![c] = Nobody]
              /\ UNCHANGED <<state, blockingRsp, ctxFresh>>
    /\ UNCHANGED <<tpid, waitTarget, procVars, counters, via, stackVars>>

-----------------------------------------------------------------------------
(* System calls: thread lifecycle and blocking                             *)

InCall(c, call) == pc[c] = "sys" /\ call \in Calls

\* block_current: park the calling thread; the stub commits its frame later.
BlockCurrent(c, target) ==
    /\ state' = [state EXCEPT ![currentTid[c]] = "Sleeping"]
    /\ waitTarget' = [waitTarget EXCEPT ![currentTid[c]] = target]
    /\ Goto(c, "block", 0)
    /\ UNCHANGED <<tpid, blockingRsp, ctxFresh, procVars, counters, stackVars>>

CommitNoFrame(c) ==
    /\ pc[c] = "block"
    /\ currentTid' = [currentTid EXCEPT ![c] = Nobody]
    /\ kstack' = [kstack EXCEPT ![c] = Nobody]
    /\ pc' = [pc EXCEPT ![c] = "sched"]
    /\ UNCHANGED <<threadVars, procVars, counters, arg, via, stackVars>>

\* syscall_block_fn: commit the frame, drop the current thread, reschedule on
\* the CPU's return stack.
CommitBlock(c) ==
    /\ pc[c] = "block"
    /\ blockingRsp' = [blockingRsp EXCEPT ![currentTid[c]] = TRUE]
    /\ currentTid' = [currentTid EXCEPT ![c] = Nobody]
    /\ kstack' = [kstack EXCEPT ![c] = Nobody]
    /\ pc' = [pc EXCEPT ![c] = "sched"]
    /\ UNCHANGED <<state, tpid, waitTarget, ctxFresh, procVars, counters, arg, via, stackVars>>

SysSleep(c) ==
    \/ InCall(c, "sleepTick") /\ BlockCurrent(c, On("Tick", 0))
    \/ InCall(c, "sleepTimer") /\ BlockCurrent(c, On("Timer", 0))

\* join_current: the liveness check and the blocking are one section.
SysThreadJoin(c) ==
    /\ InCall(c, "join")
    /\ \E t \in Tids :
          \/ Present(t) /\ BlockCurrent(c, On("Tid", t))
          \/ /\ ~Present(t)
             /\ ReturnToUser(c)
             /\ UNCHANGED <<threadVars, procVars, counters, stackVars>>

\* sys_wait: the check and the blocking are two sections.
SysWait(c) ==
    /\ InCall(c, "wait")
    /\ \E p \in Pids :
          \/ alive[p] /\ Goto(c, "wait2", p)
          \/ ~alive[p] /\ ReturnToUser(c)
    /\ UNCHANGED <<threadVars, procVars, counters, stackVars>>

SysWaitBlock(c) ==
    /\ pc[c] = "wait2"
    /\ BlockCurrent(c, On("Pid", arg[c]))

\* create_user_thread, add_thread_to_process, set_ready; 0 when out of memory.
SysThreadSpawn(c) ==
    /\ InCall(c, "spawn")
    /\ ReturnToUser(c)
    /\ \/ /\ nextTid <= MaxTid
          /\ state' = [state EXCEPT ![nextTid] = "Ready"]
          /\ tpid' = [tpid EXCEPT ![nextTid] = CurrentPid(c)]
          /\ ctxFresh' = [ctxFresh EXCEPT ![nextTid] = TRUE]
          /\ threads' = [threads EXCEPT ![CurrentPid(c)] = @ \cup {nextTid}]
          /\ stacks' = stacks \cup {nextTid}
          /\ nextTid' = nextTid + 1
          /\ UNCHANGED <<waitTarget, blockingRsp, alive, mainTid, parent, killPending,
                         catch, pending, aspace, nextPid, pendingFree>>
       \/ UNCHANGED <<threadVars, procVars, counters, stackVars>>

SysExit(c) ==
    /\ InCall(c, "exit")
    /\ Goto(c, "exit1", 0)
    /\ UNCHANGED <<threadVars, procVars, counters, stackVars>>

\* SYS_THREAD_EXIT: the last-thread check is a section of its own.
SysThreadExit(c) ==
    /\ InCall(c, "texit")
    /\ Goto(c, IF Cardinality(LiveThreads(CurrentPid(c))) <= 1 THEN "exit1" ELSE "texit2", 0)
    /\ UNCHANGED <<threadVars, procVars, counters, stackVars>>

SysThreadExitSelf(c) ==
    /\ pc[c] = "texit2"
    /\ ExitCurrentThread(c)
    /\ UNCHANGED killPending

SysReadAwake(c) ==
    /\ InCall(c, "read")
    /\ Goto(c, "block", 0) \/ ReturnToUser(c)
    /\ UNCHANGED <<threadVars, procVars, counters, stackVars>>

\* A blocking read (pipe, console, IPC receive) finds nothing and parks the
\* *main* thread of the caller's process; or it finds data and returns.
SysRead(c) ==
    /\ InCall(c, "read")
    /\ \/ LET T == MainsOf({CurrentPid(c)})
          IN  /\ state' = [t \in Tids |-> IF t \in T THEN "Sleeping" ELSE state[t]]
              /\ waitTarget' = [t \in Tids |-> IF t \in T THEN On("Io", 0) ELSE waitTarget[t]]
              /\ Goto(c, "block", 0)
              /\ UNCHANGED <<tpid, blockingRsp, ctxFresh>>
       \/ ReturnToUser(c) /\ UNCHANGED threadVars
    /\ UNCHANGED <<procVars, counters, stackVars>>

\* The write that satisfies blocked readers.
SysWrite(c) ==
    /\ InCall(c, "write")
    /\ Wake(SleepersOn(On("Io", 0)))
    /\ ReturnToUser(c)
    /\ UNCHANGED <<tpid, procVars, counters, stackVars>>

-----------------------------------------------------------------------------
(* System calls: creating, killing and signalling processes                *)

\* kill_pid on every process of P: flag it and make its main thread Ready.
KillPids(P) ==
    /\ killPending' = [p \in Pids |-> p \in P \/ killPending[p]]
    /\ state' = SetReady(MainsOf(P), state)

SysKillTearsDown(c) ==
    /\ InCall(c, "kill")
    /\ \E p \in Pids :
          /\ Killable(p)
          /\ alive' = [alive EXCEPT ![p] = FALSE]
          /\ aspace' = [aspace EXCEPT ![p] = "freed"]
    /\ ReturnToUser(c)
    /\ UNCHANGED <<threadVars, threads, mainTid, parent, killPending, catch, pending,
                   counters, stackVars>>

SysKill(c) ==
    /\ InCall(c, "kill")
    /\ \E p \in Pids : KillPids({q \in {p} : Killable(q)})
    /\ ReturnToUser(c)
    /\ UNCHANGED <<tpid, waitTarget, blockingRsp, ctxFresh, alive, threads, mainTid, parent,
                   catch, pending, aspace, counters, stackVars>>

\* send_sigterm: no privilege check; the wait target of the woken main stays.
SysSigterm(c) ==
    /\ InCall(c, "sigterm")
    /\ \E p \in Pids :
          LET P == {q \in {p} : alive[q]}
              C == {q \in P : "TERM" \in catch[q]}
          IN  /\ pending' = [q \in Pids |-> pending[q] \cup {s \in {"TERM"} : q \in C}]
              /\ killPending' = [q \in Pids |-> q \in P \ C \/ killPending[q]]
              /\ state' = SetReady(MainsOf(P), state)
    /\ ReturnToUser(c)
    /\ UNCHANGED <<tpid, waitTarget, blockingRsp, ctxFresh, alive, threads, mainTid, parent,
                   catch, aspace, counters, stackVars>>

\* foreground_leaf: follow main threads' Pid wait targets, at most MaxHops.
WaitsOn(p) ==
    IF p \in Pids /\ alive[p] /\ Present(mainTid[p]) /\ waitTarget[mainTid[p]].on = "Pid"
    THEN waitTarget[mainTid[p]].id ELSE Nobody

ForegroundLeaf(root) ==
    LET hop[n \in 0..MaxHops] ==
            IF n = 0 THEN root
            ELSE LET p == hop[n - 1] IN IF WaitsOn(p) = Nobody THEN p ELSE WaitsOn(p)
    IN  hop[MaxHops]

SysSigintFg(c) ==
    /\ InCall(c, "sigintfg")
    /\ \E root, leaf \in Pids :
          /\ leaf = ForegroundLeaf(root)
          /\ IF leaf = root THEN ReturnToUser(c) ELSE Goto(c, "sig2", leaf)
    /\ UNCHANGED <<threadVars, procVars, counters, stackVars>>

\* send_sigint to the leaf found before.
SendSigint(c) ==
    LET p == arg[c]
        catches == {q \in {p} : Killable(q) /\ "INT" \in catch[q]}
        asleep  == {t \in MainsOf(catches) : state[t] = "Sleeping"}
        K == {q \in {p} : Killable(q)} \ catches
    IN  /\ pc[c] = "sig2"
        /\ pending' = [q \in Pids |-> pending[q] \cup {s \in {"INT"} : q \in catches}]
        /\ killPending' = [q \in Pids |-> q \in K \/ killPending[q]]
        /\ state' = SetReady(asleep \cup MainsOf(K), state)
        /\ WakeContexts(asleep)
        /\ ReturnToUser(c)
        /\ UNCHANGED <<tpid, alive, threads, mainTid, parent, catch, aspace, counters, stackVars>>

SysSignalCatch(c) ==
    /\ InCall(c, "catch")
    /\ \E mask \in Masks : catch' = [catch EXCEPT ![CurrentPid(c)] = mask]
    /\ ReturnToUser(c)
    /\ UNCHANGED <<threadVars, alive, threads, mainTid, parent, killPending, pending, aspace,
                   counters, stackVars>>

SysSignalCheck(c) ==
    /\ InCall(c, "check")
    /\ pending' = [pending EXCEPT ![CurrentPid(c)] = {}]
    /\ ReturnToUser(c)
    /\ UNCHANGED <<threadVars, alive, threads, mainTid, parent, killPending, catch, aspace,
                   counters, stackVars>>

SysExecReady(c) ==
    /\ InCall(c, "exec")
    /\ nextTid <= MaxTid
    /\ nextPid <= MaxPid
    /\ state' = [state EXCEPT ![nextTid] = "Ready"]
    /\ tpid' = [tpid EXCEPT ![nextTid] = nextPid]
    /\ ctxFresh' = [ctxFresh EXCEPT ![nextTid] = TRUE]
    /\ alive' = [alive EXCEPT ![nextPid] = TRUE]
    /\ threads' = [threads EXCEPT ![nextPid] = {nextTid}]
    /\ mainTid' = [mainTid EXCEPT ![nextPid] = nextTid]
    /\ aspace' = [aspace EXCEPT ![nextPid] = "live"]
    /\ stacks' = stacks \cup {nextTid}
    /\ nextTid' = nextTid + 1
    /\ nextPid' = nextPid + 1
    /\ Goto(c, "exec2", nextPid)
    /\ UNCHANGED <<waitTarget, blockingRsp, parent, killPending, catch, pending, pendingFree>>

\* sys_exec: spawn_user_process leaves the child Sleeping; it gets its parent
\* and its fds next, and is made Ready only then.
SysExec(c) ==
    /\ InCall(c, "exec")
    /\ \/ /\ nextTid <= MaxTid
          /\ nextPid <= MaxPid
          /\ state' = [state EXCEPT ![nextTid] = "Sleeping"]
          /\ tpid' = [tpid EXCEPT ![nextTid] = nextPid]
          /\ ctxFresh' = [ctxFresh EXCEPT ![nextTid] = TRUE]
          /\ alive' = [alive EXCEPT ![nextPid] = TRUE]
          /\ threads' = [threads EXCEPT ![nextPid] = {nextTid}]
          /\ mainTid' = [mainTid EXCEPT ![nextPid] = nextTid]
          /\ aspace' = [aspace EXCEPT ![nextPid] = "live"]
          /\ stacks' = stacks \cup {nextTid}
          /\ nextTid' = nextTid + 1
          /\ nextPid' = nextPid + 1
          /\ Goto(c, "exec2", nextPid)
          /\ UNCHANGED <<waitTarget, blockingRsp, parent, killPending, catch, pending, pendingFree>>
       \/ ReturnToUser(c) /\ UNCHANGED <<threadVars, procVars, counters, stackVars>>

SysExecSetParent(c) ==
    /\ pc[c] = "exec2"
    /\ parent' = [p \in Pids |-> IF p = arg[c] /\ alive[p] THEN CurrentPid(c) ELSE parent[p]]
    /\ Goto(c, "exec3", arg[c])
    /\ UNCHANGED <<threadVars, alive, threads, mainTid, killPending, catch, pending, aspace,
                   counters, stackVars>>

SysExecSetReady(c) ==
    /\ pc[c] = "exec3"
    /\ state' = SetReady(MainsOf({p \in {arg[c]} : alive[p]}), state)
    /\ ReturnToUser(c)
    /\ UNCHANGED <<tpid, waitTarget, blockingRsp, ctxFresh, procVars, counters, stackVars>>

-----------------------------------------------------------------------------
\* The steps of a CPU that is executing kernel code.
KernelStep(c) ==
    \/ EnterNextProcess(c)
    \/ ExitUnlessLast(c)
    \/ ExitLast(c)
    \/ ReturnToScheduler(c)
    \/ TimerAfterReap(c)
    \/ CommitBlock(c)
    \/ SysSleep(c)
    \/ SysThreadJoin(c)
    \/ SysWait(c)
    \/ SysWaitBlock(c)
    \/ SysThreadSpawn(c)
    \/ SysExit(c)
    \/ SysThreadExit(c)
    \/ SysThreadExitSelf(c)
    \/ SysRead(c)
    \/ SysWrite(c)
    \/ SysKill(c)
    \/ SysSigterm(c)
    \/ SysSigintFg(c)
    \/ SendSigint(c)
    \/ SysSignalCatch(c)
    \/ SysSignalCheck(c)
    \/ SysExec(c)
    \/ SysExecSetParent(c)
    \/ SysExecSetReady(c)

\* What the running program does: nothing, a system call, or a fault.
UserStep(c) == Int80(c) \/ Fault(c)

Next == \E c \in Cpus : Timer(c) \/ UserStep(c) \/ KernelStep(c)

\* A CPU keeps executing kernel code, and its periodic timer interrupt, which
\* stays pending while interrupts are off, is taken when it recurs.
Fairness == \A c \in Cpus : WF_vars(KernelStep(c)) /\ SF_vars(Timer(c))

Spec == Init /\ [][Next]_vars
FairSpec == Spec /\ Fairness

-----------------------------------------------------------------------------
TypeOK ==
    /\ state \in [Tids -> ThreadStates]
    /\ tpid \in [Tids -> Pids \cup {Nobody}]
    /\ waitTarget \in [Tids -> WaitTarget]
    /\ blockingRsp \in [Tids -> BOOLEAN]
    /\ ctxFresh \in [Tids -> BOOLEAN]
    /\ alive \in [Pids -> BOOLEAN]
    /\ threads \in [Pids -> SUBSET Tids]
    /\ mainTid \in [Pids -> Tids \cup {Nobody}]
    /\ parent \in [Pids -> Pids \cup {Nobody}]
    /\ killPending \in [Pids -> BOOLEAN]
    /\ catch \in [Pids -> SUBSET Signals]
    /\ pending \in [Pids -> SUBSET Signals]
    /\ aspace \in [Pids -> {"none", "live", "freed", "leaked"}]
    /\ nextTid \in 1..(MaxTid + 1)
    /\ nextPid \in 1..(MaxPid + 1)
    /\ currentTid \in [Cpus -> Tids \cup {Nobody}]
    /\ pc \in [Cpus -> Places]
    /\ arg \in [Cpus -> Nat]
    /\ via \in [Cpus -> Vias]
    /\ kstack \in [Cpus -> Tids \cup {Nobody}]
    /\ stacks \in SUBSET Tids
    /\ pendingFree \in [Cpus -> Tids \cup {Nobody}]

\* A CPU only ever runs live threads assigned to it, so no thread runs on two
\* CPUs (schedule_next's filter, enter_next_process's SCHED BUG check).
ThreadOnItsCpu ==
    \A c \in Cpus : currentTid[c] # Nobody =>
        Present(currentTid[c]) /\ AssignedCpu(currentTid[c]) = c

\* While a thread exists, its process is in the table and its page tables are
\* intact: exit_current lets only the last thread tear the process down.
NoUseAfterTeardown ==
    \A t \in Tids : Present(t) => tpid[t] # Nobody /\ alive[tpid[t]] /\ aspace[tpid[t]] = "live"

\* A kernel stack a CPU executes on, or will enter the kernel on, is never
\* freed, and belongs to one CPU (defer_free_kernel_stack, TSS rsp0).
KernelStackSafe ==
    \A c \in Cpus :
        /\ kstack[c] # Nobody => kstack[c] \in stacks /\ AssignedCpu(kstack[c]) = c
        /\ pc[c] = "user" => kstack[c] = currentTid[c]

\* Kernel stacks of dead threads do not pile up: each is the one its CPU has
\* stashed (the comment on PENDING_STACK_FREE).
StacksReclaimed ==
    \A t \in stacks : Present(t) \/ \E c \in Cpus : pendingFree[c] = t

\* A thread no CPU is running can be resumed from exactly one saved state, the
\* one in which it last left user mode: its syscall frame or its user_context
\* (send_sigint's comment on resuming a stale context).
ResumeStateFresh ==
    \A t \in Tids : Present(t) /\ (\A c \in Cpus : currentTid[c] # t) =>
        (ctxFresh[t] # blockingRsp[t])

\* A process whose parent is gone is flagged to die (kill_children), however
\* exec, kills and exits of several CPUs interleave.
OrphansKilled ==
    \A p \in Pids :
        alive[p] /\ parent[p] # Nobody /\ p \notin Drivers =>
            alive[parent[p]] \/ killPending[p]

\* A child does not run before exec has finished setting it up, unless it has
\* been killed meanwhile (the comment on spawn_user_process).
SetUpBeforeRun ==
    \A c, d \in Cpus :
        pc[c] \in {"exec2", "exec3"} /\ currentTid[d] # Nobody /\ tpid[currentTid[d]] = arg[c] =>
            killPending[arg[c]]

\* A Running thread is some CPU's current thread: no blocking call loses the
\* thread that made it, but for one.  A blocking read of a thread that is not
\* the main one parks the main thread and leaves its own Running with a saved
\* frame, which no scheduler and no wake-up looks for (sys_read, set_sleeping).
NoLostThreadUnlessWorkerReads ==
    \A t \in Tids : state[t] = "Running" =>
        \/ \E c \in Cpus : currentTid[c] = t
        \/ t # mainTid[tpid[t]] /\ blockingRsp[t]

\* Nobody sleeps in SYS_THREAD_JOIN on a thread that is gone.
NoJoinLost ==
    \A t \in Tids : state[t] = "Sleeping" /\ waitTarget[t].on = "Tid" => Present(waitTarget[t].id)

\* Threads of one process that end together leave nothing behind: a process that
\* goes on living keeps a thread, whoever ends and however (exit_current, a
\* fault, a kill).  The one step that may take the last one is the second section
\* of SYS_THREAD_EXIT, when its count of the threads is stale.  And whoever joins
\* a thread that ends is woken by it (exit_current_thread, join_current).
LastThreadEnds ==
    [][/\ \A p \in Pids : alive[p] /\ alive'[p] /\ LiveThreads(p) # {} /\ LiveThreads(p)' = {} =>
            \E c \in Cpus : pc[c] = "texit2" /\ CurrentPid(c) = p
       /\ NoJoinLost']_vars

\* Nobody sleeps in SYS_WAIT on a process that is gone.
NoWaitLost ==
    \A t \in Tids : state[t] = "Sleeping" /\ waitTarget[t].on = "Pid" => alive[waitTarget[t].id]

\* SYS_KILL, Ctrl+C and the death of its parent never flag a driver to die:
\* only an exit of its own does, or a SYS_SIGTERM (kill_pid's privilege check).
\* Machine has the one other way: a shutdown flags every process, drivers too.
DriverSpared ==
    [][\A p \in Drivers : ~killPending[p] /\ killPending'[p] =>
          \E c \in Cpus : (pc[c] = "exit1" /\ CurrentPid(c) = p) \/ SysSigterm(c)]_vars

\* A killed process is eventually reaped.
KillReaps == \A p \in Pids : killPending[p] ~> ~alive[p]

\* Every Ready thread eventually runs or dies.
ReadyRuns == \A t \in Tids : state[t] = "Ready" ~> state[t] # "Ready"

-----------------------------------------------------------------------------
(* The inductive invariant behind the safety properties                    *)

\* The places of a CPU that is working for its current thread.
ThreadPlaces == Places \ {"return", "sched", "idle", "idleLoop"}

CurrentInv ==
    \A c \in Cpus :
        /\ currentTid[c] # Nobody <=> pc[c] \in ThreadPlaces
        /\ currentTid[c] # Nobody =>
              /\ Present(currentTid[c])
              /\ AssignedCpu(currentTid[c]) = c
              /\ kstack[c] = currentTid[c]

\* Thread and process tables agree, and a CPU about to tear a process down
\* runs its only thread.
TableInv ==
    /\ \A t \in Tids : Present(t) => tpid[t] \in Pids /\ t \in threads[tpid[t]]
    /\ \A p \in Pids : \A t \in threads[p] : Present(t) /\ tpid[t] = p /\ alive[p]
    /\ \A p \in Pids : alive[p] => aspace[p] = "live"
    /\ \A c \in Cpus : pc[c] = "exit2" => threads[CurrentPid(c)] = {currentTid[c]}

\* Identifiers not handed out yet are unused.
FreshInv ==
    /\ \A t \in Tids : t >= nextTid => /\ ~Present(t)
                                       /\ t \notin stacks
                                       /\ ~blockingRsp[t]
    /\ \A p \in Pids : p >= nextPid => ~alive[p] /\ parent[p] = Nobody

\* A stack in use is allocated; a dead thread's stack is stashed on its CPU.
StackInv ==
    /\ \A t \in Tids : Present(t) => t \in stacks
    /\ \A t \in stacks : Present(t) \/ pendingFree[AssignedCpu(t)] = t
    /\ \A c \in Cpus :
          /\ pendingFree[c] # Nobody => /\ ~Present(pendingFree[c])
                                        /\ pendingFree[c] \in stacks
                                        /\ AssignedCpu(pendingFree[c]) = c
          /\ currentTid[c] = Nobody => kstack[c] \in {Nobody, pendingFree[c]}

\* Which saved state each live thread has.
FrameInv ==
    \A t \in Tids : Present(t) =>
        IF \E c \in Cpus : currentTid[c] = t THEN ~ctxFresh[t] /\ ~blockingRsp[t]
        ELSE ctxFresh[t] # blockingRsp[t]

\* The thread table, the process table, the CPUs and the kernel stacks agree,
\* whatever the CPUs interleave: what ThreadOnItsCpu, NoUseAfterTeardown,
\* KernelStackSafe, StacksReclaimed and ResumeStateFresh follow from.
TaskInv == CurrentInv /\ TableInv /\ FreshInv /\ StackInv /\ FrameInv

\* The same with the types of the tables (thread.rs, process.rs, scheduler.rs).
TasksInv == TypeOK /\ TaskInv

=============================================================================
