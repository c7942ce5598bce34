------------------------------ MODULE Machine ------------------------------
(***************************************************************************)
(* The life of the machine: kernel_main (main.rs), CPU discovery and the   *)
(* start of the other processors through one shared trampoline page        *)
(* (arch/x86_64/smp.rs, drivers/acpi.rs), and the way down: SYS_SHUTDOWN,  *)
(* SYS_REBOOT and the power button (drivers/power.rs).                     *)
(*                                                                         *)
(* Interrupts are off in kernel_main from `cli` on, in ap_main and in a    *)
(* system call, so a CPU takes timer interrupts only in user mode and in   *)
(* the idle loop.  What threads do in between is the subject of Tasks.     *)
(***************************************************************************)
EXTENDS Integers, FiniteSets, Sequences, SequencesExt

CONSTANTS
    Madts,      \* the MADTs a firmware may pass: processor entries in table order
    Bsp,        \* the LAPIC id of the boot processor
    MaxCpus,    \* MAX_CPUS
    Dead,       \* processors listed as enabled that never answer a SIPI
    NumProcs,   \* processes made at boot: the drivers, then the shell
    Catchers,   \* processes that catch SIGTERM
    Grace       \* the 100 timer ticks of stop_processes, scaled down

\* parse_cpu_lapic_ids: the enabled entries, in table order.
LapicIds(madt) == [i \in 1..Len(SelectSeq(madt, LAMBDA e : e.enabled)) |->
                      SelectSeq(madt, LAMBDA e : e.enabled)[i].apic]

Cpus == {Bsp} \cup UNION {Range(LapicIds(madt)) : madt \in Madts}

\* A firmware lists a processor once, and the boot processor first.
ASSUME MachineAssumption ==
    /\ \A madt \in Madts : /\ IsInjective(LapicIds(madt))
                           /\ LapicIds(madt) # <<>> => LapicIds(madt)[1] = Bsp
    /\ MaxCpus \in Nat \ {0}
    /\ Dead \subseteq Cpus \ {Bsp}
    /\ NumProcs \in Nat \ {0} /\ Grace \in Nat \ {0}

Procs == 1..NumProcs
Nobody == 0

VARIABLES
    apic_ids,   \* APIC_IDS
    mode,       \* where each processor is
    ap,         \* position in APIC_IDS that start_aps_inner has reached
    late,       \* the processors whose 100 ms to answer have run out
    tramp,      \* the patched words of the trampoline: ap_stack and ap_done
    sp,         \* the AP_STACKS slot each processor runs on
    retstack,   \* kernel_return_stack of each CPU index is set
    proc,       \* life, assigned_cpu, kill_pending, sigterm_pending
    run,        \* the process in user mode on each processor
    started,    \* SHUTDOWN_STARTED
    left,       \* timer ticks left to the deadline of stop_processes
    power       \* the machine is on

vars == <<apic_ids, mode, ap, late, tramp, sp, retstack, proc, run, started, left, power>>

Modes == {"off", "detect", "spawn", "patch", "sipi", "await",
          "wait_sipi", "real", "long", "stacked", "main", "idle", "user",
          "term", "kill", "poweroff", "spin", "panic", "lost"}

NoProc == [life |-> "none", cpu |-> 0, kill |-> FALSE, term |-> FALSE]
NoStack == -1

Init ==
    /\ apic_ids = <<>>
    /\ mode = [c \in Cpus |-> IF c = Bsp THEN "detect" ELSE "off"]
    /\ ap = 1 /\ late = {}
    /\ tramp = [stack |-> NoStack, done |-> FALSE]
    /\ sp = [c \in Cpus |-> NoStack]
    /\ retstack = [i \in 0..MaxCpus - 1 |-> FALSE]
    /\ proc = [p \in Procs |-> NoProc]
    /\ run = [c \in Cpus |-> Nobody]
    /\ started = FALSE /\ left = 0 /\ power = TRUE

\* current_cpu_index: the position in APIC_IDS, 0 if it is not there.
CpuIndex(c) == IF c \in Range(apic_ids)
               THEN (CHOOSE i \in 1..Len(apic_ids) : apic_ids[i] = c) - 1 ELSE 0

Goto(c, m) == mode' = [mode EXCEPT ![c] = m]

-----------------------------------------------------------------------------
(* kernel_main on the boot processor                                       *)

\* cpu_count: CPU_COUNT is at least 1, also when APIC_IDS stays empty.
CpuCount == IF apic_ids = <<>> THEN 1 ELSE Len(apic_ids)

\* detect_cpus: the one processor of a machine without a usable MADT, or the
\* enabled ones of the MADT.  CPU_DATA has no room for more than MAX_CPUS.
DetectCpus ==
    /\ power /\ mode[Bsp] = "detect"
    /\ apic_ids' \in {<<0>>} \cup {LapicIds(madt) : madt \in Madts}
    /\ Goto(Bsp, IF Len(apic_ids') > MaxCpus THEN "panic" ELSE "spawn")
    /\ UNCHANGED <<ap, late, tramp, sp, retstack, proc, run, started, left, power>>

\* load_from_list and spawn: every thread is pinned round robin to one of
\* the listed processors, none of which but this one runs yet.
SpawnBoot ==
    /\ power /\ mode[Bsp] = "spawn"
    /\ proc' = [p \in Procs |-> [NoProc EXCEPT !.life = "live", !.cpu = (p - 1) % CpuCount]]
    /\ Goto(Bsp, "patch")
    /\ UNCHANGED <<apic_ids, ap, late, tramp, sp, retstack, run, started, left, power>>

\* start_ap up to the INIT: patch the shared page for the next processor.
PatchedKeepingDone(stack) == [tramp EXCEPT !.stack = stack]

Patched(stack) == [stack |-> stack, done |-> FALSE]

StartAp ==
    /\ power /\ mode[Bsp] = "patch" /\ ap <= Len(apic_ids)
    /\ IF apic_ids[ap] = Bsp \/ ap - 2 >= MaxCpus - 1
       THEN ap' = ap + 1 /\ UNCHANGED <<mode, tramp>>
       ELSE /\ tramp' = Patched(ap - 2)
            /\ mode' = [mode EXCEPT ![Bsp] = "sipi", ![apic_ids[ap]] = "wait_sipi"]
            /\ UNCHANGED ap
    /\ UNCHANGED <<apic_ids, late, sp, retstack, proc, run, started, left, power>>

\* The two SIPIs.  The second one finds the processor running and is ignored.
SendSipi ==
    /\ power /\ mode[Bsp] = "sipi"
    /\ mode' = [mode EXCEPT ![Bsp] = "await", ![apic_ids[ap]] = IF @ = "wait_sipi" THEN "real" ELSE @]
    /\ UNCHANGED <<apic_ids, ap, late, tramp, sp, retstack, proc, run, started, left, power>>

\* The wait for ap_done, or for the deadline.  A dead processor misses it, and
\* so may one that is slow and comes through the trampoline later; an ap_done
\* that such a one sets is taken for the answer of the next processor.
NoTimeout(expired) == tramp.done

WaitOver(expired) == tramp.done \/ expired

AwaitAp ==
    /\ power /\ mode[Bsp] = "await"
    /\ \E expired \in BOOLEAN : WaitOver(expired)
    /\ late' = IF tramp.done THEN late ELSE late \cup {apic_ids[ap]}
    /\ ap' = ap + 1
    /\ Goto(Bsp, "patch")
    /\ UNCHANGED <<apic_ids, tramp, sp, retstack, proc, run, started, left, power>>

\* set_kernel_return_stack, then enter_next_process for good.
EnterScheduler ==
    /\ power /\ mode[Bsp] = "patch" /\ ap > Len(apic_ids)
    /\ retstack' = [retstack EXCEPT ![CpuIndex(Bsp)] = TRUE]
    /\ Goto(Bsp, "idle")
    /\ UNCHANGED <<apic_ids, ap, late, tramp, sp, proc, run, started, left, power>>

-----------------------------------------------------------------------------
(* The trampoline and ap_main on the other processors                      *)

\* Real and protected mode: paging on, with the kernel's page tables.
ApEnterLong(c) ==
    /\ power /\ mode[c] = "real" /\ c \notin Dead
    /\ Goto(c, "long")
    /\ UNCHANGED <<apic_ids, ap, late, tramp, sp, retstack, proc, run, started, left, power>>

ApLoadStack(c) ==
    /\ power /\ mode[c] = "long"
    /\ sp' = [sp EXCEPT ![c] = tramp.stack]
    /\ Goto(c, "stacked")
    /\ UNCHANGED <<apic_ids, ap, late, tramp, retstack, proc, run, started, left, power>>

ApDone(c) ==
    /\ power /\ mode[c] = "stacked"
    /\ tramp' = [tramp EXCEPT !.done = TRUE]
    /\ Goto(c, "main")
    /\ UNCHANGED <<apic_ids, ap, late, sp, retstack, proc, run, started, left, power>>

\* Two processors that push on one stack overwrite each other's frames.
StackShared(c) == \E d \in Cpus \ {c} : sp[d] # NoStack /\ sp[d] = sp[c]

\* ap_main: this processor's tables, timer and return stack, then the scheduler;
\* on a stack it shares, any return may go astray.
ApMain(c) ==
    /\ power /\ mode[c] = "main"
    /\ \/ /\ retstack' = [retstack EXCEPT ![CpuIndex(c)] = TRUE]
          /\ Goto(c, "idle")
       \/ /\ StackShared(c)
          /\ Goto(c, "lost")
          /\ UNCHANGED retstack
    /\ UNCHANGED <<apic_ids, ap, late, tramp, sp, proc, run, started, left, power>>

-----------------------------------------------------------------------------
(* Running processes, as far as shutdown depends on them                   *)

Dispatch(c, p) ==
    /\ power /\ mode[c] = "idle"
    /\ proc[p].life = "live" /\ proc[p].cpu = CpuIndex(c)
    /\ run' = [run EXCEPT ![c] = p]
    /\ Goto(c, "user")
    /\ UNCHANGED <<apic_ids, ap, late, tramp, sp, retstack, proc, started, left, power>>

\* The timer counts, reaps a process that is flagged, or reschedules.
Timer(c) ==
    /\ power /\ mode[c] \in {"idle", "user"}
    /\ left' = IF left = 0 THEN 0 ELSE left - 1
    /\ proc' = IF run[c] # Nobody /\ proc[run[c]].kill
               THEN [proc EXCEPT ![run[c]].life = "dead"] ELSE proc
    /\ run' = [run EXCEPT ![c] = Nobody]
    /\ Goto(c, "idle")
    /\ UNCHANGED <<apic_ids, ap, late, tramp, sp, retstack, started, power>>

\* SYS_EXIT, of its own or because SYS_SIGNAL_CHECK reported a SIGTERM.
SysExit(c) ==
    /\ power /\ mode[c] = "user"
    /\ proc' = [proc EXCEPT ![run[c]].life = "dead"]
    /\ run' = [run EXCEPT ![c] = Nobody]
    /\ Goto(c, "idle")
    /\ UNCHANGED <<apic_ids, ap, late, tramp, sp, retstack, started, left, power>>

-----------------------------------------------------------------------------
(* drivers/power.rs                                                        *)

Live == {p \in Procs : proc[p].life = "live"}

\* shutdown_sigterm_all: the caller too is asked to stop.
SigtermAll == [p \in Procs |->
    IF p \notin Live THEN proc[p]
    ELSE IF p \in Catchers THEN [proc[p] EXCEPT !.term = TRUE] ELSE [proc[p] EXCEPT !.kill = TRUE]]

SigkillAll == [p \in Procs |-> IF p \in Live THEN [proc[p] EXCEPT !.kill = TRUE] ELSE proc[p]]

\* begin_shutdown and begin_reboot; a flagged caller dies at the entry.
SysShutdown(c) ==
    /\ power /\ mode[c] = "user" /\ ~proc[run[c]].kill
    /\ started' = TRUE
    /\ IF started
       THEN Goto(c, "spin") /\ UNCHANGED <<proc, left>>
       ELSE Goto(c, "term") /\ proc' = SigtermAll /\ left' = Grace
    /\ UNCHANGED <<apic_ids, ap, late, tramp, sp, retstack, run, power>>

\* stop_processes: shutdown_complete never holds here, since the caller's own
\* process is alive in this very call; the deadlines decide.
ShutdownComplete == Live = {}

StopWait(c) ==
    /\ power /\ mode[c] = "term" /\ (ShutdownComplete \/ left = 0)
    /\ IF ShutdownComplete
       THEN Goto(c, "poweroff") /\ UNCHANGED <<proc, left>>
       ELSE Goto(c, "kill") /\ proc' = SigkillAll /\ left' = Grace
    /\ UNCHANGED <<apic_ids, ap, late, tramp, sp, retstack, run, started, power>>

KillWaitForever(c) ==
    /\ power /\ mode[c] = "kill" /\ ShutdownComplete
    /\ Goto(c, "poweroff")
    /\ UNCHANGED <<apic_ids, ap, late, tramp, sp, retstack, proc, run, started, left, power>>

KillWait(c) ==
    /\ power /\ mode[c] = "kill" /\ (ShutdownComplete \/ left = 0)
    /\ Goto(c, "poweroff")
    /\ UNCHANGED <<apic_ids, ap, late, tramp, sp, retstack, proc, run, started, left, power>>

\* shutdown and reboot: the register writes that stop the machine.
PowerOff(c) ==
    /\ power /\ mode[c] = "poweroff"
    /\ power' = FALSE
    /\ UNCHANGED <<apic_ids, mode, ap, late, tramp, sp, retstack, proc, run, started, left>>

\* handle_power_button, in the SCI handler of the boot processor: straight off.
PowerButton ==
    /\ power /\ mode[Bsp] \in {"idle", "user"}
    /\ Goto(Bsp, "poweroff")
    /\ UNCHANGED <<apic_ids, ap, late, tramp, sp, retstack, proc, run, started, left, power>>

BspBoots == DetectCpus \/ SpawnBoot \/ StartAp \/ SendSipi \/ AwaitAp \/ EnterScheduler
ApBoots(c) == ApEnterLong(c) \/ ApLoadStack(c) \/ ApDone(c) \/ ApMain(c)
Stops(c) == StopWait(c) \/ KillWait(c) \/ PowerOff(c)

Next ==
    \/ BspBoots
    \/ PowerButton
    \/ \E c \in Cpus :
         \/ ApBoots(c) \/ Stops(c)
         \/ \E p \in Procs : Dispatch(c, p)
         \/ Timer(c) \/ SysExit(c) \/ SysShutdown(c)

Spec == Init /\ [][Next]_vars

\* A CPU goes on with the code it is in, and its LAPIC timer keeps firing.
Fairness ==
    /\ WF_vars(BspBoots)
    /\ \A c \in Cpus : WF_vars(ApBoots(c)) /\ WF_vars(Stops(c)) /\ SF_vars(Timer(c))

FairSpec == Spec /\ Fairness

-----------------------------------------------------------------------------
(* Properties                                                              *)

TypeOK ==
    /\ apic_ids \in {<<>>, <<0>>} \cup {LapicIds(madt) : madt \in Madts}
    /\ mode \in [Cpus -> Modes]
    /\ ap \in 1..MaxCpus + 1
    /\ late \subseteq Cpus \ {Bsp}
    /\ tramp \in [stack : NoStack..MaxCpus - 2, done : BOOLEAN]
    /\ sp \in [Cpus -> NoStack..MaxCpus - 2]
    /\ retstack \in [0..MaxCpus - 1 -> BOOLEAN]
    /\ proc \in [Procs -> [life : {"none", "live", "dead"}, cpu : 0..MaxCpus - 1,
                           kill : BOOLEAN, term : BOOLEAN]]
    /\ run \in [Cpus -> Procs \cup {Nobody}]
    /\ started \in BOOLEAN /\ left \in 0..Grace /\ power \in BOOLEAN
    /\ \A c \in Cpus : mode[c] = "user" => run[c] # Nobody /\ proc[run[c]].life = "live"

\* The trampoline is one page for all processors, so one that comes through it
\* after its deadline meets the next one's words.
LateUpTo(c) == {d \in late \ Dead : CpuIndex(d) <= CpuIndex(c)}

\* A processor that has left the trampoline runs on the AP_STACKS slot of its
\* own CPU index, unless it or a live one listed before it missed the deadline
\* of 100 ms: then it may share a slot (start_ap, ap_long).
ApOwnStackUnlessLate == \A c \in Cpus \ {Bsp} :
    sp[c] # NoStack /\ LateUpTo(c) = {} => sp[c] = CpuIndex(c) - 1

\* No user thread runs on a processor whose scheduler restart stack is not
\* installed: its first blocking call would unwind to rsp 0 (kernel_main).
ReturnStackBeforeUser == \A c \in Cpus : mode[c] = "user" => retstack[CpuIndex(c)]

\* The boot processor gets to its scheduler, whichever processors are dead or
\* late, unless the MADT enables more than MAX_CPUS of them, where detect_cpus
\* panics, or one that started before has turned the power off (start_ap).
BootCompletes == <>(mode[Bsp] \notin {"detect", "spawn", "patch", "sipi", "await", "panic"}
                      \/ ~power \/ Len(apic_ids) > MaxCpus)

\* Nobody is left but processors inside SYS_SHUTDOWN, where interrupts are off,
\* and ones that never came up or ran into a stack they share.
Deaf == \A c \in Cpus : mode[c] \in {"off", "wait_sipi", "real", "lost", "term", "kill", "spin"}

\* A shutdown once begun ends with the power off, as long as one processor
\* still takes timer interrupts (stop_processes).
ShutdownEndsUnlessDeaf == started ~> (~power \/ Deaf)

\* A processor works only with what was set up for it: a live process, its own
\* AP stack unless a deadline passed, and its own restart stack.
MachineInv ==
    /\ TypeOK
    /\ ApOwnStackUnlessLate
    /\ ReturnStackBeforeUser

=============================================================================
