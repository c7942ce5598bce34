------------------------------ MODULE Drivers ------------------------------
(***************************************************************************)
(* Ring-3 drivers: the table of loaded driver modules, the one claimable   *)
(* PCI interrupt line, and the HDA driver (main thread and interrupt       *)
(* thread) on top of them.  Every thread, every caller of SYS_DRIVER_LOAD  *)
(* and the interrupt handler is on a CPU of its own.  A step is a stretch  *)
(* of code between two accesses other CPUs can see; an exiting process     *)
(* holds THREADS_LOCK through its teardown, and a call that does not need  *)
(* the lock may have passed the kill check of its entry before that.  The  *)
(* other driver, ps2mouse, claims nothing and only runs and exits.         *)
(***************************************************************************)
EXTENDS Naturals, FiniteSets

CONSTANTS
    Loaders,     \* CPUs that call SYS_DRIVER_LOAD
    MaxDrivers,  \* MAX_DRIVERS
    MaxPid,      \* bound on the processes spawned
    MaxStops     \* bound on the unloads and crashes, together

ASSUME DriversAssumption ==
    MaxDrivers \in Nat \ {0} /\ MaxPid \in Nat \ {0} /\ MaxStops \in Nat

Slots == 1..MaxDrivers
Pids == 1..MaxPid
NoPid == 0
NoEntry == [name |-> "", pid |-> NoPid, status |-> "None"]
Names == {"hda", "ps2mouse"}

\* Where the main thread is: about to make the call named, or inside one.
MainUser == {"map", "setup", "claim", "spawn", "inten", "run", "recv",
             "stop", "norun", "release", "join", "quiesce", "free", "exit"}
MainKernel == {"claim_store", "claim_route", "rel_wake", "rel_number",
               "rel_owner", "joining", "receiving"}
WorkUser == {"load", "wait", "woken", "touch", "ack", "leave"}
WorkKernel == {"blocked", "unmask"}

VARIABLES
    table,    \* TABLE.entries
    call,     \* per loader: where it is in load
    proc,     \* the processes, with the statics of the HDA driver
    tear,     \* per process: how far its teardown is
    leaving,  \* processes whose exit is still to be told to the table
    irq,      \* DRIVER_IRQ_OWNER, DRIVER_IRQ_NUMBER # 0, DRIVER_IRQ_AUDIO
    online,   \* ONLINE of /dev/audio
    ioapic,   \* DRIVER_IOAPIC_BASE # 0
    masked,   \* the mask bit of the line's redirection entry
    hnd,      \* where the interrupt handler is
    dev,      \* the controller: who enabled bus mastering, stream, interrupts, whose buffers
    stops,    \* calls of SYS_DRIVER_UNLOAD and crashes so far
    roused    \* processes an unload took out of SYS_THREAD_JOIN

vars == <<table, call, proc, tear, leaving, irq, online, ioapic, masked, hnd, dev, stops, roused>>

NoProc == [name |-> "", main |-> "none", work |-> "none", kill |-> FALSE, sig |-> FALSE,
           running |-> FALSE, mmio |-> FALSE, chan |-> FALSE, res |-> {}]
Idle == [pc |-> "idle", name |-> "", pid |-> NoPid]

Init ==
    /\ table = [s \in Slots |-> NoEntry]
    /\ call = [c \in Loaders |-> Idle]
    /\ proc = [p \in Pids |-> NoProc]
    /\ tear = [p \in Pids |-> "none"]
    /\ leaving = {}
    /\ irq = [owner |-> NoPid, number |-> FALSE, audio |-> FALSE]
    /\ online = FALSE /\ ioapic \in BOOLEAN /\ masked = TRUE /\ hnd = "idle"
    /\ dev = [bm |-> NoPid, run |-> FALSE, inten |-> FALSE, sts |-> FALSE, buf |-> NoPid]
    /\ stops = 0 /\ roused = {}

Alive(th) == th \notin {"none", "dead"}

\* THREADS_LOCK is free: no process is in its teardown.
Unlocked == \A p \in Pids : tear[p] \in {"none", "gone"}

Set(p, f, v) == proc' = [proc EXCEPT ![p][f] = v]

-----------------------------------------------------------------------------
(* driver_module.rs                                                        *)

\* load up to spawn_driver: a driver of that name must not be in the table.
LoadCheck(c, n) ==
    /\ call[c].pc = "idle"
    /\ \A s \in Slots : table[s].name # n
    /\ call' = [call EXCEPT ![c] = [pc |-> "spawn", name |-> n, pid |-> NoPid]]
    /\ UNCHANGED <<table, proc, tear, leaving, irq, online, ioapic, masked, hnd, dev, stops, roused>>

Fresh == {p \in Pids : proc[p].name = ""}

\* spawn_driver: the process may run at once, or the image is refused.
LoadSpawn(c) ==
    /\ call[c].pc = "spawn" /\ Unlocked
    /\ \/ /\ call' = [call EXCEPT ![c] = Idle]
          /\ UNCHANGED proc
       \/ /\ Fresh # {}
          /\ LET p == CHOOSE q \in Fresh : \A r \in Fresh : q <= r
             IN /\ call' = [call EXCEPT ![c].pc = "insert", ![c].pid = p]
                /\ proc' = [proc EXCEPT ![p].name = call[c].name,
                               ![p].main = IF call[c].name = "hda" THEN "map" ELSE "run"]
    /\ UNCHANGED <<table, tear, leaving, irq, online, ioapic, masked, hnd, dev, stops, roused>>

\* The rest of load: the first empty slot.  With none left load calls kill_pid,
\* which spares drivers: the new one runs on without an entry.
LoadInsert(c) ==
    /\ call[c].pc = "insert" /\ Unlocked
    /\ LET free == {s \in Slots : table[s] = NoEntry}
       IN table' = IF free = {} THEN table
                   ELSE [table EXCEPT ![CHOOSE s \in free : \A r \in free : s <= r] =
                            [name |-> call[c].name, pid |-> call[c].pid, status |-> "Running"]]
    /\ call' = [call EXCEPT ![c] = Idle]
    /\ UNCHANGED <<proc, tear, leaving, irq, online, ioapic, masked, hnd, dev, stops, roused>>

\* send_driver_exit: the signal, and the main thread is woken from whatever
\* it sleeps on, SYS_THREAD_JOIN included; SYS_IPC_RECV then returns 0.
SentDriverExit(p) ==
    [proc EXCEPT ![p].sig = Alive(proc[p].main) \/ @,
                 ![p].main = IF @ = "joining" THEN "quiesce"
                             ELSE IF @ = "receiving" THEN "run" ELSE @]

\* unload asks for no status: a driver that is Unloading gets the signal again.
Unload(s) ==
    /\ stops < MaxStops /\ table[s] # NoEntry /\ Unlocked
    /\ stops' = stops + 1
    /\ table' = [table EXCEPT ![s].status = "Unloading"]
    /\ proc' = SentDriverExit(table[s].pid)
    /\ roused' = IF proc[table[s].pid].main = "joining" THEN roused \cup {table[s].pid} ELSE roused
    /\ UNCHANGED <<call, tear, leaving, irq, online, ioapic, masked, hnd, dev>>

OnProcessExit(p) ==
    /\ p \in leaving /\ tear[p] \in {"none", "gone"}
    /\ leaving' = leaving \ {p}
    /\ table' = [s \in Slots |-> IF table[s].pid = p THEN NoEntry ELSE table[s]]
    /\ UNCHANGED <<call, proc, tear, irq, online, ioapic, masked, hnd, dev, stops, roused>>

-----------------------------------------------------------------------------
(* The end of a thread and of a process                                    *)

\* exit_current of thread th ("main" or "work"): the last one tears down.
\* A syscall's return path tells the table, the timer's and the fault's do not.
ExitCurrent(p, th, told) ==
    /\ Unlocked
    /\ LET other == IF th = "main" THEN "work" ELSE "main"
       IN IF Alive(proc[p][other])
          THEN proc' = [proc EXCEPT ![p][th] = "dead", ![p].kill = TRUE] /\ UNCHANGED tear
          ELSE /\ proc' = [proc EXCEPT ![p][th] = "dead"]
               /\ tear' = [tear EXCEPT ![p] = "irq"]
    /\ leaving' = IF told THEN leaving \cup {p} ELSE leaving
    /\ UNCHANGED <<table, call, irq, online, ioapic, masked, hnd, dev, roused>>

\* A flagged process: its threads die at their next syscall or timer tick.
Die(p) ==
    /\ proc[p].kill
    /\ \E told \in BOOLEAN :
         \/ proc[p].main \in MainUser /\ ExitCurrent(p, "main", told)
         \/ proc[p].work \in WorkUser /\ ExitCurrent(p, "work", told)
    /\ UNCHANGED stops

\* A panic in the main loop ends in SYS_EXIT, a fault in the fault handler.
Crash(p) ==
    /\ stops < MaxStops /\ proc[p].main = "run" /\ ~proc[p].kill
    /\ stops' = stops + 1
    /\ \E told \in BOOLEAN : ExitCurrent(p, "main", told)

\* release_irq_for_pid, step by step, then free_dma_for_pid and
\* free_pci_mmio_for_pid, all under THREADS_LOCK.
Tearing(p, from, to) == tear[p] = from /\ tear' = [tear EXCEPT ![p] = to]

TearIrq(p) ==
    /\ Tearing(p, "irq", IF irq.owner = p THEN "mask" ELSE "free")
    /\ irq' = IF irq.owner = p THEN [irq EXCEPT !.number = FALSE] ELSE irq
    /\ UNCHANGED <<table, call, proc, leaving, online, ioapic, masked, hnd, dev, stops, roused>>

TearMask(p) ==
    /\ Tearing(p, "mask", "quiesce")
    /\ masked' = TRUE
    /\ UNCHANGED <<table, call, proc, leaving, irq, online, ioapic, hnd, dev, stops, roused>>

TearQuiesceLeavingDma(p) ==
    /\ Tearing(p, "quiesce", "owner")
    /\ irq' = [irq EXCEPT !.audio = FALSE] /\ online' = FALSE
    /\ UNCHANGED <<table, call, proc, leaving, ioapic, masked, hnd, dev, stops, roused>>

TearQuiesce(p) ==
    /\ Tearing(p, "quiesce", "owner")
    /\ dev' = [dev EXCEPT !.bm = NoPid]
    /\ irq' = [irq EXCEPT !.audio = FALSE] /\ online' = FALSE
    /\ UNCHANGED <<table, call, proc, leaving, ioapic, masked, hnd, stops, roused>>

TearOwner(p) ==
    /\ Tearing(p, "owner", "free")
    /\ irq' = [irq EXCEPT !.owner = NoPid]
    /\ UNCHANGED <<table, call, proc, leaving, online, ioapic, masked, hnd, dev, stops, roused>>

\* With the process goes all that it had.
TearFree(p) ==
    /\ Tearing(p, "free", "gone")
    /\ proc' = [proc EXCEPT ![p] = [NoProc EXCEPT !.name = proc[p].name, !.main = "dead"]]
    /\ UNCHANGED <<table, call, leaving, irq, online, ioapic, masked, hnd, dev, stops, roused>>

Teardown(p) ==
    TearIrq(p) \/ TearMask(p) \/ TearQuiesce(p) \/ TearOwner(p) \/ TearFree(p)

-----------------------------------------------------------------------------
(* The main thread of the HDA driver: kdm_init                             *)

MainAt(p, pc) == proc[p].main = pc /\ (pc \in MainUser => ~proc[p].kill)
MainTo(p, pc) == Set(p, "main", pc)

\* sys_pci_bar_map and sys_pci_enable.
MapBar(p) ==
    /\ MainAt(p, "map")
    /\ \/ MainTo(p, "exit") /\ UNCHANGED dev
       \/ /\ proc' = [proc EXCEPT ![p].main = "setup", ![p].res = @ \cup {"bar"}]
          /\ dev' = [dev EXCEPT !.bm = p]
    /\ UNCHANGED <<table, call, tear, leaving, irq, online, ioapic, masked, hnd, stops, roused>>

\* The buffers, INTCTL off, controller reset and codec discovery, then the
\* stream.  Failing allocations leave bus mastering on.
SetupStream(p) ==
    /\ MainAt(p, "setup")
    /\ \/ /\ proc' = [proc EXCEPT ![p].main = "exit", ![p].res = {}]
          /\ UNCHANGED dev
       \/ /\ proc' = [proc EXCEPT ![p].main = "quiesce", ![p].res = @ \cup {"dma"}]
          /\ dev' = [dev EXCEPT !.run = FALSE, !.inten = FALSE, !.sts = FALSE]
       \/ /\ proc' = [proc EXCEPT ![p].main = "claim", ![p].res = @ \cup {"dma"}]
          /\ dev' = [dev EXCEPT !.run = FALSE, !.inten = FALSE, !.sts = FALSE, !.buf = p]
    /\ UNCHANGED <<table, call, tear, leaving, irq, online, ioapic, masked, hnd, stops, roused>>

\* sys_irq_claim: one owner, then the stores, then the route.
IrqClaim(p) ==
    /\ MainAt(p, "claim")
    /\ IF irq.owner = NoPid
       THEN irq' = [irq EXCEPT !.owner = p] /\ MainTo(p, "claim_store")
       ELSE UNCHANGED irq /\ MainTo(p, "quiesce")
    /\ UNCHANGED <<table, call, tear, leaving, online, ioapic, masked, hnd, dev, stops, roused>>

ClaimStore(p) ==
    /\ MainAt(p, "claim_store")
    /\ irq' = [irq EXCEPT !.number = TRUE, !.audio = TRUE]
    /\ MainTo(p, "claim_route")
    /\ UNCHANGED <<table, call, tear, leaving, online, ioapic, masked, hnd, dev, stops, roused>>

ClaimRoute(p) ==
    /\ MainAt(p, "claim_route")
    /\ IF ioapic
       THEN /\ masked' = FALSE /\ online' = TRUE
            /\ proc' = [proc EXCEPT ![p].main = "spawn", ![p].running = TRUE, ![p].mmio = TRUE]
            /\ UNCHANGED irq
       ELSE /\ irq' = [owner |-> NoPid, number |-> FALSE, audio |-> FALSE]
            /\ MainTo(p, "quiesce") /\ UNCHANGED <<masked, online>>
    /\ UNCHANGED <<table, call, tear, leaving, ioapic, hnd, dev, stops, roused>>

\* The interrupt thread; without memory for it the line is given back.
SpawnWorker(p) ==
    /\ MainAt(p, "spawn") /\ Unlocked
    /\ \/ proc' = [proc EXCEPT ![p].main = "inten", ![p].work = "load"]
       \/ MainTo(p, "norun")
    /\ UNCHANGED <<table, call, tear, leaving, irq, online, ioapic, masked, hnd, dev, stops, roused>>

\* INTCTL on, then sys_ipc_open of the command channel; without a channel
\* kdm_init takes back what it did, interrupt thread included.
EnableInterrupts(p) ==
    /\ MainAt(p, "inten")
    /\ dev' = [dev EXCEPT !.inten = TRUE]
    /\ \/ proc' = [proc EXCEPT ![p].main = "run", ![p].chan = TRUE]
       \/ MainTo(p, "norun")
    /\ UNCHANGED <<table, call, tear, leaving, irq, online, ioapic, masked, hnd, stops, roused>>

KdmInit(p) ==
    \/ MapBar(p) \/ SetupStream(p)
    \/ IrqClaim(p) \/ ClaimStore(p) \/ ClaimRoute(p)
    \/ SpawnWorker(p) \/ EnableInterrupts(p)

-----------------------------------------------------------------------------
(* kdm_run and kdm_exit                                                    *)

\* The head of the loop: SYS_SIGNAL_CHECK reports the stop signal, and the
\* loop returns, or else goes for the next command.
SignalCheck(p) ==
    /\ MainAt(p, "run") /\ (proc[p].sig \/ proc[p].name = "hda")
    /\ proc' = [proc EXCEPT ![p].sig = FALSE,
                   ![p].main = IF ~proc[p].sig THEN "recv"
                               ELSE IF proc[p].name = "hda" THEN "stop" ELSE "exit"]
    /\ UNCHANGED <<table, call, tear, leaving, irq, online, ioapic, masked, hnd, dev, stops, roused>>

\* sys_ipc_recv: a command, of which write_pcm starts the stream and a stop
\* command ends it; or a sleep, whatever signal is pending; or, the channel
\* being closed, the end of the loop.
IpcRecv(p) ==
    /\ MainAt(p, "recv")
    /\ \/ /\ \E r \in BOOLEAN : dev' = [dev EXCEPT !.run = r]
          /\ MainTo(p, "run")
       \/ /\ \E pc \in {"receiving", "stop"} : MainTo(p, pc)
          /\ UNCHANGED dev
    /\ UNCHANGED <<table, call, tear, leaving, irq, online, ioapic, masked, hnd, stops, roused>>

\* A sender's wakeup_ipc_waiter: the receive returns 0, and the loop goes on.
SenderWakes(p) ==
    /\ MainAt(p, "receiving") /\ Unlocked
    /\ MainTo(p, "run")
    /\ UNCHANGED <<table, call, tear, leaving, irq, online, ioapic, masked, hnd, dev, stops, roused>>

KdmRun(p) == SignalCheck(p) \/ IpcRecv(p)

StopStream(p) ==
    /\ MainAt(p, "stop")
    /\ dev' = [dev EXCEPT !.run = FALSE, !.inten = FALSE]
    /\ MainTo(p, "norun")
    /\ UNCHANGED <<table, call, tear, leaving, irq, online, ioapic, masked, hnd, stops, roused>>

StopRunning(p) ==
    /\ MainAt(p, "norun")
    /\ proc' = [proc EXCEPT ![p].main = "release", ![p].running = FALSE]
    /\ UNCHANGED <<table, call, tear, leaving, irq, online, ioapic, masked, hnd, dev, stops, roused>>

\* sys_irq_release: mask, wake, and only then clear the number and the owner.
IrqRelease(p) ==
    /\ MainAt(p, "release")
    /\ IF irq.owner = p /\ irq.number
       THEN masked' = TRUE /\ MainTo(p, "rel_wake")
       ELSE UNCHANGED masked /\ MainTo(p, "join")
    /\ UNCHANGED <<table, call, tear, leaving, irq, online, ioapic, hnd, dev, stops, roused>>

Blocked == {q \in Pids : proc[q].work = "blocked"}

\* wakeup_irq_waiter, for one waiter at most.
WakeupIrqWaiter(pr) ==
    IF Blocked = {} THEN {pr} ELSE {[pr EXCEPT ![q].work = "woken"] : q \in Blocked}

ReleaseWake(p) ==
    /\ MainAt(p, "rel_wake") /\ Unlocked
    /\ proc' \in WakeupIrqWaiter([proc EXCEPT ![p].main = "rel_number"])
    /\ UNCHANGED <<table, call, tear, leaving, irq, online, ioapic, masked, hnd, dev, stops, roused>>

ReleaseNumber(p) ==
    /\ MainAt(p, "rel_number")
    /\ irq' = [irq EXCEPT !.number = FALSE, !.audio = FALSE]
    /\ online' = FALSE
    /\ MainTo(p, "rel_owner")
    /\ UNCHANGED <<table, call, tear, leaving, ioapic, masked, hnd, dev, stops, roused>>

ReleaseOwner(p) ==
    /\ MainAt(p, "rel_owner")
    /\ irq' = [irq EXCEPT !.owner = NoPid]
    /\ MainTo(p, "join")
    /\ UNCHANGED <<table, call, tear, leaving, online, ioapic, masked, hnd, dev, stops, roused>>

JoinNobody(p) ==
    /\ MainAt(p, "join") /\ Unlocked
    /\ MainTo(p, "quiesce")
    /\ UNCHANGED <<table, call, tear, leaving, irq, online, ioapic, masked, hnd, dev, stops, roused>>

ThreadJoin(p) ==
    /\ MainAt(p, "join") /\ Unlocked
    /\ MainTo(p, IF Alive(proc[p].work) THEN "joining" ELSE "quiesce")
    /\ UNCHANGED <<table, call, tear, leaving, irq, online, ioapic, masked, hnd, dev, stops, roused>>

\* Hda::release: the device first, then the mappings, then the process ends.
\* kdm_exit forgets IRQ_MMIO before; kdm_init, giving up, does not.
Quiesce(p) ==
    /\ MainAt(p, "quiesce")
    /\ dev' = [dev EXCEPT !.run = FALSE, !.inten = FALSE, !.bm = NoPid]
    /\ proc' = [proc EXCEPT ![p].main = "free", ![p].mmio = @ /\ ~proc[p].chan]
    /\ UNCHANGED <<table, call, tear, leaving, irq, online, ioapic, masked, hnd, stops, roused>>

Release(p) ==
    /\ MainAt(p, "free")
    /\ proc' = [proc EXCEPT ![p].main = "exit", ![p].res = {}]
    /\ UNCHANGED <<table, call, tear, leaving, irq, online, ioapic, masked, hnd, dev, stops, roused>>

SysExit(p) == MainAt(p, "exit") /\ ExitCurrent(p, "main", TRUE) /\ UNCHANGED stops

KdmExit(p) ==
    \/ StopStream(p) \/ StopRunning(p) \/ IrqRelease(p) \/ ReleaseWake(p)
    \/ ReleaseNumber(p) \/ ReleaseOwner(p) \/ ThreadJoin(p)
    \/ Quiesce(p) \/ Release(p) \/ SysExit(p)

-----------------------------------------------------------------------------
(* irq_worker                                                              *)

WorkAt(p, pc) == proc[p].work = pc /\ (pc \in WorkUser => ~proc[p].kill)
WorkTo(p, pc) == Set(p, "work", pc)

WorkerLoop(p) ==
    /\ WorkAt(p, "load")
    /\ WorkTo(p, IF proc[p].running THEN "wait" ELSE "leave")
    /\ UNCHANGED <<table, call, tear, leaving, irq, online, ioapic, masked, hnd, dev, stops, roused>>

OwnsDriverIrq(p) == irq.owner = p /\ irq.number

IrqWait(p) ==
    /\ WorkAt(p, "wait") /\ Unlocked
    /\ WorkTo(p, IF OwnsDriverIrq(p) THEN "blocked" ELSE "woken")
    /\ UNCHANGED <<table, call, tear, leaving, irq, online, ioapic, masked, hnd, dev, stops, roused>>

WorkerWoken(p) ==
    /\ WorkAt(p, "woken")
    /\ WorkTo(p, IF ~proc[p].running THEN "leave" ELSE IF proc[p].mmio THEN "touch" ELSE "load")
    /\ UNCHANGED <<table, call, tear, leaving, irq, online, ioapic, masked, hnd, dev, stops, roused>>

\* Acknowledge the interrupt in the controller's registers.
WorkerTouch(p) ==
    /\ WorkAt(p, "touch") /\ "bar" \in proc[p].res
    /\ dev' = [dev EXCEPT !.sts = FALSE]
    /\ WorkTo(p, "ack")
    /\ UNCHANGED <<table, call, tear, leaving, irq, online, ioapic, masked, hnd, stops, roused>>

\* The registers are unmapped: a page fault, which ends the process.
WorkerFaults(p) ==
    /\ WorkAt(p, "touch") /\ "bar" \notin proc[p].res
    /\ ExitCurrent(p, "work", FALSE)
    /\ UNCHANGED stops

\* sys_irq_ack: the check, then the unmask.
IrqAck(p) ==
    /\ WorkAt(p, "ack")
    /\ WorkTo(p, IF OwnsDriverIrq(p) THEN "unmask" ELSE "load")
    /\ UNCHANGED <<table, call, tear, leaving, irq, online, ioapic, masked, hnd, dev, stops, roused>>

IrqUnmask(p) ==
    /\ WorkAt(p, "unmask")
    /\ masked' = FALSE
    /\ WorkTo(p, "load")
    /\ UNCHANGED <<table, call, tear, leaving, irq, online, ioapic, hnd, dev, stops, roused>>

WorkerLeavesQuietly(p) ==
    /\ WorkAt(p, "leave") /\ Unlocked
    /\ WorkTo(p, "dead")
    /\ UNCHANGED <<table, call, tear, leaving, irq, online, ioapic, masked, hnd, dev, stops, roused>>

\* SYS_THREAD_EXIT, with the main thread alive: the joiner is woken.
WorkerLeaves(p) ==
    /\ WorkAt(p, "leave") /\ Unlocked
    /\ proc' = [proc EXCEPT ![p].work = "dead",
                   ![p].main = IF @ = "joining" THEN "quiesce" ELSE @]
    /\ UNCHANGED <<table, call, tear, leaving, irq, online, ioapic, masked, hnd, dev, stops, roused>>

Worker(p) ==
    \/ WorkerLoop(p) \/ IrqWait(p) \/ WorkerWoken(p) \/ WorkerTouch(p) \/ WorkerFaults(p)
    \/ IrqAck(p) \/ IrqUnmask(p) \/ WorkerLeaves(p)

-----------------------------------------------------------------------------
(* The controller and the interrupt handler                                *)

BufferComplete ==
    /\ dev.run /\ dev.bm # NoPid /\ ~dev.sts
    /\ dev' = [dev EXCEPT !.sts = TRUE]
    /\ UNCHANGED <<table, call, proc, tear, leaving, irq, online, ioapic, masked, hnd, stops, roused>>

Asserted == dev.sts /\ dev.inten

\* hda_irq_handler_inner: read the number, mask, wake.  With no line claimed
\* it only ends the interrupt, which changes nothing here.
HandlerEnter ==
    /\ hnd = "idle" /\ Asserted /\ ~masked /\ irq.number
    /\ hnd' = "mask"
    /\ UNCHANGED <<table, call, proc, tear, leaving, irq, online, ioapic, masked, dev, stops, roused>>

HandlerMask ==
    /\ hnd = "mask"
    /\ masked' = TRUE /\ hnd' = "wake"
    /\ UNCHANGED <<table, call, proc, tear, leaving, irq, online, ioapic, dev, stops, roused>>

HandlerWake ==
    /\ hnd = "wake" /\ Unlocked
    /\ proc' \in WakeupIrqWaiter(proc)
    /\ hnd' = "idle"
    /\ UNCHANGED <<table, call, tear, leaving, irq, online, ioapic, masked, dev, stops, roused>>

Handler == HandlerEnter \/ HandlerMask \/ HandlerWake

-----------------------------------------------------------------------------
Ends(p) == Die(p) \/ Teardown(p) \/ OnProcessExit(p)

Next ==
    \/ \E c \in Loaders : LoadSpawn(c) \/ LoadInsert(c) \/ \E n \in Names : LoadCheck(c, n)
    \/ \E s \in Slots : Unload(s)
    \/ \E p \in Pids : KdmInit(p) \/ KdmRun(p) \/ KdmExit(p) \/ Worker(p) \/ Ends(p)
                        \/ SenderWakes(p) \/ Crash(p)
    \/ BufferComplete
    \/ Handler

Spec == Init /\ [][Next]_vars

\* A thread goes on with its code, whichever call it is in.
Fairness ==
    /\ WF_vars(Handler)
    /\ \A p \in Pids : WF_vars(KdmInit(p)) /\ WF_vars(KdmRun(p)) /\ WF_vars(KdmExit(p))
                       /\ WF_vars(Worker(p)) /\ WF_vars(Ends(p))

FairSpec == Spec /\ Fairness

-----------------------------------------------------------------------------
(* Properties                                                              *)

TypeOK ==
    /\ table \in [Slots -> {NoEntry} \cup [name : Names, pid : Pids, status : {"Running", "Unloading"}]]
    /\ call \in [Loaders -> [pc : {"idle", "spawn", "insert"}, name : Names \cup {""}, pid : Pids \cup {NoPid}]]
    /\ \A p \in Pids : /\ proc[p].main \in MainUser \cup MainKernel \cup {"none", "dead"}
                       /\ proc[p].work \in WorkUser \cup WorkKernel \cup {"none", "dead"}
                       /\ proc[p].res \subseteq {"bar", "dma"}
                       /\ tear[p] # "none" => ~Alive(proc[p].main) /\ ~Alive(proc[p].work)
    /\ leaving \subseteq Pids
    /\ irq.owner \in Pids \cup {NoPid} /\ dev.buf \in Pids \cup {NoPid}
    /\ hnd \in {"idle", "mask", "wake"}
    /\ roused \subseteq Pids

\* The memory a running stream fetches from is never returned: whichever way
\* the driver ends (unload, panic, fault, the main or the interrupt thread
\* last), the stream or bus mastering is off before sys_dma_free or
\* free_dma_for_pid.  (Said of the driver that enabled bus mastering last: a
\* crash leaves the stream programmed, and the next driver enables bus
\* mastering before it resets the controller.)
DmaSafe ==
    [][\A p \in Pids : "dma" \in proc[p].res /\ "dma" \notin proc'[p].res
                       => ~(dev.run /\ dev.bm = p /\ dev.buf = p)]_vars

\* The interrupt thread writes the controller's registers only while the BAR
\* is mapped: kdm_exit joins it before Hda::release unmaps, and a teardown
\* starts only when both threads are dead.  The exception is an unload that
\* finds the main thread in the join: send_driver_exit wakes it, and it
\* releases what the interrupt thread may be using.
MmioMappedUnlessRoused ==
    \A p \in Pids \ roused : proc[p].work = "touch" => "bar" \in proc[p].res

\* Whoever finds the line free finds nothing of the last claim: sys_irq_claim,
\* sys_irq_release and release_irq_for_pid store the owner first or last.
ClaimClean == irq.owner = NoPid => ~irq.number /\ ~irq.audio /\ ~online

\* An interrupt that hda_irq_handler_inner would neither mask nor hand on is
\* never pending, except inside a teardown that is about to mask the line:
\* a late SYS_IRQ_ACK may leave a released line unmasked, but the controller
\* no longer raises it.  The exception is again a join cut short: then the
\* late SYS_IRQ_ACK of one driver can unmask the line of the next.
NoStormUnlessRoused == roused = {} /\ Asserted /\ ~masked /\ ~irq.number => ~Unlocked

\* The worker sleeps on a line that nobody will ever signal.
Stranded(p) == proc[p].work = "blocked" /\ (~irq.number \/ proc[p].main = "dead")

\* The main thread went to sleep in SYS_IPC_RECV between the unload and the
\* next look at its signals: it sleeps until somebody sends a command.
Overslept(p) == proc[p].main = "receiving" /\ proc[p].sig

\* A driver that got the stop signal of SYS_DRIVER_UNLOAD ends, unless it fell
\* between kdm_run's signal check and its receive, or the interrupt thread
\* slept after the one wake-up of sys_irq_release.
UnloadEndsUnlessAsleep ==
    \A p \in Pids : proc[p].sig ~> (tear[p] = "gone" \/ Stranded(p) \/ Overslept(p))

\* What a driver claimed and what its threads use agree, through loads,
\* unloads, crashes and teardowns on other CPUs, and no line is left raised
\* that nobody answers.
DriversInv ==
    /\ TypeOK
    /\ ClaimClean
    /\ MmioMappedUnlessRoused
    /\ NoStormUnlessRoused

=============================================================================
