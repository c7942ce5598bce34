------------------------------ MODULE Console ------------------------------
(***************************************************************************)
(* The screen and the keyboard: who owns the framebuffer                   *)
(* (drivers/fb_owner.rs), what the keyboard interrupt does with a byte of  *)
(* the controller (drivers/keyboard.rs), and the console system calls      *)
(* (syscall/console.rs, the ConsoleIn branches of syscall/runtime.rs).     *)
(*                                                                         *)
(* Every process has one thread on a CPU of its own, the keyboard          *)
(* interrupt another.  A step is what one CPU does between two points at   *)
(* which another one can see or change shared state: a read or a store of  *)
(* OWNER, which no lock protects, a section under the keyboard LOCK, or a  *)
(* section under THREADS_LOCK.  poll holds LOCK from its first byte to its *)
(* last, exit_current holds THREADS_LOCK while it gives the screen back;   *)
(* every other section is one step.  A key in a ring is represented by the *)
(* owner of the screen at the time poll decided whom it is for.            *)
(***************************************************************************)
EXTENDS Naturals, Sequences, SequencesExt, FiniteSets

CONSTANTS
    Procs,      \* the processes
    Graphical,  \* those that use the framebuffer
    Text,       \* those that use the console: their fd 0 and 1 are ConsoleIn, ConsoleOut
    Catching,   \* those that catch SIGINT
    Careless,   \* those that may pass SYS_FB_ACQUIRE a bad address
    NoOne,      \* no process
    Keyboard,   \* WaitTarget::Keyboard
    BufSize,    \* BUF_SIZE and EBUF_SIZE: a ring holds one entry less
    MaxBytes,   \* bound on the bytes the keyboard sends
    MaxLive     \* bound on the back buffers allocated at once

ASSUME ConsoleAssumption ==
    /\ Graphical \subseteq Procs /\ Text \subseteq Procs /\ Catching \subseteq Procs
    /\ Careless \subseteq Procs
    /\ NoOne \notin Procs /\ Keyboard \notin Procs \cup {NoOne}
    /\ BufSize \in Nat \ {0} /\ MaxBytes \in Nat /\ MaxLive \in Nat

VARIABLES
    owner,      \* OWNER
    back,       \* what the buffer at BACK_PTR holds, "none" for null
    live,       \* number of back buffers allocated and not freed
    screen,     \* what the framebuffer shows: text, black, gui or a mixture
    buf, ebuf,  \* BUF and EBUF
    ctrl, ext,  \* CTRL and EXTENDED
    poll,       \* what the keyboard interrupt is doing
    pc,         \* what each process is doing
    wait,       \* wait_target of each process's thread
    killed,     \* processes with kill_pending
    exiting,    \* the process that holds THREADS_LOCK in exit_current
    granted,    \* processes that were told that they own the framebuffer
    bytes,      \* bytes the keyboard has sent
    raced,      \* an acquire began during another acquire or a release
    unsaved     \* some acquire found no memory for its back buffer

fb == <<owner, back, live, screen, granted, raced, unsaved>>
kbd == <<buf, ebuf, ctrl, ext, poll, bytes>>
tasks == <<pc, wait, killed, exiting>>
vars == <<fb, kbd, tasks>>

Idle == [pc |-> "idle", ch |-> "none", target |-> NoOne]

Init ==
    /\ owner = NoOne /\ back = "none" /\ live = 0 /\ screen = "text"
    /\ buf = <<>> /\ ebuf = <<>> /\ ctrl = FALSE /\ ext = FALSE
    /\ poll = Idle /\ bytes = 0
    /\ pc = [p \in Procs |-> "user"] /\ wait = [p \in Procs |-> NoOne]
    /\ killed = {} /\ exiting = NoOne
    /\ granted = {} /\ raced = FALSE /\ unsaved = FALSE

KeyboardFree == poll.pc = "idle"

ThreadsFree == exiting = NoOne

To(p, next) == pc' = [pc EXCEPT ![p] = next]

\* A system call of process p begins: syscall_dispatch turns a killed
\* process away.
Calls(p) == pc[p] = "user" /\ p \notin killed

Acquiring == {"backup", "map", "own", "acq_flush"}

Releasing == {"rel_flush", "rel_restore"}

-----------------------------------------------------------------------------
(* SYS_FB_ACQUIRE and SYS_FB_RELEASE.                                      *)

\* write_info: the caller learns that it owns the framebuffer, unless the
\* address it gave is bad.
WriteInfo(p) == granted' = granted \cup {p} \/ (p \in Careless /\ granted' = granted)

\* acquire: the owner itself is told again.
FbAcquire(p) ==
    /\ Calls(p) /\ p \in Graphical
    /\ \/ /\ owner = NoOne /\ To(p, "backup")
          /\ raced' = (raced \/ \E q \in Procs \ {p} : pc[q] \in Acquiring \cup Releasing)
          /\ granted' = granted
       \/ owner = p /\ WriteInfo(p) /\ UNCHANGED <<pc, raced>>
    /\ UNCHANGED <<owner, back, live, screen, unsaved, kbd, wait, killed, exiting>>

AcquireBackup(p) ==
    /\ pc[p] = "backup" /\ To(p, "map")
    /\ \/ live < MaxLive /\ back' = screen /\ live' = live + 1 /\ unsaved' = unsaved
       \/ unsaved' = TRUE /\ UNCHANGED <<back, live>>
    /\ UNCHANGED <<owner, screen, granted, raced, kbd, wait, killed, exiting>>

ReleaseBackup ==
    /\ back' = "none"
    /\ live' = IF back = "none" THEN live ELSE live - 1

AcquireMapLeaking(p) ==
    /\ pc[p] = "map"
    /\ \/ To(p, "own") /\ screen' = "black" /\ UNCHANGED <<back, live>>
       \/ To(p, "user") /\ UNCHANGED <<back, live, screen>>
    /\ UNCHANGED <<owner, granted, raced, unsaved, kbd, wait, killed, exiting>>

\* map_range: a failure undoes the back buffer, success clears the screen.
AcquireMap(p) ==
    /\ pc[p] = "map"
    /\ \/ To(p, "own") /\ screen' = "black" /\ UNCHANGED <<back, live>>
       \/ To(p, "user") /\ ReleaseBackup /\ screen' = screen
    /\ UNCHANGED <<owner, granted, raced, unsaved, kbd, wait, killed, exiting>>

AcquireOwnUnflushed(p) ==
    /\ pc[p] = "own" /\ To(p, "user")
    /\ owner' = p /\ granted' = granted \cup {p}
    /\ UNCHANGED <<back, live, screen, raced, unsaved, kbd, wait, killed, exiting>>

AcquireOwn(p) ==
    /\ pc[p] = "own" /\ To(p, "acq_flush")
    /\ owner' = p
    /\ UNCHANGED <<back, live, screen, granted, raced, unsaved, kbd, wait, killed, exiting>>

\* keyboard::flush
Flush ==
    /\ KeyboardFree
    /\ buf' = <<>> /\ ebuf' = <<>>
    /\ UNCHANGED <<ctrl, ext, poll, bytes>>

AcquireFlush(p) ==
    /\ pc[p] = "acq_flush" /\ To(p, "user")
    /\ Flush /\ WriteInfo(p)
    /\ UNCHANGED <<owner, back, live, screen, raced, unsaved, wait, killed, exiting>>

FbRelease(p) ==
    /\ Calls(p) /\ owner = p
    /\ owner' = NoOne /\ granted' = granted \ {p}
    /\ To(p, "rel_flush")
    /\ UNCHANGED <<back, live, screen, raced, unsaved, kbd, wait, killed, exiting>>

ReleaseFlush(p) ==
    /\ pc[p] = "rel_flush" /\ To(p, "rel_restore")
    /\ Flush
    /\ UNCHANGED <<fb, wait, killed, exiting>>

\* remove_process and wakeup_pid_waiters, at the end of exit_current.
RemoveProcess(p) ==
    LET woken == {q \in Procs : pc[q] = "waiting" /\ wait[q] = p}
    IN  /\ pc' = [q \in Procs |-> IF q = p THEN "dead"
                                  ELSE IF q \in woken THEN "user" ELSE pc[q]]
        /\ wait' = [q \in Procs |-> IF q \in woken \cup {p} THEN NoOne ELSE wait[q]]
        /\ exiting' = NoOne /\ killed' = killed \ {p}

\* The saved pixels come back; an exiting process goes on to its end.
ReleaseRestore(p) ==
    /\ pc[p] = "rel_restore"
    /\ screen' = IF back = "none" THEN screen ELSE back
    /\ ReleaseBackup
    /\ IF exiting = p THEN RemoveProcess(p)
       ELSE To(p, "user") /\ UNCHANGED <<wait, killed, exiting>>
    /\ UNCHANGED <<owner, granted, raced, unsaved, kbd>>

\* exit_current (SYS_EXIT, a fault, a pending kill): all of it under
\* THREADS_LOCK, fb_owner::release included.
ExitCurrent(p) ==
    /\ pc[p] = "user" /\ ThreadsFree
    /\ granted' = granted \ {p}
    /\ IF owner = p
       THEN /\ owner' = NoOne /\ exiting' = p /\ To(p, "rel_flush")
            /\ UNCHANGED <<wait, killed>>
       ELSE owner' = owner /\ RemoveProcess(p)
    /\ UNCHANGED <<back, live, screen, raced, unsaved, kbd>>

\* A graphical program draws while it believes that it owns the screen.
Draw(p) ==
    /\ pc[p] = "user" /\ p \in granted
    /\ screen' = "gui"
    /\ UNCHANGED <<owner, back, live, granted, raced, unsaved, kbd, tasks>>

\* SYS_CONSOLE_WRITE and the cursor calls: the decision to paint ...
ConsoleWrite(p) ==
    /\ Calls(p) /\ p \in Text /\ owner \in {NoOne, p}
    /\ To(p, "paint")
    /\ UNCHANGED <<fb, kbd, wait, killed, exiting>>

\* ... and the painting, which does not look at OWNER again.
ScreenPrint(p) ==
    /\ pc[p] = "paint" /\ To(p, "user")
    /\ screen' = IF screen = "text" THEN "text" ELSE "mixed"
    /\ UNCHANGED <<owner, back, live, granted, raced, unsaved, kbd, wait, killed, exiting>>

-----------------------------------------------------------------------------
(* Console input.                                                          *)

KbdLockedOut(p) == owner \notin {NoOne, p}

SysRead(p) ==
    /\ Calls(p) /\ p \in Text
    /\ To(p, IF KbdLockedOut(p) THEN "rd_target" ELSE "rd_key")
    /\ UNCHANGED <<fb, kbd, wait, killed, exiting>>

\* get_raw of a blocking read
ReadKey(p) ==
    /\ pc[p] = "rd_key" /\ KeyboardFree
    /\ IF buf = <<>> THEN To(p, "rd_target") /\ buf' = buf
       ELSE To(p, "user") /\ buf' = Tail(buf)
    /\ UNCHANGED <<fb, ebuf, ctrl, ext, poll, bytes, wait, killed, exiting>>

SetWaitTarget(p) ==
    /\ pc[p] = "rd_target" /\ ThreadsFree
    /\ wait' = [wait EXCEPT ![p] = Keyboard]
    /\ To(p, "rd_sleep")
    /\ UNCHANGED <<fb, kbd, killed, exiting>>

SetSleeping(p) ==
    /\ pc[p] = "rd_sleep" /\ ThreadsFree
    /\ To(p, "asleep")
    /\ UNCHANGED <<fb, kbd, wait, killed, exiting>>

\* SYS_TRY_READ and SYS_KEYBOARD_POLL: the lock-out test, then the ring.
SysTryRead(p) ==
    /\ Calls(p) /\ ~KbdLockedOut(p)
    /\ \/ p \in Text /\ To(p, "try_key")
       \/ p \in Graphical /\ To(p, "try_event")
    /\ UNCHANGED <<fb, kbd, wait, killed, exiting>>

TryKey(p) ==
    /\ pc[p] = "try_key" /\ KeyboardFree
    /\ buf' = IF buf = <<>> THEN buf ELSE Tail(buf)
    /\ To(p, "user")
    /\ UNCHANGED <<fb, ebuf, ctrl, ext, poll, bytes, wait, killed, exiting>>

TryEvent(p) ==
    /\ pc[p] = "try_event" /\ KeyboardFree
    /\ ebuf' = IF ebuf = <<>> THEN ebuf ELSE Tail(ebuf)
    /\ To(p, "user")
    /\ UNCHANGED <<fb, buf, ctrl, ext, poll, bytes, wait, killed, exiting>>

\* SYS_WAIT of the shell on the program that it runs in the foreground.
SysWait(p, q) ==
    /\ Calls(p) /\ p \in Text /\ ThreadsFree
    /\ p # q /\ pc[q] # "dead" /\ wait[q] # p
    /\ wait' = [wait EXCEPT ![p] = q]
    /\ To(p, "waiting")
    /\ UNCHANGED <<fb, kbd, killed, exiting>>

-----------------------------------------------------------------------------
(* The keyboard interrupt: poll, under LOCK.                               *)

PollTo(next) == poll' = [poll EXCEPT !.pc = next]

PollNext(next) == poll' = [Idle EXCEPT !.pc = next]

PollStart ==
    /\ poll.pc = "idle" /\ bytes < MaxBytes
    /\ PollNext("byte")
    /\ UNCHANGED <<fb, tasks, buf, ebuf, ctrl, ext, bytes>>

\* The character a pressed key puts into the text stream, "none" for a
\* modifier, an unknown key or a control combination without a character.
Translated(base) ==
    CASE base = "arrow" /\ ext -> "arrow"
      [] base = "arrow" /\ ~ext /\ ~ctrl -> "4"
      [] base = "c" /\ ~ext -> IF ctrl THEN "ctrl+c" ELSE "c"
      [] OTHER -> "none"

\* One byte: the E0 prefix, or a key that is pressed or released.  Every key
\* known to the tables also makes an event.
PollByte(base, release) ==
    /\ poll.pc = "byte" /\ bytes < MaxBytes
    /\ bytes' = bytes + 1
    /\ ext' = (base = "E0")
    /\ ctrl' = IF base = "ctrl" THEN ~release ELSE ctrl
    /\ LET ch == Translated(base)
           reported == \/ base = "ctrl" \/ ch # "none"
                       \/ release /\ base \in {"c", "arrow"} /\ ~(ext /\ base = "c")
       IN  CASE ~reported -> PollNext("byte")
             [] reported /\ (release \/ base = "ctrl") -> PollNext("event")
             [] OTHER -> poll' = [Idle EXCEPT !.pc = "push", !.ch = ch]
    /\ UNCHANGED <<fb, tasks, buf, ebuf>>

\* push_byte of Ctrl+C: the target is the owner if it catches SIGINT ...
PushCtrlC ==
    /\ poll.pc = "push" /\ poll.ch = "ctrl+c"
    /\ poll' = [poll EXCEPT !.pc = IF owner = NoOne THEN "foreground" ELSE "catches",
                            !.target = owner]
    /\ UNCHANGED <<fb, tasks, buf, ebuf, ctrl, ext, bytes>>

SigintCatches ==
    /\ poll.pc = "catches" /\ ThreadsFree
    /\ PollTo(IF poll.target \in Catching /\ pc[poll.target] # "dead"
              THEN "signal" ELSE "focus")
    /\ UNCHANGED <<fb, tasks, buf, ebuf, ctrl, ext, bytes>>

\* ... or, on the text console, a process that is waited for and waits for none.
Foreground ==
    {p \in Procs : /\ pc[p] # "dead" /\ wait[p] \notin Procs
                   /\ \E q \in Procs : wait[q] = p}

ForegroundPid ==
    /\ poll.pc = "foreground" /\ ThreadsFree
    /\ \/ /\ Foreground = {} /\ PollTo("focus")
       \/ \E p \in Foreground : poll' = [poll EXCEPT !.pc = "signal", !.target = p]
    /\ UNCHANGED <<fb, tasks, buf, ebuf, ctrl, ext, bytes>>

Asleep(p) == pc[p] \in {"asleep", "waiting"}

\* send_sigint: a process that catches is woken, any other is killed; kill_pid
\* wakes the thread and leaves its wait target.
SendSigint ==
    /\ poll.pc = "signal" /\ ThreadsFree
    /\ LET p == poll.target
       IN  /\ pc' = IF Asleep(p) THEN [pc EXCEPT ![p] = "user"] ELSE pc
           /\ killed' = IF p \in Catching \/ pc[p] = "dead" THEN killed ELSE killed \cup {p}
           /\ wait' = IF p \in Catching /\ Asleep(p) THEN [wait EXCEPT ![p] = NoOne] ELSE wait
    /\ PollNext("event")
    /\ UNCHANGED <<fb, exiting, buf, ebuf, ctrl, ext, bytes>>

\* Whom the key is for.
PushFocus ==
    /\ poll.pc = "focus" \/ (poll.pc = "push" /\ poll.ch # "ctrl+c")
    /\ poll' = [poll EXCEPT !.pc = "deliver", !.target = owner]
    /\ UNCHANGED <<fb, tasks, buf, ebuf, ctrl, ext, bytes>>

\* buffer_byte and push_event: a full ring drops the key.
Buffered(ring, key) == IF Len(ring) < BufSize - 1 THEN Append(ring, key) ELSE ring

KeyWaiters ==
    {p \in Procs : pc[p] = "asleep" /\ wait[p] = Keyboard /\ poll.target \in {NoOne, p}}

PushDeliverWaiting ==
    /\ poll.pc = "deliver" /\ ThreadsFree
    /\ \/ /\ KeyWaiters = {} /\ Len(buf) < BufSize - 1
          /\ buf' = Append(buf, poll.target) /\ UNCHANGED tasks
       \/ \E p \in KeyWaiters :
            To(p, "user") /\ wait' = [wait EXCEPT ![p] = NoOne] /\ UNCHANGED <<buf, killed, exiting>>
    /\ PollNext("event")
    /\ UNCHANGED <<fb, ebuf, ctrl, ext, bytes>>

\* wakeup_key_waiter_for_pid or wakeup_key_waiters, else buffer_byte.
PushDeliver ==
    /\ poll.pc = "deliver" /\ ThreadsFree
    /\ \/ /\ KeyWaiters = {}
          /\ buf' = Buffered(buf, poll.target) /\ UNCHANGED tasks
       \/ \E p \in KeyWaiters :
            To(p, "user") /\ wait' = [wait EXCEPT ![p] = NoOne] /\ UNCHANGED <<buf, killed, exiting>>
    /\ PollNext("event")
    /\ UNCHANGED <<fb, ebuf, ctrl, ext, bytes>>

\* emit_key, push_event: only while somebody owns the screen.
PushEvent ==
    /\ poll.pc = "event"
    /\ ebuf' = IF owner = NoOne THEN ebuf ELSE Buffered(ebuf, owner)
    /\ PollNext("byte")
    /\ UNCHANGED <<fb, tasks, buf, ctrl, ext, bytes>>

PollEnd ==
    /\ poll.pc = "byte"
    /\ poll' = Idle
    /\ UNCHANGED <<fb, tasks, buf, ebuf, ctrl, ext, bytes>>

-----------------------------------------------------------------------------
Kernel(p) ==
    \/ AcquireBackup(p) \/ AcquireMap(p) \/ AcquireOwn(p) \/ AcquireFlush(p)
    \/ ReleaseFlush(p) \/ ReleaseRestore(p) \/ ScreenPrint(p)
    \/ ReadKey(p) \/ SetWaitTarget(p) \/ SetSleeping(p) \/ TryKey(p) \/ TryEvent(p)

PollStep ==
    \/ PushCtrlC \/ SigintCatches \/ ForegroundPid \/ SendSigint
    \/ PushFocus \/ PushDeliver \/ PushEvent \/ PollEnd

Next ==
    \/ \E p \in Procs : FbAcquire(p)
    \/ \E p \in Procs : FbRelease(p)
    \/ \E p \in Procs : ExitCurrent(p)
    \/ \E p \in Procs : Draw(p)
    \/ \E p \in Procs : ConsoleWrite(p)
    \/ \E p \in Procs : SysRead(p)
    \/ \E p \in Procs : SysTryRead(p)
    \/ \E p, q \in Procs : SysWait(p, q)
    \/ \E p \in Procs : Kernel(p)
    \/ PollStart
    \/ \E base \in {"E0", "ctrl", "c", "arrow"}, release \in BOOLEAN : PollByte(base, release)
    \/ PollStep

Spec == Init /\ [][Next]_vars

\* A system call and the interrupt handler run with interrupts off until they
\* are done; a killed process reaches its exit at the next timer tick.
Fairness ==
    /\ WF_vars(PollStep)
    /\ \A p \in Procs : WF_vars(Kernel(p)) /\ WF_vars(p \in killed /\ ExitCurrent(p))

FairSpec == Spec /\ Fairness

-----------------------------------------------------------------------------
(* Properties.                                                             *)

\* The values of the variables; a ring never holds BUF_SIZE keys, which
\* buffer_byte could not tell from none.
TypeOK ==
    /\ owner \in Procs \cup {NoOne} /\ exiting \in Procs \cup {NoOne}
    /\ screen \in {"text", "black", "gui", "mixed"}
    /\ back \in {"none", "text", "black", "gui", "mixed"} /\ live \in Nat
    /\ \A ring \in {buf, ebuf} :
          Len(ring) < BufSize /\ ToSet(ring) \subseteq Procs \cup {NoOne}
    /\ {ctrl, ext, raced, unsaved} \subseteq BOOLEAN
    /\ poll.target \in Procs \cup {NoOne}
    /\ wait \in [Procs -> Procs \cup {NoOne, Keyboard}]
    /\ killed \subseteq Procs /\ granted \subseteq Procs
    /\ bytes \in 0..MaxBytes

\* "Keys typed under one focus never resurface under another"
\* (keyboard.rs, push_byte): whatever acquire, release, exit and the
\* interrupt do at the same time, every key and event in the rings was typed
\* for the present owner, unless a flush that will discard it is on its way.
FocusedRings ==
    (\A p \in Procs : pc[p] \notin {"acq_flush", "rel_flush"})
        => ToSet(buf) \cup ToSet(ebuf) \subseteq {owner}

Quiet == \A p \in Procs : pc[p] \notin Acquiring \cup Releasing

\* fb_owner::release gives the text screen back: with no owner and no
\* acquire or release in progress the screen shows text, whichever way the
\* last owner ended and whoever painted meanwhile, unless an acquire
\* overlapped another acquire or a release, or had no memory to save into.
ScreenRestored ==
    (Quiet /\ owner = NoOne /\ ~raced /\ ~unsaved) => screen = "text"

\* The back buffer is neither leaked nor kept: BACK_PTR is the only one
\* allocated, and there is none without an owner, through failing maps, exits
\* and kills, unless an acquire overlapped another acquire or a release.
BackupHeld ==
    ~raced => /\ live = IF back = "none" THEN 0 ELSE 1
              /\ (Quiet /\ owner = NoOne) => live = 0

\* The exit of the screen's owner waits for LOCK under THREADS_LOCK while
\* poll waits for THREADS_LOCK under LOCK.
Crossed ==
    /\ exiting # NoOne /\ pc[exiting] = "rel_flush"
    /\ poll.pc \in {"catches", "foreground", "signal", "deliver"}

\* The keyboard interrupt always returns, unless it has crossed with the
\* exit of the process that owns the screen.
PollEndsUnlessCrossed ==
    []<>(poll.pc = "idle") \/ <>[]Crossed

\* The rings stay within their capacity; the text screen comes back, and the back
\* buffer is neither leaked nor kept, unless an acquire overlapped another acquire
\* or a release.
ConsoleInv ==
    /\ TypeOK
    /\ BackupHeld
    /\ ScreenRestored

=============================================================================
