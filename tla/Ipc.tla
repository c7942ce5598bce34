-------------------------------- MODULE Ipc --------------------------------
(***************************************************************************)
(* Named message channels: ipc.rs, the IPC system calls of syscall/ipc.rs, *)
(* and the /dev/audio frontend of drivers/audio.rs, which sends to the     *)
(* audio driver with backpressure.                                         *)
(*                                                                         *)
(* One action is one section under THREADS_LOCK or one atomic access to    *)
(* ONLINE.  A message is its position among the messages accepted under    *)
(* the channel's name.  The calls ask only whether an id is in use: a      *)
(* process may send to, receive from and close a channel it never opened.  *)
(***************************************************************************)
EXTENDS Integers, FiniteSets, Sequences, FiniteSetsExt

CONSTANTS
    Procs,        \* single-threaded processes
    Names,        \* channel names, the audio channel's among them
    Audio,        \* b"module_audio"
    MaxChannels,  \* MAX_CHANNELS, scaled down
    MaxQueue,     \* MAX_QUEUE, scaled down
    MaxMsgs,      \* bound on messages accepted by all channels
    MaxWaiters,   \* bound on the receive registrations of all channels
    StrayCost     \* how many messages of that bound an id in strays uses up

ASSUME IpcAssumption ==
    /\ IsFiniteSet(Procs) /\ Audio \in Names
    /\ MaxChannels \in Nat \ {0} /\ MaxQueue \in Nat \ {0}
    /\ MaxMsgs \in Nat /\ MaxWaiters \in Nat /\ StrayCost \in Nat

Ids == 1..MaxChannels
Msgs == 1..MaxMsgs

\* Channel, and the hole a closed one leaves.
Channel(n) == [live |-> TRUE, name |-> n, queue |-> <<>>, recv_waiters |-> <<>>,
               send_waiters |-> <<>>, ref_count |-> 1]
None == [Channel(Audio) EXCEPT !.live = FALSE, !.ref_count = 0]

VARIABLES
    channels,   \* CHANNELS
    state,      \* what each process is doing: "run"; asleep in "recv" or "send";
                \* "write", "wait": in an audio call, past its ONLINE check;
                \* "limbo": off its CPU although never put to sleep; "dead"
    target,     \* the channel of a sleeper's WaitTarget::Ipc
    held,       \* the ids each process has opened and not closed
    online,     \* ONLINE
    stopping,   \* driver_stopped is between its store and abort_senders
    accepted,   \* how many messages were accepted under each name
    taken,      \* those a receiver took or abort_senders discarded
    owed,       \* the processes a send on each id woke that did not receive since
    missed,     \* the ids with a message whose wake-up no sleeper got
    strays      \* the ids that a process closed without having opened them, or
                \* received from when nobody had them open

chanVars == <<channels, accepted, taken>>
audioVars == <<online, stopping>>
handleVars == <<held, strays>>
vars == <<channels, state, target, held, online, stopping, accepted, taken, owed, missed, strays>>

Asleep == {p \in Procs : state[p] \in {"recv", "send"}}
Queue(c) == channels[c].queue
Registered == MapThenSumSet(LAMBDA c : Len(channels[c].recv_waiters), Ids)
Accepted == MapThenSumSet(LAMBDA n : accepted[n], Names)
Pending(n) == UNION {Range(Queue(c)) : c \in {i \in Ids : channels[i].live /\ channels[i].name = n}}

\* audio::init has opened the audio channel; the kernel keeps its reference.
Init ==
    /\ channels = [c \in Ids |-> IF c = 1 THEN Channel(Audio) ELSE None]
    /\ state = [p \in Procs |-> "run"]
    /\ target = [p \in Procs |-> 0]
    /\ held = [p \in Procs |-> {}]
    /\ online = FALSE
    /\ stopping = FALSE
    /\ accepted = [n \in Names |-> 0]
    /\ taken = [n \in Names |-> {}]
    /\ owed = [c \in Ids |-> {}]
    /\ missed = {}
    /\ strays = {}

-----------------------------------------------------------------------------
(* Sleeping and waking                                                     *)

\* wakeup_ipc_waiter on each process of P: only a sleeper on some channel
\* wakes, and its system call returns 0.
WakeupIpcWaiters(P) ==
    /\ state' = [p \in Procs |-> IF p \in P \cap Asleep THEN "run" ELSE state[p]]
    /\ target' = [p \in Procs |-> IF p \in P \cap Asleep THEN 0 ELSE target[p]]

\* set_wait_target and set_sleeping.
Sleep(p, how, c) ==
    /\ state' = [state EXCEPT ![p] = how]
    /\ target' = [target EXCEPT ![p] = c]

FirstOf(s) == {s[i] : i \in {1} \cap DOMAIN s}
RestOf(s) == IF s = <<>> THEN s ELSE Tail(s)

-----------------------------------------------------------------------------
(* open and close                                                          *)

HolesUnused == {c \in Ids : ~channels[c].live}
Named(n) == {c \in Ids : channels[c].live /\ channels[c].name = n}

OpenPrivate(p, n) ==
    /\ state[p] = "run"
    /\ held[p] \cap Named(n) = {}
    /\ HolesUnused # {}
    /\ channels' = [channels EXCEPT ![Min(HolesUnused)] = Channel(n)]
    /\ held' = [held EXCEPT ![p] = @ \cup {Min(HolesUnused)}]
    /\ UNCHANGED <<state, target, audioVars, accepted, taken, owed, missed, strays>>

\* open: attach to the channel of that name, else take the first hole (or
\* grow the table), else fail.  Bound: one reference per process and name.
Open(p, n) ==
    /\ state[p] = "run"
    /\ held[p] \cap Named(n) = {}
    /\ \/ \E c \in Named(n) :
             /\ channels' = [channels EXCEPT ![c].ref_count = @ + 1]
             /\ held' = [held EXCEPT ![p] = @ \cup {c}]
       \/ /\ Named(n) = {}
          /\ HolesUnused # {}
          /\ channels' = [channels EXCEPT ![Min(HolesUnused)] = Channel(n)]
          /\ held' = [held EXCEPT ![p] = @ \cup {Min(HolesUnused)}]
       \/ /\ Named(n) = {}
          /\ HolesUnused = {}
          /\ UNCHANGED <<channels, held>>
    /\ UNCHANGED <<state, target, audioVars, accepted, taken, owed, missed, strays>>

\* What close leaves in the slot: the channel outlives its last reference
\* while messages are queued.
Closed(c) ==
    IF channels[c].ref_count > 1 THEN [channels[c] EXCEPT !.ref_count = @ - 1]
    ELSE IF Queue(c) # <<>> THEN [channels[c] EXCEPT !.ref_count = 0]
    ELSE None

\* A call of p on c that p has not opened, or has closed again.
StrayCall(p, c, how) ==
    /\ strays' = strays \cup {<<how, i>> : i \in {c} \ held[p]}
    /\ Accepted + StrayCost * Cardinality(strays') <= MaxMsgs

\* close takes any id in use, from anyone, any number of times.
Close(p, c) ==
    /\ state[p] = "run"
    /\ channels[c].live
    /\ channels' = [channels EXCEPT ![c] = Closed(c)]
    /\ held' = [held EXCEPT ![p] = @ \ {c}]
    /\ StrayCall(p, c, "close")
    /\ owed' = [owed EXCEPT ![c] = IF Closed(c).live THEN @ ELSE {}]
    /\ missed' = missed \ {i \in {c} : ~Closed(c).live}
    /\ UNCHANGED <<state, target, audioVars, accepted, taken>>

-----------------------------------------------------------------------------
(* Sending                                                                 *)

\* push_back on the queue q, and wake the first receive waiter, if any.  The
\* wake-up reaches a receiver of this channel, or it is missed.
Enqueue(c, q) ==
    LET n == channels[c].name
        W == FirstOf(channels[c].recv_waiters)
        R == {p \in W : state[p] = "recv" /\ target[p] = c}
    IN  /\ Accepted + StrayCost * Cardinality(strays) < MaxMsgs /\ accepted[n] < MaxMsgs
        /\ accepted' = [accepted EXCEPT ![n] = @ + 1]
        /\ channels' = [channels EXCEPT ![c].queue = Append(q, accepted[n] + 1),
                                        ![c].recv_waiters = RestOf(@)]
        /\ owed' = [owed EXCEPT ![c] = @ \cup R]
        /\ missed' = missed \cup {i \in {c} : R # W}

\* while len >= MAX_QUEUE, pop_front.
RoomMade(q) == IF Len(q) >= MaxQueue THEN Tail(q) ELSE q

\* SYS_IPC_SEND: try_send never blocks, it drops the oldest message.
Send(p, c) ==
    /\ state[p] = "run"
    /\ channels[c].live
    /\ Enqueue(c, RoomMade(Queue(c)))
    /\ WakeupIpcWaiters(FirstOf(channels[c].recv_waiters))
    /\ UNCHANGED <<handleVars, audioVars, taken>>

-----------------------------------------------------------------------------
(* Receiving                                                               *)

\* pop_front, and wake the first send waiter, if any.
Dequeue(p, c) ==
    LET m == Head(Queue(c)) IN
    /\ Queue(c) # <<>>
    /\ channels' = [channels EXCEPT ![c].queue = Tail(@), ![c].send_waiters = RestOf(@)]
    /\ taken' = [taken EXCEPT ![channels[c].name] = @ \cup {m}]
    /\ owed' = [owed EXCEPT ![c] = IF Len(Queue(c)) = 1 THEN {} ELSE @ \ {p}]
    /\ missed' = missed \ {i \in {c} : Len(Queue(c)) = 1}
    /\ WakeupIpcWaiters(FirstOf(channels[c].send_waiters))
    /\ IF channels[c].ref_count = 0 THEN StrayCall(p, c, "recv") ELSE UNCHANGED strays
    /\ UNCHANGED accepted

\* try_recv on an empty queue: register as a waiter and go to sleep.
RecvBlock(p, c) ==
    /\ Queue(c) = <<>>
    /\ Registered < MaxWaiters
    /\ channels' = [channels EXCEPT ![c].recv_waiters = Append(@, p)]
    /\ Sleep(p, "recv", c)
    /\ owed' = [owed EXCEPT ![c] = @ \ {p}]
    /\ UNCHANGED <<accepted, taken, missed, strays>>

\* SYS_IPC_RECV.  With a message there SYS_IPC_TRY_RECV does the same, and
\* without one nothing.
Recv(p, c) ==
    /\ state[p] = "run"
    /\ channels[c].live
    /\ Dequeue(p, c) \/ RecvBlock(p, c)
    /\ UNCHANGED <<held, audioVars>>

-----------------------------------------------------------------------------
(* The audio frontend.  CHANNEL is id 1, whatever the slot holds.          *)

\* audio_write and audio_ioctl read ONLINE before they take the lock.
AudioCheck(p) ==
    /\ state[p] = "run"
    /\ online
    /\ \E call \in {"write", "wait"} : state' = [state EXCEPT ![p] = call]
    /\ UNCHANGED <<channels, target, held, audioVars, accepted, taken, owed, missed, strays>>

\* try_send_reliable: a full queue refuses the message, a closed channel fails.
AudioSend(p) ==
    /\ state[p] = "write"
    /\ LET W == FirstOf(channels[1].recv_waiters)
           st == [state EXCEPT ![p] = "run"]
       IN  \/ /\ channels[1].live /\ Len(Queue(1)) < MaxQueue
              /\ Enqueue(1, Queue(1))
              /\ state' = [q \in Procs |-> IF q \in W \cap Asleep THEN "run" ELSE st[q]]
              /\ target' = [q \in Procs |-> IF q \in W \cap Asleep THEN 0 ELSE target[q]]
           \/ /\ ~channels[1].live \/ Len(Queue(1)) >= MaxQueue
              /\ state' = st
              /\ UNCHANGED <<target, channels, accepted, owed, missed>>
    /\ UNCHANGED <<handleVars, audioVars, taken>>

\* wait_send_space, then syscall_block_fn when it returned true.  A caller
\* that is registered already is not put to sleep: it leaves its CPU still
\* marked Running, and nothing makes a Running thread Ready.
AudioWait(p) ==
    LET ws == channels[1].send_waiters IN
    /\ state[p] = "wait"
    /\ \/ /\ Len(Queue(1)) < MaxQueue
          /\ state' = [state EXCEPT ![p] = "run"]
          /\ UNCHANGED <<target, channels>>
       \/ /\ Len(Queue(1)) >= MaxQueue
          /\ p \notin Range(ws)
          /\ channels' = [channels EXCEPT ![1].send_waiters = Append(ws, p)]
          /\ Sleep(p, "send", 1)
       \/ /\ Len(Queue(1)) >= MaxQueue
          /\ p \in Range(ws)
          /\ state' = [state EXCEPT ![p] = "limbo"]
          /\ UNCHANGED <<target, channels>>
    /\ UNCHANGED <<handleVars, audioVars, accepted, taken, owed, missed>>

\* driver_started, when the audio driver claims its interrupt.
DriverStarted ==
    /\ ~online /\ ~stopping
    /\ online' = TRUE
    /\ UNCHANGED <<channels, state, target, handleVars, stopping, accepted, taken, owed, missed>>

\* driver_stopped, when it releases the interrupt or exits: first the store,
DriverStopped ==
    /\ online
    /\ online' = FALSE
    /\ stopping' = TRUE
    /\ UNCHANGED <<channels, state, target, handleVars, accepted, taken, owed, missed>>

\* The name under which the messages of slot 1 were accepted.
Discarded == [taken EXCEPT ![channels[1].name] = @ \cup Range(Queue(1))]
Emptied == [channels EXCEPT ![1].queue = <<>>, ![1].send_waiters = <<>>]

AbortQuietly ==
    /\ stopping
    /\ stopping' = FALSE
    /\ taken' = Discarded /\ channels' = Emptied
    /\ owed' = [owed EXCEPT ![1] = {}]
    /\ missed' = missed \ {1}
    /\ UNCHANGED <<state, target, handleVars, online, accepted>>

\* then abort_senders: discard the queue, wake every send waiter.  A hole has
\* an empty queue and no waiters.
AbortSenders ==
    /\ stopping
    /\ stopping' = FALSE
    /\ taken' = Discarded /\ channels' = Emptied
    /\ WakeupIpcWaiters(Range(channels[1].send_waiters))
    /\ owed' = [owed EXCEPT ![1] = {}]
    /\ missed' = missed \ {1}
    /\ UNCHANGED <<handleVars, online, accepted>>

-----------------------------------------------------------------------------
(* Signals and death                                                       *)

\* send_sigint, send_sigterm or kill_pid: a sleeper is made Ready, and its
\* pid stays in the waiter list.
Interrupt(p) ==
    /\ p \in Asleep
    /\ state' = [state EXCEPT ![p] = "run"]
    /\ target' = [target EXCEPT ![p] = 0]
    /\ UNCHANGED <<channels, handleVars, audioVars, accepted, taken, owed, missed>>

\* exit: no reference is given back, no registration removed.
Exit(p) ==
    /\ state[p] = "run"
    /\ state' = [state EXCEPT ![p] = "dead"]
    /\ UNCHANGED <<channels, target, handleVars, audioVars, accepted, taken, owed, missed>>

Next ==
    \/ \E p \in Procs :
          \/ \E n \in Names : Open(p, n)
          \/ \E c \in Ids : Close(p, c) \/ Send(p, c) \/ Recv(p, c)
          \/ AudioCheck(p) \/ AudioSend(p) \/ AudioWait(p)
          \/ Interrupt(p) \/ Exit(p)
    \/ DriverStarted \/ DriverStopped \/ AbortSenders

Spec == Init /\ [][Next]_vars

-----------------------------------------------------------------------------
(* Properties                                                              *)

TypeOK ==
    /\ channels \in [Ids -> [live : BOOLEAN, name : Names, queue : Seq(Msgs),
                            recv_waiters : Seq(Procs), send_waiters : Seq(Procs),
                            ref_count : Nat]]
    /\ \A c \in Ids : Len(Queue(c)) <= MaxQueue
    /\ state \in [Procs -> {"run", "recv", "send", "write", "wait", "limbo", "dead"}]
    /\ target \in [Procs -> {0} \cup Ids]
    /\ held \in [Procs -> SUBSET Ids]
    /\ online \in BOOLEAN /\ stopping \in BOOLEAN
    /\ accepted \in [Names -> 0..MaxMsgs]
    /\ taken \in [Names -> SUBSET Msgs]
    /\ owed \in [Ids -> SUBSET Procs]
    /\ missed \subseteq Ids
    /\ strays \subseteq {"close", "recv"} \X Ids

\* A name has one channel.  An id keeps meaning the channel it was opened as:
\* while somebody holds it the slot is live and ref_count is the number of
\* holders, exited ones included (the kernel holds id 1), unless a process
\* closed the id without having opened it.  A channel nobody holds exists only
\* for its queued messages, unless such a process took them.
HandlesBound ==
    /\ \A c \in Ids : channels[c].live => Named(channels[c].name) = {c}
    /\ \A c \in Ids : <<"close", c>> \notin strays =>
          /\ \A p \in Procs : c \in held[p] => channels[c].live
          /\ channels[c].live =>
                /\ channels[c].ref_count = Cardinality({p \in Procs : c \in held[p]}) + (IF c = 1 THEN 1 ELSE 0)
                /\ channels[c].ref_count > 0 \/ Queue(c) # <<>> \/ <<"recv", c>> \in strays

\* A sleeper whose channel close must not free: it has the channel open, or
\* waits for the audio channel, which the kernel has open.
Entitled(p) ==
    /\ p \in Asleep
    /\ target[p] \in held[p] \cup {1}
    /\ <<"close", target[p]>> \notin strays

\* Every entitled sleeper can still be woken: the channel it sleeps on is live
\* and lists it among the waiters its sleep calls for, whatever was closed,
\* aborted, interrupted or reopened meanwhile.  close frees a channel with its
\* waiter lists, so a receiver without a handle can sleep for ever.
NoForgottenSleeper ==
    \A p \in Procs : Entitled(p) =>
        /\ channels[target[p]].live
        /\ p \in Range(IF state[p] = "recv" THEN channels[target[p]].recv_waiters
                       ELSE channels[target[p]].send_waiters)

\* An entitled receiver sleeps beside a queued message only if the send of one of
\* the queued messages woke another receiver that has yet to call again, or its
\* wake-up went to a registration left behind by an interrupted receive.
WakeAccounted ==
    \A p \in Procs : Entitled(p) /\ state[p] = "recv" /\ Queue(target[p]) # <<>> =>
        owed[target[p]] # {} \/ target[p] \in missed

\* try_send drops the oldest message where src/docs/USER_ABI.md says it blocks.
\* That loses only old messages: of the messages accepted under a name,
\* the newest MAX_QUEUE were each taken by a receiver, discarded by
\* abort_senders, or are still queued, also across a close and a reopen.
\* What is queued is in order and was not taken.
NewestKept ==
    \A n \in Names :
        /\ {m \in 1..accepted[n] : m > accepted[n] - MaxQueue} \subseteq taken[n] \cup Pending(n)
        /\ taken[n] \cap Pending(n) = {}
        /\ \A c \in Named(n) : \A i, j \in DOMAIN Queue(c) : i < j => Queue(c)[i] < Queue(c)[j]

\* No wake-up is lost: whoever sleeps in recv or send on a channel it has open is
\* listed where a send or a receive looks for it, and sleeps beside a message
\* only while the wake-up for it is on its way (recv, send, close, interrupt).
SleepersWoken == NoForgottenSleeper /\ WakeAccounted

\* The channel table: queues within MAX_QUEUE that lose old messages only, and
\* ids, names and reference counts that mean the same to all their holders.
IpcInv ==
    /\ TypeOK
    /\ HandlesBound
    /\ NewestKept

=============================================================================
