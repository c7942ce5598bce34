----------------------------- MODULE TasksSetUp -----------------------------
(***************************************************************************)
(* A process that exec is setting up does not run before it is complete,   *)
(* for any number of CPUs, threads and processes.                          *)
(***************************************************************************)
EXTENDS TasksProofs

\* The sections of sys_exec after the child exists
ExecPlaces == {"exec2", "exec3"}

\* Nobody has a reason to wake a thread of p: it sleeps, waits for nothing, and
\* catches no signal.
Held(p) ==
    /\ catch[p] = {}
    /\ \A t \in threads[p] : /\ state[t] = "Sleeping" /\ waitTarget[t] = NoTarget
                             /\ \A d \in Cpus : currentTid[d] # t

HeldBack(p) == alive[p] /\ ~killPending[p] => Held(p)

\* set_ready on a process reaches no other process's thread.
MainInd ==
    \A p \in Pids : /\ mainTid[p] < nextTid
                    /\ Present(mainTid[p]) => tpid[mainTid[p]] = p

\* What is not created yet waits for nothing and catches nothing.
BlankInd ==
    /\ \A p \in Pids : p >= nextPid => catch[p] = {}
    /\ \A t \in Tids : t >= nextTid => waitTarget[t] = NoTarget

ExecInd ==
    /\ \A c \in Cpus : pc[c] \in ExecPlaces => /\ arg[c] \in Pids /\ arg[c] < nextPid
                                               /\ HeldBack(arg[c])
    /\ \A c, d \in Cpus : c # d /\ pc[c] \in ExecPlaces /\ pc[d] \in ExecPlaces => arg[c] # arg[d]

SetUpInd == MainInd /\ BlankInd /\ ExecInd

\* A step that happens to other processes than p
Elsewhere(p) ==
    /\ threads'[p] = threads[p]
    /\ catch'[p] \in {catch[p], {}}
    /\ \A t \in threads[p] : state'[t] = state[t] /\ waitTarget'[t] = waitTarget[t]
    /\ \A d \in Cpus : currentTid'[d] = currentTid[d] \/ currentTid'[d] \notin threads[p]

(* What happens elsewhere leaves p as it is.                               *)
LEMMA HeldStays ==
    ASSUME NEW p, Held(p), Elsewhere(p)
    PROVE  Held(p)'
<1>1. catch'[p] = {}
  BY DEF Held, Elsewhere
<1>2. ASSUME NEW t \in threads'[p]
      PROVE  /\ state'[t] = "Sleeping" /\ waitTarget'[t] = NoTarget
             /\ \A d \in Cpus : currentTid'[d] # t
  BY Zenon, <1>2 DEF Held, Elsewhere
<1>3. NoTarget' = NoTarget
  BY DEF NoTarget
<1> QED
  BY Zenon, <1>1, <1>2, <1>3 DEF Held

(* Nothing that wakes, runs or signals other threads reaches p's threads.  *)
LEMMA HeldOut ==
    ASSUME TypeOK, TaskInv, MainInd, NEW p \in Pids, Held(p)
    PROVE  /\ threads[p] \subseteq Tids
           /\ \A c \in Cpus : pc[c] \in ThreadPlaces =>
                 CurrentPid(c) # p /\ currentTid[c] \notin threads[p]
           /\ \A P \in SUBSET Pids : p \notin P => MainsOf(P) \cap threads[p] = {}
<1>1. threads[p] \subseteq Tids
  BY DEF TypeOK
<1>2. ASSUME NEW c \in Cpus, pc[c] \in ThreadPlaces
      PROVE  CurrentPid(c) # p /\ currentTid[c] \notin threads[p]
  <2>1. currentTid[c] \in threads[CurrentPid(c)]
    BY Zenon, <1>2, CurrentThread
  <2>2. currentTid[c] \notin threads[p]
    BY Zenon DEF Held
  <2> QED
    BY Zenon, <2>1, <2>2
<1>3. ASSUME NEW P \in SUBSET Pids, p \notin P, NEW t \in threads[p], t \in MainsOf(P) PROVE FALSE
  <2>1. Present(t) /\ tpid[t] = p
    BY Zenon, <1>3 DEF TaskInv, TableInv
  <2>2. PICK q \in P : mainTid[q] = t
    BY Zenon, <1>3 DEF MainsOf
  <2>3. q \in Pids
    BY <1>3, <2>2
  <2> QED
    BY Zenon, <1>3, <2>1, <2>2, <2>3 DEF MainInd
<1> QED
  BY Zenon, <1>1, <1>2, <1>3

(* Nobody waits for an event on behalf of p's threads.                     *)
LEMMA HeldAsleep ==
    ASSUME NEW p \in Pids, Held(p)
    PROVE  /\ \A k, n : k # "None" => SleepersOn(On(k, n)) \cap threads[p] = {}
           /\ \A W \in Expired : W \cap threads[p] = {}
<1>1. \A k, n : On(k, n) = NoTarget => k = "None"
  <2>1. \A k, n : On(k, n).on = k
    BY DEF On
  <2>2. NoTarget.on = "None"
    BY DEF NoTarget
  <2> QED
    BY Zenon, <2>1, <2>2
<1>2. ASSUME NEW k, NEW n, k # "None" PROVE SleepersOn(On(k, n)) \cap threads[p] = {}
  <2>1. \A t \in SleepersOn(On(k, n)) : waitTarget[t] = On(k, n)
    BY Zenon DEF SleepersOn
  <2>2. \A t \in threads[p] : waitTarget[t] = NoTarget
    BY Zenon DEF Held
  <2>3. \A t \in SleepersOn(On(k, n)) : t \notin threads[p]
    BY Zenon, <1>1, <1>2, <2>1, <2>2
  <2> QED
    BY Zenon, <2>3
<1>3. ASSUME NEW W \in Expired PROVE W \cap threads[p] = {}
  <2>1. W \subseteq SleepersOn(On("Timer", 0)) \cup SleepersOn(On("Tick", 0))
    BY DEF Expired
  <2>2. "Timer" # "None" /\ "Tick" # "None"
    OBVIOUS
  <2>3. /\ SleepersOn(On("Timer", 0)) \cap threads[p] = {}
        /\ SleepersOn(On("Tick", 0)) \cap threads[p] = {}
    BY <1>2, <2>2
  <2> QED
    BY Zenon, <2>1, <2>3
<1> QED
  BY Zenon, <1>2, <1>3

(* The scheduler picks none of p's threads.                                *)
LEMMA HeldUnpicked ==
    ASSUME TypeOK, NEW p \in Pids, Held(p), NEW T, T \cap threads[p] = {}, NEW c \in Cpus, NEW current
    PROVE  /\ ScheduleNext(c, current, SetReady(T, state)) \notin threads[p]
           /\ ScheduleNext(c, current, state) \notin threads[p]
<1>1. threads[p] \subseteq Tids
  BY DEF TypeOK
<1>2. \A t \in threads[p] : t # Nobody /\ state[t] = "Sleeping" /\ SetReady(T, state)[t] = "Sleeping"
  BY <1>1, TidNotNobody DEF Held, SetReady
<1>3. ASSUME NEW st, \A t \in threads[p] : t # Nobody /\ st[t] = "Sleeping"
      PROVE  ScheduleNext(c, current, st) \notin threads[p]
  <2> DEFINE n == ScheduleNext(c, current, st)
  <2>1. CASE n = Nobody
    BY Zenon, <1>3, <2>1
  <2>2. CASE n # Nobody
    <3>1. st[n] = "Ready"
      BY <2>2, ScheduleNextReady
    <3> HIDE DEF n
    <3>2. n \notin threads[p]
      BY <1>3, <3>1
    <3> QED
      BY <3>2 DEF n
  <2> QED
    BY Zenon, <2>1, <2>2
<1> QED
  BY Zenon, <1>2, <1>3

(* A step that wakes W and makes T Ready, and moves c, happens elsewhere.  *)
LEMMA WakeElsewhere ==
    ASSUME TypeOK, NEW p \in Pids,
           NEW T, T \cap threads[p] = {}, NEW W, W \cap threads[p] = {},
           NEW c \in Cpus, NEW n, n \notin threads[p],
           UNCHANGED threads, catch'[p] \in {catch[p], {}},
           state' = SetReady(T, state) \/ state' = [SetReady(T, state) EXCEPT ![n] = "Running"],
           waitTarget' = Untargeted(W),
           currentTid' = currentTid \/ currentTid' = [currentTid EXCEPT ![c] = n]
    PROVE  Elsewhere(p)
<1>1. threads[p] \subseteq Tids
  BY DEF TypeOK
<1>2. ASSUME NEW t \in threads[p] PROVE state'[t] = state[t] /\ waitTarget'[t] = waitTarget[t]
  <2>1. t \in Tids /\ t \notin T /\ t \notin W /\ t # n
    BY <1>1
  <2>2. SetReady(T, state)[t] = state[t] /\ DOMAIN SetReady(T, state) = Tids
    BY <2>1 DEF SetReady
  <2>3. state'[t] = state[t]
    BY <2>1, <2>2
  <2>4. waitTarget'[t] = waitTarget[t]
    BY Zenon, <2>1 DEF Untargeted
  <2> QED
    BY <2>3, <2>4
<1>3. \A d \in Cpus : currentTid'[d] = currentTid[d] \/ currentTid'[d] \notin threads[p]
  BY DEF TypeOK
<1> QED
  BY Zenon, <1>2, <1>3 DEF Elsewhere

(* Nobody woken.                                                           *)
LEMMA NobodyMoved ==
    ASSUME TypeOK
    PROVE  state = SetReady({}, state) /\ waitTarget = Untargeted({})
  BY DEF TypeOK, SetReady, Untargeted

-----------------------------------------------------------------------------
(* The timer and the scheduler work elsewhere.                             *)
LEMMA TimerElsewhere ==
    ASSUME TypeOK, TaskInv, MainInd, NEW p \in Pids, Held(p), NEW c \in Cpus, Timer(c)
    PROVE  Elsewhere(p)
<1> USE DEF procVars
<1>1. UNCHANGED threads /\ catch'[p] \in {catch[p], {}}
  BY Zenon DEF Timer, TimerReap, TimerSwitch, TimerIdle
<1>2. Nobody \notin threads[p]
  BY TidNotNobody DEF TypeOK
<1>3. CASE TimerReap(c)
  <2>1. PICK W \in Expired : Wake(W)
    BY Zenon, <1>3 DEF TimerReap
  <2>2. W \cap threads[p] = {} /\ currentTid' = currentTid
    BY Zenon, <1>3, HeldAsleep DEF TimerReap
  <2>3. state' = SetReady(W, state) /\ waitTarget' = Untargeted(W)
    BY Zenon, <2>1 DEF Wake, WakeContexts
  <2> QED
    BY <1>1, <1>2, <2>2, <2>3, WakeElsewhere
<1>4. CASE TimerSwitch(c)
  <2> DEFINE me == currentTid[c]
  <2>1. PICK W \in Expired :
            /\ Resume(c, ScheduleNext(c, me, SetReady(W \cup {me}, state)),
                      SetReady(W \cup {me}, state), Unblocked(W), [Restored(W) EXCEPT ![me] = TRUE])
            /\ waitTarget' = Untargeted(W)
    BY Zenon, <1>4 DEF TimerSwitch
  <2>2. pc[c] \in ThreadPlaces
    BY <1>4 DEF TimerSwitch, ThreadPlaces, Places
  <2>3. W \cap threads[p] = {} /\ me \notin threads[p]
    BY Zenon, <2>2, HeldAsleep, HeldOut
  <2>4. (W \cup {me}) \cap threads[p] = {}
    BY Zenon, <2>3
  <2> DEFINE T == W \cup {me}
             n == ScheduleNext(c, me, SetReady(T, state))
  <2>5. n \notin threads[p]
    BY <2>4, HeldUnpicked
  <2>6. /\ state' = [SetReady(T, state) EXCEPT ![n] = "Running"]
        /\ currentTid' = [currentTid EXCEPT ![c] = n]
    BY Zenon, <2>1 DEF Resume
  <2> HIDE DEF T, n
  <2>7. T \cap threads[p] = {}
    BY <2>4 DEF T
  <2> QED
    BY <1>1, <2>1, <2>3, <2>5, <2>6, <2>7, WakeElsewhere
<1>5. CASE TimerIdle(c)
  <2>1. PICK W \in Expired :
            /\ waitTarget' = Untargeted(W)
            /\ \/ /\ state' = [SetReady(W, state) EXCEPT ![ScheduleNext(c, Nobody, SetReady(W, state))] = "Running"]
                  /\ currentTid' = [currentTid EXCEPT ![c] = ScheduleNext(c, Nobody, SetReady(W, state))]
               \/ state' = SetReady(W, state) /\ currentTid' = currentTid
    BY Zenon, <1>5 DEF TimerIdle, Resume, Wake, WakeContexts
  <2>2. W \cap threads[p] = {}
    BY Zenon, HeldAsleep
  <2> DEFINE n == ScheduleNext(c, Nobody, SetReady(W, state))
  <2>3. n \notin threads[p]
    BY <2>2, HeldUnpicked
  <2> HIDE DEF n
  <2>4. \/ /\ state' = [SetReady(W, state) EXCEPT ![n] = "Running"]
           /\ currentTid' = [currentTid EXCEPT ![c] = n]
        \/ state' = SetReady(W, state) /\ currentTid' = currentTid
    BY Zenon, <2>1 DEF n
  <2> QED
    BY <1>1, <2>1, <2>2, <2>3, <2>4, WakeElsewhere
<1> QED
  BY Zenon, <1>3, <1>4, <1>5 DEF Timer

(* The scheduler picks no thread of a process that is held back, and what  *)
(* it saves or parks is the thread it ran.                                 *)
LEMMA ScheduleElsewhere ==
    ASSUME TypeOK, TaskInv, MainInd, NEW p \in Pids, Held(p), NEW c \in Cpus,
           \/ UserStep(c) \/ EnterNextProcess(c) \/ TimerAfterReap(c)
           \/ ReturnToScheduler(c) \/ CommitBlock(c)
    PROVE  Elsewhere(p)
<1> USE DEF procVars, threadVars
<1>1. UNCHANGED <<threads, waitTarget>> /\ catch'[p] \in {catch[p], {}}
  BY Zenon DEF UserStep, Int80, Fault, EnterNextProcess, TimerAfterReap, ReturnToScheduler, CommitBlock
<1>2. Nobody \notin threads[p]
  BY TidNotNobody DEF TypeOK
<1>3. \E n : /\ n \in {Nobody, ScheduleNext(c, Nobody, state), ScheduleNext(c, arg[c], state)}
             /\ state' = state \/ state' = [state EXCEPT ![n] = "Running"]
             /\ currentTid' = currentTid \/ currentTid' = [currentTid EXCEPT ![c] = n]
  <2>1. CASE UserStep(c) \/ ReturnToScheduler(c) \/ CommitBlock(c)
    BY Zenon, <2>1 DEF UserStep, Int80, Fault, ReturnToScheduler, CommitBlock
  <2>2. CASE EnterNextProcess(c)
    BY Zenon, <2>2 DEF EnterNextProcess, Resume
  <2>3. CASE TimerAfterReap(c)
    BY Zenon, <2>3 DEF TimerAfterReap, Resume
  <2> QED
    BY Zenon, <2>1, <2>2, <2>3
<1>4. PICK n : /\ n \in {Nobody, ScheduleNext(c, Nobody, state), ScheduleNext(c, arg[c], state)}
               /\ state' = state \/ state' = [state EXCEPT ![n] = "Running"]
               /\ currentTid' = currentTid \/ currentTid' = [currentTid EXCEPT ![c] = n]
  BY Zenon, <1>3
<1>5. n \notin threads[p]
  <2>1. {} \cap threads[p] = {}
    OBVIOUS
  <2>2. \A current : ScheduleNext(c, current, state) \notin threads[p]
    BY <2>1, HeldUnpicked
  <2> QED
    BY Zenon, <1>2, <1>4, <2>2
<1>6. {} \cap threads[p] = {}
  OBVIOUS
<1>7. \/ state' = SetReady({}, state)
      \/ state' = [SetReady({}, state) EXCEPT ![n] = "Running"]
  BY Zenon, <1>4, NobodyMoved
<1>8. waitTarget' = Untargeted({})
  BY Zenon, <1>1, NobodyMoved
<1> QED
  BY <1>1, <1>4, <1>5, <1>6, <1>7, <1>8, WakeElsewhere

-----------------------------------------------------------------------------
(* A step that moves no current thread, wakes W and makes T Ready.         *)
LEMMA CallElsewhere ==
    ASSUME TypeOK, NEW p \in Pids, NEW c \in Cpus,
           NEW T, T \cap threads[p] = {}, NEW W, W \cap threads[p] = {},
           UNCHANGED <<threads, currentTid>>, catch'[p] \in {catch[p], {}},
           state' = SetReady(T, state), waitTarget' = Untargeted(W)
    PROVE  Elsewhere(p)
<1>1. Nobody \notin threads[p]
  BY TidNotNobody DEF TypeOK
<1> QED
  BY <1>1, WakeElsewhere

(* Calls that leave the threads alone, and writes.                         *)
LEMMA PlainElsewhere ==
    ASSUME TypeOK, TaskInv, MainInd, NEW p \in Pids, Held(p), NEW c \in Cpus,
           \/ SysWait(c) \/ SysExit(c) \/ SysThreadExit(c) \/ SysSigintFg(c) \/ SysSignalCatch(c)
           \/ SysSignalCheck(c) \/ SysExecSetParent(c) \/ SysWrite(c)
    PROVE  Elsewhere(p)
<1> USE DEF procVars, threadVars
<1>1. UNCHANGED <<threads, currentTid>>
  BY Zenon DEF SysWait, SysExit, SysThreadExit, SysSigintFg, SysSignalCatch, SysSignalCheck,
               SysExecSetParent, SysWrite, ReturnToUser, Goto
<1>2. catch'[p] \in {catch[p], {}}
  <2>1. CASE SysSignalCatch(c)
    <3>1. CurrentPid(c) # p
      BY Zenon, <2>1, HeldOut DEF SysSignalCatch, InCall, ThreadPlaces, Places
    <3>2. \E mask : catch' = [catch EXCEPT ![CurrentPid(c)] = mask]
      BY Zenon, <2>1 DEF SysSignalCatch
    <3> QED
      BY <3>1, <3>2 DEF TypeOK
  <2>2. CASE ~SysSignalCatch(c)
    BY Zenon, <2>2 DEF SysWait, SysExit, SysThreadExit, SysSigintFg, SysSignalCheck,
                       SysExecSetParent, SysWrite
  <2> QED
    BY Zenon, <2>1, <2>2
<1>3. {} \cap threads[p] = {} /\ SleepersOn(On("Io", 0)) \cap threads[p] = {}
  <2>1. "Io" # "None"
    OBVIOUS
  <2> QED
    BY Zenon, <2>1, HeldAsleep
<1>4. \E T \in {{}, SleepersOn(On("Io", 0))} : state' = SetReady(T, state) /\ waitTarget' = Untargeted(T)
  BY Zenon, NobodyMoved DEF SysWait, SysExit, SysThreadExit, SysSigintFg, SysSignalCatch,
               SysSignalCheck, SysExecSetParent, SysWrite, Wake, WakeContexts
<1>5. PICK T : /\ T \cap threads[p] = {}
               /\ state' = SetReady(T, state) /\ waitTarget' = Untargeted(T)
  BY Zenon, <1>3, <1>4
<1> QED
  BY <1>1, <1>2, <1>5, CallElsewhere

(* Kills and signals flag p to die if they wake it; set_ready of another   *)
(* exec wakes another child.                                               *)
LEMMA SignalElsewhere ==
    ASSUME TypeOK, TaskInv, MainInd, NEW p \in Pids, Held(p), alive[p], ~killPending'[p],
           NEW c \in Cpus,
           \/ SysKill(c) \/ SysSigterm(c) \/ SendSigint(c)
           \/ SysExecSetReady(c) /\ arg[c] \in Pids /\ arg[c] # p
    PROVE  Elsewhere(p)
<1> USE DEF procVars, threadVars
<1>1. UNCHANGED <<threads, currentTid>> /\ catch'[p] \in {catch[p], {}}
  BY Zenon DEF SysKill, SysSigterm, SendSigint, SysExecSetReady, ReturnToUser, Goto
<1>2. \A P \in SUBSET Pids : p \notin P => MainsOf(P) \cap threads[p] = {}
  BY Zenon, HeldOut
<1>3. {} \cap threads[p] = {} /\ catch[p] = {}
  BY DEF Held
<1>4. CASE SysKill(c)
  <2>1. PICK q \in Pids : KillPids({r \in {q} : Killable(r)})
    BY Zenon, <1>4 DEF SysKill
  <2> DEFINE P == {r \in {q} : Killable(r)}
  <2>2. P \in SUBSET Pids
    BY DEF Killable
  <2>3. p \notin P /\ state' = SetReady(MainsOf(P), state)
    BY Zenon, <2>1 DEF KillPids
  <2>4. waitTarget' = Untargeted({})
    BY Zenon, <1>4, NobodyMoved DEF SysKill
  <2> HIDE DEF P
  <2>5. MainsOf(P) \cap threads[p] = {}
    BY Zenon, <1>2, <2>2, <2>3
  <2> QED
    BY <1>1, <1>3, <2>3, <2>4, <2>5, CallElsewhere
<1>5. CASE SysSigterm(c)
  <2>1. PICK q \in Pids :
            /\ alive[q] /\ "TERM" \notin catch[q] => killPending'[q]
            /\ state' = SetReady(MainsOf({k \in {q} : alive[k]}), state)
    BY Zenon, <1>5 DEF SysSigterm
  <2> DEFINE P == {k \in {q} : alive[k]}
  <2>2. P \in SUBSET Pids
    OBVIOUS
  <2>3. p \notin P
    BY Zenon, <1>3, <2>1
  <2>4. waitTarget' = Untargeted({})
    BY Zenon, <1>5, NobodyMoved DEF SysSigterm
  <2>5. state' = SetReady(MainsOf(P), state)
    BY <2>1
  <2> HIDE DEF P
  <2>6. MainsOf(P) \cap threads[p] = {}
    BY Zenon, <1>2, <2>2, <2>3
  <2> QED
    BY <1>1, <1>3, <2>4, <2>5, <2>6, CallElsewhere
<1>6. CASE SendSigint(c)
  <2> DEFINE S == {q \in {arg[c]} : Killable(q) /\ "INT" \in catch[q]}
             W == {t \in MainsOf(S) : state[t] = "Sleeping"}
             K == {q \in {arg[c]} : Killable(q)} \ S
  <2>1. /\ \A q \in Pids : killPending'[q] = (q \in K \/ killPending[q])
        /\ state' = SetReady(W \cup MainsOf(K), state)
        /\ waitTarget' = Untargeted(W)
    BY Zenon, <1>6 DEF SendSigint, WakeContexts
  <2>2. S \in SUBSET Pids /\ K \in SUBSET Pids
    BY DEF Killable
  <2>3. p \notin S /\ p \notin K
    BY Zenon, <1>3, <2>1
  <2>4. W \subseteq MainsOf(S)
    BY Zenon
  <2> HIDE DEF S, K, W
  <2>5. MainsOf(S) \cap threads[p] = {} /\ MainsOf(K) \cap threads[p] = {}
    BY Zenon, <1>2, <2>2, <2>3
  <2>6. W \cap threads[p] = {} /\ (W \cup MainsOf(K)) \cap threads[p] = {}
    BY Zenon, <2>4, <2>5
  <2> QED
    BY <1>1, <2>1, <2>6, CallElsewhere
<1>7. CASE SysExecSetReady(c) /\ arg[c] \in Pids /\ arg[c] # p
  <2> DEFINE P == {q \in {arg[c]} : alive[q]}
  <2>1. P \in SUBSET Pids /\ p \notin P
    BY <1>7
  <2>2. state' = SetReady(MainsOf(P), state) /\ waitTarget' = Untargeted({})
    BY Zenon, <1>7, NobodyMoved DEF SysExecSetReady
  <2> HIDE DEF P
  <2>3. MainsOf(P) \cap threads[p] = {}
    BY Zenon, <1>2, <2>1
  <2> QED
    BY <1>1, <1>3, <2>2, <2>3, CallElsewhere
<1> QED
  BY Zenon, <1>4, <1>5, <1>6, <1>7

-----------------------------------------------------------------------------
(* A thread that blocks is no thread of p.                                 *)
LEMMA BlockElsewhere ==
    ASSUME TypeOK, TaskInv, MainInd, NEW p \in Pids, Held(p), NEW c \in Cpus,
           SysSleep(c) \/ SysThreadJoin(c) \/ SysWaitBlock(c) \/ SysRead(c)
    PROVE  Elsewhere(p)
<1> USE DEF procVars, threadVars
<1>1. UNCHANGED <<threads, catch, currentTid>>
  BY Zenon DEF SysSleep, SysThreadJoin, SysWaitBlock, SysRead, BlockCurrent, ReturnToUser, Goto
<1>2. pc[c] \in ThreadPlaces
  BY DEF SysSleep, SysThreadJoin, SysWaitBlock, SysRead, InCall, ThreadPlaces, Places
<1>3. CurrentPid(c) # p /\ currentTid[c] \notin threads[p] /\ CurrentPid(c) \in Pids
  BY Zenon, <1>2, HeldOut, CurrentThread
<1>4. threads[p] \subseteq Tids
  BY DEF TypeOK
<1>5. \A t \in threads[p] : state'[t] = state[t] /\ waitTarget'[t] = waitTarget[t]
  <2>1. CASE UNCHANGED <<state, waitTarget>>
    BY <2>1
  <2>2. ASSUME NEW target, BlockCurrent(c, target)
        PROVE  \A t \in threads[p] : state'[t] = state[t] /\ waitTarget'[t] = waitTarget[t]
    BY <1>3, <1>4, <2>2 DEF BlockCurrent, TypeOK
  <2> DEFINE T == MainsOf({CurrentPid(c)})
  <2>3. CASE \E target : /\ state' = [t \in Tids |-> IF t \in T THEN "Sleeping" ELSE state[t]]
                         /\ waitTarget' = [t \in Tids |-> IF t \in T THEN target ELSE waitTarget[t]]
    <3>1. {CurrentPid(c)} \in SUBSET Pids /\ p \notin {CurrentPid(c)}
      BY <1>3
    <3>2. T \cap threads[p] = {}
      BY <3>1, HeldOut
    <3> HIDE DEF T
    <3> QED
      BY <1>4, <2>3, <3>2
  <2> QED
    BY Zenon, <2>1, <2>2, <2>3 DEF SysSleep, SysThreadJoin, SysWaitBlock, SysRead
<1> QED
  BY Zenon, <1>1, <1>5 DEF Elsewhere

(* A thread that ends is no thread of p, and wakes none.                   *)
LEMMA ExitElsewhere ==
    ASSUME TypeOK, TaskInv, MainInd, NEW p \in Pids, Held(p), NEW c \in Cpus,
           pc[c] \in ThreadPlaces, ExitCurrentThread(c)
    PROVE  Elsewhere(p)
<1> DEFINE me == currentTid[c]
           W == SleepersOn(On("Tid", me))
<1>1. CurrentPid(c) # p /\ me \notin threads[p] /\ CurrentPid(c) = tpid[me]
  BY Zenon, HeldOut, CurrentThread
<1>2. W \cap threads[p] = {}
  <2>1. "Tid" # "None"
    OBVIOUS
  <2> QED
    BY Zenon, <2>1, HeldAsleep
<1>3. /\ threads' = [threads EXCEPT ![tpid[me]] = @ \ {me}]
      /\ catch' = catch
      /\ state' = [SetReady(W, state) EXCEPT ![me] = "Absent"]
      /\ waitTarget' = Untargeted(W)
      /\ currentTid' = [currentTid EXCEPT ![c] = Nobody]
  BY Zenon DEF ExitCurrentThread, WakeContexts
<1>4. threads[p] \subseteq Tids /\ Nobody \notin threads[p]
  BY TidNotNobody DEF TypeOK
<1> HIDE DEF W
<1>5. threads'[p] = threads[p]
  BY <1>1, <1>3 DEF TypeOK
<1>6. \A t \in threads[p] : state'[t] = state[t] /\ waitTarget'[t] = waitTarget[t]
  BY <1>1, <1>2, <1>3, <1>4 DEF SetReady, Untargeted
<1>7. \A d \in Cpus : currentTid'[d] = currentTid[d] \/ currentTid'[d] \notin threads[p]
  BY <1>3, <1>4 DEF TypeOK
<1> QED
  BY Zenon, <1>3, <1>5, <1>6, <1>7 DEF Elsewhere

(* A process that ends wakes p only to die, as its child.                  *)
LEMMA ExitLastElsewhere ==
    ASSUME TypeOK, TaskInv, MainInd, NEW p \in Pids, Held(p), ~killPending'[p],
           NEW c \in Cpus, ExitLast(c)
    PROVE  Elsewhere(p)
<1> DEFINE me == currentTid[c]
           q == CurrentPid(c)
           K == Orphans(q)
           st == SetReady(MainsOf(K), state)
           W == Waiters(q, me, st)
<1>1. q # p /\ me \notin threads[p]
  BY Zenon, HeldOut DEF ExitLast, ThreadPlaces, Places
<1>2. threads[q] = {me}
  BY Zenon DEF ExitLast, TaskInv, TableInv
<1>3. /\ threads' = [threads EXCEPT ![q] = {}]
      /\ catch' = [catch EXCEPT ![q] = {}]
      /\ \A t \in Tids : state'[t] = IF t \in threads[q] THEN "Absent" ELSE SetReady(W, st)[t]
      /\ waitTarget' = Untargeted(W)
      /\ currentTid' = [currentTid EXCEPT ![c] = Nobody]
      /\ \A r \in Pids : r # q /\ r \in K => killPending'[r]
  BY Zenon DEF ExitLast, WakeContexts
<1>4. threads[p] \subseteq Tids /\ Nobody \notin threads[p]
  BY TidNotNobody DEF TypeOK
<1>5. p \notin K /\ K \in SUBSET Pids
  BY Zenon, <1>1, <1>3 DEF Orphans
<1>6. MainsOf(K) \cap threads[p] = {}
  BY Zenon, <1>5, HeldOut
<1>7. \A t \in threads[p] : t \notin W
  <2>1. \A t \in W : waitTarget[t] = On("Pid", q) \/ waitTarget[t] = On("Tid", me)
    BY Zenon DEF Waiters
  <2>2. On("Pid", q).on = "Pid" /\ On("Tid", me).on = "Tid" /\ NoTarget.on = "None"
    BY DEF On, NoTarget
  <2>3. On("Pid", q) # NoTarget /\ On("Tid", me) # NoTarget
    <3>1. "Pid" # "None" /\ "Tid" # "None"
      OBVIOUS
    <3> QED
      BY Zenon, <2>2, <3>1
  <2> QED
    BY Zenon, <2>1, <2>3 DEF Held
<1>8. \A t \in threads[p] : st[t] = state[t]
  BY <1>4, <1>6 DEF SetReady
<1> HIDE DEF W, st, K
<1>9. threads'[p] = threads[p] /\ catch'[p] = catch[p]
  BY <1>1, <1>3 DEF TypeOK
<1>10. \A t \in threads[p] : SetReady(W, st)[t] = st[t]
  BY <1>4, <1>7 DEF SetReady
<1>11. \A t \in threads[p] : state'[t] = state[t] /\ waitTarget'[t] = waitTarget[t]
  <2>1. \A t \in threads[p] : t \in Tids /\ t \notin threads[q]
    BY <1>1, <1>2, <1>4
  <2>2. \A t \in threads[p] : state'[t] = state[t]
    BY Zenon, <1>3, <1>8, <1>10, <2>1
  <2>3. \A t \in threads[p] : waitTarget'[t] = waitTarget[t]
    BY Zenon, <1>3, <1>7, <2>1 DEF Untargeted
  <2> QED
    BY Zenon, <2>2, <2>3
<1>12. \A d \in Cpus : currentTid'[d] = currentTid[d] \/ currentTid'[d] \notin threads[p]
  BY <1>3, <1>4 DEF TypeOK
<1> QED
  BY Zenon, <1>9, <1>11, <1>12 DEF Elsewhere

(* A thread that is created is no thread of p.                             *)
LEMMA CreateElsewhere ==
    ASSUME TypeOK, TaskInv, MainInd, NEW p \in Pids, p < nextPid, Held(p), NEW c \in Cpus,
           SysThreadSpawn(c) \/ SysExec(c)
    PROVE  Elsewhere(p)
<1> USE DEF procVars, threadVars
<1>1. UNCHANGED <<waitTarget, catch, currentTid>>
  BY Zenon DEF SysThreadSpawn, SysExec, ReturnToUser, Goto
<1>2. CurrentPid(c) # p
  BY Zenon, HeldOut DEF SysThreadSpawn, SysExec, InCall, ThreadPlaces, Places
<1>3. nextPid # p
  BY NextIds
<1>4. nextTid \notin threads[p]
  <2>1. ASSUME nextTid \in threads[p] PROVE FALSE
    <3>1. nextTid \in Tids /\ Present(nextTid) /\ nextTid >= nextTid
      BY <2>1, NextIds DEF TaskInv, TableInv, TypeOK
    <3> QED
      BY Zenon, <3>1 DEF TaskInv, FreshInv
  <2> QED
    BY <2>1
<1>5. \/ UNCHANGED <<threads, state>>
      \/ \E r, S, s : /\ r # p /\ threads' = [threads EXCEPT ![r] = S]
                      /\ state' = [state EXCEPT ![nextTid] = s]
  <2>1. CASE SysThreadSpawn(c)
    <3>1. \/ UNCHANGED <<threads, state>>
          \/ /\ threads' = [threads EXCEPT ![CurrentPid(c)] = threads[CurrentPid(c)] \cup {nextTid}]
             /\ state' = [state EXCEPT ![nextTid] = "Ready"]
      BY Zenon, <2>1 DEF SysThreadSpawn
    <3> QED
      BY Zenon, <1>2, <3>1
  <2>2. CASE SysExec(c)
    <3>1. \/ UNCHANGED <<threads, state>>
          \/ /\ threads' = [threads EXCEPT ![nextPid] = {nextTid}]
             /\ state' = [state EXCEPT ![nextTid] = "Sleeping"]
      BY Zenon, <2>2 DEF SysExec
    <3> QED
      BY Zenon, <1>3, <3>1
  <2> QED
    BY Zenon, <2>1, <2>2
<1>6. threads[p] \subseteq Tids
  BY DEF TypeOK
<1>7. threads'[p] = threads[p] /\ \A t \in threads[p] : state'[t] = state[t]
  BY <1>4, <1>5, <1>6 DEF TypeOK
<1> QED
  BY Zenon, <1>1, <1>7 DEF Elsewhere

-----------------------------------------------------------------------------
\* The steps that create nothing
OldStep(c) ==
    \/ Timer(c) \/ UserStep(c) \/ EnterNextProcess(c) \/ TimerAfterReap(c) \/ ReturnToScheduler(c)
    \/ CommitBlock(c) \/ ExitUnlessLast(c) \/ ExitLast(c) \/ SysThreadExitSelf(c)
    \/ SysSleep(c) \/ SysThreadJoin(c) \/ SysWaitBlock(c) \/ SysRead(c)
    \/ SysWait(c) \/ SysExit(c) \/ SysThreadExit(c) \/ SysSigintFg(c) \/ SysSignalCatch(c)
    \/ SysSignalCheck(c) \/ SysExecSetParent(c) \/ SysWrite(c)
    \/ SysKill(c) \/ SysSigterm(c) \/ SendSigint(c) \/ SysExecSetReady(c)

(* A process that is alive and not killed was so before the step.          *)
LEMMA AliveBefore ==
    ASSUME TypeOK, NEW p \in Pids, p < nextPid, alive'[p], ~killPending'[p], NEW c \in Cpus,
           OldStep(c) \/ SysThreadSpawn(c) \/ SysExec(c)
    PROVE  alive[p] /\ ~killPending[p]
<1> USE DEF procVars, counters, stackVars, threadVars
<1>1. CASE ExitLast(c)
  <2>1. /\ alive' = [alive EXCEPT ![CurrentPid(c)] = FALSE]
        /\ \A q \in Pids : q # CurrentPid(c) /\ killPending[q] => killPending'[q]
    BY Zenon, <1>1 DEF ExitLast
  <2>2. p # CurrentPid(c) /\ alive[p]
    BY <2>1 DEF TypeOK
  <2> QED
    BY Zenon, <2>1, <2>2
<1>2. CASE SysExec(c)
  <2>1. (alive' = alive \/ alive' = [alive EXCEPT ![nextPid] = TRUE]) /\ killPending' = killPending
    BY Zenon, <1>2 DEF SysExec
  <2>2. p # nextPid
    BY NextIds
  <2> QED
    BY <2>1, <2>2 DEF TypeOK
<1>3. CASE ExitUnlessLast(c)
  <2>1. /\ alive' = alive
        /\ killPending' = [killPending EXCEPT ![CurrentPid(c)] = TRUE] \/ killPending' = killPending
    BY Zenon, <1>3 DEF ExitUnlessLast, ExitCurrentThread
  <2> QED
    BY <2>1 DEF TypeOK
<1>4. CASE \/ Timer(c) \/ UserStep(c) \/ EnterNextProcess(c) \/ TimerAfterReap(c)
           \/ ReturnToScheduler(c) \/ CommitBlock(c) \/ SysThreadExitSelf(c)
  <2>1. UNCHANGED <<alive, killPending>>
    BY Zenon, <1>4 DEF Timer, TimerReap, TimerSwitch, TimerIdle, UserStep, Int80, Fault,
                       EnterNextProcess, TimerAfterReap, ReturnToScheduler, CommitBlock,
                       SysThreadExitSelf, ExitCurrentThread
  <2> QED
    BY Zenon, <2>1
<1>5. CASE \/ SysSleep(c) \/ SysThreadJoin(c) \/ SysWaitBlock(c) \/ SysRead(c)
           \/ SysWait(c) \/ SysExit(c) \/ SysThreadExit(c) \/ SysSigintFg(c) \/ SysSignalCatch(c)
           \/ SysSignalCheck(c) \/ SysExecSetParent(c) \/ SysWrite(c) \/ SysExecSetReady(c)
           \/ SysThreadSpawn(c)
  <2>1. UNCHANGED <<alive, killPending>>
    BY Zenon, <1>5 DEF SysSleep, SysThreadJoin, SysWaitBlock, BlockCurrent, SysRead, SysWait,
                       SysExit, SysThreadExit, SysSigintFg, SysSignalCatch, SysSignalCheck,
                       SysExecSetParent, SysWrite, SysExecSetReady, SysThreadSpawn
  <2> QED
    BY Zenon, <2>1
<1>6. CASE SysKill(c) \/ SysSigterm(c) \/ SendSigint(c)
  <2>1. alive' = alive /\ \A q \in Pids : killPending[q] => killPending'[q]
    BY Zenon, <1>6 DEF SysKill, KillPids, SysSigterm, SendSigint
  <2> QED
    BY Zenon, <2>1
<1> QED
  BY Zenon, <1>1, <1>2, <1>3, <1>4, <1>5, <1>6 DEF OldStep

(* A process held back stays so, but for the set_ready of its own exec.    *)
LEMMA HeldBackStep ==
    ASSUME TypeOK, TaskInv, MainInd, NEW p \in Pids, p < nextPid, HeldBack(p), NEW c \in Cpus,
           OldStep(c) \/ SysThreadSpawn(c) \/ SysExec(c),
           SysExecSetReady(c) => arg[c] \in Pids /\ arg[c] # p
    PROVE  HeldBack(p)'
<1> SUFFICES ASSUME alive'[p], ~killPending'[p] PROVE Held(p)'
  BY Zenon DEF HeldBack
<1>1. alive[p] /\ ~killPending[p] /\ Held(p)
  BY Zenon, AliveBefore DEF HeldBack
<1>2. CASE ExitUnlessLast(c) \/ SysThreadExitSelf(c)
  <2>1. pc[c] \in ThreadPlaces
    BY <1>2 DEF ExitUnlessLast, SysThreadExitSelf, ThreadPlaces, Places
  <2>2. CASE ExitCurrentThread(c)
    BY Zenon, <1>1, <2>1, <2>2, ExitElsewhere, HeldStays
  <2>3. CASE UNCHANGED <<threads, catch, state, waitTarget, currentTid>>
    BY Zenon, <1>1, <2>3, HeldStays DEF Elsewhere
  <2> QED
    BY Zenon, <1>2, <2>2, <2>3 DEF ExitUnlessLast, SysThreadExitSelf, Goto, threadVars, procVars
<1>3. CASE ExitLast(c)
  BY Zenon, <1>1, <1>3, ExitLastElsewhere, HeldStays
<1>4. CASE Timer(c)
  BY Zenon, <1>1, <1>4, TimerElsewhere, HeldStays
<1>5. CASE \/ UserStep(c) \/ EnterNextProcess(c) \/ TimerAfterReap(c) \/ ReturnToScheduler(c)
           \/ CommitBlock(c)
  BY Zenon, <1>1, <1>5, ScheduleElsewhere, HeldStays
<1>6. CASE SysSleep(c) \/ SysThreadJoin(c) \/ SysWaitBlock(c) \/ SysRead(c)
  BY Zenon, <1>1, <1>6, BlockElsewhere, HeldStays
<1>7. CASE \/ SysWait(c) \/ SysExit(c) \/ SysThreadExit(c) \/ SysSigintFg(c) \/ SysSignalCatch(c)
           \/ SysSignalCheck(c) \/ SysExecSetParent(c) \/ SysWrite(c)
  BY Zenon, <1>1, <1>7, PlainElsewhere, HeldStays
<1>8. CASE SysKill(c) \/ SysSigterm(c) \/ SendSigint(c) \/ SysExecSetReady(c)
  BY Zenon, <1>1, <1>8, SignalElsewhere, HeldStays
<1>9. CASE SysThreadSpawn(c) \/ SysExec(c)
  BY Zenon, <1>1, <1>9, CreateElsewhere, HeldStays
<1> QED
  BY Zenon, <1>2, <1>3, <1>4, <1>5, <1>6, <1>7, <1>8, <1>9 DEF OldStep

-----------------------------------------------------------------------------
(* A step that creates nothing only takes threads away.                    *)
LEMMA OldThreads ==
    ASSUME TypeOK, NEW c \in Cpus, OldStep(c)
    PROVE  /\ UNCHANGED <<nextTid, nextPid, tpid>>
           /\ \A p \in Pids : threads'[p] \subseteq threads[p] /\ mainTid'[p] \in {mainTid[p], Nobody}
<1> USE DEF procVars, counters, stackVars, threadVars
<1>1. CASE ExitLast(c)
  <2>1. /\ UNCHANGED <<nextTid, nextPid, tpid>>
        /\ threads' = [threads EXCEPT ![CurrentPid(c)] = {}]
        /\ mainTid' = [mainTid EXCEPT ![CurrentPid(c)] = Nobody]
    BY Zenon, <1>1 DEF ExitLast
  <2> QED
    BY <2>1 DEF TypeOK
<1>2. CASE ExitUnlessLast(c) \/ SysThreadExitSelf(c)
  <2>1. /\ UNCHANGED <<nextTid, nextPid, tpid, mainTid>>
        /\ \/ threads' = threads
           \/ threads' = [threads EXCEPT ![tpid[currentTid[c]]] = @ \ {currentTid[c]}]
    BY Zenon, <1>2 DEF ExitUnlessLast, SysThreadExitSelf, ExitCurrentThread
  <2> QED
    BY <2>1 DEF TypeOK
<1>3. CASE \/ Timer(c) \/ UserStep(c) \/ EnterNextProcess(c) \/ TimerAfterReap(c)
           \/ ReturnToScheduler(c) \/ CommitBlock(c)
  <2>1. UNCHANGED <<nextTid, nextPid, tpid, threads, mainTid>>
    BY Zenon, <1>3 DEF Timer, TimerReap, TimerSwitch, TimerIdle, UserStep, Int80, Fault,
                       EnterNextProcess, TimerAfterReap, ReturnToScheduler, CommitBlock
  <2> QED
    BY Zenon, <2>1
<1>4. CASE \/ SysSleep(c) \/ SysThreadJoin(c) \/ SysWaitBlock(c) \/ SysRead(c)
           \/ SysWait(c) \/ SysExit(c) \/ SysThreadExit(c) \/ SysSigintFg(c) \/ SysSignalCatch(c)
           \/ SysSignalCheck(c) \/ SysExecSetParent(c) \/ SysWrite(c) \/ SysExecSetReady(c)
           \/ SysKill(c) \/ SysSigterm(c) \/ SendSigint(c)
  <2>1. UNCHANGED <<nextTid, nextPid, tpid, threads, mainTid>>
    BY Zenon, <1>4 DEF SysSleep, SysThreadJoin, SysWaitBlock, BlockCurrent, SysRead, SysWait,
                       SysExit, SysThreadExit, SysSigintFg, SysSignalCatch, SysSignalCheck,
                       SysExecSetParent, SysWrite, SysExecSetReady, SysKill, SysSigterm, SendSigint
  <2> QED
    BY Zenon, <2>1
<1> QED
  BY Zenon, <1>1, <1>2, <1>3, <1>4 DEF OldStep

(* Main threads stay threads of their processes.                           *)
LEMMA MainStep ==
    ASSUME TypeOK, TypeOK', TaskInv, TaskInv', MainInd, NEW c \in Cpus,
           OldStep(c) \/ SysThreadSpawn(c) \/ SysExec(c)
    PROVE  MainInd'
<1> USE DEF procVars, counters, stackVars, threadVars
<1>1. CASE OldStep(c)
  <2> SUFFICES ASSUME NEW p \in Pids
               PROVE  /\ mainTid'[p] < nextTid'
                      /\ Present(mainTid[p])' => tpid'[mainTid'[p]] = p
    BY DEF MainInd
  <2>1. nextTid' = nextTid /\ tpid' = tpid /\ mainTid'[p] \in {mainTid[p], Nobody}
    BY Zenon, <1>1, OldThreads
  <2>2. Nobody < nextTid /\ Nobody \notin Tids
    BY NextIds, TidNotNobody DEF Nobody
  <2>3. mainTid'[p] < nextTid'
    BY <2>1, <2>2 DEF MainInd
  <2>4. ASSUME Present(mainTid[p])' PROVE tpid'[mainTid'[p]] = p
    <3> DEFINE t == mainTid'[p]
    <3>1. t \in Tids /\ t = mainTid[p]
      BY Zenon, <2>1, <2>2, <2>4 DEF Present
    <3>2. tpid'[t] \in Pids /\ t \in threads'[tpid'[t]]
      BY Zenon, <2>4, <3>1 DEF TaskInv, TableInv
    <3>3. t \in threads[tpid'[t]]
      <4>1. threads'[tpid'[t]] \subseteq threads[tpid'[t]]
        BY Zenon, <1>1, <3>2, OldThreads
      <4> QED
        BY Zenon, <3>2, <4>1
    <3>4. Present(mainTid[p])
      BY Zenon, <3>1, <3>2, <3>3 DEF TaskInv, TableInv
    <3> QED
      BY Zenon, <2>1, <3>1, <3>4 DEF MainInd
  <2> QED
    BY Zenon, <2>3, <2>4
<1>2. CASE UNCHANGED <<nextTid, tpid, mainTid, state>>
  BY <1>2 DEF MainInd, Present
<1>3. ASSUME NEW q, NEW s, nextTid <= MaxTid, nextTid' = nextTid + 1,
             tpid' = [tpid EXCEPT ![nextTid] = q], state' = [state EXCEPT ![nextTid] = s],
             \/ mainTid' = mainTid
             \/ mainTid' = [mainTid EXCEPT ![q] = nextTid]
      PROVE  MainInd'
  <2>1. nextTid \in Tids /\ nextTid \in Nat /\ nextTid < nextTid'
    BY <1>3, NextIds, ConstantsAssumption DEF Tids
  <2> SUFFICES ASSUME NEW p \in Pids
               PROVE  /\ mainTid'[p] < nextTid'
                      /\ Present(mainTid[p])' => tpid'[mainTid'[p]] = p
    BY DEF MainInd
  <2>2. mainTid[p] \in Nat /\ mainTid[p] < nextTid
    BY ConstantsAssumption DEF MainInd, TypeOK, Tids, Nobody
  <2>3. CASE mainTid'[p] = mainTid[p]
    <3>1. mainTid[p] # nextTid /\ mainTid[p] < nextTid'
      BY <2>1, <2>2, <1>3
    <3>2. ASSUME mainTid[p] \in Tids, state'[mainTid[p]] # "Absent" PROVE tpid'[mainTid[p]] = p
      <4>1. state'[mainTid[p]] = state[mainTid[p]] /\ tpid'[mainTid[p]] = tpid[mainTid[p]]
        BY <1>3, <3>1, <3>2 DEF TypeOK
      <4> QED
        BY Zenon, <3>2, <4>1 DEF MainInd, Present
    <3> QED
      BY Zenon, <2>3, <3>1, <3>2 DEF Present
  <2>4. CASE mainTid'[p] # mainTid[p]
    <3>1. p = q /\ mainTid'[p] = nextTid
      BY <1>3, <2>4 DEF TypeOK
    <3>2. tpid'[nextTid] = q
      BY <1>3, <2>1 DEF TypeOK
    <3> QED
      BY Zenon, <2>1, <3>1, <3>2
  <2> QED
    BY Zenon, <2>3, <2>4
<1>4. CASE SysThreadSpawn(c)
  <2>1. \/ UNCHANGED <<nextTid, tpid, mainTid, state>>
        \/ /\ nextTid <= MaxTid /\ nextTid' = nextTid + 1 /\ mainTid' = mainTid
           /\ tpid' = [tpid EXCEPT ![nextTid] = CurrentPid(c)]
           /\ state' = [state EXCEPT ![nextTid] = "Ready"]
    BY Zenon, <1>4 DEF SysThreadSpawn
  <2> QED
    BY <1>2, <1>3, <2>1
<1>5. CASE SysExec(c)
  <2>1. \/ UNCHANGED <<nextTid, tpid, mainTid, state>>
        \/ /\ nextTid <= MaxTid /\ nextTid' = nextTid + 1
           /\ mainTid' = [mainTid EXCEPT ![nextPid] = nextTid]
           /\ tpid' = [tpid EXCEPT ![nextTid] = nextPid]
           /\ state' = [state EXCEPT ![nextTid] = "Sleeping"]
    BY Zenon, <1>5 DEF SysExec
  <2> QED
    BY <1>2, <1>3, <2>1
<1> QED
  BY Zenon, <1>1, <1>4, <1>5

(* What is not created yet stays blank.                                    *)
LEMMA BlankStep ==
    ASSUME TypeOK, TypeOK', TaskInv, BlankInd, NEW c \in Cpus,
           OldStep(c) \/ SysThreadSpawn(c) \/ SysExec(c)
    PROVE  BlankInd'
<1> USE DEF procVars, counters, stackVars, threadVars
<1>1. /\ \A t \in Tids : t >= nextTid' => t >= nextTid
      /\ \A p \in Pids : p >= nextPid' => p >= nextPid
  <2>1. nextTid' \in {nextTid, nextTid + 1} /\ nextPid' \in {nextPid, nextPid + 1}
    <3>1. CASE OldStep(c)
      BY Zenon, <3>1, OldThreads
    <3>2. CASE SysThreadSpawn(c) \/ SysExec(c)
      BY Zenon, <3>2 DEF SysThreadSpawn, SysExec
    <3> QED
      BY Zenon, <3>1, <3>2
  <2> QED
    BY <2>1, NextIds
<1>2. ASSUME NEW t \in Tids, t >= nextTid PROVE waitTarget'[t] = NoTarget
  <2>1. ~Present(t) /\ waitTarget[t] = NoTarget
    BY Zenon, <1>2 DEF TaskInv, FreshInv, BlankInd
  <2>2. CASE \E W : waitTarget' = Untargeted(W)
    BY Zenon, <2>1, <2>2 DEF Untargeted
  <2>3. ASSUME NEW target, BlockCurrent(c, target), pc[c] \in ThreadPlaces PROVE waitTarget'[t] = NoTarget
    <3>1. currentTid[c] # t
      BY Zenon, <2>1, <2>3, CurrentThread
    <3>2. waitTarget' = [waitTarget EXCEPT ![currentTid[c]] = target]
      BY Zenon, <2>3 DEF BlockCurrent
    <3> QED
      BY <2>1, <3>1, <3>2 DEF TypeOK
  <2>4. CASE SysRead(c)
    <3>1. t \notin MainsOf({CurrentPid(c)})
      BY Zenon, <2>1, MainsPresent
    <3> QED
      BY Zenon, <2>1, <2>4, <3>1 DEF SysRead
  <2>5. CASE SysSleep(c) \/ SysWaitBlock(c) \/ SysThreadJoin(c)
    <3>1. pc[c] \in ThreadPlaces
      BY <2>5 DEF SysSleep, SysThreadJoin, SysWaitBlock, InCall, ThreadPlaces, Places
    <3>2. waitTarget' = waitTarget \/ \E target : BlockCurrent(c, target)
      BY Zenon, <2>5 DEF SysSleep, SysWaitBlock, SysThreadJoin
    <3> QED
      BY Zenon, <2>1, <2>3, <3>1, <3>2
  <2>6. CASE \/ Timer(c) \/ UserStep(c) \/ EnterNextProcess(c) \/ TimerAfterReap(c)
             \/ ReturnToScheduler(c) \/ CommitBlock(c) \/ ExitUnlessLast(c) \/ ExitLast(c)
             \/ SysThreadExitSelf(c)
    <3>1. \E W : waitTarget' = Untargeted(W)
      BY Zenon, <2>6, NobodyMoved DEF Timer, TimerReap, TimerSwitch, TimerIdle, Wake, WakeContexts,
             UserStep, Int80, Fault, EnterNextProcess, TimerAfterReap, ReturnToScheduler, CommitBlock,
             ExitUnlessLast, ExitLast, SysThreadExitSelf, ExitCurrentThread
    <3> QED
      BY Zenon, <2>2, <3>1
  <2>7. CASE \/ SysWait(c) \/ SysExit(c) \/ SysThreadExit(c) \/ SysSigintFg(c) \/ SysSignalCatch(c)
             \/ SysSignalCheck(c) \/ SysExecSetParent(c) \/ SysWrite(c) \/ SysExecSetReady(c)
             \/ SysKill(c) \/ SysSigterm(c) \/ SendSigint(c) \/ SysThreadSpawn(c) \/ SysExec(c)
    <3>1. \E W : waitTarget' = Untargeted(W)
      BY Zenon, <2>7, NobodyMoved DEF SysWait, SysExit, SysThreadExit, SysSigintFg, SysSignalCatch,
             SysSignalCheck, SysExecSetParent, SysWrite, Wake, WakeContexts, SysExecSetReady,
             SysKill, SysSigterm, SendSigint, SysThreadSpawn, SysExec
    <3> QED
      BY Zenon, <2>2, <3>1
  <2> QED
    BY Zenon, <2>4, <2>5, <2>6, <2>7 DEF OldStep
<1>3. ASSUME NEW p \in Pids, p >= nextPid PROVE catch'[p] = {}
  <2>1. ~alive[p] /\ catch[p] = {}
    BY Zenon, <1>3 DEF TaskInv, FreshInv, BlankInd
  <2>2. CASE SysSignalCatch(c)
    <3>1. CurrentPid(c) # p
      BY Zenon, <2>1, <2>2, CurrentThread DEF SysSignalCatch, InCall, ThreadPlaces, Places
    <3>2. \E mask : catch' = [catch EXCEPT ![CurrentPid(c)] = mask]
      BY Zenon, <2>2 DEF SysSignalCatch
    <3> QED
      BY <2>1, <3>1, <3>2 DEF TypeOK
  <2>3. CASE ExitLast(c)
    <3>1. catch' = [catch EXCEPT ![CurrentPid(c)] = {}]
      BY Zenon, <2>3 DEF ExitLast
    <3> QED
      BY <2>1, <3>1 DEF TypeOK
  <2>4. CASE \/ Timer(c) \/ UserStep(c) \/ EnterNextProcess(c) \/ TimerAfterReap(c)
             \/ ReturnToScheduler(c) \/ CommitBlock(c) \/ ExitUnlessLast(c) \/ SysThreadExitSelf(c)
             \/ SysSleep(c) \/ SysThreadJoin(c) \/ SysWaitBlock(c) \/ SysRead(c)
    BY Zenon, <2>1, <2>4 DEF Timer, TimerReap, TimerSwitch, TimerIdle, UserStep, Int80, Fault,
             EnterNextProcess, TimerAfterReap, ReturnToScheduler, CommitBlock, ExitUnlessLast,
             SysThreadExitSelf, ExitCurrentThread, SysSleep, SysThreadJoin, SysWaitBlock,
             BlockCurrent, SysRead
  <2>5. CASE \/ SysWait(c) \/ SysExit(c) \/ SysThreadExit(c) \/ SysSigintFg(c)
             \/ SysSignalCheck(c) \/ SysExecSetParent(c) \/ SysWrite(c) \/ SysExecSetReady(c)
             \/ SysKill(c) \/ SysSigterm(c) \/ SendSigint(c) \/ SysThreadSpawn(c) \/ SysExec(c)
    BY Zenon, <2>1, <2>5 DEF SysWait, SysExit, SysThreadExit, SysSigintFg, SysSignalCheck,
             SysExecSetParent, SysWrite, SysExecSetReady, SysKill, SysSigterm, SendSigint,
             SysThreadSpawn, SysExec
  <2> QED
    BY Zenon, <2>2, <2>3, <2>4, <2>5 DEF OldStep
<1> QED
  BY Zenon, <1>1, <1>2, <1>3 DEF BlankInd, NoTarget

(* Only exec enters its later sections, and keeps its child through them.  *)
LEMMA OldPlaces ==
    ASSUME TypeOK, NEW c \in Cpus, OldStep(c)
    PROVE  \A d \in Cpus : pc'[d] \in ExecPlaces =>
               pc[d] \in ExecPlaces /\ arg'[d] = arg[d] /\ (SysExecSetReady(c) => d # c)
<1> DEFINE Leaves == \E place \in Places \ ExecPlaces : \E value :
                        /\ pc' = [pc EXCEPT ![c] = place]
                        /\ arg' = arg \/ arg' = [arg EXCEPT ![c] = value]
<1>0. \A q : q \in {"user", "sys", "wait2", "texit2", "sig2", "block", "exit1", "exit2", "return",
                    "sched", "idle", "idleLoop"} => q \in Places \ ExecPlaces
  BY DEF Places, ExecPlaces
<1>1. ASSUME Leaves
      PROVE  \A d \in Cpus : pc'[d] \in ExecPlaces =>
                 pc[d] \in ExecPlaces /\ arg'[d] = arg[d] /\ d # c
  BY <1>1 DEF TypeOK
<1> HIDE DEF Leaves
<1>2. ASSUME NEW place \in Places \ ExecPlaces, NEW value, Goto(c, place, value) PROVE Leaves
  BY Zenon, <1>2 DEF Goto, Leaves
<1>3. CASE SysExecSetParent(c)
  <2>1. pc[c] = "exec2" /\ pc' = [pc EXCEPT ![c] = "exec3"] /\ arg' = [arg EXCEPT ![c] = arg[c]]
    BY Zenon, <1>3 DEF SysExecSetParent, Goto
  <2>2. ~SysExecSetReady(c)
    BY <2>1 DEF SysExecSetReady
  <2> QED
    BY <2>1, <2>2 DEF TypeOK, ExecPlaces
<1>4. CASE Timer(c)
  <2>1. Leaves \/ (pc' = pc /\ arg' = arg /\ pc[c] \in {"idle", "idleLoop"})
    <3>1. CASE TimerReap(c)
      BY Zenon, <1>0, <3>1 DEF TimerReap, Leaves
    <3>2. CASE TimerSwitch(c)
      BY Zenon, <1>0, <3>2 DEF TimerSwitch, Resume, Leaves
    <3>3. CASE TimerIdle(c)
      BY Zenon, <1>0, <3>3 DEF TimerIdle, Resume, Leaves
    <3> QED
      BY Zenon, <1>4, <3>1, <3>2, <3>3 DEF Timer
  <2>2. pc[c] \in {"idle", "idleLoop"} => ~SysExecSetReady(c)
    BY DEF SysExecSetReady
  <2> QED
    BY Zenon, <1>1, <2>1, <2>2
<1>5. CASE \/ UserStep(c) \/ EnterNextProcess(c) \/ TimerAfterReap(c) \/ ReturnToScheduler(c)
           \/ CommitBlock(c)
  <2>1. Leaves
    <3>1. CASE UserStep(c)
      BY Zenon, <1>0, <3>1 DEF UserStep, Int80, Fault, Leaves
    <3>2. CASE EnterNextProcess(c)
      BY Zenon, <1>0, <3>2 DEF EnterNextProcess, Resume, Leaves
    <3>3. CASE TimerAfterReap(c)
      BY Zenon, <1>0, <3>3 DEF TimerAfterReap, Resume, Leaves
    <3>4. CASE ReturnToScheduler(c) \/ CommitBlock(c)
      BY Zenon, <1>0, <3>4 DEF ReturnToScheduler, CommitBlock, Leaves
    <3> QED
      BY Zenon, <1>5, <3>1, <3>2, <3>3, <3>4
  <2> QED
    BY Zenon, <1>1, <2>1
<1>6. CASE ExitUnlessLast(c) \/ ExitLast(c) \/ SysThreadExitSelf(c)
  <2>1. Leaves
    <3>1. ASSUME ExitCurrentThread(c) PROVE Leaves
      BY Zenon, <1>0, <3>1 DEF ExitCurrentThread, Leaves
    <3>2. CASE ExitLast(c)
      BY Zenon, <1>0, <3>2 DEF ExitLast, Leaves
    <3>3. CASE ExitUnlessLast(c) \/ SysThreadExitSelf(c)
      BY Zenon, <1>0, <1>2, <3>1, <3>3 DEF ExitUnlessLast, SysThreadExitSelf
    <3> QED
      BY Zenon, <1>6, <3>2, <3>3
  <2> QED
    BY Zenon, <1>1, <2>1
<1>7. CASE \/ SysSleep(c) \/ SysThreadJoin(c) \/ SysWaitBlock(c) \/ SysRead(c)
           \/ SysWait(c) \/ SysExit(c) \/ SysThreadExit(c) \/ SysSigintFg(c) \/ SysSignalCatch(c)
           \/ SysSignalCheck(c) \/ SysWrite(c) \/ SysExecSetReady(c)
           \/ SysKill(c) \/ SysSigterm(c) \/ SendSigint(c)
  <2>1. \A value : /\ Goto(c, "user", value) => Leaves
                   /\ Goto(c, "block", value) => Leaves
                   /\ Goto(c, "wait2", value) => Leaves
                   /\ Goto(c, "exit1", value) => Leaves
                   /\ Goto(c, "texit2", value) => Leaves
                   /\ Goto(c, "sig2", value) => Leaves
    BY <1>0, <1>2
  <2>2. CASE SysSleep(c) \/ SysThreadJoin(c) \/ SysWaitBlock(c) \/ SysRead(c)
    <3>1. Leaves
      BY Zenon, <2>1, <2>2 DEF SysSleep, SysThreadJoin, SysWaitBlock, SysRead, BlockCurrent, ReturnToUser
    <3> QED
      BY Zenon, <1>1, <3>1
  <2>3. CASE SysWait(c) \/ SysExit(c) \/ SysThreadExit(c) \/ SysSigintFg(c)
    <3>1. Leaves
      BY Zenon, <2>1, <2>3 DEF SysWait, SysExit, SysThreadExit, SysSigintFg, ReturnToUser
    <3> QED
      BY Zenon, <1>1, <3>1
  <2>4. CASE \/ SysSignalCatch(c) \/ SysSignalCheck(c) \/ SysWrite(c) \/ SysExecSetReady(c)
             \/ SysKill(c) \/ SysSigterm(c) \/ SendSigint(c)
    <3>1. Leaves
      BY Zenon, <2>1, <2>4 DEF SysSignalCatch, SysSignalCheck, SysWrite, SysExecSetReady, SysKill,
                               SysSigterm, SendSigint, ReturnToUser
    <3> QED
      BY Zenon, <1>1, <3>1
  <2> QED
    BY Zenon, <1>7, <2>2, <2>3, <2>4
<1> QED
  BY Zenon, <1>3, <1>4, <1>5, <1>6, <1>7 DEF OldStep

(* A child that exec has just created is held back.                        *)
LEMMA NewChild ==
    ASSUME TypeOK, TaskInv, BlankInd, NEW c \in Cpus, SysExec(c), nextPid' # nextPid,
           NEW p, p = nextPid
    PROVE  /\ p \in Pids /\ nextPid' = p + 1
           /\ pc' = [pc EXCEPT ![c] = "exec2"] /\ arg' = [arg EXCEPT ![c] = p]
           /\ Held(p)'
<1> USE DEF counters
<1>1. /\ nextTid <= MaxTid /\ nextPid <= MaxPid /\ nextPid' = nextPid + 1
      /\ state' = [state EXCEPT ![nextTid] = "Sleeping"]
      /\ threads' = [threads EXCEPT ![nextPid] = {nextTid}]
      /\ pc' = [pc EXCEPT ![c] = "exec2"] /\ arg' = [arg EXCEPT ![c] = nextPid]
      /\ UNCHANGED <<waitTarget, catch, currentTid>>
  BY Zenon DEF SysExec, Goto
<1>2. nextTid \in Tids /\ nextPid \in Pids /\ nextTid >= nextTid /\ nextPid >= nextPid
  BY <1>1, NextIds, ConstantsAssumption DEF Tids, Pids
<1>3. waitTarget[nextTid] = NoTarget /\ catch[nextPid] = {} /\ ~Present(nextTid)
  BY Zenon, <1>2 DEF BlankInd, TaskInv, FreshInv
<1>4. \A d \in Cpus : currentTid[d] # nextTid
  BY Zenon, <1>2, <1>3, TidNotNobody DEF TaskInv, CurrentInv
<1>5. threads'[nextPid] = {nextTid} /\ state'[nextTid] = "Sleeping"
  BY <1>1, <1>2 DEF TypeOK
<1>6. /\ catch'[p] = {}
      /\ \A t \in threads'[p] : /\ state'[t] = "Sleeping" /\ waitTarget'[t] = NoTarget
                                /\ \A d \in Cpus : currentTid'[d] # t
  BY <1>1, <1>3, <1>4, <1>5
<1>7. Held(p)'
  BY Zenon, <1>6 DEF Held, NoTarget
<1> QED
  BY Zenon, <1>1, <1>2, <1>7

(* Who is in the middle of an exec after a step was so before it, with the *)
(* same child, or has just created its child.                              *)
LEMMA ExecPlace ==
    ASSUME TypeOK, TaskInv, BlankInd, NEW c \in Cpus,
           OldStep(c) \/ SysThreadSpawn(c) \/ SysExec(c), NEW d \in Cpus, pc'[d] \in ExecPlaces
    PROVE  \/ /\ pc[d] \in ExecPlaces /\ arg'[d] = arg[d]
              /\ SysExecSetReady(c) => d # c
           \/ d = c /\ SysExec(c) /\ nextPid' # nextPid /\ arg'[d] = nextPid
<1> USE DEF counters
<1>1. CASE OldStep(c)
  BY Zenon, <1>1, OldPlaces
<1> DEFINE Returns == pc' = [pc EXCEPT ![c] = "user"] /\ arg' = [arg EXCEPT ![c] = 0]
<1>2. ASSUME Returns PROVE pc[d] \in ExecPlaces /\ arg'[d] = arg[d] /\ d # c
  BY <1>2 DEF TypeOK, ExecPlaces
<1>3. CASE SysThreadSpawn(c)
  <2>1. Returns
    BY Zenon, <1>3 DEF SysThreadSpawn, ReturnToUser, Goto
  <2> QED
    BY Zenon, <1>2, <2>1
<1>4. CASE SysExec(c)
  <2>1. CASE nextPid' # nextPid
    <3>1. pc' = [pc EXCEPT ![c] = "exec2"] /\ arg' = [arg EXCEPT ![c] = nextPid]
      BY Zenon, <1>4, <2>1, NewChild
    <3>2. d # c => pc[d] \in ExecPlaces /\ arg'[d] = arg[d]
      BY <3>1 DEF TypeOK
    <3>3. d = c => arg'[d] = nextPid
      BY <3>1 DEF TypeOK
    <3> QED
      BY Zenon, <1>4, <2>1, <3>2, <3>3
  <2>2. CASE nextPid' = nextPid
    <3>1. nextPid + 1 # nextPid
      BY DEF TypeOK
    <3>2. Returns
      BY Zenon, <1>4, <2>2, <3>1 DEF SysExec, ReturnToUser, Goto
    <3> QED
      BY Zenon, <1>2, <3>2
  <2> QED
    BY Zenon, <2>1, <2>2
<1> QED
  BY Zenon, <1>1, <1>3, <1>4

(* Two CPUs in the middle of an exec have different children, and neither  *)
(* is woken or run by what the other CPUs do.                              *)
LEMMA ExecStep ==
    ASSUME TypeOK, TypeOK', TaskInv, MainInd, BlankInd, ExecInd, NEW c \in Cpus,
           OldStep(c) \/ SysThreadSpawn(c) \/ SysExec(c)
    PROVE  ExecInd'
<1>1. nextPid' \in Nat /\ nextPid \in Nat /\ nextPid' >= nextPid
  <2>1. OldStep(c) => nextPid' = nextPid
    BY Zenon, OldThreads
  <2>2. SysThreadSpawn(c) => nextPid' = nextPid
    BY Zenon DEF SysThreadSpawn, counters
  <2>3. SysExec(c) => nextPid' \in {nextPid, nextPid + 1}
    BY Zenon DEF SysExec, counters
  <2> QED
    BY <2>1, <2>2, <2>3 DEF TypeOK
<1>2. ASSUME NEW d \in Cpus, pc'[d] \in ExecPlaces, NEW p, p = arg'[d]
      PROVE  p \in Pids /\ p < nextPid' /\ HeldBack(p)'
  <2>1. CASE d = c /\ SysExec(c) /\ nextPid' # nextPid /\ arg'[d] = nextPid
    <3>1. p \in Pids /\ nextPid' = p + 1 /\ Held(p)'
      BY Zenon, <1>2, <2>1, NewChild
    <3>2. p < nextPid'
      BY <1>1, <2>1, <3>1, <1>2
    <3> QED
      BY Zenon, <3>1, <3>2 DEF HeldBack
  <2>2. CASE pc[d] \in ExecPlaces /\ arg'[d] = arg[d] /\ (SysExecSetReady(c) => d # c)
    <3>1. p \in Pids /\ p < nextPid /\ HeldBack(p)
      BY Zenon, <1>2, <2>2 DEF ExecInd
    <3>2. SysExecSetReady(c) => pc[c] \in ExecPlaces
      BY DEF SysExecSetReady, ExecPlaces
    <3>3. SysExecSetReady(c) => arg[c] \in Pids /\ arg[c] # p
      BY Zenon, <1>2, <2>2, <3>2 DEF ExecInd
    <3>4. HeldBack(p)'
      BY Zenon, <3>1, <3>3, HeldBackStep
    <3>5. p < nextPid'
      BY <1>1, <3>1 DEF Pids
    <3> QED
      BY Zenon, <3>1, <3>4, <3>5
  <2> QED
    BY Zenon, <1>2, <2>1, <2>2, ExecPlace
<1>3. ASSUME NEW d \in Cpus, NEW e \in Cpus, d # e, pc'[d] \in ExecPlaces, pc'[e] \in ExecPlaces
      PROVE  arg'[d] # arg'[e]
  <2> DEFINE Stays(x) == pc[x] \in ExecPlaces /\ arg'[x] = arg[x]
             Starts(x) == x = c /\ arg'[x] = nextPid
  <2>1. (Stays(d) \/ Starts(d)) /\ (Stays(e) \/ Starts(e))
    BY Zenon, <1>3, ExecPlace
  <2>2. \A x \in Cpus : Stays(x) => arg'[x] \in Pids /\ arg'[x] < nextPid
    BY Zenon DEF ExecInd
  <2>3. Stays(d) /\ Stays(e) => arg'[d] # arg'[e]
    BY Zenon, <1>3 DEF ExecInd
  <2>4. Stays(d) => arg'[d] # nextPid
    BY <1>1, <2>2 DEF Pids
  <2>5. Stays(e) => arg'[e] # nextPid
    BY <1>1, <2>2 DEF Pids
  <2> QED
    BY Zenon, <1>3, <2>1, <2>3, <2>4, <2>5
<1>4. ASSUME NEW d \in Cpus, pc'[d] \in ExecPlaces
      PROVE  arg'[d] \in Pids /\ arg'[d] < nextPid' /\ HeldBack(arg[d])'
  <2> PICK p : p = arg'[d]
    OBVIOUS
  <2>1. p \in Pids /\ p < nextPid' /\ HeldBack(p)'
    BY Zenon, <1>2, <1>4
  <2> QED
    BY <2>1 DEF HeldBack, Held
<1> QED
  BY Zenon, <1>3, <1>4 DEF ExecInd, ExecPlaces, Pids, Cpus

(* A step keeps what holds new processes back.                             *)
LEMMA SetUpIndStep ==
    ASSUME TypeOK, TypeOK', TaskInv, TaskInv', SetUpInd, [Next]_vars
    PROVE  SetUpInd'
<1>1. CASE Next
  <2> PICK c \in Cpus : Timer(c) \/ UserStep(c) \/ KernelStep(c)
    BY Zenon, <1>1 DEF Next
  <2>1. OldStep(c) \/ SysThreadSpawn(c) \/ SysExec(c)
    BY Zenon DEF KernelStep, OldStep
  <2> QED
    BY Zenon, <2>1, MainStep, BlankStep, ExecStep DEF SetUpInd
<1>2. CASE UNCHANGED vars
  BY <1>2 DEF SetUpInd, MainInd, BlankInd, ExecInd, HeldBack, Held, Present, ExecPlaces, NoTarget,
     vars, procVars, counters, stackVars, threadVars, cpuVars
<1> QED
  BY Zenon, <1>1, <1>2

(* For any number of CPUs and processes a child does not run before its    *)
(* exec is through, unless it was killed (sys_exec in runtime.rs).         *)
THEOREM SetUpSafety == Spec => []SetUpBeforeRun
<1>1. Init => SetUpInd
  BY ConstantsAssumption DEF Init, SetUpInd, MainInd, BlankInd, ExecInd, ExecPlaces, Present, NoTarget,
     Tids, Pids, Nobody
<1>2. TypeOK /\ TypeOK' /\ TaskInv /\ TaskInv' /\ SetUpInd /\ [Next]_vars => SetUpInd'
  BY SetUpIndStep
<1>3. TypeOK /\ TaskInv /\ SetUpInd => SetUpBeforeRun
  <2> SUFFICES ASSUME TypeOK, TaskInv, SetUpInd, NEW c \in Cpus, NEW d \in Cpus,
                      pc[c] \in ExecPlaces, currentTid[d] # Nobody, tpid[currentTid[d]] = arg[c],
                      ~killPending[arg[c]]
               PROVE  FALSE
    BY Zenon DEF SetUpBeforeRun, ExecPlaces
  <2>1. HeldBack(arg[c])
    BY Zenon DEF SetUpInd, ExecInd
  <2>2. Present(currentTid[d])
    BY DEF TaskInv, CurrentInv
  <2>3. currentTid[d] \in Tids
    BY DEF TypeOK
  <2>4. currentTid[d] \in threads[arg[c]] /\ arg[c] \in Pids
    BY Zenon, <2>2, <2>3 DEF TaskInv, TableInv
  <2>5. alive[arg[c]]
    BY Zenon, <2>4 DEF TaskInv, TableInv
  <2> QED
    BY Zenon, <2>1, <2>4, <2>5 DEF HeldBack, Held
<1> QED
  BY <1>1, <1>2, <1>3, TypeCorrect, TaskInvariant, PTL DEF Spec
=============================================================================
