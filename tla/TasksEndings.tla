---------------------------- MODULE TasksEndings ----------------------------
(***************************************************************************)
(* How threads end, for any number of CPUs, threads and processes: whoever *)
(* joins a thread is woken by its end, and a process that goes on living   *)
(* keeps a thread.                                                         *)
(***************************************************************************)
EXTENDS TasksProofs

\* Nobody joins a thread that is gone, and a thread that is not created yet,
\* which exec creates Sleeping, joins nobody.
JoinInd ==
    /\ NoJoinLost
    /\ \A t \in Tids : t >= nextTid => waitTarget[t].on # "Tid"

\* A step in which no thread ends: a thread joins nobody, or sleeps in the join
\* it slept in before, or begins to join a thread that exists.
JoinStep ==
    /\ nextTid' >= nextTid
    /\ \A t \in Tids : Present(t) => Present(t)'
    /\ \A t \in Tids :
          \/ waitTarget'[t].on # "Tid"
          \/ /\ waitTarget'[t] = waitTarget[t]
             /\ state'[t] = "Sleeping" => state[t] = "Sleeping"
          \/ Present(t) /\ Present(waitTarget'[t].id)

\* A step in which thread me ends: those that join it stop sleeping.
EndStep(me) ==
    /\ nextTid' = nextTid
    /\ \A t \in Tids : Present(t) /\ t # me => Present(t)'
    /\ \A t \in Tids :
          \/ waitTarget'[t].on # "Tid"
          \/ /\ waitTarget'[t] = waitTarget[t]
             /\ state'[t] = "Sleeping" => state[t] = "Sleeping" /\ waitTarget[t] # On("Tid", me)

(* While no thread ends, every join keeps the thread it waits for.         *)
LEMMA JoinsKept ==
    ASSUME TypeOK, TypeOK', TaskInv, JoinInd, JoinStep
    PROVE  JoinInd'
<1>1. \A t \in Tids : Present(t) => ~(t >= nextTid)
  BY DEF TaskInv, FreshInv
<1>2. \A t \in Tids : t >= nextTid' => t >= nextTid
  BY NextIds DEF JoinStep, TypeOK
<1>3. ASSUME NEW t \in Tids, state'[t] = "Sleeping", waitTarget'[t].on = "Tid"
      PROVE  waitTarget'[t].id \in Tids /\ state'[waitTarget'[t].id] # "Absent"
  <2>1. Present(waitTarget'[t].id)
    BY Zenon, <1>3 DEF JoinStep, JoinInd, NoJoinLost
  <2> QED
    BY Zenon, <2>1 DEF JoinStep, Present
<1>4. ASSUME NEW t \in Tids, t >= nextTid' PROVE waitTarget'[t].on # "Tid"
  BY Zenon, <1>1, <1>2, <1>4 DEF JoinStep, JoinInd
<1> QED
  BY Zenon, <1>3, <1>4 DEF JoinInd, NoJoinLost, Present

(* A wait target is its kind and the identifier waited for.                *)
LEMMA TargetParts == \A w \in WaitTarget : w = On(w.on, w.id)
  BY DEF WaitTarget, On

(* A thread that ends leaves nobody asleep in a join on it.                *)
LEMMA JoinersWoken ==
    ASSUME TypeOK, TypeOK', TaskInv, JoinInd, NEW me \in Tids, EndStep(me)
    PROVE  JoinInd'
<1>1. ASSUME NEW t \in Tids, state'[t] = "Sleeping", waitTarget'[t].on = "Tid"
      PROVE  waitTarget'[t].id \in Tids /\ state'[waitTarget'[t].id] # "Absent"
  <2>1. waitTarget'[t] = waitTarget[t] /\ state[t] = "Sleeping" /\ waitTarget[t] # On("Tid", me)
    BY Zenon, <1>1 DEF EndStep
  <2>2. Present(waitTarget[t].id)
    BY Zenon, <1>1, <2>1 DEF JoinInd, NoJoinLost
  <2>3. waitTarget[t].id # me
    <3>1. waitTarget[t] \in WaitTarget /\ waitTarget[t].on = "Tid"
      BY <1>1, <2>1 DEF TypeOK
    <3> QED
      BY Zenon, <2>1, <3>1, TargetParts
  <2>4. waitTarget[t].id \in Tids
    BY <2>2 DEF Present
  <2> QED
    BY Zenon, <2>1, <2>2, <2>3, <2>4 DEF EndStep, Present
<1>2. ASSUME NEW t \in Tids, t >= nextTid' PROVE waitTarget'[t].on # "Tid"
  BY Zenon, <1>2 DEF EndStep, JoinInd
<1> QED
  BY Zenon, <1>1, <1>2 DEF JoinInd, NoJoinLost, Present

-----------------------------------------------------------------------------
(* Steps that wake and resume threads.                                     *)

\* Table st ends no thread and puts none to sleep.
Awake(st) ==
    \A t \in Tids : /\ state[t] # "Absent" => st[t] # "Absent"
                    /\ st[t] = "Sleeping" => state[t] = "Sleeping"

(* set_ready, and running a thread, end nothing and put nothing to sleep.  *)
LEMMA SetReadyAwake ==
    ASSUME TypeOK, NEW T
    PROVE  Awake(state) /\ Awake(SetReady(T, state)) /\ SetReady(T, state) \in [Tids -> ThreadStates]
  BY SetReadyType DEF Awake, SetReady, TypeOK

(* Resuming a thread puts nobody to sleep.                                 *)
LEMMA ResumeAwake ==
    ASSUME NEW st \in [Tids -> ThreadStates], Awake(st), NEW n
    PROVE  Awake([st EXCEPT ![n] = "Running"])
  BY DEF Awake

(* What is woken no longer joins; the others sleep on.                     *)
LEMMA WakeJoins ==
    ASSUME TypeOK, NEW W, waitTarget' = Untargeted(W), nextTid' = nextTid, Awake(state')
    PROVE  JoinStep
<1>1. nextTid' >= nextTid
  BY NextIds
<1>2. \A t \in Tids : Present(t) => Present(t)'
  BY Zenon DEF Awake, Present
<1>3. \A t \in Tids : waitTarget'[t] = IF t \in W THEN NoTarget ELSE waitTarget[t]
  BY Zenon DEF Untargeted
<1>4. NoTarget.on # "Tid"
  BY DEF NoTarget
<1>5. \A t \in Tids : \/ waitTarget'[t].on # "Tid"
                      \/ /\ waitTarget'[t] = waitTarget[t]
                         /\ state'[t] = "Sleeping" => state[t] = "Sleeping"
  BY Zenon, <1>3, <1>4 DEF Awake
<1> QED
  BY Zenon, <1>1, <1>2, <1>5 DEF JoinStep

(* A step that wakes nobody leaves the wait targets as they are.           *)
LEMMA NobodyWoken ==
    ASSUME TypeOK
    PROVE  waitTarget = Untargeted({})
  BY DEF TypeOK, Untargeted

(* The timer, and the scheduler.                                           *)
LEMMA ScheduleJoins ==
    ASSUME TypeOK, NEW c \in Cpus,
           \/ Timer(c) \/ UserStep(c) \/ EnterNextProcess(c) \/ TimerAfterReap(c)
           \/ ReturnToScheduler(c) \/ CommitBlock(c)
    PROVE  JoinStep
<1> USE DEF procVars, counters, stackVars, threadVars
<1>1. nextTid' = nextTid
  BY Zenon DEF Timer, TimerReap, TimerSwitch, TimerIdle, UserStep, Int80, Fault, EnterNextProcess,
               TimerAfterReap, ReturnToScheduler, CommitBlock
<1>2. \E W : waitTarget' = Untargeted(W)
  BY Zenon, NobodyWoken DEF Timer, TimerReap, TimerSwitch, TimerIdle, Wake, WakeContexts, UserStep,
               Int80, Fault, EnterNextProcess, TimerAfterReap, ReturnToScheduler, CommitBlock
<1>3. \/ state' = state
      \/ \E T : state' = SetReady(T, state)
      \/ \E n : state' = [state EXCEPT ![n] = "Running"]
      \/ \E T, n : state' = [SetReady(T, state) EXCEPT ![n] = "Running"]
  <2>1. CASE TimerReap(c) \/ TimerSwitch(c)
    BY Zenon, <2>1 DEF TimerReap, TimerSwitch, Wake, Resume
  <2>2. CASE TimerIdle(c)
    BY Zenon, <2>2 DEF TimerIdle, Wake, Resume
  <2>3. CASE \/ UserStep(c) \/ EnterNextProcess(c) \/ TimerAfterReap(c)
             \/ ReturnToScheduler(c) \/ CommitBlock(c)
    BY Zenon, <2>3 DEF Resume, UserStep, Int80, Fault, EnterNextProcess, TimerAfterReap,
                       ReturnToScheduler, CommitBlock
  <2> QED
    BY Zenon, <2>1, <2>2, <2>3 DEF Timer
<1>4. Awake(state')
  <2>1. CASE state' = state \/ \E T : state' = SetReady(T, state)
    BY Zenon, <2>1, SetReadyAwake
  <2>2. ASSUME NEW n, state' = [state EXCEPT ![n] = "Running"]
        PROVE  Awake(state')
    <3>1. Awake(state) /\ state \in [Tids -> ThreadStates]
      BY SetReadyAwake DEF TypeOK
    <3> QED
      BY <2>2, <3>1, ResumeAwake
  <2>3. ASSUME NEW T, NEW n, state' = [SetReady(T, state) EXCEPT ![n] = "Running"]
        PROVE  Awake(state')
    BY <2>3, SetReadyAwake, ResumeAwake
  <2> QED
    BY Zenon, <1>3, <2>1, <2>2, <2>3
<1> QED
  BY Zenon, <1>1, <1>2, <1>4, WakeJoins

(* The calls that wake threads or leave the threads alone.                 *)
LEMMA SignalJoins ==
    ASSUME TypeOK, NEW c \in Cpus,
           \/ SysWait(c) \/ SysExit(c) \/ SysThreadExit(c) \/ SysWrite(c)
           \/ SysKill(c) \/ SysSigterm(c) \/ SysSigintFg(c) \/ SendSigint(c) \/ SysSignalCatch(c)
           \/ SysSignalCheck(c) \/ SysExecSetParent(c) \/ SysExecSetReady(c)
    PROVE  JoinStep
<1> USE DEF procVars, counters, stackVars, threadVars
<1>1. nextTid' = nextTid
  BY Zenon DEF SysWait, SysExit, SysThreadExit, SysWrite, SysKill, SysSigterm, SysSigintFg,
               SendSigint, SysSignalCatch, SysSignalCheck, SysExecSetParent, SysExecSetReady
<1>2. \E W : waitTarget' = Untargeted(W)
  BY Zenon, NobodyWoken DEF SysWait, SysExit, SysThreadExit, SysWrite, Wake, WakeContexts, SysKill,
               SysSigterm, SysSigintFg, SendSigint, SysSignalCatch, SysSignalCheck,
               SysExecSetParent, SysExecSetReady
<1>3. state' = state \/ \E T : state' = SetReady(T, state)
  BY Zenon DEF SysWait, SysExit, SysThreadExit, SysWrite, Wake, SysKill, KillPids, SysSigterm,
               SysSigintFg, SendSigint, SysSignalCatch, SysSignalCheck, SysExecSetParent, SysExecSetReady
<1>4. Awake(state')
  BY Zenon, <1>3, SetReadyAwake
<1> QED
  BY Zenon, <1>1, <1>2, <1>4, WakeJoins

-----------------------------------------------------------------------------
(* Steps that put threads to sleep, create them and end them.              *)

(* A thread that blocks waits for something other than a thread, or for a  *)
(* thread that join_current found alive.                                   *)
LEMMA ParkJoins ==
    ASSUME TypeOK, NEW T \in SUBSET Tids, \A t \in T : Present(t),
           NEW target, target.on # "Tid" \/ Present(target.id),
           nextTid' = nextTid,
           \A t \in Tids : /\ state'[t] = IF t \in T THEN "Sleeping" ELSE state[t]
                           /\ waitTarget'[t] = IF t \in T THEN target ELSE waitTarget[t]
    PROVE  JoinStep
<1>1. nextTid' >= nextTid
  BY NextIds
<1>2. \A t \in Tids : Present(t) => Present(t)'
  BY DEF Present
<1>3. ASSUME NEW t \in Tids
      PROVE  \/ waitTarget'[t].on # "Tid"
             \/ /\ waitTarget'[t] = waitTarget[t]
                /\ state'[t] = "Sleeping" => state[t] = "Sleeping"
             \/ Present(t) /\ Present(waitTarget'[t].id)
  BY Zenon
<1> QED
  BY Zenon, <1>1, <1>2, <1>3 DEF JoinStep

(* SYS_SLEEP, SYS_THREAD_JOIN, SYS_WAIT's second section and reads.        *)
LEMMA BlockJoins ==
    ASSUME TypeOK, TaskInv, NEW c \in Cpus,
           SysSleep(c) \/ SysThreadJoin(c) \/ SysWaitBlock(c) \/ SysRead(c)
    PROVE  JoinStep
<1> USE DEF procVars, counters, stackVars, threadVars
<1>0. pc[c] \in ThreadPlaces
  BY DEF SysSleep, SysThreadJoin, SysWaitBlock, SysRead, InCall, ThreadPlaces, Places
<1>1. ASSUME NEW target, BlockCurrent(c, target), target.on # "Tid" \/ Present(target.id)
      PROVE  JoinStep
  <2>1. currentTid[c] \in Tids /\ Present(currentTid[c])
    BY Zenon, <1>0, CurrentThread
  <2>2. \A t \in Tids :
            /\ state'[t] = IF t \in {currentTid[c]} THEN "Sleeping" ELSE state[t]
            /\ waitTarget'[t] = IF t \in {currentTid[c]} THEN target ELSE waitTarget[t]
    BY <1>1, <2>1 DEF BlockCurrent, TypeOK
  <2>3. nextTid' = nextTid
    BY Zenon, <1>1 DEF BlockCurrent
  <2>4. {currentTid[c]} \in SUBSET Tids /\ \A t \in {currentTid[c]} : Present(t)
    BY <2>1
  <2> QED
    BY <1>1, <2>2, <2>3, <2>4, ParkJoins
<1>2. ASSUME UNCHANGED threadVars, nextTid' = nextTid PROVE JoinStep
  BY <1>2, NobodyWoken, SetReadyAwake, WakeJoins
<1>3. \A k, n : On(k, n).on = k /\ On(k, n).id = n
  BY DEF On
<1>4. CASE SysSleep(c)
  <2>1. BlockCurrent(c, On("Tick", 0)) \/ BlockCurrent(c, On("Timer", 0))
    BY Zenon, <1>4 DEF SysSleep
  <2>2. On("Tick", 0).on # "Tid" /\ On("Timer", 0).on # "Tid"
    BY DEF On
  <2> QED
    BY Zenon, <1>1, <2>1, <2>2
<1>5. CASE SysThreadJoin(c)
  <2>1. \/ \E t \in Tids : Present(t) /\ BlockCurrent(c, On("Tid", t))
        \/ UNCHANGED threadVars /\ nextTid' = nextTid
    BY Zenon, <1>5 DEF SysThreadJoin
  <2> QED
    BY Zenon, <1>1, <1>2, <1>3, <2>1
<1>6. CASE SysWaitBlock(c)
  <2>1. BlockCurrent(c, On("Pid", arg[c])) /\ On("Pid", arg[c]).on # "Tid"
    BY <1>6 DEF SysWaitBlock, On
  <2> QED
    BY Zenon, <1>1, <2>1
<1>7. CASE SysRead(c)
  <2>1. CASE UNCHANGED threadVars /\ nextTid' = nextTid
    BY <1>2, <2>1
  <2> DEFINE T == MainsOf({CurrentPid(c)})
  <2>2. CASE /\ state' = [t \in Tids |-> IF t \in T THEN "Sleeping" ELSE state[t]]
             /\ waitTarget' = [t \in Tids |-> IF t \in T THEN On("Io", 0) ELSE waitTarget[t]]
             /\ nextTid' = nextTid
    <3>1. T \in SUBSET Tids /\ \A t \in T : Present(t)
      BY Zenon, MainsPresent
    <3>2. On("Io", 0).on # "Tid"
      BY DEF On
    <3>3. \A t \in Tids : /\ state'[t] = IF t \in T THEN "Sleeping" ELSE state[t]
                          /\ waitTarget'[t] = IF t \in T THEN On("Io", 0) ELSE waitTarget[t]
      BY Zenon, <2>2
    <3> HIDE DEF T
    <3> QED
      BY <2>2, <3>1, <3>2, <3>3, ParkJoins
  <2> QED
    BY Zenon, <1>7, <2>1, <2>2 DEF SysRead
<1> QED
  BY Zenon, <1>4, <1>5, <1>6, <1>7

(* A thread that SYS_THREAD_SPAWN or exec creates joins nobody.            *)
LEMMA CreateJoins ==
    ASSUME TypeOK, JoinInd, NEW c \in Cpus, SysThreadSpawn(c) \/ SysExec(c)
    PROVE  JoinStep
<1> USE DEF procVars, counters, stackVars, threadVars
<1>1. CASE UNCHANGED threadVars /\ nextTid' = nextTid
  BY <1>1, NobodyWoken, SetReadyAwake, WakeJoins
<1>2. ASSUME NEW s \in {"Ready", "Sleeping"}, nextTid <= MaxTid, nextTid' = nextTid + 1,
             waitTarget' = waitTarget, state' = [state EXCEPT ![nextTid] = s]
      PROVE  JoinStep
  <2>1. nextTid \in Tids /\ nextTid >= nextTid /\ nextTid' >= nextTid
    BY <1>2, NextIds, ConstantsAssumption DEF Tids
  <2>2. waitTarget[nextTid].on # "Tid"
    BY Zenon, <2>1 DEF JoinInd
  <2>3. \A t \in Tids : state'[t] = IF t = nextTid THEN s ELSE state[t]
    BY <1>2 DEF TypeOK
  <2>4. \A t \in Tids : Present(t) => Present(t)'
    BY <1>2, <2>3 DEF Present
  <2>5. \A t \in Tids : \/ waitTarget'[t].on # "Tid"
                        \/ /\ waitTarget'[t] = waitTarget[t]
                           /\ state'[t] = "Sleeping" => state[t] = "Sleeping"
    BY Zenon, <1>2, <2>2, <2>3
  <2> QED
    BY Zenon, <2>1, <2>4, <2>5 DEF JoinStep
<1>3. CASE SysThreadSpawn(c)
  <2>1. \/ UNCHANGED threadVars /\ nextTid' = nextTid
        \/ /\ nextTid <= MaxTid /\ nextTid' = nextTid + 1 /\ waitTarget' = waitTarget
           /\ state' = [state EXCEPT ![nextTid] = "Ready"]
    BY Zenon, <1>3 DEF SysThreadSpawn
  <2> QED
    BY <1>1, <1>2, <2>1
<1>4. CASE SysExec(c)
  <2>1. \/ UNCHANGED threadVars /\ nextTid' = nextTid
        \/ /\ nextTid <= MaxTid /\ nextTid' = nextTid + 1 /\ waitTarget' = waitTarget
           /\ state' = [state EXCEPT ![nextTid] = "Sleeping"]
    BY Zenon, <1>4 DEF SysExec
  <2> QED
    BY <1>1, <1>2, <2>1
<1> QED
  BY Zenon, <1>3, <1>4

(* exit_current_thread wakes those that join the thread that ends.         *)
LEMMA ExitThreadEnds ==
    ASSUME TypeOK, NEW c \in Cpus, currentTid[c] \in Tids, ExitCurrentThread(c)
    PROVE  EndStep(currentTid[c])
<1> DEFINE me == currentTid[c]
           W == SleepersOn(On("Tid", me))
<1>1. nextTid' = nextTid
  BY Zenon DEF ExitCurrentThread, counters
<1>2. \A t \in Tids : state'[t] = IF t = me THEN "Absent" ELSE IF t \in W THEN "Ready" ELSE state[t]
  <2>1. state' = [SetReady(W, state) EXCEPT ![me] = "Absent"]
    BY Zenon DEF ExitCurrentThread
  <2> QED
    BY <2>1 DEF SetReady
<1>3. \A t \in Tids : waitTarget'[t] = IF t \in W THEN NoTarget ELSE waitTarget[t]
  BY Zenon DEF ExitCurrentThread, WakeContexts, Untargeted
<1>4. NoTarget.on # "Tid"
  BY DEF NoTarget
<1>5. \A t \in Tids : t \in W <=> state[t] = "Sleeping" /\ waitTarget[t] = On("Tid", me)
  BY Zenon DEF SleepersOn
<1> HIDE DEF W
<1>6. \A t \in Tids : Present(t) /\ t # me => Present(t)'
  BY <1>2 DEF Present
<1>7. \A t \in Tids :
          \/ waitTarget'[t].on # "Tid"
          \/ /\ waitTarget'[t] = waitTarget[t]
             /\ state'[t] = "Sleeping" => state[t] = "Sleeping" /\ waitTarget[t] # On("Tid", me)
  <2> SUFFICES ASSUME NEW t \in Tids, waitTarget'[t].on = "Tid"
               PROVE  /\ waitTarget'[t] = waitTarget[t]
                      /\ state'[t] = "Sleeping" => state[t] = "Sleeping" /\ waitTarget[t] # On("Tid", me)
    BY Zenon
  <2>1. t \notin W
    BY Zenon, <1>3, <1>4
  <2>2. waitTarget'[t] = waitTarget[t]
    BY Zenon, <1>3, <2>1
  <2>3. state'[t] = "Sleeping" => state[t] = "Sleeping"
    BY <1>2, <2>1
  <2> QED
    BY Zenon, <1>5, <2>1, <2>2, <2>3
<1> QED
  BY Zenon, <1>1, <1>6, <1>7 DEF EndStep

(* So does the end of a process, whose only thread is the one that exits.  *)
LEMMA ExitLastEnds ==
    ASSUME TypeOK, TaskInv, NEW c \in Cpus, ExitLast(c)
    PROVE  currentTid[c] \in Tids /\ EndStep(currentTid[c])
<1> DEFINE me == currentTid[c]
           p == CurrentPid(c)
           st == SetReady(MainsOf(Orphans(p)), state)
           W == Waiters(p, me, st)
<1>0. me \in Tids
  BY Zenon, CurrentThread DEF ExitLast, ThreadPlaces, Places
<1>1. threads[p] = {me}
  BY Zenon DEF ExitLast, TaskInv, TableInv
<1>2. nextTid' = nextTid
  BY Zenon DEF ExitLast, counters
<1>3. \A t \in Tids : state'[t] = IF t = me THEN "Absent" ELSE IF t \in W THEN "Ready" ELSE st[t]
  <2>1. \A t \in Tids : state'[t] = IF t \in threads[p] THEN "Absent" ELSE SetReady(W, st)[t]
    BY Zenon DEF ExitLast
  <2> HIDE DEF W, st
  <2>2. \A t \in Tids : SetReady(W, st)[t] = IF t \in W THEN "Ready" ELSE st[t]
    BY DEF SetReady
  <2> QED
    BY <1>1, <2>1, <2>2
<1>4. \A t \in Tids : waitTarget'[t] = IF t \in W THEN NoTarget ELSE waitTarget[t]
  BY Zenon DEF ExitLast, WakeContexts, Untargeted
<1>5. NoTarget.on # "Tid"
  BY DEF NoTarget
<1>6. \A t \in Tids : st[t] = "Sleeping" /\ waitTarget[t] = On("Tid", me) => t \in W
  BY DEF Waiters
<1>7. Awake(st)
  BY Zenon, SetReadyAwake
<1> HIDE DEF W, st
<1>8. \A t \in Tids : Present(t) /\ t # me => Present(t)'
  BY <1>3, <1>7 DEF Present, Awake
<1>9. \A t \in Tids :
          \/ waitTarget'[t].on # "Tid"
          \/ /\ waitTarget'[t] = waitTarget[t]
             /\ state'[t] = "Sleeping" => state[t] = "Sleeping" /\ waitTarget[t] # On("Tid", me)
  <2> SUFFICES ASSUME NEW t \in Tids, waitTarget'[t].on = "Tid"
               PROVE  /\ waitTarget'[t] = waitTarget[t]
                      /\ state'[t] = "Sleeping" => state[t] = "Sleeping" /\ waitTarget[t] # On("Tid", me)
    BY Zenon
  <2>1. t \notin W
    BY Zenon, <1>4, <1>5
  <2>2. waitTarget'[t] = waitTarget[t]
    BY Zenon, <1>4, <2>1
  <2>3. state'[t] = "Sleeping" => st[t] = "Sleeping"
    BY <1>3, <2>1
  <2> QED
    BY Zenon, <1>6, <1>7, <2>1, <2>2, <2>3 DEF Awake
<1> QED
  BY Zenon, <1>0, <1>2, <1>8, <1>9 DEF EndStep

-----------------------------------------------------------------------------
(* Every step keeps the joins.                                             *)
LEMMA JoinIndStep ==
    ASSUME TypeOK, TypeOK', TaskInv, JoinInd, [Next]_vars
    PROVE  JoinInd'
<1> USE DEF procVars, counters, stackVars, threadVars
<1>1. CASE UNCHANGED vars
  <2>1. UNCHANGED threadVars /\ nextTid' = nextTid
    BY Zenon, <1>1 DEF vars
  <2> QED
    BY <2>1, NobodyWoken, SetReadyAwake, WakeJoins, JoinsKept
<1>2. ASSUME NEW c \in Cpus, Timer(c) \/ UserStep(c) \/ KernelStep(c)
      PROVE  JoinInd'
  <2>1. CASE \/ Timer(c) \/ UserStep(c) \/ EnterNextProcess(c) \/ TimerAfterReap(c)
             \/ ReturnToScheduler(c) \/ CommitBlock(c)
    BY Zenon, <2>1, ScheduleJoins, JoinsKept
  <2>2. CASE \/ SysWait(c) \/ SysExit(c) \/ SysThreadExit(c) \/ SysWrite(c)
             \/ SysKill(c) \/ SysSigterm(c) \/ SysSigintFg(c) \/ SendSigint(c) \/ SysSignalCatch(c)
             \/ SysSignalCheck(c) \/ SysExecSetParent(c) \/ SysExecSetReady(c)
    BY Zenon, <2>2, SignalJoins, JoinsKept
  <2>3. CASE SysSleep(c) \/ SysThreadJoin(c) \/ SysWaitBlock(c) \/ SysRead(c)
    BY Zenon, <2>3, BlockJoins, JoinsKept
  <2>4. CASE SysThreadSpawn(c) \/ SysExec(c)
    BY Zenon, <2>4, CreateJoins, JoinsKept
  <2>5. CASE ExitUnlessLast(c) \/ SysThreadExitSelf(c)
    <3>1. currentTid[c] \in Tids
      BY Zenon, <2>5, CurrentThread DEF ExitUnlessLast, SysThreadExitSelf, ThreadPlaces, Places
    <3>2. CASE ExitCurrentThread(c)
      BY Zenon, <3>1, <3>2, ExitThreadEnds, JoinersWoken
    <3>3. CASE UNCHANGED threadVars /\ nextTid' = nextTid
      BY <3>3, NobodyWoken, SetReadyAwake, WakeJoins, JoinsKept
    <3> QED
      BY Zenon, <2>5, <3>2, <3>3 DEF ExitUnlessLast, SysThreadExitSelf
  <2>6. CASE ExitLast(c)
    BY Zenon, <2>6, ExitLastEnds, JoinersWoken
  <2> QED
    BY Zenon, <1>2, <2>1, <2>2, <2>3, <2>4, <2>5, <2>6 DEF KernelStep
<1> QED
  BY Zenon, <1>1, <1>2 DEF Next

(* A process with more than one live thread keeps one when a thread ends.  *)
LEMMA AnotherThread ==
    ASSUME NEW S, NEW me, Cardinality(S) > 1
    PROVE  S \ {me} # {}
<1> SUFFICES ASSUME S \ {me} = {} PROVE FALSE
  OBVIOUS
<1>1. S = {} \/ S = {me}
  BY Zenon
<1>2. Cardinality({}) = 0 /\ Cardinality({me}) = 1
  BY Zenon, FS_EmptySet, FS_Singleton
<1>3. Cardinality(S) = 0 \/ Cardinality(S) = 1
  BY Zenon, <1>1, <1>2
<1> QED
  BY <1>3

(* A process that goes on living loses its last thread only in the second  *)
(* section of SYS_THREAD_EXIT.                                             *)
LEMMA KeepsAThread ==
    ASSUME TypeOK, TypeOK', TaskInv, TaskInv', Next,
           NEW p \in Pids, alive[p], alive'[p], LiveThreads(p) # {}, LiveThreads(p)' = {}
    PROVE  \E c \in Cpus : pc[c] = "texit2" /\ CurrentPid(c) = p
<1> USE DEF procVars, counters, stackVars, threadVars
<1>1. threads[p] # {} /\ threads'[p] = {}
  <2>1. \A t \in threads'[p] : Present(t)'
    BY Zenon DEF TaskInv, TableInv
  <2> QED
    BY Zenon, <2>1 DEF LiveThreads
<1>2. PICK c \in Cpus : Timer(c) \/ UserStep(c) \/ KernelStep(c)
  BY Zenon DEF Next
<1>3. threads' # threads
  BY Zenon, <1>1
<1>4. ~(\/ Timer(c) \/ UserStep(c) \/ EnterNextProcess(c) \/ TimerAfterReap(c)
        \/ ReturnToScheduler(c) \/ CommitBlock(c))
  BY Zenon, <1>3 DEF Timer, TimerReap, TimerSwitch, TimerIdle, UserStep, Int80, Fault,
                     EnterNextProcess, TimerAfterReap, ReturnToScheduler, CommitBlock
<1>5. ~(\/ SysSleep(c) \/ SysThreadJoin(c) \/ SysWait(c) \/ SysWaitBlock(c) \/ SysExit(c)
        \/ SysThreadExit(c) \/ SysRead(c) \/ SysWrite(c) \/ SysSigintFg(c))
  BY Zenon, <1>3 DEF SysSleep, SysThreadJoin, SysWait, SysWaitBlock, BlockCurrent, SysExit,
                     SysThreadExit, SysRead, SysWrite, SysSigintFg
<1>6. ~(\/ SysKill(c) \/ SysSigterm(c) \/ SendSigint(c) \/ SysSignalCatch(c) \/ SysSignalCheck(c)
        \/ SysExecSetParent(c) \/ SysExecSetReady(c))
  BY Zenon, <1>3 DEF SysKill, SysSigterm, SendSigint, SysSignalCatch, SysSignalCheck,
                     SysExecSetParent, SysExecSetReady
<1>7. ASSUME ExitCurrentThread(c), pc[c] \in ThreadPlaces
      PROVE  CurrentPid(c) = p /\ threads'[p] = threads[p] \ {currentTid[c]}
  <2>1. CurrentPid(c) \in Pids /\ CurrentPid(c) = tpid[currentTid[c]]
    BY Zenon, <1>7, CurrentThread
  <2>2. threads' = [threads EXCEPT ![CurrentPid(c)] = @ \ {currentTid[c]}]
    BY Zenon, <1>7, <2>1 DEF ExitCurrentThread
  <2> QED
    BY <1>1, <2>1, <2>2 DEF TypeOK
<1>8. CASE SysThreadExitSelf(c)
  BY Zenon, <1>7, <1>8 DEF SysThreadExitSelf, ThreadPlaces, Places
<1>9. ~ExitUnlessLast(c)
  <2> SUFFICES ASSUME ExitUnlessLast(c) PROVE FALSE
    OBVIOUS
  <2>1. pc[c] \in ThreadPlaces
    BY DEF ExitUnlessLast, ThreadPlaces, Places
  <2>2. ExitCurrentThread(c) /\ Cardinality(LiveThreads(CurrentPid(c))) > 1
    BY Zenon, <1>3 DEF ExitUnlessLast
  <2>3. LiveThreads(p) \ {currentTid[c]} # {}
    BY <1>7, <2>1, <2>2, AnotherThread
  <2> QED
    BY <1>1, <1>7, <2>1, <2>2, <2>3 DEF LiveThreads
<1>10. ~ExitLast(c)
  <2> SUFFICES ASSUME ExitLast(c) PROVE FALSE
    OBVIOUS
  <2>1. /\ alive' = [alive EXCEPT ![CurrentPid(c)] = FALSE]
        /\ threads' = [threads EXCEPT ![CurrentPid(c)] = {}]
    BY Zenon DEF ExitLast
  <2> QED
    BY <1>1, <2>1 DEF TypeOK
<1>11. ~(SysThreadSpawn(c) \/ SysExec(c))
  <2>1. ASSUME NEW q, NEW S, S # {}, threads' = [threads EXCEPT ![q] = S] PROVE FALSE
    BY <1>1, <2>1 DEF TypeOK
  <2>2. ~SysThreadSpawn(c)
    <3> SUFFICES ASSUME SysThreadSpawn(c) PROVE FALSE
      OBVIOUS
    <3>1. threads' = [threads EXCEPT ![CurrentPid(c)] = threads[CurrentPid(c)] \cup {nextTid}]
      BY Zenon, <1>3 DEF SysThreadSpawn
    <3> QED
      BY <2>1, <3>1
  <2>3. ~SysExec(c)
    <3> SUFFICES ASSUME SysExec(c) PROVE FALSE
      OBVIOUS
    <3>1. threads' = [threads EXCEPT ![nextPid] = {nextTid}]
      BY Zenon, <1>3 DEF SysExec
    <3> QED
      BY <2>1, <3>1
  <2> QED
    BY <2>2, <2>3
<1> QED
  BY Zenon, <1>2, <1>4, <1>5, <1>6, <1>8, <1>9, <1>10, <1>11 DEF KernelStep

(* Nobody sleeps in SYS_THREAD_JOIN on a thread that is gone, though waking *)
(* for a signal leaves old wait targets behind.                            *)
THEOREM JoinSafety == Spec => []NoJoinLost
<1>1. Init => JoinInd
  BY DEF Init, JoinInd, NoJoinLost, NoTarget
<1>2. TypeOK /\ TypeOK' /\ TaskInv /\ JoinInd /\ [Next]_vars => JoinInd'
  BY JoinIndStep
<1>3. JoinInd => NoJoinLost
  BY DEF JoinInd
<1> QED
  BY <1>1, <1>2, <1>3, TypeCorrect, TaskInvariant, PTL DEF Spec

(* A process that goes on living keeps a thread, but for a stale count of  *)
(* SYS_THREAD_EXIT, and whoever joins a thread is woken by its end.        *)
THEOREM EndingSafety == Spec => LastThreadEnds
<1>1. TypeOK /\ TypeOK' /\ TaskInv /\ TaskInv' /\ NoJoinLost' /\ [Next]_vars =>
        [/\ \A p \in Pids : alive[p] /\ alive'[p] /\ LiveThreads(p) # {} /\ LiveThreads(p)' = {} =>
              \E c \in Cpus : pc[c] = "texit2" /\ CurrentPid(c) = p
         /\ NoJoinLost']_vars
  BY Zenon, KeepsAThread
<1> QED
  BY <1>1, TypeCorrect, TaskInvariant, JoinSafety, PTL DEF Spec, LastThreadEnds

=============================================================================
