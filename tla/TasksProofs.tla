---------------------------- MODULE TasksProofs -----------------------------
(***************************************************************************)
(* Every action of Tasks preserves TaskInv, and the theorems that follow,  *)
(* for every number of CPUs, threads and processes and every set of system *)
(* calls.                                                                  *)
(***************************************************************************)
EXTENDS TasksChanges

(* Every action preserves TaskInv: the timer.                              *)
LEMMA TimerPreserves ==
    ASSUME TypeOK, TypeOK', TaskInv, NEW c \in Cpus, Timer(c)
    PROVE  TaskInv'
<1> USE DEF procVars, counters, stackVars
<1>1. CASE TimerReap(c)
  <2>1. PICK W \in Expired : Wake(W)
    BY <1>1 DEF TimerReap
  <2>2. \A t \in Tids : state'[t] = "Absent" <=> state[t] = "Absent"
    BY <2>1, ExpiredPresent, SetReadyKeepsPresence DEF Wake
  <2>3. \A d \in Cpus : /\ pc'[d] \in ThreadPlaces <=> pc[d] \in ThreadPlaces
                        /\ pc'[d] = "exit2" => pc[d] = "exit2"
    BY Zenon, <1>1 DEF TimerReap, ThreadPlaces, Places, TypeOK
  <2>4. QuietStep
    BY Zenon, <1>1, <2>1, <2>2, <2>3, ExpiredPresent DEF QuietStep, TimerReap, Wake, WakeContexts
  <2> QED
    BY <2>4, QuietPreserves
<1>2. CASE TimerSwitch(c)
  <2> DEFINE me == currentTid[c]
  <2>1. PICK W \in Expired :
            LET st == SetReady(W \cup {me}, state)
            IN  /\ Resume(c, ScheduleNext(c, me, st), st, Unblocked(W), [Restored(W) EXCEPT ![me] = TRUE])
                /\ waitTarget' = Untargeted(W)
    BY Zenon, <1>2 DEF TimerSwitch
  <2> DEFINE st == SetReady(W \cup {me}, state)
             n == ScheduleNext(c, me, st)
             cf == [Restored(W) EXCEPT ![me] = TRUE]
  <2>2. /\ me \in Tids /\ Present(me) /\ AssignedCpu(me) = c
        /\ \A d \in Cpus : d # c => currentTid[d] # me
    BY Zenon, <1>2, CurrentThread DEF TimerSwitch, ThreadPlaces, Places
  <2>3. W \in SUBSET Tids /\ \A t \in W : Present(t)
    BY ExpiredPresent
  <2>4. st \in [Tids -> ThreadStates] /\ st[me] = "Ready"
    BY <2>2, SetReadyType DEF TypeOK, SetReady
  <2>5. \A t \in Tids : st[t] = "Absent" <=> state[t] = "Absent"
    BY Zenon, <2>2, <2>3, SetReadyKeepsPresence
  <2>6. n # Nobody
    <3> DEFINE ready == {t \in Tids : AssignedCpu(t) = c /\ st[t] = "Ready"}
               higher == {t \in ready : t > me}
    <3>1. me \in ready /\ ready \in SUBSET Nat /\ higher \in SUBSET Nat
      <4> HIDE DEF me, st
      <4>1. Tids \in SUBSET Nat
        BY ConstantsAssumption DEF Tids
      <4>2. me \in ready
        BY <2>2, <2>4
      <4> QED
        BY Zenon, <4>1, <4>2
    <3>2. higher # {} => Min(higher) \in higher
      BY Zenon, <3>1, MinInSet
    <3>3. Min(ready) \in ready
      BY Zenon, <3>1, MinInSet
    <3>4. n = IF higher # {} THEN Min(higher) ELSE Min(ready)
      BY Zenon, <3>1 DEF ScheduleNext
    <3> HIDE DEF n, st
    <3> QED
      BY <3>2, <3>3, <3>4, TidNotNobody
  <2>7. n \in Tids /\ AssignedCpu(n) = c /\ st[n] = "Ready"
    BY <2>6, ScheduleNextReady
  <2>8. Resume(c, n, st, Unblocked(W), cf)
    BY <2>1
  <2>9. Unblocked(W) \in [Tids -> BOOLEAN] /\ Restored(W) \in [Tids -> BOOLEAN] /\ cf \in [Tids -> BOOLEAN]
    BY Zenon, SavedStateType
  <2>10. SavedExcept(c, Unblocked(W), cf)
    <3> SUFFICES ASSUME NEW t \in Tids, Present(t)
                 PROVE  IF \E d \in Cpus : d # c /\ currentTid[d] = t
                        THEN ~cf[t] /\ ~Unblocked(W)[t]
                        ELSE cf[t] # Unblocked(W)[t]
      BY Zenon DEF SavedExcept
    <3>1. /\ Unblocked(W)[t] = (t \notin W /\ blockingRsp[t])
          /\ Restored(W)[t] = (ctxFresh[t] \/ (t \in W /\ blockingRsp[t]))
      BY Zenon DEF Unblocked, Restored
    <3>2. blockingRsp[t] \in BOOLEAN /\ ctxFresh[t] \in BOOLEAN
      BY DEF TypeOK
    <3>3. CASE t = me
      <4>1. ~blockingRsp[t]
        BY <2>2, <3>3 DEF TaskInv, FrameInv
      <4>2. cf[t] = TRUE
        BY <2>9, <3>3
      <4> HIDE DEF cf
      <4> QED
        BY Zenon, <2>2, <3>1, <3>3, <4>1, <4>2
    <3>4. CASE t # me
      <4>1. cf[t] = Restored(W)[t]
        BY <2>9, <3>4
      <4>2. (\E d \in Cpus : d # c /\ currentTid[d] = t) <=> (\E d \in Cpus : currentTid[d] = t)
        BY <3>4
      <4> HIDE DEF cf
      <4> QED
        BY Zenon, <3>1, <3>2, <4>1, <4>2 DEF TaskInv, FrameInv
    <3> QED
      BY Zenon, <3>3, <3>4
  <2>11. UNCHANGED <<tpid, alive, threads, aspace, parent, nextTid, nextPid, stacks, pendingFree>>
    BY Zenon, <1>2 DEF TimerSwitch
  <2>12. \A t \in Tids : t >= nextTid => ~Unblocked(W)[t]
    BY FreshUnblocked
  <2> HIDE DEF n, st, cf, me
  <2> QED
    BY <2>4, <2>5, <2>7, <2>8, <2>9, <2>10, <2>11, <2>12, ResumePreserves
<1>3. CASE TimerIdle(c)
  <2>1. PICK W \in Expired :
            LET st == SetReady(W, state)
                n  == ScheduleNext(c, Nobody, st)
            IN  \/ /\ n # Nobody
                   /\ Resume(c, n, st, Unblocked(W), Restored(W))
                \/ /\ n = Nobody
                   /\ Wake(W)
                   /\ UNCHANGED <<currentTid, kstack, pc>>
    BY <1>3 DEF TimerIdle
  <2> DEFINE st == SetReady(W, state)
             n == ScheduleNext(c, Nobody, st)
  <2>2. W \in SUBSET Tids /\ \A t \in W : Present(t)
    BY ExpiredPresent
  <2>3. \A t \in Tids : st[t] = "Absent" <=> state[t] = "Absent"
    BY <2>2, SetReadyKeepsPresence
  <2>4. currentTid[c] = Nobody
    BY Zenon, <1>3 DEF TimerIdle, TaskInv, CurrentInv, ThreadPlaces
  <2>5. UNCHANGED <<tpid, alive, threads, aspace, parent, nextTid, nextPid, stacks, pendingFree>>
    BY <1>3 DEF TimerIdle
  <2>6. CASE n # Nobody /\ Resume(c, n, st, Unblocked(W), Restored(W))
    <3>1. st \in [Tids -> ThreadStates]
      BY SetReadyType DEF TypeOK
    <3>2. n \in Tids /\ AssignedCpu(n) = c /\ st[n] = "Ready"
      BY <2>6, ScheduleNextReady
    <3>3. Unblocked(W) \in [Tids -> BOOLEAN] /\ Restored(W) \in [Tids -> BOOLEAN]
      BY SavedStateType
    <3>4. SavedExcept(c, Unblocked(W), Restored(W))
      BY <2>2, <2>4, SavedAfterWake
    <3>5. \A t \in Tids : t >= nextTid => ~Unblocked(W)[t]
      BY FreshUnblocked
    <3> HIDE DEF n, st
    <3> QED
      BY <2>3, <2>5, <2>6, <3>1, <3>2, <3>3, <3>4, <3>5, ResumePreserves
  <2>7. CASE Wake(W) /\ UNCHANGED <<currentTid, kstack, pc>>
    <3>1. QuietStep
      BY Zenon, <2>2, <2>3, <2>5, <2>7 DEF QuietStep, Wake, WakeContexts
    <3> QED
      BY <3>1, QuietPreserves
  <2> QED
    BY <2>1, <2>6, <2>7
<1> QED
  BY <1>1, <1>2, <1>3 DEF Timer

(* A system call that only moves its CPU and changes no table.             *)
LEMMA QuietCall ==
    ASSUME TypeOK, TypeOK', TaskInv, NEW c \in Cpus, pc[c] \in ThreadPlaces,
           NEW place \in ThreadPlaces \ {"exit2"}, NEW value, Goto(c, place, value),
           \A t \in Tids : state'[t] = "Absent" <=> state[t] = "Absent",
           \A p \in Pids : ~alive[p] => parent'[p] = parent[p],
           UNCHANGED <<blockingRsp, ctxFresh, tpid, alive, threads, aspace, nextTid, nextPid,
                       stacks, pendingFree>>
    PROVE  TaskInv'
<1>1. \E W \in SUBSET Tids : blockingRsp' = Unblocked(W) /\ ctxFresh' = Restored(W)
  BY Zenon, NothingWoken
<1>2. QuietStep
  BY Zenon, <1>1, GotoQuiet DEF QuietStep
<1> QED
  BY <1>2, QuietPreserves

(* block_current preserves TaskInv.                                        *)
LEMMA BlockCurrentPreserves ==
    ASSUME TypeOK, TypeOK', TaskInv, NEW c \in Cpus, pc[c] \in ThreadPlaces,
           NEW target, BlockCurrent(c, target)
    PROVE  TaskInv'
<1>1. \A t \in Tids : state'[t] = "Absent" <=> state[t] = "Absent"
  BY Zenon, CurrentThread DEF BlockCurrent, TypeOK, Present
<1>2. "block" \in ThreadPlaces \ {"exit2"}
  BY DEF ThreadPlaces, Places
<1> QED
  BY Zenon, <1>1, <1>2, QuietCall DEF BlockCurrent, procVars, counters, stackVars

(* Entering the kernel, and the calls of a thread about itself.            *)
LEMMA ThreadCallPreserves ==
    ASSUME TypeOK, TypeOK', TaskInv, NEW c \in Cpus,
           \/ UserStep(c) \/ SysSleep(c) \/ SysThreadJoin(c) \/ SysWait(c) \/ SysWaitBlock(c)
           \/ SysExit(c) \/ SysThreadExit(c) \/ SysRead(c) \/ SysWrite(c)
    PROVE  TaskInv'
<1> USE DEF procVars, counters, stackVars, threadVars
<1>0. {"user", "sys", "wait2", "texit2", "block", "exit1"} \subseteq ThreadPlaces \ {"exit2"}
  BY DEF ThreadPlaces, Places
<1>1. CASE UserStep(c)
  <2>1. pc[c] = "user" /\ (pc' = [pc EXCEPT ![c] = "exit1"] \/ pc' = [pc EXCEPT ![c] = "sys"])
    BY Zenon, <1>1 DEF UserStep, Int80, Fault
  <2>2. \A d \in Cpus : /\ pc'[d] \in ThreadPlaces <=> pc[d] \in ThreadPlaces
                        /\ pc'[d] = "exit2" => pc[d] = "exit2"
    BY ZenonT(30), <1>0, <2>1 DEF TypeOK
  <2>3. UNCHANGED <<threadVars, procVars, counters, currentTid, kstack, stackVars>>
    BY Zenon, <1>1 DEF UserStep, Int80, Fault
  <2>4. \E W \in SUBSET Tids : blockingRsp' = Unblocked(W) /\ ctxFresh' = Restored(W)
    BY <2>3, NothingWoken
  <2>5. QuietStep
    BY Zenon, <2>2, <2>3, <2>4 DEF QuietStep
  <2> QED
    BY <2>5, QuietPreserves
<1>2. CASE SysSleep(c)
  BY <1>0, <1>2, BlockCurrentPreserves DEF SysSleep, InCall
<1>3. CASE SysThreadJoin(c)
  <2>1. pc[c] \in ThreadPlaces
    BY Zenon, <1>0, <1>3 DEF SysThreadJoin, InCall
  <2>2. PICK t \in Tids : \/ BlockCurrent(c, On("Tid", t))
                          \/ /\ ReturnToUser(c)
                             /\ UNCHANGED <<threadVars, procVars, counters, stackVars>>
    BY Zenon, <1>3 DEF SysThreadJoin
  <2> QED
    BY Zenon, <1>0, <2>1, <2>2, BlockCurrentPreserves, QuietCall DEF ReturnToUser
<1>4. CASE SysWait(c)
  <2>1. pc[c] \in ThreadPlaces
    BY <1>0, <1>4 DEF SysWait, InCall
  <2>2. /\ \E p \in Pids : Goto(c, "wait2", p) \/ Goto(c, "user", 0)
        /\ UNCHANGED <<threadVars, procVars, counters, stackVars>>
    BY Zenon, <1>4 DEF SysWait, ReturnToUser
  <2> QED
    BY Zenon, <1>0, <2>1, <2>2, QuietCall
<1>5. CASE SysWaitBlock(c)
  BY Zenon, <1>0, <1>5, BlockCurrentPreserves DEF SysWaitBlock
<1>6. CASE SysExit(c)
  BY Zenon, <1>0, <1>6, QuietCall DEF SysExit, InCall
<1>7. CASE SysThreadExit(c)
  <2>1. PICK place \in {"exit1", "texit2"} : Goto(c, place, 0)
    BY <1>7 DEF SysThreadExit
  <2> QED
    BY Zenon, <1>0, <1>7, <2>1, QuietCall DEF SysThreadExit, InCall
<1>8. CASE SysRead(c)
  <2>1. pc[c] \in ThreadPlaces
    BY Zenon, <1>0, <1>8 DEF SysRead, InCall
  <2>2. \A t \in Tids : state'[t] = "Absent" <=> state[t] = "Absent"
    BY <1>8 DEF SysRead, MainsOf, Present
  <2>3. /\ Goto(c, "block", 0) \/ Goto(c, "user", 0)
        /\ UNCHANGED <<tpid, blockingRsp, ctxFresh, procVars, counters, stackVars>>
    BY <1>8 DEF SysRead, ReturnToUser
  <2> QED
    BY Zenon, <1>0, <2>1, <2>2, <2>3, QuietCall
<1>9. CASE SysWrite(c)
  <2> DEFINE W == SleepersOn(On("Io", 0))
  <2>1. pc[c] \in ThreadPlaces /\ Goto(c, "user", 0)
    BY <1>0, <1>9 DEF SysWrite, InCall, ReturnToUser
  <2>2. W \in SUBSET Tids /\ \A t \in W : Present(t)
    BY SleepersPresent
  <2>3. state' = SetReady(W, state) /\ blockingRsp' = Unblocked(W) /\ ctxFresh' = Restored(W)
    BY <1>9 DEF SysWrite, Wake, WakeContexts
  <2>4. UNCHANGED <<tpid, procVars, counters, stackVars>>
    BY <1>9 DEF SysWrite
  <2> HIDE DEF W
  <2>5. \A t \in Tids : state'[t] = "Absent" <=> state[t] = "Absent"
    BY Zenon, <2>2, <2>3, SetReadyKeepsPresence
  <2>6. QuietStep
    BY Zenon, <1>0, <2>1, <2>2, <2>3, <2>4, <2>5, GotoQuiet DEF QuietStep
  <2> QED
    BY <2>6, QuietPreserves
<1> QED
  BY <1>1, <1>2, <1>3, <1>4, <1>5, <1>6, <1>7, <1>8, <1>9

(* Kills, signals and the set-up steps of exec.                            *)
LEMMA SignalCallPreserves ==
    ASSUME TypeOK, TypeOK', TaskInv, NEW c \in Cpus,
           \/ SysKill(c) \/ SysSigterm(c) \/ SysSigintFg(c) \/ SendSigint(c)
           \/ SysSignalCatch(c) \/ SysSignalCheck(c) \/ SysExecSetParent(c) \/ SysExecSetReady(c)
    PROVE  TaskInv'
<1> USE DEF procVars, counters, stackVars, threadVars
<1>0. {"user", "sys", "sig2", "exec2", "exec3"} \subseteq ThreadPlaces \ {"exit2"}
  BY DEF ThreadPlaces, Places
<1>1. CASE SysKill(c)
  <2>1. pc[c] \in ThreadPlaces /\ Goto(c, "user", 0)
    BY <1>0, <1>1 DEF SysKill, InCall, ReturnToUser
  <2>2. \E P : state' = SetReady(MainsOf(P), state)
    BY <1>1 DEF SysKill, KillPids
  <2>3. \A t \in Tids : state'[t] = "Absent" <=> state[t] = "Absent"
    BY <2>2, MainsPresent, SetReadyKeepsPresence
  <2> QED
    BY Zenon, <1>0, <1>1, <2>1, <2>3, QuietCall DEF SysKill
<1>2. CASE SysSigterm(c)
  <2>1. pc[c] \in ThreadPlaces /\ Goto(c, "user", 0)
    BY Zenon, <1>0, <1>2 DEF SysSigterm, InCall, ReturnToUser
  <2>2. \E P : state' = SetReady(MainsOf(P), state)
    BY Zenon, <1>2 DEF SysSigterm
  <2>3. \A t \in Tids : state'[t] = "Absent" <=> state[t] = "Absent"
    BY <2>2, MainsPresent, SetReadyKeepsPresence
  <2> QED
    BY Zenon, <1>0, <1>2, <2>1, <2>3, QuietCall DEF SysSigterm
<1>3. CASE SysSigintFg(c)
  <2>1. pc[c] \in ThreadPlaces
    BY <1>0, <1>3 DEF SysSigintFg, InCall
  <2>2. \E leaf \in Pids : Goto(c, "sig2", leaf) \/ Goto(c, "user", 0)
    BY <1>3 DEF SysSigintFg, ReturnToUser
  <2> QED
    BY ZenonT(30), <1>0, <1>3, <2>1, <2>2, QuietCall DEF SysSigintFg
<1>4. CASE SendSigint(c)
  <2>1. pc[c] \in ThreadPlaces /\ Goto(c, "user", 0)
    BY Zenon, <1>0, <1>4 DEF SendSigint, ReturnToUser
  <2>2. PICK P, Q, asleep : /\ asleep = {t \in MainsOf(P) : state[t] = "Sleeping"}
                            /\ state' = SetReady(asleep \cup MainsOf(Q), state)
                            /\ blockingRsp' = Unblocked(asleep) /\ ctxFresh' = Restored(asleep)
    BY Zenon, <1>4 DEF SendSigint, WakeContexts
  <2>3. /\ asleep \in SUBSET Tids
        /\ asleep \cup MainsOf(Q) \in SUBSET Tids
        /\ \A t \in asleep \cup MainsOf(Q) : Present(t)
    BY Zenon, <2>2, MainsPresent
  <2>4. \A t \in Tids : state'[t] = "Absent" <=> state[t] = "Absent"
    BY Zenon, <2>2, <2>3, SetReadyKeepsPresence
  <2>5. UNCHANGED <<tpid, alive, threads, aspace, parent, nextTid, nextPid, stacks, pendingFree>>
    BY Zenon, <1>4 DEF SendSigint
  <2>6. QuietStep
    BY Zenon, <1>0, <2>1, <2>2, <2>3, <2>4, <2>5, GotoQuiet DEF QuietStep
  <2> QED
    BY <2>6, QuietPreserves
<1>5. CASE SysSignalCatch(c)
  BY Zenon, <1>0, <1>5, QuietCall DEF SysSignalCatch, InCall, ReturnToUser
<1>6. CASE SysSignalCheck(c)
  BY Zenon, <1>0, <1>6, QuietCall DEF SysSignalCheck, InCall, ReturnToUser
<1>7. CASE SysExecSetParent(c)
  BY Zenon, <1>0, <1>7, QuietCall DEF SysExecSetParent
<1>8. CASE SysExecSetReady(c)
  <2>1. pc[c] \in ThreadPlaces /\ Goto(c, "user", 0)
    BY Zenon, <1>0, <1>8 DEF SysExecSetReady, ReturnToUser
  <2>2. \A t \in Tids : state'[t] = "Absent" <=> state[t] = "Absent"
    BY Zenon, <1>8, MainsPresent, SetReadyKeepsPresence DEF SysExecSetReady
  <2> QED
    BY Zenon, <1>0, <1>8, <2>1, <2>2, QuietCall DEF SysExecSetReady
<1> QED
  BY <1>1, <1>2, <1>3, <1>4, <1>5, <1>6, <1>7, <1>8

(* A CPU without a current thread: what is saved is unchanged.             *)
LEMMA SavedWhenIdle ==
    ASSUME TypeOK, TaskInv, NEW c \in Cpus, pc[c] \notin ThreadPlaces
    PROVE  currentTid[c] = Nobody /\ SavedExcept(c, blockingRsp, ctxFresh)
<1>1. currentTid[c] = Nobody
  BY DEF TaskInv, CurrentInv
<1>2. SavedExcept(c, Unblocked({}), Restored({}))
  BY <1>1, SavedAfterWake
<1> QED
  BY <1>1, <1>2, NothingWoken

(* Leaving the kernel through the scheduler.                               *)
LEMMA ScheduleStepPreserves ==
    ASSUME TypeOK, TypeOK', TaskInv, NEW c \in Cpus,
           EnterNextProcess(c) \/ TimerAfterReap(c) \/ ReturnToScheduler(c) \/ CommitBlock(c)
    PROVE  TaskInv'
<1> USE DEF procVars, counters, stackVars, threadVars
<1>0. {"sched", "idle", "idleLoop", "return"} \subseteq Places \ ThreadPlaces
  BY DEF ThreadPlaces, Places
<1>9. \A t \in Tids : t >= nextTid => ~blockingRsp[t]
  BY DEF TaskInv, FreshInv
<1>1. ASSUME NEW n, n # Nobody, NEW current, n = ScheduleNext(c, current, state), pc[c] \notin ThreadPlaces,
             Resume(c, n, state, blockingRsp, ctxFresh),
             UNCHANGED <<tpid, alive, threads, aspace, parent, nextTid, nextPid, stacks, pendingFree>>
      PROVE  TaskInv'
  <2>1. n \in Tids /\ AssignedCpu(n) = c /\ state[n] = "Ready"
    BY <1>1, ScheduleNextReady
  <2>2. SavedExcept(c, blockingRsp, ctxFresh)
    BY Zenon, <1>1, SavedWhenIdle
  <2>3. /\ state \in [Tids -> ThreadStates]
        /\ blockingRsp \in [Tids -> BOOLEAN] /\ ctxFresh \in [Tids -> BOOLEAN]
    BY Zenon DEF TypeOK
  <2> QED
    BY <1>1, <1>9, <2>1, <2>2, <2>3, ResumePreserves
<1>2. CASE EnterNextProcess(c)
  <2>0. pc[c] \notin ThreadPlaces
    BY Zenon, <1>0, <1>2 DEF EnterNextProcess
  <2>1. CASE ScheduleNext(c, Nobody, state) # Nobody
             /\ Resume(c, ScheduleNext(c, Nobody, state), state, blockingRsp, ctxFresh)
    BY Zenon, <1>1, <1>2, <2>0, <2>1 DEF EnterNextProcess
  <2>2. CASE /\ pc' = [pc EXCEPT ![c] = "idle"]
             /\ currentTid' = [currentTid EXCEPT ![c] = Nobody]
             /\ UNCHANGED <<state, blockingRsp, ctxFresh, kstack>>
    BY Zenon, <1>0, <1>2, <1>9, <2>0, <2>2, SavedWhenIdle, ParkPreserves DEF EnterNextProcess
  <2> QED
    BY Zenon, <1>2, <2>1, <2>2 DEF EnterNextProcess
<1>3. CASE TimerAfterReap(c)
  <2>0. pc[c] \notin ThreadPlaces
    BY <1>0, <1>3 DEF TimerAfterReap
  <2>1. CASE ScheduleNext(c, arg[c], state) # Nobody
             /\ Resume(c, ScheduleNext(c, arg[c], state), state, blockingRsp, ctxFresh)
    BY Zenon, <1>1, <1>3, <2>0, <2>1 DEF TimerAfterReap
  <2>2. CASE /\ pc' = [pc EXCEPT ![c] = "idleLoop"]
             /\ currentTid' = [currentTid EXCEPT ![c] = Nobody]
             /\ kstack' = [kstack EXCEPT ![c] = Nobody]
             /\ UNCHANGED <<state, blockingRsp, ctxFresh>>
    BY Zenon, <1>0, <1>3, <1>9, <2>0, <2>2, SavedWhenIdle, ParkPreserves DEF TimerAfterReap
  <2> QED
    BY Zenon, <1>3, <2>1, <2>2 DEF TimerAfterReap
<1>4. CASE ReturnToScheduler(c)
  <2>0. pc[c] \notin ThreadPlaces
    BY <1>0, <1>4 DEF ReturnToScheduler
  <2>1. \/ kstack' = [kstack EXCEPT ![c] = Nobody]
        \/ kstack' = kstack /\ currentTid[c] = Nobody
    BY Zenon, <1>4, <2>0, SavedWhenIdle DEF ReturnToScheduler, TypeOK
  <2> QED
    BY Zenon, <1>0, <1>4, <1>9, <2>0, <2>1, SavedWhenIdle, ParkPreserves DEF ReturnToScheduler
<1>5. CASE CommitBlock(c)
  <2> DEFINE me == currentTid[c]
  <2>1. /\ me \in Tids /\ Present(me)
        /\ \A d \in Cpus : d # c => currentTid[d] # me
    BY Zenon, <1>5, CurrentThread DEF CommitBlock, ThreadPlaces, Places
  <2>2. /\ blockingRsp'[me] = TRUE /\ ctxFresh' = ctxFresh
        /\ \A t \in Tids : t # me => blockingRsp'[t] = blockingRsp[t]
    BY Zenon, <1>5, <2>1 DEF CommitBlock, TypeOK
  <2>3. ~ctxFresh[me]
    BY Zenon, <2>1 DEF TaskInv, FrameInv
  <2>4. SavedExcept(c, blockingRsp', ctxFresh')
    <3> SUFFICES ASSUME NEW t \in Tids, Present(t)
                 PROVE  IF \E d \in Cpus : d # c /\ currentTid[d] = t
                        THEN ~ctxFresh'[t] /\ ~blockingRsp'[t]
                        ELSE ctxFresh'[t] # blockingRsp'[t]
      BY Zenon DEF SavedExcept
    <3>1. CASE t = me
      BY Zenon, <2>1, <2>2, <2>3, <3>1
    <3>2. CASE t # me
      <4>1. (\E d \in Cpus : d # c /\ currentTid[d] = t) <=> (\E d \in Cpus : currentTid[d] = t)
        BY <3>2
      <4> QED
        BY Zenon, <2>2, <3>2, <4>1 DEF TaskInv, FrameInv
    <3> QED
      BY Zenon, <3>1, <3>2
  <2>5. \A t \in Tids : t >= nextTid => ~blockingRsp'[t]
    BY ZenonT(30), <1>9, <2>1, <2>2 DEF TaskInv, FreshInv
  <2> HIDE DEF me
  <2> QED
    BY Zenon, <1>0, <1>5, <2>4, <2>5, ParkPreserves DEF CommitBlock
<1> QED
  BY <1>2, <1>3, <1>4, <1>5

(* A CPU moves on to tear the process of its only thread down.             *)
LEMMA ExitUnlessLastPreserves ==
    ASSUME TypeOK, TypeOK', TaskInv, NEW c \in Cpus, ExitUnlessLast(c)
    PROVE  TaskInv'
<1>1. pc[c] = "exit1" /\ pc[c] \in ThreadPlaces
  BY Zenon DEF ExitUnlessLast, ThreadPlaces, Places
<1>2. CASE ExitCurrentThread(c)
  BY <1>1, <1>2, ExitCurrentThreadPreserves
<1>3. CASE /\ Cardinality(LiveThreads(CurrentPid(c))) <= 1
           /\ Goto(c, "exit2", arg[c])
           /\ UNCHANGED <<threadVars, procVars, counters, stackVars>>
  <2> USE DEF procVars, counters, stackVars, threadVars
  <2>1. \A t : Present(t)' <=> Present(t)
    BY <1>3 DEF Present
  <2>2. /\ pc'[c] = "exit2" /\ UNCHANGED <<currentTid, kstack>>
        /\ \A d \in Cpus : d # c => pc'[d] = pc[d]
    BY Zenon, <1>3 DEF Goto, TypeOK
  <2>3. CurrentInv'
    BY Zenon, <1>1, <1>3, <2>1, <2>2 DEF TaskInv, CurrentInv, ThreadPlaces, Places
  <2>4. threads[CurrentPid(c)] = {currentTid[c]}
    <3>1. /\ CurrentPid(c) \in Pids
          /\ currentTid[c] \in threads[CurrentPid(c)]
          /\ threads[CurrentPid(c)] \in SUBSET Tids
      BY Zenon, <1>1, CurrentThread DEF TypeOK
    <3>2. LiveThreads(CurrentPid(c)) = threads[CurrentPid(c)]
      BY Zenon, <3>1 DEF LiveThreads, TaskInv, TableInv
    <3> QED
      BY Zenon, <1>3, <3>1, <3>2, OnlyLiveThread
  <2>5. TableInv'
    BY Zenon, <1>3, <2>1, <2>2, <2>4 DEF TaskInv, TableInv, CurrentPid
  <2>6. FreshInv' /\ StackInv' /\ FrameInv'
    BY Zenon, <1>3, <2>1, <2>2 DEF TaskInv, FreshInv, StackInv, FrameInv
  <2> QED
    BY <2>3, <2>5, <2>6 DEF TaskInv
<1> QED
  BY Zenon, <1>2, <1>3 DEF ExitUnlessLast

(* SYS_THREAD_SPAWN and SYS_EXEC.                                          *)
LEMMA SpawnPreserves ==
    ASSUME TypeOK, TypeOK', TaskInv, NEW c \in Cpus, SysThreadSpawn(c) \/ SysExec(c)
    PROVE  TaskInv'
<1> USE DEF procVars, counters, stackVars, threadVars
<1>0. /\ {"user", "sys", "exec2"} \subseteq ThreadPlaces \ {"exit2"}
      /\ {"Ready", "Sleeping"} \subseteq ThreadStates \ {"Absent"}
  BY DEF ThreadPlaces, Places, ThreadStates
<1>1. pc[c] = "sys" /\ pc[c] \in ThreadPlaces
  BY Zenon, <1>0 DEF SysThreadSpawn, SysExec, InCall
<1>2. CASE Goto(c, "user", 0) /\ UNCHANGED <<threadVars, procVars, counters, stackVars>>
  BY Zenon, <1>0, <1>1, <1>2, QuietCall
<1>3. ASSUME nextTid <= MaxTid PROVE nextTid \in Tids
  BY <1>3, NextIds, ConstantsAssumption DEF Tids
<1>4. CASE SysThreadSpawn(c) /\ nextTid <= MaxTid /\ state' = [state EXCEPT ![nextTid] = "Ready"]
           /\ nextTid' = nextTid + 1
  <2> DEFINE q == CurrentPid(c)
  <2>1. q \in Pids /\ alive[q] /\ currentTid[c] \in threads[q]
    BY Zenon, <1>1, CurrentThread
  <2>2. aspace[q] = "live" /\ q < nextPid
    <3>1. aspace[q] = "live" /\ ~(q >= nextPid)
      BY Zenon, <2>1 DEF TaskInv, TableInv, FreshInv
    <3> HIDE DEF q
    <3> QED
      BY <2>1, <3>1, NextIds
  <2>3. alive' = [alive EXCEPT ![q] = TRUE] /\ aspace' = [aspace EXCEPT ![q] = "live"]
    <3>1. UNCHANGED <<alive, aspace>>
      BY Zenon, <1>4 DEF SysThreadSpawn
    <3>2. alive \in [Pids -> BOOLEAN] /\ alive[q] = TRUE
      BY Zenon, <2>1 DEF TypeOK
    <3>3. aspace \in [Pids -> {"none", "live", "freed", "leaked"}]
      BY Zenon DEF TypeOK
    <3> HIDE DEF q
    <3>4. alive = [alive EXCEPT ![q] = TRUE]
      BY <3>2
    <3>5. aspace = [aspace EXCEPT ![q] = "live"]
      BY <2>2, <3>3
    <3> QED
      BY <3>1, <3>4, <3>5
  <2>4. /\ tpid' = [tpid EXCEPT ![nextTid] = q]
        /\ ctxFresh' = [ctxFresh EXCEPT ![nextTid] = TRUE]
        /\ threads' = [threads EXCEPT ![q] = @ \cup {nextTid}]
        /\ stacks' = stacks \cup {nextTid}
        /\ nextPid' = nextPid
        /\ pc' = [pc EXCEPT ![c] = "user"]
        /\ UNCHANGED <<blockingRsp, parent, currentTid, kstack, pendingFree>>
    <3>1. nextTid' # nextTid
      BY <1>4, NextIds
    <3> QED
      BY Zenon, <1>4, <3>1 DEF SysThreadSpawn, ReturnToUser, Goto
  <2>5. \A d \in Cpus : pc[d] = "exit2" => CurrentPid(d) # q
    <3> SUFFICES ASSUME NEW d \in Cpus, pc[d] = "exit2", CurrentPid(d) = q PROVE FALSE
      OBVIOUS
    <3>1. threads[q] = {currentTid[d]}
      BY Zenon DEF TaskInv, TableInv
    <3>2. d # c /\ currentTid[d] = currentTid[c]
      BY Zenon, <1>1, <2>1, <3>1
    <3> QED
      BY Zenon, <1>1, <3>2, CurrentThread
  <2>6. "user" \in ThreadPlaces \ {"exit2"} /\ "Ready" \in ThreadStates \ {"Absent"}
    BY <1>0
  <2> HIDE DEF q
  <2> QED
    BY Zenon, <1>1, <1>3, <1>4, <2>1, <2>2, <2>3, <2>4, <2>5, <2>6, CreatePreserves
<1>5. CASE SysExec(c) /\ nextTid <= MaxTid /\ nextPid <= MaxPid
           /\ state' = [state EXCEPT ![nextTid] = "Sleeping"] /\ nextTid' = nextTid + 1
  <2> DEFINE q == nextPid
  <2>1. q \in Pids /\ q < nextPid + 1
    BY <1>5, NextIds, ConstantsAssumption DEF Pids
  <2>2. ~alive[q] /\ threads[q] = {}
    <3>1. ~alive[q]
      BY <2>1, ConstantsAssumption DEF TaskInv, FreshInv, Pids
    <3>2. \A t : t \notin threads[q]
      BY <2>1, <3>1 DEF TaskInv, TableInv
    <3> QED
      BY Zenon, <3>1, <3>2
  <2>3. /\ tpid' = [tpid EXCEPT ![nextTid] = q]
        /\ ctxFresh' = [ctxFresh EXCEPT ![nextTid] = TRUE]
        /\ threads' = [threads EXCEPT ![q] = {nextTid}]
        /\ alive' = [alive EXCEPT ![q] = TRUE]
        /\ aspace' = [aspace EXCEPT ![q] = "live"]
        /\ stacks' = stacks \cup {nextTid}
        /\ nextPid' = nextPid + 1
        /\ pc' = [pc EXCEPT ![c] = "exec2"]
        /\ UNCHANGED <<blockingRsp, parent, currentTid, kstack, pendingFree>>
    <3>1. nextTid' # nextTid
      BY <1>5, NextIds
    <3> QED
      BY Zenon, <1>5, <3>1 DEF SysExec, ReturnToUser, Goto
  <2>4. threads' = [threads EXCEPT ![q] = @ \cup {nextTid}]
    <3>1. threads[q] \cup {nextTid} = {nextTid}
      BY Zenon, <2>2
    <3> QED
      BY Zenon, <2>3, <3>1
  <2>5. \A d \in Cpus : pc[d] = "exit2" => CurrentPid(d) # q
    <3> SUFFICES ASSUME NEW d \in Cpus, pc[d] = "exit2", CurrentPid(d) = q PROVE FALSE
      OBVIOUS
    <3>1. threads[q] = {currentTid[d]}
      BY Zenon DEF TaskInv, TableInv
    <3> QED
      BY Zenon, <2>2, <3>1
  <2>6. "exec2" \in ThreadPlaces \ {"exit2"} /\ "Sleeping" \in ThreadStates \ {"Absent"}
    BY <1>0
  <2>7. q < nextPid'
    BY <2>1, <2>3
  <2> HIDE DEF q
  <2> QED
    BY Zenon, <1>1, <1>3, <1>5, <2>1, <2>3, <2>4, <2>5, <2>6, <2>7, CreatePreserves
<1> QED
  BY Zenon, <1>2, <1>4, <1>5 DEF SysThreadSpawn, SysExec, ReturnToUser

-----------------------------------------------------------------------------
(* Every step preserves the inductive invariant.                           *)
LEMMA TaskInvStep ==
    ASSUME TypeOK, TypeOK', TaskInv, [Next]_vars
    PROVE  TaskInv'
<1>1. CASE UNCHANGED vars
  <2>1. UNCHANGED <<state, tpid, blockingRsp, ctxFresh, alive, threads, parent, aspace, nextTid,
                    nextPid, currentTid, pc, kstack, stacks, pendingFree>>
    BY <1>1 DEF vars, threadVars, procVars, counters, cpuVars, stackVars
  <2>2. \E W \in SUBSET Tids : blockingRsp' = Unblocked(W) /\ ctxFresh' = Restored(W)
    BY <2>1, NothingWoken
  <2>3. QuietStep
    BY Zenon, <2>1, <2>2 DEF QuietStep
  <2> QED
    BY <2>3, QuietPreserves
<1>2. ASSUME NEW c \in Cpus, Timer(c) \/ UserStep(c) \/ KernelStep(c)
      PROVE  TaskInv'
  <2>1. CASE Timer(c)
    BY <2>1, TimerPreserves
  <2>2. CASE SysThreadExitSelf(c)
    BY <2>2, ExitCurrentThreadPreserves DEF SysThreadExitSelf, ThreadPlaces, Places
  <2>3. CASE ExitUnlessLast(c)
    BY <2>3, ExitUnlessLastPreserves
  <2>4. CASE ExitLast(c)
    BY <2>4, ExitLastPreserves
  <2>5. CASE SysThreadSpawn(c) \/ SysExec(c)
    BY <2>5, SpawnPreserves
  <2>6. CASE EnterNextProcess(c) \/ TimerAfterReap(c) \/ ReturnToScheduler(c) \/ CommitBlock(c)
    BY <2>6, ScheduleStepPreserves
  <2>7. CASE \/ UserStep(c) \/ SysSleep(c) \/ SysThreadJoin(c) \/ SysWait(c) \/ SysWaitBlock(c)
             \/ SysExit(c) \/ SysThreadExit(c) \/ SysRead(c) \/ SysWrite(c)
    BY <2>7, ThreadCallPreserves
  <2>8. CASE \/ SysKill(c) \/ SysSigterm(c) \/ SysSigintFg(c) \/ SendSigint(c)
             \/ SysSignalCatch(c) \/ SysSignalCheck(c) \/ SysExecSetParent(c) \/ SysExecSetReady(c)
    BY <2>8, SignalCallPreserves
  <2> QED
    BY <1>2, <2>1, <2>2, <2>3, <2>4, <2>5, <2>6, <2>7, <2>8 DEF KernelStep
<1> QED
  BY <1>1, <1>2 DEF Next

(* The tables, the CPUs and the kernel stacks agree in every reachable     *)
(* state, for any number of CPUs, threads and processes.                   *)
THEOREM TaskInvariant == Spec => []TaskInv
<1>1. Init => TaskInv
  <2> SUFFICES ASSUME Init PROVE TaskInv
    OBVIOUS
  <2>1. \A t : Present(t) <=> t \in Tids /\ t <= NumBoot
    BY DEF Init, Present
  <2>2. \A t \in Tids : t <= NumBoot => t \in Pids
    BY ConstantsAssumption DEF Tids, Pids
  <2>3. \A p \in Pids : p <= NumBoot => p \in Tids
    BY ConstantsAssumption DEF Tids, Pids
  <2>4. CurrentInv
    BY DEF Init, CurrentInv, ThreadPlaces, Places, Nobody
  <2>5. TableInv
    BY Zenon, <2>1, <2>2, <2>3 DEF Init, TableInv
  <2>6. FreshInv
    <3>1. \A t \in Tids : t >= nextTid => ~(t <= NumBoot)
      BY ConstantsAssumption DEF Init, Tids
    <3>2. \A p \in Pids : p >= nextPid => ~(p <= NumBoot)
      BY ConstantsAssumption DEF Init, Pids
    <3> QED
      BY Zenon, <2>1, <3>1, <3>2 DEF Init, FreshInv
  <2>7. StackInv
    BY <2>1 DEF Init, StackInv
  <2>8. FrameInv
    BY Zenon, <2>1, TidNotNobody DEF Init, FrameInv
  <2> QED
    BY <2>4, <2>5, <2>6, <2>7, <2>8 DEF TaskInv
<1>2. TypeOK /\ TypeOK' /\ TaskInv /\ [Next]_vars => TaskInv'
  BY TaskInvStep
<1> QED
  BY <1>1, <1>2, TypeCorrect, PTL DEF Spec

(* The same with the types of the tables: the invariant that run lifecycle *)
(* checks.                                                                 *)
THEOREM TaskSafety == Spec => []TasksInv
<1>1. TypeOK /\ TaskInv => TasksInv
  BY DEF TasksInv
<1> QED
  BY <1>1, TypeCorrect, TaskInvariant, PTL

(* A CPU runs only live threads assigned to it.                            *)
THEOREM CpuAffinity == Spec => []ThreadOnItsCpu
<1>1. TaskInv => ThreadOnItsCpu
  BY DEF TaskInv, CurrentInv, ThreadOnItsCpu
<1> QED
  BY <1>1, TaskInvariant, PTL

(* No thread outlives its process or its page tables.                      *)
THEOREM TeardownSafety == Spec => []NoUseAfterTeardown
<1>1. TaskInv => NoUseAfterTeardown
  <2> SUFFICES ASSUME TaskInv, NEW t \in Tids, Present(t)
               PROVE  tpid[t] # Nobody /\ alive[tpid[t]] /\ aspace[tpid[t]] = "live"
    BY DEF NoUseAfterTeardown
  <2>1. tpid[t] \in Pids /\ t \in threads[tpid[t]]
    BY ZenonT(30) DEF TaskInv, TableInv
  <2>2. tpid[t] # Nobody
    BY <2>1, ConstantsAssumption DEF Pids, Nobody
  <2> QED
    BY Zenon, <2>1, <2>2 DEF TaskInv, TableInv
<1> QED
  BY <1>1, TaskInvariant, PTL

(* A kernel stack in use is allocated and used by one CPU only.            *)
THEOREM KernelStackSafety == Spec => []KernelStackSafe
<1>1. TypeOK /\ TaskInv => KernelStackSafe
  <2> SUFFICES ASSUME TypeOK, TaskInv, NEW c \in Cpus
               PROVE  /\ kstack[c] # Nobody => kstack[c] \in stacks /\ AssignedCpu(kstack[c]) = c
                      /\ pc[c] = "user" => kstack[c] = currentTid[c]
    BY DEF KernelStackSafe
  <2>1. CASE currentTid[c] = Nobody
    BY <2>1 DEF TaskInv, CurrentInv, StackInv, ThreadPlaces, Places
  <2>2. CASE currentTid[c] # Nobody
    BY <2>2 DEF TaskInv, CurrentInv, StackInv, Present
  <2> QED
    BY Zenon, <2>1, <2>2
<1> QED
  BY <1>1, TypeCorrect, TaskInvariant, PTL

(* Every dead thread's kernel stack is stashed on a CPU or freed.          *)
THEOREM StackReclamation == Spec => []StacksReclaimed
<1>1. TypeOK /\ TaskInv => StacksReclaimed
  BY AssignedCpuType DEF TypeOK, TaskInv, StackInv, StacksReclaimed
<1> QED
  BY <1>1, TypeCorrect, TaskInvariant, PTL

(* A thread that is not running resumes from exactly one saved state.      *)
THEOREM ResumeSafety == Spec => []ResumeStateFresh
<1>1. TaskInv => ResumeStateFresh
  BY DEF TaskInv, FrameInv, ResumeStateFresh
<1> QED
  BY <1>1, TaskInvariant, PTL

-----------------------------------------------------------------------------
(* Orphans are flagged: kill_children runs in the section that removes the *)
(* parent, and exec's set_parent names a process that is running.          *)
LEMMA FamilyUnchanged ==
    ASSUME TypeOK, OrphansKilled, UNCHANGED <<alive, parent>>,
           \A p \in Pids : killPending[p] => killPending'[p]
    PROVE  OrphansKilled'
  BY Zenon DEF OrphansKilled

(* Every step keeps the orphans flagged.                                   *)
LEMMA OrphanStep ==
    ASSUME TypeOK, TypeOK', TaskInv, OrphansKilled, [Next]_vars
    PROVE  OrphansKilled'
<1> USE DEF procVars, counters, stackVars, threadVars
<1>1. CASE UNCHANGED vars
  BY <1>1, FamilyUnchanged DEF vars
<1>2. ASSUME NEW c \in Cpus, Timer(c) \/ UserStep(c) \/ KernelStep(c)
      PROVE  OrphansKilled'
  <2>1. CASE Timer(c)
    BY Zenon, <2>1, FamilyUnchanged DEF Timer, TimerReap, TimerSwitch, TimerIdle
  <2>2. CASE UserStep(c)
    BY <2>2, FamilyUnchanged DEF UserStep, Int80, Fault
  <2>3. CASE EnterNextProcess(c) \/ TimerAfterReap(c) \/ ReturnToScheduler(c) \/ CommitBlock(c)
    BY Zenon, <2>3, FamilyUnchanged DEF EnterNextProcess, TimerAfterReap, ReturnToScheduler, CommitBlock
  <2>4. CASE ExitUnlessLast(c)
    <3>1. UNCHANGED <<alive, parent>>
      BY Zenon, <2>4 DEF ExitUnlessLast, ExitCurrentThread
    <3>2. killPending' = [killPending EXCEPT ![CurrentPid(c)] = TRUE] \/ UNCHANGED killPending
      BY Zenon, <2>4 DEF ExitUnlessLast
    <3>3. \A p \in Pids : killPending[p] => killPending'[p]
      BY <3>2 DEF TypeOK
    <3> QED
      BY <3>1, <3>3, FamilyUnchanged
  <2>5. CASE ExitLast(c)
    <3> DEFINE q == CurrentPid(c)
    <3>0. q \in Pids
      BY Zenon, <2>5, CurrentThread DEF ExitLast, ThreadPlaces, Places
    <3>1. /\ \A p \in Pids : alive'[p] = (p # q /\ alive[p])
          /\ \A p \in Pids : parent'[p] = IF p = q THEN Nobody ELSE parent[p]
      BY ZenonT(30), <2>5, <3>0 DEF ExitLast, TypeOK
    <3>2. \A p \in Pids : p # q /\ (killPending[p] \/ (Killable(p) /\ parent[p] = q)) => killPending'[p]
      BY Zenon, <2>5 DEF ExitLast, Orphans
    <3> HIDE DEF q
    <3> SUFFICES ASSUME NEW p \in Pids, alive'[p], parent'[p] # Nobody, p \notin Drivers
                 PROVE  alive'[parent'[p]] \/ killPending'[p]
      BY Zenon DEF OrphansKilled
    <3>3. p # q /\ alive[p] /\ parent'[p] = parent[p] /\ parent[p] \in Pids
      BY Zenon, <3>1 DEF TypeOK
    <3>4. CASE parent[p] = q
      BY Zenon, <3>2, <3>3, <3>4 DEF Killable
    <3>5. CASE parent[p] # q
      BY <3>1, <3>2, <3>3, <3>5 DEF OrphansKilled
    <3> QED
      BY <3>4, <3>5
  <2>6. CASE SysThreadSpawn(c)
    BY <2>6, FamilyUnchanged DEF SysThreadSpawn
  <2>7. CASE SysExec(c)
    <3>1. CASE UNCHANGED procVars
      BY <3>1, FamilyUnchanged
    <3>2. CASE /\ nextPid <= MaxPid
               /\ alive' = [alive EXCEPT ![nextPid] = TRUE]
               /\ UNCHANGED <<parent, killPending>>
      <4>1. nextPid \in Pids
        BY <3>2, ConstantsAssumption DEF TypeOK, Pids
      <4>2. parent[nextPid] = Nobody
        BY <4>1, ConstantsAssumption DEF TaskInv, FreshInv, Pids
      <4>3. \A p \in Pids : alive'[p] <=> alive[p] \/ p = nextPid
        BY <3>2, <4>1 DEF TypeOK
      <4> SUFFICES ASSUME NEW p \in Pids, alive'[p], parent[p] # Nobody, p \notin Drivers
                   PROVE  alive'[parent[p]] \/ killPending[p]
        BY <3>2 DEF OrphansKilled
      <4>4. alive[p] /\ parent[p] \in Pids
        BY <4>2, <4>3 DEF TypeOK
      <4> QED
        BY ZenonT(30), <4>3, <4>4 DEF OrphansKilled
    <3> QED
      BY <2>7, <3>1, <3>2 DEF SysExec
  <2>8. CASE SysExecSetParent(c)
    <3>1. /\ alive' = alive /\ killPending' = killPending
          /\ \A p \in Pids : parent'[p] \in {parent[p], CurrentPid(c)}
      BY <2>8 DEF SysExecSetParent
    <3>2. alive[CurrentPid(c)]
      BY Zenon, <2>8, CurrentThread DEF SysExecSetParent, ThreadPlaces, Places
    <3> QED
      BY <3>1, <3>2 DEF OrphansKilled
  <2>9. CASE \/ SysSleep(c) \/ SysThreadJoin(c) \/ SysWait(c) \/ SysWaitBlock(c) \/ SysExit(c)
             \/ SysThreadExit(c) \/ SysThreadExitSelf(c) \/ SysRead(c) \/ SysWrite(c)
             \/ SysSigintFg(c) \/ SysSignalCatch(c) \/ SysSignalCheck(c) \/ SysExecSetReady(c)
    <3>1. UNCHANGED <<alive, parent, killPending>>
      BY Zenon, <2>9 DEF SysSleep, SysThreadJoin, SysWait, SysWaitBlock, SysExit, SysThreadExit,
                  SysThreadExitSelf, ExitCurrentThread, SysRead, SysWrite, SysSigintFg,
                  SysSignalCatch, SysSignalCheck, SysExecSetReady, BlockCurrent
    <3> QED
      BY <3>1, FamilyUnchanged
  <2>10. CASE SysKill(c) \/ SysSigterm(c) \/ SendSigint(c)
    <3>1. UNCHANGED <<alive, parent>> /\ \A p \in Pids : killPending[p] => killPending'[p]
      BY Zenon, <2>10 DEF SysKill, KillPids, SysSigterm, SendSigint
    <3> QED
      BY <3>1, FamilyUnchanged
  <2> QED
    BY <1>2, <2>1, <2>2, <2>3, <2>4, <2>5, <2>6, <2>7, <2>8, <2>9, <2>10 DEF KernelStep
<1> QED
  BY <1>1, <1>2 DEF Next

(* A process whose parent is gone is flagged to die.                       *)
THEOREM OrphanSafety == Spec => []OrphansKilled
<1>1. Init => OrphansKilled
  BY DEF Init, OrphansKilled
<1>2. TypeOK /\ TypeOK' /\ TaskInv /\ OrphansKilled /\ [Next]_vars => OrphansKilled'
  BY OrphanStep
<1> QED
  BY <1>1, <1>2, TypeCorrect, TaskInvariant, PTL DEF Spec

(* Of the ways to kill a process, only its own exit and SYS_SIGTERM flag a *)
(* driver.                                                                 *)
THEOREM DriverSafety == Spec => DriverSpared
<1> DEFINE Spared == \A p \in Drivers : ~killPending[p] /\ killPending'[p] =>
                        \E c \in Cpus : (pc[c] = "exit1" /\ CurrentPid(c) = p) \/ SysSigterm(c)
<1>1. ASSUME TypeOK, Next PROVE Spared
  <2> USE DEF procVars, counters, stackVars, threadVars
  <2> SUFFICES ASSUME NEW p \in Drivers, ~killPending[p], killPending'[p]
               PROVE  \E c \in Cpus : (pc[c] = "exit1" /\ CurrentPid(c) = p) \/ SysSigterm(c)
    OBVIOUS
  <2>0. p \in Pids /\ ~Killable(p)
    BY ConstantsAssumption DEF Killable, Pids
  <2>1. PICK c \in Cpus : Timer(c) \/ UserStep(c) \/ KernelStep(c)
    BY <1>1 DEF Next
  <2>2. ~Timer(c) /\ ~UserStep(c)
    BY Zenon DEF Timer, TimerReap, TimerSwitch, TimerIdle, UserStep, Int80, Fault
  <2>3. ~(EnterNextProcess(c) \/ TimerAfterReap(c) \/ ReturnToScheduler(c) \/ CommitBlock(c))
    BY Zenon DEF EnterNextProcess, TimerAfterReap, ReturnToScheduler, CommitBlock
  <2>4. CASE ExitUnlessLast(c)
    <3>1. killPending' = [killPending EXCEPT ![CurrentPid(c)] = TRUE]
      BY Zenon, <2>4 DEF ExitUnlessLast
    <3>2. CurrentPid(c) = p /\ pc[c] = "exit1"
      BY <1>1, <2>0, <2>4, <3>1 DEF TypeOK, ExitUnlessLast
    <3> QED
      BY Zenon, <3>2
  <2>5. ~ExitLast(c)
    BY Zenon, <2>0 DEF ExitLast, Orphans
  <2>6. ~(\/ SysSleep(c) \/ SysThreadJoin(c) \/ SysWait(c) \/ SysWaitBlock(c) \/ SysExit(c)
          \/ SysThreadExit(c) \/ SysThreadExitSelf(c) \/ SysRead(c) \/ SysWrite(c)
          \/ SysSigintFg(c) \/ SysSignalCatch(c) \/ SysSignalCheck(c) \/ SysExecSetReady(c))
    BY Zenon DEF SysSleep, SysThreadJoin, SysWait, SysWaitBlock, SysExit, SysThreadExit,
           SysThreadExitSelf, SysRead, SysWrite, SysSigintFg, SysSignalCatch, SysSignalCheck,
           SysExecSetReady, BlockCurrent
  <2>7. ~(SysThreadSpawn(c) \/ SysExec(c) \/ SysExecSetParent(c))
    BY Zenon DEF SysThreadSpawn, SysExec, SysExecSetParent
  <2>8. ~(SysKill(c) \/ SendSigint(c))
    BY Zenon, <2>0 DEF SysKill, KillPids, SendSigint
  <2> QED
    BY Zenon, <2>1, <2>2, <2>3, <2>4, <2>5, <2>6, <2>7, <2>8 DEF KernelStep
<1>2. TypeOK /\ [Next]_vars => [Spared]_vars
  BY <1>1
<1>3. TypeOK /\ [Next]_vars =>
        [\A p \in Drivers : ~killPending[p] /\ killPending'[p] =>
            \E c \in Cpus : (pc[c] = "exit1" /\ CurrentPid(c) = p) \/ SysSigterm(c)]_vars
  BY <1>2
<1> QED
  BY <1>3, TypeCorrect, PTL DEF Spec, DriverSpared

=============================================================================
