----------------------------- MODULE TasksTypes -----------------------------
(***************************************************************************)
(* Lemmas about the operators of Tasks, and type correctness, for every    *)
(* number of CPUs, threads and processes and every set of calls.           *)
(***************************************************************************)
EXTENDS Tasks, FiniteSetTheorems, WellFoundedInduction, TLAPS

(* A set of naturals that is not empty has its least element as Min.       *)
LEMMA MinInSet ==
    ASSUME NEW S \in SUBSET Nat, S # {}
    PROVE  Min(S) \in S /\ \A y \in S : Min(S) <= y
<1> DEFINE Less == {ss \in Nat \X Nat : ss[1] < ss[2]}
<1>1. IsWellFoundedOn(Less, Nat)
  BY NatLessThanWellFounded, Zenon DEF OpToRel
<1>2. PICK x \in S : \A y \in S : ~(<<y, x>> \in Less)
  BY Zenon, <1>1, WFMin
<1>3. \A y \in S : x <= y
  <2> TAKE y \in S
  <2>1. x \in Nat /\ y \in Nat
    OBVIOUS
  <2>2. <<y, x>> \in Nat \X Nat /\ <<y, x>>[1] = y /\ <<y, x>>[2] = x
    BY <2>1
  <2>3. ~(<<y, x>>[1] < <<y, x>>[2])
    BY <1>2, <2>2, Zenon
  <2> QED
    BY <2>1, <2>2, <2>3
<1> QED
  BY Zenon, <1>3 DEF Min

(* schedule_next returns Nobody or a Ready thread assigned to this CPU.    *)
LEMMA ScheduleNextReady ==
    ASSUME NEW c \in Cpus, NEW current, NEW st, ScheduleNext(c, current, st) # Nobody
    PROVE  /\ ScheduleNext(c, current, st) \in Tids
           /\ AssignedCpu(ScheduleNext(c, current, st)) = c
           /\ st[ScheduleNext(c, current, st)] = "Ready"
<1> DEFINE ready == {t \in Tids : AssignedCpu(t) = c /\ st[t] = "Ready"}
           higher == {t \in ready : t > current}
<1>1. ready \in SUBSET Nat /\ higher \in SUBSET Nat
  BY ConstantsAssumption DEF Tids
<1>2. CASE higher # {}
  <2>1. Min(higher) \in higher
    BY <1>1, <1>2, MinInSet
  <2>2. ScheduleNext(c, current, st) = Min(higher)
    BY <1>2 DEF ScheduleNext
  <2> QED
    BY <2>1, <2>2
<1>3. CASE higher = {} /\ ready # {}
  <2>1. Min(ready) \in ready
    BY <1>1, <1>3, MinInSet
  <2>2. ScheduleNext(c, current, st) = Min(ready)
    BY <1>3 DEF ScheduleNext
  <2> QED
    BY <2>1, <2>2
<1>4. CASE higher = {} /\ ready = {}
  BY <1>4 DEF ScheduleNext
<1> QED
  BY <1>2, <1>3, <1>4

(* No thread has the identifier that stands for none.                      *)
LEMMA TidNotNobody == \A t \in Tids : t # Nobody
  BY ConstantsAssumption DEF Tids, Nobody

(* Identifiers and the counters that hand them out are numbers.            *)
LEMMA NextIds ==
    ASSUME TypeOK
    PROVE  /\ nextTid \in Nat /\ nextTid >= 1 /\ nextPid \in Nat /\ nextPid >= 1
           /\ Tids \subseteq Nat /\ Pids \subseteq Nat
<1>1. nextTid \in 1..(MaxTid + 1) /\ nextPid \in 1..(MaxPid + 1)
  BY Zenon DEF TypeOK
<1>2. MaxTid + 1 \in Nat /\ MaxPid + 1 \in Nat
  BY ConstantsAssumption
<1> QED
  BY <1>1, <1>2 DEF Tids, Pids

(* create_kernel_thread assigns a thread to a CPU that exists.             *)
LEMMA AssignedCpuType ==
    ASSUME NEW t \in Tids
    PROVE  AssignedCpu(t) \in Cpus
  BY ConstantsAssumption DEF AssignedCpu, Tids, Cpus

(* A process with at most one live thread, which is me, has only me.       *)
LEMMA OnlyLiveThread ==
    ASSUME NEW S \in SUBSET Tids, NEW me \in S, Cardinality(S) <= 1
    PROVE  S = {me}
<1>1. IsFiniteSet(Tids)
  BY FS_Interval, ConstantsAssumption DEF Tids
<1>2. IsFiniteSet(S)
  BY <1>1, FS_Subset
<1>3. ASSUME NEW u \in S, u # me
      PROVE  FALSE
  <2>1. IsFiniteSet({me}) /\ Cardinality({me}) = 1
    BY Zenon, FS_Singleton
  <2>2. Cardinality({me} \cup {u}) = 2
    <3>1. u \notin {me}
      BY <1>3
    <3>2. Cardinality({me} \cup {u}) = Cardinality({me}) + 1
      BY Zenon, <2>1, <3>1, FS_AddElement
    <3> QED
      BY <2>1, <3>2
  <2>3. Cardinality({me} \cup {u}) <= Cardinality(S)
    BY <1>2, <1>3, FS_Subset
  <2> QED
    BY <2>2, <2>3, <1>2, FS_CardinalityType
<1> QED
  BY <1>3

-----------------------------------------------------------------------------
(* Types                                                                   *)

(* The process of the current thread of a CPU is a process or none.        *)
LEMMA CurrentPidType ==
    ASSUME TypeOK, NEW c \in Cpus
    PROVE  CurrentPid(c) \in Pids \cup {Nobody}
  BY DEF TypeOK, CurrentPid

(* What a thread can wait for is a wait target.                            *)
LEMMA TargetType ==
    /\ NoTarget \in WaitTarget
    /\ \A k \in {"None", "Pid", "Tid", "Tick", "Timer", "Io"}, n \in Nat : On(k, n) \in WaitTarget
  BY DEF NoTarget, WaitTarget, On

(* set_ready leaves a thread table.                                        *)
LEMMA SetReadyType ==
    ASSUME NEW T, NEW st \in [Tids -> ThreadStates]
    PROVE  SetReady(T, st) \in [Tids -> ThreadStates]
  BY DEF SetReady, ThreadStates

(* Waking threads leaves their targets, frames and contexts well typed.    *)
LEMMA SavedStateType ==
    ASSUME TypeOK, NEW W
    PROVE  /\ Untargeted(W) \in [Tids -> WaitTarget]
           /\ Unblocked(W) \in [Tids -> BOOLEAN]
           /\ Restored(W) \in [Tids -> BOOLEAN]
  BY TargetType DEF TypeOK, Untargeted, Unblocked, Restored

(* Resuming the selected thread keeps the types it touches.                *)
LEMMA ResumeType ==
    ASSUME TypeOK, NEW c \in Cpus, NEW n \in Tids \cup {Nobody},
           NEW st \in [Tids -> ThreadStates],
           NEW bl \in [Tids -> BOOLEAN], NEW cf \in [Tids -> BOOLEAN],
           Resume(c, n, st, bl, cf)
    PROVE  /\ state' \in [Tids -> ThreadStates]
           /\ blockingRsp' \in [Tids -> BOOLEAN]
           /\ ctxFresh' \in [Tids -> BOOLEAN]
           /\ currentTid' \in [Cpus -> Tids \cup {Nobody}]
           /\ kstack' \in [Cpus -> Tids \cup {Nobody}]
           /\ pc' \in [Cpus -> Places]
  BY Zenon DEF TypeOK, Resume, ThreadStates, Places

(* Moving a CPU to a place of the kernel keeps its types.                  *)
LEMMA GotoType ==
    ASSUME TypeOK, NEW c \in Cpus, NEW place \in Places, NEW value \in Nat,
           Goto(c, place, value)
    PROVE  /\ pc' \in [Cpus -> Places]
           /\ arg' \in [Cpus -> Nat]
           /\ currentTid' = currentTid /\ via' = via /\ kstack' = kstack
  BY DEF TypeOK, Goto

(* schedule_next returns a thread or nobody.                               *)
LEMMA ScheduleNextType ==
    ASSUME NEW c \in Cpus, NEW current, NEW st
    PROVE  ScheduleNext(c, current, st) \in Tids \cup {Nobody}
  BY ScheduleNextReady

(* exit_current_thread keeps the types.                                    *)
LEMMA ExitCurrentThreadType ==
    ASSUME TypeOK, NEW c \in Cpus, ExitCurrentThread(c), killPending' \in [Pids -> BOOLEAN]
    PROVE  TypeOK'
<1> DEFINE me == currentTid[c]
           W == SleepersOn(On("Tid", me))
<1>1. me \in Tids \cup {Nobody} /\ me \in Nat
  BY ConstantsAssumption DEF TypeOK, Tids, Nobody
<1>2. state' \in [Tids -> ThreadStates]
  <2>1. SetReady(W, state) \in [Tids -> ThreadStates]
    BY SetReadyType DEF TypeOK
  <2> QED
    BY Zenon, <2>1 DEF ExitCurrentThread, ThreadStates
<1>3. /\ waitTarget' \in [Tids -> WaitTarget]
      /\ blockingRsp' \in [Tids -> BOOLEAN]
      /\ ctxFresh' \in [Tids -> BOOLEAN]
  BY SavedStateType DEF ExitCurrentThread, WakeContexts
<1>4. stacks' \in SUBSET Tids /\ pendingFree' \in [Cpus -> Tids \cup {Nobody}]
  BY <1>1 DEF TypeOK, ExitCurrentThread, DeferFreeKernelStack
<1>5. /\ threads' \in [Pids -> SUBSET Tids]
      /\ currentTid' \in [Cpus -> Tids \cup {Nobody}]
      /\ pc' \in [Cpus -> Places]
      /\ arg' \in [Cpus -> Nat]
  BY Zenon, <1>1 DEF TypeOK, ExitCurrentThread, Places
<1> QED
  BY <1>2, <1>3, <1>4, <1>5 DEF TypeOK, ExitCurrentThread, counters

(* The timer interrupt keeps the types.                                    *)
LEMMA TimerType ==
    ASSUME TypeOK, NEW c \in Cpus,
           \/ TimerReap(c) \/ TimerSwitch(c) \/ TimerIdle(c)
    PROVE  TypeOK'
<1> USE DEF threadVars, procVars, counters, stackVars
<1>1. CASE TimerReap(c)
  <2>1. PICK W \in Expired : Wake(W)
    BY <1>1 DEF TimerReap
  <2>2. /\ state' \in [Tids -> ThreadStates]
        /\ waitTarget' \in [Tids -> WaitTarget]
        /\ blockingRsp' \in [Tids -> BOOLEAN]
        /\ ctxFresh' \in [Tids -> BOOLEAN]
    BY <2>1, SetReadyType, SavedStateType DEF Wake, WakeContexts, TypeOK
  <2> QED
    BY <1>1, <2>2 DEF TypeOK, TimerReap, Places, Vias
<1>2. CASE TimerSwitch(c)
  <2>1. PICK W \in Expired :
            LET me == currentTid[c]
                st == SetReady(W \cup {me}, state)
            IN  /\ Resume(c, ScheduleNext(c, me, st), st, Unblocked(W), [Restored(W) EXCEPT ![me] = TRUE])
                /\ waitTarget' = Untargeted(W)
    BY Zenon, <1>2 DEF TimerSwitch
  <2> DEFINE st == SetReady(W \cup {currentTid[c]}, state)
             n == ScheduleNext(c, currentTid[c], st)
             cf == [Restored(W) EXCEPT ![currentTid[c]] = TRUE]
  <2>2. st \in [Tids -> ThreadStates]
    BY SetReadyType DEF TypeOK
  <2>3. Unblocked(W) \in [Tids -> BOOLEAN] /\ cf \in [Tids -> BOOLEAN]
    BY Zenon, SavedStateType
  <2>4. n \in Tids \cup {Nobody}
    BY ScheduleNextType
  <2>5. Resume(c, n, st, Unblocked(W), cf)
    BY <2>1
  <2> HIDE DEF st, n, cf
  <2>6. /\ state' \in [Tids -> ThreadStates]
        /\ blockingRsp' \in [Tids -> BOOLEAN]
        /\ ctxFresh' \in [Tids -> BOOLEAN]
        /\ currentTid' \in [Cpus -> Tids \cup {Nobody}]
        /\ kstack' \in [Cpus -> Tids \cup {Nobody}]
        /\ pc' \in [Cpus -> Places]
    BY Zenon, <2>2, <2>3, <2>4, <2>5, ResumeType
  <2>7. waitTarget' \in [Tids -> WaitTarget]
    BY <2>1, SavedStateType
  <2> QED
    BY <1>2, <2>6, <2>7 DEF TypeOK, TimerSwitch
<1>3. CASE TimerIdle(c)
  <2>1. PICK W \in Expired :
            LET st == SetReady(W, state)
                n  == ScheduleNext(c, Nobody, st)
            IN  \/ /\ n # Nobody
                   /\ Resume(c, n, st, Unblocked(W), Restored(W))
                   /\ waitTarget' = Untargeted(W)
                \/ /\ n = Nobody
                   /\ Wake(W)
                   /\ UNCHANGED <<currentTid, kstack, pc>>
    BY <1>3 DEF TimerIdle
  <2> DEFINE st == SetReady(W, state)
             n == ScheduleNext(c, Nobody, st)
  <2>2. st \in [Tids -> ThreadStates]
    BY SetReadyType DEF TypeOK
  <2>3. n \in Tids \cup {Nobody}
    BY ScheduleNextType
  <2>4. CASE Resume(c, n, st, Unblocked(W), Restored(W)) /\ waitTarget' = Untargeted(W)
    <3> HIDE DEF st, n
    <3>1. /\ state' \in [Tids -> ThreadStates]
          /\ blockingRsp' \in [Tids -> BOOLEAN]
          /\ ctxFresh' \in [Tids -> BOOLEAN]
          /\ currentTid' \in [Cpus -> Tids \cup {Nobody}]
          /\ kstack' \in [Cpus -> Tids \cup {Nobody}]
          /\ pc' \in [Cpus -> Places]
      BY Zenon, <2>2, <2>3, <2>4, ResumeType, SavedStateType
    <3> QED
      BY <1>3, <2>4, <3>1, SavedStateType DEF TypeOK, TimerIdle
  <2>5. CASE Wake(W) /\ UNCHANGED <<currentTid, kstack, pc>>
    BY <1>3, <2>2, <2>5, SavedStateType DEF TypeOK, TimerIdle, Wake, WakeContexts
  <2> QED
    BY <2>1, <2>4, <2>5
<1> QED
  BY Zenon, <1>1, <1>2, <1>3

(* So do entering the kernel and the paths back to the scheduler.          *)
LEMMA ScheduleType ==
    ASSUME TypeOK, NEW c \in Cpus,
           \/ Int80(c) \/ Fault(c) \/ EnterNextProcess(c)
           \/ ReturnToScheduler(c) \/ TimerAfterReap(c)
           \/ CommitBlock(c)
    PROVE  TypeOK'
<1> USE DEF threadVars, procVars, counters, stackVars
<1>1. CASE Int80(c)
  BY <1>1 DEF TypeOK, Int80, Places, Vias
<1>2. CASE Fault(c)
  BY <1>2 DEF TypeOK, Fault, Places, Vias
<1>3. CASE EnterNextProcess(c)
  <2> DEFINE n == ScheduleNext(c, Nobody, state)
  <2>1. n \in Tids \cup {Nobody}
    BY ScheduleNextType
  <2>2. CASE Resume(c, n, state, blockingRsp, ctxFresh)
    <3>1. /\ state \in [Tids -> ThreadStates]
          /\ blockingRsp \in [Tids -> BOOLEAN]
          /\ ctxFresh \in [Tids -> BOOLEAN]
      BY DEF TypeOK
    <3> HIDE DEF n
    <3>2. /\ state' \in [Tids -> ThreadStates]
          /\ blockingRsp' \in [Tids -> BOOLEAN]
          /\ ctxFresh' \in [Tids -> BOOLEAN]
          /\ currentTid' \in [Cpus -> Tids \cup {Nobody}]
          /\ kstack' \in [Cpus -> Tids \cup {Nobody}]
          /\ pc' \in [Cpus -> Places]
      BY <2>1, <2>2, <3>1, ResumeType
    <3> QED
      BY <1>3, <3>2 DEF TypeOK, EnterNextProcess
  <2>3. CASE /\ pc' = [pc EXCEPT ![c] = "idle"]
             /\ currentTid' = [currentTid EXCEPT ![c] = Nobody]
             /\ UNCHANGED <<state, blockingRsp, ctxFresh, kstack>>
    BY <1>3, <2>3 DEF TypeOK, EnterNextProcess, Places
  <2> QED
    BY <1>3, <2>2, <2>3 DEF EnterNextProcess
<1>4. CASE ReturnToScheduler(c)
  BY <1>4 DEF TypeOK, ReturnToScheduler, Places
<1>5. CASE TimerAfterReap(c)
  <2> DEFINE n == ScheduleNext(c, arg[c], state)
  <2>1. n \in Tids \cup {Nobody}
    BY ScheduleNextType
  <2>2. CASE Resume(c, n, state, blockingRsp, ctxFresh)
    <3>1. /\ state \in [Tids -> ThreadStates]
          /\ blockingRsp \in [Tids -> BOOLEAN]
          /\ ctxFresh \in [Tids -> BOOLEAN]
      BY DEF TypeOK
    <3> HIDE DEF n
    <3>2. /\ state' \in [Tids -> ThreadStates]
          /\ blockingRsp' \in [Tids -> BOOLEAN]
          /\ ctxFresh' \in [Tids -> BOOLEAN]
          /\ currentTid' \in [Cpus -> Tids \cup {Nobody}]
          /\ kstack' \in [Cpus -> Tids \cup {Nobody}]
          /\ pc' \in [Cpus -> Places]
      BY <2>1, <2>2, <3>1, ResumeType
    <3> QED
      BY Zenon, <1>5, <3>2 DEF TypeOK, TimerAfterReap
  <2>3. CASE /\ pc' = [pc EXCEPT ![c] = "idleLoop"]
             /\ currentTid' = [currentTid EXCEPT ![c] = Nobody]
             /\ kstack' = [kstack EXCEPT ![c] = Nobody]
             /\ UNCHANGED <<state, blockingRsp, ctxFresh>>
    BY <1>5, <2>3 DEF TypeOK, TimerAfterReap, Places
  <2> QED
    BY <1>5, <2>2, <2>3 DEF TimerAfterReap
<1>6. CASE CommitBlock(c)
  BY Zenon, <1>6 DEF TypeOK, CommitBlock, Places
<1> QED
  BY Zenon, <1>1, <1>2, <1>3, <1>4, <1>5, <1>6

(* The two sections of exit_current.                                       *)
LEMMA ExitType ==
    ASSUME TypeOK, NEW c \in Cpus,
           \/ ExitUnlessLast(c) \/ ExitLast(c)
    PROVE  TypeOK'
<1> USE DEF threadVars, procVars, counters, stackVars
<1>1. CASE ExitUnlessLast(c)
  <2>1. CASE ExitCurrentThread(c) /\ killPending' = [killPending EXCEPT ![CurrentPid(c)] = TRUE]
    <3>1. killPending' \in [Pids -> BOOLEAN]
      BY Zenon, <2>1 DEF TypeOK
    <3> QED
      BY <2>1, <3>1, ExitCurrentThreadType
  <2>2. CASE Goto(c, "exit2", arg[c]) /\ UNCHANGED <<threadVars, procVars, counters, stackVars>>
    BY <2>2 DEF TypeOK, Goto, Places
  <2> QED
    BY <1>1, <2>1, <2>2 DEF ExitUnlessLast
<1>2. CASE ExitLast(c)
  <2> DEFINE me == currentTid[c]
             p == CurrentPid(c)
             K == Orphans(p)
             st == SetReady(MainsOf(K), state)
             W == Waiters(p, me, st)
  <2>1. me \in Tids \cup {Nobody} /\ me \in Nat
    BY ConstantsAssumption DEF TypeOK, Tids, Nobody
  <2>2. state' \in [Tids -> ThreadStates]
    <3>1. st \in [Tids -> ThreadStates]
      BY SetReadyType DEF TypeOK
    <3>2. SetReady(W, st) \in [Tids -> ThreadStates]
      BY Zenon, <3>1, SetReadyType
    <3>3. state' = [t \in Tids |-> IF t \in threads[p] THEN "Absent" ELSE SetReady(W, st)[t]]
      BY Zenon, <1>2 DEF ExitLast
    <3> HIDE DEF st, W
    <3> QED
      BY <3>2, <3>3 DEF ThreadStates
  <2>3. /\ waitTarget' \in [Tids -> WaitTarget]
        /\ blockingRsp' \in [Tids -> BOOLEAN]
        /\ ctxFresh' \in [Tids -> BOOLEAN]
    <3>1. WakeContexts(W)
      BY Zenon, <1>2 DEF ExitLast
    <3> HIDE DEF W
    <3> QED
      BY <3>1, SavedStateType DEF WakeContexts
  <2>4. killPending' \in [Pids -> BOOLEAN] /\ aspace' \in [Pids -> {"none", "live", "freed", "leaked"}]
    BY Zenon, <1>2 DEF TypeOK, ExitLast
  <2>5. /\ alive' \in [Pids -> BOOLEAN]
        /\ threads' \in [Pids -> SUBSET Tids]
        /\ mainTid' \in [Pids -> Tids \cup {Nobody}]
        /\ parent' \in [Pids -> Pids \cup {Nobody}]
        /\ catch' \in [Pids -> SUBSET Signals]
        /\ pending' \in [Pids -> SUBSET Signals]
    BY ZenonT(30), <1>2 DEF TypeOK, ExitLast
  <2>6. /\ stacks' \in SUBSET Tids
        /\ pendingFree' \in [Cpus -> Tids \cup {Nobody}]
        /\ currentTid' \in [Cpus -> Tids \cup {Nobody}]
        /\ pc' \in [Cpus -> Places]
        /\ arg' \in [Cpus -> Nat]
    BY Zenon, <1>2, <2>1 DEF TypeOK, ExitLast, DeferFreeKernelStack, Places
  <2> QED
    BY Zenon, <1>2, <2>2, <2>3, <2>4, <2>5, <2>6 DEF TypeOK, ExitLast
<1> QED
  BY Zenon, <1>1, <1>2

-----------------------------------------------------------------------------

(* block_current keeps the types.                                          *)
LEMMA BlockCurrentType ==
    ASSUME TypeOK, NEW c \in Cpus, NEW target \in WaitTarget, BlockCurrent(c, target)
    PROVE  TypeOK'
<1> USE DEF threadVars, procVars, counters, stackVars
<1>1. state' \in [Tids -> ThreadStates]
  BY Zenon DEF TypeOK, BlockCurrent, ThreadStates
<1>2. waitTarget' \in [Tids -> WaitTarget]
  BY Zenon DEF TypeOK, BlockCurrent
<1>3. pc' \in [Cpus -> Places] /\ arg' \in [Cpus -> Nat] /\ UNCHANGED <<currentTid, via, kstack>>
  BY DEF TypeOK, BlockCurrent, Goto, Places
<1> QED
  BY <1>1, <1>2, <1>3 DEF TypeOK, BlockCurrent

(* The calls about threads and blocking.                                   *)
LEMMA ThreadCallType ==
    ASSUME TypeOK, NEW c \in Cpus,
           \/ SysSleep(c) \/ SysThreadJoin(c) \/ SysWait(c)
           \/ SysWaitBlock(c) \/ SysThreadSpawn(c) \/ SysExit(c)
           \/ SysThreadExit(c) \/ SysThreadExitSelf(c) \/ SysRead(c)
           \/ SysWrite(c)
    PROVE  TypeOK'
<1> USE DEF threadVars, procVars, counters, stackVars
<1>1. CASE SysSleep(c)
  BY BlockCurrentType, <1>1, TargetType DEF SysSleep
<1>2. CASE SysThreadJoin(c)
  <2>1. PICK t \in Tids :
            \/ Present(t) /\ BlockCurrent(c, On("Tid", t))
            \/ ReturnToUser(c) /\ UNCHANGED <<threadVars, procVars, counters, stackVars>>
    BY <1>2 DEF SysThreadJoin
  <2>2. t \in Nat
    BY ConstantsAssumption DEF Tids
  <2>3. On("Tid", t) \in WaitTarget
    BY <2>2, TargetType
  <2>4. CASE BlockCurrent(c, On("Tid", t))
    BY BlockCurrentType, <2>3, <2>4
  <2>5. CASE ReturnToUser(c) /\ UNCHANGED <<threadVars, procVars, counters, stackVars>>
    BY <2>5 DEF TypeOK, ReturnToUser, Goto, Places
  <2> QED
    BY <2>1, <2>4, <2>5
<1>3. CASE SysWait(c)
  <2>1. PICK p \in Pids : Goto(c, "wait2", p) \/ ReturnToUser(c)
    BY <1>3 DEF SysWait
  <2>2. p \in Nat
    BY ConstantsAssumption DEF Pids
  <2> QED
    BY <1>3, <2>1, <2>2 DEF TypeOK, SysWait, ReturnToUser, Goto, Places
<1>4. CASE SysWaitBlock(c)
  <2>1. On("Pid", arg[c]) \in WaitTarget
    BY TargetType DEF TypeOK
  <2> QED
    BY BlockCurrentType, <1>4, <2>1 DEF SysWaitBlock
<1>5. CASE SysThreadSpawn(c)
  <2>1. CASE UNCHANGED <<threadVars, procVars, counters, stackVars>>
    BY <1>5, <2>1 DEF TypeOK, SysThreadSpawn, ReturnToUser, Goto, Places
  <2>2. CASE nextTid <= MaxTid /\ nextTid' = nextTid + 1
    <3>1. nextTid \in Tids /\ nextTid' \in 1..(MaxTid + 1)
      BY <2>2, ConstantsAssumption DEF TypeOK, Tids
    <3>2. state' \in [Tids -> ThreadStates] /\ ctxFresh' \in [Tids -> BOOLEAN]
      BY Zenon, <1>5, <2>2, <3>1 DEF TypeOK, SysThreadSpawn, ThreadStates
    <3>3. tpid' \in [Tids -> Pids \cup {Nobody}]
      BY <1>5, <2>2, <3>1, CurrentPidType DEF TypeOK, SysThreadSpawn
    <3>4. threads' \in [Pids -> SUBSET Tids] /\ stacks' \in SUBSET Tids
      <4>1. /\ threads' = [threads EXCEPT ![CurrentPid(c)] = @ \cup {nextTid}]
            /\ stacks' = stacks \cup {nextTid}
        BY <1>5, <2>2 DEF TypeOK, SysThreadSpawn
      <4>2. \A p \in Pids : threads[p] \cup {nextTid} \in SUBSET Tids
        BY <3>1 DEF TypeOK
      <4>3. threads \in [Pids -> SUBSET Tids] /\ stacks \in SUBSET Tids
        BY DEF TypeOK
      <4> QED
        BY Zenon, <3>1, <4>1, <4>2, <4>3
    <3>5. pc' \in [Cpus -> Places] /\ arg' \in [Cpus -> Nat] /\ UNCHANGED <<currentTid, via, kstack>>
      BY <1>5 DEF TypeOK, SysThreadSpawn, ReturnToUser, Goto, Places
    <3> QED
      BY <1>5, <2>2, <3>1, <3>2, <3>3, <3>4, <3>5 DEF TypeOK, SysThreadSpawn
  <2> QED
    BY <1>5, <2>1, <2>2 DEF SysThreadSpawn
<1>6. CASE SysExit(c)
  BY <1>6 DEF TypeOK, SysExit, Goto, Places
<1>7. CASE SysThreadExit(c)
  BY <1>7 DEF TypeOK, SysThreadExit, Goto, Places
<1>8. CASE SysThreadExitSelf(c)
  BY <1>8, ExitCurrentThreadType DEF SysThreadExitSelf, TypeOK
<1>9. CASE SysRead(c)
  <2>1. state' \in [Tids -> ThreadStates]
    BY <1>9 DEF TypeOK, SysRead, ThreadStates
  <2>2. waitTarget' \in [Tids -> WaitTarget]
    BY <1>9, TargetType DEF TypeOK, SysRead
  <2>3. pc' \in [Cpus -> Places] /\ arg' \in [Cpus -> Nat] /\ UNCHANGED <<currentTid, via, kstack>>
    BY <1>9 DEF TypeOK, SysRead, ReturnToUser, Goto, Places
  <2> QED
    BY <1>9, <2>1, <2>2, <2>3 DEF TypeOK, SysRead
<1>10. CASE SysWrite(c)
  <2>1. state' \in [Tids -> ThreadStates]
    BY <1>10, SetReadyType DEF SysWrite, Wake, TypeOK
  <2>2. /\ waitTarget' \in [Tids -> WaitTarget]
        /\ blockingRsp' \in [Tids -> BOOLEAN]
        /\ ctxFresh' \in [Tids -> BOOLEAN]
    BY <1>10, SavedStateType DEF SysWrite, Wake, WakeContexts
  <2> QED
    BY <1>10, <2>1, <2>2 DEF TypeOK, SysWrite, ReturnToUser, Goto, Places
<1> QED
  BY Zenon, <1>1, <1>2, <1>3, <1>4, <1>5, <1>6, <1>7, <1>8, <1>9, <1>10

(* Kills and signals.                                                      *)
LEMMA SignalCallType ==
    ASSUME TypeOK, NEW c \in Cpus,
           \/ SysKill(c) \/ SysSigterm(c) \/ SysSigintFg(c)
           \/ SendSigint(c) \/ SysSignalCatch(c) \/ SysSignalCheck(c)
    PROVE  TypeOK'
<1> USE DEF threadVars, procVars, counters, stackVars
<1>1. CASE SysKill(c)
  <2>1. state' \in [Tids -> ThreadStates] /\ killPending' \in [Pids -> BOOLEAN]
    BY <1>1, SetReadyType DEF SysKill, KillPids, TypeOK
  <2> QED
    BY <1>1, <2>1 DEF TypeOK, SysKill, ReturnToUser, Goto, Places
<1>2. CASE SysSigterm(c)
  <2>1. /\ state' \in [Tids -> ThreadStates]
        /\ killPending' \in [Pids -> BOOLEAN]
        /\ pending' \in [Pids -> SUBSET Signals]
    BY <1>2, SetReadyType DEF SysSigterm, TypeOK, Signals
  <2> QED
    BY <1>2, <2>1 DEF TypeOK, SysSigterm, ReturnToUser, Goto, Places
<1>3. CASE SysSigintFg(c)
  <2>1. PICK leaf \in Pids : ReturnToUser(c) \/ Goto(c, "sig2", leaf)
    BY <1>3 DEF SysSigintFg
  <2>2. leaf \in Nat
    BY ConstantsAssumption DEF Pids
  <2> QED
    BY <1>3, <2>1, <2>2 DEF TypeOK, SysSigintFg, ReturnToUser, Goto, Places
<1>4. CASE SendSigint(c)
  <2>1. state' \in [Tids -> ThreadStates]
    BY <1>4, SetReadyType DEF SendSigint, TypeOK
  <2>2. killPending' \in [Pids -> BOOLEAN] /\ pending' \in [Pids -> SUBSET Signals]
    BY <1>4 DEF SendSigint, TypeOK, Signals
  <2>3. /\ waitTarget' \in [Tids -> WaitTarget]
        /\ blockingRsp' \in [Tids -> BOOLEAN]
        /\ ctxFresh' \in [Tids -> BOOLEAN]
    BY Zenon, <1>4, SavedStateType DEF SendSigint, WakeContexts
  <2> QED
    BY Zenon, <1>4, <2>1, <2>2, <2>3 DEF TypeOK, SendSigint, ReturnToUser, Goto, Places
<1>5. CASE SysSignalCatch(c)
  BY ZenonT(30), <1>5, MasksAssumption DEF TypeOK, SysSignalCatch, ReturnToUser, Goto, Places
<1>6. CASE SysSignalCheck(c)
  BY Zenon, <1>6 DEF TypeOK, SysSignalCheck, ReturnToUser, Goto, Places
<1> QED
  BY Zenon, <1>1, <1>2, <1>3, <1>4, <1>5, <1>6

(* The sections of sys_exec.                                               *)
LEMMA ExecCallType ==
    ASSUME TypeOK, NEW c \in Cpus,
           \/ SysExec(c) \/ SysExecSetParent(c) \/ SysExecSetReady(c)
    PROVE  TypeOK'
<1> USE DEF threadVars, procVars, counters, stackVars
<1>1. CASE SysExec(c)
  <2>1. CASE UNCHANGED <<threadVars, procVars, counters, stackVars>> /\ ReturnToUser(c)
    BY <1>1, <2>1 DEF TypeOK, SysExec, ReturnToUser, Goto, Places
  <2>2. CASE nextTid <= MaxTid /\ nextPid <= MaxPid /\ Goto(c, "exec2", nextPid)
    <3>1. /\ nextTid \in Tids /\ nextTid + 1 \in 1..(MaxTid + 1)
          /\ nextPid \in Pids /\ nextPid \in Nat /\ nextPid + 1 \in 1..(MaxPid + 1)
      BY <2>2, ConstantsAssumption DEF TypeOK, Tids, Pids
    <3>2. ~UNCHANGED pc
      BY <1>1, <2>2 DEF SysExec, InCall, Goto, TypeOK
    <3>3. ~(ReturnToUser(c))
      BY <2>2 DEF ReturnToUser, Goto, TypeOK
    <3>4. state' \in [Tids -> ThreadStates] /\ ctxFresh' \in [Tids -> BOOLEAN]
      BY Zenon, <1>1, <3>1, <3>3 DEF TypeOK, SysExec, ThreadStates
    <3>5. tpid' \in [Tids -> Pids \cup {Nobody}] /\ mainTid' \in [Pids -> Tids \cup {Nobody}]
      BY <1>1, <3>1, <3>3 DEF TypeOK, SysExec
    <3>6. threads' \in [Pids -> SUBSET Tids] /\ stacks' \in SUBSET Tids
      <4>1. /\ threads' = [threads EXCEPT ![nextPid] = {nextTid}]
            /\ stacks' = stacks \cup {nextTid}
        BY <1>1, <3>3 DEF SysExec
      <4>2. {nextTid} \in SUBSET Tids
        BY <3>1
      <4>3. threads \in [Pids -> SUBSET Tids] /\ stacks \in SUBSET Tids
        BY DEF TypeOK
      <4> QED
        BY <3>1, <4>1, <4>2, <4>3
    <3>7. pc' \in [Cpus -> Places] /\ arg' \in [Cpus -> Nat] /\ UNCHANGED <<currentTid, via, kstack>>
      BY <2>2, <3>1 DEF TypeOK, Goto, Places
    <3>8. /\ alive' \in [Pids -> BOOLEAN]
          /\ aspace' \in [Pids -> {"none", "live", "freed", "leaked"}]
      BY Zenon, <1>1, <3>3 DEF TypeOK, SysExec
    <3> QED
      BY <1>1, <3>1, <3>3, <3>4, <3>5, <3>6, <3>7, <3>8 DEF TypeOK, SysExec
  <2> QED
    BY <1>1, <2>1, <2>2 DEF SysExec
<1>2. CASE SysExecSetParent(c)
  BY <1>2, CurrentPidType DEF TypeOK, SysExecSetParent, Goto, Places
<1>3. CASE SysExecSetReady(c)
  <2>1. state' \in [Tids -> ThreadStates]
    BY <1>3, SetReadyType DEF SysExecSetReady, TypeOK
  <2> QED
    BY <1>3, <2>1 DEF TypeOK, SysExecSetReady, ReturnToUser, Goto, Places
<1> QED
  BY Zenon, <1>1, <1>2, <1>3

(* Every action preserves the type invariant.                              *)
LEMMA TypeStep ==
    ASSUME TypeOK, [Next]_vars
    PROVE  TypeOK'
<1>1. CASE UNCHANGED vars
  BY <1>1 DEF TypeOK, vars, threadVars, procVars, counters, stackVars, cpuVars
<1>2. CASE Next
  <2>1. PICK c \in Cpus : Timer(c) \/ UserStep(c) \/ KernelStep(c)
    BY <1>2 DEF Next
  <2> QED
    BY Zenon, <2>1, TimerType, ScheduleType, ExitType, ThreadCallType, SignalCallType, ExecCallType
    DEF Timer, UserStep, KernelStep
<1> QED
  BY <1>1, <1>2

(* Type correctness of the thread, process and CPU tables.                 *)
THEOREM TypeCorrect == Spec => []TypeOK
<1>1. Init => TypeOK
  BY ConstantsAssumption
  DEF Init, TypeOK, Tids, Pids, Nobody, ThreadStates, NoTarget, WaitTarget, Places, Vias
<1>2. TypeOK /\ [Next]_vars => TypeOK'
  BY TypeStep
<1> QED
  BY <1>1, <1>2, PTL DEF Spec

=============================================================================
