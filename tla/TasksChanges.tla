---------------------------- MODULE TasksChanges ----------------------------
(***************************************************************************)
(* What the table operations of Tasks (resume, park, thread exit, process  *)
(* exit, creation) do to TaskInv, and what its helpers select.             *)
(***************************************************************************)
EXTENDS TasksTypes

(* Steps that change no table: system calls that return or go on, signals, *)
(* kills and wake-ups.                                                     *)

QuietStep ==
    /\ \A t \in Tids : state'[t] = "Absent" <=> state[t] = "Absent"
    /\ \E W \in SUBSET Tids : blockingRsp' = Unblocked(W) /\ ctxFresh' = Restored(W)
    /\ \A d \in Cpus : pc'[d] \in ThreadPlaces <=> pc[d] \in ThreadPlaces
    /\ \A d \in Cpus : pc'[d] = "exit2" => pc[d] = "exit2"
    /\ \A p \in Pids : ~alive[p] => parent'[p] = parent[p]
    /\ UNCHANGED <<tpid, alive, threads, aspace, nextTid, nextPid, currentTid, kstack,
                   stacks, pendingFree>>

(* A step that changes no table preserves TaskInv.                         *)
LEMMA QuietPreserves ==
    ASSUME TypeOK, TypeOK', TaskInv, QuietStep
    PROVE  TaskInv'
<1>0. \A t : Present(t)' <=> Present(t)
  BY DEF Present, QuietStep
<1>1. CurrentInv'
  BY <1>0 DEF TaskInv, CurrentInv, QuietStep
<1>2. TableInv'
  BY <1>0 DEF TaskInv, TableInv, QuietStep, CurrentPid
<1>3. FreshInv'
  <2>1. PICK W \in SUBSET Tids : blockingRsp' = Unblocked(W)
    BY Zenon DEF QuietStep
  <2>2. \A t \in Tids : ~blockingRsp[t] => ~blockingRsp'[t]
    BY Zenon, <2>1 DEF Unblocked
  <2> QED
    BY <1>0, <2>2 DEF TaskInv, FreshInv, QuietStep
<1>4. StackInv'
  BY ZenonT(30), <1>0 DEF TaskInv, StackInv, QuietStep
<1>5. FrameInv'
  <2>1. PICK W \in SUBSET Tids : blockingRsp' = Unblocked(W) /\ ctxFresh' = Restored(W)
    BY Zenon DEF QuietStep
  <2>2. \A t \in Tids : /\ blockingRsp'[t] = (t \notin W /\ blockingRsp[t])
                        /\ ctxFresh'[t] = (ctxFresh[t] \/ (t \in W /\ blockingRsp[t]))
    BY <2>1 DEF Unblocked, Restored
  <2>3. \A t \in Tids : blockingRsp[t] \in BOOLEAN /\ ctxFresh[t] \in BOOLEAN
    BY DEF TypeOK
  <2> QED
    BY <1>0, <2>2, <2>3 DEF TaskInv, FrameInv, QuietStep
<1> QED
  BY <1>1, <1>2, <1>3, <1>4, <1>5 DEF TaskInv

(* The saved states bl and cf once CPU c has let go of its thread.         *)
SavedExcept(c, bl, cf) ==
    \A t \in Tids : Present(t) =>
        IF \E d \in Cpus : d # c /\ currentTid[d] = t THEN ~cf[t] /\ ~bl[t]
        ELSE cf[t] # bl[t]

(* A CPU enters user mode as one of its Ready threads.                     *)
LEMMA ResumePreserves ==
    ASSUME TypeOK, TypeOK', TaskInv, NEW c \in Cpus, NEW n \in Tids,
           NEW st \in [Tids -> ThreadStates],
           NEW bl \in [Tids -> BOOLEAN], NEW cf \in [Tids -> BOOLEAN],
           Resume(c, n, st, bl, cf),
           AssignedCpu(n) = c, st[n] = "Ready",
           \A t \in Tids : st[t] = "Absent" <=> state[t] = "Absent",
           SavedExcept(c, bl, cf),
           \A t \in Tids : t >= nextTid => ~bl[t],
           UNCHANGED <<tpid, alive, threads, aspace, parent, nextTid, nextPid, stacks, pendingFree>>
    PROVE  TaskInv'
<1>0. \A t : Present(t)' <=> Present(t)
  BY Zenon DEF Present, Resume, TypeOK
<1>6. Present(n) /\ n # Nobody
  BY ConstantsAssumption DEF Present, Tids, Nobody
<1>7. /\ currentTid'[c] = n /\ kstack'[c] = n /\ pc'[c] = "user"
        /\ \A d \in Cpus : d # c => /\ currentTid'[d] = currentTid[d]
                                    /\ kstack'[d] = kstack[d]
                                    /\ pc'[d] = pc[d]
  BY ZenonT(30) DEF Resume, TypeOK
<1>1. CurrentInv'
  BY <1>0, <1>6, <1>7 DEF TaskInv, CurrentInv, ThreadPlaces, Places
<1>2. TableInv'
  <2>1. \A d \in Cpus : pc'[d] = "exit2" => d # c /\ pc[d] = "exit2" /\ currentTid'[d] = currentTid[d]
    BY Zenon, <1>7
  <2>2. \A d \in Cpus : d # c => CurrentPid(d)' = CurrentPid(d)
    BY SMT, <1>7 DEF CurrentPid
  <2> QED
    BY ZenonT(60), <1>0, <2>1, <2>2 DEF TaskInv, TableInv
<1>8. /\ ~blockingRsp'[n] /\ ~ctxFresh'[n]
          /\ \A t \in Tids : t # n => blockingRsp'[t] = bl[t] /\ ctxFresh'[t] = cf[t]
  BY DEF Resume
<1>3. FreshInv'
  BY <1>0, <1>8 DEF TaskInv, FreshInv
<1>4. StackInv'
  BY <1>0, <1>6, <1>7 DEF TaskInv, StackInv
<1>5. FrameInv'
  <2> SUFFICES ASSUME NEW t \in Tids, Present(t)
               PROVE  (IF \E d \in Cpus : currentTid[d] = t THEN ~ctxFresh[t] /\ ~blockingRsp[t]
                       ELSE ctxFresh[t] # blockingRsp[t])'
    BY Zenon, <1>0 DEF FrameInv
  <2>1. CASE t = n
    BY Zenon, <2>1, <1>7, <1>8
  <2>2. CASE t # n
    <3>1. (\E d \in Cpus : currentTid'[d] = t) <=> (\E d \in Cpus : d # c /\ currentTid[d] = t)
      BY Zenon, <2>2, <1>7
    <3>2. blockingRsp'[t] = bl[t] /\ ctxFresh'[t] = cf[t]
      BY <2>2, <1>8
    <3> QED
      BY Zenon, <3>1, <3>2 DEF SavedExcept
  <2> QED
    BY Zenon, <2>1, <2>2
<1> QED
  BY <1>1, <1>2, <1>3, <1>4, <1>5 DEF TaskInv

(* A CPU that has let go of its thread, or never had one, stays in the     *)
(* scheduler.                                                              *)
LEMMA ParkPreserves ==
    ASSUME TypeOK, TypeOK', TaskInv, NEW c \in Cpus, NEW place \in Places \ ThreadPlaces,
           state' = state,
           pc' = [pc EXCEPT ![c] = place],
           currentTid' = [currentTid EXCEPT ![c] = Nobody],
           \/ kstack' = [kstack EXCEPT ![c] = Nobody]
           \/ kstack' = kstack /\ currentTid[c] = Nobody,
           SavedExcept(c, blockingRsp', ctxFresh'),
           \A t \in Tids : t >= nextTid => ~blockingRsp'[t],
           UNCHANGED <<tpid, alive, threads, aspace, parent, nextTid, nextPid, stacks, pendingFree>>
    PROVE  TaskInv'
<1>0. \A t : Present(t)' <=> Present(t)
  BY DEF Present
<1>7. /\ currentTid'[c] = Nobody /\ pc'[c] \notin ThreadPlaces /\ pc'[c] # "exit2"
        /\ kstack'[c] \in {Nobody, pendingFree[c]}
        /\ \A d \in Cpus : d # c => /\ currentTid'[d] = currentTid[d]
                                    /\ kstack'[d] = kstack[d]
                                    /\ pc'[d] = pc[d]
  BY ZenonT(60) DEF TypeOK, ThreadPlaces, Places, TaskInv, StackInv
<1>1. CurrentInv'
  BY Zenon, <1>0, <1>7 DEF TaskInv, CurrentInv
<1>2. TableInv'
  <2>1. \A d \in Cpus : pc'[d] = "exit2" => d # c /\ pc[d] = "exit2" /\ currentTid'[d] = currentTid[d]
    BY Zenon, <1>7
  <2>2. \A d \in Cpus : d # c => CurrentPid(d)' = CurrentPid(d)
    BY SMT, <1>7 DEF CurrentPid
  <2> QED
    BY ZenonT(30), <1>0, <2>1, <2>2 DEF TaskInv, TableInv
<1>3. FreshInv'
  BY <1>0 DEF TaskInv, FreshInv
<1>4. StackInv'
  BY <1>0, <1>7 DEF TaskInv, StackInv
<1>5. FrameInv'
  <2> SUFFICES ASSUME NEW t \in Tids, Present(t)
               PROVE  (IF \E d \in Cpus : currentTid[d] = t THEN ~ctxFresh[t] /\ ~blockingRsp[t]
                       ELSE ctxFresh[t] # blockingRsp[t])'
    BY Zenon, <1>0 DEF FrameInv
  <2>1. (\E d \in Cpus : currentTid'[d] = t) <=> (\E d \in Cpus : d # c /\ currentTid[d] = t)
    BY Zenon, <1>7, TidNotNobody
  <2> QED
    BY <2>1 DEF SavedExcept
<1> QED
  BY <1>1, <1>2, <1>3, <1>4, <1>5 DEF TaskInv

(* exit_current_thread removes the calling thread and stashes its stack.   *)
LEMMA ExitCurrentThreadPreserves ==
    ASSUME TypeOK, TypeOK', TaskInv, NEW c \in Cpus, pc[c] \in ThreadPlaces, ExitCurrentThread(c)
    PROVE  TaskInv'
<1> DEFINE me == currentTid[c]
           W == SleepersOn(On("Tid", me))
<1>1. me \in Tids /\ Present(me) /\ AssignedCpu(me) = c /\ kstack[c] = me /\ me # Nobody
  BY DEF TaskInv, CurrentInv, TypeOK, Present
<1>2. \A t : Present(t)' <=> Present(t) /\ t # me
  <2>1. \A t \in Tids : state'[t] = "Absent" <=> (state[t] = "Absent" \/ t = me)
    BY Zenon, <1>1 DEF ExitCurrentThread, SetReady, SleepersOn, TypeOK
  <2> QED
    BY <2>1 DEF Present
<1>3. \A d \in Cpus : d # c => currentTid[d] # me
  BY ZenonT(30), <1>1 DEF TaskInv, CurrentInv
<1>4. /\ currentTid'[c] = Nobody /\ pc'[c] = "return" /\ pendingFree'[c] = me /\ kstack' = kstack
      /\ \A d \in Cpus : d # c => /\ currentTid'[d] = currentTid[d]
                                  /\ pendingFree'[d] = pendingFree[d]
                                  /\ pc'[d] = pc[d]
  <2>1. /\ currentTid' = [currentTid EXCEPT ![c] = Nobody] /\ pc' = [pc EXCEPT ![c] = "return"]
        /\ pendingFree' = [pendingFree EXCEPT ![c] = me] /\ kstack' = kstack
    BY Zenon DEF ExitCurrentThread, DeferFreeKernelStack
  <2> QED
    BY ZenonT(30), <2>1 DEF TypeOK
<1>5. UNCHANGED <<tpid, alive, parent, aspace, nextTid, nextPid>>
  BY Zenon DEF ExitCurrentThread, counters
<1>6. tpid[me] \in Pids /\ threads' = [threads EXCEPT ![tpid[me]] = @ \ {me}]
  BY Zenon, <1>1 DEF ExitCurrentThread, TaskInv, TableInv
<1>7. \A t \in Tids : /\ blockingRsp'[t] = (t \notin W /\ blockingRsp[t])
                      /\ ctxFresh'[t] = (ctxFresh[t] \/ (t \in W /\ blockingRsp[t]))
  BY Zenon DEF ExitCurrentThread, WakeContexts, Unblocked, Restored
<1>8. stacks' = stacks \ {pendingFree[c]}
  BY ZenonT(30) DEF ExitCurrentThread, DeferFreeKernelStack
<1> HIDE DEF me, W
<1>9. CurrentInv'
  BY Zenon, <1>2, <1>3, <1>4 DEF TaskInv, CurrentInv, ThreadPlaces, Places
<1>10. TableInv'
  <2>1. \A p \in Pids : \A t : t \in threads'[p] <=> t \in threads[p] /\ t # me
    BY <1>6 DEF TypeOK, TaskInv, TableInv
  <2>2. \A t \in Tids : Present(t)' => tpid'[t] \in Pids /\ t \in threads'[tpid'[t]]
    BY Zenon, <1>2, <1>5, <2>1 DEF TaskInv, TableInv
  <2>3. \A p \in Pids : \A t \in threads'[p] : Present(t)' /\ tpid'[t] = p /\ alive'[p]
    BY Zenon, <1>2, <1>5, <2>1 DEF TaskInv, TableInv
  <2>4. \A d \in Cpus : pc'[d] = "exit2" => threads'[CurrentPid(d)'] = {currentTid'[d]}
    <3> SUFFICES ASSUME NEW d \in Cpus, pc'[d] = "exit2"
                 PROVE  threads'[CurrentPid(d)'] = {currentTid'[d]}
      BY Zenon
    <3>1. d # c /\ pc[d] = "exit2" /\ currentTid'[d] = currentTid[d]
      BY Zenon, <1>4
    <3>2. CurrentPid(d)' = CurrentPid(d) /\ CurrentPid(d) \in Pids /\ threads[CurrentPid(d)] = {currentTid[d]}
      BY ZenonT(30), <1>5, <3>1 DEF TaskInv, TableInv, CurrentInv, CurrentPid, Present, ThreadPlaces, Places
    <3>3. currentTid[d] # me
      BY <1>3, <3>1
    <3> QED
      BY Zenon, <2>1, <3>1, <3>2, <3>3
  <2> QED
    BY Zenon, <1>5, <2>2, <2>3, <2>4 DEF TaskInv, TableInv
<1>11. FreshInv'
  BY ZenonT(30), <1>2, <1>5, <1>7, <1>8 DEF TaskInv, FreshInv
<1>12. StackInv'
  <2>1. \A t \in Tids : Present(t)' => t \in stacks'
    BY <1>2, <1>8, TidNotNobody DEF TaskInv, StackInv
  <2>2. \A t \in stacks' : Present(t)' \/ pendingFree'[AssignedCpu(t)] = t
    BY <1>1, <1>2, <1>4, <1>8, AssignedCpuType DEF TaskInv, StackInv, TypeOK
  <2>3. me \in stacks'
    BY Zenon, <1>1, <1>8, TidNotNobody DEF TaskInv, StackInv
  <2>4. \A d \in Cpus : pendingFree'[d] # Nobody => /\ (~Present(pendingFree[d]))'
                                                   /\ pendingFree'[d] \in stacks'
                                                   /\ AssignedCpu(pendingFree'[d]) = d
    <3> TAKE d \in Cpus
    <3>1. CASE d = c
      BY <1>1, <1>2, <1>4, <2>3, <3>1
    <3>2. CASE d # c
      <4>1. /\ pendingFree'[d] = pendingFree[d]
            /\ pendingFree[d] # Nobody => /\ ~Present(pendingFree[d])
                                          /\ pendingFree[d] \in stacks
                                          /\ AssignedCpu(pendingFree[d]) = d
        BY Zenon, <1>4, <3>2 DEF TaskInv, StackInv
      <4>2. pendingFree[d] # Nobody => pendingFree[d] # pendingFree[c]
        BY <3>2, <4>1 DEF TaskInv, StackInv
      <4> QED
        BY <1>2, <1>8, <4>1, <4>2
    <3> QED
      BY Zenon, <3>1, <3>2
  <2>5. \A d \in Cpus : currentTid'[d] = Nobody => kstack'[d] \in {Nobody, pendingFree'[d]}
    BY Zenon, <1>1, <1>4 DEF TaskInv, StackInv
  <2> QED
    BY ZenonT(30), <2>1, <2>2, <2>4, <2>5 DEF StackInv
<1>13. FrameInv'
  <2> SUFFICES ASSUME NEW t \in Tids, Present(t)'
               PROVE  (IF \E d \in Cpus : currentTid[d] = t THEN ~ctxFresh[t] /\ ~blockingRsp[t]
                       ELSE ctxFresh[t] # blockingRsp[t])'
    BY DEF FrameInv
  <2>1. Present(t) /\ t # me
    BY <1>2
  <2>2. (\E d \in Cpus : currentTid'[d] = t) <=> (\E d \in Cpus : currentTid[d] = t)
    BY <1>1, <1>4, <2>1 DEF me, Present, Tids, Nobody
  <2>3. blockingRsp[t] \in BOOLEAN /\ ctxFresh[t] \in BOOLEAN
    BY DEF TypeOK
  <2> QED
    BY Zenon, <1>7, <2>1, <2>2, <2>3 DEF TaskInv, FrameInv
<1> QED
  BY <1>9, <1>10, <1>11, <1>12, <1>13 DEF TaskInv

(* exit_current's teardown removes the process with its only thread.       *)
LEMMA ExitLastPreserves ==
    ASSUME TypeOK, TypeOK', TaskInv, NEW c \in Cpus, ExitLast(c)
    PROVE  TaskInv'
<1> DEFINE me == currentTid[c]
           p == CurrentPid(c)
           K == Orphans(p)
           st == SetReady(MainsOf(K), state)
           W == Waiters(p, me, st)
<1>1. me \in Tids /\ Present(me) /\ AssignedCpu(me) = c /\ kstack[c] = me /\ me # Nobody
  BY Zenon DEF TaskInv, CurrentInv, TypeOK, Present, ExitLast, ThreadPlaces, Places
<1>2. p \in Pids /\ p = tpid[me] /\ threads[p] = {me}
  BY Zenon, <1>1 DEF ExitLast, TaskInv, TableInv, CurrentPid
<1>3. \A t : Present(t)' <=> Present(t) /\ t # me
  <2>1. state' = [t \in Tids |-> IF t \in threads[p] THEN "Absent" ELSE SetReady(W, st)[t]]
    BY DEF ExitLast
  <2>2. \A t \in Tids : st[t] = "Absent" <=> state[t] = "Absent"
    BY DEF SetReady, MainsOf, Present
  <2>3. \A t \in Tids : SetReady(W, st)[t] = "Absent" <=> st[t] = "Absent"
    BY ZenonT(30) DEF SetReady, Waiters
  <2> HIDE DEF st, W
  <2> QED
    BY <1>2, <2>1, <2>2, <2>3 DEF Present
<1>4. \A d \in Cpus : d # c => currentTid[d] # me
  BY Zenon, <1>1 DEF TaskInv, CurrentInv
<1>5. /\ currentTid'[c] = Nobody /\ pc'[c] = "return" /\ pendingFree'[c] = me /\ kstack' = kstack
      /\ \A d \in Cpus : d # c => /\ currentTid'[d] = currentTid[d]
                                  /\ pendingFree'[d] = pendingFree[d]
                                  /\ pc'[d] = pc[d]
  <2>1. /\ currentTid' = [currentTid EXCEPT ![c] = Nobody] /\ pc' = [pc EXCEPT ![c] = "return"]
        /\ pendingFree' = [pendingFree EXCEPT ![c] = me] /\ kstack' = kstack
    BY Zenon DEF ExitLast, DeferFreeKernelStack
  <2> QED
    BY ZenonT(30), <2>1 DEF TypeOK
<1>6. /\ UNCHANGED <<tpid, nextTid, nextPid>>
      /\ \A q \in Pids : q # p => alive'[q] = alive[q] /\ aspace'[q] = aspace[q]
                                  /\ threads'[q] = threads[q] /\ parent'[q] = parent[q]
      /\ ~alive'[p] /\ threads'[p] = {} /\ parent'[p] = Nobody
  BY ZenonT(60), <1>2 DEF ExitLast, TypeOK, counters
<1>7. \A t \in Tids : /\ blockingRsp'[t] = (t \notin W /\ blockingRsp[t])
                      /\ ctxFresh'[t] = (ctxFresh[t] \/ (t \in W /\ blockingRsp[t]))
  BY Zenon DEF ExitLast, WakeContexts, Unblocked, Restored
<1>8. stacks' = stacks \ {pendingFree[c]}
  BY DEF ExitLast, DeferFreeKernelStack
<1> HIDE DEF me, p, W, st, K
<1>9. CurrentInv'
  BY Zenon, <1>3, <1>4, <1>5 DEF TaskInv, CurrentInv, ThreadPlaces, Places
<1>10. TableInv'
  <2>1. \A t \in Tids : Present(t)' => tpid'[t] \in Pids /\ t \in threads'[tpid'[t]]
    <3> SUFFICES ASSUME NEW t \in Tids, Present(t)'
                 PROVE  tpid'[t] \in Pids /\ t \in threads'[tpid'[t]]
      BY Zenon
    <3>1. Present(t) /\ t # me /\ tpid'[t] = tpid[t]
      BY Zenon, <1>3, <1>6
    <3>2. tpid[t] \in Pids /\ t \in threads[tpid[t]]
      BY Zenon, <3>1 DEF TaskInv, TableInv
    <3>3. tpid[t] # p
      BY Zenon, <1>2, <3>1, <3>2
    <3> QED
      BY Zenon, <1>6, <3>1, <3>2, <3>3
  <2>2. \A q \in Pids : \A t \in threads'[q] : Present(t)' /\ tpid'[t] = q /\ alive'[q]
    BY <1>2, <1>3, <1>6 DEF TaskInv, TableInv
  <2>3. \A q \in Pids : alive'[q] => aspace'[q] = "live"
    BY <1>6 DEF TaskInv, TableInv
  <2>4. \A d \in Cpus : pc'[d] = "exit2" => threads'[CurrentPid(d)'] = {currentTid'[d]}
    <3> SUFFICES ASSUME NEW d \in Cpus, pc'[d] = "exit2"
                 PROVE  threads'[CurrentPid(d)'] = {currentTid'[d]}
      OBVIOUS
    <3>1. d # c /\ pc[d] = "exit2" /\ currentTid'[d] = currentTid[d]
      BY <1>5
    <3>2. CurrentPid(d)' = CurrentPid(d) /\ CurrentPid(d) \in Pids /\ threads[CurrentPid(d)] = {currentTid[d]}
      BY Zenon, <1>6, <3>1 DEF TaskInv, TableInv, CurrentInv, CurrentPid, Present, ThreadPlaces, Places
    <3>3. CurrentPid(d) # p
      BY Zenon, <1>2, <1>4, <3>1, <3>2
    <3> QED
      BY Zenon, <1>6, <3>1, <3>2, <3>3
  <2> QED
    BY Zenon, <2>1, <2>2, <2>3, <2>4 DEF TableInv
<1>11. FreshInv'
  BY Zenon, <1>3, <1>6, <1>7, <1>8 DEF TaskInv, FreshInv
<1>12. StackInv'
  <2>1. \A t \in Tids : Present(t)' => t \in stacks'
    BY <1>3, <1>8, TidNotNobody DEF TaskInv, StackInv
  <2>2. \A t \in stacks' : Present(t)' \/ pendingFree'[AssignedCpu(t)] = t
    BY <1>1, <1>3, <1>5, <1>8, AssignedCpuType DEF TaskInv, StackInv, TypeOK
  <2>3. me \in stacks'
    BY Zenon, <1>1, <1>8, TidNotNobody DEF TaskInv, StackInv
  <2>4. \A d \in Cpus : pendingFree'[d] # Nobody => /\ (~Present(pendingFree[d]))'
                                                   /\ pendingFree'[d] \in stacks'
                                                   /\ AssignedCpu(pendingFree'[d]) = d
    <3> TAKE d \in Cpus
    <3>1. CASE d = c
      BY <1>1, <1>3, <1>5, <2>3, <3>1
    <3>2. CASE d # c
      <4>1. /\ pendingFree'[d] = pendingFree[d]
            /\ pendingFree[d] # Nobody => /\ ~Present(pendingFree[d])
                                          /\ pendingFree[d] \in stacks
                                          /\ AssignedCpu(pendingFree[d]) = d
        BY <1>5, <3>2 DEF TaskInv, StackInv
      <4>2. pendingFree[d] # Nobody => pendingFree[d] # pendingFree[c]
        BY <3>2, <4>1 DEF TaskInv, StackInv
      <4> QED
        BY <1>3, <1>8, <4>1, <4>2
    <3> QED
      BY <3>1, <3>2
  <2>5. \A d \in Cpus : currentTid'[d] = Nobody => kstack'[d] \in {Nobody, pendingFree'[d]}
    BY Zenon, <1>1, <1>5 DEF TaskInv, StackInv
  <2> QED
    BY <2>1, <2>2, <2>4, <2>5 DEF StackInv
<1>13. FrameInv'
  <2> SUFFICES ASSUME NEW t \in Tids, Present(t)'
               PROVE  (IF \E d \in Cpus : currentTid[d] = t THEN ~ctxFresh[t] /\ ~blockingRsp[t]
                       ELSE ctxFresh[t] # blockingRsp[t])'
    BY DEF FrameInv
  <2>1. Present(t) /\ t # me
    BY <1>3
  <2>2. (\E d \in Cpus : currentTid'[d] = t) <=> (\E d \in Cpus : currentTid[d] = t)
    BY <1>1, <1>5, <2>1 DEF me, Present, Tids, Nobody
  <2>3. blockingRsp[t] \in BOOLEAN /\ ctxFresh[t] \in BOOLEAN
    BY DEF TypeOK
  <2> QED
    BY Zenon, <1>7, <2>1, <2>2, <2>3 DEF TaskInv, FrameInv
<1> QED
  BY <1>9, <1>10, <1>11, <1>12, <1>13 DEF TaskInv

(* A new thread, in the caller's process or in a new one.                  *)
LEMMA CreatePreserves ==
    ASSUME TypeOK, TypeOK', TaskInv, NEW c \in Cpus, NEW place \in ThreadPlaces \ {"exit2"},
           NEW s \in ThreadStates \ {"Absent"}, NEW q \in Pids,
           nextTid \in Tids,
           state' = [state EXCEPT ![nextTid] = s],
           tpid' = [tpid EXCEPT ![nextTid] = q],
           ctxFresh' = [ctxFresh EXCEPT ![nextTid] = TRUE],
           threads' = [threads EXCEPT ![q] = @ \cup {nextTid}],
           alive' = [alive EXCEPT ![q] = TRUE],
           aspace' = [aspace EXCEPT ![q] = "live"],
           stacks' = stacks \cup {nextTid},
           nextTid' = nextTid + 1, nextPid' \in {nextPid, nextPid + 1}, q < nextPid',
           \A d \in Cpus : pc[d] = "exit2" => CurrentPid(d) # q,
           pc[c] \in ThreadPlaces, pc' = [pc EXCEPT ![c] = place],
           UNCHANGED <<blockingRsp, parent, currentTid, kstack, pendingFree>>
    PROVE  TaskInv'
<1> DEFINE n == nextTid
<1>1. ~Present(n) /\ n \notin stacks /\ ~blockingRsp[n] /\ n \in Nat
  BY ConstantsAssumption DEF TaskInv, FreshInv, Tids
<1>2. \A t : Present(t)' <=> Present(t) \/ t = n
  BY Zenon DEF Present, TypeOK
<1>3. \A d \in Cpus : currentTid[d] # n
  BY Zenon, <1>1, TidNotNobody DEF TaskInv, CurrentInv
<1>4. CurrentInv'
  BY ZenonT(30), <1>2 DEF TaskInv, CurrentInv, TypeOK
<1>5. TableInv'
  <2>1. \A t \in Tids : tpid'[t] = IF t = n THEN q ELSE tpid[t]
    BY Zenon DEF TypeOK
  <2>2. \A p \in Pids : \A t : t \in threads'[p] <=> t \in threads[p] \/ (p = q /\ t = n)
    BY Zenon DEF TypeOK
  <2>3. \A p \in Pids : /\ alive'[p] <=> alive[p] \/ p = q
                        /\ aspace'[p] = IF p = q THEN "live" ELSE aspace[p]
    BY Zenon DEF TypeOK
  <2>4. \A t \in Tids : Present(t)' => tpid'[t] \in Pids /\ t \in threads'[tpid'[t]]
    BY <1>2, <2>1, <2>2 DEF TaskInv, TableInv
  <2>5. \A p \in Pids : \A t \in threads[p] : t # n
    BY <1>1 DEF TaskInv, TableInv
  <2>6. \A p \in Pids : \A t \in threads'[p] : Present(t)' /\ tpid'[t] = p /\ alive'[p]
    <3> SUFFICES ASSUME NEW p \in Pids, NEW t \in threads'[p]
                 PROVE  Present(t)' /\ tpid'[t] = p /\ alive'[p]
      OBVIOUS
    <3>1. CASE t \in threads[p]
      <4>1. Present(t) /\ tpid[t] = p /\ alive[p] /\ t # n /\ t \in Tids
        BY Zenon, <2>5, <3>1 DEF TaskInv, TableInv, TypeOK
      <4> QED
        BY Zenon, <1>2, <2>1, <2>3, <4>1
    <3>2. CASE p = q /\ t = n
      BY Zenon, <1>2, <2>1, <2>3, <3>2
    <3> QED
      BY Zenon, <2>2, <3>1, <3>2
  <2>7. \A p \in Pids : alive'[p] => aspace'[p] = "live"
    BY Zenon, <2>3 DEF TaskInv, TableInv
  <2>8. \A d \in Cpus : pc'[d] = "exit2" => threads'[CurrentPid(d)'] = {currentTid'[d]}
    <3> SUFFICES ASSUME NEW d \in Cpus, pc'[d] = "exit2"
                 PROVE  threads'[CurrentPid(d)'] = {currentTid'[d]}
      OBVIOUS
    <3>1. d # c /\ pc[d] = "exit2"
      BY ZenonT(30) DEF TypeOK
    <3>2. CurrentPid(d)' = CurrentPid(d)
      BY ZenonT(30), <1>3, <2>1 DEF CurrentPid, TypeOK
    <3>3. CurrentPid(d) \in Pids /\ CurrentPid(d) # q /\ threads[CurrentPid(d)] = {currentTid[d]}
      BY Zenon, <3>1 DEF TaskInv, TableInv, CurrentInv, CurrentPid, Present, ThreadPlaces, Places
    <3> QED
      BY Zenon, <2>2, <3>2, <3>3
  <2> QED
    BY Zenon, <2>4, <2>6, <2>7, <2>8 DEF TableInv
<1>6. FreshInv'
  <2>1. \A t \in Tids : t >= nextTid' => t >= nextTid /\ t # n
    BY NextIds
  <2>2. \A p \in Pids : p >= nextPid' => p >= nextPid /\ p # q
    BY NextIds
  <2>3. \A p \in Pids : p # q => alive'[p] = alive[p]
    BY Zenon DEF TypeOK
  <2> QED
    BY <1>2, <2>1, <2>2, <2>3 DEF TaskInv, FreshInv
<1>7. StackInv'
  <2>1. \A d \in Cpus : pendingFree[d] # n
    BY Zenon, <1>1, TidNotNobody DEF TaskInv, StackInv
  <2> QED
    BY Zenon, <1>2, <2>1 DEF TaskInv, StackInv
<1>8. FrameInv'
  <2> SUFFICES ASSUME NEW t \in Tids, Present(t)'
               PROVE  (IF \E d \in Cpus : currentTid[d] = t THEN ~ctxFresh[t] /\ ~blockingRsp[t]
                       ELSE ctxFresh[t] # blockingRsp[t])'
    BY Zenon DEF FrameInv
  <2>1. CASE t = n
    BY Zenon, <1>1, <1>3, <2>1 DEF TypeOK
  <2>2. CASE t # n
    <3>1. Present(t) /\ ctxFresh'[t] = ctxFresh[t]
      BY Zenon, <1>2, <2>2 DEF TypeOK
    <3> QED
      BY Zenon, <3>1 DEF TaskInv, FrameInv
  <2> QED
    BY Zenon, <2>1, <2>2
<1> QED
  BY <1>4, <1>5, <1>6, <1>7, <1>8 DEF TaskInv

-----------------------------------------------------------------------------
(* Waking no thread leaves frames and contexts alone.                      *)
LEMMA NothingWoken ==
    ASSUME TypeOK
    PROVE  blockingRsp = Unblocked({}) /\ ctxFresh = Restored({})
  BY DEF TypeOK, Unblocked, Restored

(* set_ready on present threads neither creates nor removes a thread.      *)
LEMMA SetReadyKeepsPresence ==
    ASSUME NEW T \in SUBSET Tids, \A t \in T : Present(t)
    PROVE  \A t \in Tids : SetReady(T, state)[t] = "Absent" <=> state[t] = "Absent"
  BY DEF SetReady, Present

(* Only present threads are woken from a target.                           *)
LEMMA SleepersPresent ==
    ASSUME NEW target
    PROVE  /\ SleepersOn(target) \in SUBSET Tids
           /\ \A t \in SleepersOn(target) : Present(t)
  BY DEF SleepersOn, Present

(* Only present threads have a timer that expires.                         *)
LEMMA ExpiredPresent ==
    ASSUME NEW W \in Expired
    PROVE  W \in SUBSET Tids /\ \A t \in W : Present(t)
  BY SleepersPresent DEF Expired

(* The main threads that kill_pid wakes are present.                       *)
LEMMA MainsPresent ==
    ASSUME NEW P
    PROVE  MainsOf(P) \in SUBSET Tids /\ \A t \in MainsOf(P) : Present(t)
  BY DEF MainsOf

(* A thread that is running on c, and what its process is.                 *)
LEMMA CurrentThread ==
    ASSUME TypeOK, TaskInv, NEW c \in Cpus, pc[c] \in ThreadPlaces
    PROVE  /\ currentTid[c] \in Tids /\ Present(currentTid[c])
           /\ AssignedCpu(currentTid[c]) = c
           /\ CurrentPid(c) \in Pids /\ CurrentPid(c) = tpid[currentTid[c]]
           /\ currentTid[c] \in threads[CurrentPid(c)]
           /\ alive[CurrentPid(c)]
           /\ \A d \in Cpus : d # c => currentTid[d] # currentTid[c]
<1>1. /\ currentTid[c] # Nobody /\ Present(currentTid[c]) /\ AssignedCpu(currentTid[c]) = c
      /\ \A d \in Cpus : d # c => currentTid[d] # currentTid[c]
  BY DEF TaskInv, CurrentInv
<1>2. CurrentPid(c) = tpid[currentTid[c]]
  BY <1>1 DEF CurrentPid
<1> QED
  BY <1>1, <1>2 DEF TaskInv, TableInv, Present

(* Syscalls that leave the tables alone and move only this CPU.            *)
LEMMA GotoQuiet ==
    ASSUME TypeOK, NEW c \in Cpus, pc[c] \in ThreadPlaces,
           NEW place \in ThreadPlaces \ {"exit2"}, NEW value, Goto(c, place, value)
    PROVE  /\ \A d \in Cpus : pc'[d] \in ThreadPlaces <=> pc[d] \in ThreadPlaces
           /\ \A d \in Cpus : pc'[d] = "exit2" => pc[d] = "exit2"
           /\ UNCHANGED <<currentTid, kstack>>
  BY DEF TypeOK, Goto

(* CPU c may drop its thread with the saved states W leaves behind.        *)
LEMMA SavedAfterWake ==
    ASSUME TypeOK, TaskInv, NEW c \in Cpus, currentTid[c] = Nobody, NEW W \in SUBSET Tids
    PROVE  SavedExcept(c, Unblocked(W), Restored(W))
<1> SUFFICES ASSUME NEW t \in Tids, Present(t)
             PROVE  IF \E d \in Cpus : d # c /\ currentTid[d] = t
                    THEN ~Restored(W)[t] /\ ~Unblocked(W)[t]
                    ELSE Restored(W)[t] # Unblocked(W)[t]
  BY Zenon DEF SavedExcept
<1>1. (\E d \in Cpus : d # c /\ currentTid[d] = t) <=> (\E d \in Cpus : currentTid[d] = t)
  BY TidNotNobody
<1>2. /\ Unblocked(W)[t] = (t \notin W /\ blockingRsp[t])
      /\ Restored(W)[t] = (ctxFresh[t] \/ (t \in W /\ blockingRsp[t]))
  BY DEF Unblocked, Restored
<1>3. blockingRsp[t] \in BOOLEAN /\ ctxFresh[t] \in BOOLEAN
  BY DEF TypeOK
<1> QED
  BY Zenon, <1>1, <1>2, <1>3 DEF TaskInv, FrameInv

(* An identifier not handed out yet has no blocking frame.                 *)
LEMMA FreshUnblocked ==
    ASSUME TaskInv, NEW W
    PROVE  \A t \in Tids : t >= nextTid => ~Unblocked(W)[t]
  BY Zenon DEF TaskInv, FreshInv, Unblocked

=============================================================================
