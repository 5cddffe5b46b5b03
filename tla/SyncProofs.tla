----------------------------- MODULE SyncProofs -----------------------------
(***************************************************************************)
(* The mutex of sync.c excludes for every number of threads, both policies *)
(* and every quantum, wherever the timer preempts them.                    *)
(***************************************************************************)
EXTENDS Sync, SchedProofs

(* The part of the state the mutex is about; it does not depend on who has *)
(* the CPU.                                                                *)
CallTypeOK ==
  /\ pc \in [Threads -> Places]
  /\ on \in [Threads -> Sems]
  /\ value \in [Sems -> Nat]
  /\ owner \in Threads \cup {NoOne}

MInv ==
  /\ CallTypeOK
  /\ MutualExclusion
  /\ HolderIsOwner
  /\ \A t \in Threads : pc[t] = "clear" => on[t] = "mutex"

(* The state mutex_init leaves. *)
LEMMA InitMInv == Init => MInv
<1> SUFFICES ASSUME Init PROVE MInv
  OBVIOUS
<1>1. NoOne \notin Threads
  BY SchedAssumption DEF NoOne, Threads, Slots
<1> QED BY <1>1 DEF Init, MInv, CallTypeOK, MutualExclusion, HolderIsOwner, Holds, Places, Sems

(* A thread that gets or loses the mutex does so alone: moving t leaves    *)
(* every other thread where it is.                                         *)
LEMMA NextMInv == MInv /\ [Next]_vars => MInv'
<1> SUFFICES ASSUME MInv, [Next]_vars PROVE MInv'
  OBVIOUS
<1> USE DEF MInv, CallTypeOK, MutualExclusion, HolderIsOwner, Holds
<1>0. NoOne \notin Threads
  BY SchedAssumption DEF NoOne, Threads, Slots
<1>1. ASSUME UNCHANGED <<pc, on, value, owner>> PROVE MInv'
  BY <1>1
<1>2. ASSUME NEW t \in Threads, NEW x \in Sems, StartWait(t, x) PROVE MInv'
  BY <1>2 DEF StartWait, Call, Goto, At, Places
<1>3. ASSUME NEW t \in Threads, TryLock(t) PROVE MInv'
  BY <1>0, <1>3 DEF TryLock, TryTaken, Call, Goto, At, Places, Sems
<1>4. ASSUME NEW t \in Threads, Unlock(t) PROVE MInv'
  BY <1>0, <1>4 DEF Unlock, Goto, At, Places, Sems
<1>5. ASSUME NEW t \in Threads, StartPost(t) PROVE MInv'
  BY <1>5 DEF StartPost, Call, Goto, At, Places, Sems
<1>6. ASSUME NEW t \in Threads, CheckValue(t) PROVE MInv'
  BY <1>6 DEF CheckValue, Available, Goto, At, Places, Sems
<1>7. ASSUME NEW t \in Threads, SetBlocked(t) \/ Yield(t) PROVE MInv'
  BY <1>7 DEF SetBlocked, Yield, Goto, At, Places
<1>8. ASSUME NEW t \in Threads, SetOwner(t) PROVE MInv'
  BY <1>0, <1>8 DEF SetOwner, Goto, At, Places
<1>9. ASSUME NEW t \in Threads, ClearOwner(t) PROVE MInv'
  BY <1>0, <1>9 DEF ClearOwner, Goto, At, Places
<1>10. ASSUME NEW t \in Threads, Increment(t) PROVE MInv'
  BY <1>10 DEF Increment, Goto, At, Places, Sems
<1>11. ASSUME NEW t \in Threads, task_wake_one(t) PROVE MInv'
  BY <1>11 DEF task_wake_one, Goto, At, Places
<1>12. ASSUME NEW t \in Threads, Exit(t) PROVE MInv'
  BY <1>1, <1>12 DEF Exit
<1> QED BY <1>1, <1>2, <1>3, <1>4, <1>5, <1>6, <1>7, <1>8, <1>9, <1>10, <1>11, <1>12
       DEF Next, Continue, TimerTick, vars, syncVars

(* mutex_lock, mutex_trylock and mutex_unlock exclude (sync.c). *)
THEOREM MutexExcludes == Spec => []MutualExclusion
<1>1. Spec => []MInv
  BY InitMInv, NextMInv, PTL DEF Spec
<1> QED BY <1>1, PTL DEF MInv

(* Whoever is inside the mutex is its owner (mutex_lock, mutex_unlock). *)
THEOREM OwnerRecorded == Spec => []HolderIsOwner
<1>1. Spec => []MInv
  BY InitMInv, NextMInv, PTL DEF Spec
<1> QED BY <1>1, PTL DEF MInv

-----------------------------------------------------------------------------
(* Blocking and waking *)

BInv ==
  /\ CallTypeOK
  /\ SchedTypeOK
  /\ task_count = MaxTasks
  /\ wait_channel \in [Threads -> SUBSET Sems]
  /\ OnlyRunning(state, current)
  /\ state[Idle] \in Runnable
  /\ BlockedOnChannel

(* The threads as task_create leaves them. *)
LEMMA InitBInv == Init => BInv
<1> SUFFICES ASSUME Init PROVE BInv
  OBVIOUS
<1> USE SchedAssumption
<1>1. 0 \in Slots /\ Slots \in SUBSET Nat /\ Quantum \in 1 .. Quantum /\ Threads \in SUBSET Slots
  BY DEF Slots, Threads
<1>2. CallTypeOK
  BY InitMInv DEF MInv
<1>3. SchedTypeOK
  BY <1>1 DEF Init, SchedTypeOK, States, Idle
<1>4. OnlyRunning(state, current) /\ state[Idle] \in Runnable
  BY <1>1 DEF Init, OnlyRunning, Runnable, Idle
<1>5. BlockedOnChannel /\ wait_channel \in [Threads -> SUBSET Sems]
  BY <1>1 DEF Init, BlockedOnChannel, Idle
<1> QED BY <1>2, <1>3, <1>4, <1>5 DEF BInv, Init

(* Steps in which no thread blocks and those of W are woken. *)
LEMMA WakeStep ==
  ASSUME BInv, CallTypeOK', SchedTypeOK', task_count' = task_count,
         OnlyRunning(state', current'), state'[Idle] \in Runnable, NEW W,
         \A u \in Threads : state'[u] = "BLOCKED" <=> state[u] = "BLOCKED" /\ u \notin W,
         wait_channel' = [u \in Threads |-> IF u \in W THEN {} ELSE wait_channel[u]],
         \A u \in W : u \in Threads => state[u] = "BLOCKED",
         \A u \in Threads : state[u] = "BLOCKED" => on'[u] = on[u] /\ pc'[u] \in {"ecall", "check"}
  PROVE  BInv'
<1>1. BlockedOnChannel' /\ wait_channel' \in [Threads -> SUBSET Sems]
  BY DEF BInv, BlockedOnChannel
<1> QED BY <1>1 DEF BInv

(* Steps that leave the states of the threads alone. *)
LEMMA CallStep ==
  ASSUME BInv, CallTypeOK', UNCHANGED <<schedVars, wait_channel>>,
         NEW t \in Threads, state[t] = "RUNNING",
         \A u \in Threads : u # t => on'[u] = on[u] /\ pc'[u] = pc[u]
  PROVE  BInv'
<1>1. SchedTypeOK' /\ OnlyRunning(state', current') /\ state' = state /\ task_count' = task_count
  BY DEF BInv, SchedTypeOK, OnlyRunning, schedVars
<1>2. BlockedOnChannel'
  BY <1>1 DEF BInv, BlockedOnChannel
<1> QED BY <1>1, <1>2 DEF BInv

(* SYS_EXIT *)
LEMMA ExitStep ==
  ASSUME BInv, CallTypeOK', NEW t \in Threads, Exit(t)
  PROVE  BInv'
<1> USE SchedAssumption
<1> DEFINE p    == ParentOf[t]
           wake == p # Idle /\ state[p] = "BLOCKED"
           dead == [state EXCEPT ![t] = "ZOMBIE"]
           st   == IF wake THEN [dead EXCEPT ![p] = "READY"] ELSE dead
           ord  == IF wake THEN EnterReady(ready_order, dead, p) ELSE ready_order
           W    == IF wake THEN {p} ELSE {}
<1>0. /\ Threads \in SUBSET Slots /\ Idle \in Slots /\ Idle \notin Threads
      /\ state \in [Slots -> States] /\ ready_order \in [Slots -> Nat]
      /\ wait_channel \in [Threads -> SUBSET Sems]
  BY DEF Threads, Idle, Slots, BInv, SchedTypeOK
<1>00. p \in Slots
  BY SyncAssumption
<1>1. /\ current = t /\ state[t] = "RUNNING" /\ task_reschedule(st, ord)
      /\ wait_channel' = IF wake THEN [wait_channel EXCEPT ![p] = {}] ELSE wait_channel
      /\ UNCHANGED <<task_count, pc, on>>
  BY DEF Exit, At
<1>2. Dispatch(st, ord)
  BY <1>1 DEF task_reschedule, BInv
<1>3. dead \in [Slots -> States]
  BY <1>0 DEF States
<1>4. st \in [Slots -> States] /\ ord \in [Slots -> Nat]
  BY <1>0, <1>00, <1>3, RankTypes, Zenon DEF States
<1>5. /\ st[Idle] = state[Idle]
      /\ \A u \in Threads : st[u] = "BLOCKED" <=> state[u] = "BLOCKED" /\ u \notin W
  BY <1>0, <1>00, <1>1
<1>6. OnlyRunning(st, current)
  BY <1>0, <1>00, <1>1 DEF BInv, OnlyRunning
<1>7. wait_channel' = [u \in Threads |-> IF u \in W THEN {} ELSE wait_channel[u]]
  BY <1>0, <1>00, <1>1, Zenon
<1>8. \A u \in W : u \in Threads => state[u] = "BLOCKED"
  OBVIOUS
<1> HIDE DEF st, ord, W, wake, dead, p
<1>9. SchedTypeOK' /\ SameLife(st, state') /\ OnlyRunning(state', current')
  BY <1>2, <1>4, <1>6, DispatchEffect DEF BInv
<1>10. /\ state'[Idle] \in Runnable
       /\ \A u \in Threads : state'[u] = "BLOCKED" <=> state[u] = "BLOCKED" /\ u \notin W
  BY <1>0, <1>5, <1>9 DEF SameLife, Runnable, BInv
<1>11. \A u \in Threads : state[u] = "BLOCKED" => on'[u] = on[u] /\ pc'[u] \in {"ecall", "check"}
  BY <1>1 DEF BInv, BlockedOnChannel
<1> QED BY <1>1, <1>7, <1>8, <1>9, <1>10, <1>11, WakeStep

(* Every step keeps the threads' states and channels consistent. *)
LEMMA NextBInv == BInv /\ CallTypeOK' /\ [Next]_vars => BInv'
<1> SUFFICES ASSUME BInv, CallTypeOK', [Next]_vars PROVE BInv'
  OBVIOUS
<1> USE SchedAssumption
<1>0. /\ Threads \in SUBSET Slots /\ Idle \in Slots /\ Idle \notin Threads
      /\ wait_channel \in [Threads -> SUBSET Sems]
      /\ pc \in [Threads -> Places] /\ on \in [Threads -> Sems]
  BY DEF Threads, Idle, Slots, BInv, CallTypeOK
<1>1. wait_channel = [u \in Threads |-> IF u \in {} THEN {} ELSE wait_channel[u]]
  BY <1>0
<1>2. \A u \in Threads : state[u] = "BLOCKED" => pc[u] \in {"ecall", "check"}
  BY DEF BInv, BlockedOnChannel
<1>3. ASSUME UNCHANGED vars PROVE BInv'
  BY <1>3 DEF vars, schedVars, syncVars, BInv, SchedTypeOK, OnlyRunning, BlockedOnChannel
<1>4. ASSUME SchedTypeOK', SameLife(state, state'), OnlyRunning(state', current'),
             task_count' = task_count, wait_channel' = wait_channel, on' = on,
             \A u \in Threads : state[u] = "BLOCKED" => pc'[u] \in {"ecall", "check"}
      PROVE  BInv'
  <2>1. /\ state'[Idle] \in Runnable
        /\ \A u \in Threads : state'[u] = "BLOCKED" <=> state[u] = "BLOCKED" /\ u \notin {}
    BY <1>0, <1>4 DEF SameLife, Runnable, BInv
  <2>2. wait_channel' = [u \in Threads |-> IF u \in {} THEN {} ELSE wait_channel[u]]
    BY <1>1, <1>4
  <2>3. /\ \A u \in {} : u \in Threads => state[u] = "BLOCKED"
        /\ \A u \in Threads : state[u] = "BLOCKED" => on'[u] = on[u] /\ pc'[u] \in {"ecall", "check"}
    BY <1>4
  <2> QED BY <1>4, <2>1, <2>2, <2>3, WakeStep
<1>5. ASSUME TimerTick PROVE BInv'
  <2>1. SchedTypeOK' /\ SameLife(state, state') /\ OnlyRunning(state', current')
    BY <1>5, SchedTickEffect DEF TimerTick, BInv
  <2> QED BY <1>2, <1>4, <1>5, <2>1 DEF TimerTick, syncVars
<1>6. ASSUME NEW t \in Threads,
             \/ \E x \in Sems : StartWait(t, x)
             \/ TryLock(t) \/ Unlock(t) \/ StartPost(t) \/ CheckValue(t) \/ SetOwner(t)
             \/ ClearOwner(t) \/ Increment(t)
      PROVE  BInv'
  <2>1. /\ UNCHANGED <<schedVars, wait_channel>> /\ state[t] = "RUNNING"
        /\ on' = on \/ \E x \in Sems : on' = [on EXCEPT ![t] = x]
        /\ \E p \in Places : pc' = [pc EXCEPT ![t] = p]
    BY <1>6 DEF StartWait, TryLock, Unlock, StartPost, CheckValue, SetOwner, ClearOwner,
                Increment, Call, Goto, At, Sems, Places
  <2>2. \A u \in Threads : u # t => on'[u] = on[u] /\ pc'[u] = pc[u]
    BY <1>0, <2>1
  <2> QED BY <2>1, <2>2, CallStep
<1>7. ASSUME NEW t \in Threads, SetBlocked(t) PROVE BInv'
  <2>1. /\ current = t /\ state[t] = "RUNNING" /\ on' = on /\ task_count' = task_count
        /\ state' = [state EXCEPT ![t] = "BLOCKED"]
        /\ wait_channel' = [wait_channel EXCEPT ![t] = {on[t]}]
        /\ pc' = [pc EXCEPT ![t] = "ecall"]
        /\ UNCHANGED <<ready_order, ticks_left, current>>
    BY <1>7 DEF SetBlocked, At, Goto
  <2>2. SchedTypeOK' /\ OnlyRunning(state', current') /\ state'[Idle] \in Runnable
    BY <1>0, <2>1 DEF BInv, SchedTypeOK, OnlyRunning, States
  <2>3. BlockedOnChannel'
    BY <1>0, <2>1 DEF BInv, SchedTypeOK, BlockedOnChannel
  <2>4. wait_channel' \in [Threads -> SUBSET Sems]
    BY <1>0, <2>1
  <2> QED BY <2>1, <2>2, <2>3, <2>4 DEF BInv
<1>8. ASSUME NEW t \in Threads, Yield(t) PROVE BInv'
  <2>1. /\ task_reschedule(state, ready_order) /\ pc' = [pc EXCEPT ![t] = "check"]
        /\ UNCHANGED <<task_count, on, wait_channel>>
    BY <1>8 DEF Yield, Goto
  <2>2. Dispatch(state, ready_order)
    BY <2>1 DEF task_reschedule, BInv
  <2>3. SchedTypeOK' /\ SameLife(state, state') /\ OnlyRunning(state', current')
    BY <2>2, DispatchEffect DEF BInv, SchedTypeOK
  <2>4. \A u \in Threads : state[u] = "BLOCKED" => pc'[u] \in {"ecall", "check"}
    BY <1>0, <1>2, <2>1
  <2> QED BY <1>4, <2>1, <2>3, <2>4
<1>9. ASSUME NEW t \in Threads, task_wake_one(t) PROVE BInv'
  <2>1. /\ current = t /\ state[t] = "RUNNING" /\ pc' = [pc EXCEPT ![t] = "run"]
        /\ UNCHANGED <<ticks_left, current, task_count, on>>
    BY <1>9 DEF task_wake_one, At, Goto
  <2>2. \A u \in Threads : state[u] = "BLOCKED" => pc'[u] \in {"ecall", "check"}
    BY <1>0, <1>2, <2>1
  <2>3. CASE Waiters(on[t]) = {}
    <3>1. UNCHANGED <<state, ready_order, wait_channel>>
      BY <1>9, <2>3 DEF task_wake_one
    <3>2. SchedTypeOK' /\ SameLife(state, state') /\ OnlyRunning(state', current')
      BY <2>1, <3>1 DEF BInv, SchedTypeOK, SameLife, OnlyRunning
    <3> QED BY <1>4, <2>1, <2>2, <3>1, <3>2
  <2>4. CASE Waiters(on[t]) # {}
    <3> DEFINE s == Lowest(Waiters(on[t]))
    <3>1. Waiters(on[t]) \in SUBSET Nat
      BY DEF Waiters, Threads, Slots
    <3>2. s \in Waiters(on[t])
      BY <2>4, <3>1, LowestIn
    <3>3. MakeReady(s)
      BY <1>9, <2>4 DEF task_wake_one
    <3> HIDE DEF s
    <3>4. s \in Threads /\ s \in Slots /\ state[s] = "BLOCKED"
      BY <1>0, <3>2 DEF Waiters
    <3>5. /\ state' = [state EXCEPT ![s] = "READY"]
          /\ ready_order' = EnterReady(ready_order, state, s)
          /\ wait_channel' = [wait_channel EXCEPT ![s] = {}]
      BY <3>3 DEF MakeReady
    <3>6. ready_order' \in [Slots -> Nat]
      BY <3>4, <3>5, RankTypes DEF BInv, SchedTypeOK
    <3>7. SchedTypeOK' /\ OnlyRunning(state', current') /\ state'[Idle] \in Runnable
      BY <1>0, <2>1, <3>4, <3>5, <3>6, Zenon DEF BInv, SchedTypeOK, OnlyRunning, States
    <3>8. /\ \A u \in Threads : state'[u] = "BLOCKED" <=> state[u] = "BLOCKED" /\ u \notin {s}
          /\ wait_channel' = [u \in Threads |-> IF u \in {s} THEN {} ELSE wait_channel[u]]
      BY <1>0, <3>4, <3>5, Zenon DEF BInv, SchedTypeOK
    <3>9. \A u \in {s} : u \in Threads => state[u] = "BLOCKED"
      BY <3>4
    <3> QED BY <2>1, <2>2, <3>7, <3>8, <3>9, WakeStep, Zenon
  <2> QED BY <2>3, <2>4
<1>10. ASSUME NEW t \in Threads, Exit(t) PROVE BInv'
  BY <1>10, ExitStep
<1> QED BY <1>3, <1>5, <1>6, <1>7, <1>8, <1>9, <1>10 DEF Next, Continue

(* Both invariants together. *)
LEMMA SyncInvariance == Spec => [](MInv /\ BInv)
<1>1. MInv => CallTypeOK
  BY DEF MInv
<1>2. MInv /\ BInv /\ [Next]_vars => (MInv /\ BInv)'
  BY <1>1, NextMInv, NextBInv DEF MInv
<1> QED BY InitMInv, InitBInv, <1>2, PTL DEF Spec

(* The types of the whole state. *)
THEOREM SyncTypeCorrect == Spec => []TypeOK
<1>1. MInv /\ BInv => TypeOK
  BY DEF MInv, BInv, CallTypeOK, SchedTypeOK, TypeOK
<1> QED BY <1>1, SyncInvariance, PTL

(* A thread is BLOCKED exactly when it is on the channel of its semaphore  *)
(* (task_block, task_wake_one, task_exit).                                 *)
THEOREM BlockedThreadsOnChannel == Spec => []BlockedOnChannel
<1>1. BInv => BlockedOnChannel
  BY DEF BInv
<1> QED BY <1>1, SyncInvariance, PTL
=============================================================================
