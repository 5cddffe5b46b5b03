----------------------------- MODULE TaskSteps ------------------------------
(***************************************************************************)
(* The inductive invariant of Task, and what each kind of change to the    *)
(* task table does to it: a task is created, a task dies, a zombie is      *)
(* reaped, the family stays as it is; then the kinds in which the CPU      *)
(* moves: current blocks, a tick or the death of current.                  *)
(***************************************************************************)
EXTENDS Task, SchedProofs

-----------------------------------------------------------------------------
(* The inductive invariant *)

(* The boot thread has the CPU until it has started the shell. *)
MachOK ==
  /\ shell_pid \in Nat /\ polling \in BOOLEAN /\ halted \in BOOLEAN
  /\ shell_pid = 0 => current = Idle

LiveSlots == {s \in Slots : Live(s)}

(* The boot thread has pid 0, nobody else has, and it never blocks. *)
BootThread ==
  /\ pid[Idle] = 0 /\ pending[Idle] = {}
  /\ \A s \in Slots \ {Idle} : Live(s) => pid[s] > 0

IInv ==
  /\ TypeOK
  /\ CurrentRuns
  /\ TaskCountExact
  /\ PidsDistinct
  /\ BootThread
  /\ MachOK
  /\ FamilyTree
  /\ NoLostWakeup
  /\ WokenForZombie

(* The initial state of task_init satisfies the invariant. *)
LEMMA InitIInv == Init => IInv
<1> SUFFICES ASSUME Init PROVE IInv
  OBVIOUS
<1> USE SchedAssumption
<1>1. 0 \in Slots /\ Quantum \in 1 .. Quantum
  BY DEF Slots
<1>2. TypeOK
  <2>1. /\ state \in [Slots -> States] /\ current \in Slots
        /\ ticks_left \in [Slots -> 1 .. Quantum] /\ ready_order \in [Slots -> Nat]
    BY <1>1 DEF Init, States, Idle
  <2>2. /\ pid \in [Slots -> Int] /\ ppid \in [Slots -> Int] /\ exit_code \in [Slots -> Int]
        /\ wait_target \in [Slots -> Int] /\ task_count \in Int
        /\ next_pid \in Nat \ {0} /\ shell_pid \in Nat
    BY DEF Init
  <2>3. /\ has_user_space \in [Slots -> BOOLEAN] /\ name \in [Slots -> {"shell", "other"}]
        /\ pending \in [Slots -> SUBSET WaitArgs] /\ polling \in BOOLEAN /\ halted \in BOOLEAN
    BY Zenon DEF Init
  <2> QED BY <2>1, <2>2, <2>3 DEF TypeOK
<1>3. CurrentRuns
  BY <1>1 DEF Init, CurrentRuns, Idle
<1>4. TaskCountExact
  <2>1. {s \in Slots : Live(s)} = {Idle}
    BY <1>1 DEF Init, Live, Idle
  <2> QED BY <2>1, FS_Singleton, Zenon DEF Init, TaskCountExact
<1>5. PidsDistinct /\ BootThread
  BY <1>1 DEF Init, PidsDistinct, BootThread, Live, Idle
<1>7. MachOK
  BY <1>2 DEF Init, TypeOK, MachOK
<1>6. FamilyTree /\ NoLostWakeup /\ WokenForZombie
  BY <1>1 DEF Init, FamilyTree, NoLostWakeup, WokenForZombie, Live, Idle
<1> QED BY <1>2, <1>3, <1>4, <1>5, <1>6, <1>7 DEF IInv

(* task_create and task_fork_from_trap: a new task, or a failed attempt    *)
(* that only uses up a pid.                                                *)
LEMMA CreateStep ==
  ASSUME IInv, NEW user \in BOOLEAN, NEW nm \in {"shell", "other"}, NEW ok \in BOOLEAN,
         NewTask(user, nm, ok), MachOK',
         state[current] = "RUNNING"
  PROVE  IInv'
<1> USE SchedAssumption
<1> DEFINE slot == Lowest(FreeSlots)
<1>0. 0 \in Slots /\ Slots \in SUBSET Nat /\ Quantum \in 1 .. Quantum
  BY DEF Slots
<1>1. slot \in Slots \ {Idle} /\ state[slot] = "UNUSED"
  <2>1. FreeSlots \in SUBSET Nat /\ FreeSlots # {}
    BY <1>0, Zenon DEF FreeSlots, NewTask
  <2> QED BY <2>1, LowestIn DEF FreeSlots
<1>2. /\ pid' = [pid EXCEPT ![slot] = next_pid]
      /\ next_pid' = next_pid + 1
      /\ ppid' = [ppid EXCEPT ![slot] = pid[current]]
      /\ exit_code' = [exit_code EXCEPT ![slot] = 0]
      /\ wait_target' = [wait_target EXCEPT ![slot] = -1]
      /\ ticks_left' = [ticks_left EXCEPT ![slot] = Quantum]
      /\ has_user_space' = [has_user_space EXCEPT ![slot] = user /\ ok]
      /\ name' = [name EXCEPT ![slot] = nm]
      /\ pending' = [pending EXCEPT ![slot] = {}]
      /\ state' = IF ok THEN [state EXCEPT ![slot] = "READY"] ELSE state
      /\ ready_order' = IF ok THEN EnterReady(ready_order, state, slot) ELSE ready_order
      /\ task_count' = IF ok THEN task_count + 1 ELSE task_count
      /\ current' = current
  BY DEF NewTask, NewPid, CountAfterCreate
<1> HIDE DEF slot
<1>3. TypeOK'
  <2>1. ready_order' \in [Slots -> Nat]
    BY <1>1, <1>2, RankTypes, Zenon DEF IInv, TypeOK
  <2>2. state' \in [Slots -> States] /\ current' \in Slots /\ task_count' \in Int
    BY <1>1, <1>2 DEF IInv, TypeOK, States
  <2>3. /\ pid' \in [Slots -> Int] /\ ppid' \in [Slots -> Int] /\ exit_code' \in [Slots -> Int]
        /\ wait_target' \in [Slots -> Int] /\ next_pid' \in Nat \ {0}
    BY <1>1, <1>2 DEF IInv, TypeOK
  <2>4. ticks_left' \in [Slots -> 1 .. Quantum]
    BY <1>0, <1>1, <1>2 DEF IInv, TypeOK
  <2>5. /\ has_user_space' \in [Slots -> BOOLEAN] /\ name' \in [Slots -> {"shell", "other"}]
        /\ pending' \in [Slots -> SUBSET WaitArgs]
    BY <1>1, <1>2 DEF IInv, TypeOK
  <2> QED BY <2>1, <2>2, <2>3, <2>4, <2>5 DEF TypeOK, MachOK
<1>4. CurrentRuns'
  BY <1>0, <1>1, <1>2 DEF IInv, CurrentRuns, TypeOK, Idle
<1>5. TaskCountExact'
  <2>1. LiveSlots \in SUBSET Slots /\ slot \notin LiveSlots
    BY <1>1 DEF LiveSlots, Live
  <2>2. IsFiniteSet(LiveSlots)
    BY <2>1, SlotsFinite
  <2>3. LiveSlots' = IF ok THEN LiveSlots \cup {slot} ELSE LiveSlots
    BY <1>1, <1>2 DEF LiveSlots, Live, IInv, TypeOK
  <2> QED BY <1>2, <2>1, <2>2, <2>3, FS_AddElement, Zenon DEF TaskCountExact, LiveSlots, IInv
<1>6. PidsDistinct' /\ BootThread'
  BY <1>0, <1>1, <1>2 DEF IInv, TypeOK, PidsDistinct, BootThread, Live, Idle
<1>7. FamilyTree'
  <2>1. SUFFICES ASSUME NEW s \in Slots \ {Idle}, Live(s)'
                 PROVE  /\ ppid'[s] < pid'[s]
                        /\ \E t \in Slots : /\ state'[t] \notin {"UNUSED", "ZOMBIE"}
                                            /\ pid'[t] = ppid'[s]
    BY DEF FamilyTree
  <2>2. CASE s = slot
    <3>1. ppid'[s] = pid[current] /\ pid'[s] = next_pid /\ current \in Slots /\ current # slot
      BY <1>1, <1>2, <2>2 DEF IInv, TypeOK
    <3>2. pid[current] < next_pid /\ pid'[current] = pid[current] /\ state'[current] = "RUNNING"
      BY <1>1, <1>2, <3>1 DEF IInv, TypeOK, PidsDistinct
    <3> QED BY <3>1, <3>2
  <2>3. CASE s # slot
    <3>1. ppid'[s] = ppid[s] /\ pid'[s] = pid[s] /\ Live(s)
      BY <1>1, <1>2, <2>1, <2>3 DEF IInv, TypeOK, Live
    <3>2. PICK t \in Slots : state[t] \notin {"UNUSED", "ZOMBIE"} /\ pid[t] = ppid[s]
      BY <3>1 DEF IInv, FamilyTree
    <3>3. state'[t] = state[t] /\ pid'[t] = pid[t]
      BY <1>1, <1>2, <3>2 DEF IInv, TypeOK
    <3> QED BY <3>1, <3>2, <3>3 DEF IInv, FamilyTree
  <2> QED BY <2>2, <2>3
<1>8. \A s \in Slots : s # slot => /\ state'[s] = state[s] /\ pid'[s] = pid[s]
                                   /\ ppid'[s] = ppid[s] /\ wait_target'[s] = wait_target[s]
                                   /\ pending'[s] = pending[s]
  BY <1>1, <1>2 DEF IInv, TypeOK
<1>9. state'[slot] \in {"READY", "UNUSED"} /\ pending'[slot] = {}
  BY <1>1, <1>2 DEF IInv, TypeOK
<1>10. NoLostWakeup'
  <2>1. SUFFICES ASSUME NEW s \in Slots, state'[s] = "BLOCKED", wait_target'[s] # 0
                 PROVE  /\ \E c \in Slots : (IsChild(c, s) /\ Wanted(c, s))' /\ state'[c] # "ZOMBIE"
                        /\ \A c \in Slots : (IsChild(c, s) /\ Wanted(c, s))' => state'[c] # "ZOMBIE"
    BY DEF NoLostWakeup
  <2>2. s # slot /\ state[s] = "BLOCKED" /\ wait_target[s] # 0
    BY <1>8, <1>9, <2>1
  <2>3. PICK c \in Slots : IsChild(c, s) /\ Wanted(c, s) /\ state[c] # "ZOMBIE"
    BY <2>2 DEF IInv, NoLostWakeup
  <2>4. c # slot
    BY <1>1, <2>3 DEF IsChild, Live
  <2>5. (IsChild(c, s) /\ Wanted(c, s))' /\ state'[c] # "ZOMBIE"
    BY <1>8, <2>2, <2>3, <2>4 DEF IsChild, Wanted, Live
  <2>6. \A d \in Slots : (IsChild(d, s) /\ Wanted(d, s))' => state'[d] # "ZOMBIE"
    BY <1>8, <1>9, <2>2 DEF IsChild, Wanted, Live, IInv, NoLostWakeup
  <2> QED BY <2>5, <2>6
<1>11. WokenForZombie'
  <2>1. SUFFICES ASSUME NEW s \in Slots, pending'[s] # {}, state'[s] \in {"READY", "RUNNING"}
                 PROVE  \E c \in Slots : IsChild(c, s)' /\ state'[c] = "ZOMBIE"
    BY DEF WokenForZombie
  <2>2. s # slot /\ pending[s] # {} /\ state[s] \in {"READY", "RUNNING"}
    BY <1>8, <1>9, <2>1
  <2>3. PICK c \in Slots : IsChild(c, s) /\ state[c] = "ZOMBIE"
    BY <2>2 DEF IInv, WokenForZombie
  <2>4. c # slot
    BY <1>1, <2>3
  <2> QED BY <1>8, <2>2, <2>3, <2>4 DEF IsChild, Live
<1> QED BY <1>3, <1>4, <1>5, <1>6, <1>7, <1>10, <1>11 DEF IInv

(* find_pid on a table with distinct pids: the task found is live and has  *)
(* the pid, and a live task with the pid is the one found.                 *)
LEMMA FindPid ==
  ASSUME TypeOK, PidsDistinct, NEW p
  PROVE  /\ find_pid(p) \in SUBSET Slots
         /\ \A t \in Slots : t \in find_pid(p) <=> Live(t) /\ pid[t] = p
<1> DEFINE match == {s \in Slots : Live(s) /\ pid[s] = p}
<1>1. CASE match = {}
  BY <1>1 DEF find_pid
<1>2. CASE match # {}
  <2>1. match \in SUBSET Nat
    BY SchedAssumption DEF Slots
  <2>2. Lowest(match) \in match
    BY <1>2, <2>1, LowestIn
  <2>3. find_pid(p) = {Lowest(match)}
    BY <1>2 DEF find_pid
  <2> HIDE DEF match
  <2>4. \A t \in Slots : t \in match <=> Live(t) /\ pid[t] = p
    BY DEF match
  <2>5. \A t \in Slots : t \in match => t = Lowest(match)
    BY <2>2, <2>4 DEF PidsDistinct, match
  <2>6. Lowest(match) \in Slots
    BY <2>2 DEF match
  <2> QED BY <2>2, <2>3, <2>4, <2>5, <2>6
<1> QED BY <1>1, <1>2

(* The part of task_exit and task_kill that changes task states. *)
LEMMA DeathTypes ==
  ASSUME TypeOK, NEW z \in Slots
  PROVE  /\ AfterDeath(z) \in [Slots -> States]
         /\ OrderAfterDeath(z) \in [Slots -> Nat]
<1>1. AfterDeath(z) \in [Slots -> States]
  BY DEF AfterDeath, TypeOK, States
<1>2. OrderAfterDeath(z) \in [Slots -> Nat]
  <2> DEFINE ord == LeaveReady(ready_order, z)
             st  == [state EXCEPT ![z] = "ZOMBIE"]
  <2>1. ord \in [Slots -> Nat] /\ st \in [Slots -> States]
    BY RankTypes, Zenon DEF TypeOK, States
  <2> HIDE DEF ord, st
  <2>2. \A s \in Slots : EnterReady(ord, st, s)[s] \in Nat /\ ord[s] \in Nat
    BY <2>1, RankTypes
  <2>3. OrderAfterDeath(z) =
          [s \in Slots |-> IF s \in WokenBy(z) THEN EnterReady(ord, st, s)[s] ELSE ord[s]]
    BY DEF OrderAfterDeath, ord, st
  <2> QED BY <2>2, <2>3
<1> QED BY <1>1, <1>2

(* task_exit and task_kill: z dies, its parent is woken if it waits for z, *)
(* its children are adopted.  The scheduler may run in the same step.      *)
LEMMA DeathStep ==
  ASSUME IInv, NEW z \in Slots \ {Idle}, NEW code \in Int,
         state[z] \notin {"UNUSED", "ZOMBIE"}, Die(z, code),
         SameLife(AfterDeath(z), state'), SchedTypeOK', CurrentRuns', MachOK'
  PROVE  IInv'
<1> USE SchedAssumption
<1>0. 0 \in Slots
  BY DEF Slots
<1>1. /\ exit_code' = [exit_code EXCEPT ![z] = code]
      /\ ppid' = Reparent(z)
      /\ pid' = pid /\ wait_target' = wait_target /\ has_user_space' = has_user_space
      /\ name' = name /\ pending' = pending /\ next_pid' = next_pid /\ task_count' = task_count
  BY DEF Die
<1>2. TypeOK'
  <2>1. ppid' \in [Slots -> Int]
    BY <1>1 DEF IInv, TypeOK, Reparent
  <2> QED BY <1>1, <2>1, Zenon DEF IInv, TypeOK, SchedTypeOK, MachOK
<1>3. \A s \in Slots : AfterDeath(z)[s] =
        IF s = z THEN "ZOMBIE" ELSE IF s \in WokenBy(z) THEN "READY" ELSE state[s]
  BY DEF AfterDeath
<1>4. \A s \in Slots : s \in WokenBy(z) <=>
        /\ Live(s) /\ pid[s] = ppid[z] /\ state[s] = "BLOCKED"
        /\ wait_target[s] < 0 \/ wait_target[s] = pid[z]
  <2>1. \A s \in Slots : s \in find_pid(ppid[z]) <=> Live(s) /\ pid[s] = ppid[z]
    BY FindPid DEF IInv
  <2> QED BY <2>1 DEF WokenBy
<1>5. state'[z] = "ZOMBIE" /\ \A s \in Slots \ {z} :
        /\ state'[s] = "ZOMBIE" <=> state[s] = "ZOMBIE"
        /\ state'[s] = "UNUSED" <=> state[s] = "UNUSED"
        /\ state'[s] = "BLOCKED" <=> state[s] = "BLOCKED" /\ s \notin WokenBy(z)
  BY <1>3, <1>4 DEF SameLife, Runnable
<1>6. \A s \in Slots : Live(s)' <=> Live(s)
  BY <1>5 DEF Live
<1>7. TaskCountExact'
  <2>1. {s \in Slots : Live(s)}' = {s \in Slots : Live(s)}
    BY <1>6
  <2> QED BY <1>1, <2>1 DEF IInv, TaskCountExact
<1>8. PidsDistinct' /\ BootThread'
  BY <1>1, <1>6 DEF IInv, PidsDistinct, BootThread
<1>9. \A s \in Slots : ppid'[s] = IF s # Idle /\ Live(s) /\ ppid[s] = pid[z] THEN 0 ELSE ppid[s]
  BY <1>1 DEF Reparent
<1>10. Live(z) /\ pid[z] > 0 /\ ppid[z] < pid[z] /\ pid[z] \in Int /\ ppid[z] \in Int
  BY DEF Live, IInv, BootThread, FamilyTree, TypeOK
<1>11. ppid'[z] = ppid[z]
  <2>1. ppid[z] # pid[z]
    BY <1>10
  <2>2. ppid'[z] = IF z # Idle /\ Live(z) /\ ppid[z] = pid[z] THEN 0 ELSE ppid[z]
    BY <1>9
  <2> QED BY <2>1, <2>2
<1>12. FamilyTree'
  <2>1. SUFFICES ASSUME NEW s \in Slots \ {Idle}, Live(s)'
                 PROVE  /\ ppid'[s] < pid'[s]
                        /\ \E t \in Slots : /\ state'[t] \notin {"UNUSED", "ZOMBIE"}
                                            /\ pid'[t] = ppid'[s]
    BY DEF FamilyTree
  <2>2. Live(s) /\ pid'[s] = pid[s]
    BY <1>1, <1>6, <2>1
  <2>3. CASE ppid[s] = pid[z]
    <3>1. ppid'[s] = 0 /\ pid[s] > 0
      BY <1>9, <2>2, <2>3 DEF IInv, BootThread
    <3>2. Idle \in Slots /\ pid'[Idle] = 0 /\ state'[Idle] \notin {"UNUSED", "ZOMBIE"}
      BY <1>0, <1>1 DEF IInv, BootThread, CurrentRuns, Idle
    <3> QED BY <2>2, <3>1, <3>2
  <2>4. CASE ppid[s] # pid[z]
    <3>1. ppid'[s] = ppid[s]
      BY <1>9, <2>4
    <3>2. PICK t \in Slots : state[t] \notin {"UNUSED", "ZOMBIE"} /\ pid[t] = ppid[s]
      BY <2>2 DEF IInv, FamilyTree
    <3>3. t # z
      BY <2>4, <3>2
    <3>4. state'[t] \notin {"UNUSED", "ZOMBIE"} /\ pid'[t] = ppid'[s]
      BY <1>1, <1>5, <3>1, <3>2, <3>3
    <3> QED BY <2>2, <3>1, <3>4 DEF IInv, FamilyTree
  <2> QED BY <2>3, <2>4
<1>13. NoLostWakeup'
  <2>1. SUFFICES ASSUME NEW s \in Slots, state'[s] = "BLOCKED", wait_target'[s] # 0
                 PROVE  /\ \E c \in Slots : (IsChild(c, s) /\ Wanted(c, s))' /\ state'[c] # "ZOMBIE"
                        /\ \A c \in Slots : (IsChild(c, s) /\ Wanted(c, s))' => state'[c] # "ZOMBIE"
    BY DEF NoLostWakeup
  <2>2. s # z /\ state[s] = "BLOCKED" /\ s \notin WokenBy(z) /\ wait_target[s] # 0 /\ Live(s)
    BY <1>1, <1>5, <2>1 DEF Live
  <2>3. s # Idle /\ pid[s] > 0 /\ pid[s] # pid[z]
    BY <1>10, <2>2 DEF IInv, CurrentRuns, BootThread, PidsDistinct
  <2>4. \A c \in Slots : IsChild(c, s)' <=> IsChild(c, s)
    BY <1>1, <1>6, <1>9, <2>3 DEF IsChild, IInv, TypeOK
  <2>5. \A c \in Slots : Wanted(c, s)' <=> Wanted(c, s)
    BY <1>1 DEF Wanted
  <2>6. ~(IsChild(z, s) /\ Wanted(z, s))
    BY <1>4, <2>2 DEF IsChild, Wanted, IInv, TypeOK
  <2>7. \A c \in Slots : IsChild(c, s) /\ Wanted(c, s) => (state'[c] = "ZOMBIE" <=> state[c] = "ZOMBIE")
    BY <1>5, <2>6
  <2> QED BY <2>2, <2>4, <2>5, <2>7 DEF IInv, NoLostWakeup
<1>14. WokenForZombie'
  <2>1. SUFFICES ASSUME NEW s \in Slots, pending'[s] # {}, state'[s] \in {"READY", "RUNNING"}
                 PROVE  \E c \in Slots : IsChild(c, s)' /\ state'[c] = "ZOMBIE"
    BY DEF WokenForZombie
  <2>2. s # z /\ pending[s] # {}
    BY <1>1, <1>5, <2>1
  <2>3. CASE s \in WokenBy(z)
    <3>1. IsChild(z, s)'
      BY <1>1, <1>4, <1>6, <1>10, <1>11, <2>3 DEF IsChild
    <3> QED BY <1>5, <3>1
  <2>4. CASE s \notin WokenBy(z)
    <3>1. state[s] \in {"READY", "RUNNING"} /\ Live(s)
      BY <1>5, <2>1, <2>2, <2>4 DEF Live, IInv, TypeOK, States
    <3>2. PICK c \in Slots : IsChild(c, s) /\ state[c] = "ZOMBIE"
      BY <2>2, <3>1 DEF IInv, WokenForZombie
    <3>3. c # z /\ pid[s] # pid[z]
      BY <1>10, <2>2, <3>1, <3>2 DEF IInv, PidsDistinct
    <3>4. IsChild(c, s)'
      BY <1>1, <1>6, <1>9, <3>2, <3>3 DEF IsChild
    <3> QED BY <1>5, <3>2, <3>3, <3>4
  <2> QED BY <2>3, <2>4
<1> QED BY <1>2, <1>7, <1>8, <1>12, <1>13, <1>14 DEF IInv

(* The reaping part of task_waitpid: a dead child of current leaves the    *)
(* table.                                                                  *)
LEMMA ReapStep ==
  ASSUME IInv, NEW c \in Slots \ {Idle}, state[c] = "ZOMBIE", ppid[c] = pid[current],
         state[current] = "RUNNING", Reap(c), MachOK',
         pending' \in {pending, [pending EXCEPT ![current] = {}]}, pending'[current] = {}
  PROVE  IInv'
<1> USE SchedAssumption
<1>0. 0 \in Slots /\ current \in Slots /\ c # current
  BY DEF Slots, IInv, TypeOK
<1>1. /\ state' = [state EXCEPT ![c] = "UNUSED"]
      /\ pid' = [pid EXCEPT ![c] = -1]
      /\ ppid' = [ppid EXCEPT ![c] = -1]
      /\ has_user_space' = [has_user_space EXCEPT ![c] = FALSE]
      /\ name' = [name EXCEPT ![c] = "other"]
      /\ task_count' = task_count - 1
      /\ ready_order' = ready_order /\ ticks_left' = ticks_left /\ current' = current
      /\ exit_code' = exit_code /\ wait_target' = wait_target /\ next_pid' = next_pid
  BY DEF Reap
<1>2. TypeOK'
  <2>1. /\ state' \in [Slots -> States] /\ name' \in [Slots -> {"shell", "other"}]
        /\ has_user_space' \in [Slots -> BOOLEAN] /\ pending' \in [Slots -> SUBSET WaitArgs]
    BY <1>0, <1>1 DEF IInv, TypeOK, States
  <2>2. pid' \in [Slots -> Int] /\ ppid' \in [Slots -> Int] /\ task_count' \in Int
    BY <1>0, <1>1 DEF IInv, TypeOK
  <2> QED BY <1>1, <2>1, <2>2 DEF IInv, TypeOK, MachOK
<1>3. /\ state'[c] = "UNUSED"
      /\ \A s \in Slots : s # c => /\ state'[s] = state[s] /\ pid'[s] = pid[s]
                                   /\ ppid'[s] = ppid[s] /\ has_user_space'[s] = has_user_space[s]
  BY <1>0, <1>1 DEF IInv, TypeOK
<1>4. CurrentRuns'
  BY <1>0, <1>1, <1>3 DEF IInv, CurrentRuns, Idle
<1>5. TaskCountExact'
  <2>1. LiveSlots \in SUBSET Slots /\ c \in LiveSlots
    BY DEF LiveSlots, Live
  <2>2. IsFiniteSet(LiveSlots)
    BY <2>1, SlotsFinite
  <2>3. LiveSlots' = LiveSlots \ {c}
    BY <1>3 DEF LiveSlots, Live
  <2>4. Cardinality(LiveSlots \ {c}) = Cardinality(LiveSlots) - 1
    BY <2>1, <2>2, FS_RemoveElement, Zenon
  <2> QED BY <1>1, <2>3, <2>4, Zenon DEF TaskCountExact, LiveSlots, IInv
<1>6. PidsDistinct'
  <2>1. pid'[c] = -1 /\ next_pid' = next_pid /\ next_pid \in Nat
    BY <1>0, <1>1 DEF IInv, TypeOK
  <2>2. \A s \in Slots : pid'[s] < next_pid'
    BY <1>3, <2>1 DEF IInv, PidsDistinct
  <2>3. \A s, t \in Slots : Live(s)' /\ Live(t)' /\ pid'[s] = pid'[t] => s = t
    BY <1>3 DEF IInv, PidsDistinct, Live
  <2> QED BY <2>2, <2>3 DEF PidsDistinct
<1>7. BootThread'
  BY <1>0, <1>3 DEF IInv, TypeOK, BootThread, Live, Idle
<1>8. FamilyTree'
  <2>1. SUFFICES ASSUME NEW s \in Slots \ {Idle}, Live(s)'
                 PROVE  /\ ppid'[s] < pid'[s]
                        /\ \E t \in Slots : /\ state'[t] \notin {"UNUSED", "ZOMBIE"}
                                            /\ pid'[t] = ppid'[s]
    BY DEF FamilyTree
  <2>2. s # c /\ Live(s) /\ ppid'[s] = ppid[s] /\ pid'[s] = pid[s]
    BY <1>3, <2>1 DEF Live
  <2>3. PICK t \in Slots : state[t] \notin {"UNUSED", "ZOMBIE"} /\ pid[t] = ppid[s]
    BY <2>2 DEF IInv, FamilyTree
  <2>4. state'[t] = state[t] /\ pid'[t] = pid[t]
    BY <1>3, <2>3
  <2> QED BY <2>2, <2>3, <2>4 DEF IInv, FamilyTree
<1>9. NoLostWakeup'
  <2>1. SUFFICES ASSUME NEW s \in Slots, state'[s] = "BLOCKED", wait_target'[s] # 0
                 PROVE  /\ \E d \in Slots : (IsChild(d, s) /\ Wanted(d, s))' /\ state'[d] # "ZOMBIE"
                        /\ \A d \in Slots : (IsChild(d, s) /\ Wanted(d, s))' => state'[d] # "ZOMBIE"
    BY DEF NoLostWakeup
  <2>2. s # c /\ state[s] = "BLOCKED" /\ wait_target[s] # 0 /\ wait_target'[s] = wait_target[s]
    BY <1>1, <1>3, <2>1
  <2>3. \A d \in Slots : d # c => ((IsChild(d, s) /\ Wanted(d, s))' <=> IsChild(d, s) /\ Wanted(d, s))
    BY <1>3, <2>2 DEF IsChild, Wanted, Live
  <2> QED BY <1>3, <2>2, <2>3 DEF IInv, NoLostWakeup
<1>10. WokenForZombie'
  <2>1. SUFFICES ASSUME NEW s \in Slots, pending'[s] # {}, state'[s] \in {"READY", "RUNNING"}
                 PROVE  \E d \in Slots : IsChild(d, s)' /\ state'[d] = "ZOMBIE"
    BY DEF WokenForZombie
  <2>2. s # current /\ s # c /\ pending[s] # {} /\ state[s] \in {"READY", "RUNNING"}
    BY <1>0, <1>3, <2>1 DEF IInv, TypeOK
  <2>3. PICK d \in Slots : IsChild(d, s) /\ state[d] = "ZOMBIE"
    BY <2>2 DEF IInv, WokenForZombie
  <2>4. pid[s] # pid[current]
    BY <1>0, <2>2 DEF IInv, PidsDistinct, Live
  <2>5. d # c
    BY <2>3, <2>4 DEF IsChild
  <2> QED BY <1>3, <2>2, <2>3, <2>5 DEF IsChild, Live
<1> QED BY <1>2, <1>4, <1>5, <1>6, <1>7, <1>8, <1>9, <1>10 DEF IInv

(* Steps that only move the CPU, rename, attach an address space or let a  *)
(* waitpid return.                                                         *)
LEMMA KeepStep ==
  ASSUME IInv, SameLife(state, state'), SchedTypeOK', CurrentRuns', MachOK',
         UNCHANGED <<task_count, pid, ppid, exit_code, wait_target, next_pid>>,
         has_user_space' \in [Slots -> BOOLEAN], name' \in [Slots -> {"shell", "other"}],
         pending' \in {pending, [pending EXCEPT ![current] = {}]}
  PROVE  IInv'
<1>1. TypeOK'
  <2>1. pending' \in [Slots -> SUBSET WaitArgs]
    BY DEF IInv, TypeOK
  <2> QED BY <2>1 DEF IInv, TypeOK, SchedTypeOK, MachOK
<1>2. \A s \in Slots : /\ state'[s] = "ZOMBIE" <=> state[s] = "ZOMBIE"
                       /\ state'[s] = "UNUSED" <=> state[s] = "UNUSED"
                       /\ state'[s] = "BLOCKED" <=> state[s] = "BLOCKED"
                       /\ state'[s] \in {"READY", "RUNNING"} <=> state[s] \in {"READY", "RUNNING"}
  BY DEF SameLife, Runnable
<1>3. \A s \in Slots : Live(s)' <=> Live(s)
  BY <1>2 DEF Live
<1>4. TaskCountExact'
  <2>1. {s \in Slots : Live(s)}' = {s \in Slots : Live(s)}
    BY <1>3
  <2> QED BY <2>1 DEF IInv, TaskCountExact
<1>5. \A s \in Slots : pending'[s] # {} => pending[s] # {}
  BY DEF IInv, TypeOK
<1>6. PidsDistinct' /\ BootThread'
  <2>1. Idle \in Slots
    BY SchedAssumption DEF Slots, Idle
  <2> QED BY <1>3, <1>5, <2>1 DEF IInv, PidsDistinct, BootThread
<1>7. FamilyTree'
  BY <1>2, <1>3 DEF IInv, FamilyTree
<1>8. \A c, s \in Slots : (IsChild(c, s)' <=> IsChild(c, s)) /\ (Wanted(c, s)' <=> Wanted(c, s))
  BY <1>3 DEF IsChild, Wanted
<1>9. NoLostWakeup'
  <2>1. NoLostWakeup /\ wait_target' = wait_target
    BY DEF IInv
  <2> QED BY <1>2, <1>8, <2>1 DEF NoLostWakeup
<1>10. WokenForZombie'
  <2>1. WokenForZombie
    BY DEF IInv
  <2> QED BY <1>2, <1>5, <1>8, <2>1 DEF WokenForZombie
<1> QED BY <1>1, <1>4, <1>6, <1>7, <1>9, <1>10 DEF IInv

-----------------------------------------------------------------------------
(* The CPU moves *)

(* With a task besides the boot thread, task_reschedule does not give up   *)
(* early; and the boot thread is READY for it.                             *)
LEMMA CanSwitch ==
  ASSUME IInv, current # Idle
  PROVE  task_count > 1 /\ Idle \in Slots /\ state[Idle] = "READY"
<1>1. Idle \in Slots /\ current \in Slots
  BY SchedAssumption DEF Slots, Idle, IInv, TypeOK
<1>2. state[Idle] = "READY"
  BY <1>1 DEF IInv, CurrentRuns
<1>3. {Idle, current} \in SUBSET LiveSlots /\ LiveSlots \in SUBSET Slots
  BY <1>1, <1>2 DEF LiveSlots, Live, IInv, CurrentRuns
<1>4. IsFiniteSet({Idle}) /\ Cardinality({Idle}) = 1
  BY FS_Singleton, Zenon
<1>5. {Idle} \cup {current} = {Idle, current}
  OBVIOUS
<1>6. Cardinality({Idle, current}) = 2
  <2>1. Cardinality({Idle} \cup {current}) = Cardinality({Idle}) + 1
    BY <1>4, FS_AddElement
  <2> QED BY <1>4, <1>5, <2>1
<1>7. IsFiniteSet(LiveSlots) /\ Cardinality(LiveSlots) \in Nat
  BY <1>3, SlotsFinite
<1>8. Cardinality({Idle, current}) <= Cardinality(LiveSlots)
  BY <1>3, <1>7, FS_Subset
<1>9. task_count = Cardinality(LiveSlots)
  BY DEF IInv, TaskCountExact, LiveSlots
<1> QED BY <1>1, <1>2, <1>6, <1>7, <1>8, <1>9

(* After current blocked or died, task_reschedule hands the CPU to a task  *)
(* that can run.                                                           *)
LEMMA RescheduleEffect ==
  ASSUME IInv, current # Idle, NEW st \in [Slots -> States], NEW ord \in [Slots -> Nat],
         OnlyRunning(st, current), st[current] # "RUNNING", st[Idle] = "READY",
         task_reschedule(st, ord)
  PROVE  SchedTypeOK' /\ SameLife(st, state') /\ CurrentRuns'
<1>1. task_count > 1 /\ Idle \in Slots /\ task_count \in Int
  BY CanSwitch DEF IInv, TypeOK
<1>2. Dispatch(st, ord)
  BY <1>1 DEF task_reschedule
<1>3. SchedTypeOK /\ Ready(st) # {}
  BY <1>1 DEF IInv, TypeOK, SchedTypeOK, Ready
<1>4. /\ SchedTypeOK' /\ SameLife(st, state') /\ OnlyRunning(state', current')
      /\ state'[current'] = "RUNNING"
  BY <1>2, <1>3, DispatchEffect
<1>5. state'[Idle] \in {"READY", "RUNNING"}
  BY <1>1, <1>4 DEF SameLife, Runnable
<1> QED BY <1>4, <1>5 DEF CurrentRuns, OnlyRunning

(* The blocking part of task_waitpid leaves the caller BLOCKED and the CPU *)
(* with a task that can run.                                               *)
LEMMA BlockEffect ==
  ASSUME IInv, current # Idle, state[current] = "RUNNING", NEW p, NEW arg, WaitBlocks(p, arg)
  PROVE  /\ SchedTypeOK' /\ CurrentRuns'
         /\ SameLife([state EXCEPT ![current] = "BLOCKED"], state')
<1> DEFINE st == [state EXCEPT ![current] = "BLOCKED"]
<1>0. Idle \in Slots /\ current \in Slots /\ state[Idle] = "READY"
  BY CanSwitch DEF IInv, TypeOK
<1>1. /\ st \in [Slots -> States] /\ OnlyRunning(st, current)
      /\ st[current] = "BLOCKED" /\ st[Idle] = "READY"
  BY <1>0 DEF IInv, TypeOK, CurrentRuns, States, OnlyRunning
<1>2. task_reschedule(st, ready_order)
  BY DEF WaitBlocks
<1> HIDE DEF st
<1>3. SchedTypeOK' /\ SameLife(st, state') /\ CurrentRuns'
  BY <1>1, <1>2, RescheduleEffect DEF IInv, TypeOK
<1> QED BY <1>3 DEF st

(* The blocking part of task_waitpid. *)
LEMMA BlockStep ==
  ASSUME IInv, current # Idle, state[current] = "RUNNING",
         NEW p \in Int, NEW arg \in WaitArgs,
         Zombies(p) = {}, Children(p) # {}, WaitBlocks(p, arg), UNCHANGED machVars,
         shell_pid # 0
  PROVE  IInv'
<1> DEFINE st == [state EXCEPT ![current] = "BLOCKED"]
<1>0. Idle \in Slots /\ current \in Slots /\ state[Idle] = "READY"
  BY CanSwitch DEF IInv, TypeOK
<1>1. st[current] = "BLOCKED" /\ \A s \in Slots : s # current => st[s] = state[s]
  BY <1>0 DEF IInv, TypeOK
<1>2. /\ wait_target' = [wait_target EXCEPT ![current] = p]
      /\ pending' = [pending EXCEPT ![current] = IF Switches(st) THEN {arg} ELSE {}]
      /\ UNCHANGED <<task_count, pid, ppid, exit_code, has_user_space, name, next_pid>>
  BY DEF WaitBlocks
<1>3. SchedTypeOK' /\ SameLife(st, state') /\ CurrentRuns'
  BY BlockEffect, Zenon
<1> HIDE DEF st
<1>4. TypeOK'
  <2>1. pending' \in [Slots -> SUBSET WaitArgs] /\ wait_target' \in [Slots -> Int]
    BY <1>0, <1>2 DEF IInv, TypeOK
  <2> QED BY <1>2, <1>3, <2>1 DEF IInv, TypeOK, SchedTypeOK, machVars
<1>5. /\ state'[current] = "BLOCKED"
      /\ \A s \in Slots : s # current =>
           /\ state'[s] = "ZOMBIE" <=> state[s] = "ZOMBIE"
           /\ state'[s] = "UNUSED" <=> state[s] = "UNUSED"
           /\ state'[s] = "BLOCKED" <=> state[s] = "BLOCKED"
           /\ state'[s] \in {"READY", "RUNNING"} <=> state[s] \in {"READY", "RUNNING"}
           /\ wait_target'[s] = wait_target[s] /\ pending'[s] = pending[s]
  BY <1>0, <1>1, <1>2, <1>3 DEF SameLife, Runnable, IInv, TypeOK
<1>6. \A s \in Slots : Live(s)' <=> Live(s)
  BY <1>5 DEF Live
<1>7. TaskCountExact'
  <2>1. {s \in Slots : Live(s)}' = {s \in Slots : Live(s)}
    BY <1>6
  <2> QED BY <1>2, <2>1, Zenon DEF IInv, TaskCountExact
<1>8. PidsDistinct' /\ BootThread' /\ MachOK'
  BY <1>0, <1>2, <1>5, <1>6 DEF IInv, PidsDistinct, BootThread, MachOK, machVars
<1>9. FamilyTree'
  BY <1>2, <1>5, <1>6 DEF IInv, FamilyTree
<1>10. \A c, s \in Slots : IsChild(c, s)' <=> IsChild(c, s)
  BY <1>2, <1>6, Zenon DEF IsChild
<1>11. NoLostWakeup'
  <2>1. SUFFICES ASSUME NEW s \in Slots, state'[s] = "BLOCKED", wait_target'[s] # 0
                 PROVE  /\ \E c \in Slots : (IsChild(c, s) /\ Wanted(c, s))' /\ state'[c] # "ZOMBIE"
                        /\ \A c \in Slots : (IsChild(c, s) /\ Wanted(c, s))' => state'[c] # "ZOMBIE"
    BY DEF NoLostWakeup
  <2>2. CASE s = current
    <3>1. wait_target'[s] = p
      BY <1>0, <1>2, <2>2 DEF IInv, TypeOK
    <3>2. \A c \in Slots : (IsChild(c, s) /\ Wanted(c, s))' <=> c \in Children(p)
      BY <1>2, <1>10, <2>2, <3>1, Zenon DEF Children, IsChild, Wanted
    <3>3. \A c \in Children(p) : c \in Slots /\ state'[c] # "ZOMBIE"
      BY <1>5 DEF Children, Zombies
    <3> QED BY <3>2, <3>3
  <2>3. CASE s # current
    <3>1. state[s] = "BLOCKED" /\ wait_target[s] # 0 /\ wait_target'[s] = wait_target[s]
      BY <1>5, <2>1, <2>3
    <3>2. \A c \in Slots : (IsChild(c, s) /\ Wanted(c, s))' <=> IsChild(c, s) /\ Wanted(c, s)
      BY <1>2, <1>10, <3>1 DEF Wanted
    <3>3. \A c \in Slots : state'[c] = "ZOMBIE" <=> state[c] = "ZOMBIE"
      BY <1>5
    <3> QED BY <3>1, <3>2, <3>3 DEF IInv, NoLostWakeup
  <2> QED BY <2>2, <2>3
<1>12. WokenForZombie'
  <2>1. SUFFICES ASSUME NEW s \in Slots, pending'[s] # {}, state'[s] \in {"READY", "RUNNING"}
                 PROVE  \E c \in Slots : IsChild(c, s)' /\ state'[c] = "ZOMBIE"
    BY DEF WokenForZombie
  <2>2. s # current /\ pending[s] # {} /\ state[s] \in {"READY", "RUNNING"}
    BY <1>5, <2>1
  <2>3. PICK c \in Slots : IsChild(c, s) /\ state[c] = "ZOMBIE"
    BY <2>2 DEF IInv, WokenForZombie
  <2> QED BY <1>5, <1>10, <2>3
<1> QED BY <1>3, <1>4, <1>7, <1>8, <1>9, <1>11, <1>12 DEF IInv

(* A timer tick only moves the CPU, and moves it to a task that can run. *)
LEMMA TickEffect ==
  ASSUME IInv, TimerTick
  PROVE  SchedTypeOK' /\ SameLife(state, state') /\ CurrentRuns'
<1>1. sched_tick(state, ready_order) /\ UNCHANGED pcbVars
  BY DEF TimerTick
<1>2. SchedTypeOK /\ OnlyRunning(state, current)
  BY DEF IInv, TypeOK, SchedTypeOK, CurrentRuns, OnlyRunning
<1>3. /\ SchedTypeOK' /\ SameLife(state, state') /\ OnlyRunning(state', current')
      /\ \/ state' = state /\ current' = current
         \/ Ready(state) # {} \/ state[current] = "RUNNING" => state'[current'] = "RUNNING"
  BY <1>1, <1>2, SchedTickEffect
<1>4. Ready(state) # {} \/ state[current] = "RUNNING"
  <2>1. CASE state[current] = "RUNNING"
    BY <2>1
  <2>2. CASE state[current] # "RUNNING"
    <3>1. current # Idle
      BY <2>2 DEF IInv, CurrentRuns
    <3> QED BY <3>1, CanSwitch DEF Ready
  <2> QED BY <2>1, <2>2
<1>5. state'[Idle] \in {"READY", "RUNNING"}
  <2>1. Idle \in Slots
    BY SchedAssumption DEF Slots, Idle
  <2> QED BY <1>3, <2>1 DEF SameLife, Runnable, IInv, CurrentRuns
<1>6. state'[current'] = "RUNNING" \/ (state'[current'] = "ZOMBIE" /\ ~has_user_space'[current'])
  BY <1>1, <1>3, <1>4 DEF IInv, CurrentRuns, pcbVars
<1> QED BY <1>3, <1>5, <1>6 DEF CurrentRuns, OnlyRunning

(* A timer tick. *)
LEMMA TickStep ==
  ASSUME IInv, TimerTick
  PROVE  IInv'
<1>1. UNCHANGED <<task_count, pcbVars, next_pid, machVars>> /\ shell_pid # 0
  BY DEF TimerTick, On
<1>3. SchedTypeOK' /\ SameLife(state, state') /\ CurrentRuns'
  BY TickEffect
<1>4. MachOK'
  BY <1>1 DEF IInv, MachOK, machVars
<1>5. /\ UNCHANGED <<task_count, pid, ppid, exit_code, wait_target, next_pid>>
      /\ has_user_space' = has_user_space /\ name' = name /\ pending' = pending
  BY <1>1 DEF pcbVars
<1>6. has_user_space' \in [Slots -> BOOLEAN] /\ name' \in [Slots -> {"shell", "other"}]
  BY <1>5 DEF IInv, TypeOK
<1> QED BY <1>3, <1>4, <1>5, <1>6, KeepStep

(* A death in which the dying task is not current, or is current and has   *)
(* not trapped: the CPU stays where it is.                                 *)
LEMMA DeathInPlace ==
  ASSUME IInv, NEW z \in Slots \ {Idle}, NEW code \in Int,
         state[z] \notin {"UNUSED", "ZOMBIE"}, Die(z, code),
         state' = AfterDeath(z), ready_order' = OrderAfterDeath(z),
         UNCHANGED <<ticks_left, current, machVars>>,
         z = current => ~has_user_space[z]
  PROVE  IInv'
<1>0. Idle \in Slots /\ current \in Slots
  BY SchedAssumption DEF Slots, Idle, IInv, TypeOK
<1>1. SchedTypeOK'
  BY DeathTypes DEF IInv, TypeOK, SchedTypeOK
<1>2. SameLife(AfterDeath(z), state')
  BY Zenon DEF SameLife
<1>3. \A s \in WokenBy(z) : state[s] = "BLOCKED"
  BY Zenon DEF WokenBy
<1>4. CurrentRuns'
  <2>1. \A s \in Slots : state'[s] = "RUNNING" => s = current
    BY DEF AfterDeath, IInv, CurrentRuns
  <2>2. state'[Idle] \in {"READY", "RUNNING"}
    BY <1>0 DEF AfterDeath, IInv, CurrentRuns
  <2>3. has_user_space' = has_user_space /\ current' = current
    BY DEF Die
  <2>4. CASE z = current
    <3>1. state'[current] = "ZOMBIE" /\ ~has_user_space[current]
      BY <1>0, <2>4 DEF AfterDeath
    <3> QED BY <2>1, <2>2, <2>3, <3>1 DEF CurrentRuns
  <2>5. CASE z # current
    <3>1. state'[current] = state[current]
      BY <1>0, <1>3, <2>5 DEF AfterDeath, IInv, CurrentRuns
    <3> QED BY <2>1, <2>2, <2>3, <3>1 DEF IInv, CurrentRuns
  <2> QED BY <2>4, <2>5
<1>5. MachOK'
  BY DEF IInv, MachOK, machVars
<1> QED BY <1>1, <1>2, <1>4, <1>5, DeathStep

(* SYS_EXIT: the dying task is current, and the trap reschedules. *)
LEMMA ExitEffect ==
  ASSUME IInv, NEW code \in Int, SysExit(code)
  PROVE  SchedTypeOK' /\ SameLife(AfterDeath(current), state') /\ CurrentRuns'
<1>1. /\ current # Idle /\ state[current] = "RUNNING" /\ shell_pid # 0
      /\ Die(current, code)
      /\ task_reschedule(AfterDeath(current), OrderAfterDeath(current))
      /\ UNCHANGED machVars
  BY DEF SysExit, Calls, InUser, On
<1>2. current \in Slots /\ Idle \in Slots /\ state[Idle] = "READY"
  BY <1>1, CanSwitch DEF IInv, TypeOK
<1>3. AfterDeath(current) \in [Slots -> States] /\ OrderAfterDeath(current) \in [Slots -> Nat]
  BY <1>2, DeathTypes DEF IInv
<1>4. /\ OnlyRunning(AfterDeath(current), current)
      /\ AfterDeath(current)[current] = "ZOMBIE"
      /\ AfterDeath(current)[Idle] = "READY"
  BY <1>1, <1>2 DEF OnlyRunning, AfterDeath, IInv, CurrentRuns
<1>5. SchedTypeOK' /\ SameLife(AfterDeath(current), state') /\ CurrentRuns'
  BY <1>1, <1>3, <1>4, RescheduleEffect
<1> QED BY <1>5

(* sys_exit: the current process dies and another one is dispatched. *)
LEMMA ExitStep ==
  ASSUME IInv, NEW code \in Int, SysExit(code)
  PROVE  IInv'
<1>1. /\ current # Idle /\ state[current] = "RUNNING" /\ shell_pid # 0
      /\ Die(current, code) /\ UNCHANGED machVars /\ current \in Slots
  BY DEF SysExit, Calls, InUser, On, IInv, TypeOK
<1>2. MachOK'
  BY <1>1 DEF IInv, MachOK, machVars
<1> QED BY <1>1, <1>2, ExitEffect, DeathStep

(* task_waitpid, called for the first time or by a restarted ecall. *)
LEMMA WaitStep ==
  ASSUME IInv, InUser, NEW p \in Int, NEW arg \in WaitArgs, NEW nohang \in BOOLEAN,
         task_waitpid(p, arg, nohang)
  PROVE  IInv'
<1>0. /\ current # Idle /\ state[current] = "RUNNING" /\ shell_pid # 0
      /\ current \in Slots /\ UNCHANGED machVars
  BY DEF InUser, On, IInv, TypeOK, task_waitpid
<1>1. CASE Zombies(p) # {}
  <2> DEFINE c == Lowest(Zombies(p))
  <2>1. Zombies(p) \in SUBSET Nat
    BY SchedAssumption DEF Zombies, Children, Slots
  <2>2. c \in Zombies(p)
    BY <1>1, <2>1, LowestIn
  <2>3. Reap(c) /\ pending' = [pending EXCEPT ![current] = {}]
    BY <1>1 DEF task_waitpid, WaitReaps
  <2> HIDE DEF c
  <2>4. c \in Slots \ {Idle} /\ state[c] = "ZOMBIE" /\ ppid[c] = pid[current]
    BY <2>2 DEF Zombies, Children
  <2>5. pending'[current] = {}
    BY <1>0, <2>3 DEF IInv, TypeOK
  <2>6. MachOK'
    BY <1>0 DEF IInv, MachOK, machVars
  <2> QED BY <1>0, <2>3, <2>4, <2>5, <2>6, ReapStep, Zenon
<1>2. CASE Zombies(p) = {} /\ Children(p) # {} /\ ~nohang
  <2>1. WaitBlocks(p, arg)
    BY <1>2 DEF task_waitpid
  <2> QED BY <1>0, <1>2, <2>1, BlockStep
<1>3. CASE Zombies(p) = {} /\ ~(Children(p) # {} /\ ~nohang)
  <2>1. WaitReturns
    BY <1>3 DEF task_waitpid
  <2>2. /\ UNCHANGED <<state, ready_order, ticks_left, current, task_count>>
        /\ UNCHANGED <<task_count, pid, ppid, exit_code, wait_target, next_pid>>
        /\ has_user_space' = has_user_space /\ name' = name
        /\ pending' = [pending EXCEPT ![current] = {}]
    BY <2>1 DEF WaitReturns, schedVars
  <2>3. SameLife(state, state') /\ SchedTypeOK' /\ CurrentRuns'
    BY <2>2 DEF SameLife, SchedTypeOK, CurrentRuns, IInv, TypeOK
  <2>4. MachOK'
    BY <1>0, <2>2 DEF IInv, MachOK, machVars
  <2>5. has_user_space' \in [Slots -> BOOLEAN] /\ name' \in [Slots -> {"shell", "other"}]
    BY <2>2 DEF IInv, TypeOK
  <2> QED BY <2>2, <2>3, <2>4, <2>5, KeepStep
<1> QED BY <1>1, <1>2, <1>3
=============================================================================
