----------------------------- MODULE TaskProofs -----------------------------
(***************************************************************************)
(* Proofs about Task for every size of the task table, both scheduling     *)
(* policies, every quantum and every bound on pids: each action of Task is *)
(* one of the kinds of change of TaskSteps.                                *)
(*                                                                         *)
(* Trap takes the steps of Task together with what they do to the hart.    *)
(* The second part has the inductive invariant of Trap and what the trap   *)
(* path does to it: the hart enters and leaves a handler, switch_from_trap *)
(* saves one context and restores another, page tables are handed out and  *)
(* given back, and the system calls are built on that.                     *)
(***************************************************************************)
EXTENDS Trap, TaskSteps

-----------------------------------------------------------------------------
(* The theorems *)

(* Every step preserves the invariant. *)
LEMMA NextIInv == IInv /\ [Next]_vars => IInv'
<1> SUFFICES ASSUME IInv, [Next]_vars PROVE IInv'
  OBVIOUS
<1> USE SchedAssumption
<1>0. Idle \in Slots /\ current \in Slots
  BY DEF Slots, Idle, IInv, TypeOK
<1>1. ASSUME UNCHANGED vars PROVE IInv'
  <2>1. SchedTypeOK' /\ SameLife(state, state') /\ CurrentRuns' /\ MachOK'
    BY <1>1 DEF vars, schedVars, pcbVars, machVars, SchedTypeOK, SameLife, CurrentRuns,
                MachOK, IInv, TypeOK
  <2>2. /\ UNCHANGED <<task_count, pid, ppid, exit_code, wait_target, next_pid>>
        /\ has_user_space' = has_user_space /\ name' = name /\ pending' = pending
    BY <1>1 DEF vars, schedVars, pcbVars
  <2>3. has_user_space' \in [Slots -> BOOLEAN] /\ name' \in [Slots -> {"shell", "other"}]
    BY <2>2 DEF IInv, TypeOK
  <2> QED BY <2>1, <2>2, <2>3, KeepStep
<1>2. ASSUME NEW ok \in BOOLEAN, StartShell(ok) PROVE IInv'
  <2>1. NewTask(FALSE, "shell", ok) /\ shell_pid = 0 /\ current' = current
    BY <1>2, Zenon DEF StartShell, NewTask
  <2>2. state[current] = "RUNNING" /\ current = Idle
    BY <2>1 DEF IInv, MachOK, CurrentRuns
  <2>3. MachOK'
    <3>1. shell_pid' \in Nat
      BY <1>2 DEF StartShell, NewPid, IInv, TypeOK
    <3>2. halted' \in BOOLEAN /\ polling' \in BOOLEAN
      BY <1>2 DEF StartShell, IInv, TypeOK
    <3> QED BY <2>1, <2>2, <3>1, <3>2 DEF MachOK
  <2> QED BY <2>1, <2>2, <2>3, CreateStep, Zenon
<1>3. ASSUME TimerTick PROVE IInv'
  BY <1>3, TickStep
<1>4. ASSUME NEW ok \in BOOLEAN, SysFork(ok) PROVE IInv'
  <2>1. /\ NewTask(TRUE, "other", ok) /\ state[current] = "RUNNING"
        /\ UNCHANGED machVars /\ shell_pid # 0
    BY <1>4, Zenon DEF SysFork, Calls, InUser, On
  <2>2. MachOK'
    BY <2>1 DEF IInv, MachOK, machVars
  <2> QED BY <2>1, <2>2, CreateStep, Zenon
<1>5. ASSUME NEW code \in ExitCodes, SysExit(code) PROVE IInv'
  BY <1>5, ExitStep, TaskAssumption
<1>6. ASSUME NEW p \in 1 .. PidLimit, NEW code \in KillCodes, SysKill(p, code) PROVE IInv'
  <2>1. PICK z \in find_pid(p) : /\ Killable(z) /\ Die(z, code)
                                 /\ state' = AfterDeath(z) /\ ready_order' = OrderAfterDeath(z)
                                 /\ UNCHANGED <<ticks_left, current, machVars>>
    BY <1>6 DEF SysKill
  <2>2. z \in Slots /\ Live(z)
    BY <2>1, FindPid DEF IInv
  <2>3. z \in Slots \ {Idle} /\ z # current /\ state[z] \notin {"UNUSED", "ZOMBIE"}
    BY <2>1, <2>2 DEF Killable, Live
  <2>4. code \in Int
    BY DEF KillCodes
  <2> QED BY <2>1, <2>3, <2>4, DeathInPlace, Zenon
<1>7. ASSUME NEW p \in WaitArgs, NEW nohang \in BOOLEAN, SysWaitpid(p, nohang) PROVE IInv'
  <2>1. p \in Int /\ InUser /\ task_waitpid(p, p, nohang)
    BY <1>7, TaskAssumption DEF WaitArgs, SysWaitpid, Calls
  <2> QED BY <2>1, WaitStep
<1>8. ASSUME RestartWaitpid PROVE IInv'
  <2>1. PICK arg \in pending[current] : task_waitpid(WaitBlocked, arg, FALSE)
    BY <1>8, Zenon DEF RestartWaitpid
  <2>2. arg \in WaitArgs
    <3>1. pending \in [Slots -> SUBSET WaitArgs]
      BY DEF IInv, TypeOK
    <3> QED BY <1>0, <3>1
  <2>3. WaitBlocked \in Int
    BY DEF WaitBlocked
  <2>4. InUser
    BY <1>8 DEF RestartWaitpid
  <2> QED BY <2>1, <2>2, <2>3, <2>4, WaitStep, Zenon
<1>9. ASSUME \/ \E nm \in {"shell", "other"} : SysExecve(nm)
             \/ SysReadConsole
             \/ Input
             \/ UserInit(TRUE)
      PROVE  IInv'
  <2>1. /\ UNCHANGED schedVars
        /\ UNCHANGED <<task_count, pid, ppid, exit_code, wait_target, next_pid>>
        /\ pending' = pending /\ shell_pid' = shell_pid
    BY <1>9, Zenon DEF SysExecve, SysReadConsole, Input, UserInit, schedVars, pcbVars, machVars
  <2>2. name' \in [Slots -> {"shell", "other"}]
    BY <1>0, <1>9 DEF SysExecve, SysReadConsole, Input, UserInit, pcbVars, IInv, TypeOK
  <2>3. has_user_space' \in [Slots -> BOOLEAN]
    BY <1>0, <1>9, Zenon DEF SysExecve, SysReadConsole, Input, UserInit, pcbVars, IInv, TypeOK
  <2>4. polling' \in BOOLEAN /\ halted' \in BOOLEAN
    BY <1>9, Zenon DEF SysExecve, SysReadConsole, Input, UserInit, machVars, IInv, TypeOK
  <2>5. SchedTypeOK' /\ SameLife(state, state') /\ MachOK'
    BY <2>1, <2>4 DEF schedVars, SchedTypeOK, SameLife, MachOK, IInv, TypeOK
  <2>6. has_user_space'[current] = has_user_space[current] \/ state[current] = "RUNNING"
    BY <1>9, Zenon DEF SysExecve, SysReadConsole, Input, UserInit, pcbVars
  <2>7. CurrentRuns'
    BY <2>1, <2>6 DEF schedVars, IInv, CurrentRuns
  <2> QED BY <2>1, <2>2, <2>3, <2>5, <2>7, KeepStep
<1>10. ASSUME UserInit(FALSE) PROVE IInv'
  <2>1. /\ current # Idle /\ state[current] = "RUNNING" /\ ~has_user_space[current]
        /\ Die(current, InitFailCode)
        /\ state' = AfterDeath(current) /\ ready_order' = OrderAfterDeath(current)
        /\ UNCHANGED <<ticks_left, current, machVars>>
    BY <1>10 DEF UserInit
  <2>2. InitFailCode \in Int
    BY DEF InitFailCode
  <2> QED BY <1>0, <2>1, <2>2, DeathInPlace
<1>11. ASSUME IdleReapsShell PROVE IInv'
  <2> DEFINE c == Lowest(Zombies(shell_pid))
  <2>1. /\ current = Idle /\ Zombies(shell_pid) # {} /\ Reap(c) /\ shell_pid # 0
        /\ halted' = TRUE /\ UNCHANGED <<pending, shell_pid, polling>>
    BY <1>11 DEF IdleReapsShell, On
  <2>2. Zombies(shell_pid) \in SUBSET Nat
    BY DEF Zombies, Children, Slots
  <2>3. c \in Zombies(shell_pid)
    BY <2>1, <2>2, LowestIn
  <2> HIDE DEF c
  <2>4. c \in Slots \ {Idle} /\ state[c] = "ZOMBIE" /\ ppid[c] = pid[current]
    BY <2>3 DEF Zombies, Children
  <2>5. state[current] = "RUNNING" /\ pending'[current] = {} /\ pending' = pending
    BY <2>1, Zenon DEF IInv, CurrentRuns, BootThread
  <2>6. MachOK'
    BY <2>1 DEF IInv, MachOK
  <2> QED BY <2>1, <2>4, <2>5, <2>6, ReapStep
<1>12. ASSUME Next PROVE IInv'
  <2>1. \A ok \in BOOLEAN : UserInit(ok) => UserInit(TRUE) \/ UserInit(FALSE)
    BY Zenon
  <2> QED BY <1>1, <1>2, <1>3, <1>4, <1>5, <1>6, <1>7, <1>8, <1>9, <1>10, <1>11, <1>12, <2>1, Zenon
         DEF Next, Halted
<1> QED BY <1>1, <1>12

(* In every reachable state the whole invariant holds. *)
THEOREM Invariance == Spec => []IInv
BY InitIInv, NextIInv, PTL DEF Spec

(* The variables keep their types: in particular ticks_left never leaves   *)
(* 1 .. Quantum and current always points into the task table              *)
(* (switch_from_trap).                                                     *)
THEOREM TypeCorrect == Spec => []TypeOK
<1>1. IInv => TypeOK
  BY DEF IInv
<1> QED BY <1>1, Invariance, PTL

(* A trap always returns into a task that may run (trap_handler). *)
THEOREM TrapReturnsIntoRunnable == Spec => []CurrentRuns
<1>1. IInv => CurrentRuns
  BY DEF IInv
<1> QED BY <1>1, Invariance, PTL

(* task_count is the number of used slots (task_create,                    *)
(* task_fork_from_trap, task_waitpid).                                     *)
THEOREM TaskCountCorrect == Spec => []TaskCountExact
<1>1. IInv => TaskCountExact
  BY DEF IInv
<1> QED BY <1>1, Invariance, PTL

(* Used slots have different pids (task_create, task_fork_from_trap). *)
THEOREM PidsIdentifyTasks == Spec => []PidsDistinct
<1>1. IInv => PidsDistinct
  BY DEF IInv
<1> QED BY <1>1, Invariance, PTL

(* Every task has a live, older parent (task_exit, task_kill). *)
THEOREM ParentsExist == Spec => []FamilyTree
<1>1. IInv => FamilyTree
  BY DEF IInv
<1> QED BY <1>1, Invariance, PTL

(* No wake-up of a waitpid is lost (task_waitpid against task_exit and     *)
(* task_kill).                                                             *)
THEOREM WaitersAreWoken == Spec => []NoLostWakeup
<1>1. IInv => NoLostWakeup
  BY DEF IInv
<1> QED BY <1>1, Invariance, PTL

(* A woken waitpid finds a zombie to reap (task_waitpid, restarted by      *)
(* trap_handler).                                                          *)
THEOREM RestartsReap == Spec => []WokenForZombie
<1>1. IInv => WokenForZombie
  BY DEF IInv
<1> QED BY <1>1, Invariance, PTL

(* The step of ZombiesKept. *)
ZombieKept(c) ==
  \/ state'[c] = "ZOMBIE" /\ pid'[c] = pid[c] /\ exit_code'[c] = exit_code[c]
  \/ state'[c] = "UNUSED" /\ ppid[c] = pid[current]

(* task_waitpid takes away only zombies whose parent is current. *)
LEMMA WaitKeepsZombies ==
  ASSUME IInv, InUser, NEW p, NEW arg, NEW nohang, task_waitpid(p, arg, nohang),
         NEW c \in Slots, state[c] = "ZOMBIE"
  PROVE  ZombieKept(c)
<1>0. current # Idle /\ state[current] = "RUNNING" /\ current \in Slots
  BY DEF InUser, IInv, TypeOK
<1>1. CASE Zombies(p) # {}
  <2> DEFINE d == Lowest(Zombies(p))
  <2>1. Zombies(p) \in SUBSET Nat
    BY SchedAssumption DEF Zombies, Children, Slots
  <2>2. d \in Zombies(p)
    BY <1>1, <2>1, LowestIn
  <2>3. Reap(d)
    BY <1>1 DEF task_waitpid, WaitReaps
  <2> HIDE DEF d
  <2>4. d \in Slots /\ ppid[d] = pid[current]
    BY <2>2 DEF Zombies, Children
  <2> QED BY <2>3, <2>4 DEF Reap, ZombieKept, IInv, TypeOK
<1>2. CASE WaitBlocks(p, arg)
  <2>1. SameLife([state EXCEPT ![current] = "BLOCKED"], state')
    BY <1>0, <1>2, BlockEffect, Zenon
  <2>2. c # current
    BY <1>0
  <2>3. state'[c] = "ZOMBIE"
    BY <2>1, <2>2 DEF SameLife, Runnable, IInv, TypeOK
  <2> QED BY <1>2, <2>3 DEF WaitBlocks, ZombieKept
<1>3. CASE WaitReturns
  BY <1>3 DEF WaitReturns, schedVars, ZombieKept
<1> QED BY <1>1, <1>2, <1>3 DEF task_waitpid

(* A death changes no zombie. *)
LEMMA DeathKeepsZombies ==
  ASSUME IInv, NEW z \in Slots, NEW code, state[z] # "ZOMBIE", Die(z, code),
         SameLife(AfterDeath(z), state'), NEW c \in Slots, state[c] = "ZOMBIE"
  PROVE  ZombieKept(c)
<1>1. c # z /\ c \notin WokenBy(z)
  BY DEF WokenBy
<1>2. AfterDeath(z)[c] = "ZOMBIE"
  BY <1>1 DEF AfterDeath
<1>3. state'[c] = "ZOMBIE"
  BY <1>2 DEF SameLife, Runnable
<1> QED BY <1>1, <1>3 DEF Die, ZombieKept, IInv, TypeOK

(* Every step keeps every zombie, or is its parent's waitpid. *)
LEMMA NextKeepsZombies ==
  ASSUME IInv, Next, NEW c \in Slots, state[c] = "ZOMBIE"
  PROVE  ZombieKept(c)
<1>0. current \in Slots
  BY DEF IInv, TypeOK
<1>1. ASSUME NEW user, NEW nm, NEW ok \in BOOLEAN, NewTask(user, nm, ok)
      PROVE  ZombieKept(c)
  <2> DEFINE slot == Lowest(FreeSlots)
  <2>0. FreeSlots # {}
    BY <1>1 DEF NewTask
  <2>1. FreeSlots \in SUBSET Nat
    BY SchedAssumption DEF FreeSlots, Slots
  <2>2. slot \in FreeSlots
    BY <2>0, <2>1, LowestIn
  <2>3. slot # c
    BY <2>2 DEF FreeSlots
  <2>4. /\ state' = IF ok THEN [state EXCEPT ![slot] = "READY"] ELSE state
        /\ pid' = [pid EXCEPT ![slot] = NewPid]
        /\ exit_code' = [exit_code EXCEPT ![slot] = 0]
    BY <1>1 DEF NewTask
  <2> HIDE DEF slot
  <2> QED BY <2>3, <2>4 DEF ZombieKept, IInv, TypeOK
<1>2. ASSUME NEW ok \in BOOLEAN, StartShell(ok) \/ SysFork(ok) PROVE ZombieKept(c)
  BY <1>1, <1>2, Zenon DEF StartShell, SysFork
<1>3. ASSUME TimerTick PROVE ZombieKept(c)
  <2>1. SameLife(state, state')
    BY <1>3, TickEffect
  <2>2. state'[c] = "ZOMBIE"
    BY <2>1 DEF SameLife, Runnable
  <2> QED BY <1>3, <2>2 DEF TimerTick, pcbVars, ZombieKept
<1>4. ASSUME NEW code \in ExitCodes, SysExit(code) PROVE ZombieKept(c)
  <2>1. SameLife(AfterDeath(current), state')
    BY <1>4, ExitEffect, TaskAssumption
  <2>2. state[current] # "ZOMBIE" /\ Die(current, code)
    BY <1>4 DEF SysExit, Calls, InUser
  <2> QED BY <1>0, <2>1, <2>2, DeathKeepsZombies
<1>5. ASSUME NEW p, NEW code, SysKill(p, code) PROVE ZombieKept(c)
  <2>1. PICK z \in find_pid(p) : Killable(z) /\ Die(z, code) /\ state' = AfterDeath(z)
    BY <1>5 DEF SysKill
  <2>2. z \in Slots /\ state[z] # "ZOMBIE" /\ SameLife(AfterDeath(z), state')
    BY <2>1, FindPid DEF IInv, Killable, SameLife
  <2> QED BY <2>1, <2>2, DeathKeepsZombies
<1>6. ASSUME NEW p, NEW nohang, SysWaitpid(p, nohang) PROVE ZombieKept(c)
  BY <1>6, WaitKeepsZombies DEF SysWaitpid, Calls
<1>7. ASSUME RestartWaitpid PROVE ZombieKept(c)
  BY <1>7, WaitKeepsZombies, Zenon DEF RestartWaitpid
<1>8. ASSUME \/ \E nm \in {"shell", "other"} : SysExecve(nm)
             \/ SysReadConsole \/ Input \/ UserInit(TRUE) \/ Halted
      PROVE  ZombieKept(c)
  BY <1>8, Zenon DEF SysExecve, SysReadConsole, Input, UserInit, Halted, vars, schedVars, pcbVars,
              ZombieKept
<1>9. ASSUME UserInit(FALSE) PROVE ZombieKept(c)
  <2>1. /\ state[current] = "RUNNING" /\ Die(current, InitFailCode)
        /\ state' = AfterDeath(current)
    BY <1>9 DEF UserInit
  <2>2. SameLife(AfterDeath(current), state')
    BY <2>1 DEF SameLife
  <2> QED BY <1>0, <2>1, <2>2, DeathKeepsZombies
<1>10. ASSUME IdleReapsShell PROVE ZombieKept(c)
  <2> DEFINE d == Lowest(Zombies(shell_pid))
  <2>1. Zombies(shell_pid) # {} /\ Reap(d)
    BY <1>10 DEF IdleReapsShell
  <2>2. Zombies(shell_pid) \in SUBSET Nat
    BY SchedAssumption DEF Zombies, Children, Slots
  <2>3. d \in Zombies(shell_pid)
    BY <2>1, <2>2, LowestIn
  <2> HIDE DEF d
  <2>4. d \in Slots /\ ppid[d] = pid[current]
    BY <2>3 DEF Zombies, Children
  <2> QED BY <2>1, <2>4 DEF Reap, ZombieKept, IInv, TypeOK
<1>11. \A ok \in BOOLEAN : UserInit(ok) => UserInit(TRUE) \/ UserInit(FALSE)
  BY Zenon
<1> QED BY <1>2, <1>3, <1>4, <1>5, <1>6, <1>7, <1>8, <1>9, <1>10, <1>11, Zenon DEF Next

(* A zombie keeps its pid and exit code until its parent reaps it          *)
(* (task_waitpid).                                                         *)
THEOREM ZombiesWaitForParent == Spec => ZombiesKept
<1> DEFINE Step == \A c \in Slots : state[c] = "ZOMBIE" =>
                     \/ state'[c] = "ZOMBIE" /\ pid'[c] = pid[c] /\ exit_code'[c] = exit_code[c]
                     \/ state'[c] = "UNUSED" /\ ppid[c] = pid[current]
<1>1. IInv /\ [Next]_vars => [Step]_vars
  BY NextKeepsZombies DEF ZombieKept
<1>2. Spec => [][Step]_vars
  BY <1>1, Invariance, PTL DEF Spec
<1> QED BY <1>2 DEF ZombiesKept

-----------------------------------------------------------------------------
(* The inductive invariant *)

(* What a task sees once executeSRET has returned to context x *)
Resumed(x) == [mode |-> x.spp, pc |-> x.epc, sp |-> x.sp, satp |-> x.satp, sie |-> x.spie]

(* A view v that the task in slot s, with root r, may have of the hart:    *)
(* interrupts are on, a program is in its own space, kernel code on its    *)
(* own stack, and enter_user, unlike the loader, has a space to go to.     *)
Sound(r, s, v) ==
  /\ v.sie = TRUE
  /\ v.satp \in {Kernel, r}
  /\ v.mode = "U" => v.satp = r /\ v.satp # Kernel
  /\ v.mode = "S" => /\ v.pc # "boot"
                     /\ v.pc # "sret" => v.sp = s
                     /\ v.pc = "load" => v.satp = Kernel
                     /\ v.pc \in Steps => r # Kernel
                     /\ v.pc \in Steps \ {"satp"} => v.satp = r

AtBoot == cpu.mode = "S" /\ cpu.pc = "boot"

(* The hart as the running code sees it: kernel_main with interrupts still *)
(* off, or a sound view; sret finds U-mode, interrupts and the kernel      *)
(* stack prepared.                                                         *)
OnCpu ==
  /\ cpu.satp \in {Kernel, root[current]}
  /\ AtBoot => current = Idle /\ cpu.sp = Idle /\ cpu.satp = Kernel /\ cpu.sie = FALSE
  /\ cpu.mode # "M" /\ ~AtBoot => Sound(root[current], current, View(cpu))
  /\ cpu.mode = "U" => cpu.sscratch = current
  /\ cpu.mode = "S" /\ cpu.pc \in {"sepc", "sscratch", "sp", "sret"} =>
       cpu.spp = "U" /\ cpu.spie = TRUE
  /\ cpu.mode = "S" /\ cpu.pc \in {"sp", "sret"} => cpu.sscratch = current

(* Tasks that may get the CPU back find in their context what they left.   *)
Switchable == {s \in Slots \ {current} : state[s] \in {"READY", "BLOCKED"}}
Saved == \A s \in Switchable : left[s] = Resumed(trap_ctx[s]) /\ Sound(root[s], s, left[s])

RootsDistinct == \A s, t \in Slots : s # t /\ root[s] = root[t] => root[s] = Kernel

Views == [mode : {"M", "S", "U"}, pc : KernelPlaces \cup UserPlaces,
          sp : Slots \cup {UserStack}, satp : {Kernel} \cup Spaces, sie : BOOLEAN]

MachPlaces ==
  /\ shell_pid = 0 => AtBoot
  /\ polling => cpu.mode = "U"

TInv ==
  /\ IInv
  /\ TrapTypeOK /\ left \in [Slots -> Views]
  /\ OnCpu /\ Saved /\ RootsDistinct /\ MachPlaces

-----------------------------------------------------------------------------
(* The hart *)

(* e is the hart in the handler of a trap that struck it in state c. *)
InHandler(e, c) ==
  /\ e \in Harts
  /\ e.sepc = c.pc /\ e.spie = c.sie /\ e.spp = c.mode /\ e.sp = c.sp /\ e.satp = c.satp

LEMMA HandlerFields ==
  ASSUME NEW c \in Harts, c.mode # "M"
  PROVE  /\ InHandler(trap_entry(handle_interrupt(c)), c)
         /\ InHandler(trap_entry(handle_exception(c)), c)
<1>1. \A e \in Harts : trap_entry(e) \in Harts /\ trap_entry(e).sepc = e.sepc
        /\ trap_entry(e).spie = e.spie /\ trap_entry(e).spp = e.spp
        /\ trap_entry(e).sp = e.sp /\ trap_entry(e).satp = e.satp
  BY DEF trap_entry, Harts
<1>2. /\ handle_interrupt(c) \in Harts /\ handle_interrupt(c).sepc = c.pc
      /\ handle_interrupt(c).spie = c.sie /\ handle_interrupt(c).spp = c.mode
      /\ handle_interrupt(c).sp = c.sp /\ handle_interrupt(c).satp = c.satp
  BY Zenon DEF handle_interrupt, Harts
<1>3. handle_exception(c) = handle_interrupt(c)
  BY DEF handle_interrupt, handle_exception
<1> QED BY <1>1, <1>2, <1>3 DEF InHandler

(* What task_prepare_trap_return and sret make of the hart c *)
LEMMA ReturnFields ==
  ASSUME NEW c \in Harts, current' \in Slots
  PROVE  /\ TrapReturn(c) \in Harts
         /\ View(TrapReturn(c)) = [mode |-> c.spp, pc |-> c.sepc, sp |-> c.sp,
                                   satp |-> c.satp, sie |-> c.spie]
         /\ TrapReturn(c).mode = c.spp /\ TrapReturn(c).pc = c.sepc
         /\ TrapReturn(c).satp = c.satp /\ TrapReturn(c).sp = c.sp
         /\ TrapReturn(c).sscratch = current'
         /\ TrapReturn(c).spp = "U" /\ TrapReturn(c).spie = TRUE
BY Zenon DEF TrapReturn, executeSRET, View, Harts

LEMMA RestoreFields ==
  ASSUME NEW c \in Harts, NEW x \in Contexts, current' \in Slots
  PROVE  /\ restore_trap_context(c, x) \in Harts
         /\ restore_trap_context(c, x).sepc = x.epc /\ restore_trap_context(c, x).sp = x.sp
         /\ restore_trap_context(c, x).satp = x.satp /\ restore_trap_context(c, x).spie = x.spie
         /\ restore_trap_context(c, x).spp = x.spp
BY Zenon DEF restore_trap_context, Harts, Contexts

(* What is saved, and what a task sees, has the right type. *)
LEMMA SavedTypes ==
  ASSUME NEW c \in Harts
  PROVE  save_trap_context(c) \in Contexts /\ View(c) \in Views
BY DEF save_trap_context, Contexts, Harts, View, Views

(* A trap that returns into a sound view leaves the hart as it should be. *)
LEMMA Lands ==
  ASSUME NEW c \in Harts, current' \in Slots, cpu' = TrapReturn(c),
         Sound(root'[current'], current', [mode |-> c.spp, pc |-> c.sepc, sp |-> c.sp,
                                           satp |-> c.satp, sie |-> c.spie])
  PROVE  OnCpu' /\ cpu' \in Harts
<1>1. /\ cpu' \in Harts /\ cpu'.mode = c.spp /\ cpu'.pc = c.sepc /\ cpu'.satp = c.satp
      /\ cpu'.sscratch = current' /\ cpu'.spp = "U" /\ cpu'.spie = TRUE
      /\ View(cpu') = [mode |-> c.spp, pc |-> c.sepc, sp |-> c.sp,
                       satp |-> c.satp, sie |-> c.spie]
  BY ReturnFields, Zenon
<1>2. Sound(root'[current'], current', View(cpu'))
  BY <1>1
<1>3. cpu'.satp \in {Kernel, root'[current']} /\ ~AtBoot'
  BY <1>1 DEF Sound, AtBoot
<1> QED BY <1>1, <1>2, <1>3 DEF OnCpu

-----------------------------------------------------------------------------
(* The trap path *)

(* switch_from_trap, called by the handler e: the context of current is    *)
(* saved, and whoever runs next sees what it saw before.                   *)
LEMMA SwitchStep ==
  ASSUME TInv, NEW e, InHandler(e, cpu), SwitchContext(e), cpu.mode # "M", ~AtBoot,
         current' \in Slots,
         current' # current => current' \in Switchable /\ task_count > 1,
         root'[current'] = root[current'],
         \A s \in Switchable' : s # current => s \in Switchable,
         \A s \in Switchable' : root'[s] = root[s]
  PROVE  /\ cpu' \in Harts /\ trap_ctx' \in [Slots -> Contexts] /\ left' \in [Slots -> Views]
         /\ OnCpu' /\ Saved'
         /\ current' # current => View(cpu') = left[current']
<1> DEFINE x == save_trap_context(e)
<1>0. /\ current \in Slots /\ cpu \in Harts /\ trap_ctx \in [Slots -> Contexts]
      /\ left \in [Slots -> Views] /\ e \in Harts
  BY DEF TInv, IInv, TypeOK, TrapTypeOK, InHandler
<1>1. x \in Contexts /\ View(cpu) \in Views
  BY <1>0, SavedTypes
<1>2. /\ Resumed(x) = View(cpu)
      /\ [mode |-> e.spp, pc |-> e.sepc, sp |-> e.sp, satp |-> e.satp, sie |-> e.spie] = View(cpu)
  BY DEF Resumed, save_trap_context, View, InHandler
<1>3. Sound(root[current], current, View(cpu))
  BY DEF TInv, OnCpu
<1>4. CASE current' = current
  <2>1. cpu' = TrapReturn(e) /\ left' = left
    BY <1>4 DEF SwitchContext
  <2>2. cpu' \in Harts /\ OnCpu'
    BY <1>0, <1>2, <1>3, <1>4, <2>1, Lands, Zenon
  <2>3. \A s \in Slots : s # current => trap_ctx'[s] = trap_ctx[s]
    BY <1>0 DEF SwitchContext
  <2>4. trap_ctx' \in [Slots -> Contexts]
    BY <1>0, <1>1 DEF SwitchContext
  <2>5. Saved'
    BY <1>4, <2>1, <2>3 DEF Saved, Switchable, TInv
  <2> QED BY <1>0, <1>4, <2>1, <2>2, <2>4, <2>5
<1>5. CASE current' # current
  <2>1. /\ trap_ctx' = [trap_ctx EXCEPT ![current] = x]
        /\ cpu' = TrapReturn(restore_trap_context(e, trap_ctx'[current']))
        /\ left' = [left EXCEPT ![current] = View(cpu)]
    BY <1>5 DEF SwitchContext
  <2> HIDE DEF x
  <2>2. trap_ctx' \in [Slots -> Contexts] /\ left' \in [Slots -> Views]
    BY <1>0, <1>1, <2>1
  <2>3. /\ trap_ctx'[current'] = trap_ctx[current'] /\ trap_ctx[current'] \in Contexts
        /\ left[current'] = Resumed(trap_ctx[current'])
        /\ Sound(root[current'], current', left[current'])
    BY <1>0, <1>5, <2>1 DEF TInv, Saved
  <2> DEFINE c == restore_trap_context(e, trap_ctx'[current'])
  <2>4. /\ c \in Harts
        /\ [mode |-> c.spp, pc |-> c.sepc, sp |-> c.sp, satp |-> c.satp, sie |-> c.spie]
           = left[current']
    <3>1. /\ c \in Harts /\ c.sepc = trap_ctx[current'].epc /\ c.sp = trap_ctx[current'].sp
          /\ c.satp = trap_ctx[current'].satp /\ c.spie = trap_ctx[current'].spie
          /\ c.spp = trap_ctx[current'].spp
      BY <1>0, <2>3, RestoreFields
    <3> QED BY <2>3, <3>1, Zenon DEF Resumed
  <2> HIDE DEF c
  <2>5. cpu' = TrapReturn(c)
    BY <2>1 DEF c
  <2>6. cpu' \in Harts /\ OnCpu'
    <3>1. Sound(root'[current'], current', [mode |-> c.spp, pc |-> c.sepc, sp |-> c.sp,
                                            satp |-> c.satp, sie |-> c.spie])
      BY <2>3, <2>4, Zenon
    <3> QED BY <2>4, <2>5, <3>1, Lands, Zenon
  <2>7. View(cpu') = left[current']
    BY <2>4, <2>5, ReturnFields, Zenon
  <2>8. Saved'
    <3>1. SUFFICES ASSUME NEW s \in Switchable'
                   PROVE  left'[s] = Resumed(trap_ctx'[s]) /\ Sound(root'[s], s, left'[s])
      BY Zenon DEF Saved
    <3>2. s \in Slots /\ root'[s] = root[s]
      BY DEF Switchable
    <3>3. CASE s = current
      BY <1>0, <1>2, <1>3, <2>1, <3>2, <3>3
    <3>4. CASE s # current
      BY <1>0, <2>1, <3>2, <3>4 DEF TInv, Saved
    <3> QED BY <3>3, <3>4
  <2> QED BY <2>2, <2>6, <2>7, <2>8
<1> QED BY <1>4, <1>5

(* Whoever may get the CPU back, and got it not in this step, is kept. *)
LEMMA SavedKept ==
  ASSUME TInv,
         \A s \in Switchable' : /\ s \in Switchable /\ root'[s] = root[s]
                                /\ trap_ctx'[s] = trap_ctx[s] /\ left'[s] = left[s]
  PROVE  Saved'
BY DEF TInv, Saved

(* A system call that returns to its caller *)
LEMMA ReturnStep ==
  ASSUME TInv, cpu.mode = "U", current' = current, root'[current] = root[current],
         cpu' = TrapReturn([Ecall EXCEPT !.sepc = "user"])
  PROVE  OnCpu' /\ cpu' \in Harts /\ cpu'.mode = "U"
<1> DEFINE c == [Ecall EXCEPT !.sepc = "user"]
<1>0. cpu \in Harts /\ current \in Slots /\ cpu.mode = "U"
  BY DEF TInv, IInv, TypeOK, TrapTypeOK
<1>1. InHandler(Ecall, cpu)
  BY <1>0, HandlerFields DEF Ecall
<1>2. /\ c \in Harts /\ c.sepc = "user" /\ c.spie = cpu.sie /\ c.spp = "U"
      /\ c.sp = cpu.sp /\ c.satp = cpu.satp
  BY <1>0, <1>1, Zenon DEF InHandler, Harts, UserPlaces
<1> HIDE DEF c
<1>3. Sound(root[current], current, View(cpu)) /\ ~AtBoot
  BY <1>0 DEF TInv, OnCpu, AtBoot
<1>4. Sound(root'[current'], current', [mode |-> c.spp, pc |-> c.sepc, sp |-> c.sp,
                                        satp |-> c.satp, sie |-> c.spie])
  BY <1>0, <1>2, <1>3 DEF Sound, View
<1>5. cpu' = TrapReturn(c)
  BY DEF c
<1>6. cpu'.mode = "U"
  BY <1>0, <1>2, <1>5, ReturnFields, Zenon
<1> QED BY <1>0, <1>2, <1>4, <1>5, <1>6, Lands, Zenon

-----------------------------------------------------------------------------
(* What the steps of Task do to the tasks that wait for the CPU *)

(* A timer tick *)
LEMMA TickMoves ==
  ASSUME IInv, TimerTick
  PROVE  /\ current' \in Slots
         /\ current' # current => current' \in Switchable /\ task_count > 1
         /\ \A s \in Switchable' : s # current => s \in Switchable
<1>1. SchedTypeOK /\ task_count \in Int /\ sched_tick(state, ready_order)
  BY DEF IInv, TypeOK, SchedTypeOK, TimerTick
<1>2. current' # current => current' \in Switchable /\ task_count > 1
  BY <1>1, TickPicks DEF Switchable
<1>3. SchedTypeOK' /\ SameLife(state, state')
  BY TickEffect
<1>4. \A s \in Slots : state[s] = "RUNNING" => s = current
  BY DEF IInv, CurrentRuns
<1> QED BY <1>2, <1>3, <1>4 DEF Switchable, SameLife, Runnable, SchedTypeOK

(* task_reschedule, after current has left the READY and RUNNING tasks *)
LEMMA RescheduleMoves ==
  ASSUME IInv, current # Idle, NEW st \in [Slots -> States], NEW ord \in [Slots -> Nat],
         task_reschedule(st, ord), SameLife(st, state'), current' \in Slots,
         \A s \in Slots : s # current /\ st[s] \in {"READY", "RUNNING", "BLOCKED"} => s \in Switchable
  PROVE  /\ current' # current => current' \in Switchable /\ task_count > 1
         /\ \A s \in Switchable' : s # current => s \in Switchable
<1>1. task_count > 1 /\ current \in Slots /\ task_count \in Int
  BY CanSwitch DEF IInv, TypeOK
<1>2. Dispatch(st, ord)
  BY <1>1 DEF task_reschedule
<1>3. current' # current => st[current'] = "READY"
  BY <1>1, <1>2, DispatchPicks
<1> QED BY <1>1, <1>3 DEF Switchable, SameLife, Runnable

(* sys_exit *)
LEMMA ExitMoves ==
  ASSUME IInv, NEW code \in Int, SysExit(code)
  PROVE  /\ current' \in Slots
         /\ current' # current => current' \in Switchable /\ task_count > 1
         /\ \A s \in Switchable' : s # current => s \in Switchable
<1>1. /\ current # Idle /\ current \in Slots
      /\ task_reschedule(AfterDeath(current), OrderAfterDeath(current))
  BY DEF SysExit, Calls, InUser, IInv, TypeOK
<1>2. AfterDeath(current) \in [Slots -> States] /\ OrderAfterDeath(current) \in [Slots -> Nat]
  BY <1>1, DeathTypes DEF IInv
<1>3. SchedTypeOK' /\ SameLife(AfterDeath(current), state')
  BY ExitEffect
<1>4. \A s \in Slots : s # current /\ AfterDeath(current)[s] \in {"READY", "RUNNING", "BLOCKED"}
                         => s \in Switchable
  BY DEF AfterDeath, WokenBy, Switchable, IInv, CurrentRuns
<1> QED BY <1>1, <1>2, <1>3, <1>4, RescheduleMoves DEF SchedTypeOK

(* task_kill: no task but the one that dies leaves or joins them. *)
LEMMA KillMoves ==
  ASSUME IInv, NEW z \in Slots, state' = AfterDeath(z), current' = current
  PROVE  \A s \in Switchable' : s \in Switchable
BY DEF AfterDeath, WokenBy, Switchable, IInv, CurrentRuns

(* task_waitpid that blocks *)
LEMMA BlockMoves ==
  ASSUME IInv, current # Idle, state[current] = "RUNNING", NEW p, NEW arg, WaitBlocks(p, arg)
  PROVE  /\ current' \in Slots /\ state'[current] = "BLOCKED"
         /\ current' # current => current' \in Switchable /\ task_count > 1
         /\ \A s \in Switchable' : s # current => s \in Switchable
         /\ \A s \in Slots : state'[s] = "UNUSED" => state[s] = "UNUSED"
<1> DEFINE st == [state EXCEPT ![current] = "BLOCKED"]
<1>1. /\ st \in [Slots -> States] /\ ready_order \in [Slots -> Nat] /\ current \in Slots
      /\ st[current] = "BLOCKED" /\ \A s \in Slots : s # current => st[s] = state[s]
  BY DEF IInv, TypeOK, States
<1>2. task_reschedule(st, ready_order)
  BY DEF WaitBlocks
<1>3. SchedTypeOK' /\ SameLife(st, state')
  BY BlockEffect, Zenon
<1> HIDE DEF st
<1>4. \A s \in Slots : s # current /\ st[s] \in {"READY", "RUNNING", "BLOCKED"} => s \in Switchable
  BY <1>1 DEF Switchable, IInv, CurrentRuns
<1>5. state'[current] = "BLOCKED" /\ \A s \in Slots : state'[s] = "UNUSED" => state[s] = "UNUSED"
  BY <1>1, <1>3 DEF SameLife, Runnable
<1> QED BY <1>1, <1>2, <1>3, <1>4, <1>5, RescheduleMoves DEF SchedTypeOK

-----------------------------------------------------------------------------
(* Address spaces *)

(* There is always a page table left to hand out. *)
LEMMA FreshIsFree ==
  ASSUME root \in [Slots -> {Kernel} \cup Spaces]
  PROVE  /\ FreshSpace \in Spaces /\ FreshSpace # Kernel
         /\ \A s \in Slots : root[s] # FreshSpace
<1> USE SchedAssumption
<1> DEFINE used == {root[s] : s \in Slots}
           owner == [r \in Spaces |-> CHOOSE s \in Slots : root[s] = r]
<1>1. /\ IsFiniteSet(Slots) /\ Cardinality(Slots) = MaxTasks
      /\ IsFiniteSet(Spaces) /\ Cardinality(Spaces) = MaxTasks + 1
  BY FS_Interval DEF Slots, Spaces
<1>2. Spaces \ used # {}
  <2>1. SUFFICES ASSUME Spaces \ used = {} PROVE FALSE
    OBVIOUS
  <2>2. \A r \in Spaces : owner[r] \in Slots /\ root[owner[r]] = r
    BY <2>1
  <2>3. owner \in [Spaces -> Slots]
    BY <2>2
  <2> HIDE DEF owner
  <2>4. Cardinality(Slots) < Cardinality(Spaces)
    BY <1>1
  <2>5. \E x, y \in Spaces : x # y /\ owner[x] = owner[y]
    BY <1>1, <2>3, <2>4, FS_PigeonHole
  <2> QED BY <2>2, <2>5
<1>3. Spaces \ used \in SUBSET Nat
  BY DEF Spaces
<1>4. FreshSpace \in Spaces \ used
  BY <1>2, <1>3, LowestIn DEF FreshSpace
<1>5. FreshSpace # Kernel
  BY <1>4 DEF Spaces, Kernel
<1> QED BY <1>4, <1>5

(* One task gets a fresh space; every other keeps its own or loses it.     *)
LEMMA RootsStay ==
  ASSUME RootsDistinct, root \in [Slots -> {Kernel} \cup Spaces], NEW t \in Slots,
         \A s \in Slots : root'[s] \in {Kernel, root[s]} \/ (s = t /\ root'[s] = FreshSpace)
  PROVE  RootsDistinct'
BY FreshIsFree DEF RootsDistinct

-----------------------------------------------------------------------------
(* Steps that may move the CPU *)

(* A task that gets the CPU sees what it saw when it lost it. *)
Resumes == current' # current => View(cpu') = left[current']

(* The rest of the invariant, after a step of Task *)
LEMMA TInvNext ==
  ASSUME IInv', cpu' \in Harts, trap_ctx' \in [Slots -> Contexts], left' \in [Slots -> Views],
         root' \in [Slots -> {Kernel} \cup Spaces],
         OnCpu', Saved', RootsDistinct', MachPlaces'
  PROVE  TInv'
BY DEF TInv, TrapTypeOK

(* The parts of the invariant, unfolded *)
LEMMA TInvParts ==
  ASSUME TInv
  PROVE  /\ IInv /\ current \in Slots /\ Idle \in Slots
         /\ cpu \in Harts /\ trap_ctx \in [Slots -> Contexts] /\ left \in [Slots -> Views]
         /\ root \in [Slots -> {Kernel} \cup Spaces]
         /\ OnCpu /\ Saved /\ RootsDistinct /\ MachPlaces
<1>1. Idle \in Slots
  BY SchedAssumption DEF Slots, Idle
<1>2. current \in Slots
  BY DEF TInv, IInv, TypeOK
<1> QED BY <1>1, <1>2 DEF TInv, TrapTypeOK

(* The timer interrupt *)
LEMMA TickTInv ==
  ASSUME TInv, IInv', Tick
  PROVE  TInv' /\ Resumes
<1> DEFINE e == trap_entry(handle_interrupt(cpu))
<1>0. /\ IInv /\ cpu \in Harts /\ root \in [Slots -> {Kernel} \cup Spaces]
      /\ OnCpu /\ RootsDistinct
  BY TInvParts
<1>1. /\ TimerTick /\ SwitchContext(e) /\ root' = root /\ cpu.mode # "M" /\ cpu.sie
      /\ polling' = FALSE /\ shell_pid' # 0
  BY <1>0 DEF Tick, TimerEnabled, TimerTick, On, machVars, IInv, TypeOK
<1>2. ~AtBoot /\ InHandler(e, cpu)
  BY <1>0, <1>1, HandlerFields DEF OnCpu
<1> HIDE DEF e
<1>3. /\ current' \in Slots
      /\ current' # current => current' \in Switchable /\ task_count > 1
      /\ \A s \in Switchable' : s # current => s \in Switchable
  BY <1>0, <1>1, TickMoves
<1>4. /\ root'[current'] = root[current'] /\ \A s \in Switchable' : root'[s] = root[s]
      /\ RootsDistinct' /\ root' \in [Slots -> {Kernel} \cup Spaces]
  BY <1>0, <1>1 DEF RootsDistinct
<1>5. /\ cpu' \in Harts /\ trap_ctx' \in [Slots -> Contexts] /\ left' \in [Slots -> Views]
      /\ OnCpu' /\ Saved' /\ Resumes
  BY <1>1, <1>2, <1>3, <1>4, SwitchStep DEF Resumes
<1>6. MachPlaces'
  BY <1>1 DEF MachPlaces
<1> QED BY <1>4, <1>5, <1>6, TInvNext

(* sys_exit *)
LEMMA ExitTInv ==
  ASSUME TInv, IInv', NEW code \in Int, Exit(code)
  PROVE  TInv' /\ Resumes
<1>0. /\ IInv /\ cpu \in Harts /\ root \in [Slots -> {Kernel} \cup Spaces] /\ RootsDistinct
  BY TInvParts
<1>1. /\ SysExit(code) /\ SwitchContext(Ecall) /\ root' = root /\ cpu.mode = "U"
      /\ polling' = FALSE /\ shell_pid' # 0
  BY <1>0 DEF Exit, InProgram, SysExit, Calls, InUser, On, machVars, IInv, TypeOK
<1>2. ~AtBoot /\ InHandler(Ecall, cpu)
  BY <1>0, <1>1, HandlerFields DEF AtBoot, Ecall
<1>3. /\ current' \in Slots
      /\ current' # current => current' \in Switchable /\ task_count > 1
      /\ \A s \in Switchable' : s # current => s \in Switchable
  BY <1>0, <1>1, ExitMoves
<1>4. /\ root'[current'] = root[current'] /\ \A s \in Switchable' : root'[s] = root[s]
      /\ RootsDistinct' /\ root' \in [Slots -> {Kernel} \cup Spaces]
  BY <1>0, <1>1 DEF RootsDistinct
<1>5. /\ cpu' \in Harts /\ trap_ctx' \in [Slots -> Contexts] /\ left' \in [Slots -> Views]
      /\ OnCpu' /\ Saved' /\ Resumes
  BY <1>1, <1>2, <1>3, <1>4, SwitchStep DEF Resumes
<1>6. MachPlaces'
  BY <1>1 DEF MachPlaces
<1> QED BY <1>4, <1>5, <1>6, TInvNext

(* A call that leaves the CPU with its caller, and may give back spaces.   *)
LEMMA CallTInv ==
  ASSUME TInv, IInv', cpu.mode = "U", Return, current' = current, shell_pid' # 0,
         \A s \in Switchable' : s \in Switchable,
         root' \in [Slots -> {Kernel} \cup Spaces],
         \A s \in Slots : /\ root'[s] \in {Kernel, root[s]}
                          /\ state'[s] # "UNUSED" => root'[s] = root[s]
  PROVE  TInv' /\ Resumes
<1>0. /\ current \in Slots /\ trap_ctx \in [Slots -> Contexts] /\ left \in [Slots -> Views]
      /\ root \in [Slots -> {Kernel} \cup Spaces] /\ RootsDistinct
  BY TInvParts
<1>1. trap_ctx' = trap_ctx /\ left' = left /\ cpu' = TrapReturn([Ecall EXCEPT !.sepc = "user"])
  BY DEF Return
<1>2. root'[current] = root[current] /\ \A s \in Switchable' : root'[s] = root[s]
  BY <1>0 DEF IInv, CurrentRuns, Switchable
<1>3. OnCpu' /\ cpu' \in Harts /\ cpu'.mode = "U"
  BY <1>1, <1>2, ReturnStep
<1>4. Saved'
  BY <1>1, <1>2, SavedKept
<1>5. RootsDistinct'
  BY <1>0, RootsStay
<1>6. MachPlaces'
  BY <1>3 DEF MachPlaces
<1> QED BY <1>0, <1>1, <1>3, <1>4, <1>5, <1>6, TInvNext DEF Resumes

(* sys_kill *)
LEMMA KillTInv ==
  ASSUME TInv, IInv', NEW p, NEW code, Kill(p, code)
  PROVE  TInv' /\ Resumes
<1>0. /\ IInv /\ root \in [Slots -> {Kernel} \cup Spaces]
  BY TInvParts
<1>1. /\ cpu.mode = "U" /\ Return /\ root' = root /\ shell_pid' # 0 /\ current' = current
      /\ Calls
  BY Zenon DEF Kill, InProgram, SysKill, Calls, InUser, On, machVars
<1>2. PICK z \in find_pid(p) : state' = AfterDeath(z)
  BY DEF Kill, SysKill
<1>3. z \in Slots
  BY <1>0, <1>2, FindPid DEF IInv
<1>4. \A s \in Switchable' : s \in Switchable
  BY <1>0, <1>1, <1>2, <1>3, KillMoves
<1> QED BY <1>0, <1>1, <1>4, CallTInv

(* waitpid *)
LEMMA WaitTInv ==
  ASSUME TInv, IInv', Waitpid
  PROVE  TInv' /\ Resumes
<1>0. /\ IInv /\ cpu \in Harts /\ root \in [Slots -> {Kernel} \cup Spaces] /\ RootsDistinct
      /\ current \in Slots /\ TypeOK
  BY TInvParts DEF IInv
<1>1. /\ cpu.mode = "U" /\ root' = Destroy(root)
      /\ IF state'[current] = "BLOCKED" THEN SwitchContext(Ecall) ELSE Return
  BY DEF Waitpid, InProgram
<1>2. \E p, arg, nohang : InUser /\ task_waitpid(p, arg, nohang)
  BY Zenon DEF Waitpid, SysWaitpid, RestartWaitpid, Calls
<1>3. PICK p, arg, nohang : InUser /\ task_waitpid(p, arg, nohang)
  BY <1>2
<1>4. /\ current # Idle /\ state[current] = "RUNNING" /\ shell_pid' # 0 /\ polling' = FALSE
  BY <1>0, <1>3 DEF InUser, On, task_waitpid, machVars, TypeOK
<1>5. /\ \A s \in Slots : /\ root'[s] \in {Kernel, root[s]}
                          /\ state'[s] # "UNUSED" => root'[s] = root[s]
      /\ root' \in [Slots -> {Kernel} \cup Spaces]
  BY <1>0, <1>1 DEF Destroy
<1>6. CASE Zombies(p) # {}
  <2> DEFINE c == Lowest(Zombies(p))
  <2>1. Zombies(p) \in SUBSET Nat
    BY SchedAssumption DEF Zombies, Children, Slots
  <2>2. c \in Zombies(p)
    BY <1>6, <2>1, LowestIn
  <2>3. state' = [state EXCEPT ![c] = "UNUSED"] /\ current' = current
    BY <1>3, <1>6 DEF task_waitpid, WaitReaps, Reap
  <2> HIDE DEF c
  <2>4. c \in Slots /\ state[c] = "ZOMBIE"
    BY <2>2 DEF Zombies, Children
  <2>5. state'[current] = "RUNNING" /\ \A s \in Switchable' : s \in Switchable
    BY <1>0, <1>4, <2>3, <2>4 DEF Switchable, TypeOK
  <2> QED BY <1>1, <1>4, <1>5, <2>3, <2>5, CallTInv
<1>7. CASE Zombies(p) = {} /\ Children(p) # {} /\ ~nohang
  <2>1. WaitBlocks(p, arg)
    BY <1>3, <1>7 DEF task_waitpid
  <2>2. /\ current' \in Slots /\ state'[current] = "BLOCKED"
        /\ current' # current => current' \in Switchable /\ task_count > 1
        /\ \A s \in Switchable' : s # current => s \in Switchable
    BY <1>0, <1>4, <2>1, BlockMoves
  <2>3. SwitchContext(Ecall) /\ ~AtBoot /\ InHandler(Ecall, cpu)
    BY <1>0, <1>1, <2>2, HandlerFields DEF AtBoot, Ecall
  <2>4. root'[current'] = root[current'] /\ \A s \in Switchable' : root'[s] = root[s]
    BY <1>5, <2>2 DEF Switchable, IInv, CurrentRuns
  <2>5. /\ cpu' \in Harts /\ trap_ctx' \in [Slots -> Contexts] /\ left' \in [Slots -> Views]
        /\ OnCpu' /\ Saved' /\ Resumes
    BY <1>1, <2>2, <2>3, <2>4, SwitchStep, Zenon DEF Resumes
  <2>6. MachPlaces'
    BY <1>4 DEF MachPlaces
  <2>7. RootsDistinct'
    BY <1>0, <1>5, RootsStay
  <2> QED BY <1>5, <2>5, <2>6, <2>7, TInvNext
<1>8. CASE Zombies(p) = {} /\ ~(Children(p) # {} /\ ~nohang)
  <2>1. state' = state /\ current' = current
    BY <1>3, <1>8 DEF task_waitpid, WaitReturns, schedVars
  <2>2. Return /\ \A s \in Switchable' : s \in Switchable
    BY <1>1, <1>4, <2>1 DEF Switchable
  <2> QED BY <1>1, <1>4, <1>5, <2>1, <2>2, CallTInv
<1> QED BY <1>6, <1>7, <1>8

(* A console read, which only the caller sees *)
LEMMA ReadTInv ==
  ASSUME TInv, IInv', Read \/ ReadReturns
  PROVE  TInv' /\ Resumes
<1>0. /\ IInv /\ cpu \in Harts /\ trap_ctx \in [Slots -> Contexts] /\ left \in [Slots -> Views]
      /\ root \in [Slots -> {Kernel} \cup Spaces]
      /\ OnCpu /\ Saved /\ RootsDistinct /\ MachPlaces
  BY TInvParts
<1>1. UNCHANGED schedVars /\ shell_pid' = shell_pid /\ root' = root
  BY DEF Read, ReadReturns, SysReadConsole, Input, hartVars
<1>2. \A s \in Switchable' : s \in Switchable
  BY <1>1 DEF schedVars, Switchable
<1>3. CASE Read
  <2>1. UNCHANGED hartVars /\ cpu.mode = "U" /\ shell_pid # 0
    BY <1>3 DEF Read, InProgram, SysReadConsole, Calls, InUser, On
  <2>2. OnCpu' /\ RootsDistinct' /\ MachPlaces'
    BY <1>0, <1>1, <2>1, Zenon
       DEF hartVars, schedVars, OnCpu, AtBoot, View, RootsDistinct, MachPlaces
  <2>3. Saved'
    BY <1>2, <2>1, SavedKept DEF hartVars
  <2> QED BY <1>0, <1>1, <2>1, <2>2, <2>3, TInvNext DEF hartVars, schedVars, Resumes
<1>4. CASE ReadReturns
  <2>1. Return /\ cpu.mode = "U" /\ shell_pid # 0
    BY <1>0, <1>4 DEF ReadReturns, Input, MachPlaces, AtBoot
  <2> QED BY <1>0, <1>1, <1>2, <2>1, CallTInv DEF schedVars
<1> QED BY <1>3, <1>4
=============================================================================
