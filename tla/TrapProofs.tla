----------------------------- MODULE TrapProofs -----------------------------
(***************************************************************************)
(* Proofs about Trap, for every size of the task table, both scheduling    *)
(* policies and every quantum: it implements Task, and the registers, the  *)
(* contexts and the page tables stay what the tasks rely on, wherever the  *)
(* timer interrupts.                                                       *)
(***************************************************************************)
EXTENDS TaskProofs

(* Every step of Trap is a step of Task, or changes nothing there.         *)
LEMMA TrapStepIsTaskStep == [NextTrap]_trapVars => [Next]_vars
<1> SUFFICES ASSUME [NextTrap]_trapVars PROVE [Next]_vars
  OBVIOUS
<1>1. CASE UNCHANGED trapVars
  BY <1>1 DEF trapVars
<1>2. CASE \E ok \in BOOLEAN : Boot(ok) \/ Load(ok) \/ Fork(ok)
  BY <1>2, Zenon DEF Boot, Load, Fork, Next
<1>3. CASE IrqEnable \/ EnterUser \/ UserStep \/ Fault \/ Off
  BY <1>3 DEF IrqEnable, EnterUser, UserStep, Fault, Off, trapVars
<1>4. CASE ReapShell \/ Tick \/ Read \/ ReadReturns
  BY <1>4 DEF ReapShell, Tick, Read, ReadReturns, Next
<1>5. CASE \/ \E nm \in {"shell", "other"} : Execve(nm)
           \/ \E code \in ExitCodes : Exit(code)
           \/ \E p \in 1 .. PidLimit, code \in KillCodes : Kill(p, code)
  BY <1>5, Zenon DEF Execve, Exit, Kill, Next
<1>6. CASE Waitpid
  BY <1>6, Zenon DEF Waitpid, Next
<1> QED BY <1>1, <1>2, <1>3, <1>4, <1>5, <1>6, Zenon DEF NextTrap

(* The first state of kernel_main *)
LEMMA InitTInv == InitTrap => TInv
<1> SUFFICES ASSUME InitTrap PROVE TInv
  OBVIOUS
<1> USE SchedAssumption
<1>1. Idle \in Slots
  BY DEF Slots, Idle
<1>2. IInv
  BY InitIInv DEF InitTrap
<1>3. cpu \in Harts /\ trap_ctx \in [Slots -> Contexts] /\ root \in [Slots -> {Kernel} \cup Spaces]
  BY <1>1 DEF InitTrap, Harts, Contexts, KernelPlaces, UserPlaces
<1>4. left \in [Slots -> Views]
  BY <1>3, SavedTypes DEF InitTrap
<1>5. Switchable = {}
  BY <1>1 DEF Switchable, InitTrap, Init
<1>6. AtBoot /\ OnCpu
  BY <1>1 DEF InitTrap, Init, AtBoot, OnCpu, Kernel
<1>7. RootsDistinct /\ MachPlaces
  BY <1>6 DEF InitTrap, Init, RootsDistinct, MachPlaces
<1> QED BY <1>2, <1>3, <1>4, <1>5, <1>6, <1>7 DEF TInv, TrapTypeOK, Saved

-----------------------------------------------------------------------------
(* fork and execve *)

(* sys_fork: the child waits in a context of its own, in a fresh space.    *)
LEMMA ForkTInv ==
  ASSUME TInv, IInv', NEW ok \in BOOLEAN, Fork(ok)
  PROVE  TInv' /\ Resumes
<1> DEFINE slot == Lowest(FreeSlots)
<1>0. /\ IInv /\ current \in Slots /\ cpu \in Harts /\ trap_ctx \in [Slots -> Contexts]
      /\ left \in [Slots -> Views] /\ root \in [Slots -> {Kernel} \cup Spaces]
      /\ OnCpu /\ Saved /\ RootsDistinct /\ TypeOK
  BY TInvParts DEF IInv
<1>1. /\ cpu.mode = "U" /\ shell_pid' # 0 /\ current' = current /\ FreeSlots # {}
      /\ state' = IF ok THEN [state EXCEPT ![slot] = "READY"] ELSE state
      /\ state[current] = "RUNNING"
  BY DEF Fork, InProgram, SysFork, Calls, InUser, On, NewTask, machVars
<1>2. slot \in Slots /\ state[slot] = "UNUSED" /\ slot # current
  <2>1. FreeSlots \in SUBSET Nat
    BY SchedAssumption DEF FreeSlots, Slots
  <2>2. slot \in FreeSlots
    BY <1>1, <2>1, LowestIn
  <2> QED BY <1>1, <2>2 DEF FreeSlots
<1>3. PICK child : child = ForkContext(FreshSpace)
  OBVIOUS
<1>4. PICK seen : seen = [View(cpu) EXCEPT !.pc = "user", !.satp = FreshSpace]
  OBVIOUS
<1>5. /\ trap_ctx' = [trap_ctx EXCEPT ![slot] = child]
      /\ left' = [left EXCEPT ![slot] = seen]
      /\ root' = Destroy([root EXCEPT ![slot] = FreshSpace])
      /\ cpu' = TrapReturn([Ecall EXCEPT !.sepc = "user"])
  BY <1>3, <1>4 DEF Fork
<1> HIDE DEF slot
<1>6. FreshSpace \in Spaces /\ FreshSpace # Kernel
  BY <1>0, FreshIsFree
<1>7. /\ child \in Contexts /\ seen \in Views
      /\ seen = Resumed(child) /\ Sound(FreshSpace, slot, seen)
  <2>1. InHandler(Ecall, cpu)
    BY <1>0, <1>1, HandlerFields DEF Ecall
  <2>2. cpu.sie = TRUE
    BY <1>0, <1>1 DEF OnCpu, AtBoot, Sound, View
  <2>3. /\ child = [epc |-> "user", sp |-> cpu.sp, satp |-> FreshSpace,
                    sie |-> Ecall.sie, spie |-> TRUE, spp |-> "U"]
    BY <1>1, <1>3, <2>1, <2>2, Zenon DEF ForkContext, save_trap_context, InHandler
  <2>4. seen = [mode |-> "U", pc |-> "user", sp |-> cpu.sp, satp |-> FreshSpace, sie |-> TRUE]
    BY <1>1, <1>4, <2>2, Zenon DEF View
  <2>5. /\ Ecall.sie \in BOOLEAN /\ cpu.sp \in Slots \cup {UserStack}
        /\ "user" \in KernelPlaces \cup UserPlaces
    BY <1>0, <2>1 DEF InHandler, Harts, UserPlaces
  <2>6. child \in Contexts /\ seen \in Views
    BY <1>6, <2>3, <2>4, <2>5 DEF Contexts, Views
  <2>7. seen = Resumed(child) /\ Sound(FreshSpace, slot, seen)
    BY <1>6, <2>3, <2>4 DEF Resumed, Sound
  <2> QED BY <2>6, <2>7
<1>8. /\ trap_ctx' \in [Slots -> Contexts] /\ left' \in [Slots -> Views]
  BY <1>0, <1>2, <1>5, <1>7
<1>9. /\ root' \in [Slots -> {Kernel} \cup Spaces]
      /\ \A s \in Slots : root'[s] = IF state'[s] = "UNUSED" THEN Kernel
                                     ELSE IF s = slot THEN FreshSpace ELSE root[s]
  BY <1>0, <1>2, <1>5, <1>6 DEF Destroy
<1>10. RootsDistinct'
  BY <1>0, <1>2, <1>9, RootsStay
<1>11. root'[current] = root[current]
  BY <1>0, <1>1, <1>2, <1>9 DEF TypeOK
<1>12. OnCpu' /\ cpu' \in Harts /\ cpu'.mode = "U"
  BY <1>1, <1>5, <1>11, ReturnStep
<1>13. Saved'
  <2>1. SUFFICES ASSUME NEW s \in Switchable'
                 PROVE  left'[s] = Resumed(trap_ctx'[s]) /\ Sound(root'[s], s, left'[s])
    BY Zenon DEF Saved
  <2>2. s \in Slots /\ s # current /\ state'[s] \in {"READY", "BLOCKED"}
    BY <1>1 DEF Switchable
  <2>3. CASE s = slot
    BY <1>0, <1>5, <1>7, <1>9, <2>2, <2>3, Zenon
  <2>4. CASE s # slot
    <3>1. s \in Switchable /\ root'[s] = root[s]
      BY <1>0, <1>1, <1>9, <2>2, <2>4 DEF Switchable, TypeOK
    <3> QED BY <1>0, <1>5, <2>2, <2>4, <3>1 DEF Saved
  <2> QED BY <2>3, <2>4
<1>14. MachPlaces'
  BY <1>1, <1>12 DEF MachPlaces
<1> QED BY <1>1, <1>8, <1>9, <1>10, <1>12, <1>13, <1>14, TInvNext DEF Resumes

(* user_execve: the caller goes on in a fresh space. *)
LEMMA ExecveTInv ==
  ASSUME TInv, IInv', NEW nm, Execve(nm)
  PROVE  TInv' /\ Resumes
<1>0. /\ IInv /\ current \in Slots /\ cpu \in Harts /\ trap_ctx \in [Slots -> Contexts]
      /\ left \in [Slots -> Views] /\ root \in [Slots -> {Kernel} \cup Spaces]
      /\ OnCpu /\ Saved /\ RootsDistinct
  BY TInvParts
<1>1. /\ cpu.mode = "U" /\ shell_pid' # 0 /\ current' = current /\ state' = state /\ left' = left
  BY DEF Execve, InProgram, SysExecve, Calls, InUser, On, schedVars, machVars
<1>2. PICK c : c = [Ecall EXCEPT !.satp = FreshSpace, !.sp = UserStack, !.sepc = "entry"]
  OBVIOUS
<1>3. /\ root' = [root EXCEPT ![current] = FreshSpace]
      /\ trap_ctx' = [trap_ctx EXCEPT ![current].satp = FreshSpace]
      /\ cpu' = TrapReturn(c)
  BY <1>2 DEF Execve
<1>4. FreshSpace \in Spaces /\ FreshSpace # Kernel
  BY <1>0, FreshIsFree
<1>5. InHandler(Ecall, cpu) /\ cpu.sie = TRUE
  BY <1>0, <1>1, HandlerFields DEF Ecall, OnCpu, AtBoot, Sound, View
<1>6. /\ c \in Harts /\ c.spp = "U" /\ c.spie = TRUE /\ c.satp = FreshSpace
      /\ c.sp = UserStack /\ c.sepc = "entry"
  BY <1>1, <1>2, <1>4, <1>5, Zenon DEF InHandler, Harts, UserPlaces
<1>7. root' \in [Slots -> {Kernel} \cup Spaces] /\ root'[current'] = FreshSpace
  BY <1>0, <1>1, <1>3, <1>4
<1>8. trap_ctx' \in [Slots -> Contexts]
  <2>1. [trap_ctx[current] EXCEPT !.satp = FreshSpace] \in Contexts
    BY <1>0, <1>4 DEF Contexts
  <2> QED BY <1>0, <1>3, <2>1
<1>9. Sound(root'[current'], current', [mode |-> c.spp, pc |-> c.sepc, sp |-> c.sp,
                                        satp |-> c.satp, sie |-> c.spie])
  BY <1>4, <1>6, <1>7 DEF Sound
<1>10. OnCpu' /\ cpu' \in Harts
  BY <1>0, <1>1, <1>3, <1>6, <1>9, Lands
<1>11. cpu'.mode = "U"
  BY <1>0, <1>1, <1>3, <1>6, ReturnFields, Zenon
<1>12. Saved'
  <2>1. \A s \in Switchable' : /\ s \in Switchable /\ root'[s] = root[s]
                               /\ trap_ctx'[s] = trap_ctx[s] /\ left'[s] = left[s]
    BY <1>0, <1>1, <1>3 DEF Switchable
  <2> QED BY <2>1, SavedKept
<1>13. RootsDistinct'
  <2>1. \A s \in Slots : root'[s] \in {Kernel, root[s]} \/ (s = current /\ root'[s] = FreshSpace)
    BY <1>0, <1>3
  <2> QED BY <1>0, <2>1, RootsStay
<1>14. MachPlaces'
  BY <1>1, <1>11 DEF MachPlaces
<1> QED BY <1>0, <1>1, <1>7, <1>8, <1>10, <1>12, <1>13, <1>14, TInvNext DEF Resumes

-----------------------------------------------------------------------------
(* Kernel code outside traps *)

(* Code that keeps the CPU and touches no context but its own *)
LEMMA InPlace ==
  ASSUME TInv, IInv', current' = current, cpu' \in Harts, OnCpu', MachPlaces', left' = left,
         trap_ctx' \in [Slots -> Contexts],
         \A s \in Slots : s # current => trap_ctx'[s] = trap_ctx[s],
         root' \in [Slots -> {Kernel} \cup Spaces], RootsDistinct',
         \A s \in Switchable' : s \in Switchable /\ root'[s] = root[s]
  PROVE  TInv' /\ Resumes
<1>1. left \in [Slots -> Views]
  BY TInvParts
<1>2. Saved'
  <2>1. \A s \in Switchable' : /\ s \in Switchable /\ root'[s] = root[s]
                               /\ trap_ctx'[s] = trap_ctx[s] /\ left'[s] = left[s]
    BY DEF Switchable
  <2> QED BY <2>1, SavedKept
<1> QED BY <1>1, <1>2, TInvNext DEF Resumes

(* A step that changes nothing but pc, mode and CSRs of the hart and,      *)
(* perhaps, the context of current                                         *)
LEMMA OnlyHart ==
  ASSUME TInv, IInv', UNCHANGED <<vars, root, left>>, cpu' \in Harts, OnCpu',
         polling => cpu'.mode = "U", shell_pid # 0,
         trap_ctx' \in [Slots -> Contexts],
         \A s \in Slots : s # current => trap_ctx'[s] = trap_ctx[s]
  PROVE  TInv' /\ Resumes
<1>1. root \in [Slots -> {Kernel} \cup Spaces] /\ RootsDistinct
  BY TInvParts
<1>3. RootsDistinct' /\ root' \in [Slots -> {Kernel} \cup Spaces] /\ current' = current
  BY <1>1 DEF RootsDistinct, vars, schedVars
<1>4. MachPlaces'
  BY DEF MachPlaces, vars, machVars
<1>5. \A s \in Switchable' : s \in Switchable /\ root'[s] = root[s]
  BY DEF Switchable, vars, schedVars
<1> QED BY <1>3, <1>4, <1>5, InPlace

(* start_shell *)
LEMMA BootTInv ==
  ASSUME TInv, IInv', NEW ok \in BOOLEAN, Boot(ok)
  PROVE  TInv' /\ Resumes
<1> DEFINE slot == Lowest(FreeSlots)
<1>0. /\ IInv /\ current \in Slots /\ cpu \in Harts /\ trap_ctx \in [Slots -> Contexts]
      /\ left \in [Slots -> Views] /\ root \in [Slots -> {Kernel} \cup Spaces]
      /\ OnCpu /\ Saved /\ RootsDistinct /\ MachPlaces /\ TypeOK
  BY TInvParts DEF IInv
<1>1. /\ shell_pid = 0 /\ current' = current /\ FreeSlots # {} /\ polling' = polling
      /\ state' = IF ok THEN [state EXCEPT ![slot] = "READY"] ELSE state
      /\ cpu' = cpu /\ root' = root
  BY DEF Boot, StartShell, NewTask
<1>2. AtBoot /\ cpu.satp = Kernel
  BY <1>0, <1>1 DEF MachPlaces, OnCpu
<1>3. slot \in Slots /\ state[slot] = "UNUSED" /\ slot # current
  <2>1. FreeSlots \in SUBSET Nat
    BY SchedAssumption DEF FreeSlots, Slots
  <2>2. slot \in FreeSlots
    BY <1>1, <2>1, LowestIn
  <2> QED BY <1>0, <2>2 DEF FreeSlots, IInv, CurrentRuns
<1>4. PICK x : x = [epc |-> "load", sp |-> slot, satp |-> cpu.satp,
                    sie |-> cpu.sie, spie |-> TRUE, spp |-> "S"]
  BY Zenon
<1>5. PICK seen : seen = [mode |-> "S", pc |-> "load", sp |-> slot, satp |-> Kernel, sie |-> TRUE]
  BY Zenon
<1>6. trap_ctx' = [trap_ctx EXCEPT ![slot] = x] /\ left' = [left EXCEPT ![slot] = seen]
  BY <1>4, <1>5 DEF Boot
<1> HIDE DEF slot
<1>7. x \in Contexts /\ seen \in Views
  BY <1>0, <1>2, <1>3, <1>4, <1>5 DEF Contexts, Views, Harts, KernelPlaces
<1>8. seen = Resumed(x)
  BY <1>2, <1>4, <1>5 DEF Resumed
<1>9. Sound(root[slot], slot, seen)
  BY <1>5 DEF Sound, Steps
<1>10. trap_ctx' \in [Slots -> Contexts] /\ left' \in [Slots -> Views]
  BY <1>0, <1>3, <1>6, <1>7
<1>11. OnCpu' /\ RootsDistinct' /\ MachPlaces'
  BY <1>0, <1>1, <1>2 DEF OnCpu, AtBoot, View, RootsDistinct, MachPlaces
<1>12. Saved'
  <2>1. SUFFICES ASSUME NEW s \in Switchable'
                 PROVE  left'[s] = Resumed(trap_ctx'[s]) /\ Sound(root'[s], s, left'[s])
    BY Zenon DEF Saved
  <2>2. s \in Slots /\ s # current /\ state'[s] \in {"READY", "BLOCKED"}
    BY <1>1 DEF Switchable
  <2>3. CASE s = slot
    BY <1>0, <1>1, <1>6, <1>8, <1>9, <2>2, <2>3
  <2>4. CASE s # slot
    <3>1. s \in Switchable
      BY <1>0, <1>1, <2>2, <2>4 DEF Switchable, TypeOK
    <3> QED BY <1>0, <1>1, <1>6, <2>2, <2>4, <3>1 DEF Saved
  <2> QED BY <2>3, <2>4
<1> QED BY <1>0, <1>1, <1>10, <1>11, <1>12, TInvNext DEF Resumes

(* local_irq_enable, the first instruction of a program, a fault *)
LEMMA JumpTInv ==
  ASSUME TInv, IInv', IrqEnable \/ UserStep \/ Fault
  PROVE  TInv' /\ Resumes
<1>0. /\ cpu \in Harts /\ trap_ctx \in [Slots -> Contexts] /\ OnCpu
  BY TInvParts
<1>1. /\ UNCHANGED <<vars, root, left>> /\ trap_ctx' = trap_ctx /\ ~polling /\ shell_pid # 0
      /\ current' = current
  BY DEF IrqEnable, UserStep, Fault, On, vars, schedVars
<1>2. CASE IrqEnable
  <2>1. /\ cpu' \in Harts /\ cpu'.mode = "S" /\ cpu'.pc = "idle" /\ cpu'.sie = TRUE
        /\ cpu'.sp = cpu.sp /\ cpu'.satp = cpu.satp /\ AtBoot
    BY <1>0, <1>2, Zenon DEF IrqEnable, Goto, Harts, KernelPlaces, AtBoot
  <2>2. OnCpu'
    BY <1>0, <1>1, <2>1 DEF OnCpu, AtBoot, Sound, View, Steps
  <2> QED BY <1>0, <1>1, <2>1, <2>2, OnlyHart
<1>3. CASE UserStep
  <2>1. /\ cpu' \in Harts /\ cpu'.mode = "U" /\ cpu'.pc = "user" /\ cpu'.sie = cpu.sie
        /\ cpu'.sp = cpu.sp /\ cpu'.satp = cpu.satp /\ cpu'.sscratch = cpu.sscratch
        /\ cpu.mode = "U"
    BY <1>0, <1>3, Zenon DEF UserStep, InProgram, Goto, Harts, UserPlaces
  <2>2. OnCpu'
    BY <1>0, <1>1, <2>1 DEF OnCpu, AtBoot, Sound, View
  <2> QED BY <1>0, <1>1, <2>1, <2>2, OnlyHart
<1>4. CASE Fault
  <2>1. /\ cpu' \in Harts /\ cpu'.mode = "M" /\ cpu'.satp = cpu.satp
    BY <1>0, <1>4, Zenon DEF Fault, Harts, KernelPlaces
  <2>2. OnCpu'
    BY <1>0, <1>1, <2>1 DEF OnCpu, AtBoot
  <2> QED BY <1>0, <1>1, <2>1, <2>2, OnlyHart
<1> QED BY <1>2, <1>3, <1>4

(* user_task_entry, up to the new space or to its death *)
LEMMA LoadTInv ==
  ASSUME TInv, IInv', NEW ok \in BOOLEAN, Load(ok)
  PROVE  TInv' /\ Resumes
<1>0. /\ IInv /\ current \in Slots /\ cpu \in Harts /\ trap_ctx \in [Slots -> Contexts]
      /\ root \in [Slots -> {Kernel} \cup Spaces] /\ OnCpu /\ RootsDistinct /\ TypeOK
  BY TInvParts DEF IInv
<1>1. /\ current' = current /\ ~polling' /\ shell_pid' # 0 /\ left' = left
      /\ cpu.mode = "S" /\ cpu.pc = "load" /\ state[current] = "RUNNING"
      /\ state' = state \/ state' = AfterDeath(current)
  BY DEF Load, UserInit, On, schedVars, machVars
<1>2. \A s \in Switchable' : s \in Switchable
  BY <1>0, <1>1, KillMoves DEF Switchable
<1>3. MachPlaces'
  BY <1>1 DEF MachPlaces
<1>4. CASE ok
  <2>1. /\ root' = [root EXCEPT ![current] = FreshSpace]
        /\ trap_ctx' = [trap_ctx EXCEPT ![current].satp = FreshSpace]
        /\ cpu' = Goto("satp")
    BY <1>4 DEF Load
  <2>2. FreshSpace \in Spaces /\ FreshSpace # Kernel
    BY <1>0, FreshIsFree
  <2>3. /\ root' \in [Slots -> {Kernel} \cup Spaces] /\ root'[current] = FreshSpace
        /\ \A s \in Slots : s # current => root'[s] = root[s] /\ trap_ctx'[s] = trap_ctx[s]
    BY <1>0, <2>1, <2>2
  <2>4. RootsDistinct'
    BY <1>0, <2>3, RootsStay
  <2>5. trap_ctx' \in [Slots -> Contexts]
    <3>1. [trap_ctx[current] EXCEPT !.satp = FreshSpace] \in Contexts
      BY <1>0, <2>2 DEF Contexts
    <3> QED BY <1>0, <2>1, <3>1
  <2>6. /\ cpu' \in Harts /\ cpu'.mode = "S" /\ cpu'.pc = "satp" /\ cpu'.sie = cpu.sie
        /\ cpu'.sp = cpu.sp /\ cpu'.satp = cpu.satp
    BY <1>0, <1>1, <2>1, Zenon DEF Goto, Harts, KernelPlaces, Steps
  <2>7. cpu.satp = Kernel /\ cpu.sie = TRUE /\ cpu.sp = current
    BY <1>0, <1>1 DEF OnCpu, AtBoot, Sound, View
  <2>8. OnCpu'
    BY <1>1, <2>2, <2>3, <2>6, <2>7, Zenon DEF OnCpu, AtBoot, Sound, View, Steps
  <2>9. \A s \in Switchable' : s \in Switchable /\ root'[s] = root[s]
    BY <1>1, <1>2, <2>3 DEF Switchable
  <2> QED BY <1>1, <1>3, <2>3, <2>4, <2>5, <2>6, <2>8, <2>9, InPlace
<1>5. CASE ~ok
  <2>1. cpu' = Goto("spin") /\ trap_ctx' = trap_ctx /\ root' = root
    BY <1>5 DEF Load
  <2>2. /\ cpu' \in Harts /\ cpu'.mode = "S" /\ cpu'.pc = "spin" /\ cpu'.sie = cpu.sie
        /\ cpu'.sp = cpu.sp /\ cpu'.satp = cpu.satp
    BY <1>0, <1>1, <2>1, Zenon DEF Goto, Harts, KernelPlaces
  <2>3. OnCpu'
    BY <1>0, <1>1, <2>1, <2>2, Zenon DEF OnCpu, AtBoot, Sound, View, Steps
  <2>4. RootsDistinct'
    BY <1>0, <2>1 DEF RootsDistinct
  <2> QED BY <1>0, <1>1, <1>2, <1>3, <2>1, <2>2, <2>3, <2>4, InPlace
<1> QED BY <1>4, <1>5

(* enter_user, one access at a time *)
LEMMA EnterUserTInv ==
  ASSUME TInv, IInv', EnterUser
  PROVE  TInv' /\ Resumes
<1>0. /\ IInv /\ current \in Slots /\ cpu \in Harts /\ trap_ctx \in [Slots -> Contexts]
      /\ root \in [Slots -> {Kernel} \cup Spaces] /\ OnCpu /\ MachPlaces
      /\ trap_ctx[current] \in Contexts /\ root[current] \in {Kernel} \cup Spaces
  BY TInvParts
<1>1. /\ UNCHANGED <<vars, root, left>> /\ current' = current
      /\ cpu.mode = "S" /\ cpu.pc \in Steps /\ ~AtBoot /\ ~polling /\ shell_pid # 0
  BY <1>0 DEF EnterUser, vars, schedVars, AtBoot, Steps, MachPlaces
<1>2. /\ cpu.sie = TRUE /\ root[current] # Kernel /\ cpu.satp \in {Kernel, root[current]}
      /\ cpu.pc # "sret" => cpu.sp = current
      /\ cpu.pc # "satp" => cpu.satp = root[current]
      /\ cpu.pc \in {"sepc", "sscratch", "sp", "sret"} => cpu.spp = "U" /\ cpu.spie = TRUE
      /\ cpu.pc \in {"sp", "sret"} => cpu.sscratch = current
  BY <1>0, <1>1 DEF OnCpu, Sound, View
<1>3. /\ trap_ctx' \in [Slots -> Contexts]
      /\ \A s \in Slots : s # current => trap_ctx'[s] = trap_ctx[s]
  <2>1. /\ [trap_ctx[current] EXCEPT !.sp = UserStack] \in Contexts
        /\ [trap_ctx[current] EXCEPT !.epc = "entry"] \in Contexts
    BY <1>0 DEF Contexts, UserPlaces
  <2>2. \/ trap_ctx' = [trap_ctx EXCEPT ![current].sp = UserStack]
        \/ trap_ctx' = [trap_ctx EXCEPT ![current].epc = "entry"]
        \/ trap_ctx' = trap_ctx
    BY DEF EnterUser
  <2> QED BY <1>0, <2>1, <2>2
<1>4. cpu' \in Harts /\ OnCpu'
  <2>1. CASE cpu.pc = "satp"
    <3>1. cpu' = [Goto("regs") EXCEPT !.satp = root[current]]
      BY <2>1 DEF EnterUser
    <3>2. /\ cpu' \in Harts /\ cpu'.mode = "S" /\ cpu'.pc = "regs" /\ cpu'.sie = cpu.sie
          /\ cpu'.sp = cpu.sp /\ cpu'.satp = root[current]
      BY <1>0, <1>1, <3>1, Zenon DEF Goto, Harts, KernelPlaces, Steps
    <3> QED BY <1>1, <1>2, <2>1, <3>2 DEF OnCpu, AtBoot, Sound, View, Steps
  <2>2. CASE cpu.pc \in {"regs", "epc"}
    <3>1. PICK p \in {"epc", "status"} : cpu' = Goto(p)
      BY <2>2 DEF EnterUser
    <3>2. /\ cpu' \in Harts /\ cpu'.mode = "S" /\ cpu'.pc = p /\ cpu'.sie = cpu.sie
          /\ cpu'.sp = cpu.sp /\ cpu'.satp = cpu.satp
      BY <1>0, <1>1, <3>1, Zenon DEF Goto, Harts, KernelPlaces, Steps
    <3> QED BY <1>1, <1>2, <2>2, <3>2 DEF OnCpu, AtBoot, Sound, View, Steps
  <2>3. CASE cpu.pc = "status"
    <3>1. cpu' = [Goto("sepc") EXCEPT !.spp = "U", !.spie = TRUE]
      BY <2>3 DEF EnterUser
    <3>2. /\ cpu' \in Harts /\ cpu'.mode = "S" /\ cpu'.pc = "sepc" /\ cpu'.sie = cpu.sie
          /\ cpu'.sp = cpu.sp /\ cpu'.satp = cpu.satp /\ cpu'.spp = "U" /\ cpu'.spie = TRUE
      BY <1>0, <1>1, <3>1, Zenon DEF Goto, Harts, KernelPlaces, Steps
    <3> QED BY <1>1, <1>2, <2>3, <3>2 DEF OnCpu, AtBoot, Sound, View, Steps
  <2>4. CASE cpu.pc = "sepc"
    <3>1. cpu' = [Goto("sscratch") EXCEPT !.sepc = trap_ctx[current].epc]
      BY <2>4 DEF EnterUser
    <3>2. trap_ctx[current].epc \in KernelPlaces \cup UserPlaces
      BY <1>0 DEF Contexts
    <3>3. /\ cpu' \in Harts /\ cpu'.mode = "S" /\ cpu'.pc = "sscratch" /\ cpu'.sie = cpu.sie
          /\ cpu'.sp = cpu.sp /\ cpu'.satp = cpu.satp
          /\ cpu'.spp = cpu.spp /\ cpu'.spie = cpu.spie
      BY <1>0, <1>1, <3>1, <3>2, Zenon DEF Goto, Harts, KernelPlaces, Steps
    <3> QED BY <1>1, <1>2, <2>4, <3>3 DEF OnCpu, AtBoot, Sound, View, Steps
  <2>5. CASE cpu.pc = "sscratch"
    <3>1. cpu' = [Goto("sp") EXCEPT !.sscratch = current]
      BY <2>5 DEF EnterUser
    <3>2. /\ cpu' \in Harts /\ cpu'.mode = "S" /\ cpu'.pc = "sp" /\ cpu'.sie = cpu.sie
          /\ cpu'.sp = cpu.sp /\ cpu'.satp = cpu.satp /\ cpu'.sscratch = current
          /\ cpu'.spp = cpu.spp /\ cpu'.spie = cpu.spie
      BY <1>0, <1>1, <3>1, Zenon DEF Goto, Harts, KernelPlaces, Steps
    <3> QED BY <1>1, <1>2, <2>5, <3>2 DEF OnCpu, AtBoot, Sound, View, Steps
  <2>6. CASE cpu.pc = "sp"
    <3>1. cpu' = [Goto("sret") EXCEPT !.sp = trap_ctx[current].sp]
      BY <2>6 DEF EnterUser
    <3>2. trap_ctx[current].sp \in Slots \cup {UserStack}
      BY <1>0 DEF Contexts
    <3>3. /\ cpu' \in Harts /\ cpu'.mode = "S" /\ cpu'.pc = "sret" /\ cpu'.sie = cpu.sie
          /\ cpu'.satp = cpu.satp /\ cpu'.sscratch = cpu.sscratch
          /\ cpu'.spp = cpu.spp /\ cpu'.spie = cpu.spie
      BY <1>0, <1>1, <3>1, <3>2, Zenon DEF Goto, Harts, KernelPlaces, Steps
    <3> QED BY <1>1, <1>2, <2>6, <3>3 DEF OnCpu, AtBoot, Sound, View, Steps
  <2>7. CASE cpu.pc = "sret"
    <3>1. cpu' = executeSRET(cpu)
      BY <2>7 DEF EnterUser
    <3>2. /\ cpu' \in Harts /\ cpu'.mode = cpu.spp /\ cpu'.sie = cpu.spie
          /\ cpu'.satp = cpu.satp /\ cpu'.sscratch = cpu.sscratch
      BY <1>0, <3>1, Zenon DEF executeSRET, Harts
    <3> QED BY <1>1, <1>2, <2>7, <3>2 DEF OnCpu, AtBoot, Sound, View
  <2> QED BY <1>1, <2>1, <2>2, <2>3, <2>4, <2>5, <2>6, <2>7 DEF Steps
<1> QED BY <1>1, <1>3, <1>4, OnlyHart

(* The boot thread reaps its shell. *)
LEMMA ReapShellTInv ==
  ASSUME TInv, IInv', ReapShell
  PROVE  TInv' /\ Resumes
<1> DEFINE z == Lowest(Zombies(shell_pid))
<1>0. /\ IInv /\ current \in Slots /\ cpu \in Harts /\ trap_ctx \in [Slots -> Contexts]
      /\ root \in [Slots -> {Kernel} \cup Spaces]
      /\ OnCpu /\ RootsDistinct /\ MachPlaces /\ TypeOK
  BY TInvParts DEF IInv
<1>1. /\ UNCHANGED <<cpu, trap_ctx, left>> /\ root' = Destroy(root) /\ current' = current
      /\ state' = [state EXCEPT ![z] = "UNUSED"] /\ Zombies(shell_pid) # {}
      /\ shell_pid' = shell_pid /\ polling' = polling
  BY DEF ReapShell, IdleReapsShell, Reap
<1>2. z \in Slots /\ state[z] = "ZOMBIE"
  <2>1. Zombies(shell_pid) \in SUBSET Nat
    BY SchedAssumption DEF Zombies, Children, Slots
  <2>2. z \in Zombies(shell_pid)
    BY <1>1, <2>1, LowestIn
  <2> QED BY <2>2 DEF Zombies, Children
<1> HIDE DEF z
<1>3. /\ \A s \in Slots : /\ root'[s] \in {Kernel, root[s]}
                          /\ state'[s] # "UNUSED" => root'[s] = root[s]
      /\ root' \in [Slots -> {Kernel} \cup Spaces]
  BY <1>0, <1>1 DEF Destroy
<1>4. root'[current] = root[current]
  BY <1>0, <1>1, <1>3 DEF IInv, CurrentRuns
<1>5. \A s \in Switchable' : s \in Switchable /\ root'[s] = root[s]
  BY <1>0, <1>1, <1>2, <1>3 DEF Switchable, TypeOK
<1>6. OnCpu' /\ MachPlaces'
  BY <1>0, <1>1, <1>4 DEF OnCpu, AtBoot, View, MachPlaces
<1>7. RootsDistinct'
  BY <1>0, <1>3, RootsStay
<1> QED BY <1>0, <1>1, <1>3, <1>5, <1>6, <1>7, InPlace

-----------------------------------------------------------------------------
(* Every step keeps the invariant, and hands the CPU over faithfully.      *)
LEMMA NextTInv == TInv /\ [NextTrap]_trapVars => TInv' /\ Resumes
<1> SUFFICES ASSUME TInv, [NextTrap]_trapVars PROVE TInv' /\ Resumes
  OBVIOUS
<1>0. IInv'
  BY TrapStepIsTaskStep, NextIInv DEF TInv
<1>1. CASE UNCHANGED trapVars \/ Off
  <2>1. UNCHANGED <<vars, hartVars>> /\ current' = current
    BY <1>1 DEF Off, trapVars, vars, schedVars
  <2>2. /\ cpu \in Harts /\ trap_ctx \in [Slots -> Contexts]
        /\ root \in [Slots -> {Kernel} \cup Spaces] /\ OnCpu /\ RootsDistinct /\ MachPlaces
    BY TInvParts
  <2>3. OnCpu' /\ RootsDistinct' /\ MachPlaces'
    BY <2>1, <2>2 DEF OnCpu, AtBoot, View, RootsDistinct, MachPlaces, hartVars, vars, machVars
  <2>4. \A s \in Switchable' : s \in Switchable /\ root'[s] = root[s]
    BY <2>1 DEF Switchable, vars, schedVars, hartVars
  <2> QED BY <1>0, <2>1, <2>2, <2>3, <2>4, InPlace DEF hartVars
<1>2. CASE \E ok \in BOOLEAN : Boot(ok) \/ Load(ok) \/ Fork(ok)
  BY <1>0, <1>2, BootTInv, LoadTInv, ForkTInv, Zenon
<1>3. CASE IrqEnable \/ UserStep \/ Fault
  BY <1>0, <1>3, JumpTInv
<1>4. CASE EnterUser
  BY <1>0, <1>4, EnterUserTInv
<1>5. CASE ReapShell
  BY <1>0, <1>5, ReapShellTInv
<1>6. CASE Tick
  BY <1>0, <1>6, TickTInv
<1>7. CASE \E nm \in {"shell", "other"} : Execve(nm)
  BY <1>0, <1>7, ExecveTInv, Zenon
<1>8. CASE \E code \in ExitCodes : Exit(code)
  BY <1>0, <1>8, ExitTInv, TaskAssumption
<1>9. CASE \E p \in 1 .. PidLimit, code \in KillCodes : Kill(p, code)
  BY <1>0, <1>9, KillTInv, Zenon
<1>10. CASE Waitpid
  BY <1>0, <1>10, WaitTInv
<1>11. CASE Read \/ ReadReturns
  BY <1>0, <1>11, ReadTInv
<1> QED BY <1>1, <1>2, <1>3, <1>4, <1>5, <1>6, <1>7, <1>8, <1>9, <1>10, <1>11, Zenon DEF NextTrap

-----------------------------------------------------------------------------
(* The theorems of Trap *)

(* Registers, saved contexts and page tables stay what the process table,  *)
(* the trap path and enter_user rely on, whatever the timer interrupts.    *)
THEOREM TrapInvariance == TrapSpec => []TInv
<1>1. InitTrap => TInv
  BY InitTInv
<1>2. TInv /\ [NextTrap]_trapVars => TInv'
  BY NextTInv
<1> QED BY <1>1, <1>2, PTL DEF TrapSpec

(* The trap path implements the process operations: whatever the hart does *)
(* between them, the process table goes only through steps of Task, so     *)
(* every theorem on Task holds of Trap.                                    *)
THEOREM TrapImplementsTask == TrapSpec => Spec
<1>1. InitTrap => Init
  BY DEF InitTrap
<1>2. [NextTrap]_trapVars => [Next]_vars
  BY TrapStepIsTaskStep
<1> QED BY <1>1, <1>2, PTL DEF TrapSpec, Spec

(* Nothing leaves interrupts off for good: outside kernel_main before      *)
(* local_irq_enable the timer can always preempt (executeSRET, the status  *)
(* words of task_create and sys_fork).                                     *)
THEOREM AlwaysPreemptible == TrapSpec => []TimerCanPreempt
<1>1. TInv => TimerCanPreempt
  BY DEF TInv, OnCpu, AtBoot, Sound, View, TimerCanPreempt, TimerEnabled
<1> QED BY <1>1, TrapInvariance, PTL

(* The next trap uses the kernel stack of the task on the CPU (trap_entry, *)
(* task_prepare_trap_return, enter_user).                                  *)
THEOREM TrapsUseOwnStack == TrapSpec => []OwnKernelStack
<1>1. TInv => OwnKernelStack
  BY DEF TInv, OnCpu, AtBoot, Sound, View, OwnKernelStack
<1> QED BY <1>1, TrapInvariance, PTL

(* No two tasks share a page table, a program runs on its own, and no      *)
(* context that may be restored names one that was given back              *)
(* (user_execve, user_space_destroy, restore_trap_context).                *)
THEOREM SpacesNotShared == TrapSpec => []OwnAddressSpace
<1>1. TInv => OwnAddressSpace
  <2> SUFFICES ASSUME TInv PROVE OwnAddressSpace
    OBVIOUS
  <2>1. IInv /\ current \in Slots
    BY TInvParts
  <2>2. OnCpu /\ Saved /\ RootsDistinct /\ cpu.satp \in {Kernel, root[current]}
    BY DEF TInv, OnCpu
  <2>3. cpu.mode = "U" => cpu.satp = root[current] /\ cpu.satp # Kernel
    BY <2>2 DEF OnCpu, AtBoot, Sound, View
  <2>4. \A s \in Ready(state) : trap_ctx[s].satp \in {Kernel, root[s]}
    <3> SUFFICES ASSUME NEW s \in Ready(state)
                 PROVE  trap_ctx[s].satp \in {Kernel, root[s]}
      OBVIOUS
    <3>2. s \in Switchable
      BY <2>1 DEF Ready, Switchable, IInv, CurrentRuns
    <3>3. left[s] = Resumed(trap_ctx[s]) /\ Sound(root[s], s, left[s])
      BY <2>2, <3>2 DEF Saved
    <3>4. left[s].satp = trap_ctx[s].satp
      BY <3>3 DEF Resumed
    <3> QED BY <3>3, <3>4 DEF Sound
  <2> QED BY <2>2, <2>3, <2>4 DEF RootsDistinct, OwnAddressSpace
<1> QED BY <1>1, TrapInvariance, PTL

(* A task that gets the CPU back sees what it saw when it lost it: place,  *)
(* mode, stack, address space and interrupt enable survive trap entry,     *)
(* switch_from_trap and sret.                                              *)
THEOREM SwitchIsExact == TrapSpec => ResumeExact
<1>1. TInv /\ [NextTrap]_trapVars
        => [current' # current => View(cpu') = left[current']]_trapVars
  BY NextTInv DEF Resumes
<1> QED BY <1>1, TrapInvariance, PTL DEF TrapSpec, ResumeExact
=============================================================================
