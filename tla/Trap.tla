-------------------------------- MODULE Trap --------------------------------
(***************************************************************************)
(* How a trap moves the CPU from one task to another and into user mode.   *)
(* The module joins the process operations of Task with the registers they *)
(* work on: the privileged state of the emulated hart (cemu/src/cpu.cpp,   *)
(* csr.cpp, executeSRET), the saved contexts and kernel stacks of the      *)
(* tasks (os/kernel/task.c, trap.S), and the roots of their page tables    *)
(* (os/kernel/user.c).  Every step of Task is taken together with what it  *)
(* does to the hart; the kernel thread that becomes the shell is followed  *)
(* one CSR access at a time, because the timer may interrupt it anywhere.  *)
(*                                                                         *)
(* Data is kept to what tells contexts apart: pc is a place in the code,   *)
(* sp the slot whose kernel stack it points into or UserStack (it stands   *)
(* for all general registers), satp the root of an address space.          *)
(***************************************************************************)
EXTENDS Task

VARIABLES cpu,       \* pc, mode and CSRs of the hart, as the running code sees them
          trap_ctx,  \* tasks[s].trap_ctx
          root,      \* tasks[s].address_space.root; Kernel while it has no user space
          left       \* history: what each task saw when it last left the CPU

hartVars == <<cpu, trap_ctx, root, left>>
trapVars == <<vars, hartVars>>

UserStack == -1
Kernel == 0                             \* kernel_l2, the page table of kernel threads
Spaces == 1 .. MaxTasks + 1             \* roots kalloc can hand out
FreshSpace == Lowest(Spaces \ {root[s] : s \in Slots})

(* Places of kernel code: kernel_main before and after local_irq_enable,   *)
(* then user_task_entry: loading, and each later access to a CSR or to     *)
(* trap_ctx in user_init and enter_user.                                   *)
Steps == {"satp", "regs", "epc", "status", "sepc", "sscratch", "sp", "sret"}
KernelPlaces == {"boot", "idle", "load", "spin", "trap_entry_m"} \cup Steps
UserPlaces == {"entry", "user"}

(* What the task on the CPU sees of a hart in state c. *)
View(c) == [mode |-> c.mode, pc |-> c.pc, sp |-> c.sp, satp |-> c.satp, sie |-> c.sie]

InitTrap ==
  /\ Init
  /\ cpu = [mode |-> "S", pc |-> "boot", sp |-> Idle, satp |-> Kernel, sscratch |-> Idle,
            sie |-> FALSE, spie |-> FALSE, spp |-> "U", sepc |-> "boot"]
  /\ trap_ctx = [s \in Slots |-> [epc |-> "boot", sp |-> s, satp |-> Kernel,
                                  sie |-> FALSE, spie |-> FALSE, spp |-> "S"]]
  /\ root = [s \in Slots |-> Kernel]
  /\ left = [s \in Slots |-> View(cpu)]

-----------------------------------------------------------------------------
(* The hart *)

(* Cpu::handle_interrupt, for an interrupt delegated to S-mode *)
handle_interrupt(c) ==
  [c EXCEPT !.mode = "S", !.sepc = c.pc, !.spie = c.sie, !.sie = FALSE, !.spp = c.mode]

(* Cpu::handle_exception, for the ecalls start.S delegates *)
handle_exception(c) ==
  [c EXCEPT !.mode = "S", !.sepc = c.pc, !.spie = c.sie, !.sie = FALSE, !.spp = c.mode]

executeSRET_KeepSIE(c) ==               \* mutant: SIE is not restored from SPIE
  [c EXCEPT !.mode = c.spp, !.spie = TRUE, !.spp = "U", !.pc = c.sepc]

executeSRET(c) ==
  [c EXCEPT !.mode = c.spp, !.sie = c.spie, !.spie = TRUE, !.spp = "U", !.pc = c.sepc]

(* Cpu::check_pending_interrupts for the timer: outside M-mode SIE decides *)
TimerEnabled == cpu.mode # "M" /\ cpu.sie

-----------------------------------------------------------------------------
(* The trap path of the kernel *)

(* A trap from U-mode swaps sp and sscratch to get onto the kernel stack.  *)
trap_entry(c) == IF c.spp = "U" THEN [c EXCEPT !.sscratch = UserStack] ELSE c

save_trap_context(c) ==
  [epc |-> c.sepc, sp |-> c.sp, satp |-> c.satp,
   sie |-> c.sie, spie |-> c.spie, spp |-> c.spp]

restore_trap_context_NoStatus(c, x) ==  \* mutant: sstatus is not restored
  [c EXCEPT !.sepc = x.epc, !.sp = x.sp, !.satp = x.satp, !.sscratch = current']

restore_trap_context(c, x) ==
  [c EXCEPT !.sepc = x.epc, !.sp = x.sp, !.satp = x.satp, !.sscratch = current',
            !.sie = x.sie, !.spie = x.spie, !.spp = x.spp]

TrapReturn_StaleScratch(c) == executeSRET(c)  \* mutant: sscratch is left alone

(* task_prepare_trap_return and the end of trap_entry; current' is on the  *)
(* CPU.                                                                    *)
TrapReturn(c) == executeSRET([c EXCEPT !.sscratch = current'])

(* switch_from_trap, c being the hart inside the handler.  The context of  *)
(* current is saved even when the scheduler then keeps it.                 *)
SwitchContext(c) ==
  /\ trap_ctx' = IF task_count > 1 THEN [trap_ctx EXCEPT ![current] = save_trap_context(c)]
                 ELSE trap_ctx
  /\ cpu' = TrapReturn(IF current' = current THEN c
                       ELSE restore_trap_context(c, trap_ctx'[current']))
  /\ left' = IF current' = current THEN left ELSE [left EXCEPT ![current] = View(cpu)]

(* A task that is reaped, or a fork that fails, gives its pages back       *)
(* (user_space_destroy).                                                   *)
Destroy(r) == [s \in Slots |-> IF state'[s] = "UNUSED" THEN Kernel ELSE r[s]]

Tick ==
  /\ TimerEnabled
  /\ TimerTick
  /\ SwitchContext(trap_entry(handle_interrupt(cpu)))
  /\ UNCHANGED root

(* The hart after an ecall from a program *)
Ecall == trap_entry(handle_exception(cpu))

InProgram == cpu.mode = "U" /\ cpu.pc \in UserPlaces

(* A system call that returns to its caller *)
Return ==
  /\ cpu' = TrapReturn([Ecall EXCEPT !.sepc = "user"])
  /\ UNCHANGED <<trap_ctx, left>>

(* sys_fork: the child's context is the caller's, in a space of its own.   *)
ForkContext_SharedSatp(space) ==        \* mutant: the child keeps the caller's satp
  [save_trap_context(Ecall) EXCEPT !.epc = "user", !.spp = "U"]

ForkContext(space) ==
  [save_trap_context(Ecall) EXCEPT !.epc = "user", !.spp = "U", !.satp = space]

Fork(ok) ==
  LET slot == Lowest(FreeSlots) IN
  /\ InProgram
  /\ SysFork(ok)
  /\ trap_ctx' = [trap_ctx EXCEPT ![slot] = ForkContext(FreshSpace)]
  /\ root' = Destroy([root EXCEPT ![slot] = FreshSpace])
  /\ left' = [left EXCEPT ![slot] = [View(cpu) EXCEPT !.pc = "user", !.satp = FreshSpace]]
  /\ cpu' = TrapReturn([Ecall EXCEPT !.sepc = "user"])

(* user_execve: the new space is active before the old one is destroyed.   *)
Execve(nm) ==
  /\ InProgram
  /\ SysExecve(nm)
  /\ root' = [root EXCEPT ![current] = FreshSpace]
  /\ trap_ctx' = [trap_ctx EXCEPT ![current].satp = FreshSpace]
  /\ cpu' = TrapReturn([Ecall EXCEPT !.satp = FreshSpace, !.sp = UserStack, !.sepc = "entry"])
  /\ UNCHANGED left

Exit(code) ==
  /\ InProgram
  /\ SysExit(code)
  /\ SwitchContext(Ecall)
  /\ UNCHANGED root

Kill(p, code) ==
  /\ InProgram
  /\ SysKill(p, code)
  /\ Return
  /\ UNCHANGED root

Waitpid ==
  /\ InProgram
  /\ \/ \E p \in WaitArgs, nohang \in BOOLEAN : SysWaitpid(p, nohang)
     \/ RestartWaitpid
  /\ IF state'[current] = "BLOCKED" THEN SwitchContext(Ecall) ELSE Return
  /\ root' = Destroy(root)

(* A console read polls inside the trap until Input. *)
Read ==
  /\ InProgram /\ SysReadConsole /\ UNCHANGED hartVars

ReadReturns ==
  /\ Input /\ Return /\ UNCHANGED root

-----------------------------------------------------------------------------
(* Kernel code outside traps *)

Goto(p) == [cpu EXCEPT !.pc = p]

(* start_shell: task_create prepares the context of user_task_entry.       *)
Boot(ok) ==
  LET slot == Lowest(FreeSlots) IN
  /\ StartShell(ok)
  /\ trap_ctx' = [trap_ctx EXCEPT ![slot] = [epc |-> "load", sp |-> slot, satp |-> cpu.satp,
                                             sie |-> cpu.sie, spie |-> TRUE, spp |-> "S"]]
  /\ left' = [left EXCEPT ![slot] = [mode |-> "S", pc |-> "load", sp |-> slot,
                                     satp |-> Kernel, sie |-> TRUE]]
  /\ UNCHANGED <<cpu, root>>

(* local_irq_enable in kernel_main *)
IrqEnable ==
  /\ cpu.pc = "boot" /\ cpu.mode = "S" /\ On
  /\ cpu' = [Goto("idle") EXCEPT !.sie = TRUE]
  /\ UNCHANGED <<vars, trap_ctx, root, left>>

(* user_task_entry, up to task_attach_address_space in user_init *)
Load(ok) ==
  /\ cpu.pc = "load" /\ cpu.mode = "S"
  /\ UserInit(ok)
  /\ IF ok THEN /\ root' = [root EXCEPT ![current] = FreshSpace]
                /\ trap_ctx' = [trap_ctx EXCEPT ![current].satp = FreshSpace]
                /\ cpu' = Goto("satp")
     ELSE cpu' = Goto("spin") /\ UNCHANGED <<trap_ctx, root>>
  /\ UNCHANGED left

(* The rest of user_init, then enter_user.  Interrupts are on.             *)
EnterUser ==
  /\ cpu.pc \in Steps /\ cpu.mode = "S"
  /\ cpu' = CASE cpu.pc = "satp"     -> [Goto("regs") EXCEPT !.satp = root[current]]
              [] cpu.pc = "regs"     -> Goto("epc")
              [] cpu.pc = "epc"      -> Goto("status")
              [] cpu.pc = "status"   -> [Goto("sepc") EXCEPT !.spp = "U", !.spie = TRUE]
              [] cpu.pc = "sepc"     -> [Goto("sscratch") EXCEPT !.sepc = trap_ctx[current].epc]
              [] cpu.pc = "sscratch" -> [Goto("sp") EXCEPT !.sscratch = current]
              [] cpu.pc = "sp"       -> [Goto("sret") EXCEPT !.sp = trap_ctx[current].sp]
              [] cpu.pc = "sret"     -> executeSRET(cpu)
  /\ trap_ctx' = CASE cpu.pc = "regs" -> [trap_ctx EXCEPT ![current].sp = UserStack]
                   [] cpu.pc = "epc"  -> [trap_ctx EXCEPT ![current].epc = "entry"]
                   [] OTHER           -> trap_ctx
  /\ UNCHANGED <<vars, root, left>>

(* The boot thread finds its shell dead. *)
ReapShell ==
  /\ cpu.pc = "idle" /\ cpu.mode = "S"
  /\ IdleReapsShell
  /\ root' = Destroy(root)
  /\ UNCHANGED <<cpu, trap_ctx, left>>

(* A program leaves its first instruction. *)
UserStep ==
  /\ InProgram /\ cpu.pc = "entry" /\ On /\ pending[current] = {}
  /\ cpu' = Goto("user")
  /\ UNCHANGED <<vars, trap_ctx, root, left>>

(* A page fault in U-mode (sure if pc is in the kernel) is an exception    *)
(* start.S does not delegate: it ends in the endless loop of trap_entry_m. *)
Fault ==
  /\ cpu.mode = "U" /\ On
  /\ cpu' = [cpu EXCEPT !.mode = "M", !.pc = "trap_entry_m"]
  /\ UNCHANGED <<vars, trap_ctx, root, left>>

Off == (halted \/ cpu.mode = "M") /\ UNCHANGED trapVars

NextTrap ==
  \/ \E ok \in BOOLEAN : Boot(ok) \/ Load(ok) \/ Fork(ok)
  \/ IrqEnable \/ EnterUser \/ ReapShell \/ UserStep \/ Fault \/ Off
  \/ Tick
  \/ \E nm \in {"shell", "other"} : Execve(nm)
  \/ \E code \in ExitCodes : Exit(code)
  \/ \E p \in 1 .. PidLimit, code \in KillCodes : Kill(p, code)
  \/ Waitpid \/ Read \/ ReadReturns

TrapSpec == InitTrap /\ [][NextTrap]_trapVars

-----------------------------------------------------------------------------
Contexts == [epc : KernelPlaces \cup UserPlaces, sp : Slots \cup {UserStack},
             satp : {Kernel} \cup Spaces, sie : BOOLEAN, spie : BOOLEAN, spp : {"S", "U"}]

Harts == [mode : {"M", "S", "U"}, pc : KernelPlaces \cup UserPlaces,
          sp : Slots \cup {UserStack}, satp : {Kernel} \cup Spaces,
          sscratch : Slots \cup {UserStack}, sie : BOOLEAN, spie : BOOLEAN,
          spp : {"S", "U"}, sepc : KernelPlaces \cup UserPlaces]

TrapTypeOK ==
  /\ cpu \in Harts
  /\ trap_ctx \in [Slots -> Contexts]
  /\ root \in [Slots -> {Kernel} \cup Spaces]

(* Nothing the kernel or a program does leaves interrupts off for good:    *)
(* outside the trap path the timer can always preempt (sret, the status    *)
(* words of task_create and fork).                                         *)
TimerCanPreempt == cpu.mode # "M" /\ cpu.pc # "boot" /\ ~halted => TimerEnabled

(* The next trap will use the kernel stack of the task on the CPU: a trap  *)
(* from U-mode takes it from sscratch, one from S-mode goes on with sp     *)
(* (trap_entry); only the last instruction of enter_user has sp on the     *)
(* user stack already.                                                     *)
OwnKernelStack ==
  /\ cpu.mode = "U" => cpu.sscratch = current
  /\ cpu.mode = "S" /\ cpu.pc # "sret" => cpu.sp = current

(* A program only ever runs in its own address space: no two tasks share a *)
(* page table, U-mode code runs on the one of current, and no context the  *)
(* scheduler can restore names a page table that has been given back       *)
(* (restore_trap_context, user_execve, user_space_destroy).                *)
OwnAddressSpace ==
  /\ \A s, t \in Slots : s # t /\ root[s] = root[t] => root[s] = Kernel
  /\ cpu.mode = "U" => cpu.satp = root[current] /\ cpu.satp # Kernel
  /\ cpu.satp \in {Kernel, root[current]}
  /\ \A s \in Ready(state) : trap_ctx[s].satp \in {Kernel, root[s]}

(* A task that gets the CPU back sees what it saw when it lost it, or, the *)
(* first time, what its creator prepared: place, mode, stack, address      *)
(* space and interrupt enable survive the trap entry, the switch and sret. *)
ResumeExact ==
  [][current' # current => View(cpu') = left[current']]_trapVars

(* What the status document says of enter_user: sret goes to the entry     *)
(* point of the program in U-mode.  Code of the kernel never runs in       *)
(* U-mode.                                                                 *)
UserEntersAtEntry == cpu.mode = "U" => cpu.pc \in UserPlaces
=============================================================================
