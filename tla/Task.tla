-------------------------------- MODULE Task --------------------------------
(***************************************************************************)
(* The life of MiniOS processes: the task table of os/kernel/task.c, the   *)
(* trap path that runs on it (os/kernel/trap.c), the process system calls  *)
(* (os/kernel/syscall.c) and the boot thread that starts the shell and     *)
(* waits for it (os/kernel/kernel.c).                                      *)
(*                                                                         *)
(* A trap clears SIE and the kernel sets it again only by sret, so on the  *)
(* single hart a system call or a timer tick is one step.  Any user        *)
(* program may make any sequence of calls.  Calls that fail without        *)
(* touching the table (a full table, a refused kill) are stuttering steps. *)
(***************************************************************************)
EXTENDS Sched

CONSTANTS PidLimit,   \* bound: the last pid the model hands out (INT_MAX in the code)
          ExitCodes   \* arguments of exit

InitFailCode == 127   \* task_exit(127) in user_task_entry
KillCodes == {137, 143}  \* 128 + SIGKILL, 128 + SIGTERM

ASSUME TaskAssumption ==
  /\ PidLimit \in Nat \ {0}
  /\ ExitCodes \subseteq Int

VARIABLES pid, ppid, exit_code, wait_target, has_user_space,
          name,       \* "shell" or "other": all that task_kill asks of a name
          pending,    \* {p}: the task's saved epc is a waitpid ecall its program made with p
          next_pid,
          shell_pid,  \* 0 before start_shell
          polling,    \* current is inside uart_getc, with interrupts off
          halted      \* TEST_FINISH was written: the machine is off

pcbVars == <<pid, ppid, exit_code, wait_target, has_user_space, name, pending>>
machVars == <<shell_pid, polling, halted>>
vars == <<schedVars, pcbVars, next_pid, machVars>>

WaitBlocked == -2                       \* TASK_WAIT_BLOCKED
WaitArgs == -1 .. PidLimit              \* arguments of waitpid
Live(s) == state[s] # "UNUSED"

Init ==                                 \* after task_init
  /\ state = [s \in Slots |-> IF s = Idle THEN "RUNNING" ELSE "UNUSED"]
  /\ ready_order = [s \in Slots |-> 0]
  /\ ticks_left = [s \in Slots |-> Quantum]
  /\ current = Idle
  /\ task_count = 1
  /\ pid = [s \in Slots |-> IF s = Idle THEN 0 ELSE -1]
  /\ ppid = [s \in Slots |-> -1]
  /\ exit_code = [s \in Slots |-> 0]
  /\ wait_target = [s \in Slots |-> 0]
  /\ has_user_space = [s \in Slots |-> FALSE]
  /\ name = [s \in Slots |-> "other"]
  /\ pending = [s \in Slots |-> {}]
  /\ next_pid = 1
  /\ shell_pid = 0
  /\ polling = FALSE
  /\ halted = FALSE

-----------------------------------------------------------------------------
(* Creating tasks *)

FreeSlots == {s \in Slots \ {Idle} : state[s] = "UNUSED"}

NewPid == next_pid

CountAfterCreate(ok) == IF ok THEN task_count + 1 ELSE task_count

(* The part task_create and task_fork_from_trap share: fill the lowest     *)
(* free slot.  ok is the result of minifs_process_init / _fork; a failure  *)
(* gives the slot back but not the pid.                                    *)
NewTask(user, nm, ok) ==
  LET slot == Lowest(FreeSlots) IN
  /\ task_count < MaxTasks
  /\ FreeSlots # {}
  /\ next_pid <= PidLimit
  /\ pid' = [pid EXCEPT ![slot] = NewPid]
  /\ next_pid' = next_pid + 1
  /\ ppid' = [ppid EXCEPT ![slot] = pid[current]]
  /\ exit_code' = [exit_code EXCEPT ![slot] = 0]
  /\ wait_target' = [wait_target EXCEPT ![slot] = -1]
  /\ ticks_left' = [ticks_left EXCEPT ![slot] = Quantum]
  /\ has_user_space' = [has_user_space EXCEPT ![slot] = user /\ ok]
  /\ name' = [name EXCEPT ![slot] = nm]
  /\ pending' = [pending EXCEPT ![slot] = {}]
  /\ IF ok
     THEN /\ state' = [state EXCEPT ![slot] = "READY"]
          /\ ready_order' = EnterReady(ready_order, state, slot)
     ELSE UNCHANGED <<state, ready_order>>
  /\ task_count' = CountAfterCreate(ok)
  /\ UNCHANGED current

(* start_shell, with interrupts disabled; a failure halts the machine. *)
StartShell(ok) ==
  /\ shell_pid = 0 /\ ~halted
  /\ NewTask(FALSE, "shell", ok)
  /\ shell_pid' = IF ok THEN NewPid ELSE 0
  /\ halted' = ~ok
  /\ UNCHANGED polling

-----------------------------------------------------------------------------
(* Ending tasks *)

find_pid(p) ==
  LET match == {s \in Slots : Live(s) /\ pid[s] = p}
  IN  IF match = {} THEN {} ELSE {Lowest(match)}

WokenBy_TargetOnly(z) ==                \* mutant: wait_target < 0 forgotten
  {p \in find_pid(ppid[z]) : state[p] = "BLOCKED" /\ wait_target[p] = pid[z]}

(* The parents task_exit and task_kill wake when slot z becomes a zombie. *)
WokenBy(z) ==
  {p \in find_pid(ppid[z]) : /\ state[p] = "BLOCKED"
                             /\ wait_target[p] < 0 \/ wait_target[p] = pid[z]}

AfterDeath(z) ==
  [s \in Slots |-> IF s = z THEN "ZOMBIE"
                   ELSE IF s \in WokenBy(z) THEN "READY" ELSE state[s]]

OrderAfterDeath(z) ==
  LET ord == LeaveReady(ready_order, z)
      st  == [state EXCEPT ![z] = "ZOMBIE"]
  IN  [s \in Slots |-> IF s \in WokenBy(z) THEN EnterReady(ord, st, s)[s] ELSE ord[s]]

Reparent_AliveOnly(z) ==                \* mutant: dead children are not adopted
  [s \in Slots |-> IF /\ s # Idle /\ Live(s) /\ ppid[s] = pid[z]
                      /\ state[s] # "ZOMBIE"
                   THEN 0 ELSE ppid[s]]

(* Children of z, zombies included, become children of pid 0. *)
Reparent(z) ==
  [s \in Slots |-> IF s # Idle /\ Live(s) /\ ppid[s] = pid[z] THEN 0 ELSE ppid[s]]

(* What task_exit and task_kill do to the rest of the table. *)
Die(z, code) ==
  /\ exit_code' = [exit_code EXCEPT ![z] = code]
  /\ ppid' = Reparent(z)
  /\ UNCHANGED <<pid, wait_target, has_user_space, name, pending, next_pid, task_count>>

(* Reaping in task_waitpid: the slot of zombie c is free again. *)
Reap(c) ==
  /\ state' = [state EXCEPT ![c] = "UNUSED"]
  /\ pid' = [pid EXCEPT ![c] = -1]
  /\ ppid' = [ppid EXCEPT ![c] = -1]
  /\ has_user_space' = [has_user_space EXCEPT ![c] = FALSE]
  /\ name' = [name EXCEPT ![c] = "other"]
  /\ task_count' = task_count - 1
  /\ UNCHANGED <<ready_order, ticks_left, current, exit_code, wait_target, next_pid>>

-----------------------------------------------------------------------------
(* The trap path *)

On == ~halted /\ ~polling /\ shell_pid # 0

(* IRQ 5: timer_handle, sched_tick.  A tick can also strike a task that    *)
(* left itself ZOMBIE without a trap (UserInit).                           *)
TimerTick ==
  /\ On
  /\ sched_tick(state, ready_order)
  /\ UNCHANGED <<task_count, pcbVars, next_pid, machVars>>

(* current is a program in U-mode ... *)
InUser == On /\ current # Idle /\ state[current] = "RUNNING" /\ has_user_space[current]

(* ... that is not back at the ecall of a waitpid that blocked. *)
Calls == InUser /\ pending[current] = {}

SysFork(ok) ==
  /\ Calls
  /\ NewTask(TRUE, "other", ok)
  /\ UNCHANGED machVars

SysExit(code) ==
  /\ Calls
  /\ Die(current, code)
  /\ task_reschedule(AfterDeath(current), OrderAfterDeath(current))
  /\ UNCHANGED machVars

Killable_Dead(z) == z # Idle /\ z # current /\ name[z] # "shell"  \* mutant: no ZOMBIE test
Killable(z) == z # Idle /\ z # current /\ state[z] # "ZOMBIE" /\ name[z] # "shell"

SysKill(p, code) ==
  \E z \in find_pid(p) :
    /\ Calls
    /\ Killable(z)
    /\ Die(z, code)
    /\ state' = AfterDeath(z)
    /\ ready_order' = OrderAfterDeath(z)
    /\ UNCHANGED <<ticks_left, current, machVars>>

Children_AnyParent(p) ==                \* mutant: the ppid test is missing
  {c \in Slots \ {Idle} : Live(c) /\ c # current /\ (p > 0 => pid[c] = p)}

(* The children a waitpid(p) of current looks at, and those it may reap. *)
Children(p) ==
  {c \in Slots \ {Idle} : Live(c) /\ ppid[c] = pid[current] /\ (p > 0 => pid[c] = p)}

Zombies(p) == {c \in Children(p) : state[c] = "ZOMBIE"}

(* task_waitpid finds a zombie. *)
WaitReaps(p) ==
  /\ Reap(Lowest(Zombies(p)))
  /\ pending' = [pending EXCEPT ![current] = {}]

(* task_waitpid blocks the caller.  The system call stores -2 in a0 and    *)
(* trap_handler reschedules without advancing epc: the program will make   *)
(* the call again, now with -2 as its pid.  Only when there is no task to  *)
(* switch to is epc advanced, and -2 returned.                             *)
WaitBlocks(p, arg) ==
  LET st == [state EXCEPT ![current] = "BLOCKED"] IN
  /\ wait_target' = [wait_target EXCEPT ![current] = p]
  /\ pending' = [pending EXCEPT ![current] = IF Switches(st) THEN {arg} ELSE {}]
  /\ task_reschedule(st, ready_order)
  /\ UNCHANGED <<task_count, pid, ppid, exit_code, has_user_space, name, next_pid>>

(* task_waitpid returns -1 (no such child) or 0 (WNOHANG). *)
WaitReturns ==
  /\ pending' = [pending EXCEPT ![current] = {}]
  /\ UNCHANGED <<schedVars, pid, ppid, exit_code, wait_target, has_user_space, name, next_pid>>

(* p is the pid in a0, arg the pid the program asked for. *)
task_waitpid(p, arg, nohang) ==
  /\ IF Zombies(p) # {} THEN WaitReaps(p)
     ELSE IF Children(p) # {} /\ ~nohang THEN WaitBlocks(p, arg)
     ELSE WaitReturns
  /\ UNCHANGED machVars

(* SYS_WAITPID, and SYS_WAIT, which is waitpid(-1). *)
SysWaitpid(p, nohang) == Calls /\ task_waitpid(p, p, nohang)

(* The ecall of a waitpid that blocked is executed again. *)
RestartWaitpid ==
  InUser /\ \E arg \in pending[current] : task_waitpid(WaitBlocked, arg, FALSE)

(* A successful execve names the process after its path. *)
SysExecve(nm) ==
  /\ Calls
  /\ name' = [name EXCEPT ![current] = nm]
  /\ UNCHANGED <<schedVars, pid, ppid, exit_code, wait_target, has_user_space,
                 pending, next_pid, machVars>>

(* sys_read on the console polls the UART inside the trap ... *)
SysReadConsole ==
  /\ Calls
  /\ polling' = TRUE
  /\ UNCHANGED <<schedVars, pcbVars, next_pid, shell_pid, halted>>

(* ... until a byte arrives. *)
Input ==
  /\ polling
  /\ polling' = FALSE
  /\ UNCHANGED <<schedVars, pcbVars, next_pid, shell_pid, halted>>

-----------------------------------------------------------------------------
(* Kernel threads *)

(* user_task_entry, the kernel thread that becomes the shell: user_init    *)
(* attaches an address space, or fails; then the thread exits without a    *)
(* trap and spins until the next tick.                                     *)
UserInit(ok) ==
  /\ On /\ current # Idle /\ state[current] = "RUNNING" /\ ~has_user_space[current]
  /\ IF ok
     THEN /\ has_user_space' = [has_user_space EXCEPT ![current] = TRUE]
          /\ UNCHANGED <<schedVars, pid, ppid, exit_code, wait_target, name, pending,
                         next_pid, machVars>>
     ELSE /\ Die(current, InitFailCode)
          /\ state' = AfterDeath(current)
          /\ ready_order' = OrderAfterDeath(current)
          /\ UNCHANGED <<ticks_left, current, machVars>>

(* The loop of kernel_main: waitpid(shell_pid, NULL, 1), then halt. *)
IdleReapsShell ==
  /\ On /\ current = Idle
  /\ Zombies(shell_pid) # {}
  /\ Reap(Lowest(Zombies(shell_pid)))
  /\ halted' = TRUE
  /\ UNCHANGED <<pending, shell_pid, polling>>

Halted == halted /\ UNCHANGED vars

Next ==
  \/ \E ok \in BOOLEAN : StartShell(ok)
  \/ TimerTick
  \/ \E ok \in BOOLEAN : SysFork(ok)
  \/ \E code \in ExitCodes : SysExit(code)
  \/ \E p \in 1 .. PidLimit, code \in KillCodes : SysKill(p, code)
  \/ \E p \in WaitArgs, nohang \in BOOLEAN : SysWaitpid(p, nohang)
  \/ RestartWaitpid
  \/ \E nm \in {"shell", "other"} : SysExecve(nm)
  \/ SysReadConsole
  \/ Input
  \/ \E ok \in BOOLEAN : UserInit(ok)
  \/ IdleReapsShell
  \/ Halted

Spec == Init /\ [][Next]_vars

(* The CLINT keeps the timer interrupt pending until it is taken, and a    *)
(* task that gets a time slice executes its next instructions in it.       *)
Fairness ==
  /\ WF_vars(\E ok \in BOOLEAN : StartShell(ok))
  /\ SF_vars(TimerTick)
  /\ SF_vars(IdleReapsShell)
  /\ \A s \in Slots : SF_vars(current = s /\ RestartWaitpid)

FairSpec == Spec /\ Fairness

-----------------------------------------------------------------------------
TypeOK ==
  /\ state \in [Slots -> States]
  /\ ready_order \in [Slots -> Nat]
  /\ ticks_left \in [Slots -> 1 .. Quantum]
  /\ current \in Slots
  /\ task_count \in Int
  /\ pid \in [Slots -> Int]
  /\ ppid \in [Slots -> Int]
  /\ exit_code \in [Slots -> Int]
  /\ wait_target \in [Slots -> Int]
  /\ has_user_space \in [Slots -> BOOLEAN]
  /\ name \in [Slots -> {"shell", "other"}]
  /\ pending \in [Slots -> SUBSET WaitArgs]
  /\ next_pid \in Nat \ {0}
  /\ shell_pid \in Nat
  /\ polling \in BOOLEAN
  /\ halted \in BOOLEAN

(* A trap always returns into a task that may run: current is the one      *)
(* RUNNING task, except that a kernel thread whose user_init failed spins  *)
(* as a ZOMBIE until the next tick; and the boot thread can always run, so *)
(* select_next finds a task whenever current has blocked or died           *)
(* (trap_handler, switch_from_trap).                                       *)
CurrentRuns ==
  /\ \A s \in Slots : state[s] = "RUNNING" => s = current
  /\ \/ state[current] = "RUNNING"
     \/ state[current] = "ZOMBIE" /\ ~has_user_space[current]
  /\ state[Idle] \in {"READY", "RUNNING"}

(* task_count, on which task_create, fork and the scheduler rely, is the   *)
(* number of used slots, failed forks included.                            *)
TaskCountExact == task_count = Cardinality({s \in Slots : Live(s)})

(* Pids identify tasks: no two used slots share a pid, and next_pid is     *)
(* fresh, even though a failed fork leaves its pid in a free slot.         *)
PidsDistinct ==
  /\ \A s \in Slots : pid[s] < next_pid
  /\ \A s, t \in Slots : Live(s) /\ Live(t) /\ pid[s] = pid[t] => s = t

(* Every task has a parent that can still wait for it (orphans are adopted *)
(* by pid 0), and parents are older than their children, so the family     *)
(* tree has no cycle and dump_tree_node terminates.                        *)
FamilyTree ==
  \A s \in Slots \ {Idle} : Live(s) =>
    /\ ppid[s] < pid[s]
    /\ \E t \in Slots : state[t] \notin {"UNUSED", "ZOMBIE"} /\ pid[t] = ppid[s]

IsChild(c, s) == c # Idle /\ Live(c) /\ ppid[c] = pid[s]
Wanted(c, s) == wait_target[s] > 0 => pid[c] = wait_target[s]

(* No wake-up is lost: a task blocked in waitpid has a child that can      *)
(* still die and wake it, and no child it waits for is dead already.       *)
(* (waitpid(0) is excepted, see WaitersWakeable.)                          *)
NoLostWakeup ==
  \A s \in Slots : state[s] = "BLOCKED" /\ wait_target[s] # 0 =>
    /\ \E c \in Slots : IsChild(c, s) /\ Wanted(c, s) /\ state[c] # "ZOMBIE"
    /\ \A c \in Slots : IsChild(c, s) /\ Wanted(c, s) => state[c] # "ZOMBIE"

(* A task that leaves a blocking waitpid does so for a reason: when it is  *)
(* runnable again a dead child is waiting for it, so the restarted call    *)
(* reaps and never blocks twice.                                           *)
WokenForZombie ==
  \A s \in Slots : pending[s] # {} /\ state[s] \in {"READY", "RUNNING"} =>
    \E c \in Slots : IsChild(c, s) /\ state[c] = "ZOMBIE"

(* A dead task keeps its identity and exit code until its parent reaps it; *)
(* no kill, exit or fork by anyone else disturbs it.                       *)
ZombiesKept ==
  [][\A c \in Slots : state[c] = "ZOMBIE" =>
       \/ state'[c] = "ZOMBIE" /\ pid'[c] = pid[c] /\ exit_code'[c] = exit_code[c]
       \/ state'[c] = "UNUSED" /\ ppid[c] = pid[current]]_vars

(* Under RR every READY task gets the CPU (or dies), whatever the others   *)
(* do, unless a console read holds it for ever with interrupts off.        *)
NoStarvation ==
  []<>~polling =>
    \A s \in Slots : (state[s] = "READY") ~> (state[s] # "READY" \/ halted)

(* When the shell exits the machine stops (kernel_main). *)
ShellExitHalts ==
  []<>~polling =>
    ((\E s \in Slots : state[s] = "ZOMBIE" /\ pid[s] = shell_pid) ~> halted)

(* A waitpid that was woken returns, unless its caller is killed. *)
WaitCompletes ==
  []<>~polling =>
    \A s \in Slots : (pending[s] # {} /\ state[s] = "READY") ~>
                      (pending[s] = {} \/ state[s] \in {"ZOMBIE", "UNUSED"} \/ halted)

(* What "orphans are taken over" by the boot thread is for: an adopted     *)
(* child that dies is reaped in the end.                                   *)
OrphansReaped ==
  []<>~polling =>
    \A s \in Slots : (state[s] = "ZOMBIE" /\ ppid[s] = pid[Idle] /\ pid[s] # shell_pid) ~>
                      (state[s] = "UNUSED" \/ halted)

(* What the callers of waitpid(pid) expect: a call for one child reaps     *)
(* that child and no other.                                                *)
WaitReapsRequested ==
  [][\A c \in Slots, p \in pending[current] :
       state[c] = "ZOMBIE" /\ state'[c] = "UNUSED" /\ p > 0 => pid[c] = p]_vars

(* What the documents say of waitpid: the death of a child it waits for    *)
(* wakes the parent.  For waitpid(0) the scan takes any child but the wake *)
(* test none.                                                              *)
WaitersWakeable ==
  \A s \in Slots : state[s] = "BLOCKED" =>
    ~ \E c \in Slots : IsChild(c, s) /\ Wanted(c, s) /\ state[c] = "ZOMBIE"
=============================================================================
