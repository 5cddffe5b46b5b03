# A TLA+ model of cemu and MiniOS

cemu is an RV64 emulator in C++ (`cemu/src`), MiniOS a small teaching operating
system in C that runs on it (`os`), with Python tools that build its disk image
(`tools`). This directory models the parts of both in which several things
happen at once, fail half way or share state, and the instruction set at its real
width. TLC checks the models on small instances; TLAPS proves the central
properties of processes, mutexes, open files, the shell, traps and console input
for all instances.

    tlc -workers 4 -config task_processes.cfg MCTask # any run: <name>.cfg with its MC module
    tlapm TaskProofs.tla                             # any *Proofs.tla

`PROJECT.json` lists components, runs, findings, hazards and theorems, and maps
each definition to the lines of source it stands for.

## The system

| part | source | state | operations |
|---|---|---|---|
| instructions | `instructions.cpp`, `cpu.cpp`, `bus.cpp`, `dram.cpp` | registers, pc, memory | decode, dispatch, execute, load, store |
| hart | `cpu.cpp`, `csr.cpp`, `clint.cpp`, `instructions.cpp` | mode, CSRs, timer | trap, sret, mret, CSR access, tick |
| MMU | `mmu.cpp` | page tables in memory | translate |
| UART | `uart.cpp` | receive register, listener thread | deliver, load, stop |
| block device | `block_device.cpp`, `block.c` | sectors | read, write |
| boot | `loader.c`, `install_kernel.py` | disk slot, memory | install, load, check, jump |
| scheduler | `task.c` | states, slices, ready order | tick, reschedule |
| processes | `task.c`, `syscall.c`, `trap.c`, `kernel.c` | 16 slots | create, fork, exec, exit, kill, waitpid |
| traps | `trap.S`, `trap.c`, `task.c`, `user.c` | saved contexts, kernel stacks, sscratch | enter, switch, return, enter user mode |
| synchronisation | `sync.c`, `task.c` | semaphores, mutexes, wait channels | wait, post, lock, trylock, unlock |
| memory | `mem.c`, `vm.c`, `user.c` | free list, address spaces, page tables | kalloc, kfree, create, map, clone, load, destroy, copy |
| descriptors | `minifs.c` | 64 open-file descriptions, 16 tables | open, close, dup2, unlink, fork, exec, exit |
| shell | `shell.c` | saved standard streams, children | redirect, fork, exec, wait |
| file system | `minifs.c` | bitmaps, inodes, blocks | open, read, write, lseek, mkdir, unlink, chdir, getcwd |

How they interact. There is one hart. A trap clears `sstatus.SIE` and the kernel
sets it again only by `sret`, so a system call or a timer tick is atomic with
respect to other tasks. Kernel threads (the boot thread, the thread that becomes
the shell, threads that use `sync.c`) run with interrupts on and can be preempted
between any two instructions. The boot thread is slot 0 and takes part in the
round-robin rotation; once the shell runs, it loops in `task_waitpid(shell)` and
powers the machine off when the shell is gone. cemu itself has two host threads
that meet in the UART.

The hard behaviours are therefore: preemption of kernel threads outside
interrupt-off regions; the waitpid call that blocks and is executed again;
deaths, kills and adoption while someone waits; contexts, stacks and page tables
over switches; allocations that fail half way, on pages that come back as page
tables; descriptors shared over fork while the shell redirects its own; sector
writes cut off by a power failure; bytes handed over between threads;
traps of two privilege levels that share `mstatus`. `PROJECT.json` lists them as
hazards with the line where each bites.

## Modules

Every specification has an `MC` module that supplies only values of constants.

| module | models | main abstractions |
|---|---|---|
| `Sched` | policies, ticks, the switch decision | `order_counter` as a rank: only the order of stamps is kept |
| `Task` (extends `Sched`) | task table, process calls, boot thread | pids up to `PidLimit`; a name is "shell" or "other"; calls that fail without effect stutter |
| `Trap` (extends `Task`) | the registers each step of `Task` works on | pc is a place in the code, sp the stack it points into |
| `Sync` (extends `Sched`) | semaphores and mutexes under preemption | one mutex, one semaphore; an interrupt-off region is a step |
| `Fds` | open files and descriptors | flat directory, no contents |
| `Shell` (extends `Fds`) | the shell, its children and their programs, one system call a step | a line is taken as parsed: kind and redirected names |
| `MiniFS` | the disk, down to the order of sector writes | a sector is a few slots of words; data is marked with its file |
| `Vm` | allocator, address spaces and page tables, composed with `Mmu::translate` | a word of memory is what it means as a page-table entry; no A/D bits; addresses below 2^39 |
| `Words` | 64-bit words and their arithmetic | none: a word is the set of its one bits |
| `Encoding`, `RV64I` | instruction formats and the meaning of each instruction, from the architecture | what cemu promises to implement |
| `Isa` | decoding, dispatch and execution in cemu, bus and DRAM | one instruction in M-mode without translation |
| `Hart` | traps, interrupts, delegation, returns | programs choose any legal action; the timer counts down |
| `Stream`, `Uart` | what console input promises, and the device that implements it | the input is a finite sequence |
| `Boot` | installer, loader, damaged and interrupted images | sectors of two small bytes; the additive checksum is kept |

`Trap` joins each action of `Task` with its effect on the hart, so nothing about
processes is stated twice. `Shell` composes the code of the shell with the calls
of `Fds` in the same way: each of its steps is one call together with where the
caller goes next. `Fds` and `MiniFS` share the calls of `minifs.c`: sharing and
counting in one, contents and layout in the other. `Vm` contains both sides of the
page tables, the kernel that writes them and the MMU that reads them, over one
memory from one allocator. Definitions whose
name ends in `_Something` and whose comment begins with "mutant" are plausible
mistakes in the definition that follows; they are used only to check that each
property notices one.

## Runs that hold

| run | instance | what it shows |
|---|---|---|
| `task_processes` | 4 slots, 3 pids, slices of 1 | every task has a parent that can reap it, wake-ups of waitpid are not lost, zombies are kept; no READY task starves, a woken waitpid returns, the exit of the shell stops the machine |
| `trap_safety` | 3 slots, slices of 2 | a task resumes with its own place, mode, stack and page table; the timer can preempt |
| `sync_safety` | 3 threads, semaphore up to 1 | mutual exclusion; blocked threads are on their channel and nobody else is |
| `shell_fds` | shell and 2 children, 6 descriptors, 6 open files, 1 inode for 2 names | exact reference counts; open files are linked; the prompt comes back with the shell's own streams; a program starts with the streams asked for |
| `minifs_crash` | 3 inodes, 3 blocks of two slots | power cuts, holes, reuse of blocks and removed working directories leave valid entries, single owners and files that show only their own contents |
| `minifs_tree` | 4 inodes, 4 blocks of one slot | inodes form a tree, getcwd and resolve agree, space is lost only when full, a call changes one file or directory |
| `vm_spaces` | 2 spaces, 13 frames, 4 programs | every page is in one place, whichever allocation fails; the MMU gives a process what the kernel lists and the kernel its memory under every table; a step changes one process's view; fork copies |
| `isa` | 9 x 9 operand values, every instruction with equal, distinct and zero registers, immediates at the ends of their fields | every instruction but those listed below is a step of `RV64I` |
| `hart_traps` | 4 delegations, timer and external lines | handlers nest, returns are exact, S-mode is confined |
| `uart_stream` | 3 bytes | implements `Stream`; every byte arrives; an awake listener is joined |
| `boot_kernel` | slot of 3 sectors, 6 kernels | only a whole kernel is entered; files of old images are kept |

`TypeOK` of a module (`TrapTypeOK` in `Trap`) is a type invariant of its run's
instance too; add it as an `INVARIANT` when a definition changes. `CurrentRuns`,
`TaskCountExact`, `PidsDistinct` and `HolderIsOwner` are proved (below) and left out
of the runs.

Why the bounds are enough. Three processes besides the boot thread give a
parent, a child and a third party that kills, is adopted or competes for the
CPU, and a slot is used again after a reap. Slices of two ticks, in
`trap_safety`, separate "slice used" from "slice left". Three threads are the least
with one holder and two waiters. Heaps and disks are small enough for every
allocation to be the one that fails, and large enough for all to succeed. Each
slot, block or frame is reused within a run. In `shell_fds` the two saved streams
are the two highest descriptors, as 14 and 15 are in the shell; three standard
ones and one more leave room for exactly one redirection at a time, six open
files run out when two processes redirect, and the one inode makes a creation
fail. In `isa` the operands are the values at which sign, carry, 32-bit
truncation and the ends of memory change a result; each instruction is a
function of one state, so depth adds nothing. The named bounds are constants with
a comment in the module that declares them.

`uart_stream` and `hart_traps` do not check deadlock: the emulator ends, by the
destructor or by a fatal exception. `vm_spaces` takes the reaping of the shell by
the boot thread as undisturbed (`QuietSpec`): it is short against a slice, and
`pages_race` shows what a tick inside it does.

Symmetry is used for pids and names in `shell_fds` and for names in `minifs_tree`,
which have no liveness.

## Fairness

- `Task`: strong fairness of the timer tick (the comparator fires again and
  again, and a tick is taken as soon as interrupts are on), of the boot thread's
  loop and of a restarted waitpid (code that runs when its task has the CPU), weak
  fairness of starting the shell. Nothing is assumed of user programs: in
  particular a console read may poll for ever, and `NoStarvation` says so.
- `Sync`: the timer, and each thread's progress inside a call or the mutex. Used
  by `sync_lost_wakeup` and `sync_woken_stuck`.
- `Uart`: the host schedules both threads; the main thread may find the mutex
  taken again and again, hence strong fairness for it.

## Where code and text disagree

Each configuration below checks one property that a document or a comment states,
and TLC finds it violated by what the code does. `sync_lost_wakeup` is listed as a
run and a finding; the others are kept beside it and are run the same way. The
properties of the passing runs say where the guarantee ends: `NoLostWakeup`
excludes waitpid(0), `JoinsAwakeListener` a listener about to sleep,
`vm_spaces` a switch inside kfree, and `isa` the instructions listed below.

| configuration | what happens | what it contradicts |
|---|---|---|
| `task_wait_requested` | a restarted waitpid(pid) reads its own result -2 as pid and reaps any child | `docs/03_logs/development_log.md:400`: the program sees -2 and repeats the call itself |
| `task_wait_zero` | waitpid(0) blocks for any child, and no death wakes it | `docs/02_reports/course_design/requirement_check.md:269`: waking the parent is implemented |
| `task_orphans` | orphans given to pid 0 are never reaped | `requirement_check.md:269`: zombies and their address spaces are reaped |
| `sync_lost_wakeup` | a post between the test of sem_wait and task_block is missed | `docs/02_reports/course_design/assets/build_progress_report.py:329`: blocking and waking lose nothing |
| `sync_woken_stuck` | a thread woken inside task_block repeats its ecall for ever | the same line |
| `trap_enter_user` | a tick in enter_user makes sret go to a kernel address in U-mode | `docs/00_overview/current_status.md:240`: sret switches to the user entry |
| `pages_race` | a switch inside kfree puts a page into two address spaces | `docs/02_reports/course_design/report_enhanced.md:385`: every process has its own address space |
| `uart_stop` | the notification of the destructor is lost and join never returns | `development_log.md:838`: the thread ends within 100 ms |
| `hart_machine` | M-mode takes interrupts that are delegated | comment at `cemu/src/cpu.cpp:177` |
| `hart_mprv` | mret to M-mode clears MPRV | comment at `cemu/src/instructions.cpp:645` |
| `isa_documented` | the instructions below do something else | `cemu/README.md:9`: RV64I is emulated; `docs/00_overview/current_status.md:268`, `:277`, `:281` list them |

The instructions that deviate from `RV64I`, and are left out of `isa`:

- SLTI compares its operands as unsigned; SLTIU takes its immediate as 32 bits
  without sign extension to 64.
- CSRRSI sets bit number rs1 instead of the bits of the immediate; CSRRCI
  also clears bits 32 and above.
- CSRRS and CSRRC with rd = rs1 use the old value of the CSR as mask, because
  `regs[rd]` is assigned before `regs[rs1]` is read.
- The word of EBREAK is dispatched to ECALL, and that of WFI to SRET
  (`current_status.md:474` describes WFI as a NOP).

Words of the M extension (funct7 = 1), which is not promised, run as the base
instruction with the same funct3, because the lookup falls back to funct6.

## Proofs

Each module of proofs extends the component it is about. The assumptions are those
named in the components: at least two slots, a positive quantum and a known
policy (`SchedAssumption`); finite sizes of the tables (`FdsAssumption`); the
shape of commands and the place of the saved streams (`ShellAssumption`); sets of
known interrupts and causes (`HartAssumption`); an input that is a sequence
(`InputAssumption`). Otherwise the constants are arbitrary.

`SchedProofs` states what the scheduler gives to its callers: `select_next`
returns a READY task if there is one (by least elements of sets of naturals), and
a switch only exchanges READY and RUNNING and leaves one task RUNNING.

`TaskSteps` and `TaskProofs` prove `TypeOK`, `CurrentRuns`, `TaskCountExact`, `PidsDistinct`,
`FamilyTree`, `NoLostWakeup`, `WokenForZombie` and the action property
`ZombiesKept`. None of the invariants is inductive alone, so `IInv` is their
conjunction with two facts: the boot thread is the only task with pid 0 and never
waits (`BootThread`), and it has the CPU until it has started the shell
(`MachOK`). They need each other: a woken waiter finds its zombie because pids
are distinct and zombies stay; zombies stay because a parent exists; a parent
exists because the boot thread does. A step creates, kills, reaps, blocks,
switches or does none of these; there is one lemma per kind (in `TaskSteps` those
that leave the CPU where it is), and the lemma about `Next` assigns each action to
kinds.

`SyncProofs` proves `MutualExclusion` and `HolderIsOwner` by `MInv`, which speaks
only of places, values and owner and so does not depend on the scheduler: the
value of the mutex is 0 exactly while some thread is between its decrement and
its increment, and at most one is. `BInv` adds the scheduler's state for
`BlockedOnChannel` and `TypeOK`.

`FdsProofs` proves `RefsExact` and `OpenFilesLinked`. A count is the cardinality of
the set of (table, descriptor) pairs that name an open file; the lemmas on
counting say how it changes when one descriptor changes, when a table is copied
and when several of its descriptors are closed. The invariant `Counted` adds that
a free table holds no descriptors: fork and process_init take a free table
without looking into it, so a descriptor left there would be overwritten and its
reference never given back. `Linked` then follows the inode of each counted file
through open, unlink and the reuse of an open-file description.

`ShellProofs` shows that the shell only uses `Fds` as `Fds` allows
(`ShellUsesFds`: the composition implements the component, with the component's
own variables), and so inherits both theorems. Its invariant says that
what a process redirects are names.

`HartProofs` proves the four properties of `hart_traps` for every delegation,
set of lines and interval. The invariant `HInv` describes the stack of interrupted
contexts completely: it is empty, one supervisor handler, one machine handler,
or a machine handler above a supervisor handler; the registers of each level hold
the context of its handler, and its enable is off. The last is what makes a
second entry to the same level impossible; that registers of the two levels are
disjoint fields of one `mstatus` is what makes the returns exact.

`UartProofs` proves `ImplementsStream`: for every input and every interleaving, the
listener, the register and the driver implement `Stream`. The bytes left in the
stream are the register, if full, the byte the listener has taken, and stdin, in
that order. The invariant says that the listener fills only an empty register
while the machine runs, and that the driver reads only a full one; each step then
moves a byte between neighbours or delivers the first.

Only model-checked: `Trap`, `MiniFS`, `Vm`, `Boot` and `Isa`, `CleanPrompt` and
`StreamsAsAsked` of `Shell`, and every liveness property (TLAPS proves neither
liveness under fairness nor ENABLED, nor what recursive definitions compute).

## Not modelled

- The PLIC: four registers that no device raises and no kernel code claims.
- The register protocol of the block device: the kernel drives it with interrupts
  off and the device answers inside the store, so a sector access is one step in
  `MiniFS` and `Boot`. Device errors inside a file-system call are left out;
  reads that fail are in `Boot`.
- The parser of the shell (`read_line`, `next_word`, `parse_command`), the other user
  programs and the C library: sequential functions of their input. Processes may
  make any sequence of calls.
- printk, strings, RAMFS and boot diagnostics: formatting, or code no program
  reaches.
- `yield()`, `switch.S`, `task_wake_all`: without callers.
- ELF headers: a program is what its segments map. Power cuts in unlink and
  O_TRUNC, whose recovery `docs/01_design/minifs_v2_elf.md` excludes. User page
  faults, which the kernel does not handle.
- Execution of several instructions in a row, and of instructions under
  translation: `Isa` gives one instruction, `Hart` its traps, `Vm` its addresses.
  Shift counts of 64 and more in SLL, SRL and SRA, and signed overflow in ADDW and
  SUBW, take the result of the x86-64 build.
