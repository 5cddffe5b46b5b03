--------------------------------- MODULE Vm ---------------------------------
(***************************************************************************)
(* Memory: the page allocator (os/kernel/mem.c), the page tables MiniOS    *)
(* builds from its pages (vm_init in os/kernel/vm.c, the address spaces of *)
(* os/kernel/user.c, as fork, execve, waitpid and the boot thread use      *)
(* them) and the Sv39 walk of the emulator that reads the tables           *)
(* (cemu/src/mmu.cpp).                                                     *)
(*                                                                         *)
(* System calls run with interrupts off, so each is one step; the boot     *)
(* thread reaps the shell with interrupts on and is followed inside kfree. *)
(*                                                                         *)
(* Memory is a function from frames of DRAM to their words.  A word is     *)
(* modelled by what it means as a page-table entry, because any page may   *)
(* come back from the allocator as a table; only the indices in Index are  *)
(* kept.  The accessed and dirty bits, which nothing reads, are left out.  *)
(* A virtual address is << vpn2, vpn1, vpn0 >>, below 2^39.                *)
(***************************************************************************)
EXTENDS Integers, Sequences, SequencesExt, FiniteSetsExt

CONSTANTS Frames,     \* frames of the heap
          Spaces,     \* slots of the task table, without the boot thread's
          Shell,      \* the slot of the shell
          UserPages,  \* vpn0 of the pages that programs map
          StackPages, \* vpn0 of the user stack
          Programs,   \* records: entry (vpn0), maps (sequence of [vpn, flags])
          Words,      \* indices of the words that programs and copies write
          MaxPages    \* USER_MAX_PAGES

Finish == 256         \* vpn0 of TEST_FINISH, 0x100000
UartVpn1 == 128       \* vpn1 of the UART, 0x10000000
UserMin == 16         \* vpn0 of USER_MIN_VA; vpn0 of USER_STACK_TOP is 512

ASSUME VmAssumption ==
  /\ Frames \in Nat /\ MaxPages \in Nat /\ Shell \in Spaces
  /\ UserPages \cup StackPages \subseteq UserMin .. 511
  /\ Words \subseteq UserPages
  /\ \A p \in Programs : p.entry \in UserPages

VARIABLES mem,        \* frame -> index -> entry
          free_list,  \* the linked list, first page first
          bump,       \* pages the bump allocator has handed out
          total_free,
          space,      \* struct task_address_space of each slot
          reaping,    \* pages of the shell the boot thread has still to free
          saved,      \* << head >>: inside kfree, which has read free_list
          halted

heapVars == <<free_list, bump, total_free>>
bootVars == <<reaping, saved, halted>>
vars == <<mem, heapVars, space, bootVars>>

Index == {0, 2, UartVpn1, Finish} \cup UserPages \cup StackPages
KernelL2 == 1
KernelL1Dram == 2
KernelL1Mmio == 3
Heap == 4 .. Frames + 3
Null == 0
Perms == {"R", "W", "X"}

PTE(ppn, flags) == [ppn |-> ppn, flags |-> flags]
Dram(f) == <<"dram", f>>                \* the number of a frame of DRAM
NoEntry == PTE(Dram(Null), {})
Garbage == PTE(Dram(KernelL2), {"V", "U"} \cup Perms)  \* data that reads as an entry
ZeroPage == [i \in Index |-> NoEntry]
ZeroSpace == [root |-> Null, l1_mmio |-> Null, l0_user |-> Null, pages |-> <<>>]

-----------------------------------------------------------------------------
(* The emulated MMU *)

Types == [Instruction |-> "X", Load |-> "R", Store |-> "W"]
PageFault(type) == <<"page fault", type>>
Faults == {PageFault(type) : type \in DOMAIN Types}

EntryAt(table, i) ==
  IF table[1] = "dram" /\ table[2] \in DOMAIN mem THEN mem[table[2]][i] ELSE NoEntry

IsLeaf(pte) == pte.flags \cap Perms # {}

(* The checks on a leaf, and the page it gives *)
Leaf(pte, ppn, type, mode) ==
  IF Types[type] \notin pte.flags \/ (mode = "User" /\ "U" \notin pte.flags)
  THEN PageFault(type)
  ELSE ppn

(* Mmu::translate.  A 2 MB leaf takes the low bits of the page from vpn0;  *)
(* a 1 GB leaf and an invalid entry are load faults, whatever the access.  *)
Translate(root, va, type, mode) ==
  LET pte2 == EntryAt(Dram(root), va[1])
      pte1 == EntryAt(pte2.ppn, va[2])
      pte0 == EntryAt(pte1.ppn, va[3])
  IN  IF "V" \notin pte2.flags \/ IsLeaf(pte2) \/ "V" \notin pte1.flags
      THEN PageFault("Load")
      ELSE IF IsLeaf(pte1)
      THEN Leaf(pte1, <<pte1.ppn[1], pte1.ppn[2] + va[3]>>, type, mode)
      ELSE IF "V" \notin pte0.flags THEN PageFault("Load")
      ELSE Leaf(pte0, pte0.ppn, type, mode)

-----------------------------------------------------------------------------
(* The allocator and the tables.  k is what the kernel works on: memory,   *)
(* the allocator, the space under construction, and whether every call has *)
(* succeeded.                                                              *)

Kernel(sp) == [mem |-> mem, free |-> free_list, bump |-> bump, total |-> total_free,
               sp |-> sp, ok |-> TRUE]
Put(k, f, i, pte) == [k EXCEPT !.mem[f][i] = pte]

(* What the next calls of kalloc return, in order, and n calls of it       *)
Available(k) == k.free \o [i \in 1 .. Frames - k.bump |-> k.bump + i + 3]
Allocated(k, n) ==
  [k EXCEPT !.free = SubSeq(@, n + 1, Len(@)), !.bump = @ + Max({n - Len(k.free), 0}),
            !.total = @ - n]

(* kfree links the page through its first word: an aligned address, which  *)
(* reads as an entry that is not valid.                                    *)
kfree(k, f) ==
  IF f = Null THEN k
  ELSE [Put(k, f, 0, NoEntry) EXCEPT !.free = <<f>> \o @, !.total = @ + 1]

(* The pages of a space in the order user_space_destroy frees them *)
DestroyOrder(sp) ==
  [i \in 1 .. Len(sp.pages) |-> sp.pages[i].page] \o <<sp.l0_user, sp.l1_mmio, sp.root>>

user_space_destroy_Tables(k) ==         \* mutant: the mapped pages are not freed
  [FoldLeft(kfree, k, <<k.sp.l0_user, k.sp.l1_mmio, k.sp.root>>) EXCEPT !.sp = ZeroSpace]

user_space_destroy(k) ==
  [FoldLeft(kfree, k, DestroyOrder(k.sp)) EXCEPT !.sp = ZeroSpace]

(* Three pages, or as many as there are *)
Tables(k) ==
  LET n == Min({3, Len(Available(k))})
      page(i) == IF i <= n THEN Available(k)[i] ELSE Null
  IN  [Allocated(k, n) EXCEPT
         !.sp = [ZeroSpace EXCEPT !.root = page(1), !.l1_mmio = page(2), !.l0_user = page(3)]]

FillTables_NotZeroed(k) ==              \* mutant: l0_user keeps what it held
  LET sp == k.sp
      m  == [k.mem EXCEPT ![sp.root] = k.mem[KernelL2],
                          ![sp.l1_mmio] = k.mem[KernelL1Mmio]]
  IN  Put(Put([k EXCEPT !.mem = m], sp.root, 0, PTE(Dram(sp.l1_mmio), {"V"})),
          sp.l1_mmio, 0, PTE(Dram(sp.l0_user), {"V", "U"}))

FillTables_OnlyLow(k) ==                \* mutant: l1_mmio starts empty
  LET sp == k.sp
      m  == [k.mem EXCEPT ![sp.root] = k.mem[KernelL2],
                          ![sp.l1_mmio] = ZeroPage, ![sp.l0_user] = ZeroPage]
  IN  Put(Put([k EXCEPT !.mem = m], sp.root, 0, PTE(Dram(sp.l1_mmio), {"V"})),
          sp.l1_mmio, 0, PTE(Dram(sp.l0_user), {"V", "U"}))

(* The kernel's tables are copied; the low 2 MB become the user's.         *)
FillTables(k) ==
  LET sp == k.sp
      m  == [k.mem EXCEPT ![sp.root] = k.mem[KernelL2],
                          ![sp.l1_mmio] = k.mem[KernelL1Mmio],
                          ![sp.l0_user] = ZeroPage]
  IN  Put(Put([k EXCEPT !.mem = m], sp.root, 0, PTE(Dram(sp.l1_mmio), {"V"})),
          sp.l1_mmio, 0, PTE(Dram(sp.l0_user), {"V", "U"}))

create_empty_space(k) ==
  LET t == Tables(k)
  IN  IF t.sp.l0_user = Null
      THEN [user_space_destroy(t) EXCEPT !.ok = FALSE]
      ELSE FillTables(t)

find_mapping(sp, vpn) == {i \in DOMAIN sp.pages : sp.pages[i].vpn = vpn}

(* A page that is mapped already gets the new permissions on top of its    *)
(* own, in pages[] and in the entry.                                       *)
map_user_page(k, vpn, flags) ==
  LET found == find_mapping(k.sp, vpn)
      i     == Min(found)
      n     == Len(k.sp.pages) + 1
      page  == IF found # {} THEN k.sp.pages[i].page ELSE Available(k)[1]
      all   == flags \cup IF found # {} THEN k.sp.pages[i].flags ELSE {}
  IN  IF vpn < UserMin \/ (found = {} /\ (n > MaxPages \/ Available(k) = <<>>))
      THEN [k EXCEPT !.ok = FALSE]
      ELSE LET entered == Put(k, k.sp.l0_user, vpn,
                              PTE(Dram(page), all \cup {"U", "V"}))
           IN  IF found # {} THEN [entered EXCEPT !.sp.pages[i].flags = all]
               ELSE [Allocated(entered, 1) EXCEPT
                       !.mem[page] = ZeroPage,
                       !.sp.pages = Append(@, [vpn |-> vpn, page |-> page,
                                               flags |-> flags])]

(* A loop of map_user_page that stops at the first failure                 *)
MapAll(k, maps) ==
  FoldLeft(LAMBDA c, m : IF c.ok THEN map_user_page(c, m.vpn, m.flags) ELSE c, k, maps)

(* Every caller destroys a space it could not finish.                      *)
OrDestroy(k) == IF k.ok THEN k ELSE [user_space_destroy(k) EXCEPT !.ok = FALSE]

(* prepare_program: the segments page by page, the test of the entry, then *)
(* the stack.  Reading the file or the arguments may fail (n) after any    *)
(* number of segments are mapped.                                          *)
prepare_program(p, n) ==
  LET k     == create_empty_space(Kernel(ZeroSpace))
      cut   == n < Len(p.maps)
      segs  == MapAll(k, IF cut THEN SubSeq(p.maps, 1, n) ELSE p.maps)
      entry == find_mapping(segs.sp, p.entry)
      good  == ~cut /\ \E i \in entry : "X" \in segs.sp.pages[i].flags
      stack == MapAll(segs, SetToSeq({[vpn |-> v, flags |-> {"R", "W"}] : v \in StackPages}))
  IN  IF ~k.ok THEN k
      ELSE OrDestroy(IF segs.ok /\ good THEN stack ELSE [segs EXCEPT !.ok = FALSE])

(* user_space_clone: the page is copied when it has been mapped.           *)
user_space_clone_NoCopy(sp) ==          \* mutant: the child's pages stay zero
  LET k == create_empty_space(Kernel(ZeroSpace))
  IN  IF ~k.ok THEN k ELSE OrDestroy(MapAll(k, sp.pages))

user_space_clone_Swapped(sp) ==         \* mutant: the copy goes the other way
  LET copied(k, m) ==
        LET c == map_user_page(k, m.vpn, m.flags)
        IN  IF ~k.ok THEN k
            ELSE IF ~c.ok THEN c
            ELSE [c EXCEPT !.mem[m.page] = c.mem[Last(c.sp.pages).page]]
      k == create_empty_space(Kernel(ZeroSpace))
  IN  IF ~k.ok THEN k ELSE OrDestroy(FoldLeft(copied, k, sp.pages))

user_space_clone(sp) ==
  LET copied(k, m) ==
        LET c == map_user_page(k, m.vpn, m.flags)
        IN  IF ~k.ok THEN k
            ELSE IF ~c.ok THEN c
            ELSE [c EXCEPT !.mem[Last(c.sp.pages).page] = c.mem[m.page]]
      k == create_empty_space(Kernel(ZeroSpace))
  IN  IF ~k.ok THEN k ELSE OrDestroy(FoldLeft(copied, k, sp.pages))

-----------------------------------------------------------------------------
(* The system *)

Live(s) == space[s].root # Null

(* vm_init has run: the first three pages are the kernel's tables.         *)
Init ==
  /\ mem = [f \in {KernelL2, KernelL1Dram, KernelL1Mmio} \cup Heap |->
       CASE f = KernelL2     -> [ZeroPage EXCEPT ![0] = PTE(Dram(KernelL1Mmio), {"V"}),
                                                 ![2] = PTE(Dram(KernelL1Dram), {"V"})]
         [] f = KernelL1Dram -> [ZeroPage EXCEPT ![0] = PTE(Dram(0), {"V"} \cup Perms)]
         [] f = KernelL1Mmio -> [ZeroPage EXCEPT ![0] = PTE(<<"low", 0>>, {"V", "R", "W"}),
                                         ![UartVpn1] = PTE(<<"uart", 0>>, {"V", "R", "W"})]
         [] OTHER            -> ZeroPage]
  /\ free_list = <<>> /\ bump = 0 /\ total_free = Frames
  /\ space = [s \in Spaces |-> ZeroSpace]
  /\ reaping = <<>> /\ saved = <<>> /\ halted = FALSE

HeapBecomes(k, s) ==
  /\ mem' = k.mem
  /\ free_list' = k.free /\ bump' = k.bump /\ total_free' = k.total
  /\ space' = [space EXCEPT ![s] = k.sp]
Becomes(k, s) == HeapBecomes(k, s) /\ UNCHANGED bootVars

(* user_init in the shell's thread: without a shell the machine stops.     *)
user_init(p, n) ==
  LET k == prepare_program(p, n)
  IN  /\ ~Live(Shell) /\ reaping = <<>> /\ ~halted
      /\ HeapBecomes(k, Shell)
      /\ halted' = ~k.ok
      /\ UNCHANGED <<reaping, saved>>

(* The old space is destroyed once the new one stands. *)
user_execve(s, p, n) ==
  LET k == prepare_program(p, n)
  IN  /\ Live(s) /\ ~halted
      /\ IF k.ok
         THEN Becomes([user_space_destroy([k EXCEPT !.sp = space[s]]) EXCEPT !.sp = k.sp], s)
         ELSE Becomes([k EXCEPT !.sp = space[s]], s)

Fork_Leaks(s, t, ok) ==                 \* mutant: the space of a refused child stays
  LET k == user_space_clone(space[s])
  IN  /\ Live(s) /\ t # Shell /\ ~halted
      /\ IF ok /\ ~Live(t) THEN Becomes(k, t) ELSE Becomes([k EXCEPT !.sp = space[s]], s)

(* sys_fork of the process in s: the space is cloned before                *)
(* task_fork_from_trap finds out whether the slot t is free and (ok) there *)
(* is room for the descriptors.                                            *)
Fork(s, t, ok) ==
  LET k == user_space_clone(space[s])
  IN  /\ Live(s) /\ t # Shell /\ ~halted
      /\ IF ok /\ ~Live(t) THEN Becomes(k, t)
         ELSE Becomes([user_space_destroy(k) EXCEPT !.sp = space[s]], s)

(* A process is reaped by its parent's waitpid.                            *)
Exit(s) ==
  /\ Live(s) /\ s # Shell /\ ~halted
  /\ Becomes(user_space_destroy(Kernel(space[s])), s)

(* The program in s stores to word w of a page in U-mode.                  *)
UserStore(s, va, w) ==
  LET ppn == Translate(space[s].root, va, "Store", "User") IN
  /\ Live(s) /\ ~halted
  /\ ppn \notin Faults /\ ppn[1] = "dram"
  /\ mem' = [mem EXCEPT ![ppn[2]][w] = Garbage]
  /\ UNCHANGED <<heapVars, space, bootVars>>

(* copy_to_user in a system call of s: pages[] gives the frame, which the  *)
(* kernel writes at its own address, through the tables of s.              *)
CopyToUser(s, vpn, w) ==
  \E i \in find_mapping(space[s], vpn) :
    LET m   == space[s].pages[i]
        ppn == Translate(space[s].root, <<2, 0, m.page>>, "Store", "Supervisor")
    IN  /\ "W" \in m.flags /\ ~halted
        /\ ppn \notin Faults
        /\ mem' = [mem EXCEPT ![ppn[2]][w] = Garbage]
        /\ UNCHANGED <<heapVars, space, bootVars>>

-----------------------------------------------------------------------------
(* The boot thread reaps the shell, one store of kfree after the other.    *)

(* ... once it has exited *)
StartReap ==
  /\ ~halted /\ reaping = <<>> /\ Live(Shell)
  /\ reaping' = DestroyOrder(space[Shell])
  /\ space' = [space EXCEPT ![Shell] = ZeroSpace]
  /\ UNCHANGED <<mem, heapVars, saved, halted>>

KfreeReads ==                           \* fp->next = free_list
  /\ reaping # <<>> /\ saved = <<>>
  /\ saved' = <<IF free_list = <<>> THEN Null ELSE Head(free_list)>>
  /\ mem' = [mem EXCEPT ![Head(reaping)][0] = NoEntry]
  /\ UNCHANGED <<heapVars, space, reaping, halted>>

(* The list found from page p: a page that is free holds the link to the   *)
(* rest of the list; one that has been allocated meanwhile holds data, of  *)
(* which only the zero of a fresh page is followed.                        *)
FollowLinks(p) ==
  IF p = Null THEN <<>>
  ELSE IF p \in Range(free_list)
       THEN SubSeq(free_list, SelectInSeq(free_list, LAMBDA q : q = p), Len(free_list))
       ELSE <<p>>

KfreeLinks ==                           \* free_list = fp; total_free++
  /\ saved # <<>>
  /\ free_list' = <<Head(reaping)>> \o FollowLinks(saved[1])
  /\ total_free' = total_free + 1
  /\ reaping' = Tail(reaping) /\ saved' = <<>>
  /\ halted' = (Len(reaping) = 1)       \* the last one: the machine is stopped
  /\ UNCHANGED <<mem, bump, space>>

UserVpns == UserPages \cup StackPages \cup {0, Finish}
UserVAs == {<<0, 0, v>> : v \in UserVpns}
VAs == UserVAs \cup {<<0, UartVpn1, 0>>}
       \cup {<<2, 0, f>> : f \in DOMAIN mem}

Processes ==
  \E s \in Spaces :
    \/ \E p \in Programs : \E n \in 0 .. Len(p.maps) :
         (s = Shell /\ user_init(p, n)) \/ user_execve(s, p, n)
    \/ \E t \in Spaces, ok \in BOOLEAN : Fork(s, t, ok)
    \/ Exit(s)
    \/ \E va \in VAs, w \in Words : UserStore(s, va, w)
    \/ \E vpn \in UserVpns, w \in Words : CopyToUser(s, vpn, w)

BootThread == StartReap \/ KfreeReads \/ KfreeLinks
Off == halted /\ UNCHANGED vars

Next == Processes \/ BootThread \/ Off
Spec == Init /\ [][Next]_vars

(* No other process gets the CPU while the boot thread reaps the shell: it *)
(* is short against the interval of the timer.                             *)
QuietNext == (reaping = <<>> /\ Processes) \/ BootThread \/ Off
QuietSpec == Init /\ [][QuietNext]_vars

-----------------------------------------------------------------------------
(* Properties *)

TypeOK ==
  /\ DOMAIN mem = 1 .. Frames + 3
  /\ \A f \in DOMAIN mem : DOMAIN mem[f] = Index
  /\ Range(free_list) \cup Range(reaping) \subseteq Heap
  /\ bump \in 0 .. Frames /\ total_free \in 0 .. Frames /\ halted \in BOOLEAN
  /\ \A s \in Spaces : /\ {space[s].root, space[s].l1_mmio, space[s].l0_user}
                            \subseteq Heap \cup {Null}
                       /\ Len(space[s].pages) <= MaxPages

(* Every page the bump allocator ever handed out is in one place, once: in *)
(* one process's space, on its way back, or on the free list.  None is     *)
(* lost, freed twice or allocated while it is in use, after every partial  *)
(* failure of clone, load and fork (user_space_destroy on the error        *)
(* paths), and total_free is what kalloc can still return.                 *)
EveryPageOnce ==
  LET spaces == FoldSet(LAMBDA s, all : all \o SelectSeq(DestroyOrder(space[s]), LAMBDA f : f # Null),
                        <<>>, Spaces)
      places == free_list \o reaping \o spaces
  IN  /\ Len(places) = bump
      /\ Range(places) = 4 .. bump + 3
      /\ total_free = Len(free_list) + Frames - bump

(* What a program can reach in U-mode is what the kernel's list pages[]    *)
(* says: the listed page for an access its flags allow, a fault for every  *)
(* other access and address, the kernel's and the devices' included.  The  *)
(* checks of copy_from_user and copy_to_user stand for the MMU's.          *)
MmuAgreesWithPages ==
  \A s \in Spaces : Live(s) =>
    \A va \in VAs, type \in DOMAIN Types :
      LET ppn  == Translate(space[s].root, va, type, "User")
          list == {m \in Range(space[s].pages) :
                     va = <<0, 0, m.vpn>> /\ Types[type] \in m.flags}
      IN  IF list = {} THEN ppn \in Faults ELSE \A m \in list : ppn = Dram(m.page)

(* The kernel runs on the tables of the current process: under every table *)
(* its own memory and the UART are where vm_init put them.  The write to   *)
(* TEST_FINISH that stops the machine works under the kernel's own table,  *)
(* where the boot thread makes it; under the table of a process the same   *)
(* address never reaches the device, in any mode.                          *)
KernelMappedEverywhere ==
  LET tables == {space[s].root : s \in {t \in Spaces : Live(t)}}
      finish(root, mode) == Translate(root, <<0, 0, Finish>>, "Store", mode)
  IN  /\ \A root \in {KernelL2} \cup tables :
           /\ \A f \in DOMAIN mem, type \in DOMAIN Types :
                Translate(root, <<2, 0, f>>, type, "Supervisor") = Dram(f)
           /\ \A type \in {"Load", "Store"} :
                Translate(root, <<0, UartVpn1, 0>>, type, "Supervisor") = <<"uart", 0>>
      /\ finish(KernelL2, "Supervisor") = <<"low", Finish>>
      /\ \A root \in tables, mode \in {"User", "Supervisor"} :
           finish(root, mode) # <<"low", Finish>>

(* What the program in s sees: for each address and access, the contents   *)
(* of the page, or nothing.                                                *)
View(s) ==
  [va \in UserVAs, type \in DOMAIN Types |->
     LET ppn == Translate(space[s].root, va, type, "User")
     IN  IF Live(s) /\ ppn \notin Faults /\ ppn[1] = "dram"
         THEN <<mem[ppn[2]]>> ELSE <<>>]

(* No step changes what two processes see: exec, exit, a store or a copy   *)
(* of one leaves every other with its memory.                              *)
OneViewChanges ==
  [][\A s, t \in Spaces : s = t \/ View(s)' = View(s) \/ View(t)' = View(t)]_vars

(* After fork the child sees what its parent sees.                         *)
ForkCopies ==
  [][\A s, t \in Spaces : Fork(s, t, TRUE) /\ ~Live(t) /\ Live(t)' => View(t)' = View(s)]_vars
=============================================================================
