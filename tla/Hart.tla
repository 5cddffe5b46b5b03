-------------------------------- MODULE Hart --------------------------------
(***************************************************************************)
(* The emulated hart of cemu: traps, delegation, nesting and return over   *)
(* the three privilege modes (cpu.cpp, csr.cpp, instructions.cpp), and the *)
(* timer that raises them (clint.cpp, the loop of main.cpp).               *)
(*                                                                         *)
(* mip, mie and the delegation registers are sets of bit numbers; mstatus  *)
(* is a record of the fields that traps use.  The software is any code     *)
(* that keeps the calling conventions of handlers: a handler does not      *)
(* change its own epc or status, and does not trap to its own mode.        *)
(* saved is history: the contexts that running handlers have interrupted.  *)
(***************************************************************************)
EXTENDS Integers, Sequences

CONSTANTS Delegations,  \* values of mideleg the boot code may choose
          Exceptions,   \* values of medeleg the boot code may choose
          Lines,        \* interrupts that software enables and raises
          Interval      \* bound on mtimecmp - mtime

User == 0
Supervisor == 1
Machine == 3
Modes == {User, Supervisor, Machine}

SSI == 1
MSI == 3
STI == 5
MTI == 7
SEI == 9
MEI == 11
Interrupts == {SSI, MSI, STI, MTI, SEI, MEI}

IllegalInstruction == 2
Breakpoint == 3
Ecall(m) == 8 + m                       \* EnvironmentCallFrom{U,S,M}Mode
Causes == {IllegalInstruction, Breakpoint} \cup {Ecall(m) : m \in Modes}

ASSUME HartAssumption ==
  /\ Delegations \subseteq SUBSET Interrupts
  /\ Exceptions \subseteq SUBSET Causes
  /\ Lines \subseteq Interrupts
  /\ Interval \in Nat \ {0}

VARIABLES mode, pc,
          status,    \* fields of mstatus; sstatus is a view of it
          mip, mie, mideleg, medeleg,
          epc,       \* sepc and mepc, by mode
          cause,     \* scause and mcause: << interrupt?, number >>
          left,      \* mtimecmp - mtime, 0 when the time has come
          halted,
          saved      \* history: the interrupted contexts, innermost last

vars == <<mode, pc, status, mip, mie, mideleg, medeleg, epc, cause, left, halted, saved>>

Levels == {Supervisor, Machine}
Vector(l) == IF l = Supervisor THEN 2 ELSE 3     \* stvec, mtvec
Code == 0 .. 1                                   \* addresses outside the handlers
Context(l) == [mode |-> mode, pc |-> pc, SIE |-> status.SIE, MIE |-> status.MIE,
               level |-> l]
Handling(l) == \E i \in DOMAIN saved : saved[i].level = l

-----------------------------------------------------------------------------
(* Csr::load and Csr::store: sie and sip are views of mie and mip          *)

sie == mie \cap mideleg

(* A delegated bit of sip is the machine's pending bit two places up.      *)
sip(m) == {b \in {SSI, STI, SEI} : b \in mideleg /\ b + 2 \in m}

Masked_All(old, new) == new             \* mutant: not confined to what is delegated

Masked(old, new) == (old \ mideleg) \cup (new \cap mideleg)

(* The member of set that comes first in order, if there is one *)
Highest(order, set) ==
  {order[i] : i \in {j \in DOMAIN order :
     order[j] \in set /\ \A k \in 1 .. j - 1 : order[k] \notin set}}

MachineOrder == <<MEI, MSI, MTI>>
SupervisorOrder == <<SEI, SSI, STI>>

(* Cpu::check_pending_interrupts: the interrupt to take, if there is one.  *)
(* m is the mip of this turn of the loop.                                  *)
check_pending_interrupts_NoSIE(m) ==    \* mutant: SIE is not tested
  LET machine == Highest(MachineOrder, IF mode = Machine THEN m \cap mie
                                       ELSE (m \cap mie) \ mideleg)
  IN  IF status.MIE /\ machine # {} THEN machine
      ELSE IF mode # Machine THEN Highest(SupervisorOrder, sip(m) \cap sie)
      ELSE {}

check_pending_interrupts_NotMasked(m) ==  \* mutant: mideleg is forgotten below M-mode
  LET machine == Highest(MachineOrder, m \cap mie)
  IN  IF status.MIE /\ machine # {} THEN machine
      ELSE IF mode # Machine /\ status.SIE THEN Highest(SupervisorOrder, sip(m) \cap sie)
      ELSE {}

check_pending_interrupts(m) ==
  LET machine == Highest(MachineOrder, IF mode = Machine THEN m \cap mie
                                       ELSE (m \cap mie) \ mideleg)
  IN  IF status.MIE /\ machine # {} THEN machine
      ELSE IF mode # Machine /\ status.SIE THEN Highest(SupervisorOrder, sip(m) \cap sie)
      ELSE {}

(* What handle_exception and handle_interrupt do once the level is known   *)
EnterTrap_PieKept(l, c) ==              \* mutant: the previous enable is not saved
  /\ mode' = l /\ pc' = Vector(l)
  /\ epc' = [epc EXCEPT ![l] = pc]
  /\ cause' = [cause EXCEPT ![l] = c]
  /\ status' = IF l = Supervisor
               THEN [status EXCEPT !.SIE = FALSE, !.SPP = mode]
               ELSE [status EXCEPT !.MIE = FALSE, !.MPP = mode]
  /\ saved' = Append(saved, Context(l))
  /\ UNCHANGED <<mie, mideleg, medeleg>>

EnterTrap(l, c) ==
  /\ mode' = l /\ pc' = Vector(l)
  /\ epc' = [epc EXCEPT ![l] = pc]
  /\ cause' = [cause EXCEPT ![l] = c]
  /\ status' = IF l = Supervisor
               THEN [status EXCEPT !.SPIE = status.SIE, !.SIE = FALSE, !.SPP = mode]
               ELSE [status EXCEPT !.MPIE = status.MIE, !.MIE = FALSE, !.MPP = mode]
  /\ saved' = Append(saved, Context(l))
  /\ UNCHANGED <<mie, mideleg, medeleg>>

Level(delegated, c) ==
  IF mode <= Supervisor /\ c \in delegated THEN Supervisor ELSE Machine

handle_interrupt(c) == EnterTrap(Level(mideleg, c), <<TRUE, c>>) /\ UNCHANGED halted

-----------------------------------------------------------------------------
(* Instructions.  Each leaves mip and the timer at the values m and t of   *)
(* this turn unless it writes them.                                        *)

Advance(a) == IF a \in Code THEN 1 - a ELSE a

(* An instruction other than a trap or a return; what it does not change   *)
Retires == pc' = Advance(pc) /\ UNCHANGED <<mode, mideleg, medeleg, epc, cause, halted, saved>>

Plain(m, t) == Retires /\ mip' = m /\ left' = t /\ UNCHANGED <<status, mie>>

(* ECALL, EBREAK or an illegal instruction.  The loop ends after a fatal   *)
(* exception.                                                              *)
Raise(c, m, t) ==
  /\ c \in {IllegalInstruction, Breakpoint, Ecall(mode)}
  /\ ~Handling(Level(medeleg, c))
  /\ EnterTrap(Level(medeleg, c), <<FALSE, c>>)
  /\ halted' = (c = IllegalInstruction)
  /\ mip' = m /\ left' = t

(* What the running handler has interrupted, and what had been before.     *)
Innermost == saved[Len(saved)]
Outer == SubSeq(saved, 1, Len(saved) - 1)

(* The handler at level l returns.                                         *)
InHandler(l) == mode = l /\ saved # <<>> /\ Innermost.level = l

Leave(l, m, t) ==
  /\ InHandler(l)
  /\ pc' = epc[l]
  /\ saved' = Outer
  /\ mip' = m /\ left' = t
  /\ UNCHANGED <<mie, mideleg, medeleg, epc, cause, halted>>

executeSRET(m, t) ==
  /\ Leave(Supervisor, m, t)
  /\ mode' = status.SPP
  /\ status' = [status EXCEPT !.SIE = status.SPIE, !.SPIE = TRUE, !.SPP = User]

(* MPP is cleared before it is compared, so MPRV always is.                *)
executeMRET(m, t) ==
  /\ Leave(Machine, m, t)
  /\ mode' = status.MPP
  /\ status' = [status EXCEPT !.MIE = status.MPIE, !.MPIE = TRUE, !.MPP = User,
                              !.MPRV = FALSE]

(* CSR instructions of each mode on its own registers                      *)
WriteStatus(m, t) ==
  /\ \/ /\ mode = Supervisor /\ ~Handling(Supervisor)
        /\ \E b \in BOOLEAN : status' = [status EXCEPT !.SIE = b]
     \/ /\ mode = Machine /\ ~Handling(Machine)
        /\ \E b \in BOOLEAN : status' = [status EXCEPT !.MIE = b]
     \/ /\ mode = Machine
        /\ status' = [status EXCEPT !.MPRV = TRUE]
  /\ Retires /\ mip' = m /\ left' = t /\ UNCHANGED mie

WriteEnable(v, m, t) ==
  /\ mode # User
  /\ mie' = IF mode = Machine THEN v ELSE Masked(mie, v)
  /\ Retires /\ mip' = m /\ left' = t /\ UNCHANGED status

WritePending(v, m, t) ==
  /\ mode # User
  /\ mip' = IF mode = Machine THEN v ELSE Masked(m, v)
  /\ Retires /\ left' = t /\ UNCHANGED <<status, mie>>

(* A store to CLINT_MTIMECMP                                               *)
StoreMtimecmp(d, m) ==
  /\ mode # User
  /\ left' = d
  /\ Retires /\ mip' = m /\ UNCHANGED <<status, mie>>

-----------------------------------------------------------------------------
(* One turn of the loop of main: Clint::tick sets or clears MTIP, then an  *)
(* interrupt is taken or an instruction is executed.                       *)
Turn ==
  LET t       == IF left = 0 THEN 0 ELSE left - 1
      m       == IF t = 0 THEN mip \cup {MTI} ELSE mip \ {MTI}
      pending == check_pending_interrupts(m)
  IN  IF pending # {}
      THEN \E c \in pending : handle_interrupt(c) /\ mip' = m /\ left' = t
      ELSE \/ Plain(m, t)
           \/ \E c \in Causes : Raise(c, m, t)
           \/ executeSRET(m, t)
           \/ executeMRET(m, t)
           \/ WriteStatus(m, t)
           \/ \E v \in SUBSET Lines : WriteEnable(v, m, t) \/ WritePending(v, m, t)
           \/ \E d \in 0 .. Interval : StoreMtimecmp(d, m)

(* The boot code, in M-mode, has chosen the delegations and is about to    *)
(* return to the first program in one of the modes, with the machine's     *)
(* interrupts enabled or not.                                              *)
Init ==
  /\ mideleg \in Delegations /\ medeleg \in Exceptions
  /\ \E first \in Modes, enable \in BOOLEAN :
       /\ status = [SIE |-> FALSE, SPIE |-> FALSE, SPP |-> User,
                    MIE |-> FALSE, MPIE |-> enable, MPP |-> first, MPRV |-> FALSE]
       /\ saved = <<[mode |-> first, pc |-> 0, SIE |-> FALSE, MIE |-> enable,
                     level |-> Machine]>>
  /\ mode = Machine /\ pc = Vector(Machine)
  /\ mip = {} /\ mie = {}
  /\ epc = [l \in Levels |-> 0]
  /\ cause = [l \in Levels |-> <<FALSE, 0>>]
  /\ left = 0
  /\ halted = FALSE

Next == ~halted /\ Turn

Spec == Init /\ [][Next]_vars

-----------------------------------------------------------------------------
(* Properties *)

TypeOK ==
  /\ mode \in Modes /\ pc \in Code \cup {Vector(l) : l \in Levels}
  /\ status \in [SIE : BOOLEAN, SPIE : BOOLEAN, SPP : {User, Supervisor},
                 MIE : BOOLEAN, MPIE : BOOLEAN, MPP : Modes, MPRV : BOOLEAN]
  /\ mip \cup mie \subseteq Interrupts
  /\ left \in 0 .. Interval /\ halted \in BOOLEAN

(* Handlers nest by level: a handler is only ever interrupted by one of a  *)
(* higher mode, so that epc, cause and the previous-mode fields of a level *)
(* are free when a trap writes them (check_pending_interrupts, the         *)
(* enables that EnterTrap clears).                                         *)
HandlersNest ==
  /\ \A i \in DOMAIN saved : saved[i].mode <= saved[i].level
  /\ \A i \in 2 .. Len(saved) : /\ saved[i].mode = saved[i - 1].level
                                /\ saved[i].mode < saved[i].level

(* sret and mret go back to exactly what was interrupted: its mode, its    *)
(* address and both interrupt enables, whatever nested in between.         *)
ReturnsExactly ==
  [][Len(saved') < Len(saved) =>
       LET c == Innermost
       IN  /\ mode' = c.mode /\ pc' = c.pc
           /\ status'.SIE = c.SIE /\ status'.MIE = c.MIE]_vars

(* scause holds a supervisor's interrupt number and mcause a machine's:    *)
(* the timer bit that csr.cpp maps from MTIP to STIP is reported as 5 in   *)
(* S-mode and 7 in M-mode.                                                 *)
CauseOfItsLevel ==
  /\ cause[Supervisor][1] => cause[Supervisor][2] \in {SSI, STI, SEI}
  /\ cause[Machine][1] => cause[Machine][2] \in {MSI, MTI, MEI}

(* Code in S- or U-mode that does not trap to M-mode leaves the machine's  *)
(* part of the status and of the enables as it was: the views sstatus, sie *)
(* and sip reach no further than the delegations.                          *)
SupervisorConfined ==
  [][mode # Machine /\ mode' # Machine =>
       /\ status'.MIE = status.MIE /\ status'.MPIE = status.MPIE
       /\ status'.MPP = status.MPP /\ status'.MPRV = status.MPRV
       /\ mie' \ mideleg = mie \ mideleg
       /\ mip' \ (mideleg \cup {MTI}) = mip \ (mideleg \cup {MTI})]_vars

(* What a comment of check_pending_interrupts says: in M-mode it looks for *)
(* interrupts that are not delegated.                                      *)
MachineTakesUndelegated ==
  [][mode = Machine /\ Len(saved') > Len(saved) /\ cause'[Machine][1]
       => cause'[Machine][2] \notin mideleg]_vars

(* What a comment of executeMRET says: MPRV is cleared if MPP is not M.    *)
(* So a return to M-mode leaves it.                                        *)
MretKeepsMprv ==
  [][mode = Machine /\ Len(saved') < Len(saved) /\ status.MPP = Machine
       => status'.MPRV = status.MPRV]_vars
=============================================================================
