-------------------------------- MODULE Isa ---------------------------------
(* The instructions of the emulator: InstructionExecutor::execute and the  *)
(* execute functions of cemu/src/instructions.cpp, with the bus and the    *)
(* DRAM they load from and store to.  Words have their real 32 and 64 bits *)
(* (module Words); the fields and immediates are taken from the word by    *)
(* the masks and shifts of the code.                                       *)
(*                                                                         *)
(* A behaviour executes one instruction in M-mode without translation.     *)
(* Init has every kind of state an instruction may start from, with what   *)
(* the one before left in regs[0].  SRET, MRET and the effect of a CSR on  *)
(* the hart are in Hart, translation in Vm.                                *)
EXTENDS Encoding, TLC

CONSTANTS Instructions,   \* what the words that Cpu::fetch returns encode
          Registers,      \* values of regs the runs start from
          MemBits         \* the DRAM has 2^MemBits bytes

VARIABLES regs, pc, dram, csr, inst, exc

vars == <<regs, pc, dram, csr, inst, exc>>

DRAM_BASE == {31}
DRAM_SIZE == 2 ^ MemBits
DRAM_END == Plus(DRAM_BASE, Word(DRAM_SIZE - 1))

-----------------------------------------------------------------------------
(* Fields and immediates *)

rd(w) == Number(Shr(w, 7) \cap (0 .. 4))
rs1(w) == Number(Shr(w, 15) \cap (0 .. 4))
rs2(w) == Number(Shr(w, 20) \cap (0 .. 4))

int32(x) == SignExtend(x, 32)           \* static_cast<int32_t>, then to 64 bits

ImmI(w) == Sar(int32(w \cap (20 .. 31)), 20)
ImmS(w) == (Sar(int32(w \cap (25 .. 31)), 20) \ (0 .. 4)) \cup (Shr(w, 7) \cap (0 .. 4))
ImmU(w) == int32(w \cap (12 .. 31))
ImmB_Unsigned(w) ==                     \* mutant: bit 31 is taken as bit 12 only
  (IF 31 \in w THEN {12} ELSE {}) \cup Shl(w \cap {7}, 4)
  \cup (Shr(w, 20) \cap (5 .. 10)) \cup (Shr(w, 7) \cap (1 .. 4))
ImmB(w) ==
  int32((IF 31 \in w THEN 12 .. 31 ELSE {}) \cup Shl(w \cap {7}, 4)
        \cup (Shr(w, 20) \cap (5 .. 10)) \cup (Shr(w, 7) \cap (1 .. 4)))
ImmJ(w) ==
  int32((IF 31 \in w THEN 20 .. 31 ELSE {}) \cup Shl(Shr(w, 12) \cap (0 .. 7), 12)
        \cup (Shr(w, 9) \cap {11}) \cup (Shr(w, 20) \cap (1 .. 10)))

-----------------------------------------------------------------------------
(* Dispatch: three tables, the last looked up with funct7, then funct6     *)

opcodeTable == \h17 :> "AUIPC" @@ \h37 :> "Lui" @@ \h67 :> "JALR" @@ \h6f :> "JAL"

instructionMap ==
  <<\h03, 0>> :> "Lb" @@ <<\h03, 1>> :> "Lh" @@ <<\h03, 2>> :> "Lw" @@ <<\h03, 3>> :> "Ld"
  @@ <<\h03, 4>> :> "Lbu" @@ <<\h03, 5>> :> "Lhu" @@ <<\h03, 6>> :> "Lwu"
  @@ <<\h0f, 0>> :> "Fence" @@ <<\h13, 0>> :> "Addi" @@ <<\h13, 1>> :> "Slli"
  @@ <<\h13, 2>> :> "Slti" @@ <<\h13, 3>> :> "Sltiu" @@ <<\h13, 4>> :> "Xori"
  @@ <<\h13, 6>> :> "Ori" @@ <<\h13, 7>> :> "Andi" @@ <<\h1b, 0>> :> "ADDIW"
  @@ <<\h1b, 1>> :> "SLLIW" @@ <<\h19, 7>> :> "Sb" @@ <<\h23, 0>> :> "StoreByte"
  @@ <<\h23, 1>> :> "StoreHalf" @@ <<\h23, 2>> :> "StoreWord" @@ <<\h23, 3>> :> "StoreDouble"
  @@ <<\h63, 0>> :> "BEQ" @@ <<\h63, 1>> :> "BNE" @@ <<\h63, 4>> :> "BLT"
  @@ <<\h63, 5>> :> "BGE" @@ <<\h63, 6>> :> "BLTU" @@ <<\h63, 7>> :> "BGEU"
  @@ <<\h73, 1>> :> "CSR_RW" @@ <<\h73, 2>> :> "CSR_RS" @@ <<\h73, 3>> :> "CSR_RC"
  @@ <<\h73, 5>> :> "CSR_RWI" @@ <<\h73, 6>> :> "CSR_RSI" @@ <<\h73, 7>> :> "CSR_RCI"

instruction2Map ==
  <<\h13, 5, 0>> :> "Srli" @@ <<\h13, 5, \h10>> :> "Srai"
  @@ <<\h33, 0, 0>> :> "Add" @@ <<\h33, 0, \h20>> :> "SUB" @@ <<\h33, 1, 0>> :> "Sll"
  @@ <<\h33, 2, 0>> :> "Slt" @@ <<\h33, 3, 0>> :> "SLTU" @@ <<\h33, 4, 0>> :> "Xor"
  @@ <<\h33, 5, 0>> :> "Srl" @@ <<\h33, 5, \h20>> :> "Sra" @@ <<\h33, 6, 0>> :> "Or"
  @@ <<\h33, 7, 0>> :> "And" @@ <<\h1b, 5, 0>> :> "SRLIW" @@ <<\h1b, 5, \h20>> :> "SRAIW"
  @@ <<\h3b, 0, 0>> :> "Addw" @@ <<\h3b, 0, \h20>> :> "SUBW" @@ <<\h3b, 1, 0>> :> "SLLW"
  @@ <<\h3b, 5, 0>> :> "SRLW" @@ <<\h3b, 5, \h20>> :> "SRAW"
  @@ <<\h73, 0, 0>> :> "ECALL" @@ <<\h73, 0, 1>> :> "EBREAK" @@ <<\h73, 0, \h10>> :> "WFI"
  @@ <<\h73, 0, 9>> :> "SFENCE_VMA" @@ <<\h73, 0, 8>> :> "SRET" @@ <<\h73, 0, \h18>> :> "MRET"

Dispatch(w) ==
  LET opcode == Number(w \cap (0 .. 6))
      funct3 == Number(Shr(w, 12) \cap (0 .. 2))
      funct7 == Number(Shr(w, 25) \cap (0 .. 6))
      funct6 == Number(Shr(w, 26) \cap (0 .. 5))
  IN  CASE opcode \in DOMAIN opcodeTable -> opcodeTable[opcode]
        [] <<opcode, funct3>> \in DOMAIN instructionMap -> instructionMap[<<opcode, funct3>>]
        [] <<opcode, funct3, funct7>> \in DOMAIN instruction2Map ->
             instruction2Map[<<opcode, funct3, funct7>>]
        [] <<opcode, funct3, funct6>> \in DOMAIN instruction2Map ->
             instruction2Map[<<opcode, funct3, funct6>>]
        [] OTHER -> "Unsupported"

-----------------------------------------------------------------------------
(* Arithmetic.  a and b are regs[rs1] and regs[rs2], w the word.           *)

Flag(b) == IF b THEN {0} ELSE Zero
shamt(y) == Number(y \cap (0 .. 5))     \* the mask 0x3f, or the host's shift
shamtw(y) == Number(y \cap (0 .. 4))    \* the mask 0x1f

Immediate(f, a, imm) ==
  CASE f = "Addi"  -> Plus(a, imm)
    [] f = "Slli"  -> Shl(a, shamt(imm))
    [] f = "Slti"  -> Flag(Below(a, imm))
    [] f = "Sltiu" -> Flag(Below(a, imm \cap (0 .. 31)))
    [] f = "Xori"  -> Xor(a, imm)
    [] f = "Srli"  -> Shr(a, shamt(imm))
    [] f = "Srai"  -> Sar(a, shamt(imm))
    [] f = "Ori"   -> a \cup imm
    [] f = "Andi"  -> a \cap imm

Register(f, a, b) ==
  CASE f = "Add"  -> Plus(a, b)
    [] f = "SUB"  -> Minus(a, b)
    [] f = "Sll"  -> Shl(a, shamt(b))
    [] f = "Slt"  -> Flag(SignedBelow(a, b))
    [] f = "SLTU" -> Flag(Below(a, b))
    [] f = "Xor"  -> Xor(a, b)
    [] f = "Srl"  -> Shr(a, shamt(b))
    [] f = "Sra"  -> Sar(a, shamt(b))
    [] f = "Or"   -> a \cup b
    [] f = "And"  -> a \cap b

(* The low words: n is the shift count of SLLIW, SRLIW and SRAIW           *)
ImmediateW(f, a, imm, n) ==
  CASE f = "ADDIW" -> int32(Plus(a, imm))
    [] f = "SLLIW" -> int32(Shl(int32(a), n))
    [] f = "SRLIW" -> int32(Shr(a \cap (0 .. 31), n))
    [] f = "SRAIW" -> int32(Sar(int32(a), n))

RegisterW(f, a, b) ==
  CASE f = "Addw" -> int32(Plus(int32(a), int32(b)))
    [] f = "SUBW" -> int32(Minus(int32(a), int32(b)))
    [] f = "SLLW" -> int32(Shl(int32(a), shamtw(b)))
    [] f = "SRLW" -> int32(Shr(a \cap (0 .. 31), shamtw(b)))
    [] f = "SRAW" -> int32(Sar(int32(a), shamtw(b)))

Upper(f, w) == IF f = "Lui" THEN ImmU(w) ELSE Plus(pc, ImmU(w))

Immediates == {"Addi", "Slli", "Slti", "Sltiu", "Xori", "Srli", "Srai", "Ori", "Andi"}
ImmediatesW == {"ADDIW", "SLLIW", "SRLIW", "SRAIW"}
Registers2 == {"Add", "SUB", "Sll", "Slt", "SLTU", "Xor", "Srl", "Sra", "Or", "And"}
Registers2W == {"Addw", "SUBW", "SLLW", "SRLW", "SRAW"}

Taken(f, a, b) ==
  CASE f = "BEQ"  -> a = b
    [] f = "BNE"  -> a # b
    [] f = "BLT"  -> SignedBelow(a, b)
    [] f = "BGE"  -> ~SignedBelow(a, b)
    [] f = "BLTU" -> Below(a, b)
    [] f = "BGEU" -> ~Below(a, b)
Branches == {"BEQ", "BNE", "BLT", "BGE", "BLTU", "BGEU"}

-----------------------------------------------------------------------------
(* Memory.  The other devices of the bus are not addressed in this module. *)

LoadSize == [Lb |-> 8, Lbu |-> 8, Lh |-> 16, Lhu |-> 16, Lw |-> 32, Lwu |-> 32, Ld |-> 64]
StoreSize == [Sb |-> 8, StoreByte |-> 8, StoreHalf |-> 16, StoreWord |-> 32, StoreDouble |-> 64]

(* The test of the bus, then the one of the DRAM *)
InDram(addr, size) ==
  /\ ~Below(addr, DRAM_BASE) /\ ~Below(DRAM_END, addr)
  /\ Number(Minus(addr, DRAM_BASE)) + size \div 8 <= DRAM_SIZE

Load(addr, size) ==
  LET index == Number(Minus(addr, DRAM_BASE))
  IN  UNION {Shl(dram[index + i], i * 8) : i \in 0 .. size \div 8 - 1}

Store(addr, size, value) ==
  LET index == Number(Minus(addr, DRAM_BASE))
  IN  [i \in index .. index + size \div 8 - 1 |-> Shr(value, (i - index) * 8) \cap (0 .. 7)]
        @@ dram

Extended(f, v) == IF f \in {"Lb", "Lh", "Lw"} THEN SignExtend(v, LoadSize[f]) ELSE v

-----------------------------------------------------------------------------
(* execute.  r is regs after the first assignment, regs[0] = 0.            *)

update_pc == pc' = Plus(pc, {2})
Set(r, n, v) == regs' = [r EXCEPT ![n] = v]
Throw(e, r) == exc' = e /\ regs' = r /\ UNCHANGED <<pc, dram, csr>>
NoThrow == exc' = exc

ExecuteArithmetic(f, a, b, r, w) ==
  /\ \/ f \in Immediates /\ Set(r, rd(w), Immediate(f, a, ImmI(w)))
     \/ f \in ImmediatesW /\ Set(r, rd(w), ImmediateW(f, a, ImmI(w), shamtw(Shr(w, 20))))
     \/ f \in Registers2 /\ Set(r, rd(w), Register(f, a, b))
     \/ f \in Registers2W /\ Set(r, rd(w), RegisterW(f, a, b))
     \/ f \in {"Lui", "AUIPC"} /\ Set(r, rd(w), Upper(f, w))
  /\ update_pc /\ NoThrow /\ UNCHANGED <<dram, csr>>

ExecuteLoad(f, r, w) ==
  /\ f \in DOMAIN LoadSize
  /\ LET addr == Plus(r[rs1(w)], ImmI(w)) IN
     IF InDram(addr, LoadSize[f])
     THEN /\ Set(r, rd(w), Extended(f, Load(addr, LoadSize[f])))
          /\ update_pc /\ NoThrow /\ UNCHANGED <<dram, csr>>
     ELSE Throw("LoadAccessFault", r)

ExecuteStore(f, r, w) ==
  /\ f \in DOMAIN StoreSize
  /\ LET addr == Plus(r[rs1(w)], ImmS(w)) IN
     IF InDram(addr, StoreSize[f])
     THEN /\ dram' = Store(addr, StoreSize[f], r[rs2(w)])
          /\ regs' = r /\ update_pc /\ NoThrow /\ UNCHANGED csr
     ELSE Throw("StoreAMOAccessFault", r)

ExecuteBranch(f, r, w) ==
  /\ f \in Branches
  /\ IF Taken(f, r[rs1(w)], r[rs2(w)]) THEN pc' = Plus(pc, ImmB(w)) ELSE update_pc
  /\ regs' = r /\ NoThrow /\ UNCHANGED <<dram, csr>>

ExecuteJump(f, r, w) ==
  /\ f \in {"JAL", "JALR"}
  /\ Set(r, rd(w), Plus(pc, {2}))
  /\ pc' = IF f = "JAL" THEN Plus(pc, ImmJ(w)) ELSE Plus(r[rs1(w)], ImmI(w)) \ {0}
  /\ NoThrow /\ UNCHANGED <<dram, csr>>

CsrFunctions == {"CSR_RW", "CSR_RS", "CSR_RC", "CSR_RWI", "CSR_RSI", "CSR_RCI"}

(* What is stored in the CSR: old and new are regs before and after the    *)
(* assignment of regs[rd], n is rs1.  The immediate of CSR_RSI is a bit    *)
(* number; the one of CSR_RCI is negated as a uint32_t.                    *)
CsrValue(f, old, new, n) ==
  CASE f = "CSR_RW"  -> old[n]
    [] f = "CSR_RS"  -> csr \cup new[n]
    [] f = "CSR_RC"  -> csr \ new[n]
    [] f = "CSR_RWI" -> Word(n)
    [] f = "CSR_RSI" -> csr \cup int32({n})
    [] f = "CSR_RCI" -> csr \cap ((0 .. 31) \ Word(n))

ExecuteCsr(f, r, w) ==
  /\ f \in CsrFunctions
  /\ Set(r, rd(w), csr)
  /\ csr' = CsrValue(f, r, [r EXCEPT ![rd(w)] = csr], rs1(w))
  /\ update_pc /\ NoThrow /\ UNCHANGED dram

(* SRET and MRET jump to sepc or mepc, which reset leaves zero.            *)
ExecuteSystem(f, r) ==
  /\ f \in {"Fence", "WFI", "SFENCE_VMA", "SRET", "MRET"}
  /\ IF f \in {"SRET", "MRET"} THEN pc' = Zero ELSE update_pc
  /\ regs' = r /\ NoThrow /\ UNCHANGED <<dram, csr>>

Thrown == [ECALL |-> "EnvironmentCallFromMMode", EBREAK |-> "Breakpoint",
           Unsupported |-> "IllegalInstruction"]
ExecuteThrow(f, r) == f \in DOMAIN Thrown /\ Throw(Thrown[f], r)

Execute(f, r, w) ==
  \/ ExecuteArithmetic(f, r[rs1(w)], r[rs2(w)], r, w)
  \/ ExecuteLoad(f, r, w)
  \/ ExecuteStore(f, r, w)
  \/ ExecuteBranch(f, r, w)
  \/ ExecuteJump(f, r, w)
  \/ ExecuteCsr(f, r, w)
  \/ ExecuteSystem(f, r)
  \/ ExecuteThrow(f, r)

Init ==
  /\ regs \in Registers
  /\ pc = {4, 31}
  /\ dram = [i \in 0 .. DRAM_SIZE - 1 |-> Word((37 * i + 128) % 256)]
  /\ csr = {0, 3, 40}
  /\ inst \in Instructions
  /\ exc = "None"

ExecuteWord(w) == Execute(Dispatch(w), [regs EXCEPT ![0] = Zero], w)
execute == inst # NoInst /\ inst' = NoInst /\ ExecuteWord(Encode(inst))
Executed == inst = NoInst /\ UNCHANGED vars

Next == execute \/ Executed
Spec == Init /\ [][Next]_vars

-----------------------------------------------------------------------------
Architecture == INSTANCE RV64I WITH x <- [regs EXCEPT ![0] = Zero], mem <- dram

(* The emulator executes every instruction of RV64I as the architecture    *)
(* defines it: the word is decoded into the instruction it encodes,        *)
(* whatever the bits of its immediate; results have the right width and    *)
(* sign at every boundary; x0 reads as zero although executeX writes to    *)
(* regs[0]; and an instruction that throws has changed nothing.            *)
ImplementsRV64I == Architecture!Spec
=============================================================================
