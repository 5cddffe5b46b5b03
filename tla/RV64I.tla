------------------------------- MODULE RV64I --------------------------------
(* The unprivileged instructions of RV64I with Zicsr, as the architecture  *)
(* defines them.  It is what the emulator promises (cemu/README.md:9).     *)
EXTENDS Encoding

CONSTANTS Instructions,   \* of the program that runs
          MemBits         \* there are 2^MemBits bytes of memory, from Base

VARIABLES x, pc, mem, csr,
          inst,           \* the instruction to execute, or NoInst
          exc             \* the exception it raised

vars == <<x, pc, mem, csr, inst, exc>>

Base == {31}
MemSize == 2 ^ MemBits

-----------------------------------------------------------------------------
(* Meaning *)

Flag(b) == IF b THEN {0} ELSE Zero
Amount(y, n) == Number(y \cap (0 .. n - 1))             \* the low n bits

Computed(op, a, b) ==
  CASE op \in {"ADD", "ADDI"}   -> Plus(a, b)
    [] op = "SUB"               -> Minus(a, b)
    [] op \in {"AND", "ANDI"}   -> a \cap b
    [] op \in {"OR", "ORI"}     -> a \cup b
    [] op \in {"XOR", "XORI"}   -> Xor(a, b)
    [] op \in {"SLT", "SLTI"}   -> Flag(SignedBelow(a, b))
    [] op \in {"SLTU", "SLTIU"} -> Flag(Below(a, b))
    [] op \in {"SLL", "SLLI"}   -> Shl(a, Amount(b, 6))
    [] op \in {"SRL", "SRLI"}   -> Shr(a, Amount(b, 6))
    [] op \in {"SRA", "SRAI"}   -> Sar(a, Amount(b, 6))
    [] op \in {"ADDW", "ADDIW"} -> SignExtend(Plus(a, b), 32)
    [] op = "SUBW"              -> SignExtend(Minus(a, b), 32)
    [] op \in {"SLLW", "SLLIW"} -> SignExtend(Shl(a, Amount(b, 5)), 32)
    [] op \in {"SRLW", "SRLIW"} -> SignExtend(Shr(a \cap (0 .. 31), Amount(b, 5)), 32)
    [] op \in {"SRAW", "SRAIW"} -> SignExtend(Sar(SignExtend(a, 32), Amount(b, 5)), 32)

Taken(op, a, b) ==
  CASE op = "BEQ"  -> a = b
    [] op = "BNE"  -> a # b
    [] op = "BLT"  -> SignedBelow(a, b)
    [] op = "BGE"  -> ~SignedBelow(a, b)
    [] op = "BLTU" -> Below(a, b)
    [] op = "BGEU" -> ~Below(a, b)

CsrValue(op, old, a, uimm) ==
  CASE op = "CSRRW"  -> a
    [] op = "CSRRS"  -> old \cup a
    [] op = "CSRRC"  -> old \ a
    [] op = "CSRRWI" -> uimm
    [] op = "CSRRSI" -> old \cup uimm
    [] op = "CSRRCI" -> old \ uimm

Width(op) ==                                            \* in bytes
  CASE op \in {"LB", "LBU", "SB"} -> 1
    [] op \in {"LH", "LHU", "SH"} -> 2
    [] op \in {"LW", "LWU", "SW"} -> 4
    [] op \in {"LD", "SD"}        -> 8

InMemory(a, n) ==
  /\ a \ (0 .. MemBits - 1) = Base
  /\ Number(a \ Base) + n <= MemSize
Loaded(op, at) ==
  LET n == Width(op)
      w == UNION {Shl(mem[at + k], 8 * k) : k \in 0 .. n - 1}
  IN  IF op \in {"LB", "LH", "LW"} THEN SignExtend(w, 8 * n) ELSE w

Advance == pc' = Plus(pc, {2})
Writes(rd, v) == x' = [x EXCEPT ![rd] = IF rd = 0 THEN Zero ELSE v]
Keeps(exceptVars) == exc' = "None" /\ UNCHANGED exceptVars
Raises(e) == exc' = e /\ UNCHANGED <<x, pc, mem, csr>>

Execute(i) ==
  LET op  == i.op
      a   == x[i.rs1]
      b   == x[i.rs2]
      imm == Word(i.imm)
      at  == Plus(a, imm)
  IN
  \/ /\ op \in DOMAIN ROps \cup DOMAIN RWOps
     /\ Writes(i.rd, Computed(op, a, b)) /\ Advance /\ Keeps(<<mem, csr>>)
  \/ /\ op \in DOMAIN IOps \cup DOMAIN ShiftOps \cup DOMAIN ShiftWOps \cup {"ADDIW"}
     /\ Writes(i.rd, Computed(op, a, imm)) /\ Advance /\ Keeps(<<mem, csr>>)
  \/ /\ op \in DOMAIN LoadOps
     /\ IF InMemory(at, Width(op))
        THEN Writes(i.rd, Loaded(op, Number(at \ Base))) /\ Advance /\ Keeps(<<mem, csr>>)
        ELSE Raises("LoadAccessFault")
  \/ /\ op \in DOMAIN StoreOps
     /\ IF InMemory(at, Width(op))
        THEN /\ mem' = [k \in DOMAIN mem |->
                          LET d == k - Number(at \ Base)
                          IN  IF d \in 0 .. Width(op) - 1 THEN Shr(b, 8 * d) \cap (0 .. 7)
                              ELSE mem[k]]
             /\ Advance /\ Keeps(<<x, csr>>)
        ELSE Raises("StoreAMOAccessFault")
  \/ /\ op \in DOMAIN BranchOps
     /\ IF Taken(op, a, b) THEN pc' = Plus(pc, imm) ELSE Advance
     /\ Keeps(<<x, mem, csr>>)
  \/ op = "LUI" /\ Writes(i.rd, SignExtend(Shl(imm, 12), 32)) /\ Advance /\ Keeps(<<mem, csr>>)
  \/ /\ op = "AUIPC"
     /\ Writes(i.rd, Plus(pc, SignExtend(Shl(imm, 12), 32))) /\ Advance /\ Keeps(<<mem, csr>>)
  \/ /\ op = "JAL"
     /\ Writes(i.rd, Plus(pc, {2})) /\ pc' = Plus(pc, imm) /\ Keeps(<<mem, csr>>)
  \/ op = "JALR" /\ Writes(i.rd, Plus(pc, {2})) /\ pc' = at \ {0} /\ Keeps(<<mem, csr>>)
  \/ /\ op \in DOMAIN CsrOps
     /\ Writes(i.rd, csr) /\ csr' = CsrValue(op, csr, a, Word(i.rs1))
     /\ Advance /\ Keeps(mem)
  \/ op \in {"FENCE", "WFI", "SFENCE_VMA"} /\ Advance /\ Keeps(<<x, mem, csr>>)
  \/ op \in {"SRET", "MRET"} /\ pc' = Zero /\ Keeps(<<x, mem, csr>>) \* sepc and mepc after reset
  \/ op = "ECALL" /\ Raises("EnvironmentCallFromMMode")
  \/ op = "EBREAK" /\ Raises("Breakpoint")
  \/ op = "ILLEGAL" /\ Raises("IllegalInstruction")

Next == inst # NoInst /\ inst' = NoInst /\ Execute(inst)
Spec == x[0] = Zero /\ inst \in Instructions /\ [][Next]_vars
=============================================================================
