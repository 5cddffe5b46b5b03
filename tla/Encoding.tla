----------------------------- MODULE Encoding -------------------------------
(* The encoding of RV64I and Zicsr, as the architecture defines it.  The   *)
(* formats give the place of each field; an instruction is a record        *)
(* [op, rd, rs1, rs2, imm] whose imm is an integer.  It stands for the     *)
(* compiler that built the program.                                        *)
EXTENDS Words

NoInst == [op |-> "NONE", rd |-> 0, rs1 |-> 0, rs2 |-> 0, imm |-> 0]

Place(n, hi, lo, at) == Shl(Shr(Word(n), lo) \cap (0 .. hi - lo), at)

ROps == [ADD |-> <<0, 0>>, SUB |-> <<0, 32>>, SLL |-> <<1, 0>>, SLT |-> <<2, 0>>,
         SLTU |-> <<3, 0>>, XOR |-> <<4, 0>>, SRL |-> <<5, 0>>, SRA |-> <<5, 32>>,
         OR |-> <<6, 0>>, AND |-> <<7, 0>>]
RWOps == [ADDW |-> <<0, 0>>, SUBW |-> <<0, 32>>, SLLW |-> <<1, 0>>, SRLW |-> <<5, 0>>,
          SRAW |-> <<5, 32>>]
IOps == [ADDI |-> 0, SLTI |-> 2, SLTIU |-> 3, XORI |-> 4, ORI |-> 6, ANDI |-> 7]
ShiftOps == [SLLI |-> <<1, 0>>, SRLI |-> <<5, 0>>, SRAI |-> <<5, 1024>>]
ShiftWOps == [SLLIW |-> <<1, 0>>, SRLIW |-> <<5, 0>>, SRAIW |-> <<5, 1024>>]
LoadOps == [LB |-> 0, LH |-> 1, LW |-> 2, LD |-> 3, LBU |-> 4, LHU |-> 5, LWU |-> 6]
StoreOps == [SB |-> 0, SH |-> 1, SW |-> 2, SD |-> 3]
BranchOps == [BEQ |-> 0, BNE |-> 1, BLT |-> 4, BGE |-> 5, BLTU |-> 6, BGEU |-> 7]
CsrOps == [CSRRW |-> 1, CSRRS |-> 2, CSRRC |-> 3, CSRRWI |-> 5, CSRRSI |-> 6, CSRRCI |-> 7]
SystemOps == [ECALL |-> 0, EBREAK |-> 1, SRET |-> \h102, WFI |-> \h105, SFENCE_VMA |-> \h120,
              MRET |-> \h302]

Fields(opcode, f3, i) ==
  Word(opcode) \cup Shl(Word(f3), 12) \cup Shl(Word(i.rd), 7) \cup Shl(Word(i.rs1), 15)
RType(opcode, f, i) == Fields(opcode, f[1], i) \cup Shl(Word(i.rs2), 20) \cup Shl(Word(f[2]), 25)
IType(opcode, f3, imm, i) == Fields(opcode, f3, i) \cup Place(imm, 11, 0, 20)
SType(opcode, f3, i) ==
  Fields(opcode, f3, [i EXCEPT !.rd = 0]) \cup Shl(Word(i.rs2), 20)
  \cup Place(i.imm, 11, 5, 25) \cup Place(i.imm, 4, 0, 7)
BType(opcode, f3, i) ==
  Fields(opcode, f3, [i EXCEPT !.rd = 0]) \cup Shl(Word(i.rs2), 20)
  \cup Place(i.imm, 12, 12, 31) \cup Place(i.imm, 10, 5, 25)
  \cup Place(i.imm, 4, 1, 8) \cup Place(i.imm, 11, 11, 7)
UType(opcode, i) == Word(opcode) \cup Shl(Word(i.rd), 7) \cup Place(i.imm, 19, 0, 12)
JType(opcode, i) ==
  Word(opcode) \cup Shl(Word(i.rd), 7) \cup Place(i.imm, 20, 20, 31)
  \cup Place(i.imm, 10, 1, 21) \cup Place(i.imm, 11, 11, 20) \cup Place(i.imm, 19, 12, 12)

Encode(i) ==
  CASE i.op \in DOMAIN ROps      -> RType(\h33, ROps[i.op], i)
    [] i.op \in DOMAIN RWOps     -> RType(\h3b, RWOps[i.op], i)
    [] i.op \in DOMAIN IOps      -> IType(\h13, IOps[i.op], i.imm, i)
    [] i.op = "ADDIW"            -> IType(\h1b, 0, i.imm, i)
    [] i.op \in DOMAIN ShiftOps  ->
         IType(\h13, ShiftOps[i.op][1], ShiftOps[i.op][2] + i.imm, i)
    [] i.op \in DOMAIN ShiftWOps ->
         IType(\h1b, ShiftWOps[i.op][1], ShiftWOps[i.op][2] + i.imm, i)
    [] i.op \in DOMAIN LoadOps   -> IType(\h03, LoadOps[i.op], i.imm, i)
    [] i.op \in DOMAIN StoreOps  -> SType(\h23, StoreOps[i.op], i)
    [] i.op \in DOMAIN BranchOps -> BType(\h63, BranchOps[i.op], i)
    [] i.op = "LUI"              -> UType(\h37, i)
    [] i.op = "AUIPC"            -> UType(\h17, i)
    [] i.op = "JAL"              -> JType(\h6f, i)
    [] i.op = "JALR"             -> IType(\h67, 0, i.imm, i)
    [] i.op = "FENCE"            -> IType(\h0f, 0, i.imm, i)
    [] i.op \in DOMAIN CsrOps    -> IType(\h73, CsrOps[i.op], i.imm, i)
    [] i.op \in DOMAIN SystemOps -> IType(\h73, 0, SystemOps[i.op], i)
    [] i.op = "ILLEGAL"          -> Word(i.imm) \cap (0 .. 31)
=============================================================================
