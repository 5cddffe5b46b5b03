------------------------------- MODULE MCIsa --------------------------------
(* Every instruction with operands in different and in equal registers, in *)
(* x0, and with immediates at the ends of their fields.  Registers x1 and  *)
(* x2 take the values around each width, and the last addresses of the     *)
(* DRAM; x0 starts with what an earlier instruction wrote to regs[0].      *)
EXTENDS Isa

Inst(op, d, s, t, imm) == [op |-> op, rd |-> d, rs1 |-> s, rs2 |-> t, imm |-> imm]

RInsts(ops) == {Inst(op, o[1], o[2], o[3], 0) : op \in ops,
                  o \in {<<3, 1, 2>>, <<1, 1, 2>>, <<0, 1, 2>>, <<31, 0, 2>>, <<3, 1, 0>>}}
IInsts(ops, imms) == {Inst(op, o[1], o[2], 0, n) : op \in ops, n \in imms,
                        o \in {<<3, 1>>, <<1, 1>>, <<0, 1>>, <<3, 0>>}}
SInsts(ops, imms) == {Inst(op, 0, o[1], o[2], n) : op \in ops, n \in imms,
                        o \in {<<1, 2>>, <<2, 1>>}}
Imm12 == {-2048, -1, 0, 5, 2047}
Shifts(top) == {0, 1, top - 1, top}

Deviating == {"SLTI", "SLTIU", "CSRRSI", "CSRRCI", "EBREAK", "WFI"}

AllInstructions ==
  RInsts(DOMAIN ROps \cup DOMAIN RWOps)
  \cup IInsts(DOMAIN IOps \cup {"ADDIW", "JALR"}, Imm12)
  \cup IInsts(DOMAIN ShiftOps, Shifts(63)) \cup IInsts(DOMAIN ShiftWOps, Shifts(31))
  \cup IInsts(DOMAIN LoadOps, {-3, 0, 4})
  \cup SInsts(DOMAIN StoreOps, {-33, 0, 4, 1024})
  \cup SInsts(DOMAIN BranchOps, {-4096, -2, 2046, 2048, 4094})
  \cup {Inst(op, d, 0, 0, n) : op \in {"LUI", "AUIPC"}, d \in {0, 3}, n \in {0, 1, 524287, 524288}}
  \cup {Inst("JAL", d, 0, 0, n) : d \in {0, 3}, n \in {-1048576, -2, 2046, 2048, 4096, 1048574}}
  \cup {Inst(op, o[1], o[2], 0, 832) : op \in DOMAIN CsrOps, o \in {<<3, 1>>, <<0, 1>>, <<3, 0>>, <<1, 1>>}}
  \cup {Inst(op, 0, 0, 0, 0) : op \in DOMAIN SystemOps \cup {"FENCE"}}
  \cup {Inst("ILLEGAL", 0, 0, 0, n) : n \in {-1, 1, \h7b, \h1013063}}

(* CSR_RS and CSR_RC read regs[rs1] after they have written regs[rd].      *)
ImplementedInstructions ==
  {i \in AllInstructions : i.op \notin Deviating
                           /\ ~(i.op \in {"CSRRS", "CSRRC"} /\ i.rd = i.rs1)}

Values == {{}, {0}, 0 .. 63, {63}, 0 .. 62, {31}, 0 .. 31, {0, 5, 32}, {0, 3, 31}}

MCRegisters ==
  {[n \in 0 .. 31 |-> CASE n = 0 -> {1, 63} [] n = 1 -> a [] n = 2 -> b [] OTHER -> {n}] :
     a \in Values, b \in Values}
=============================================================================
