---------------------------- MODULE Instructions ----------------------------
(***************************************************************************)
(* The instruction set (vm/instruction.go) and what one instruction        *)
(* computes (the switches of run_decode, run_execute and run_memory in     *)
(* vm/core.go).  There is no state here: the sequential machine (Isa) and  *)
(* the five-stage machine (Pipeline) are both built from these operators.  *)
(*                                                                         *)
(* As in the code, the three operand fields Rd, Rs1, Rs2 are positional:   *)
(* each is a register number or an immediate depending on the format.      *)
(***************************************************************************)
EXTENDS Words

CONSTANTS NUM_REGS,      \* 32 in the program
          Alu(_, _, _)   \* result of an arithmetic op on its two operands

Reg == 0 .. NUM_REGS - 1
SP  == 2

R_Ops == {"add", "sub", "mul", "div", "rem", "xor", "or", "and"}
I_Ops == {"addi", "subi", "xori", "lw", "lh", "lb", "ori", "andi", "jalr",
          "slli", "srli", "srai"}
S_Ops == {"sw", "sh", "sb"}
B_Ops == {"beq", "bne", "blt", "bge"}
U_Ops == {"lui", "auipc"}
J_Ops == {"jal"}
Ops   == R_Ops \cup I_Ops \cup S_Ops \cup B_Ops \cup U_Ops \cup J_Ops
            \cup {"nop", "end"}

Loads      == {"lw", "lh", "lb"}
ImmAluOps  == I_Ops \ (Loads \cup {"jalr"})
AluOps     == R_Ops \cup ImmAluOps
ShiftOps   == {"slli", "srli", "srai"}

ASSUME NumRegsAssumption == NUM_REGS \in Nat /\ NUM_REGS > SP
ASSUME AluAssumption ==
  \A op \in AluOps, a \in Word, b \in Word : Alu(op, a, b) \in Word

newInstruction(op, rd, rs1, rs2) ==
  [op |-> op, Rd |-> rd, Rs1 |-> rs1, Rs2 |-> rs2,
   s1 |-> 0, s2 |-> 0, imm |-> 0, result |-> 0, remaining |-> 0]

ZeroInstruction == newInstruction("nop", 0, 0, 0)

----------------------------------------------------------------------------
(* Predicates on instructions.                                             *)

\* Ops without a format of their own ("nop", "end") count as R-format.
Fmt_R(inst) == inst.op \in R_Ops \cup {"nop", "end"}
Fmt_I(inst) == inst.op \in I_Ops
Fmt_S(inst) == inst.op \in S_Ops
Fmt_B(inst) == inst.op \in B_Ops
Fmt_U(inst) == inst.op \in U_Ops
Fmt_J(inst) == inst.op \in J_Ops

isLoad(inst)  == inst.op \in Loads
isStore(inst) == inst.op \in S_Ops
isConditionalBranch(inst) == Fmt_B(inst)

\* The formats whose Rd is a destination register.
WritesRd(inst) == Fmt_R(inst) \/ Fmt_I(inst) \/ Fmt_U(inst) \/ Fmt_J(inst)

\* A well-formed program: the fields used as register numbers name registers,
\* the others hold words.  The parser does not check it: a number written where
\* a register is expected is taken as one (parser.go:418-449).
RegisterOperands(inst) ==
  /\ Fmt_R(inst) \/ (Fmt_I(inst) /\ ~isLoad(inst)) \/ Fmt_B(inst)
        => inst.Rs1 \in Reg
  /\ Fmt_R(inst) \/ isLoad(inst) \/ Fmt_S(inst) => inst.Rs2 \in Reg

\* The fields s1 to remaining are filled in by the pipeline; remaining counts
\* the cycles still to be spent in the execute stage.
Instruction ==
  {inst \in [op: Ops, Rd: Reg, Rs1: Word, Rs2: Word, s1: Word, s2: Word,
             imm: Word, result: Word, remaining: 0 .. 3] : RegisterOperands(inst)}

\* As parsed.  "nop" is only the value of an empty buffer: it has no name in
\* the parser's table of opcodes.
Parsed(inst) ==
  /\ inst \in Instruction /\ inst.op # "nop"
  /\ inst = newInstruction(inst.op, inst.Rd, inst.Rs1, inst.Rs2)

\* The registers an instruction reads, <<first, second>>, -1 for none.
getSourceRegisters(inst) ==
  CASE Fmt_R(inst) -> <<inst.Rs1, inst.Rs2>>
    [] Fmt_I(inst) -> <<IF isLoad(inst) THEN inst.Rs2 ELSE inst.Rs1, -1>>
    [] Fmt_S(inst) -> <<inst.Rd, inst.Rs2>>
    [] Fmt_B(inst) -> <<inst.Rd, inst.Rs1>>
    [] OTHER       -> <<-1, -1>>

\* The same, without the datum of a store: it is not an ALU input.
getAluInputRegisters(inst) ==
  IF Fmt_S(inst) THEN <<-1, inst.Rs2>> ELSE getSourceRegisters(inst)

\* Cycles an instruction spends in the execute stage.
ExTotal(inst) == IF inst.op \in {"mul", "div", "rem"} THEN 3 ELSE 1

----------------------------------------------------------------------------
(* What one instruction computes.                                          *)

\* Decode: the operands read from the register file and the immediate.
Decoded(inst, regs) ==
  CASE Fmt_R(inst) -> [inst EXCEPT !.s1 = regs[inst.Rs1],
                                   !.s2 = regs[inst.Rs2]]
    [] Fmt_I(inst) -> IF isLoad(inst)
                      THEN [inst EXCEPT !.s1 = regs[inst.Rs2], !.imm = inst.Rs1]
                      ELSE [inst EXCEPT !.s1 = regs[inst.Rs1], !.imm = inst.Rs2]
    [] Fmt_S(inst) -> [inst EXCEPT !.s1 = regs[inst.Rd], !.imm = inst.Rs1,
                                   !.s2 = regs[inst.Rs2]]
    [] Fmt_B(inst) -> [inst EXCEPT !.s1 = regs[inst.Rd], !.s2 = regs[inst.Rs1],
                                   !.imm = inst.Rs2]
    [] OTHER       -> [inst EXCEPT !.imm = inst.Rs1]

\* Go panics on an integer division by zero and on a negative shift count.
Panics(inst) ==
  \/ inst.op \in {"div", "rem"} /\ inst.s2 = 0
  \/ inst.op \in ShiftOps /\ inst.imm < 0

\* Execute: the result field (the address, for loads and stores).
Result(inst, pc) ==
  CASE inst.op \in R_Ops     -> Alu(inst.op, inst.s1, inst.s2)
    [] inst.op \in ImmAluOps -> Alu(inst.op, inst.s1, inst.imm)
    [] isLoad(inst)          -> Int32(inst.s1 + inst.imm)
    [] isStore(inst)         -> Int32(inst.s2 + inst.imm)
    [] inst.op = "jalr"      -> Int32(pc)
    [] inst.op = "jal"       -> Int32(pc + 4)
    [] inst.op = "lui"       -> inst.imm
    [] inst.op = "auipc"     -> Int32(pc + inst.imm)
    [] OTHER                 -> inst.result

Taken(inst) ==
  \/ inst.op = "beq" /\ inst.s1 = inst.s2
  \/ inst.op = "bne" /\ inst.s1 # inst.s2
  \/ inst.op = "blt" /\ inst.s1 < inst.s2
  \/ inst.op = "bge" /\ inst.s1 >= inst.s2
  \/ inst.op \in {"jal", "jalr"}

\* A slip: no conversion to uint32.
BranchTargetUnwrapped(inst, pc) ==
  IF inst.op = "jalr" THEN inst.s1 + inst.imm ELSE pc + inst.imm

\* The variable branch_target; "bge" only sets it when it is taken.
BranchTarget(inst, pc) ==
  CASE inst.op = "jalr" -> Uint32(inst.s1 + inst.imm)
    [] inst.op = "bge" /\ ~Taken(inst) -> 0
    [] OTHER -> Uint32(pc + inst.imm)

\* The address of the instruction that follows in program order.
NextPc(inst, pc) == IF Taken(inst) THEN BranchTarget(inst, pc) ELSE Uint32(pc + 4)

----------------------------------------------------------------------------
(* Memory accesses: n bytes at addr, little-endian.                        *)

AccessBytes(op) == CASE op \in {"sw", "lw"} -> 4
                     [] op \in {"sh", "lh"} -> 2
                     [] OTHER               -> 1

NoError == "none"

Cells(addr, n) == {Uint32(addr + i) : i \in 0 .. n - 1}

AccessError(mem_size, addr, n) ==
  IF addr % n # 0 THEN "unaligned"
  ELSE IF \E a \in Cells(addr, n) : a >= mem_size THEN "out_of_bounds"
  ELSE NoError

\* The bytes are stored one by one until one of them is out of bounds.
memoryWrite(mem, mem_size, data, addr, n) ==
  IF addr % n # 0 THEN mem
  ELSE LET stored == {i \in 0 .. n - 1 :
                        \A j \in 0 .. i : Uint32(addr + j) < mem_size}
       IN  [a \in DOMAIN mem |->
              IF \E i \in stored : a = Uint32(addr + i)
              THEN ByteOf(data, CHOOSE i \in stored : a = Uint32(addr + i))
              ELSE mem[a]]

memoryRead(mem, mem_size, addr, n) ==
  IF AccessError(mem_size, addr, n) # NoError THEN 0
  ELSE LET cell(i) == IF i < n THEN mem[Uint32(addr + i)] * Place[i] ELSE 0
       IN  Int32(cell(0) + cell(1) + cell(2) + cell(3))
=============================================================================
