--------------------------- MODULE MachineLemmas ---------------------------
(***************************************************************************)
(* What the operators of Words, Instructions and BranchPredictor return,   *)
(* for every size of a byte, of the buffer and of the counters, for every  *)
(* number of registers and every ALU.                                      *)
(***************************************************************************)
EXTENDS Instructions, BranchPredictor, TLAPS

\* A remainder by a positive modulus lies below it.
LEMMA ModRange ==
  ASSUME NEW x \in Int, NEW m \in Nat, m > 0
  PROVE  x % m \in 0 .. m - 1
OBVIOUS

\* Words and addresses are as many as WORD_MOD, a natural number above 1.
LEMMA WordModPositive == WORD_MOD \in Nat /\ WORD_MOD > 1
<1> DEFINE sq   == BYTE_MOD * BYTE_MOD
           cube == sq * BYTE_MOD
<1>1. sq \in Nat /\ sq > 1
  BY ByteModAssumption
<1>2. cube \in Nat /\ cube > 1
  <2> HIDE DEF sq
  <2> QED BY <1>1, ByteModAssumption
<1>3. cube * BYTE_MOD \in Nat /\ cube * BYTE_MOD > 1
  <2> HIDE DEF cube
  <2> QED BY <1>2, ByteModAssumption
<1>4. WORD_MOD = cube * BYTE_MOD
  BY DEF WORD_MOD
<1> QED BY <1>3, <1>4

\* uint32(x) is an address and int32(x) a word.
LEMMA Uint32Type == ASSUME NEW x \in Int PROVE Uint32(x) \in Addr
BY WordModPositive, ModRange DEF Uint32, Addr

LEMMA Int32Type == ASSUME NEW x \in Int PROVE Int32(x) \in Word
<1> DEFINE half == WORD_MOD \div 2
<1>1. half \in Int
  BY WordModPositive
<1>2. (x + half) % WORD_MOD \in 0 .. WORD_MOD - 1
  <2> HIDE DEF half
  <2> QED BY <1>1, WordModPositive, ModRange
<1> HIDE DEF half
<1> DEFINE rest == (x + half) % WORD_MOD
<1>3. rest \in 0 .. WORD_MOD - 1
  BY <1>2
<1>4. rest - half \in -half .. WORD_MOD - half - 1
  <2> HIDE DEF rest
  <2> QED BY <1>1, <1>3, WordModPositive
<1> QED BY <1>4 DEF Int32, Word, half

LEMMA WordIsInt == Word \subseteq Int /\ Addr \subseteq Int /\ 0 \in Word /\ 0 \in Addr
BY WordModPositive DEF Word, Addr

----------------------------------------------------------------------------
(* Conversions inside a sum.                                               *)

\* Quotient and remainder; and that they are the only ones.
LEMMA DivMod ==
  ASSUME NEW x \in Int, NEW m \in Nat \ {0}
  PROVE  x \div m \in Int /\ x % m \in 0 .. m - 1 /\ x = m * (x \div m) + (x % m)
OBVIOUS

LEMMA Multiple ==
  ASSUME NEW d \in Int, NEW m \in Nat \ {0}, -m < m * d, m * d < m
  PROVE  d = 0
<1>1. d >= 1 => m * d >= m
  OBVIOUS
<1>2. d <= -1 => m * d <= -m
  OBVIOUS
<1> QED BY <1>1, <1>2

LEMMA ModUnique ==
  ASSUME NEW m \in Nat \ {0}, NEW q \in Int, NEW r \in 0 .. m - 1
  PROVE  (m * q + r) % m = r
<1>1. PICK x \in Int : x = m * q + r
  OBVIOUS
<1>2. PICK p \in Int : p = x \div m
  BY DivMod
<1>3. PICK s \in 0 .. m - 1 : s = x % m
  BY DivMod
<1>4. x = m * p + s
  BY <1>2, <1>3, DivMod
<1>5. PICK d \in Int : d = p - q
  OBVIOUS
<1>6. PICK e \in Int : e = m * d
  OBVIOUS
<1>7. e = m * p - m * q
  BY <1>5, <1>6
<1>8. e = r - s
  <2>1. m * p \in Int /\ m * q \in Int
    OBVIOUS
  <2> QED BY <1>1, <1>4, <1>7, <2>1
<1>9. d = 0
  BY <1>6, <1>8, Multiple
<1>10. e = 0
  BY <1>6, <1>9
<1> QED BY <1>1, <1>3, <1>8, <1>10

\* Whole turns do not change a remainder.
LEMMA ModShift ==
  ASSUME NEW m \in Nat \ {0}, NEW x \in Int, NEW k \in Int
  PROVE  (x + m * k) % m = x % m
<1>1. PICK q \in Int : q = x \div m
  BY DivMod
<1>2. PICK r \in 0 .. m - 1 : r = x % m
  BY DivMod
<1>3. x = m * q + r
  BY <1>1, <1>2, DivMod
<1>4. x + m * k = m * (q + k) + r
  <2>1. m * (q + k) = m * q + m * k
    OBVIOUS
  <2>2. m * q \in Int /\ m * k \in Int
    OBVIOUS
  <2> QED BY <1>3, <2>1, <2>2
<1>5. (m * (q + k) + r) % m = r
  BY ModUnique
<1> QED BY <1>2, <1>4, <1>5

\* A conversion changes a number by a multiple of the number of words.
LEMMA Int32Shift ==
  ASSUME NEW x \in Int
  PROVE  \E k \in Int : Int32(x) = x + WORD_MOD * k
<1> DEFINE M == WORD_MOD
           h == M \div 2
<1>0. M \in Nat \ {0} /\ h \in Int
  BY WordModPositive
<1> HIDE DEF h, M
<1>1. PICK q \in Int : q = (x + h) \div M
  BY <1>0, DivMod
<1>2. x + h = M * q + ((x + h) % M)
  BY <1>0, <1>1, DivMod
<1>3. PICK r \in Int : r = (x + h) % M
  BY <1>0, DivMod
<1>4. r - h = x + M * (-q)
  <2>1. M * (-q) = -(M * q) /\ M * q \in Int
    BY <1>0
  <2> QED BY <1>0, <1>2, <1>3, <2>1
<1>5. Int32(x) = ((x + h) % M) - h
  BY DEF Int32, h, M
<1> QED BY <1>3, <1>4, <1>5 DEF M

\* What is added before and after a conversion.
LEMMA Uint32OfInt32 ==
  ASSUME NEW x \in Int, NEW y \in Int
  PROVE  Uint32(y + Int32(x)) = Uint32(y + x)
<1>1. PICK k \in Int : Int32(x) = x + WORD_MOD * k
  BY Int32Shift
<1> DEFINE M == WORD_MOD
<1>2. M \in Nat \ {0}
  BY WordModPositive
<1> HIDE DEF M
<1>3. y + (x + M * k) = (y + x) + M * k
  BY <1>2
<1>4. ((y + x) + M * k) % M = (y + x) % M
  <2>1. PICK z \in Int : z = y + x
    OBVIOUS
  <2>2. (z + M * k) % M = z % M
    BY <1>2, ModShift
  <2> QED BY <2>1, <2>2
<1> QED BY <1>1, <1>3, <1>4 DEF Uint32, M

LEMMA Int32OfInt32 ==
  ASSUME NEW x \in Int, NEW y \in Int
  PROVE  Int32(y + Int32(x)) = Int32(y + x)
<1>1. PICK k \in Int : Int32(x) = x + WORD_MOD * k
  BY Int32Shift
<1> DEFINE M == WORD_MOD
           h == M \div 2
<1>2. M \in Nat \ {0} /\ h \in Int
  BY WordModPositive
<1> HIDE DEF M, h
<1>3. (y + (x + M * k)) + h = (y + x + h) + M * k
  BY <1>2
<1>4. ((y + x + h) + M * k) % M = (y + x + h) % M
  <2>1. PICK z \in Int : z = y + x + h
    BY <1>2
  <2>2. (z + M * k) % M = z % M
    BY <1>2, ModShift
  <2> QED BY <2>1, <2>2
<1>5. \A z : Int32(z) = ((z + h) % M) - h
  BY DEF Int32, h, M
<1>6. Int32(x) = x + M * k
  BY <1>1 DEF M
<1> QED BY <1>3, <1>4, <1>5, <1>6

\* Words and addresses are what the conversions leave alone.
LEMMA Int32Idem ==
  ASSUME NEW x \in Word
  PROVE  Int32(x) = x
<1> DEFINE M == WORD_MOD
           h == M \div 2
<1>1. M \in Nat \ {0} /\ h \in Int
  BY WordModPositive
<1>2. x \in -h .. M - h - 1
  BY DEF Word
<1> HIDE DEF M, h
<1>3. x + h \in 0 .. M - 1
  BY <1>1, <1>2
<1>4. (x + h) % M = x + h
  <2>1. (M * 0 + (x + h)) % M = x + h
    BY <1>1, <1>3, ModUnique
  <2> QED BY <1>1, <1>3, <2>1
<1>5. Int32(x) = ((x + h) % M) - h
  BY DEF Int32, h, M
<1> QED BY <1>1, <1>2, <1>4, <1>5

LEMMA Uint32Idem ==
  ASSUME NEW x \in Addr
  PROVE  Uint32(x) = x
<1> DEFINE M == WORD_MOD
<1>1. M \in Nat \ {0}
  BY WordModPositive
<1>2. x \in 0 .. M - 1
  BY DEF Addr
<1> HIDE DEF M
<1>3. (M * 0 + x) % M = x
  BY <1>1, <1>2, ModUnique
<1>4. M * 0 + x = x
  BY <1>1, <1>2
<1> QED BY <1>3, <1>4 DEF Uint32, M

----------------------------------------------------------------------------
(* Memory and instructions.                                                *)

\* A store leaves bytes in memory.
LEMMA ByteOfType ==
  ASSUME NEW x \in Int, NEW i \in 0 .. WORD_SIZE - 1
  PROVE  ByteOf(x, i) \in Byte
<1>1. Uint32(x) \in Nat
  BY Uint32Type, WordModPositive DEF Addr
<1>2. Place[i] \in Nat /\ Place[i] > 0
  <2> DEFINE sq == BYTE_MOD * BYTE_MOD
  <2>1. sq \in Nat /\ sq > 0
    BY ByteModAssumption
  <2>2. sq * BYTE_MOD \in Nat /\ sq * BYTE_MOD > 0
    <3> HIDE DEF sq
    <3> QED BY <2>1, ByteModAssumption
  <2> QED BY <2>1, <2>2, ByteModAssumption DEF Place
<1> DEFINE q == Uint32(x) \div Place[i]
<1>3. q \in Int
  <2> DEFINE u == Uint32(x)
             p == Place[i]
  <2> HIDE DEF u, p
  <2>1. u \in Nat /\ p \in Nat /\ p > 0
    BY <1>1, <1>2 DEF u, p
  <2>2. u \div p \in Int
    BY <2>1
  <2> QED BY <2>2 DEF u, p
<1>4. q % BYTE_MOD \in Byte
  <2> HIDE DEF q
  <2> QED BY <1>3, ByteModAssumption, ModRange DEF Byte
<1> QED BY <1>4 DEF ByteOf

LEMMA MemoryWriteType ==
  ASSUME NEW D, NEW mem \in [D -> Byte], NEW size \in Nat,
         NEW data \in Int, NEW addr \in Int, NEW n \in {1, 2, 4}
  PROVE  memoryWrite(mem, size, data, addr, n) \in [D -> Byte]
<1>1. CASE addr % n # 0
  BY <1>1 DEF memoryWrite
<1>2. CASE addr % n = 0
  <2> DEFINE stored == {i \in 0 .. n - 1 :
                          \A j \in 0 .. i : Uint32(addr + j) < size}
             written(a) == IF \E i \in stored : a = Uint32(addr + i)
                           THEN ByteOf(data, CHOOSE i \in stored :
                                               a = Uint32(addr + i))
                           ELSE mem[a]
  <2>1. ASSUME NEW a \in DOMAIN mem PROVE written(a) \in Byte
    <3>1. CASE \E i \in stored : a = Uint32(addr + i)
      <4> DEFINE i == CHOOSE i \in stored : a = Uint32(addr + i)
      <4>1. i \in stored
        BY <3>1
      <4>2. stored \subseteq 0 .. WORD_SIZE - 1
        BY DEF WORD_SIZE
      <4>3. ByteOf(data, i) \in Byte
        <5> HIDE DEF i, stored
        <5> QED BY <4>1, <4>2, ByteOfType
      <4> QED BY <3>1, <4>3
    <3>2. CASE ~ \E i \in stored : a = Uint32(addr + i)
      BY <3>2
    <3> QED BY <3>1, <3>2
  <2>2. memoryWrite(mem, size, data, addr, n) = [a \in DOMAIN mem |-> written(a)]
    BY <1>2 DEF memoryWrite
  <2> HIDE DEF written
  <2> QED BY <2>1, <2>2
<1> QED BY <1>1, <1>2

\* An access that is not in error stays below the size.
LEMMA CellsInBounds ==
  ASSUME NEW size \in Nat, NEW addr \in Int, NEW n \in {1, 2, 4},
         AccessError(size, addr, n) = NoError
  PROVE  Cells(addr, n) \subseteq 0 .. size - 1
<1>1. ~ \E a \in Cells(addr, n) : a >= size
  BY DEF AccessError, NoError
<1>2. \A a \in Cells(addr, n) : a \in Nat
  BY Uint32Type, WordModPositive DEF Cells, Addr
<1> QED BY <1>1, <1>2

\* What an aligned access begins below a whole number of words it also ends
\* there.
LEMMA AlignedFits ==
  ASSUME NEW addr \in Nat, NEW size \in Nat, NEW n \in {1, 2, 4},
         addr % n = 0, size % 4 = 0, addr < size
  PROVE  addr + n <= size
<1>1. CASE n = 1  BY <1>1
<1>2. CASE n = 2  BY <1>2
<1>3. CASE n = 4  BY <1>3
<1> QED BY <1>1, <1>2, <1>3

\* A conversion to an address makes nothing larger.
LEMMA Uint32Below == ASSUME NEW x \in Nat PROVE Uint32(x) \in 0 .. x
BY WordModPositive DEF Uint32

\* A load returns a word, zero if it fails.
LEMMA MemoryReadType ==
  ASSUME NEW D, NEW mem \in [D -> Byte], NEW size \in Nat,
         NEW addr \in Int, NEW n \in {1, 2, 4},
         AccessError(size, addr, n) = NoError => Cells(addr, n) \subseteq D
  PROVE  memoryRead(mem, size, addr, n) \in Word
<1>1. CASE AccessError(size, addr, n) # NoError
  BY <1>1, WordIsInt DEF memoryRead
<1>2. CASE AccessError(size, addr, n) = NoError
  <2> DEFINE cell(i) == IF i < n THEN mem[Uint32(addr + i)] * Place[i] ELSE 0
  <2>1. ASSUME NEW i \in 0 .. 3 PROVE cell(i) \in Int
    <3>1. CASE i < n
      <4>1. Uint32(addr + i) \in Cells(addr, n)
        BY <3>1 DEF Cells
      <4>2. Uint32(addr + i) \in D
        BY <1>2, <4>1
      <4>3. mem[Uint32(addr + i)] \in Int
        BY <4>2, ByteModAssumption DEF Byte
      <4>4. Place[i] \in Int
        BY ByteModAssumption DEF Place, WORD_SIZE
      <4> QED BY <3>1, <4>3, <4>4
    <3>2. CASE ~(i < n)
      BY <3>2
    <3> QED BY <3>1, <3>2
  <2>2. memoryRead(mem, size, addr, n) = Int32(cell(0) + cell(1) + cell(2) + cell(3))
    BY <1>2 DEF memoryRead
  <2>3. cell(0) + cell(1) + cell(2) + cell(3) \in Int
    <3> HIDE DEF cell
    <3> QED BY <2>1
  <2> HIDE DEF cell
  <2> QED BY <2>2, <2>3, Int32Type
<1> QED BY <1>1, <1>2

----------------------------------------------------------------------------
(* Instructions.                                                           *)

\* A memory access moves one, two or four bytes.
LEMMA AccessBytesType == ASSUME NEW op PROVE AccessBytes(op) \in {1, 2, 4}
BY DEF AccessBytes

\* The same operation with the same operands, whatever else has changed.
SameAs(i, inst) ==
  /\ i \in Instruction
  /\ i.op = inst.op /\ i.Rd = inst.Rd /\ i.Rs1 = inst.Rs1 /\ i.Rs2 = inst.Rs2

\* Filling in one or two fields leaves the instruction what it is.
LEMMA FilledIn1 ==
  ASSUME NEW inst \in Instruction, NEW a \in Word
  PROVE  /\ SameAs([inst EXCEPT !.result = a], inst)
         /\ SameAs([inst EXCEPT !.imm = a], inst)
BY DEF SameAs, Instruction, RegisterOperands, Fmt_R, Fmt_I, Fmt_B, Fmt_S, isLoad

LEMMA FilledIn2 ==
  ASSUME NEW inst \in Instruction, NEW a \in Word, NEW b \in Word
  PROVE  /\ SameAs([inst EXCEPT !.s1 = a, !.s2 = b], inst)
         /\ SameAs([inst EXCEPT !.s1 = a, !.imm = b], inst)
BY DEF SameAs, Instruction, RegisterOperands, Fmt_R, Fmt_I, Fmt_B, Fmt_S, isLoad

LEMMA FilledInRemaining ==
  ASSUME NEW inst \in Instruction, NEW n \in 0 .. 3
  PROVE  SameAs([inst EXCEPT !.remaining = n], inst)
BY DEF SameAs, Instruction, RegisterOperands, Fmt_R, Fmt_I, Fmt_B, Fmt_S, isLoad

\* No operation has two formats.
LEMMA FormatsDisjoint ==
  ASSUME NEW inst
  PROVE  /\ Fmt_R(inst) => ~Fmt_I(inst) /\ ~Fmt_S(inst) /\ ~Fmt_B(inst)
                              /\ ~Fmt_U(inst) /\ ~Fmt_J(inst)
         /\ Fmt_I(inst) => ~Fmt_S(inst) /\ ~Fmt_B(inst) /\ ~Fmt_U(inst) /\ ~Fmt_J(inst)
         /\ Fmt_S(inst) => ~Fmt_B(inst) /\ ~Fmt_U(inst) /\ ~Fmt_J(inst)
         /\ Fmt_B(inst) => ~Fmt_U(inst) /\ ~Fmt_J(inst)
BY DEF Fmt_R, Fmt_I, Fmt_S, Fmt_B, Fmt_U, Fmt_J,
       R_Ops, I_Ops, S_Ops, B_Ops, U_Ops, J_Ops

\* Decoding keeps the operation and the destination.
LEMMA DecodedType ==
  ASSUME NEW inst \in Instruction, NEW regs \in [Reg -> Word]
  PROVE  SameAs(Decoded(inst, regs), inst)
<1>1. inst.Rs1 \in Word /\ inst.Rs2 \in Word /\ inst.Rd \in Reg
  BY DEF Instruction
<1>2. RegisterOperands(inst)
  BY DEF Instruction
<1>3. CASE Fmt_R(inst)
  <2>1. regs[inst.Rs1] \in Word /\ regs[inst.Rs2] \in Word
    BY <1>2, <1>3 DEF RegisterOperands
  <2>2. Decoded(inst, regs) = [inst EXCEPT !.s1 = regs[inst.Rs1],
                                           !.s2 = regs[inst.Rs2]]
    BY <1>3, FormatsDisjoint DEF Decoded
  <2> QED BY <2>1, <2>2, FilledIn2
<1>4. CASE Fmt_I(inst) /\ isLoad(inst)
  <2>1. regs[inst.Rs2] \in Word
    BY <1>2, <1>4 DEF RegisterOperands
  <2>2. Decoded(inst, regs) = [inst EXCEPT !.s1 = regs[inst.Rs2], !.imm = inst.Rs1]
    BY <1>4, FormatsDisjoint DEF Decoded
  <2> QED BY <1>1, <2>1, <2>2, FilledIn2
<1>5. CASE Fmt_I(inst) /\ ~isLoad(inst)
  <2>1. regs[inst.Rs1] \in Word
    BY <1>2, <1>5 DEF RegisterOperands
  <2>2. Decoded(inst, regs) = [inst EXCEPT !.s1 = regs[inst.Rs1], !.imm = inst.Rs2]
    BY <1>5, FormatsDisjoint DEF Decoded
  <2> QED BY <1>1, <2>1, <2>2, FilledIn2
<1>6. CASE Fmt_S(inst)
  <2>1. regs[inst.Rd] \in Word /\ regs[inst.Rs2] \in Word
    BY <1>1, <1>2, <1>6 DEF RegisterOperands
  <2>2. Decoded(inst, regs) = [inst EXCEPT !.s1 = regs[inst.Rd], !.imm = inst.Rs1,
                                           !.s2 = regs[inst.Rs2]]
    BY <1>6, FormatsDisjoint DEF Decoded
  <2> QED BY <1>1, <2>1, <2>2 DEF SameAs, Instruction, RegisterOperands,
                                  Fmt_R, Fmt_I, Fmt_B, Fmt_S, isLoad
<1>7. CASE Fmt_B(inst)
  <2>1. regs[inst.Rd] \in Word /\ regs[inst.Rs1] \in Word
    BY <1>1, <1>2, <1>7 DEF RegisterOperands
  <2>2. Decoded(inst, regs) = [inst EXCEPT !.s1 = regs[inst.Rd],
                                           !.s2 = regs[inst.Rs1], !.imm = inst.Rs2]
    BY <1>7, FormatsDisjoint DEF Decoded
  <2> QED BY <1>1, <2>1, <2>2 DEF SameAs, Instruction, RegisterOperands,
                                  Fmt_R, Fmt_I, Fmt_B, Fmt_S, isLoad
<1>8. CASE ~Fmt_R(inst) /\ ~Fmt_I(inst) /\ ~Fmt_S(inst) /\ ~Fmt_B(inst)
  <2>1. Decoded(inst, regs) = [inst EXCEPT !.imm = inst.Rs1]
    BY <1>8, FormatsDisjoint DEF Decoded
  <2> QED BY <1>1, <2>1, FilledIn1
<1> QED BY <1>3, <1>4, <1>5, <1>6, <1>7, <1>8

\* Every result is a word, every branch target an address.
LEMMA ResultType ==
  ASSUME NEW inst \in Instruction, NEW pc \in Addr
  PROVE  Result(inst, pc) \in Word
<1>1. /\ inst.s1 \in Word /\ inst.s2 \in Word /\ inst.imm \in Word
      /\ inst.result \in Word
  BY DEF Instruction
<1>2. /\ Int32(inst.s1 + inst.imm) \in Word /\ Int32(inst.s2 + inst.imm) \in Word
      /\ Int32(pc) \in Word /\ Int32(pc + 4) \in Word /\ Int32(pc + inst.imm) \in Word
  <2>1. inst.s1 \in Int /\ inst.s2 \in Int /\ inst.imm \in Int /\ pc \in Int
    BY <1>1, WordIsInt
  <2>2. /\ inst.s1 + inst.imm \in Int /\ inst.s2 + inst.imm \in Int
        /\ pc + 4 \in Int /\ pc + inst.imm \in Int
    BY <2>1
  <2> QED BY <2>1, <2>2, Int32Type
<1>3. /\ inst.op \in R_Ops => Alu(inst.op, inst.s1, inst.s2) \in Word
      /\ inst.op \in ImmAluOps => Alu(inst.op, inst.s1, inst.imm) \in Word
  BY <1>1, AluAssumption DEF AluOps
<1> QED BY <1>1, <1>2, <1>3 DEF Result

LEMMA BranchTargetType ==
  ASSUME NEW inst \in Instruction, NEW pc \in Addr
  PROVE  BranchTarget(inst, pc) \in Addr /\ NextPc(inst, pc) \in Addr
<1>1. inst.s1 \in Int /\ inst.imm \in Int /\ pc \in Int
  BY WordIsInt DEF Instruction
<1>2. /\ Uint32(inst.s1 + inst.imm) \in Addr /\ Uint32(pc + inst.imm) \in Addr
      /\ Uint32(pc + 4) \in Addr
  BY <1>1, Uint32Type
<1>3. BranchTarget(inst, pc) \in Addr
  BY <1>2, WordIsInt DEF BranchTarget
<1> QED BY <1>2, <1>3 DEF NextPc

----------------------------------------------------------------------------
(* The predictor, for every buffer size and every counter width.           *)

\* Every address has a slot, and slot and tag together are the address.
LEMMA BpIndexType ==
  ASSUME NEW pc \in Nat
  PROVE  /\ BpIndex(pc) \in Slots /\ BpTag(pc) \in Nat
         /\ pc = BpTag(pc) + BpIndex(pc)
<1>1. pc % BP_BUFFER_SIZE \in 0 .. BP_BUFFER_SIZE - 1
  BY BpSizeAssumption
<1>2. pc % BP_BUFFER_SIZE <= pc
  BY BpSizeAssumption
<1> QED BY <1>1, <1>2 DEF BpIndex, BpTag, Slots

\* A counter that moves stays between 0 and its maximum.
LEMMA MovedRange ==
  ASSUME NEW max \in Nat, NEW counter \in 0 .. max, NEW outcome \in BOOLEAN
  PROVE  Moved(counter, max, outcome) \in 0 .. max
BY DEF Moved

\* Claiming an entry keeps it an entry with a counter in range.
LEMMA ClaimedType ==
  ASSUME NEW entry \in Bp_Entry, NEW pc \in Nat
  PROVE  /\ Claimed(entry, pc) \in Bp_Entry
         /\ Claimed(entry, pc).counter \in {0, entry.counter}
         /\ Claimed(entry, pc).valid /\ Claimed(entry, pc).tag = BpTag(pc)
BY BpIndexType DEF Claimed, Bp_Entry

\* What update leaves in the entry of pc.
UpdatedEntry(buff, max, pc, target, outcome) ==
  LET entry == Claimed(buff[BpIndex(pc)], pc) IN
  [entry EXCEPT !.counter = Moved(entry.counter, max, outcome), !.target = target]

LEMMA UpdatedEntryType ==
  ASSUME NEW buff \in [Slots -> Bp_Entry], NEW max \in Nat,
         NEW pc \in Nat, NEW target \in Nat, NEW outcome \in BOOLEAN
  PROVE  LET f == UpdatedEntry(buff, max, pc, target, outcome) IN
         /\ f \in Bp_Entry
         /\ f.valid = TRUE
         /\ f.tag = BpTag(pc)
<1> DEFINE e == Claimed(buff[BpIndex(pc)], pc)
<1>1. BpIndex(pc) \in Slots /\ BpTag(pc) \in Nat
  BY BpIndexType
<1>2. e \in Bp_Entry /\ e.valid = TRUE /\ e.tag = BpTag(pc)
  BY <1>1, ClaimedType DEF Bp_Entry
<1>3. Moved(e.counter, max, outcome) \in Nat
  <2>1. e.counter \in Nat
    BY <1>2 DEF Bp_Entry
  <2> HIDE DEF e
  <2> QED BY <2>1 DEF Moved
<1> DEFINE f == [e EXCEPT !.counter = Moved(e.counter, max, outcome), !.target = target]
<1>4. f \in Bp_Entry /\ f.valid = TRUE /\ f.tag = BpTag(pc)
  <2> HIDE DEF e
  <2> QED BY <1>2, <1>3 DEF Bp_Entry
<1>5. UpdatedEntry(buff, max, pc, target, outcome) = f
  BY DEF UpdatedEntry
<1> HIDE DEF f
<1> QED BY <1>4, <1>5

\* update changes that entry and no other.
LEMMA UpdateType ==
  ASSUME NEW buff \in [Slots -> Bp_Entry], NEW max \in Nat,
         NEW pc \in Nat, NEW target \in Nat, NEW outcome \in BOOLEAN
  PROVE  update(buff, max, pc, target, outcome)
           = [buff EXCEPT ![BpIndex(pc)] = UpdatedEntry(buff, max, pc, target, outcome)]
BY DEF update, UpdatedEntry

\* A fresh buffer is a buffer.
LEMMA EmptyBufferType == EmptyBuffer \in [Slots -> Bp_Entry]
BY DEF EmptyBuffer, EmptyEntry, Bp_Entry

\* A lookup returns the target of the entry, or zero.
LEMMA LookupType ==
  ASSUME NEW buff \in [Slots -> Bp_Entry], NEW max \in Nat, NEW pc \in Nat
  PROVE  /\ predict(buff, max, pc).target \in {0, buff[BpIndex(pc)].target}
         /\ getTarget(buff, pc).target \in {0, buff[BpIndex(pc)].target}
BY DEF predict, getTarget
=============================================================================
