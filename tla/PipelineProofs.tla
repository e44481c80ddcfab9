--------------------------- MODULE PipelineProofs ---------------------------
(***************************************************************************)
(* The five-stage machine, for every program, every configuration, every   *)
(* size of byte, register file and predictor: its types, that no stage     *)
(* writes over an instruction in flight, and that every branch stall has   *)
(* somebody who will resolve it.                                           *)
(***************************************************************************)
EXTENDS Pipeline, MachineLemmas

Buffers == [{W, R} -> Pipeline_Buffer]

\* What is in front of execute or in it has cycles left to spend there.
Unexecuted(buff) == \A i \in {W, R} : buff[i].valid => buff[i].inst.remaining > 0

\* What the stages rely on and keep, apart from the memory: a session may be
\* given a configuration that does not fit the memory it has (VmSession).
Core ==
  /\ program \in Seq(Instruction) /\ pc_init \in Addr
  /\ \A i \in DOMAIN program : Parsed(program[i])
  /\ config \in Configs
  /\ Pc \in Addr
  /\ RegData \in [Reg -> Word] /\ RegBusy \in [Reg -> Int]
  /\ Bp \in [Slots -> Bp_Entry] /\ \A i \in Slots : Bp[i].target \in Addr
  /\ control_buff \in [{W, R} -> Control_Buffer]
  /\ fd_buff \in Buffers /\ dx_buff \in Buffers
  /\ xm_buff \in Buffers /\ mw_buff \in Buffers
  /\ Unexecuted(fd_buff) /\ Unexecuted(dx_buff)
  /\ stall_map \subseteq {"RAW", "BRANCH"}
  /\ halt \in BOOLEAN /\ Halted \in BOOLEAN
  /\ Runtime_error \in MemoryErrors
  /\ phase \in Phases

IInv == Core /\ Memory \in [0 .. config.Mem_size - 1 -> Byte]

----------------------------------------------------------------------------
(* The operations on pipeline buffers.                                     *)

LEMMA FilledType ==
  ASSUME NEW buff \in Buffers, NEW pc \in Addr, NEW inst \in Instruction
  PROVE  /\ Filled(buff, pc, inst) \in Buffers
         /\ Filled(buff, pc, inst)[W].valid = TRUE
BY DEF Filled, Buffers, Pipeline_Buffer, W, R

LEMMA DrainedType ==
  ASSUME NEW buff \in Buffers
  PROVE  /\ Drained(buff) \in Buffers
         /\ \A i \in {W, R} : /\ Drained(buff)[i].valid = FALSE
                              /\ Drained(buff)[i].inst = buff[i].inst
BY DEF Drained, Buffers, Pipeline_Buffer, W, R

LEMMA ShiftedType ==
  ASSUME NEW buff \in Buffers
  PROVE  /\ Shifted(buff) \in Buffers
         /\ Shifted(buff)[R] = buff[W]
         /\ Shifted(buff)[W].valid = FALSE
         /\ Shifted(buff)[W].inst = buff[W].inst
<1>1. buff[W] \in Pipeline_Buffer
  BY DEF Buffers
<1>2. [buff[W] EXCEPT !.valid = FALSE] \in Pipeline_Buffer
  BY <1>1 DEF Pipeline_Buffer
<1>3. /\ Shifted(buff)[R] = buff[W]
      /\ Shifted(buff)[W] = [buff[W] EXCEPT !.valid = FALSE]
  BY DEF Shifted, W, R
<1> QED BY <1>1, <1>2, <1>3 DEF Shifted, Buffers, Pipeline_Buffer, W, R

\* A buffer that is filled with an unexecuted instruction, drained or
\* shifted still holds unexecuted instructions only.
LEMMA KeepsUnexecuted ==
  ASSUME NEW buff \in Buffers, Unexecuted(buff)
  PROVE  /\ Unexecuted(Drained(buff))
         /\ Unexecuted(Shifted(buff))
         /\ \A pc \in Addr, inst \in Instruction :
               inst.remaining > 0 => Unexecuted(Filled(buff, pc, inst))
<1>1. Unexecuted(Drained(buff))
  BY DrainedType DEF Unexecuted
<1>2. Unexecuted(Shifted(buff))
  BY ShiftedType DEF Unexecuted
<1>3. ASSUME NEW pc \in Addr, NEW inst \in Instruction, inst.remaining > 0
      PROVE  Unexecuted(Filled(buff, pc, inst))
  BY <1>3 DEF Unexecuted, Filled, Buffers, W, R
<1> QED BY <1>1, <1>2, <1>3

\* The buffers of a new machine are empty.
LEMMA ZeroType == ZeroInstruction \in Instruction
BY WordIsInt, NumRegsAssumption
   DEF ZeroInstruction, newInstruction, Instruction, RegisterOperands, Ops, Reg, SP

LEMMA EmptyType ==
  EmptyPipelineBuffer \in Buffers /\ Unexecuted(EmptyPipelineBuffer)
BY ZeroType, WordIsInt DEF EmptyPipelineBuffer, Buffers, Pipeline_Buffer, Unexecuted

LEMMA SignalType ==
  ASSUME control_buff \in [{W, R} -> Control_Buffer], NEW target \in Addr,
         NEW flags \in SUBSET {"BRANCH", "FLUSH"}, Signal(target, flags)
  PROVE  control_buff' \in [{W, R} -> Control_Buffer]
BY DEF Signal, Control_Buffer, W, R

\* Training the predictor keeps its targets addresses.
LEMMA LearnType ==
  ASSUME Core, NEW pc \in Addr, NEW target \in Addr, NEW taken \in BOOLEAN,
         Learn(pc, target, taken)
  PROVE  Bp' \in [Slots -> Bp_Entry] /\ \A i \in Slots : Bp'[i].target \in Addr
<1> DEFINE f == UpdatedEntry(Bp, max_counter, pc, target, taken)
<1>1. pc \in Nat /\ target \in Nat /\ max_counter \in Nat
  BY ConfigsAssumption, WordModPositive DEF Core, Addr, max_counter
<1>2. Bp \in [Slots -> Bp_Entry] /\ \A i \in Slots : Bp[i].target \in Addr
  BY DEF Core
<1>3. Bp' = [Bp EXCEPT ![BpIndex(pc)] = f]
  BY <1>1, <1>2, UpdateType DEF Learn
<1>4. f \in Bp_Entry /\ f.valid = TRUE /\ f.tag = BpTag(pc)
  BY <1>1, <1>2, UpdatedEntryType
<1>5. f.target = target
  <2> DEFINE c == Claimed(Bp[BpIndex(pc)], pc)
  <2>1. c \in Bp_Entry
    BY <1>1, <1>2, BpIndexType, ClaimedType
  <2>2. f = [c EXCEPT !.counter = Moved(c.counter, max_counter, taken),
                      !.target = target]
    BY DEF UpdatedEntry
  <2> HIDE DEF c, f
  <2> QED BY <2>1, <2>2 DEF Bp_Entry
<1>6. BpIndex(pc) \in Slots
  BY <1>1, BpIndexType
<1> HIDE DEF f
<1> QED BY <1>2, <1>3, <1>4, <1>5, <1>6

LEMMA TakenType == ASSUME NEW inst PROVE Taken(inst) \in BOOLEAN
BY DEF Taken

\* The instruction that leaves execute is the one that entered it.
LEMMA ExecutedType ==
  ASSUME Core, dx_buff[R].valid
  PROVE  SameAs(Executed, dx_buff[R].inst) /\ dx_buff[R].pc \in Addr
<1> DEFINE inst == dx_buff[R].inst
           regs == getAluInputRegisters(inst)
           b1 == getRegValueFromBypass(regs[1], inst.s1)
           b2 == getRegValueFromBypass(regs[2], inst.s2)
           latched == IF inst.remaining = ExTotal(inst)
                      THEN [inst EXCEPT !.s1 = b1, !.s2 = b2] ELSE inst
<1>1. /\ inst \in Instruction /\ inst.remaining > 0 /\ dx_buff[R].pc \in Addr
      /\ xm_buff[R].inst \in Instruction /\ mw_buff[R].inst \in Instruction
  BY DEF Core, Unexecuted, Buffers, Pipeline_Buffer
<1>2. /\ inst.s1 \in Word /\ inst.s2 \in Word
      /\ xm_buff[R].inst.result \in Word /\ mw_buff[R].inst.result \in Word
  BY <1>1 DEF Instruction
<1>3. b1 \in Word /\ b2 \in Word
  BY <1>2 DEF getRegValueFromBypass
<1>4. SameAs(latched, inst) /\ latched.remaining = inst.remaining
  <2>1. SameAs([inst EXCEPT !.s1 = b1, !.s2 = b2], inst)
    <3> HIDE DEF b1, b2
    <3> QED BY <1>1, <1>3, FilledIn2
  <2>2. [inst EXCEPT !.s1 = b1, !.s2 = b2].remaining = inst.remaining
    BY <1>1 DEF Instruction
  <2>3. SameAs(inst, inst)
    BY <1>1 DEF SameAs
  <2> QED BY <2>1, <2>2, <2>3
<1>5. Executed = [latched EXCEPT !.remaining = @ - 1]
  BY DEF Executed
<1> HIDE DEF latched
<1>6. latched.remaining - 1 \in 0 .. 3
  BY <1>1, <1>4 DEF Instruction
<1>7. SameAs([latched EXCEPT !.remaining = latched.remaining - 1], latched)
  BY <1>4, <1>6, FilledInRemaining DEF SameAs
<1> QED BY <1>1, <1>4, <1>5, <1>7 DEF SameAs

----------------------------------------------------------------------------
(* The initial states and the actions.                                     *)

LEMMA InitIInv == Init => IInv
<1> SUFFICES ASSUME Init PROVE IInv
  OBVIOUS
<1>1. PICK p \in Programs : program = p.code /\ pc_init = 4 * p.entry
  BY DEF Init
<1>2. /\ program \in Seq(Instruction) /\ pc_init \in Addr
      /\ \A i \in DOMAIN program : Parsed(program[i])
  BY <1>1, ProgramsAssumption
<1>3. config \in Configs /\ config.Mem_size \in Nat
  BY ConfigsAssumption DEF Init, Config
<1>4. RegData \in [Reg -> Word] /\ RegBusy \in [Reg -> Int]
  <2>1. Int32(config.Mem_size) \in Word
    BY <1>3, Int32Type
  <2> QED BY <2>1, WordIsInt DEF Init
<1>5. Memory \in [0 .. config.Mem_size - 1 -> Byte]
  BY <1>3, ByteModAssumption DEF Init, Byte
<1>6. Bp \in [Slots -> Bp_Entry] /\ \A i \in Slots : Bp[i].target \in Addr
  BY EmptyBufferType, WordIsInt DEF Init, EmptyBuffer, EmptyEntry
<1>7. control_buff \in [{W, R} -> Control_Buffer]
  BY WordIsInt DEF Init, NoSignal, Control_Buffer
<1>8. EmptyPipelineBuffer \in Buffers /\ Unexecuted(EmptyPipelineBuffer)
  BY EmptyType
<1>9. /\ fd_buff = EmptyPipelineBuffer /\ dx_buff = EmptyPipelineBuffer
      /\ xm_buff = EmptyPipelineBuffer /\ mw_buff = EmptyPipelineBuffer
      /\ stall_map = {} /\ halt = FALSE /\ Halted = FALSE
      /\ Runtime_error = NoError /\ phase = "control" /\ Pc = pc_init
  BY DEF Init
<1> QED BY <1>2, <1>3, <1>4, <1>5, <1>6, <1>7, <1>8, <1>9
        DEF IInv, Core, MemoryErrors, Phases

LEMMA RunControlCore == ASSUME Core, RunControl PROVE Core'
<1>0. fd_buff \in Buffers /\ dx_buff \in Buffers
  BY DEF Core, Buffers
<1>1. control_buff[R] \in Control_Buffer
  BY <1>0 DEF Core
<1>2. Pc' \in Addr /\ stall_map' \subseteq {"RAW", "BRANCH"}
  BY <1>0, <1>1 DEF RunControl, Control_Buffer, Core
<1>3. /\ RegBusy' \in [Reg -> Int] /\ halt' \in BOOLEAN
      /\ fd_buff' \in Buffers /\ dx_buff' \in Buffers
      /\ Unexecuted(fd_buff)' /\ Unexecuted(dx_buff)'
  <2>1. CASE flush /\ halt
    BY <1>0, <2>1 DEF flush, Core, Unexecuted
  <2>2. CASE flush /\ ~halt
    <3>1. fd_buff' = Drained(fd_buff) /\ dx_buff' = Drained(dx_buff) /\ halt' = halt
      BY <2>2 DEF flush
    <3>2. RegBusy' \in [Reg -> Int]
      BY <1>0, <2>2 DEF flush, Core
    <3> QED BY <1>0, <3>1, <3>2, DrainedType, KeepsUnexecuted DEF Core, Unexecuted
  <2>3. CASE UNCHANGED <<halt, RegBusy, fd_buff, dx_buff>>
    BY <1>0, <2>3 DEF Core, Unexecuted
  <2> QED BY <2>1, <2>2, <2>3 DEF RunControl
<1> QED BY <1>0, <1>2, <1>3
        DEF Core, RunControl, setup, Buffers, MemoryErrors, Phases, NoError

LEMMA RunWritebackCore == ASSUME Core, RunWriteback PROVE Core'
<1>1. mw_buff[R].inst.result \in Word /\ mw_buff[R].inst.Rd \in Reg
  BY DEF Core, Buffers, Pipeline_Buffer, Instruction
<1>2. RegData' \in [Reg -> Word] /\ RegBusy' \in [Reg -> Int]
  <2>1. RegData \in [Reg -> Word] /\ RegBusy \in [Reg -> Int]
    BY DEF Core
  <2> DEFINE inst == mw_buff[R].inst
  <2>2. CASE WritesRd(inst)
    <3>1. RegBusy' = [RegBusy EXCEPT ![inst.Rd] = @ - 1]
      BY <2>2 DEF RunWriteback
    <3>2. \/ RegData' = RegData
          \/ RegData' = [RegData EXCEPT ![inst.Rd] = inst.result]
      BY <2>2 DEF RunWriteback
    <3> HIDE DEF inst
    <3> QED BY <1>1, <2>1, <3>1, <3>2 DEF inst
  <2>3. CASE ~WritesRd(inst)
    BY <2>1, <2>3 DEF RunWriteback
  <2> QED BY <2>2, <2>3
<1> QED BY <1>2 DEF Core, RunWriteback, setup, Phases, Unexecuted

\* What a load takes from memory is a word.
LoadsWord ==
  LET inst == xm_buff[R].inst IN
  isLoad(inst) =>
    memoryRead(Memory, config.Mem_size, Uint32(inst.result), AccessBytes(inst.op)) \in Word

LEMMA RunMemoryCore == ASSUME Core, LoadsWord, RunMemory PROVE Core'
<1> DEFINE inst  == xm_buff[R].inst
           addr  == Uint32(inst.result)
           n     == AccessBytes(inst.op)
           size  == config.Mem_size
<1>1. mw_buff \in Buffers /\ inst \in Instruction /\ xm_buff[R].pc \in Addr
  BY DEF Core, Buffers, Pipeline_Buffer
<1>2. mw_buff' \in Buffers
  <2> DEFINE data == memoryRead(Memory, size, addr, n)
             out  == IF isLoad(inst) THEN [inst EXCEPT !.result = data] ELSE inst
  <2>1. isLoad(inst) => data \in Word
    BY DEF LoadsWord
  <2>2. out \in Instruction
    <3> HIDE DEF inst, data
    <3> QED BY <1>1, <2>1, FilledIn1 DEF SameAs
  <2>3. mw_buff' = Filled(mw_buff, xm_buff[R].pc, out)
    BY DEF RunMemory
  <2> HIDE DEF out
  <2> QED BY <1>1, <2>2, <2>3, FilledType
<1>3. Runtime_error' \in MemoryErrors /\ halt' \in BOOLEAN
  <2>1. AccessError(size, addr, n) \in MemoryErrors
    BY DEF AccessError, MemoryErrors
  <2> QED BY <2>1 DEF RunMemory, Core, MemoryErrors
<1> QED BY <1>2, <1>3 DEF Core, RunMemory, setup, Phases, Unexecuted

LEMMA RunExecuteCycleCore == ASSUME Core, RunExecuteCycle PROVE Core'
<1>0. dx_buff \in Buffers /\ Unexecuted(dx_buff)
  BY DEF Core, Buffers
<1>1. /\ Executed \in Instruction /\ Executed.remaining > 0 /\ dx_buff[R].pc \in Addr
      /\ dx_buff' = Filled(dx_buff, dx_buff[R].pc, Executed)
  BY ExecutedType DEF RunExecuteCycle, SameAs
<1>2. dx_buff' \in Buffers /\ Unexecuted(dx_buff)'
  BY <1>0, <1>1, FilledType, KeepsUnexecuted DEF Unexecuted
<1> QED BY <1>0, <1>2
        DEF Core, RunExecuteCycle, setup, Phases, Unexecuted, Buffers

LEMMA RunExecuteCore == ASSUME Core, RunExecute PROVE Core'
<1> DEFINE inst   == Executed
           pc     == dx_buff[R].pc
           target == BranchTarget(inst, pc)
<1>0. xm_buff \in Buffers
  BY DEF Core, Buffers
<1>1. inst \in Instruction /\ pc \in Addr
  BY ExecutedType DEF RunExecute, SameAs
<1>2. /\ Result(inst, pc) \in Word /\ target \in Addr /\ NextPc(inst, pc) \in Addr
      /\ Taken(inst) \in BOOLEAN
  <2>1. Taken(inst) \in BOOLEAN
    BY TakenType
  <2> HIDE DEF inst, pc
  <2> QED BY <1>1, <2>1, ResultType, BranchTargetType
<1>3. xm_buff' \in Buffers
  <2> DEFINE out == [inst EXCEPT !.result = Result(inst, pc)]
  <2>1. out \in Instruction
    <3> HIDE DEF inst, pc
    <3> QED BY <1>1, <1>2, FilledIn1 DEF SameAs
  <2>2. xm_buff' = Filled(xm_buff, pc, out)
    BY DEF RunExecute
  <2> HIDE DEF out, pc
  <2> QED BY <1>0, <1>1, <2>1, <2>2, FilledType
<1>4. /\ control_buff' \in [{W, R} -> Control_Buffer]
      /\ Bp' \in [Slots -> Bp_Entry] /\ \A i \in Slots : Bp'[i].target \in Addr
  <2> HIDE DEF inst, pc, target
  <2>0. /\ control_buff \in [{W, R} -> Control_Buffer]
        /\ Bp \in [Slots -> Bp_Entry] /\ \A i \in Slots : Bp[i].target \in Addr
    BY <1>0 DEF Core
  <2>1. ASSUME NEW taken \in BOOLEAN, Learn(pc, target, taken)
        PROVE  Bp' \in [Slots -> Bp_Entry] /\ \A i \in Slots : Bp'[i].target \in Addr
    BY <1>0, <1>1, <1>2, <2>1, LearnType
  <2>2. ASSUME NEW t \in Addr, NEW flags \in SUBSET {"BRANCH", "FLUSH"}, Signal(t, flags)
        PROVE  control_buff' \in [{W, R} -> Control_Buffer]
    BY <2>0, <2>2, SignalType
  <2>3. CASE ResolveBranch(inst, pc, target, Taken(inst))
    BY <1>2, <2>0, <2>1, <2>2, <2>3 DEF ResolveBranch
  <2>4. CASE ResolveJalr(pc, target)
    BY <1>2, <2>0, <2>1, <2>2, <2>4 DEF ResolveJalr
  <2>5. CASE UNCHANGED <<control_buff, Bp>>
    BY <2>0, <2>5
  <2> QED BY <2>3, <2>4, <2>5 DEF RunExecute, inst, pc, target
<1> QED BY <1>0, <1>3, <1>4
        DEF Core, RunExecute, setup, Phases, Unexecuted, Buffers

LEMMA RunDecodeStallCore == ASSUME Core, RunDecodeStall PROVE Core'
<1>0. fd_buff \in Buffers /\ Unexecuted(fd_buff)
  BY DEF Core, Buffers
<1>1. fd_buff' = [fd_buff EXCEPT ![W] = fd_buff[R]]
  BY DEF RunDecodeStall
<1>2. fd_buff' \in Buffers /\ Unexecuted(fd_buff)'
  BY <1>0, <1>1 DEF Buffers, Unexecuted, W, R
<1>3. stall_map' \subseteq {"RAW", "BRANCH"}
  BY <1>0 DEF RunDecodeStall, Core
<1> QED BY <1>0, <1>2, <1>3
        DEF Core, RunDecodeStall, setup, Phases, Unexecuted, Buffers

LEMMA RunDecodeCore == ASSUME Core, RunDecode PROVE Core'
<1> DEFINE inst == fd_buff[R].inst
           pc   == fd_buff[R].pc
           out  == Decoded(inst, RegData)
<1>0. dx_buff \in Buffers /\ Unexecuted(dx_buff)
  BY DEF Core, Buffers
<1>1. inst \in Instruction /\ inst.remaining > 0 /\ pc \in Addr
  BY DEF Core, Unexecuted, Buffers, Pipeline_Buffer, RunDecode
<1>2. out \in Instruction
  BY <1>0, <1>1, DecodedType DEF SameAs, Core
<1>3. out.remaining = inst.remaining
  BY <1>1 DEF Decoded, Instruction
<1>4. dx_buff' \in Buffers /\ Unexecuted(dx_buff)'
  <2>1. dx_buff' = Filled(dx_buff, pc, out)
    BY DEF RunDecode
  <2> HIDE DEF out
  <2> QED BY <1>0, <1>1, <1>2, <1>3, <2>1, FilledType, KeepsUnexecuted DEF Unexecuted
<1>5. RegBusy' \in [Reg -> Int]
  <2>1. RegBusy \in [Reg -> Int] /\ inst.Rd \in Reg
    BY <1>0, <1>1 DEF Core, Instruction
  <2>2. \/ RegBusy' = RegBusy
        \/ RegBusy' = [RegBusy EXCEPT ![inst.Rd] = @ + 1]
    BY DEF RunDecode
  <2> HIDE DEF inst
  <2> QED BY <2>1, <2>2
<1>6. Pc' \in Addr
  <2>1. inst.Rs1 \in Int /\ pc \in Int
    BY <1>1, WordIsInt DEF Instruction
  <2>2. pc + inst.Rs1 \in Int
    BY <2>1
  <2> QED BY <1>0, <2>2, Uint32Type DEF RunDecode, Core
<1>7. stall_map' \subseteq {"RAW", "BRANCH"}
  BY <1>0 DEF RunDecode, Core
<1> QED BY <1>0, <1>4, <1>5, <1>6, <1>7
        DEF Core, RunDecode, setup, Phases, Unexecuted, Buffers

LEMMA RunFetchEndCore == ASSUME Core, RunFetchEnd PROVE Core'
BY DEF Core, RunFetchEnd, setup, Phases, Unexecuted

\* The instruction at Pc is one of the program.
LEMMA FetchedType ==
  ASSUME Core, ~AtEnd
  PROVE  Fetched \in Instruction /\ Parsed(Fetched)
<1>1. Pc \in Nat /\ program \in Seq(Instruction)
  BY WordModPositive DEF Core, Addr
<1>2. Pc \div 4 \in Nat /\ Pc \div 4 < Len(program)
  BY <1>1 DEF AtEnd, Program_size
<1>3. (Pc \div 4) + 1 \in DOMAIN program
  BY <1>1, <1>2
<1> QED BY <1>3 DEF Fetched, Parsed, Core

LEMMA RunFetchCore == ASSUME Core, RunFetch PROVE Core'
<1> DEFINE out == [Fetched EXCEPT !.remaining = ExTotal(Fetched)]
<1>0. /\ fd_buff \in Buffers /\ Unexecuted(fd_buff)
      /\ Pc \in Addr /\ Pc \in Nat /\ max_counter \in Nat
  BY ConfigsAssumption, WordModPositive DEF Core, Buffers, Addr, max_counter
<1>1. Fetched \in Instruction
  BY <1>0, FetchedType DEF RunFetch
<1>2. ExTotal(Fetched) \in {1, 3}
  BY DEF ExTotal
<1>3. out \in Instruction /\ out.remaining > 0
  <2>1. out \in Instruction
    <3>1. ExTotal(Fetched) \in 0 .. 3
      BY <1>2
    <3>2. SameAs(out, Fetched)
      BY <1>1, <3>1, FilledInRemaining
    <3> QED BY <3>2 DEF SameAs
  <2>2. out.remaining = ExTotal(Fetched)
    BY <1>1 DEF Instruction
  <2> QED BY <1>2, <2>1, <2>2
<1>4. fd_buff' \in Buffers /\ Unexecuted(fd_buff)'
  <2>1. fd_buff' = Filled(fd_buff, Pc, out)
    BY DEF RunFetch
  <2> HIDE DEF out
  <2> QED BY <1>0, <1>3, <2>1, FilledType, KeepsUnexecuted DEF Unexecuted
<1>5. control_buff' \in [{W, R} -> Control_Buffer]
  <2>1. Guess.target \in Addr
    <3>1. BpIndex(Pc) \in Slots /\ Bp[BpIndex(Pc)].target \in Addr /\ 0 \in Addr
      BY <1>0, BpIndexType, WordIsInt DEF Core
    <3>2. predict(Bp, max_counter, Pc).target \in Addr /\ getTarget(Bp, Pc).target \in Addr
      BY <3>1 DEF predict, getTarget
    <3> QED BY <3>1, <3>2 DEF Guess
  <2>2. CASE Signal(Guess.target, {"BRANCH"})
    BY <1>0, <2>1, <2>2, SignalType DEF Core
  <2>3. CASE UNCHANGED control_buff
    BY <1>0, <2>3 DEF Core
  <2> QED BY <2>2, <2>3 DEF RunFetch
<1>6. Pc' \in Addr
  <2>1. Pc + 4 \in Int
    BY <1>0
  <2> QED BY <2>1, Uint32Type DEF RunFetch
<1>7. stall_map' \subseteq {"RAW", "BRANCH"}
  BY <1>0 DEF RunFetch, Core
<1> QED BY <1>0, <1>4, <1>5, <1>6, <1>7
        DEF Core, RunFetch, setup, Phases, Unexecuted, Buffers

LEMMA ShiftCore == ASSUME Core, ShiftPipelineBuffers PROVE Core'
<1>0. /\ fd_buff \in Buffers /\ dx_buff \in Buffers
      /\ xm_buff \in Buffers /\ mw_buff \in Buffers
      /\ Unexecuted(fd_buff) /\ Unexecuted(dx_buff)
  BY DEF Core, Buffers
<1>1. /\ fd_buff' \in Buffers /\ dx_buff' \in Buffers
      /\ xm_buff' \in Buffers /\ mw_buff' \in Buffers
      /\ Unexecuted(fd_buff)' /\ Unexecuted(dx_buff)'
  BY <1>0, ShiftedType, KeepsUnexecuted DEF ShiftPipelineBuffers, Unexecuted
<1>2. control_buff' \in [{W, R} -> Control_Buffer]
  BY <1>0, WordIsInt DEF ShiftPipelineBuffers, Core, NoSignal, Control_Buffer
<1> QED BY <1>0, <1>1, <1>2
        DEF Core, ShiftPipelineBuffers, setup, Phases, Buffers

LEMMA UnchangedCore ==
  ASSUME Core,
         UNCHANGED <<setup, Pc, RegData, RegBusy, Memory, Bp, control_buff, fd_buff,
                     dx_buff, xm_buff, mw_buff, stall_map, halt, Halted, Runtime_error>>,
         phase' \in Phases
  PROVE  Core'
BY DEF Core, setup, Unexecuted

LEMMA StepCore == ASSUME Core, Step, RunMemory => LoadsWord PROVE Core'
<1>1. CASE RunControl            BY <1>1, RunControlCore
<1>2. CASE RunWriteback          BY <1>2, RunWritebackCore
<1>3. CASE RunMemory             BY <1>3, RunMemoryCore
<1>4. CASE RunExecuteCycle       BY <1>4, RunExecuteCycleCore
<1>5. CASE RunExecutePanic       BY <1>5, UnchangedCore DEF RunExecutePanic, Phases
<1>6. CASE RunExecute            BY <1>6, RunExecuteCore
<1>7. CASE RunDecodeStall        BY <1>7, RunDecodeStallCore
<1>8. CASE RunDecode             BY <1>8, RunDecodeCore
<1>9. CASE RunFetchEnd           BY <1>9, RunFetchEndCore
<1>10. CASE RunFetch             BY <1>10, RunFetchCore
<1>11. CASE Bubble               BY <1>11, UnchangedCore DEF Bubble, Phases
<1>12. CASE ShiftPipelineBuffers BY <1>12, ShiftCore
<1> QED BY <1>1, <1>2, <1>3, <1>4, <1>5, <1>6, <1>7, <1>8, <1>9, <1>10, <1>11,
           <1>12 DEF Step

\* The instruction in memory moves its bytes between words and cells.
LEMMA AccessType ==
  ASSUME Core
  PROVE  LET inst == xm_buff[R].inst IN
         /\ inst \in Instruction /\ inst.s1 \in Int /\ Uint32(inst.result) \in Addr
         /\ Uint32(inst.result) \in Int
         /\ AccessBytes(inst.op) \in {1, 2, 4} /\ config.Mem_size \in Nat
<1>1. xm_buff[R].inst \in Instruction
  BY DEF Core, Buffers, Pipeline_Buffer
<1>2. xm_buff[R].inst.result \in Int /\ xm_buff[R].inst.s1 \in Int
  BY <1>1, WordIsInt DEF Instruction
<1> QED BY <1>1, <1>2, Uint32Type, WordIsInt, AccessBytesType, ConfigsAssumption DEF Core, Config

\* Only run_memory stores.
LEMMA MemoryStays ==
  Step /\ ~RunMemory => Memory' = Memory
BY DEF Step, RunControl, RunWriteback, RunExecuteCycle, RunExecutePanic, RunExecute,
       RunDecodeStall, RunDecode, RunFetchEnd, RunFetch, Bubble, ShiftPipelineBuffers

LEMMA StepIInv == IInv /\ [Next]_vars => IInv'
<1> SUFFICES ASSUME IInv, [Next]_vars PROVE IInv'
  OBVIOUS
<1>1. CASE Step
  <2> DEFINE size == config.Mem_size
             inst == xm_buff[R].inst
             addr == Uint32(inst.result)
             n    == AccessBytes(inst.op)
  <2>0. Core /\ Memory \in [0 .. size - 1 -> Byte]
    BY DEF IInv
  <2>1. /\ addr \in Int /\ n \in {1, 2, 4} /\ size \in Nat /\ inst.s1 \in Int
        /\ AccessError(size, addr, n) = NoError => Cells(addr, n) \subseteq 0 .. size - 1
    <3>1. /\ addr \in Int /\ n \in {1, 2, 4} /\ size \in Nat /\ inst.s1 \in Int
      BY <2>0, AccessType
    <3> HIDE DEF addr, n, size, inst
    <3> QED BY <3>1, CellsInBounds
  <2>2. LoadsWord
    <3>1. memoryRead(Memory, size, addr, n) \in Word
      <4> HIDE DEF size, inst, addr, n
      <4> QED BY <2>0, <2>1, MemoryReadType
    <3> QED BY <3>1 DEF LoadsWord
  <2>3. Core'
    BY <1>1, <2>0, <2>2, StepCore
  <2>4. Memory' \in [0 .. size - 1 -> Byte]
    <3>1. memoryWrite(Memory, size, inst.s1, addr, n) \in [0 .. size - 1 -> Byte]
      <4> HIDE DEF inst, addr, n, size
      <4> QED BY <2>0, <2>1, MemoryWriteType
    <3>2. CASE RunMemory
      BY <2>0, <3>1, <3>2 DEF RunMemory
    <3> QED BY <1>1, <2>0, <3>2, MemoryStays
  <2>5. config' = config
    BY <1>1 DEF Step, setup, RunControl, RunWriteback, RunMemory, RunExecuteCycle,
       RunExecutePanic, RunExecute, RunDecodeStall, RunDecode, RunFetchEnd, RunFetch,
       Bubble, ShiftPipelineBuffers
  <2> QED BY <2>3, <2>4, <2>5 DEF IInv
<1>2. CASE UNCHANGED vars
  BY <1>2 DEF vars, IInv, Core, Unexecuted
<1> QED BY <1>1, <1>2 DEF Next, Stopped

\* No register, memory cell, Pc, branch target or buffer ever leaves the type
\* that its Go declaration gives it; in particular every wrap-around of
\* addresses and words is where the code has its conversions.
THEOREM TypeCorrect == Spec => []TypeOK
<1>1. Init => IInv
  BY InitIInv
<1>2. IInv => TypeOK
  BY DEF IInv, Core, TypeOK, Buffers
<1> QED BY <1>1, <1>2, StepIInv, PTL DEF Spec

\* For use in other modules: the strengthened invariant.
LEMMA TypeInvariant == Spec => []IInv
<1>1. Init => IInv
  BY InitIInv
<1> QED BY <1>1, StepIInv, PTL DEF Spec

----------------------------------------------------------------------------
(* Which buffers can be full on their write side, by phase.                *)

Sides ==
  /\ phase \in {"control", "writeback", "memory"} => ~mw_buff[W].valid
  /\ phase \in {"control", "writeback", "memory", "execute", "panicked"} =>
       ~fd_buff[W].valid /\ ~dx_buff[W].valid /\ ~xm_buff[W].valid
  /\ phase = "decode" => ~fd_buff[W].valid
  /\ phase = "fetch" /\ fd_buff[W].valid => "RAW" \in stall_map

LEMMA InitSides == Init => Sides
BY DEF Init, Sides, EmptyPipelineBuffer, W, R

LEMMA BuffersType ==
  ASSUME IInv
  PROVE  /\ fd_buff \in Buffers /\ dx_buff \in Buffers
         /\ xm_buff \in Buffers /\ mw_buff \in Buffers
BY DEF IInv, Core, Buffers

LEMMA StepSides == IInv /\ Sides /\ [Next]_vars => Sides'
<1> SUFFICES ASSUME IInv, Sides, [Next]_vars PROVE Sides'
  OBVIOUS
<1>0. /\ fd_buff \in Buffers /\ dx_buff \in Buffers
      /\ xm_buff \in Buffers /\ mw_buff \in Buffers
  BY BuffersType
<1>1. CASE RunControl
  <2>1. ~fd_buff'[W].valid /\ ~dx_buff'[W].valid
    BY <1>0, <1>1, DrainedType DEF RunControl, flush, Sides
  <2> QED BY <1>1, <2>1 DEF RunControl, Sides
<1>2. CASE RunWriteback      BY <1>2 DEF RunWriteback, Sides
<1>3. CASE RunMemory         BY <1>3 DEF RunMemory, Sides
<1>4. CASE RunExecuteCycle   BY <1>4 DEF RunExecuteCycle, Sides
<1>5. CASE RunExecutePanic   BY <1>5 DEF RunExecutePanic, Sides
<1>6. CASE RunExecute        BY <1>6 DEF RunExecute, Sides
<1>7. CASE RunDecodeStall    BY <1>7 DEF RunDecodeStall, Sides
<1>8. CASE RunDecode         BY <1>8 DEF RunDecode, Sides
<1>9. CASE RunFetchEnd       BY <1>9 DEF RunFetchEnd, Sides
<1>10. CASE RunFetch         BY <1>10 DEF RunFetch, Sides
<1>11. CASE Bubble           BY <1>11 DEF Bubble, Sides
<1>12. CASE ShiftPipelineBuffers
  BY <1>0, <1>12, ShiftedType DEF ShiftPipelineBuffers, Sides
<1>13. CASE UNCHANGED vars   BY <1>13 DEF vars, Sides
<1> QED BY <1>1, <1>2, <1>3, <1>4, <1>5, <1>6, <1>7, <1>8, <1>9, <1>10, <1>11,
           <1>12, <1>13 DEF Next, Step, Stopped

LEMMA SidesInvariant == Spec => [](IInv /\ Sides)
<1>1. Init => Sides
  BY InitSides
<1> QED BY <1>1, TypeInvariant, StepSides, PTL DEF Spec

\* A stage never writes over an instruction put into the same buffer earlier
\* in the cycle: stalled and multi-cycle instructions are never lost.
THEOREM NothingIsOverwritten == Spec => NoOverwrite
<1> DEFINE Kept ==
       /\ fd_buff[W].valid /\ phase # "shift" => fd_buff'[W] = fd_buff[W]
       /\ dx_buff[W].valid /\ phase # "shift" => dx_buff'[W] = dx_buff[W]
       /\ xm_buff[W].valid /\ phase # "shift" => xm_buff'[W] = xm_buff[W]
<1>1. ASSUME IInv, Sides, [Next]_vars PROVE Kept
  <2>1. CASE RunControl          BY <1>1, <2>1 DEF RunControl, Sides
  <2>2. CASE RunWriteback        BY <2>2 DEF RunWriteback
  <2>3. CASE RunMemory           BY <2>3 DEF RunMemory
  <2>4. CASE RunExecuteCycle     BY <1>1, <2>4 DEF RunExecuteCycle, Sides
  <2>5. CASE RunExecutePanic     BY <2>5 DEF RunExecutePanic
  <2>6. CASE RunExecute          BY <1>1, <2>6 DEF RunExecute, Sides
  <2>7. CASE RunDecodeStall      BY <1>1, <2>7 DEF RunDecodeStall, Sides
  <2>8. CASE RunDecode           BY <2>8 DEF RunDecode, shouldStallDecode
  <2>9. CASE RunFetchEnd         BY <2>9 DEF RunFetchEnd
  <2>10. CASE RunFetch           BY <1>1, <2>10 DEF RunFetch, FetchEnabled, Sides
  <2>11. CASE Bubble             BY <2>11 DEF Bubble
  <2>12. CASE ShiftPipelineBuffers BY <2>12 DEF ShiftPipelineBuffers
  <2>13. CASE UNCHANGED vars     BY <2>13 DEF vars
  <2> QED BY <1>1, <2>1, <2>2, <2>3, <2>4, <2>5, <2>6, <2>7, <2>8, <2>9, <2>10,
             <2>11, <2>12, <2>13 DEF Next, Step, Stopped
<1>2. IInv /\ Sides /\ [Next]_vars => [Kept]_vars
  BY <1>1
<1> QED BY <1>2, SidesInvariant, PTL DEF Spec, NoOverwrite

----------------------------------------------------------------------------
(* Branch stalls.  A stall belongs to a jump that cannot resolve without   *)
(* an answer: any jalr, or a conditional branch when nothing is predicted. *)

Owner(buffer) ==
  /\ buffer.valid
  /\ \/ buffer.inst.op = "jalr"
     \/ isConditionalBranch(buffer.inst) /\ ~config.Bp_enabled

FlushesJump == \A i \in {W, R} :
  "FLUSH" \in control_buff[i].flags => "BRANCH" \in control_buff[i].flags

Owned ==
  "BRANCH" \in stall_map =>
    CASE phase = "control" ->
           Owner(fd_buff[R]) \/ Owner(dx_buff[R]) \/ "BRANCH" \in control_buff[R].flags
      [] phase \in {"writeback", "memory", "execute", "panicked"} ->
           Owner(fd_buff[R]) \/ Owner(dx_buff[R])
      [] phase = "decode" ->
           Owner(fd_buff[R]) \/ Owner(dx_buff[W]) \/ "BRANCH" \in control_buff[W].flags
      [] OTHER ->
           Owner(fd_buff[W]) \/ Owner(dx_buff[W]) \/ "BRANCH" \in control_buff[W].flags

OwnerInv == FlushesJump /\ Owned

LEMMA SignalFlags ==
  ASSUME control_buff \in [{W, R} -> Control_Buffer], NEW target,
         NEW flags \in SUBSET {"BRANCH", "FLUSH"}, Signal(target, flags)
  PROVE  /\ control_buff'[W].flags = control_buff[W].flags \cup flags
         /\ control_buff'[R] = control_buff[R]
BY DEF Signal, Control_Buffer, W, R

\* Decoding and executing leave the operation and the destination alone.
LEMMA DecodedSame ==
  ASSUME IInv, fd_buff[R].valid
  PROVE  SameAs(Decoded(fd_buff[R].inst, RegData), fd_buff[R].inst)
<1>1. fd_buff[R].inst \in Instruction /\ RegData \in [Reg -> Word]
  BY DEF IInv, Core, Buffers, Pipeline_Buffer
<1> QED BY <1>1, DecodedType

\* Execute answers every owner of a stall, and a flush comes with a jump.
LEMMA ExecuteSignals ==
  ASSUME IInv, RunExecute
  PROVE  /\ control_buff'[R] = control_buff[R]
         /\ \/ control_buff'[W].flags = control_buff[W].flags
            \/ control_buff'[W].flags = control_buff[W].flags \cup {"BRANCH"}
            \/ control_buff'[W].flags = control_buff[W].flags \cup {"BRANCH", "FLUSH"}
         /\ Owner(dx_buff[R]) /\ "BRANCH" \in stall_map => "BRANCH" \in control_buff'[W].flags
         /\ ~isConditionalBranch(dx_buff[R].inst) /\ dx_buff[R].inst.op # "jalr" =>
              control_buff'[W] = control_buff[W]
<1> DEFINE inst   == Executed
           pc     == dx_buff[R].pc
           target == BranchTarget(inst, pc)
<1>1. inst.op = dx_buff[R].inst.op
  BY ExecutedType DEF RunExecute, SameAs, IInv
<1>2. control_buff \in [{W, R} -> Control_Buffer]
  BY DEF IInv, Core
<1> HIDE DEF inst, pc, target
<1>3. CASE isConditionalBranch(inst)
  <2>1. ResolveBranch(inst, pc, target, Taken(inst))
    BY <1>3 DEF RunExecute, inst, pc, target, isConditionalBranch, Fmt_B, B_Ops
  <2>2. inst.op # "jalr" /\ isConditionalBranch(dx_buff[R].inst)
    BY <1>1, <1>3 DEF isConditionalBranch, Fmt_B, B_Ops
  <2>3. \/ config.Bp_enabled /\ UNCHANGED control_buff
        \/ config.Bp_enabled /\ Signal(NextPc(inst, pc), {"BRANCH", "FLUSH"})
        \/ ~config.Bp_enabled /\ Signal(NextPc(inst, pc), {"BRANCH"})
    BY <2>1 DEF ResolveBranch
  <2> QED BY <1>1, <1>2, <2>2, <2>3, SignalFlags DEF Owner
<1>4. CASE inst.op = "jalr"
  <2>1. ~isConditionalBranch(inst)
    BY <1>4 DEF isConditionalBranch, Fmt_B, B_Ops
  <2>2. ResolveJalr(pc, target)
    BY <1>4, <2>1 DEF RunExecute, inst, pc, target
  <2>3. \/ "BRANCH" \in stall_map /\ Signal(target, {"BRANCH"})
        \/ "BRANCH" \notin stall_map /\ Signal(target, {"BRANCH", "FLUSH"})
        \/ "BRANCH" \notin stall_map /\ UNCHANGED control_buff
    BY <2>2 DEF ResolveJalr
  <2> QED BY <1>1, <1>2, <1>4, <2>3, SignalFlags
<1>5. CASE ~isConditionalBranch(inst) /\ inst.op # "jalr"
  <2>1. UNCHANGED control_buff
    BY <1>5 DEF RunExecute, inst, pc, target
  <2> QED BY <1>1, <1>5, <2>1 DEF Owner, isConditionalBranch, Fmt_B
<1> QED BY <1>3, <1>4, <1>5

\* Fetch stalls only for an instruction that becomes the owner.
LEMMA FetchSignals ==
  ASSUME IInv, RunFetch
  PROVE  /\ control_buff'[R] = control_buff[R]
         /\ \/ control_buff'[W].flags = control_buff[W].flags
            \/ control_buff'[W].flags = control_buff[W].flags \cup {"BRANCH"}
         /\ "BRANCH" \in stall_map' => Owner(fd_buff[W])'
<1>1. control_buff \in [{W, R} -> Control_Buffer] /\ fd_buff \in Buffers
  BY DEF IInv, Core, Buffers
<1>2. /\ control_buff'[R] = control_buff[R]
      /\ \/ control_buff'[W].flags = control_buff[W].flags
         \/ control_buff'[W].flags = control_buff[W].flags \cup {"BRANCH"}
  BY <1>1, SignalFlags DEF RunFetch
<1>3. ASSUME "BRANCH" \in stall_map' PROVE Owner(fd_buff[W])'
  <2>1. Guess.kind = "stall"
    BY <1>3 DEF RunFetch, FetchEnabled
  <2>2. Fetched.op = "jalr" \/ (isConditionalBranch(Fetched) /\ ~config.Bp_enabled)
    BY <2>1 DEF Guess
  <2> DEFINE out == [Fetched EXCEPT !.remaining = ExTotal(Fetched)]
  <2>3. out.op = Fetched.op
    BY FetchedType DEF RunFetch, IInv, Instruction
  <2>4. fd_buff' = Filled(fd_buff, Pc, out) /\ config' = config
    BY DEF RunFetch, setup
  <2>5. fd_buff'[W].valid /\ fd_buff'[W].inst = out
    <3> HIDE DEF out
    <3> QED BY <1>1, <2>4 DEF Filled, Buffers, W, R
  <2> QED BY <2>2, <2>3, <2>4, <2>5 DEF Owner, isConditionalBranch, Fmt_B
<1> QED BY <1>2, <1>3

LEMMA InitOwner == Init => OwnerInv
BY DEF Init, OwnerInv, FlushesJump, Owned, NoSignal

LEMMA StepFlushesJump == IInv /\ FlushesJump /\ [Next]_vars => FlushesJump'
<1> SUFFICES ASSUME IInv, FlushesJump, [Next]_vars PROVE FlushesJump'
  OBVIOUS
<1>1. CASE RunExecute
  BY <1>1, ExecuteSignals DEF FlushesJump
<1>2. CASE RunFetch
  BY <1>2, FetchSignals DEF FlushesJump
<1>3. CASE ShiftPipelineBuffers
  BY <1>3 DEF ShiftPipelineBuffers, FlushesJump, NoSignal, W, R
<1>4. CASE UNCHANGED control_buff
  BY <1>4 DEF FlushesJump
<1> QED BY <1>1, <1>2, <1>3, <1>4
        DEF Next, Step, Stopped, vars, RunControl, RunWriteback, RunMemory,
            RunExecuteCycle, RunExecutePanic, RunDecodeStall, RunDecode,
            RunFetchEnd, Bubble

\* An owner that is copied to another buffer remains one.
LEMMA OwnerMoves ==
  ASSUME NEW buff \in Buffers, NEW pc \in Addr, NEW inst,
         NEW from, SameAs(inst, from.inst), from.valid, Owner(from)
  PROVE  Owner(Filled(buff, pc, inst)[W])
<1>1. Filled(buff, pc, inst)[W] = [pc |-> pc, inst |-> inst, valid |-> TRUE]
  BY DEF Filled, Buffers, W, R
<1> QED BY <1>1 DEF Owner, SameAs, isConditionalBranch, Fmt_B

LEMMA StepOwned ==
  IInv /\ Sides /\ FlushesJump /\ Owned /\ [Next]_vars => Owned'
<1> SUFFICES ASSUME IInv, Sides, FlushesJump, Owned, [Next]_vars,
                    "BRANCH" \in stall_map'
             PROVE  Owned'
  BY DEF Owned
<1>0. /\ fd_buff \in Buffers /\ dx_buff \in Buffers
      /\ phase \in Phases /\ config' = config
  BY BuffersType DEF IInv, Core, Next, Step, Stopped, vars, setup, RunControl,
     RunWriteback, RunMemory, RunExecuteCycle, RunExecutePanic, RunExecute,
     RunDecodeStall, RunDecode, RunFetchEnd, RunFetch, Bubble, ShiftPipelineBuffers
<1>1. CASE RunControl
  <2>1. /\ "BRANCH" \notin control_buff[R].flags /\ "BRANCH" \in stall_map
        /\ "FLUSH" \notin control_buff[R].flags
    BY <1>1 DEF RunControl, FlushesJump
  <2>2. fd_buff' = fd_buff /\ dx_buff' = dx_buff
    BY <1>1, <2>1 DEF RunControl
  <2> QED BY <1>0, <1>1, <2>1, <2>2 DEF RunControl, Owned, Owner
<1>2. CASE RunWriteback
  BY <1>0, <1>2 DEF RunWriteback, Owned, Owner
<1>3. CASE RunMemory
  BY <1>0, <1>3 DEF RunMemory, Owned, Owner
<1>4. CASE RunExecuteCycle
  <2>1. Owner(dx_buff[R]) => Owner(Filled(dx_buff, dx_buff[R].pc, Executed)[W])
    BY <1>0, <1>4, ExecutedType, OwnerMoves DEF RunExecuteCycle, IInv
  <2> QED BY <1>0, <1>4, <2>1 DEF RunExecuteCycle, Owned, Owner
<1>5. CASE RunExecutePanic
  BY <1>0, <1>5 DEF RunExecutePanic, Owned, Owner
<1>6. CASE RunExecute
  <2>1. Owner(dx_buff[R]) /\ "BRANCH" \in stall_map => "BRANCH" \in control_buff'[W].flags
    BY <1>6, ExecuteSignals
  <2> QED BY <1>0, <1>6, <2>1 DEF RunExecute, Owned, Owner
<1>7. CASE RunDecodeStall
  <2>1. fd_buff'[W] = fd_buff[R]
    BY <1>0, <1>7 DEF RunDecodeStall, Buffers, W, R
  <2> QED BY <1>0, <1>7, <2>1 DEF RunDecodeStall, Owned, Owner
<1>8. CASE RunDecode
  <2> DEFINE out == Decoded(fd_buff[R].inst, RegData)
  <2>1. fd_buff[R].pc \in Addr /\ SameAs(out, fd_buff[R].inst) /\ fd_buff[R].valid
    BY <1>0, <1>8, DecodedSame DEF RunDecode, Buffers, Pipeline_Buffer
  <2>2. dx_buff' = Filled(dx_buff, fd_buff[R].pc, out) /\ ~dx_buff[W].valid
    BY <1>8 DEF RunDecode, shouldStallDecode
  <2> HIDE DEF out
  <2>3. Owner(fd_buff[R]) => Owner(Filled(dx_buff, fd_buff[R].pc, out)[W])
    BY <1>0, <2>1, OwnerMoves
  <2> QED BY <1>0, <1>8, <2>2, <2>3 DEF RunDecode, Owned, Owner
<1>9. CASE RunFetchEnd
  BY <1>0, <1>9 DEF RunFetchEnd, Owned, Owner
<1>10. CASE RunFetch
  BY <1>0, <1>10, FetchSignals DEF RunFetch, Owned
<1>11. CASE Bubble
  BY <1>0, <1>11 DEF Bubble, Owned, Owner, Phases
<1>12. CASE ShiftPipelineBuffers
  <2>1. /\ fd_buff'[R] = fd_buff[W] /\ dx_buff'[R] = dx_buff[W]
        /\ control_buff'[R] = control_buff[W]
    BY <1>0, <1>12, ShiftedType DEF ShiftPipelineBuffers, R, W
  <2> QED BY <1>0, <1>12, <2>1 DEF ShiftPipelineBuffers, Owned, Owner
<1>13. CASE UNCHANGED vars
  BY <1>13 DEF vars, Owned, Owner
<1> QED BY <1>1, <1>2, <1>3, <1>4, <1>5, <1>6, <1>7, <1>8, <1>9, <1>10, <1>11,
           <1>12, <1>13 DEF Next, Step, Stopped

LEMMA OwnerInvariant == Spec => []OwnerInv
<1>1. Init => OwnerInv
  BY InitOwner
<1>2. IInv /\ Sides /\ OwnerInv /\ [Next]_vars => OwnerInv'
  BY StepFlushesJump, StepOwned DEF OwnerInv
<1> QED BY <1>1, <1>2, SidesInvariant, PTL DEF Spec

\* No branch stall is orphaned, for any program and any configuration: the
\* machine never waits for the answer of a branch that is no longer there.
THEOREM StallsAreOwned == Spec => []BranchStallHasOwner
<1>1. OwnerInv => BranchStallHasOwner
  BY DEF OwnerInv, Owned, Owner, BranchStallHasOwner, IsJump
<1> QED BY <1>1, OwnerInvariant, PTL
=============================================================================
