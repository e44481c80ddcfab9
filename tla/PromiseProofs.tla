---------------------------- MODULE PromiseProofs ----------------------------
(***************************************************************************)
(* What Reset promises, for every set of programs and settings and every   *)
(* sequence of requests: until a run has looked at something that an old   *)
(* run left behind, the session is a new machine.                          *)
(*                                                                         *)
(* The proof runs the two machines side by side.  Matched relates them:    *)
(* they agree on everything but the memory that the run has not written,   *)
(* and the instructions in buffers that have held none of this run; there  *)
(* the new machine has zeros and empty slots, and a step that would see    *)
(* the difference is one that sets tainted.  A stage of the session is     *)
(* then always the same stage of the new machine, with the same inputs.    *)
(***************************************************************************)
EXTENDS SessionPromise, SessionProofs

----------------------------------------------------------------------------
(* The operators that the new machine is built from are those of the       *)
(* session: they do not depend on the variables that New replaces.         *)

\* Words and conversions.
LEMMA SameWords ==
  /\ New!WORD_MOD = WORD_MOD /\ New!Place = Place
  /\ \A x : New!Uint32(x) = Uint32(x) /\ New!Int32(x) = Int32(x)
  /\ \A x, i : New!ByteOf(x, i) = ByteOf(x, i)
<1>1. New!WORD_MOD = WORD_MOD
  BY DEF New!WORD_MOD, WORD_MOD
<1>2. New!Place = Place
  BY DEF New!Place, Place, New!WORD_SIZE, WORD_SIZE
<1>3. \A x : New!Uint32(x) = Uint32(x)
  BY <1>1 DEF New!Uint32, Uint32
<1>4. \A x : New!Int32(x) = Int32(x)
  BY <1>1 DEF New!Int32, Int32
<1>5. \A x, i : New!ByteOf(x, i) = ByteOf(x, i)
  BY <1>2, <1>3 DEF New!ByteOf, ByteOf
<1> QED BY <1>1, <1>2, <1>3, <1>4, <1>5

\* The format of an instruction, and what it loads, stores or forwards.
LEMMA SameFormats ==
  \A inst : /\ New!isLoad(inst) <=> isLoad(inst)
            /\ New!isStore(inst) <=> isStore(inst)
            /\ New!isConditionalBranch(inst) <=> isConditionalBranch(inst)
            /\ New!WritesRd(inst) <=> WritesRd(inst)
            /\ New!Fmt_S(inst) <=> Fmt_S(inst)
            /\ \A reg : New!Forwards(inst, reg) <=> Forwards(inst, reg)
<1> USE DEF New!Loads, Loads, New!R_Ops, R_Ops, New!I_Ops, I_Ops, New!S_Ops, S_Ops,
            New!B_Ops, B_Ops, New!U_Ops, U_Ops, New!J_Ops, J_Ops, New!Fmt_R, Fmt_R,
            New!Fmt_I, Fmt_I, New!Fmt_S, Fmt_S, New!Fmt_B, Fmt_B, New!Fmt_U, Fmt_U,
            New!Fmt_J, Fmt_J, New!isLoad, isLoad, New!isStore, isStore,
            New!isConditionalBranch, isConditionalBranch
<1>1. \A inst : New!WritesRd(inst) <=> WritesRd(inst)
  BY DEF New!WritesRd, WritesRd
<1>2. \A inst : New!isLoad(inst) <=> isLoad(inst)
  OBVIOUS
<1>3. \A inst : New!isStore(inst) <=> isStore(inst)
  OBVIOUS
<1>4. \A inst : New!isConditionalBranch(inst) <=> isConditionalBranch(inst)
  OBVIOUS
<1>5. \A inst : New!Fmt_S(inst) <=> Fmt_S(inst)
  OBVIOUS
<1>6. \A inst, reg : New!Forwards(inst, reg) <=> Forwards(inst, reg)
  BY <1>1, <1>2 DEF New!Forwards, Forwards
<1> QED BY <1>1, <1>2, <1>3, <1>4, <1>5, <1>6

\* The registers an instruction reads, its cycles in execute, its bytes in memory.
LEMMA SameRegisters ==
  \A inst : /\ New!getSourceRegisters(inst) = getSourceRegisters(inst)
            /\ New!getAluInputRegisters(inst) = getAluInputRegisters(inst)
            /\ New!ExTotal(inst) = ExTotal(inst)
            /\ New!AccessBytes(inst.op) = AccessBytes(inst.op)
<1> USE DEF New!Loads, Loads, New!R_Ops, R_Ops, New!I_Ops, I_Ops, New!S_Ops, S_Ops,
            New!B_Ops, B_Ops, New!Fmt_R, Fmt_R, New!Fmt_I, Fmt_I, New!Fmt_S, Fmt_S,
            New!Fmt_B, Fmt_B, New!isLoad, isLoad
<1>1. \A inst : New!getSourceRegisters(inst) = getSourceRegisters(inst)
  BY DEF New!getSourceRegisters, getSourceRegisters
<1>2. \A inst : New!getAluInputRegisters(inst) = getAluInputRegisters(inst)
  BY <1>1 DEF New!getAluInputRegisters, getAluInputRegisters
<1>3. \A inst : New!ExTotal(inst) = ExTotal(inst)
  BY DEF New!ExTotal, ExTotal
<1>4. \A inst : New!AccessBytes(inst.op) = AccessBytes(inst.op)
  BY DEF New!AccessBytes, AccessBytes
<1> QED BY <1>1, <1>2, <1>3, <1>4

\* What an instruction computes.
LEMMA SameExecution ==
  \A inst : /\ \A regs : New!Decoded(inst, regs) = Decoded(inst, regs)
            /\ New!Panics(inst) <=> Panics(inst)
            /\ New!Taken(inst) <=> Taken(inst)
            /\ \A pc : /\ New!Result(inst, pc) = Result(inst, pc)
                       /\ New!BranchTarget(inst, pc) = BranchTarget(inst, pc)
                       /\ New!NextPc(inst, pc) = NextPc(inst, pc)
<1>1. \A inst, regs : New!Decoded(inst, regs) = Decoded(inst, regs)
  BY DEF New!Decoded, Decoded, New!Loads, Loads, New!R_Ops, R_Ops, New!I_Ops, I_Ops,
         New!S_Ops, S_Ops, New!B_Ops, B_Ops, New!Fmt_R, Fmt_R, New!Fmt_I, Fmt_I,
         New!Fmt_S, Fmt_S, New!Fmt_B, Fmt_B, New!isLoad, isLoad
<1>2. \A inst : New!Panics(inst) <=> Panics(inst)
  BY DEF New!Panics, Panics, New!ShiftOps, ShiftOps
<1>3. \A inst : New!Taken(inst) <=> Taken(inst)
  BY DEF New!Taken, Taken
<1>4. \A inst, pc : New!Result(inst, pc) = Result(inst, pc)
  BY DEF New!Result, Result, New!ImmAluOps, ImmAluOps, New!R_Ops, R_Ops, New!I_Ops,
         I_Ops, New!S_Ops, S_Ops, New!Loads, Loads, New!isLoad, isLoad, New!isStore,
         isStore, New!Int32, Int32, New!WORD_MOD, WORD_MOD
<1>5. \A inst, pc : New!BranchTarget(inst, pc) = BranchTarget(inst, pc)
  BY DEF New!BranchTarget, BranchTarget, New!Uint32, Uint32, New!WORD_MOD, WORD_MOD,
         New!Taken, Taken
<1>6. \A inst, pc : New!NextPc(inst, pc) = NextPc(inst, pc)
  BY <1>3, <1>5, SameWords DEF New!NextPc, NextPc
<1> QED BY <1>1, <1>2, <1>3, <1>4, <1>5, <1>6

\* What an access to the memory does.
LEMMA SameAccesses ==
  /\ New!NoError = NoError
  /\ \A addr, n : New!Cells(addr, n) = Cells(addr, n)
  /\ \A size, addr, n : New!AccessError(size, addr, n) = AccessError(size, addr, n)
  /\ \A mem, size, addr, n :
       New!memoryRead(mem, size, addr, n) = memoryRead(mem, size, addr, n)
  /\ \A mem, size, data, addr, n :
       New!memoryWrite(mem, size, data, addr, n) = memoryWrite(mem, size, data, addr, n)
<1>0. New!NoError = NoError
  BY DEF New!NoError, NoError
<1>1. \A addr, n : New!Cells(addr, n) = Cells(addr, n)
  BY DEF New!Cells, Cells, New!Uint32, Uint32, New!WORD_MOD, WORD_MOD
<1>2. \A size, addr, n : New!AccessError(size, addr, n) = AccessError(size, addr, n)
  BY <1>0, <1>1 DEF New!AccessError, AccessError
<1>3. \A mem, size, addr, n :
        New!memoryRead(mem, size, addr, n) = memoryRead(mem, size, addr, n)
  BY <1>0, <1>2, SameWords DEF New!memoryRead, memoryRead
<1>4. \A mem, size, data, addr, n :
        New!memoryWrite(mem, size, data, addr, n) = memoryWrite(mem, size, data, addr, n)
  BY DEF New!memoryWrite, memoryWrite, New!Uint32, Uint32, New!WORD_MOD, WORD_MOD,
         New!ByteOf, ByteOf, New!Place, Place, New!WORD_SIZE, WORD_SIZE
<1> QED BY <1>0, <1>1, <1>2, <1>3, <1>4

\* What the predictor predicts and learns.
LEMMA SamePredictions ==
  /\ New!max_counter = max_counter /\ New!Program_size = Program_size
  /\ \A buff, pc : New!getTarget(buff, pc) = getTarget(buff, pc)
  /\ \A buff, max, pc : New!predict(buff, max, pc) = predict(buff, max, pc)
  /\ \A buff, max, pc, target, outcome :
       /\ New!update(buff, max, pc, target, outcome) = update(buff, max, pc, target, outcome)
       /\ New!UpdateCorrect(buff, max, pc, target, outcome)
            <=> UpdateCorrect(buff, max, pc, target, outcome)
<1> USE DEF New!BpIndex, BpIndex, New!BpTag, BpTag, New!Hit, Hit, New!Claimed, Claimed,
            New!Moved, Moved, New!Threshold, Threshold
<1>1. New!max_counter = max_counter
  BY DEF New!max_counter, max_counter, New!MaxCounter, MaxCounter
<1>2. New!Program_size = Program_size
  BY DEF New!Program_size, Program_size
<1>3. \A buff, pc : New!getTarget(buff, pc) = getTarget(buff, pc)
  BY DEF New!getTarget, getTarget
<1>4. \A buff, max, pc : New!predict(buff, max, pc) = predict(buff, max, pc)
  BY DEF New!predict, predict
<1>5. \A buff, max, pc, target, outcome :
       New!update(buff, max, pc, target, outcome) = update(buff, max, pc, target, outcome)
  BY DEF New!update, update
<1>6. \A buff, max, pc, target, outcome :
       New!UpdateCorrect(buff, max, pc, target, outcome)
         <=> UpdateCorrect(buff, max, pc, target, outcome)
  BY DEF New!UpdateCorrect, UpdateCorrect
<1> QED BY <1>1, <1>2, <1>3, <1>4, <1>5, <1>6

\* How the buffers are written and shifted.
LEMMA SameBuffers ==
  /\ New!W = W /\ New!R = R
  /\ New!NoSignal = NoSignal
  /\ \A b : New!Drained(b) = Drained(b) /\ New!Shifted(b) = Shifted(b)
  /\ \A b, pc, inst : New!Filled(b, pc, inst) = Filled(b, pc, inst)
<1> USE DEF New!W, New!R, W, R
<1>1. New!NoSignal = NoSignal
  BY DEF New!NoSignal, NoSignal
<1>2. \A b : New!Drained(b) = Drained(b)
  BY DEF New!Drained, Drained
<1>3. \A b : New!Shifted(b) = Shifted(b)
  BY DEF New!Shifted, Shifted
<1>4. \A b, pc, inst : New!Filled(b, pc, inst) = Filled(b, pc, inst)
  BY DEF New!Filled, Filled
<1> QED BY <1>1, <1>2, <1>3, <1>4

----------------------------------------------------------------------------
(* The relation.                                                           *)

\* A side that nothing has ever been put into.
Unused == [pc |-> 0, inst |-> ZeroInstruction, valid |-> FALSE]

\* Two buffers that a forwarding path reads, of the session and of the new
\* machine: equal as soon as the read side has held an instruction of this
\* run, and up to then the new one has nothing but what is on its way there.
Traced(full, name, buff, newbuff) ==
  IF name \in full THEN newbuff = buff
  ELSE /\ ~buff[R].valid
       /\ newbuff = [i \in {W, R} |-> IF buff[i].valid THEN buff[i] ELSE Unused]

MemoryMatched ==
  /\ newMemory = [a \in 0 .. config.Mem_size - 1 |-> newMemory[a]]
  /\ written \subseteq DOMAIN Memory /\ written \subseteq 0 .. config.Mem_size - 1
  /\ Memory_diff_addr \subseteq written
  /\ \A a \in written : newMemory[a] = Memory[a]
  /\ \A a \in (0 .. config.Mem_size - 1) \ written : newMemory[a] = 0

BuffersMatched ==
  /\ Alike(fd_buff, newfd_buff) /\ Latch(newfd_buff)
  /\ Traced(filled, "dx", dx_buff, newdx_buff)
  /\ Traced(filled, "xm", xm_buff, newxm_buff)
  /\ Traced(filled, "mw", mw_buff, newmw_buff)

\* Only an instruction that has been in execute asks for a flush.
FlushIsOwn == \A i \in {W, R} : "FLUSH" \in control_buff[i].flags => "dx" \in filled

ControlMatched ==
  /\ newphase = phase /\ newPc = Pc
  /\ newRegData = RegData /\ newRegBusy = RegBusy
  /\ newBp = Bp /\ newcontrol_buff = control_buff
  /\ newstall_map = stall_map /\ newhalt = halt /\ newHalted = Halted

ErrorMatched ==
  phase # "control" \/ Dm.N_cycle > 0 => newRuntime_error = Runtime_error

\* What the two machines have in common.
Matched == ControlMatched /\ BuffersMatched /\ MemoryMatched /\ FlushIsOwn /\ ErrorMatched

----------------------------------------------------------------------------
(* Buffers.                                                                *)

\* A buffer has a write side and a read side.
LEMMA BufferLatch == \A b \in Buffers : Latch(b)
BY DEF Latch, Buffers, Pipeline_Buffer

\* Traced sides are alike.
LEMMA TracedAlike ==
  ASSUME NEW b \in Buffers, NEW c, NEW full, NEW name, Traced(full, name, b, c)
  PROVE  Alike(b, c)
<1>1. CASE name \in full
  BY <1>1 DEF Traced, Alike
<1>2. CASE name \notin full
  <2>1. ASSUME NEW i \in {W, R}
        PROVE  b[i].valid = c[i].valid /\ (b[i].valid => b[i] = c[i])
    <3>1. c[i] = IF b[i].valid THEN b[i] ELSE Unused
      BY <1>2 DEF Traced
    <3>2. Unused.valid = FALSE
      BY DEF Unused
    <3>3. b[i].valid \in BOOLEAN
      BY DEF Buffers, Pipeline_Buffer
    <3> QED BY <3>1, <3>2, <3>3
  <2> QED BY <2>1 DEF Alike
<1> QED BY <1>1, <1>2

\* Both write sides get the same instruction.
LEMMA TracedFilled ==
  ASSUME NEW b \in Buffers, NEW c, NEW full, NEW name, Traced(full, name, b, c), NEW pc, NEW inst
  PROVE  Traced(full, name, Filled(b, pc, inst), Filled(c, pc, inst))
<1>1. CASE name \in full
  BY <1>1 DEF Traced
<1>2. CASE name \notin full
  <2> DEFINE side == [pc |-> pc, inst |-> inst, valid |-> TRUE]
  <2>1. side.valid = TRUE OBVIOUS
  <2> HIDE DEF side
  <2>2. Filled(b, pc, inst) = [i \in {W, R} |-> IF i = W THEN side ELSE b[i]]
    BY DEF Filled, side, Buffers
  <2>3. Filled(c, pc, inst) = [i \in {W, R} |-> IF i = W THEN side ELSE c[i]]
    BY <1>2 DEF Filled, side, Traced
  <2>4. c[R] = Unused /\ ~b[R].valid
    BY <1>2 DEF Traced
  <2> QED BY <1>2, <2>1, <2>2, <2>3, <2>4 DEF Traced, W, R
<1> QED BY <1>1, <1>2

\* At the end of the cycle a full side has held an instruction of this run.
LEMMA TracedShifted ==
  ASSUME NEW b \in Buffers, NEW c, NEW full, NEW name, Traced(full, name, b, c),
         NEW after, name \in after <=> name \in full \/ b[W].valid
  PROVE  Traced(after, name, Shifted(b), Shifted(c))
<1>1. CASE name \in full
  BY <1>1 DEF Traced
<1>2. CASE name \notin full /\ b[W].valid
  <2>1. c[W] = b[W]
    BY <1>2 DEF Traced
  <2>2. Shifted(c) = Shifted(b)
    BY <2>1 DEF Shifted
  <2> QED BY <1>2, <2>2 DEF Traced
<1>3. CASE name \notin full /\ ~b[W].valid
  <2>1. c[W] = Unused
    BY <1>3 DEF Traced
  <2>2. [Unused EXCEPT !.valid = FALSE] = Unused
    <3>1. Unused = [k \in DOMAIN Unused |-> Unused[k]] /\ Unused.valid = FALSE
      BY DEF Unused
    <3> QED BY <3>1
  <2>3. Shifted(c) = [i \in {W, R} |-> Unused]
    BY <2>1, <2>2 DEF Shifted
  <2>4. ~Shifted(b)[R].valid /\ ~Shifted(b)[W].valid
    BY <1>3, ShiftedType
  <2> QED BY <1>3, <2>3, <2>4 DEF Traced
<1> QED BY <1>1, <1>2, <1>3

\* After a reset nothing of this run has been in the buffers.
LEMMA TracedEmpty ==
  ASSUME NEW b, NEW name, \A i \in {W, R} : ~b[i].valid
  PROVE  Traced({}, name, b, EmptyPipelineBuffer)
BY DEF Traced, EmptyPipelineBuffer, Unused

\* A stage that finds an instruction finds the same one in both machines.
LEMMA TracedValid ==
  ASSUME NEW b, NEW c, NEW full, NEW name, Traced(full, name, b, c), b[R].valid
  PROVE  name \in full /\ c = b
BY DEF Traced

\* Buffers stay alike when both get the same instruction,
LEMMA AlikeFilled ==
  ASSUME NEW b \in Buffers, NEW c, Latch(c), Alike(b, c), NEW pc, NEW inst
  PROVE  Alike(Filled(b, pc, inst), Filled(c, pc, inst)) /\ Latch(Filled(c, pc, inst))
<1>1. Latch(Filled(c, pc, inst))
  BY FilledLatch
<1>2. Filled(b, pc, inst)[R] = b[R] /\ Filled(c, pc, inst)[R] = c[R]
  BY BufferLatch, FilledLatch
<1>3. Filled(b, pc, inst)[W] = Filled(c, pc, inst)[W]
  BY DEF Filled, Buffers, Latch
<1> QED BY <1>1, <1>2, <1>3 DEF Alike

\* when both are shifted,
LEMMA AlikeShifted ==
  ASSUME NEW b \in Buffers, NEW c, Latch(c), Alike(b, c)
  PROVE  Alike(Shifted(b), Shifted(c)) /\ Latch(Shifted(c))
<1>1. /\ Shifted(b)[R] = b[W] /\ Shifted(b)[W].valid = FALSE
  BY ShiftedType
<1>2. Latch(Shifted(c)) /\ ~Shifted(c)[W].valid /\ Shifted(c)[R] = c[W]
  BY ShiftedLatch
<1>3. Shifted(c)[W].valid = FALSE
  BY <1>2 DEF Latch
<1> QED BY <1>1, <1>2, <1>3 DEF Alike

\* when both are flushed,
LEMMA AlikeDrained ==
  ASSUME NEW b \in Buffers, NEW c, Latch(c)
  PROVE  Alike(Drained(b), Drained(c)) /\ Latch(Drained(c))
<1>1. Latch(Drained(c)) /\ \A i \in {W, R} : ~Drained(c)[i].valid
  BY DrainedLatch
<1>2. \A i \in {W, R} : Drained(b)[i].valid = FALSE
  BY DrainedType
<1> QED BY <1>1, <1>2 DEF Alike, Latch

\* and when both feed a stalled instruction back.
LEMMA AlikeFedBack ==
  ASSUME NEW b \in Buffers, NEW c, Latch(c), Alike(b, c), b[R].valid
  PROVE  /\ Alike([b EXCEPT ![W] = b[R]], [c EXCEPT ![W] = c[R]])
         /\ Latch([c EXCEPT ![W] = c[R]])
<1>1. c[R] = b[R]
  BY DEF Alike
<1>2. Latch([c EXCEPT ![W] = c[R]])
  BY FedBackLatch
<1>3. \A i \in {W, R} : [b EXCEPT ![W] = b[R]][i] = b[R] /\ [c EXCEPT ![W] = c[R]][i] = c[R]
  BY DEF Buffers, Latch, W, R
<1> QED BY <1>1, <1>2, <1>3 DEF Alike

----------------------------------------------------------------------------
(* The forwarding paths.                                                   *)

\* Register numbers are integers.
LEMMA RegistersType ==
  ASSUME NEW inst \in Instruction, NEW i \in 1 .. 2
  PROVE  getSourceRegisters(inst)[i] \in Int /\ getAluInputRegisters(inst)[i] \in Int
<1>1. inst.Rd \in Int /\ inst.Rs1 \in Int /\ inst.Rs2 \in Int
  <2>1. inst.Rd \in Reg /\ inst.Rs1 \in Word /\ inst.Rs2 \in Word
    BY DEF Instruction
  <2>2. inst.Rd \in Int
    BY <2>1 DEF Reg
  <2>3. inst.Rs1 \in Int /\ inst.Rs2 \in Int
    BY <2>1, WordIsInt
  <2> QED BY <2>2, <2>3
<1>2. i = 1 \/ i = 2
  OBVIOUS
<1>3. getSourceRegisters(inst)[i] \in Int
  BY <1>1, <1>2, FormatsDisjoint DEF getSourceRegisters
<1> QED BY <1>1, <1>2, <1>3 DEF getAluInputRegisters

\* Until a side has been used, the new machine has nothing there to forward.
LEMMA ForwardsAlike ==
  ASSUME NEW b, NEW c, NEW full, NEW name, Traced(full, name, b, c), NEW reg \in Int, reg > 0
  PROVE  /\ name \in full => c = b
         /\ name \notin full => ~Forwards(c[R].inst, reg)
<1>1. ASSUME name \notin full PROVE ~Forwards(c[R].inst, reg)
  <2>1. c[R] = Unused
    BY <1>1 DEF Traced
  <2>2. Unused.inst.Rd = 0
    BY DEF Unused, ZeroInstruction, newInstruction
  <2> QED BY <2>1, <2>2 DEF Forwards
<1> QED BY <1>1 DEF Traced

\* Execute takes the same value from the forwarding paths.
LEMMA SameBypass ==
  ASSUME BuffersMatched, NEW reg \in Int, NEW value,
         ~TakesStale(reg, Source("xm", xm_buff), Source("mw", mw_buff))
  PROVE  New!getRegValueFromBypass(reg, value) = getRegValueFromBypass(reg, value)
<1>1. CASE reg <= 0 \/ ~config.Forwarding_enabled
  BY <1>1 DEF New!getRegValueFromBypass, getRegValueFromBypass
<1>2. CASE reg > 0 /\ config.Forwarding_enabled
  <2>1. /\ "xm" \in filled => newxm_buff = xm_buff
        /\ "xm" \notin filled => ~Forwards(newxm_buff[R].inst, reg)
        /\ "mw" \in filled => newmw_buff = mw_buff
        /\ "mw" \notin filled => ~Forwards(newmw_buff[R].inst, reg)
    BY <1>2, ForwardsAlike DEF BuffersMatched
  <2>2. /\ "xm" \notin filled => ~Forwards(xm_buff[R].inst, reg)
        /\ "mw" \notin filled /\ Forwards(mw_buff[R].inst, reg) => Forwards(xm_buff[R].inst, reg)
    BY <1>2 DEF TakesStale, Source
  <2> QED BY <1>2, <2>1, <2>2, SameFormats, SameBuffers
          DEF New!getRegValueFromBypass, getRegValueFromBypass
<1> QED BY <1>1, <1>2

\* Execute has the same instruction, with the same inputs.
LEMMA SameExecuted ==
  ASSUME Core, BuffersMatched, phase = "execute", dx_buff[R].valid, ~ExecuteLeaks
  PROVE  /\ "dx" \in filled /\ newdx_buff = dx_buff
         /\ New!Executed = Executed
<1> DEFINE inst == dx_buff[R].inst
           regs == getAluInputRegisters(inst)
<1>1. "dx" \in filled /\ newdx_buff = dx_buff
  BY TracedValid DEF BuffersMatched
<1>2. inst \in Instruction
  BY DEF Core, Buffers, Pipeline_Buffer
<1>3. inst.remaining = ExTotal(inst) =>
        \A i \in 1 .. 2 : ~TakesStale(regs[i], Source("xm", xm_buff), Source("mw", mw_buff))
  BY DEF ExecuteLeaks
<1>4. inst.remaining = ExTotal(inst) =>
        \A value : \A i \in 1 .. 2 :
          New!getRegValueFromBypass(regs[i], value) = getRegValueFromBypass(regs[i], value)
  BY <1>2, <1>3, RegistersType, SameBypass
<1>5. New!Executed = Executed
  <2>1. CASE inst.remaining = ExTotal(inst)
    <3>1. /\ New!getRegValueFromBypass(regs[1], inst.s1) = getRegValueFromBypass(regs[1], inst.s1)
          /\ New!getRegValueFromBypass(regs[2], inst.s2) = getRegValueFromBypass(regs[2], inst.s2)
      BY <1>4, <2>1
    <3>2. New!ExTotal(inst) = ExTotal(inst) /\ New!getAluInputRegisters(inst) = regs
      BY SameRegisters
    <3> QED BY <1>1, <2>1, <3>1, <3>2, SameBuffers DEF New!Executed, Executed
  <2>2. CASE inst.remaining # ExTotal(inst)
    <3>1. New!ExTotal(inst) = ExTotal(inst)
      BY SameRegisters
    <3> QED BY <1>1, <2>2, <3>1, SameBuffers DEF New!Executed, Executed
  <2> QED BY <2>1, <2>2
<1> QED BY <1>1, <1>5

\* Decode decides in both machines alike whether it has to wait.
LEMMA SameDecodeStall ==
  ASSUME Core, Matched, phase = "decode", fd_buff[R].valid, ~DecodeLeaks
  PROVE  /\ newfd_buff[R] = fd_buff[R]
         /\ New!shouldStallDecode(fd_buff[R].inst) <=> shouldStallDecode(fd_buff[R].inst)
<1> DEFINE inst == fd_buff[R].inst
           rs == getSourceRegisters(inst)
           busy(reg) == reg > 0 /\ RegBusy[reg] > 0
<1>1. newfd_buff[R] = fd_buff[R]
  BY DEF Matched, BuffersMatched, Alike
<1>2. inst \in Instruction
  BY DEF Core, Buffers, Pipeline_Buffer
<1>3. dx_buff[W].valid <=> newdx_buff[W].valid
  BY TracedAlike DEF Core, Matched, BuffersMatched, Alike
<1>4. ASSUME NEW i \in 1 .. 2, busy(rs[i])
      PROVE  New!checkRegisterForwardDecode(rs[i]) <=> checkRegisterForwardDecode(rs[i])
  <2> DEFINE reg == rs[i]
  <2>1. reg \in Int /\ reg > 0
    BY <1>2, <1>4, RegistersType
  <2>2. ~TakesStale(reg, Source("dx", dx_buff), Source("xm", xm_buff))
    BY <1>4 DEF DecodeLeaks
  <2> HIDE DEF reg
  <2>3. /\ "dx" \in filled => newdx_buff = dx_buff
        /\ "dx" \notin filled => ~Forwards(newdx_buff[R].inst, reg)
        /\ "xm" \in filled => newxm_buff = xm_buff
        /\ "xm" \notin filled => ~Forwards(newxm_buff[R].inst, reg)
    BY <2>1, ForwardsAlike DEF Matched, BuffersMatched
  <2>4. config.Forwarding_enabled =>
          /\ "dx" \notin filled => ~Forwards(dx_buff[R].inst, reg)
          /\ "xm" \notin filled /\ Forwards(xm_buff[R].inst, reg) => Forwards(dx_buff[R].inst, reg)
    BY <2>1, <2>2 DEF TakesStale, Source
  <2>5. New!checkRegisterForwardDecode(reg) <=> checkRegisterForwardDecode(reg)
    BY <2>1, <2>3, <2>4, SameFormats, SameBuffers
    DEF New!checkRegisterForwardDecode, checkRegisterForwardDecode
  <2> QED BY <2>5 DEF reg
<1>5. /\ busy(rs[1]) => (New!checkRegisterForwardDecode(rs[1]) <=> checkRegisterForwardDecode(rs[1]))
      /\ busy(rs[2]) => (New!checkRegisterForwardDecode(rs[2]) <=> checkRegisterForwardDecode(rs[2]))
  BY <1>4
<1>6. New!getSourceRegisters(inst) = rs /\ (New!isStore(inst) <=> isStore(inst))
  BY SameRegisters, SameFormats
<1>7. newRegBusy = RegBusy
  BY DEF Matched, ControlMatched
<1> QED BY <1>1, <1>3, <1>5, <1>6, <1>7, SameBuffers DEF New!shouldStallDecode, shouldStallDecode

----------------------------------------------------------------------------
(* A step of both machines, phase by phase.                                *)

\* The new machine is in the same phase and can do nothing else.
LEMMA NewSteps ==
  ASSUME New!Step
  PROVE  /\ newphase = "control"   => New!RunControl
         /\ newphase = "writeback" => New!RunWriteback \/ New!Bubble
         /\ newphase = "memory"    => New!RunMemory \/ New!Bubble
         /\ newphase = "execute"   => \/ New!RunExecuteCycle \/ New!RunExecutePanic
                                      \/ New!RunExecute \/ New!Bubble
         /\ newphase = "decode"    => New!RunDecodeStall \/ New!RunDecode \/ New!Bubble
         /\ newphase = "fetch"     => New!RunFetchEnd \/ New!RunFetch \/ New!Bubble
         /\ newphase = "shift"     => New!ShiftPipelineBuffers
<1>1. New!RunControl => newphase = "control"            BY DEF New!RunControl
<1>2. New!RunWriteback => newphase = "writeback"        BY DEF New!RunWriteback
<1>3. New!RunMemory => newphase = "memory"              BY DEF New!RunMemory
<1>4. New!RunExecuteCycle => newphase = "execute"       BY DEF New!RunExecuteCycle
<1>5. New!RunExecutePanic => newphase = "execute"       BY DEF New!RunExecutePanic
<1>6. New!RunExecute => newphase = "execute"            BY DEF New!RunExecute
<1>7. New!RunDecodeStall => newphase = "decode"         BY DEF New!RunDecodeStall
<1>8. New!RunDecode => newphase = "decode"              BY DEF New!RunDecode
<1>9. New!RunFetchEnd => newphase = "fetch"             BY DEF New!RunFetchEnd
<1>10. New!RunFetch => newphase = "fetch"               BY DEF New!RunFetch
<1>11. New!Bubble => newphase \in {"writeback", "memory", "execute", "decode", "fetch"}
  BY DEF New!Bubble
<1>12. New!ShiftPipelineBuffers => newphase = "shift"   BY DEF New!ShiftPipelineBuffers
<1> QED BY <1>1, <1>2, <1>3, <1>4, <1>5, <1>6, <1>7, <1>8, <1>9, <1>10, <1>11, <1>12
        DEF New!Step

\* A stage that leaves the memories alone leaves them matched.
LEMMA MemoryKept ==
  ASSUME MemoryMatched, UNCHANGED <<config, Memory, newMemory, written>>,
         Memory_diff_addr' \subseteq Memory_diff_addr
  PROVE  MemoryMatched'
BY DEF MemoryMatched

\* run_control, with a flush or without.
LEMMA ControlTwin ==
  ASSUME Core, Matched, CountControl, New!Step, UNCHANGED <<filled, written>>,
         Dm.N_cycle \in Nat
  PROVE  Matched'
<1> DEFINE cb == control_buff[R]
<1>1. /\ RunControl /\ phase = "control" /\ Memory_diff_addr' = {}
      /\ config' = config
  BY DEF CountControl, RunControl, setup
<1>2. New!RunControl
  BY <1>1, NewSteps DEF Matched, ControlMatched
<1>3. newcontrol_buff[New!R] = cb
  BY SameBuffers DEF Matched, ControlMatched
<1>4. /\ newphase' = phase' /\ newPc' = Pc' /\ newRegData' = RegData'
      /\ newBp' = Bp' /\ newcontrol_buff' = control_buff' /\ control_buff' = control_buff
      /\ newstall_map' = stall_map' /\ newHalted' = Halted'
      /\ newRuntime_error' = Runtime_error'
      /\ UNCHANGED <<Memory, newMemory, xm_buff, newxm_buff, mw_buff, newmw_buff>>
  BY <1>1, <1>2, <1>3, SameAccesses DEF Matched, ControlMatched, RunControl, New!RunControl
<1>5. /\ newhalt' = halt' /\ newRegBusy' = RegBusy'
      /\ Alike(fd_buff', newfd_buff') /\ Latch(newfd_buff')
      /\ Traced(filled, "dx", dx_buff', newdx_buff')
  <2>1. CASE "FLUSH" \in cb.flags /\ ~halt
    <3>1. flush /\ New!flush
      BY <1>1, <1>2, <1>3, <2>1 DEF RunControl, New!RunControl
    <3>2. "dx" \in filled /\ newdx_buff = dx_buff
      BY <2>1 DEF Matched, FlushIsOwn, BuffersMatched, Traced
    <3>3. /\ fd_buff' = Drained(fd_buff) /\ dx_buff' = Drained(dx_buff) /\ halt' = halt
          /\ RegBusy' = IF WritesRd(dx_buff[R].inst)
                        THEN [RegBusy EXCEPT ![dx_buff[R].inst.Rd] = @ - 1] ELSE RegBusy
      BY <2>1, <3>1 DEF flush
    <3>4. /\ newfd_buff' = Drained(newfd_buff) /\ newdx_buff' = Drained(dx_buff)
          /\ newhalt' = halt
          /\ newRegBusy' = IF WritesRd(dx_buff[R].inst)
                           THEN [RegBusy EXCEPT ![dx_buff[R].inst.Rd] = @ - 1] ELSE RegBusy
      BY <2>1, <3>1, <3>2, SameBuffers, SameFormats
      DEF New!flush, Matched, ControlMatched
    <3>5. Alike(Drained(fd_buff), Drained(newfd_buff)) /\ Latch(Drained(newfd_buff))
      BY AlikeDrained DEF Core, Matched, BuffersMatched
    <3> QED BY <3>2, <3>3, <3>4, <3>5 DEF Traced
  <2>2. CASE ~("FLUSH" \in cb.flags /\ ~halt)
    <3>1. /\ UNCHANGED <<fd_buff, dx_buff, RegBusy>>
          /\ halt' = (halt /\ "FLUSH" \notin cb.flags)
      BY <1>1, <2>2 DEF RunControl, flush, Core
    <3>2. /\ UNCHANGED <<newfd_buff, newdx_buff, newRegBusy>>
          /\ newhalt' = (halt /\ "FLUSH" \notin cb.flags)
      BY <1>2, <1>3, <2>2 DEF New!RunControl, New!flush, Core, Matched, ControlMatched
    <3> QED BY <3>1, <3>2 DEF Matched, ControlMatched, BuffersMatched
  <2> QED BY <2>1, <2>2
<1>6. MemoryMatched'
  BY <1>1, <1>4, MemoryKept DEF Matched
<1> QED BY <1>4, <1>5, <1>6 DEF Matched, ControlMatched, BuffersMatched, FlushIsOwn, ErrorMatched

\* run_writeback.
LEMMA WritebackTwin ==
  ASSUME Core, Matched, CountWriteback, New!Step, UNCHANGED <<filled, written>>
  PROVE  Matched'
<1>1. /\ RunWriteback /\ phase = "writeback" /\ mw_buff[R].valid
      /\ UNCHANGED <<config, Memory_diff_addr>>
  BY DEF CountWriteback, RunWriteback, setup
<1>2. newmw_buff = mw_buff
  BY <1>1, TracedValid DEF Matched, BuffersMatched
<1>3. New!RunWriteback
  <2>1. ~New!Bubble
    BY <1>1, <1>2, SameBuffers DEF New!Bubble, Matched, ControlMatched
  <2> QED BY <1>1, <2>1, NewSteps DEF Matched, ControlMatched
<1>4. newRegBusy' = RegBusy' /\ newRegData' = RegData'
  BY <1>1, <1>2, <1>3, SameBuffers, SameFormats
  DEF RunWriteback, New!RunWriteback, Matched, ControlMatched
<1>5. /\ newphase' = phase' /\ phase' = "memory"
      /\ UNCHANGED <<Pc, Memory, Bp, control_buff, fd_buff, dx_buff, xm_buff,
                     mw_buff, stall_map, halt, Halted, Runtime_error>>
      /\ UNCHANGED <<newPc, newMemory, newBp, newcontrol_buff, newfd_buff, newdx_buff,
                     newxm_buff, newmw_buff, newstall_map, newhalt, newHalted,
                     newRuntime_error>>
  BY <1>1, <1>3 DEF RunWriteback, New!RunWriteback
<1>6. MemoryMatched'
  BY <1>1, <1>5, MemoryKept DEF Matched
<1> QED BY <1>1, <1>4, <1>5, <1>6
        DEF Matched, ControlMatched, BuffersMatched, FlushIsOwn, ErrorMatched

\* A load that does not see the old run reads the same in both memories.
LEMMA SameLoad ==
  ASSUME MemoryMatched, config \in Configs, NEW addr \in Int, NEW n \in {1, 2, 4},
         AccessError(config.Mem_size, addr, n) = NoError =>
           \A a \in Cells(addr, n) \ written : Memory[a] = 0
  PROVE  memoryRead(newMemory, config.Mem_size, addr, n)
           = memoryRead(Memory, config.Mem_size, addr, n)
<1> DEFINE size == config.Mem_size
<1>1. size \in Nat
  BY ConfigsAssumption DEF Config
<1>2. CASE AccessError(size, addr, n) # NoError
  BY <1>2 DEF memoryRead
<1>3. CASE AccessError(size, addr, n) = NoError
  <2>1. Cells(addr, n) \subseteq 0 .. size - 1
    <3> HIDE DEF size
    <3> QED BY <1>1, <1>3, CellsInBounds
  <2>2. \A a \in Cells(addr, n) : newMemory[a] = Memory[a]
    BY <1>3, <2>1 DEF MemoryMatched
  <2>3. ASSUME NEW i \in 0 .. 3, i < n
        PROVE  newMemory[Uint32(addr + i)] = Memory[Uint32(addr + i)]
    BY <2>2, <2>3 DEF Cells
  <2>4. /\ 0 < n => newMemory[Uint32(addr + 0)] = Memory[Uint32(addr + 0)]
        /\ 1 < n => newMemory[Uint32(addr + 1)] = Memory[Uint32(addr + 1)]
        /\ 2 < n => newMemory[Uint32(addr + 2)] = Memory[Uint32(addr + 2)]
        /\ 3 < n => newMemory[Uint32(addr + 3)] = Memory[Uint32(addr + 3)]
    BY <2>3
  <2> HIDE DEF size
  <2> QED BY <1>3, <2>4 DEF memoryRead
<1> QED BY <1>2, <1>3

\* A store writes the same cells of both memories.
LEMMA SameStore ==
  ASSUME NEW mem, NEW newmem, NEW data, NEW addr, NEW n,
         NEW a \in DOMAIN mem, a \in DOMAIN newmem, a \in Stored(addr, n)
  PROVE  memoryWrite(newmem, config.Mem_size, data, addr, n)[a]
           = memoryWrite(mem, config.Mem_size, data, addr, n)[a]
BY DEF memoryWrite, Stored

\* The bytes a store changes are within the size of the memory.
LEMMA StoredInBounds ==
  ASSUME config \in Configs, NEW addr \in Int, NEW n \in {1, 2, 4}
  PROVE  Stored(addr, n) \subseteq 0 .. config.Mem_size - 1
<1>1. config.Mem_size \in Nat
  BY ConfigsAssumption DEF Config
<1>2. ASSUME NEW k \in 0 .. n - 1,
             \A j \in 0 .. k : Uint32(addr + j) < config.Mem_size
      PROVE  Uint32(addr + k) \in 0 .. config.Mem_size - 1
  <2>1. Uint32(addr + k) \in Nat
    BY Uint32Type, WordModPositive DEF Addr
  <2>2. Uint32(addr + k) < config.Mem_size
    BY <1>2
  <2> QED BY <1>1, <2>1, <2>2
<1> QED BY <1>2 DEF Stored

\* run_memory, when a load does not see the old run.
LEMMA MemoryTwin ==
  ASSUME SessionTypes, SessionTypes', Matched, CountMemory, New!Step, ~MemoryLeaks,
         filled' = filled, written' = written \cup Memory_diff_addr'
  PROVE  Matched'
<1> DEFINE inst == xm_buff[R].inst
           addr == Uint32(inst.result)
           n    == AccessBytes(inst.op)
           size == config.Mem_size
           error == IF isLoad(inst) \/ isStore(inst) THEN AccessError(size, addr, n)
                    ELSE NoError
           loaded == [inst EXCEPT !.result = memoryRead(Memory, size, addr, n)]
<1>1. /\ RunMemory /\ phase = "memory" /\ xm_buff[R].valid /\ config' = config
  BY DEF CountMemory, RunMemory, setup
<1>2. "xm" \in filled /\ newxm_buff = xm_buff
  BY <1>1, TracedValid DEF Matched, BuffersMatched
<1>3. New!RunMemory
  <2>1. ~New!Bubble
    BY <1>1, <1>2, SameBuffers DEF New!Bubble, Matched, ControlMatched
  <2> QED BY <1>1, <2>1, NewSteps DEF Matched, ControlMatched
<1>4. /\ inst \in Instruction /\ addr \in Addr /\ addr \in Int /\ n \in {1, 2, 4}
      /\ size \in Nat /\ inst.s1 \in Int /\ config \in Configs
  BY AccessType DEF SessionTypes, Core
<1>5. isLoad(inst) => memoryRead(newMemory, size, addr, n) = memoryRead(Memory, size, addr, n)
  <2>1. isLoad(inst) /\ AccessError(size, addr, n) = NoError =>
          \A a \in Cells(addr, n) \ written : Memory[a] = 0
    BY <1>1 DEF MemoryLeaks
  <2> HIDE DEF inst, addr, n
  <2> QED BY <1>4, <2>1, SameLoad DEF Matched
<1>6. /\ phase' = "execute"
      /\ Memory' = IF isStore(inst) THEN memoryWrite(Memory, size, inst.s1, addr, n)
                   ELSE Memory
      /\ Runtime_error' = IF error = NoError THEN Runtime_error ELSE error
      /\ halt' = (halt \/ (isLoad(inst) /\ error = "unaligned"))
      /\ mw_buff' = Filled(mw_buff, xm_buff[R].pc, IF isLoad(inst) THEN loaded ELSE inst)
      /\ UNCHANGED <<Pc, RegData, RegBusy, Bp, control_buff, fd_buff, dx_buff,
                     xm_buff, stall_map, Halted>>
  BY <1>1 DEF RunMemory
<1>7. /\ newphase' = "execute"
      /\ newMemory' = IF isStore(inst) THEN memoryWrite(newMemory, size, inst.s1, addr, n)
                      ELSE newMemory
      /\ newRuntime_error' = IF error = NoError THEN newRuntime_error ELSE error
      /\ newhalt' = (newhalt \/ (isLoad(inst) /\ error = "unaligned"))
      /\ newmw_buff' = Filled(newmw_buff, xm_buff[R].pc,
                              IF isLoad(inst)
                              THEN [inst EXCEPT !.result = memoryRead(newMemory, size, addr, n)]
                              ELSE inst)
      /\ UNCHANGED <<newPc, newRegData, newRegBusy, newBp, newcontrol_buff, newfd_buff,
                     newdx_buff, newxm_buff, newstall_map, newHalted>>
  BY <1>2, <1>3, SameBuffers, SameFormats, SameWords, SameRegisters, SameAccesses
  DEF New!RunMemory
<1>8. Traced(filled, "mw", mw_buff', newmw_buff')
  <2> DEFINE out == IF isLoad(inst) THEN loaded ELSE inst
  <2>1. mw_buff' = Filled(mw_buff, xm_buff[R].pc, out)
        /\ newmw_buff' = Filled(newmw_buff, xm_buff[R].pc, out)
    BY <1>5, <1>6, <1>7
  <2> HIDE DEF out
  <2> QED BY <2>1, TracedFilled DEF SessionTypes, Core, Matched, BuffersMatched
<1>9. MemoryMatched'
  <2> DEFINE cells == 0 .. size - 1
             diff  == IF isStore(inst) THEN Stored(addr, n) ELSE {}
  <2>1. Memory_diff_addr' = Memory_diff_addr \cup diff
    BY DEF CountMemory
  <2>2. written' = written \cup diff /\ Memory_diff_addr' \subseteq written'
    BY <2>1 DEF Matched, MemoryMatched
  <2>3. diff \subseteq cells
    <3> HIDE DEF inst, addr, n
    <3> QED BY <1>4, StoredInBounds
  <2>4. diff \subseteq DOMAIN Memory /\ DOMAIN Memory' = DOMAIN Memory
    <3>1. DOMAIN Memory' = DOMAIN Memory
      BY <1>6 DEF memoryWrite
    <3> QED BY <2>1, <3>1 DEF SessionTypes
  <2>5. DOMAIN newMemory = cells
    <3>1. newMemory = [a \in cells |-> newMemory[a]]
      BY DEF Matched, MemoryMatched
    <3> QED BY <3>1
  <2>9. newMemory' = [a \in cells |-> newMemory'[a]]
    <3>1. newMemory = [a \in cells |-> newMemory[a]]
      BY DEF Matched, MemoryMatched
    <3> QED BY <1>7, <2>5, <3>1 DEF memoryWrite
  <2>6. /\ \A a \in DOMAIN Memory \ diff : Memory'[a] = Memory[a]
        /\ \A a \in cells \ diff : newMemory'[a] = newMemory[a]
        /\ \A a \in diff : newMemory'[a] = Memory'[a]
    <3>1. CASE isStore(inst)
      <4>1. /\ Memory' = memoryWrite(Memory, size, inst.s1, addr, n)
            /\ newMemory' = memoryWrite(newMemory, size, inst.s1, addr, n)
            /\ diff = Stored(addr, n)
        BY <1>6, <1>7, <3>1
      <4> HIDE DEF inst, addr, n, diff, cells
      <4>2. ASSUME NEW a \in DOMAIN Memory \ diff PROVE Memory'[a] = Memory[a]
        BY <4>1, StoreKnown
      <4>3. ASSUME NEW a \in cells \ diff PROVE newMemory'[a] = newMemory[a]
        <5>1. a \in DOMAIN newMemory /\ a \notin Stored(addr, n)
          BY <2>5, <4>1, <4>3
        <5> QED BY <4>1, <5>1, StoreKnown
      <4>4. ASSUME NEW a \in diff PROVE newMemory'[a] = Memory'[a]
        <5>1. a \in DOMAIN newMemory /\ a \in DOMAIN Memory /\ a \in Stored(addr, n)
          BY <2>3, <2>4, <2>5, <4>1
        <5> QED BY <4>1, <5>1, SameStore
      <4> QED BY <4>2, <4>3, <4>4
    <3>2. CASE ~isStore(inst)
      BY <1>6, <1>7, <3>2
    <3> QED BY <3>1, <3>2
  <2> HIDE DEF diff
  <2>7. /\ \A a \in written' : newMemory'[a] = Memory'[a]
        /\ \A a \in cells \ written' : newMemory'[a] = 0
    <3>1. ASSUME NEW a \in written' PROVE newMemory'[a] = Memory'[a]
      BY <2>2, <2>6 DEF Matched, MemoryMatched
    <3>2. ASSUME NEW a \in cells \ written' PROVE newMemory'[a] = 0
      BY <2>2, <2>6 DEF Matched, MemoryMatched
    <3> QED BY <3>1, <3>2
  <2>8. written' \subseteq DOMAIN Memory' /\ written' \subseteq cells
    BY <2>2, <2>3, <2>4 DEF Matched, MemoryMatched
  <2> QED BY <1>1, <2>2, <2>7, <2>8, <2>9 DEF MemoryMatched
<1> HIDE DEF error
<1> QED BY <1>1, <1>6, <1>7, <1>8, <1>9
        DEF Matched, ControlMatched, BuffersMatched, FlushIsOwn, ErrorMatched

\* What execute finds and computes.
LEMMA ExecuteAlike ==
  ASSUME Core, Matched, phase = "execute", dx_buff[R].valid, ~ExecuteLeaks, New!Step
  PROVE  /\ "dx" \in filled /\ newdx_buff = dx_buff /\ newphase = "execute"
         /\ New!Executed = Executed
         /\ New!RunExecuteCycle \/ New!RunExecutePanic \/ New!RunExecute
<1>1. "dx" \in filled /\ newdx_buff = dx_buff /\ New!Executed = Executed
  BY SameExecuted DEF Matched
<1>2. newphase = "execute" /\ ~New!Bubble
  BY <1>1, SameBuffers DEF New!Bubble, Matched, ControlMatched
<1> QED BY <1>1, <1>2, NewSteps

\* run_execute, when an instruction needs more cycles,
LEMMA ExecuteCycleTwin ==
  ASSUME Core, Matched, CountExecuteCycle, New!Step, ~ExecuteLeaks,
         UNCHANGED <<filled, written>>
  PROVE  Matched'
<1>1. /\ RunExecuteCycle /\ phase = "execute" /\ dx_buff[R].valid
      /\ Executed.remaining > 0 /\ UNCHANGED <<config, Memory_diff_addr>>
  BY DEF CountExecuteCycle, RunExecuteCycle, setup
<1>2. /\ "dx" \in filled /\ newdx_buff = dx_buff /\ newphase = "execute"
      /\ New!Executed = Executed
      /\ New!RunExecuteCycle \/ New!RunExecutePanic \/ New!RunExecute
  BY <1>1, ExecuteAlike
<1>3. New!RunExecuteCycle
  <2>1. Executed.remaining \in Int
    BY <1>1, ExecutedType DEF SameAs, Instruction
  <2> QED BY <1>1, <1>2, <2>1 DEF New!RunExecutePanic, New!RunExecute
<1>4. newdx_buff' = dx_buff'
  BY <1>1, <1>2, <1>3, SameBuffers DEF RunExecuteCycle, New!RunExecuteCycle
<1>5. /\ newphase' = phase' /\ phase' = "decode"
      /\ UNCHANGED <<Pc, RegData, RegBusy, Memory, Bp, control_buff, fd_buff,
                     xm_buff, mw_buff, stall_map, halt, Halted, Runtime_error>>
      /\ UNCHANGED <<newPc, newRegData, newRegBusy, newMemory, newBp, newcontrol_buff,
                     newfd_buff, newxm_buff, newmw_buff, newstall_map, newhalt,
                     newHalted, newRuntime_error>>
  BY <1>1, <1>3 DEF RunExecuteCycle, New!RunExecuteCycle
<1>6. MemoryMatched'
  BY <1>1, <1>5, MemoryKept DEF Matched
<1> QED BY <1>1, <1>2, <1>4, <1>5, <1>6
        DEF Matched, ControlMatched, BuffersMatched, Traced, FlushIsOwn, ErrorMatched

\* when Go panics,
LEMMA ExecutePanicTwin ==
  ASSUME Core, Matched, RunExecutePanic, UNCHANGED reports, New!Step, ~ExecuteLeaks,
         UNCHANGED <<filled, written>>
  PROVE  Matched'
<1>1. /\ phase = "execute" /\ dx_buff[R].valid
      /\ Executed.remaining <= 0 /\ Panics(Executed) /\ UNCHANGED <<config, Memory_diff_addr>>
  BY DEF RunExecutePanic, setup, reports
<1>2. /\ "dx" \in filled /\ newdx_buff = dx_buff /\ newphase = "execute"
      /\ New!Executed = Executed
      /\ New!RunExecuteCycle \/ New!RunExecutePanic \/ New!RunExecute
  BY <1>1, ExecuteAlike
<1>3. New!RunExecutePanic
  <2>1. Executed.remaining \in Int
    BY <1>1, ExecutedType DEF SameAs, Instruction
  <2> QED BY <1>1, <1>2, <2>1, SameExecution DEF New!RunExecuteCycle, New!RunExecute
<1>4. /\ newphase' = phase' /\ phase' = "panicked"
      /\ UNCHANGED <<Pc, RegData, RegBusy, Memory, Bp, control_buff, fd_buff, dx_buff,
                     xm_buff, mw_buff, stall_map, halt, Halted, Runtime_error>>
      /\ UNCHANGED <<newPc, newRegData, newRegBusy, newMemory, newBp, newcontrol_buff,
                     newfd_buff, newdx_buff, newxm_buff, newmw_buff, newstall_map, newhalt,
                     newHalted, newRuntime_error>>
  BY <1>3 DEF RunExecutePanic, New!RunExecutePanic
<1>5. MemoryMatched'
  BY <1>1, <1>4, MemoryKept DEF Matched
<1> QED BY <1>1, <1>4, <1>5
        DEF Matched, ControlMatched, BuffersMatched, FlushIsOwn, ErrorMatched

\* and when the instruction is done.
LEMMA ExecuteTwin ==
  ASSUME Core, Matched, CountExecute, New!Step, ~ExecuteLeaks, UNCHANGED <<filled, written>>
  PROVE  Matched'
<1> DEFINE inst   == Executed
           pc     == dx_buff[R].pc
           target == BranchTarget(inst, pc)
           out    == [inst EXCEPT !.result = Result(inst, pc)]
<1>1. /\ RunExecute /\ phase = "execute" /\ dx_buff[R].valid
      /\ inst.remaining <= 0 /\ ~Panics(inst) /\ UNCHANGED <<config, Memory_diff_addr>>
  BY DEF CountExecute, RunExecute, setup
<1>2. /\ "dx" \in filled /\ newdx_buff = dx_buff /\ newphase = "execute"
      /\ New!Executed = inst
      /\ New!RunExecuteCycle \/ New!RunExecutePanic \/ New!RunExecute
  BY <1>1, ExecuteAlike
<1>3. New!RunExecute
  <2>1. inst.remaining \in Int
    BY <1>1, ExecutedType DEF SameAs, Instruction
  <2> HIDE DEF inst
  <2> QED BY <1>1, <1>2, <2>1, SameExecution DEF New!RunExecuteCycle, New!RunExecutePanic
<1>4. /\ phase' = "decode" /\ xm_buff' = Filled(xm_buff, pc, out)
      /\ UNCHANGED <<Pc, RegData, RegBusy, Memory, fd_buff, dx_buff, mw_buff,
                     stall_map, halt, Halted, Runtime_error>>
      /\ \/ isConditionalBranch(inst) /\ ResolveBranch(inst, pc, target, Taken(inst))
         \/ inst.op = "jalr" /\ ResolveJalr(pc, target)
         \/ /\ ~isConditionalBranch(inst) /\ inst.op # "jalr"
            /\ UNCHANGED <<control_buff, Bp>>
  BY <1>1 DEF RunExecute
<1>5. /\ newphase' = "decode" /\ newxm_buff' = Filled(newxm_buff, pc, out)
      /\ UNCHANGED <<newPc, newRegData, newRegBusy, newMemory, newfd_buff, newdx_buff,
                     newmw_buff, newstall_map, newhalt, newHalted, newRuntime_error>>
      /\ \/ isConditionalBranch(inst) /\ New!ResolveBranch(inst, pc, target, New!Taken(inst))
         \/ inst.op = "jalr" /\ New!ResolveJalr(pc, target)
         \/ /\ ~isConditionalBranch(inst) /\ inst.op # "jalr"
            /\ UNCHANGED <<newcontrol_buff, newBp>>
  <2> HIDE DEF inst
  <2> QED BY <1>2, <1>3, SameBuffers, SameFormats, SameExecution DEF New!RunExecute
<1>6. newcontrol_buff' = control_buff' /\ newBp' = Bp'
  <2> HIDE DEF inst, pc, target
  <2>1. newcontrol_buff = control_buff /\ newBp = Bp /\ newstall_map = stall_map
    BY DEF Matched, ControlMatched
  <2>2. \A there, flags : Signal(there, flags) /\ New!Signal(there, flags) =>
          newcontrol_buff' = control_buff'
    BY <2>1, SameBuffers DEF Signal, New!Signal
  <2>3. \A there, taken : Learn(pc, there, taken) /\ New!Learn(pc, there, taken) => newBp' = Bp'
    BY <2>1, SamePredictions DEF Learn, New!Learn
  <2>4. CASE isConditionalBranch(inst)
    <3>1. inst.op # "jalr"
      BY <2>4 DEF isConditionalBranch, Fmt_B, B_Ops
    <3>2. ResolveBranch(inst, pc, target, Taken(inst))
      BY <1>4, <2>4, <3>1
    <3>3. New!ResolveBranch(inst, pc, target, Taken(inst))
      <4>1. New!Taken(inst) = Taken(inst)
        BY SameExecution DEF Taken, New!Taken
      <4> QED BY <1>5, <2>4, <3>1, <4>1
    <3>4. New!NextPc(inst, pc) = NextPc(inst, pc)
      BY SameExecution
    <3> QED BY <2>1, <2>2, <2>3, <3>2, <3>3, <3>4, SamePredictions
            DEF ResolveBranch, New!ResolveBranch
  <2>5. CASE inst.op = "jalr"
    <3>1. ~isConditionalBranch(inst)
      BY <2>5 DEF isConditionalBranch, Fmt_B, B_Ops
    <3>2. ResolveJalr(pc, target) /\ New!ResolveJalr(pc, target)
      BY <1>4, <1>5, <2>5, <3>1
    <3> QED BY <2>1, <2>2, <2>3, <3>2, SamePredictions DEF ResolveJalr, New!ResolveJalr
  <2>6. CASE ~isConditionalBranch(inst) /\ inst.op # "jalr"
    BY <1>4, <1>5, <2>1, <2>6
  <2> QED BY <2>4, <2>5, <2>6
<1>7. Traced(filled, "xm", xm_buff', newxm_buff')
  <2> HIDE DEF out
  <2> QED BY <1>4, <1>5, TracedFilled DEF Core, Matched, BuffersMatched
<1>8. MemoryMatched'
  BY <1>1, <1>4, <1>5, MemoryKept DEF Matched
<1> QED BY <1>1, <1>2, <1>4, <1>5, <1>6, <1>7, <1>8
        DEF Matched, ControlMatched, BuffersMatched, FlushIsOwn, ErrorMatched

\* run_decode, when the instruction has to wait,
LEMMA DecodeStallTwin ==
  ASSUME Core, Matched, RunDecodeStall, UNCHANGED reports, New!Step, ~DecodeLeaks,
         UNCHANGED <<filled, written>>
  PROVE  Matched'
<1>1. /\ phase = "decode" /\ fd_buff[R].valid /\ shouldStallDecode(fd_buff[R].inst)
      /\ UNCHANGED <<config, Memory_diff_addr>>
  BY DEF RunDecodeStall, setup, reports
<1>2. /\ newfd_buff[R] = fd_buff[R] /\ New!shouldStallDecode(fd_buff[R].inst)
  BY <1>1, SameDecodeStall
<1>3. New!RunDecodeStall
  <2>1. newphase = "decode" /\ ~New!Bubble /\ ~New!RunDecode
    BY <1>1, <1>2, SameBuffers DEF New!Bubble, New!RunDecode, Matched, ControlMatched
  <2> QED BY <2>1, NewSteps
<1>4. /\ newphase' = phase' /\ phase' = "fetch" /\ newstall_map' = stall_map'
      /\ fd_buff' = [fd_buff EXCEPT ![W] = fd_buff[R]]
      /\ newfd_buff' = [newfd_buff EXCEPT ![W] = newfd_buff[R]]
      /\ UNCHANGED <<Pc, RegData, RegBusy, Memory, Bp, control_buff, dx_buff,
                     xm_buff, mw_buff, halt, Halted, Runtime_error>>
      /\ UNCHANGED <<newPc, newRegData, newRegBusy, newMemory, newBp, newcontrol_buff,
                     newdx_buff, newxm_buff, newmw_buff, newhalt, newHalted,
                     newRuntime_error>>
  BY <1>3, SameBuffers DEF RunDecodeStall, New!RunDecodeStall, Matched, ControlMatched
<1>5. Alike(fd_buff', newfd_buff') /\ Latch(newfd_buff')
  BY <1>1, <1>4, AlikeFedBack DEF Core, Matched, BuffersMatched
<1>6. MemoryMatched'
  BY <1>1, <1>4, MemoryKept DEF Matched
<1> QED BY <1>1, <1>4, <1>5, <1>6
        DEF Matched, ControlMatched, BuffersMatched, FlushIsOwn, ErrorMatched

\* and when it passes.
LEMMA DecodeTwin ==
  ASSUME Core, Matched, CountDecode, New!Step, ~DecodeLeaks, UNCHANGED <<filled, written>>
  PROVE  Matched'
<1> DEFINE inst == fd_buff[R].inst
           pc   == fd_buff[R].pc
<1>1. /\ RunDecode /\ phase = "decode" /\ fd_buff[R].valid /\ ~shouldStallDecode(inst)
      /\ UNCHANGED <<config, Memory_diff_addr>>
  BY DEF CountDecode, RunDecode, setup
<1>2. /\ newfd_buff[R] = fd_buff[R] /\ ~New!shouldStallDecode(inst)
  BY <1>1, SameDecodeStall
<1>3. New!RunDecode
  <2>1. newphase = "decode" /\ ~New!Bubble /\ ~New!RunDecodeStall
    BY <1>1, <1>2, SameBuffers DEF New!Bubble, New!RunDecodeStall, Matched, ControlMatched
  <2> QED BY <2>1, NewSteps
<1>4. /\ phase' = "fetch" /\ stall_map' = stall_map \ {"RAW"}
      /\ dx_buff' = Filled(dx_buff, pc, Decoded(inst, RegData))
      /\ RegBusy' = IF WritesRd(inst) THEN [RegBusy EXCEPT ![inst.Rd] = @ + 1] ELSE RegBusy
      /\ Pc' = IF inst.op = "jal" THEN Uint32(pc + inst.Rs1) ELSE Pc
      /\ UNCHANGED <<RegData, Memory, Bp, control_buff, fd_buff, xm_buff, mw_buff,
                     halt, Halted, Runtime_error>>
  BY <1>1 DEF RunDecode
<1>5. /\ newphase' = "fetch" /\ newstall_map' = stall_map \ {"RAW"}
      /\ newdx_buff' = Filled(newdx_buff, pc, Decoded(inst, RegData))
      /\ newRegBusy' = IF WritesRd(inst) THEN [RegBusy EXCEPT ![inst.Rd] = @ + 1] ELSE RegBusy
      /\ newPc' = IF inst.op = "jal" THEN Uint32(pc + inst.Rs1) ELSE Pc
      /\ UNCHANGED <<newRegData, newMemory, newBp, newcontrol_buff, newfd_buff,
                     newxm_buff, newmw_buff, newhalt, newHalted, newRuntime_error>>
  BY <1>2, <1>3, SameBuffers, SameFormats, SameWords, SameExecution
  DEF New!RunDecode, Matched, ControlMatched
<1>6. Traced(filled, "dx", dx_buff', newdx_buff')
  BY <1>4, <1>5, TracedFilled DEF Core, Matched, BuffersMatched
<1>7. MemoryMatched'
  BY <1>1, <1>4, <1>5, MemoryKept DEF Matched
<1> HIDE DEF inst, pc
<1> QED BY <1>1, <1>4, <1>5, <1>6, <1>7
        DEF Matched, ControlMatched, BuffersMatched, FlushIsOwn, ErrorMatched

\* Fetch looks at nothing but what the two machines have in common.
LEMMA SameFetch ==
  ASSUME Matched
  PROVE  /\ New!FetchEnabled <=> FetchEnabled
         /\ New!AtEnd <=> AtEnd
         /\ New!Fetched = Fetched /\ New!Guess = Guess
<1>1. newPc = Pc /\ newBp = Bp /\ newhalt = halt /\ newstall_map = stall_map
  BY DEF Matched, ControlMatched
<1>2. New!FetchEnabled <=> FetchEnabled
  BY <1>1, SamePredictions DEF New!FetchEnabled, FetchEnabled
<1>3. New!Fetched = Fetched
  BY <1>1 DEF New!Fetched, Fetched
<1>4. New!AtEnd <=> AtEnd
  BY <1>1, <1>3, SamePredictions DEF New!AtEnd, AtEnd
<1>5. New!Guess = Guess
  BY <1>1, <1>3, SamePredictions, SameFormats DEF New!Guess, Guess
<1> QED BY <1>2, <1>3, <1>4, <1>5

\* run_fetch, at the end of the program,
LEMMA FetchEndTwin ==
  ASSUME Core, Matched, RunFetchEnd, UNCHANGED reports, New!Step,
         UNCHANGED <<filled, written>>
  PROVE  Matched'
<1>1. /\ phase = "fetch" /\ FetchEnabled /\ AtEnd /\ UNCHANGED <<config, Memory_diff_addr>>
  BY DEF RunFetchEnd, setup, reports
<1>2. New!RunFetchEnd
  <2>1. newphase = "fetch" /\ ~New!Bubble /\ ~New!RunFetch
    BY <1>1, SameFetch DEF New!Bubble, New!RunFetch, Matched, ControlMatched
  <2> QED BY <2>1, NewSteps
<1>3. /\ newphase' = phase' /\ phase' = "shift" /\ newhalt' = halt'
      /\ UNCHANGED <<Pc, RegData, RegBusy, Memory, Bp, control_buff, fd_buff, dx_buff,
                     xm_buff, mw_buff, stall_map, Halted, Runtime_error>>
      /\ UNCHANGED <<newPc, newRegData, newRegBusy, newMemory, newBp, newcontrol_buff,
                     newfd_buff, newdx_buff, newxm_buff, newmw_buff, newstall_map,
                     newHalted, newRuntime_error>>
  BY <1>2 DEF RunFetchEnd, New!RunFetchEnd
<1>4. MemoryMatched'
  BY <1>1, <1>3, MemoryKept DEF Matched
<1> QED BY <1>1, <1>3, <1>4
        DEF Matched, ControlMatched, BuffersMatched, FlushIsOwn, ErrorMatched

\* and in front of it.
LEMMA FetchTwin ==
  ASSUME Core, Matched, CountFetch, New!Step, UNCHANGED <<filled, written>>
  PROVE  Matched'
<1>1. /\ RunFetch /\ phase = "fetch" /\ FetchEnabled /\ ~AtEnd
      /\ UNCHANGED <<config, Memory_diff_addr>>
  BY DEF CountFetch, RunFetch, setup
<1>2. New!RunFetch
  <2>1. newphase = "fetch" /\ ~New!Bubble /\ ~New!RunFetchEnd
    BY <1>1, SameFetch DEF New!Bubble, New!RunFetchEnd, Matched, ControlMatched
  <2> QED BY <2>1, NewSteps
<1> DEFINE out == [Fetched EXCEPT !.remaining = ExTotal(Fetched)]
<1>3. /\ phase' = "shift" /\ Pc' = Uint32(Pc + 4)
      /\ IF Guess.kind = "jump" THEN Signal(Guess.target, {"BRANCH"})
         ELSE UNCHANGED control_buff
      /\ stall_map' = IF Guess.kind = "stall" THEN stall_map \cup {"BRANCH"} ELSE stall_map
      /\ fd_buff' = Filled(fd_buff, Pc, out)
      /\ UNCHANGED <<RegData, RegBusy, Memory, Bp, dx_buff, xm_buff, mw_buff,
                     halt, Halted, Runtime_error>>
  BY <1>1 DEF RunFetch
<1>4. /\ newphase' = "shift" /\ newPc' = Uint32(Pc + 4)
      /\ IF Guess.kind = "jump" THEN New!Signal(Guess.target, {"BRANCH"})
         ELSE UNCHANGED newcontrol_buff
      /\ newstall_map' = IF Guess.kind = "stall" THEN stall_map \cup {"BRANCH"} ELSE stall_map
      /\ newfd_buff' = Filled(newfd_buff, Pc, out)
      /\ UNCHANGED <<newRegData, newRegBusy, newMemory, newBp, newdx_buff, newxm_buff,
                     newmw_buff, newhalt, newHalted, newRuntime_error>>
  <2>1. newPc = Pc /\ newstall_map = stall_map
    BY DEF Matched, ControlMatched
  <2> QED BY <1>2, <2>1, SameFetch, SameBuffers, SameWords, SameRegisters DEF New!RunFetch
<1>5. newcontrol_buff' = control_buff' /\ FlushIsOwn'
  <2>1. newcontrol_buff = control_buff /\ filled' = filled
    BY DEF Matched, ControlMatched
  <2>2. CASE Guess.kind = "jump"
    <3>1. Signal(Guess.target, {"BRANCH"}) /\ New!Signal(Guess.target, {"BRANCH"})
      BY <1>3, <1>4, <2>2
    <3>2. newcontrol_buff' = control_buff'
      BY <2>1, <3>1, SameBuffers DEF Signal, New!Signal
    <3>3. /\ control_buff'[W].flags = control_buff[W].flags \cup {"BRANCH"}
          /\ control_buff'[R] = control_buff[R]
      BY <3>1, SignalFlags DEF Core
    <3> QED BY <2>1, <3>2, <3>3 DEF Matched, FlushIsOwn
  <2>3. CASE Guess.kind # "jump"
    BY <1>3, <1>4, <2>1, <2>3 DEF Matched, FlushIsOwn
  <2> QED BY <2>2, <2>3
<1>6. Alike(fd_buff', newfd_buff') /\ Latch(newfd_buff')
  <2> HIDE DEF out
  <2> QED BY <1>3, <1>4, AlikeFilled DEF Core, Matched, BuffersMatched
<1>7. MemoryMatched'
  BY <1>1, <1>3, <1>4, MemoryKept DEF Matched
<1> HIDE DEF out
<1> QED BY <1>1, <1>3, <1>4, <1>5, <1>6, <1>7
        DEF Matched, ControlMatched, BuffersMatched, ErrorMatched

\* A stage that is not called is called in neither machine.
LEMMA BubbleTwin ==
  ASSUME Core, Matched, Bubble, UNCHANGED reports, New!Step, UNCHANGED <<filled, written>>
  PROVE  Matched'
<1>1. UNCHANGED <<config, Memory_diff_addr>>
  BY DEF Bubble, setup, reports
<1>2. /\ newmw_buff[R].valid <=> mw_buff[R].valid
      /\ newxm_buff[R].valid <=> xm_buff[R].valid
      /\ newdx_buff[R].valid <=> dx_buff[R].valid
      /\ newfd_buff[R].valid <=> fd_buff[R].valid
  BY TracedAlike DEF Core, Matched, BuffersMatched, Alike
<1>3. newphase = phase
  BY DEF Matched, ControlMatched
<1>4. New!Bubble /\ newphase' = phase' /\ phase' # "control"
  <2>1. CASE phase = "writeback" /\ ~mw_buff[R].valid /\ phase' = "memory"
    <3>1. ~New!RunWriteback
      BY <1>2, <2>1, SameBuffers DEF New!RunWriteback
    <3>2. New!Bubble
      BY <1>3, <2>1, <3>1, NewSteps
    <3> QED BY <1>3, <2>1, <3>2 DEF New!Bubble
  <2>2. CASE phase = "memory" /\ ~xm_buff[R].valid /\ phase' = "execute"
    <3>1. ~New!RunMemory
      BY <1>2, <2>2, SameBuffers DEF New!RunMemory
    <3>2. New!Bubble
      BY <1>3, <2>2, <3>1, NewSteps
    <3> QED BY <1>3, <2>2, <3>2 DEF New!Bubble
  <2>3. CASE phase = "execute" /\ ~dx_buff[R].valid /\ phase' = "decode"
    <3>1. ~New!RunExecuteCycle /\ ~New!RunExecutePanic /\ ~New!RunExecute
      BY <1>2, <2>3, SameBuffers DEF New!RunExecuteCycle, New!RunExecutePanic, New!RunExecute
    <3>2. New!Bubble
      BY <1>3, <2>3, <3>1, NewSteps
    <3> QED BY <1>3, <2>3, <3>2 DEF New!Bubble
  <2>4. CASE phase = "decode" /\ ~fd_buff[R].valid /\ phase' = "fetch"
    <3>1. ~New!RunDecodeStall /\ ~New!RunDecode
      BY <1>2, <2>4, SameBuffers DEF New!RunDecodeStall, New!RunDecode
    <3>2. New!Bubble
      BY <1>3, <2>4, <3>1, NewSteps
    <3> QED BY <1>3, <2>4, <3>2 DEF New!Bubble
  <2>5. CASE phase = "fetch" /\ ~FetchEnabled /\ phase' = "shift"
    <3>1. ~New!RunFetchEnd /\ ~New!RunFetch
      BY <2>5, SameFetch DEF New!RunFetchEnd, New!RunFetch
    <3>2. New!Bubble
      BY <1>3, <2>5, <3>1, NewSteps
    <3> QED BY <1>3, <2>5, <3>2 DEF New!Bubble
  <2> QED BY <2>1, <2>2, <2>3, <2>4, <2>5 DEF Bubble
<1>5. /\ UNCHANGED <<Pc, RegData, RegBusy, Memory, Bp, control_buff, fd_buff, dx_buff,
                     xm_buff, mw_buff, stall_map, halt, Halted, Runtime_error>>
      /\ UNCHANGED <<newPc, newRegData, newRegBusy, newMemory, newBp, newcontrol_buff,
                     newfd_buff, newdx_buff, newxm_buff, newmw_buff, newstall_map, newhalt,
                     newHalted, newRuntime_error>>
  BY <1>4 DEF Bubble, New!Bubble
<1>6. phase # "control"
  BY DEF Bubble
<1>7. MemoryMatched'
  BY <1>1, <1>5, MemoryKept DEF Matched
<1> QED BY <1>4, <1>5, <1>6, <1>7
        DEF Matched, ControlMatched, BuffersMatched, FlushIsOwn, ErrorMatched

\* At the end of a cycle an instruction of this run reaches the read side.
LEMMA ShiftTwin ==
  ASSUME Core, Matched, CountShift, New!Step, UNCHANGED written,
         filled' = filled \cup (IF dx_buff[W].valid THEN {"dx"} ELSE {})
                          \cup (IF xm_buff[W].valid THEN {"xm"} ELSE {})
                          \cup (IF mw_buff[W].valid THEN {"mw"} ELSE {})
  PROVE  Matched'
<1>1. /\ ShiftPipelineBuffers /\ phase = "shift" /\ UNCHANGED <<config, Memory_diff_addr>>
  BY DEF CountShift, ShiftPipelineBuffers, setup
<1>2. New!ShiftPipelineBuffers
  BY <1>1, NewSteps DEF Matched, ControlMatched
<1>3. /\ fd_buff[W].valid = newfd_buff[W].valid /\ dx_buff[W].valid = newdx_buff[W].valid
      /\ xm_buff[W].valid = newxm_buff[W].valid /\ mw_buff[W].valid = newmw_buff[W].valid
  BY TracedAlike DEF Core, Matched, BuffersMatched, Alike
<1>4. newRuntime_error = Runtime_error
  BY <1>1 DEF Matched, ErrorMatched
<1>5. /\ newphase' = phase' /\ newcontrol_buff' = control_buff'
      /\ newHalted' = Halted'
      /\ UNCHANGED <<Pc, RegData, RegBusy, Memory, Bp, stall_map, halt, Runtime_error>>
      /\ UNCHANGED <<newPc, newRegData, newRegBusy, newMemory, newBp, newstall_map,
                     newhalt, newRuntime_error>>
  BY <1>1, <1>2, <1>3, <1>4, SameBuffers, SameAccesses
  DEF ShiftPipelineBuffers, New!ShiftPipelineBuffers, Matched, ControlMatched
<1>6. /\ fd_buff' = Shifted(fd_buff) /\ dx_buff' = Shifted(dx_buff)
      /\ xm_buff' = Shifted(xm_buff) /\ mw_buff' = Shifted(mw_buff)
      /\ newfd_buff' = Shifted(newfd_buff) /\ newdx_buff' = Shifted(newdx_buff)
      /\ newxm_buff' = Shifted(newxm_buff) /\ newmw_buff' = Shifted(newmw_buff)
  BY <1>1, <1>2, SameBuffers DEF ShiftPipelineBuffers, New!ShiftPipelineBuffers
<1>7. Alike(fd_buff', newfd_buff') /\ Latch(newfd_buff')
  BY <1>6, AlikeShifted DEF Core, Matched, BuffersMatched
<1>8. /\ "dx" \in filled' <=> "dx" \in filled \/ dx_buff[W].valid
      /\ "xm" \in filled' <=> "xm" \in filled \/ xm_buff[W].valid
      /\ "mw" \in filled' <=> "mw" \in filled \/ mw_buff[W].valid
  OBVIOUS
<1>9. /\ Traced(filled', "dx", dx_buff', newdx_buff')
      /\ Traced(filled', "xm", xm_buff', newxm_buff')
      /\ Traced(filled', "mw", mw_buff', newmw_buff')
  <2>1. /\ dx_buff \in Buffers /\ Traced(filled, "dx", dx_buff, newdx_buff)
        /\ xm_buff \in Buffers /\ Traced(filled, "xm", xm_buff, newxm_buff)
        /\ mw_buff \in Buffers /\ Traced(filled, "mw", mw_buff, newmw_buff)
    BY DEF Core, Matched, BuffersMatched
  <2>2. Traced(filled', "dx", Shifted(dx_buff), Shifted(newdx_buff))
    BY <1>8, <2>1, TracedShifted
  <2>3. Traced(filled', "xm", Shifted(xm_buff), Shifted(newxm_buff))
    BY <1>8, <2>1, TracedShifted
  <2>4. Traced(filled', "mw", Shifted(mw_buff), Shifted(newmw_buff))
    BY <1>8, <2>1, TracedShifted
  <2> QED BY <1>6, <2>2, <2>3, <2>4
<1>10. FlushIsOwn'
  <2>1. control_buff'[R] = control_buff[W] /\ control_buff'[W] = NoSignal
    BY <1>1 DEF ShiftPipelineBuffers, W, R
  <2>2. NoSignal.flags = {}
    BY DEF NoSignal
  <2> QED BY <1>8, <2>1, <2>2 DEF Matched, FlushIsOwn
<1>11. MemoryMatched'
  BY <1>1, <1>5, MemoryKept DEF Matched
<1> QED BY <1>4, <1>5, <1>7, <1>9, <1>10, <1>11
        DEF Matched, ControlMatched, BuffersMatched, ErrorMatched

----------------------------------------------------------------------------
(* Sessions.                                                               *)

\* A buffer without a valid instruction is like a new one.
LEMMA EmptyMatched ==
  ASSUME NEW b, \A i \in {W, R} : b[i].valid = FALSE
  PROVE  Alike(b, EmptyPipelineBuffer) /\ Latch(EmptyPipelineBuffer)
<1>1. \A i \in {W, R} : EmptyPipelineBuffer[i].valid = FALSE
  BY EmptyLatch DEF Latch
<1> QED BY <1>1, EmptyLatch DEF Alike

\* Shifting twice leaves no valid instruction.
LEMMA ShiftedTwiceEmpty ==
  ASSUME NEW b \in Buffers
  PROVE  \A i \in {W, R} : ShiftedTwice(b)[i].valid = FALSE
<1>1. Shifted(b) \in Buffers /\ Shifted(b)[W].valid = FALSE
  BY ShiftedType
<1>2. /\ Shifted(Shifted(b))[R] = Shifted(b)[W]
      /\ Shifted(Shifted(b))[W].valid = FALSE
  BY <1>1, ShiftedType
<1> QED BY <1>1, <1>2 DEF ShiftedTwice

\* A reset, whatever the session has gone through.
LEMMA ResetTwin ==
  ASSUME SessionTypes, phase = "control", NEW c \in Configs, Reset(c),
         NEW code, NEW entry_pc, SetProgram(code, entry_pc), CreateNew
  PROVE  Matched'
<1>1. ControlMatched'
  BY DEF Reset, ResetPredictor, ResetControl, SetProgram, CreateNew, ControlMatched
<1>2. BuffersMatched'
  <2>1. /\ \A i \in {W, R} : fd_buff'[i].valid = FALSE
        /\ \A i \in {W, R} : dx_buff'[i].valid = FALSE
        /\ \A i \in {W, R} : xm_buff'[i].valid = FALSE
        /\ \A i \in {W, R} : mw_buff'[i].valid = FALSE
    BY ShiftedTwiceEmpty DEF Reset, SessionTypes, Core
  <2>2. /\ newfd_buff' = EmptyPipelineBuffer /\ newdx_buff' = EmptyPipelineBuffer
        /\ newxm_buff' = EmptyPipelineBuffer /\ newmw_buff' = EmptyPipelineBuffer
        /\ filled' = {}
    BY DEF CreateNew
  <2>3. Alike(fd_buff', newfd_buff') /\ Latch(newfd_buff')
    BY <2>1, <2>2, EmptyMatched
  <2>4. Traced(filled', "dx", dx_buff', newdx_buff')
    BY <2>1, <2>2, TracedEmpty
  <2>5. Traced(filled', "xm", xm_buff', newxm_buff')
    BY <2>1, <2>2, TracedEmpty
  <2>6. Traced(filled', "mw", mw_buff', newmw_buff')
    BY <2>1, <2>2, TracedEmpty
  <2> QED BY <2>3, <2>4, <2>5, <2>6 DEF BuffersMatched
<1>3. MemoryMatched'
  BY DEF Reset, CreateNew, MemoryMatched
<1>4. FlushIsOwn'
  <2>1. \A i \in {W, R} : control_buff'[i].flags = {}
    BY DEF Reset, NoSignal
  <2> QED BY <2>1 DEF FlushIsOwn
<1>5. ErrorMatched'
  <2>1. phase' = "control" /\ Dm'.N_cycle = 0
    BY DEF Reset, NoDiagnostics
  <2> QED BY <2>1 DEF ErrorMatched
<1> QED BY <1>1, <1>2, <1>3, <1>4, <1>5 DEF Matched

\* The first machine is new.
LEMMA InitTwin == PromiseInit => Matched
<1> SUFFICES ASSUME PromiseInit PROVE Matched
  OBVIOUS
<1>1. SessionInit
  BY DEF PromiseInit
<1>2. ControlMatched /\ newRuntime_error = Runtime_error
  BY DEF PromiseInit, ControlMatched
<1>3. BuffersMatched
  <2>1. /\ fd_buff = EmptyPipelineBuffer /\ dx_buff = EmptyPipelineBuffer
        /\ xm_buff = EmptyPipelineBuffer /\ mw_buff = EmptyPipelineBuffer
        /\ newfd_buff = EmptyPipelineBuffer /\ newdx_buff = EmptyPipelineBuffer
        /\ newxm_buff = EmptyPipelineBuffer /\ newmw_buff = EmptyPipelineBuffer
        /\ filled = {}
    BY <1>1 DEF PromiseInit, SessionInit
  <2>2. \A i \in {W, R} : EmptyPipelineBuffer[i].valid = FALSE
    BY EmptyLatch DEF Latch
  <2>3. \A name : Traced({}, name, EmptyPipelineBuffer, EmptyPipelineBuffer)
    BY <2>2, TracedEmpty
  <2> QED BY <2>1, <2>2, <2>3, EmptyMatched DEF BuffersMatched
<1>4. MemoryMatched
  BY <1>1 DEF PromiseInit, SessionInit, MemoryMatched
<1>5. FlushIsOwn
  <2>1. \A i \in {W, R} : control_buff[i].flags = {}
    BY <1>1 DEF SessionInit, NoSignal
  <2> QED BY <2>1 DEF FlushIsOwn
<1> QED BY <1>2, <1>3, <1>4, <1>5 DEF Matched, ErrorMatched

\* A cycle that sees nothing of the old run.
LEMMA CycleTwin ==
  ASSUME SessionTypes, SessionInv, ~tainted => Matched, CycleBoth, ~tainted'
  PROVE  Matched'
<1>1. /\ Core /\ Matched /\ New!Step /\ ReportedStep /\ SessionTypes'
      /\ ~DecodeLeaks /\ ~ExecuteLeaks /\ ~MemoryLeaks
  BY StepTypes DEF SessionTypes, CycleBoth, ExecuteCycle
<1>2. /\ filled' = IF phase # "shift" THEN filled
                   ELSE filled \cup (IF dx_buff[W].valid THEN {"dx"} ELSE {})
                               \cup (IF xm_buff[W].valid THEN {"xm"} ELSE {})
                               \cup (IF mw_buff[W].valid THEN {"mw"} ELSE {})
      /\ written' = IF phase = "memory" THEN written \cup Memory_diff_addr' ELSE written
  BY DEF CycleBoth
<1>3. CASE CountControl
  <2>1. phase = "control" BY <1>3 DEF CountControl, RunControl
  <2>2. Dm.N_cycle \in Nat BY DEF SessionInv, CountersType, Counters
  <2> QED BY <1>1, <1>2, <1>3, <2>1, <2>2, ControlTwin
<1>4. CASE CountWriteback
  <2>1. phase = "writeback" BY <1>4 DEF CountWriteback, RunWriteback
  <2> QED BY <1>1, <1>2, <1>4, <2>1, WritebackTwin
<1>5. CASE CountMemory
  <2>1. phase = "memory" BY <1>5 DEF CountMemory, RunMemory
  <2> QED BY <1>1, <1>2, <1>5, <2>1, MemoryTwin
<1>6. CASE CountExecuteCycle
  <2>1. phase = "execute" BY <1>6 DEF CountExecuteCycle, RunExecuteCycle
  <2> QED BY <1>1, <1>2, <1>6, <2>1, ExecuteCycleTwin
<1>7. CASE CountExecute
  <2>1. phase = "execute" BY <1>7 DEF CountExecute, RunExecute
  <2> QED BY <1>1, <1>2, <1>7, <2>1, ExecuteTwin
<1>8. CASE CountDecode
  <2>1. phase = "decode" BY <1>8 DEF CountDecode, RunDecode
  <2> QED BY <1>1, <1>2, <1>8, <2>1, DecodeTwin
<1>9. CASE CountFetch
  <2>1. phase = "fetch" BY <1>9 DEF CountFetch, RunFetch
  <2> QED BY <1>1, <1>2, <1>9, <2>1, FetchTwin
<1>10. CASE CountShift
  <2>1. phase = "shift" BY <1>10 DEF CountShift, ShiftPipelineBuffers
  <2> QED BY <1>1, <1>2, <1>10, <2>1, ShiftTwin
<1>11. CASE CountNothing
  <2>1. UNCHANGED reports /\ UNCHANGED Memory_diff_addr
    BY <1>11 DEF CountNothing, reports
  <2>2. phase # "shift"
    BY <1>11 DEF CountNothing, RunExecutePanic, RunDecodeStall, RunFetchEnd, Bubble
  <2>3. UNCHANGED <<filled, written>>
    BY <1>1, <1>2, <2>1, <2>2 DEF Matched, MemoryMatched
  <2> QED BY <1>1, <1>11, <2>1, <2>3, ExecutePanicTwin, DecodeStallTwin, FetchEndTwin,
             BubbleTwin DEF CountNothing
<1> QED BY <1>1, <1>3, <1>4, <1>5, <1>6, <1>7, <1>8, <1>9, <1>10, <1>11 DEF ReportedStep

\* Until the first leak every step keeps the two machines matched.
LEMMA NextTwin ==
  ASSUME SessionTypes, SessionInv, ~tainted => Matched, [PromiseNext]_promiseVars,
         ~tainted'
  PROVE  Matched'
<1>1. CASE ResetBoth
  <2>1. phase = "control"
    BY <1>1 DEF ResetBoth, LoadProgram, LoadUnparsable, UpdateConfig, Request, SessionInv
  <2>2. config \in Configs
    BY DEF SessionTypes, Core
  <2>3. PICK c \in Configs : Reset(c)
    BY <1>1, <2>2 DEF ResetBoth, LoadProgram, LoadUnparsable, UpdateConfig
  <2>4. PICK code, entry_pc : SetProgram(code, entry_pc)
    BY <1>1 DEF ResetBoth, LoadProgram, LoadUnparsable, UpdateConfig
  <2>5. CreateNew
    BY <1>1 DEF ResetBoth
  <2> QED BY <2>1, <2>3, <2>4, <2>5, ResetTwin
<1>2. CASE CycleBoth
  BY <1>2, CycleTwin
<1>3. CASE IndexPanicLeaks
  BY <1>3 DEF IndexPanicLeaks
<1>4. ASSUME Matched,
             UNCHANGED <<config, Pc, RegData, RegBusy, Memory, Bp, control_buff, fd_buff,
                         dx_buff, xm_buff, mw_buff, stall_map, halt, Halted,
                         Runtime_error, Dm, Memory_diff_addr>>,
             UNCHANGED <<newPc, newRegData, newRegBusy, newMemory, newBp, newcontrol_buff,
                         newfd_buff, newdx_buff, newxm_buff, newmw_buff, newstall_map,
                         newhalt, newHalted, newRuntime_error, filled, written>>,
             newphase' = phase', phase' = phase \/ phase # "control"
      PROVE  Matched'
  <2>1. MemoryMatched'
    BY <1>4, MemoryKept DEF Matched
  <2> QED BY <1>4, <2>1
          DEF Matched, ControlMatched, BuffersMatched, FlushIsOwn, ErrorMatched
<1>5. CASE RecoverBoth
  <2>1. /\ tainted' = tainted /\ newphase' = "control" /\ phase' = "control"
        /\ phase = "panicked"
    BY <1>5 DEF RecoverBoth, Recover, history
  <2> QED BY <1>4, <1>5, <2>1 DEF RecoverBoth, Recover, history, setup, reports
<1>6. CASE RequestOnly \/ UNCHANGED promiseVars
  <2>1. UNCHANGED <<vars, reports, new, history>>
    BY <1>6 DEF RequestOnly, StepRequest, Answer, Quiet, promiseVars, sessionVars
  <2>2. tainted' = tainted /\ newphase' = newphase /\ phase' = phase
    BY <2>1 DEF history, new, vars
  <2> QED BY <1>4, <2>1, <2>2 DEF vars, reports, new, history, Matched, ControlMatched
<1> QED BY <1>1, <1>2, <1>3, <1>5, <1>6 DEF PromiseNext

\* The session runs as VmSession says.
LEMMA PromiseImplementsSession == PromiseSpec => SessionSpec
<1>1. PromiseInit => SessionInit
  BY DEF PromiseInit
<1>2. [PromiseNext]_promiseVars => [SessionNext]_sessionVars
  BY DEF PromiseNext, ResetBoth, CycleBoth, IndexPanicLeaks, RecoverBoth, RequestOnly,
         SessionNext, promiseVars
<1> QED BY <1>1, <1>2, PTL DEF PromiseSpec, SessionSpec

\* "Shifting twice totally empties" the buffers (core.go:167), and with the
\* rest of Reset (core.go:137-170) that is enough: whatever requests, panics
\* and settings a session has gone through, its machine computes what a new
\* one computes, cycle by cycle and with the same errors, until it reads the
\* memory or a forwarded value of an old run.
THEOREM ResetTheorem == PromiseSpec => []AsNew
<1>1. PromiseInit => (~tainted => Matched)
  BY InitTwin
<1>2. /\ SessionTypes /\ SessionInv /\ (~tainted => Matched)
      /\ [PromiseNext]_promiseVars
      => (~tainted => Matched)'
  BY NextTwin
<1>3. SessionTypes /\ (~tainted => Matched) => AsNew
  <2> SUFFICES ASSUME SessionTypes, Matched PROVE AsNew
    BY DEF AsNew
  <2>1. /\ Alike(dx_buff, newdx_buff) /\ Alike(xm_buff, newxm_buff)
        /\ Alike(mw_buff, newmw_buff)
    BY TracedAlike DEF SessionTypes, Core, Matched, BuffersMatched
  <2>2. \A a \in written : Memory[a] = newMemory[a]
    BY DEF Matched, MemoryMatched
  <2> QED BY <2>1, <2>2
          DEF AsNew, Matched, ControlMatched, BuffersMatched, ErrorMatched
<1> QED BY <1>1, <1>2, <1>3, PromiseImplementsSession, SessionTypesInvariant,
           SessionInvariant, PTL DEF PromiseSpec
=============================================================================
