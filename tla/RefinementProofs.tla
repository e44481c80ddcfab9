-------------------------- MODULE RefinementProofs --------------------------
(***************************************************************************)
(* What PipelineRefinement states, for every program without jalr and      *)
(* every configuration: as long as no anomaly has happened, the five-stage *)
(* machine is the sequential one (RefinementTheorem, at the end).          *)
(*                                                                         *)
(* First the scoreboard: Busy counts exactly the pending writers of each   *)
(* register, wedged or not, so that decode stalls when it has to.  With    *)
(* jalr a flush may find ID/EX empty and take back the count of the jalr   *)
(* itself, which has left already (core.go:317-320); that is why jalr is   *)
(* left out.  With the scoreboard exact, each of the other anomalies is    *)
(* traced to the feature that brings it in.                                *)
(*                                                                         *)
(* Then InOrder: what is in flight is the program, in order, from where    *)
(* run_memory is to where fetch goes on, with the operands that the        *)
(* sequential machine has by then, whether they come from the register     *)
(* file, from EX/MEM or from MEM/WB.  Every call keeps it, and so every    *)
(* call of run_memory is a step of the sequential machine.                 *)
(***************************************************************************)
EXTENDS PipelineRefinement, PipelineProofs

NoIndirectJumps ==
  \A p \in Programs : \A i \in DOMAIN p.code : p.code[i].op # "jalr"

Exact == \A r \in Reg : RegBusy[r] = PendingWriters(r)

Straight(buff) == \A i \in {W, R} : buff[i].inst.op # "jalr"

\* An empty write side still shows the instruction that is in execute, and a
\* flush finds either the instruction behind the branch or the branch itself
\* in ID/EX.
FlushTarget ==
  /\ ~dx_buff[W].valid => dx_buff[W].inst.op = dx_buff[R].inst.op
  /\ "FLUSH" \in control_buff[W].flags =>
       /\ phase \in {"decode", "fetch", "shift"}
       /\ isConditionalBranch(dx_buff[R].inst)
  /\ phase = "control" /\ "FLUSH" \in control_buff[R].flags =>
       dx_buff[R].valid \/ isConditionalBranch(dx_buff[R].inst)

NoJalr ==
  /\ \A i \in DOMAIN program : program[i].op # "jalr"
  /\ Straight(fd_buff) /\ Straight(dx_buff)

SInv == NoJalr /\ FlushTarget /\ Exact

----------------------------------------------------------------------------

\* Branches and stores have no destination register.
LEMMA BranchesDoNotWrite ==
  ASSUME NEW inst, isConditionalBranch(inst)
  PROVE  ~WritesRd(inst)
BY FormatsDisjoint DEF isConditionalBranch, WritesRd

\* Filling one side leaves the other alone; the filled side counts for what
\* the instruction in it counts for.
LEMMA FilledSides ==
  ASSUME NEW buff \in Buffers, NEW pc, NEW inst
  PROVE  /\ Filled(buff, pc, inst)[W].valid = TRUE
         /\ Filled(buff, pc, inst)[R] = buff[R]
BY DEF Filled, Buffers, W, R

LEMMA HoldsMoves ==
  ASSUME NEW buff \in Buffers, NEW pc, NEW inst, NEW from, NEW r,
         SameAs(inst, from.inst), from.valid
  PROVE  Holds(Filled(buff, pc, inst)[W], r) = Holds(from, r)
<1>1. Filled(buff, pc, inst)[W] = [pc |-> pc, inst |-> inst, valid |-> TRUE]
  BY DEF Filled, Buffers, W, R
<1>2. inst.op = from.inst.op /\ inst.Rd = from.inst.Rd
  BY DEF SameAs
<1>3. WritesRd(inst) <=> WritesRd(from.inst)
  BY <1>2 DEF WritesRd, Fmt_R, Fmt_I, Fmt_U, Fmt_J
<1> QED BY <1>1, <1>2, <1>3 DEF Holds

LEMMA InitSInv == NoIndirectJumps /\ Init => SInv
<1> SUFFICES ASSUME NoIndirectJumps, Init PROVE SInv
  OBVIOUS
<1>1. NoJalr
  BY DEF Init, NoIndirectJumps, NoJalr, Straight, EmptyPipelineBuffer,
         ZeroInstruction, newInstruction
<1>2. FlushTarget
  BY DEF Init, FlushTarget, EmptyPipelineBuffer, NoSignal, W, R
<1>3. Exact
  BY DEF Init, Exact, PendingWriters, Holds, EmptyPipelineBuffer, W, R
<1> QED BY <1>1, <1>2, <1>3 DEF SInv

\* No action brings in a jalr.
LEMMA StepNoJalr == IInv /\ NoJalr /\ [Next]_vars => NoJalr'
<1> SUFFICES ASSUME IInv, NoJalr, [Next]_vars PROVE NoJalr'
  OBVIOUS
<1>0. /\ fd_buff \in Buffers /\ dx_buff \in Buffers
      /\ program' = program
  BY BuffersType DEF Next, Step, Stopped, vars, setup, RunControl,
     RunWriteback, RunMemory, RunExecuteCycle, RunExecutePanic, RunExecute,
     RunDecodeStall, RunDecode, RunFetchEnd, RunFetch, Bubble, ShiftPipelineBuffers
<1>1. ASSUME NEW buff \in Buffers, NEW pc, NEW inst, Straight(buff), inst.op # "jalr"
      PROVE  Straight(Filled(buff, pc, inst))
  <2>1. /\ Filled(buff, pc, inst)[W] = [pc |-> pc, inst |-> inst, valid |-> TRUE]
        /\ Filled(buff, pc, inst)[R] = buff[R]
    BY DEF Filled, Buffers, W, R
  <2> QED BY <1>1, <2>1 DEF Straight
<1>2. CASE RunControl
  BY <1>0, <1>2, DrainedType DEF RunControl, flush, NoJalr, Straight
<1>3. CASE RunExecuteCycle
  <2>1. Executed.op # "jalr"
    BY <1>3, ExecutedType DEF RunExecuteCycle, SameAs, NoJalr, Straight, IInv
  <2> QED BY <1>0, <1>1, <1>3, <2>1 DEF RunExecuteCycle, NoJalr, Straight
<1>4. CASE RunDecodeStall
  BY <1>0, <1>4 DEF RunDecodeStall, NoJalr, Straight, Buffers, W, R
<1>5. CASE RunDecode
  <2>1. Decoded(fd_buff[R].inst, RegData).op # "jalr"
    BY <1>5, DecodedSame DEF RunDecode, SameAs, NoJalr, Straight
  <2> QED BY <1>0, <1>1, <1>5, <2>1 DEF RunDecode, NoJalr, Straight
<1>6. CASE RunFetch
  <2>1. Fetched \in Instruction /\ Fetched.op # "jalr"
    <3>1. Pc \in Nat
      BY WordModPositive DEF IInv, Core, Addr
    <3>2. (Pc \div 4) + 1 \in DOMAIN program
      <4>1. program \in Seq(Instruction)
        BY DEF IInv, Core
      <4>2. Pc \div 4 \in Nat /\ Pc \div 4 < Len(program)
        BY <1>6, <3>1, <4>1 DEF RunFetch, AtEnd, Program_size
      <4> QED BY <4>1, <4>2
    <3>3. Fetched \in Instruction
      BY <1>6, FetchedType DEF RunFetch, IInv
    <3> QED BY <3>2, <3>3 DEF Fetched, NoJalr
  <2>2. [Fetched EXCEPT !.remaining = ExTotal(Fetched)].op # "jalr"
    BY <2>1 DEF Instruction
  <2> QED BY <1>0, <1>1, <1>6, <2>2 DEF RunFetch, NoJalr, Straight
<1>7. CASE ShiftPipelineBuffers
  <2>1. ASSUME NEW buff \in Buffers, Straight(buff) PROVE Straight(Shifted(buff))
    BY <2>1, ShiftedType DEF Straight, W, R
  <2> QED BY <1>0, <1>7, <2>1 DEF ShiftPipelineBuffers, NoJalr
<1>8. CASE UNCHANGED <<fd_buff, dx_buff>>
  BY <1>0, <1>8 DEF NoJalr, Straight
<1> QED BY <1>2, <1>3, <1>4, <1>5, <1>6, <1>7, <1>8
        DEF Next, Step, Stopped, vars, RunWriteback, RunMemory, RunExecutePanic,
            RunExecute, RunFetchEnd, Bubble

LEMMA StepFlushTarget ==
  IInv /\ Sides /\ NoJalr /\ FlushTarget /\ [Next]_vars => FlushTarget'
<1> SUFFICES ASSUME IInv, Sides, NoJalr, FlushTarget, [Next]_vars PROVE FlushTarget'
  OBVIOUS
<1>0. /\ dx_buff \in Buffers
      /\ phase \in Phases
  BY BuffersType DEF IInv, Core
<1>1. CASE RunControl
  <2>1. /\ dx_buff'[W].inst = dx_buff[W].inst
        /\ dx_buff'[R].inst = dx_buff[R].inst
        /\ control_buff' = control_buff /\ phase' = "writeback"
    BY <1>0, <1>1, DrainedType DEF RunControl, flush
  <2>2. ~dx_buff[W].valid /\ "FLUSH" \notin control_buff[W].flags
    BY <1>1 DEF RunControl, Sides, FlushTarget
  <2> QED BY <2>1, <2>2 DEF FlushTarget
<1>2. CASE RunWriteback      BY <1>2 DEF RunWriteback, FlushTarget
<1>3. CASE RunMemory         BY <1>3 DEF RunMemory, FlushTarget
<1>4. CASE RunExecuteCycle
  <2>1. dx_buff'[W].valid = TRUE /\ dx_buff'[R] = dx_buff[R]
    BY <1>0, <1>4, FilledSides DEF RunExecuteCycle
  <2> QED BY <1>4, <2>1 DEF RunExecuteCycle, FlushTarget
<1>5. CASE RunExecutePanic   BY <1>5 DEF RunExecutePanic, FlushTarget
<1>6. CASE RunExecute
  <2>1. dx_buff[R].inst.op # "jalr"
    BY DEF NoJalr, Straight
  <2>2. /\ "FLUSH" \in control_buff'[W].flags => isConditionalBranch(dx_buff[R].inst)
        /\ control_buff'[R] = control_buff[R]
    BY <1>6, <2>1, ExecuteSignals DEF FlushTarget
  <2> QED BY <1>6, <2>2 DEF RunExecute, FlushTarget
<1>7. CASE RunDecodeStall    BY <1>7 DEF RunDecodeStall, FlushTarget
<1>8. CASE RunDecode
  <2>1. dx_buff'[W].valid = TRUE /\ dx_buff'[R] = dx_buff[R]
    BY <1>0, <1>8, FilledSides DEF RunDecode
  <2> QED BY <1>8, <2>1 DEF RunDecode, FlushTarget
<1>9. CASE RunFetchEnd       BY <1>9 DEF RunFetchEnd, FlushTarget
<1>10. CASE RunFetch
  BY <1>10, FetchSignals DEF RunFetch, FlushTarget
<1>11. CASE Bubble           BY <1>11 DEF Bubble, FlushTarget
<1>12. CASE ShiftPipelineBuffers
  <2>1. /\ dx_buff'[R] = dx_buff[W] /\ dx_buff'[W].inst = dx_buff[W].inst
        /\ control_buff'[R] = control_buff[W] /\ control_buff'[W] = NoSignal
    <3>1. dx_buff'[R] = dx_buff[W] /\ dx_buff'[W].inst = dx_buff[W].inst
      BY <1>0, <1>12, ShiftedType DEF ShiftPipelineBuffers
    <3>2. control_buff'[R] = control_buff[W] /\ control_buff'[W] = NoSignal
      BY <1>12 DEF ShiftPipelineBuffers, R, W
    <3> QED BY <3>1, <3>2
  <2> QED BY <1>12, <2>1
          DEF ShiftPipelineBuffers, FlushTarget, NoSignal, isConditionalBranch, Fmt_B
<1>13. CASE UNCHANGED vars   BY <1>13 DEF vars, FlushTarget
<1> QED BY <1>1, <1>2, <1>3, <1>4, <1>5, <1>6, <1>7, <1>8, <1>9, <1>10, <1>11,
           <1>12, <1>13 DEF Next, Step, Stopped

\* Taking back, or adding, the count of the instruction in a buffer.
LEMMA CountedDown ==
  ASSUME RegBusy \in [Reg -> Int], NEW buffer, NEW r \in Reg, buffer.inst.Rd \in Reg,
         RegBusy' = IF WritesRd(buffer.inst)
                    THEN [RegBusy EXCEPT ![buffer.inst.Rd] = @ - 1] ELSE RegBusy,
         buffer.valid \/ ~WritesRd(buffer.inst)
  PROVE  RegBusy'[r] = RegBusy[r] - Holds(buffer, r)
<1>1. CASE WritesRd(buffer.inst)
  BY <1>1 DEF Holds
<1>2. CASE ~WritesRd(buffer.inst)
  BY <1>2 DEF Holds
<1> QED BY <1>1, <1>2

LEMMA CountedUp ==
  ASSUME RegBusy \in [Reg -> Int], NEW buffer, NEW r \in Reg, buffer.inst.Rd \in Reg,
         RegBusy' = IF WritesRd(buffer.inst)
                    THEN [RegBusy EXCEPT ![buffer.inst.Rd] = @ + 1] ELSE RegBusy,
         buffer.valid
  PROVE  RegBusy'[r] = RegBusy[r] + Holds(buffer, r)
<1>1. CASE WritesRd(buffer.inst)
  BY <1>1 DEF Holds
<1>2. CASE ~WritesRd(buffer.inst)
  BY <1>2 DEF Holds
<1> QED BY <1>1, <1>2

LEMMA HoldsType ==
  ASSUME NEW buffer, NEW r
  PROVE  /\ Holds(buffer, r) \in Int
         /\ ~buffer.valid => Holds(buffer, r) = 0
BY DEF Holds

LEMMA StepExact ==
  IInv /\ Sides /\ FlushTarget /\ Exact /\ [Next]_vars => Exact'
<1> SUFFICES ASSUME IInv, Sides, FlushTarget, Exact, [Next]_vars, NEW r \in Reg
             PROVE  RegBusy'[r] = PendingWriters(r)'
  BY DEF Exact
<1> DEFINE D(i) == Holds(dx_buff[i], r)
           X(i) == Holds(xm_buff[i], r)
           M(i) == Holds(mw_buff[i], r)
<1>0. /\ fd_buff \in Buffers /\ dx_buff \in Buffers
      /\ xm_buff \in Buffers /\ mw_buff \in Buffers
      /\ phase \in Phases
      /\ RegBusy \in [Reg -> Int] /\ RegBusy[r] = PendingWriters(r)
  BY BuffersType DEF IInv, Core, Exact
<1>1. CASE RunControl
  <2>1. RegBusy[r] = D(R) + X(R) + M(R)
    BY <1>0, <1>1 DEF RunControl, PendingWriters
  <2>2. /\ PendingWriters(r)' = D(R)' + X(R) + M(R)
        /\ xm_buff' = xm_buff /\ mw_buff' = mw_buff
    BY <1>1 DEF RunControl, PendingWriters
  <2>3. CASE UNCHANGED <<RegBusy, dx_buff>>
    BY <2>1, <2>2, <2>3
  <2>4. CASE flush /\ ~halt /\ "FLUSH" \in control_buff[R].flags
    <3>1. dx_buff[R].valid \/ ~WritesRd(dx_buff[R].inst)
      BY <1>1, <2>4, BranchesDoNotWrite DEF RunControl, FlushTarget
    <3>2. dx_buff[R].inst.Rd \in Reg
      BY <1>0 DEF Buffers, Pipeline_Buffer, Instruction
    <3>3. RegBusy'[r] = RegBusy[r] - D(R)
      BY <1>0, <2>4, <3>1, <3>2, CountedDown DEF flush
    <3>4. D(R)' = 0
      BY <1>0, <2>4, DrainedType, HoldsType DEF flush, Holds
    <3>5. D(R) \in Int /\ X(R) \in Int /\ M(R) \in Int
      BY HoldsType
    <3> QED BY <2>1, <2>2, <3>3, <3>4, <3>5
  <2> QED BY <1>1, <2>3, <2>4 DEF RunControl, flush
<1>2. CASE RunWriteback
  <2>1. RegBusy[r] = D(R) + X(R) + M(R) /\ PendingWriters(r)' = D(R) + X(R)
    BY <1>0, <1>2 DEF RunWriteback, PendingWriters
  <2>2. mw_buff[R].inst.Rd \in Reg /\ mw_buff[R].valid
    BY <1>0, <1>2 DEF Buffers, Pipeline_Buffer, Instruction, RunWriteback
  <2>3. RegBusy' = IF WritesRd(mw_buff[R].inst)
                   THEN [RegBusy EXCEPT ![mw_buff[R].inst.Rd] = @ - 1] ELSE RegBusy
    BY <1>2 DEF RunWriteback
  <2>4. RegBusy'[r] = RegBusy[r] - M(R)
    BY <1>0, <2>2, <2>3, CountedDown
  <2>5. D(R) \in Int /\ X(R) \in Int /\ M(R) \in Int
    BY HoldsType
  <2> QED BY <2>1, <2>4, <2>5
<1>3. CASE RunMemory
  <2> DEFINE inst == xm_buff[R].inst
             data == memoryRead(Memory, config.Mem_size, Uint32(inst.result),
                                AccessBytes(inst.op))
             out  == IF isLoad(inst) THEN [inst EXCEPT !.result = data] ELSE inst
  <2>1. RegBusy'[r] = D(R) + X(R) /\ PendingWriters(r)' = D(R) + M(W)'
    BY <1>0, <1>3 DEF RunMemory, PendingWriters
  <2>2. mw_buff' = Filled(mw_buff, xm_buff[R].pc, out)
    BY <1>3 DEF RunMemory
  <2>3. inst \in Instruction /\ xm_buff[R].valid
    BY <1>0, <1>3 DEF Buffers, Pipeline_Buffer, RunMemory
  <2>4. out.op = inst.op /\ out.Rd = inst.Rd
    <3> HIDE DEF data
    <3> QED BY <2>3 DEF Instruction
  <2> HIDE DEF out
  <2>5. mw_buff'[W] = [pc |-> xm_buff[R].pc, inst |-> out, valid |-> TRUE]
    BY <1>0, <2>2 DEF Filled, Buffers, W, R
  <2>6. M(W)' = X(R)
    BY <2>3, <2>4, <2>5 DEF Holds, WritesRd, Fmt_R, Fmt_I, Fmt_U, Fmt_J
  <2> QED BY <2>1, <2>6
<1>4. CASE RunExecuteCycle
  <2>1. /\ RegBusy'[r] = D(R) + M(W)
        /\ PendingWriters(r)' = D(W)' + X(W) + M(W)
    BY <1>0, <1>4 DEF RunExecuteCycle, PendingWriters
  <2>2. X(W) = 0 /\ D(R) \in Int /\ M(W) \in Int
    BY <1>4, HoldsType DEF RunExecuteCycle, Sides
  <2>3. D(W)' = D(R)
    BY <1>0, <1>4, ExecutedType, HoldsMoves DEF RunExecuteCycle, IInv
  <2> QED BY <2>1, <2>2, <2>3
<1>5. CASE RunExecutePanic
  BY <1>0, <1>5 DEF RunExecutePanic, PendingWriters
<1>6. CASE RunExecute
  <2>1. /\ RegBusy'[r] = D(R) + M(W)
        /\ PendingWriters(r)' = D(W) + X(W)' + M(W)
    BY <1>0, <1>6 DEF RunExecute, PendingWriters
  <2>2. D(W) = 0 /\ D(R) \in Int /\ M(W) \in Int
    BY <1>6, HoldsType DEF RunExecute, Sides
  <2>3. X(W)' = D(R)
    <3> DEFINE out == [Executed EXCEPT !.result = Result(Executed, dx_buff[R].pc)]
    <3>1. SameAs(Executed, dx_buff[R].inst) /\ dx_buff[R].valid
      BY <1>6, ExecutedType DEF RunExecute, IInv
    <3>2. out.op = dx_buff[R].inst.op /\ out.Rd = dx_buff[R].inst.Rd
      BY <3>1 DEF SameAs, Instruction
    <3>3. xm_buff' = Filled(xm_buff, dx_buff[R].pc, out)
      BY <1>6 DEF RunExecute
    <3> HIDE DEF out
    <3>4. xm_buff'[W] = [pc |-> dx_buff[R].pc, inst |-> out, valid |-> TRUE]
      BY <1>0, <3>3 DEF Filled, Buffers, W, R
    <3> QED BY <3>1, <3>2, <3>4 DEF Holds, WritesRd, Fmt_R, Fmt_I, Fmt_U, Fmt_J
  <2> QED BY <2>1, <2>2, <2>3
<1>7. CASE RunDecodeStall
  BY <1>0, <1>7 DEF RunDecodeStall, PendingWriters
<1>8. CASE RunDecode
  <2> DEFINE inst == fd_buff[R].inst
  <2>1. /\ RegBusy[r] = D(W) + X(W) + M(W)
        /\ PendingWriters(r)' = D(W)' + X(W) + M(W)
    BY <1>0, <1>8 DEF RunDecode, PendingWriters
  <2>2. D(W) = 0 /\ D(W) \in Int /\ X(W) \in Int /\ M(W) \in Int
    BY <1>8, HoldsType DEF RunDecode, shouldStallDecode
  <2>3. D(W)' = Holds(fd_buff[R], r)
    BY <1>0, <1>8, DecodedSame, HoldsMoves DEF RunDecode
  <2>4. inst.Rd \in Reg /\ fd_buff[R].valid
    BY <1>0, <1>8 DEF Buffers, Pipeline_Buffer, Instruction, RunDecode
  <2>5. RegBusy' = IF WritesRd(inst) THEN [RegBusy EXCEPT ![inst.Rd] = @ + 1]
                   ELSE RegBusy
    BY <1>8 DEF RunDecode
  <2>6. RegBusy'[r] = RegBusy[r] + Holds(fd_buff[R], r)
    BY <1>0, <2>4, <2>5, CountedUp
  <2>7. Holds(fd_buff[R], r) \in Int
    BY HoldsType
  <2> QED BY <2>1, <2>2, <2>3, <2>6, <2>7
<1>9. CASE RunFetchEnd
  BY <1>0, <1>9 DEF RunFetchEnd, PendingWriters
<1>10. CASE RunFetch
  BY <1>0, <1>10 DEF RunFetch, PendingWriters
<1>11. CASE Bubble
  <2>1. /\ D(R) \in Int /\ X(R) \in Int /\ M(R) \in Int
        /\ D(W) \in Int /\ X(W) \in Int /\ M(W) \in Int
    BY HoldsType
  <2>2. CASE phase = "writeback"
    <3>1. M(R) = 0
      BY <1>11, <2>2, HoldsType DEF Bubble
    <3> QED BY <1>0, <1>11, <2>1, <2>2, <3>1 DEF Bubble, PendingWriters
  <2>3. CASE phase = "memory"
    <3>1. X(R) = 0 /\ M(W) = 0
      BY <1>11, <2>3, HoldsType DEF Bubble, Sides
    <3> QED BY <1>0, <1>11, <2>1, <2>3, <3>1 DEF Bubble, PendingWriters
  <2>4. CASE phase = "execute"
    <3>1. D(R) = 0 /\ D(W) = 0 /\ X(W) = 0
      BY <1>11, <2>4, HoldsType DEF Bubble, Sides
    <3> QED BY <1>0, <1>11, <2>1, <2>4, <3>1 DEF Bubble, PendingWriters
  <2>5. CASE phase \in {"decode", "fetch"}
    BY <1>0, <1>11, <2>5 DEF Bubble, PendingWriters
  <2> QED BY <1>11, <2>2, <2>3, <2>4, <2>5 DEF Bubble
<1>12. CASE ShiftPipelineBuffers
  <2>1. /\ dx_buff'[R] = dx_buff[W] /\ xm_buff'[R] = xm_buff[W]
        /\ mw_buff'[R] = mw_buff[W]
    BY <1>0, <1>12, ShiftedType DEF ShiftPipelineBuffers
  <2> QED BY <1>0, <1>12, <2>1 DEF ShiftPipelineBuffers, PendingWriters
<1>13. CASE UNCHANGED vars
  BY <1>0, <1>13 DEF vars, PendingWriters
<1> QED BY <1>1, <1>2, <1>3, <1>4, <1>5, <1>6, <1>7, <1>8, <1>9, <1>10, <1>11,
           <1>12, <1>13 DEF Next, Step, Stopped

----------------------------------------------------------------------------

LEMMA ScoreboardInvariant == NoIndirectJumps /\ Spec => []SInv
<1>1. NoIndirectJumps /\ Init => SInv
  BY InitSInv
<1>2. IInv /\ Sides /\ SInv /\ [Next]_vars => SInv'
  BY StepNoJalr, StepFlushTarget, StepExact DEF SInv
<1> QED BY <1>1, <1>2, SidesInvariant, PTL DEF Spec

\* Busy counts the instructions that still want to write each register, no
\* more and no fewer, whatever is flushed, stalled or held in execute: for
\* every program without jalr, and even when the machine is wedged.
THEOREM ScoreboardExact == NoIndirectJumps /\ Spec => []Exact
<1>1. SInv => Exact
  BY DEF SInv
<1> QED BY <1>1, ScoreboardInvariant, PTL

THEOREM ScoreboardCorrect == NoIndirectJumps /\ Spec => []Scoreboard
<1>1. Exact => Scoreboard
  BY DEF Exact, Scoreboard
<1> QED BY <1>1, ScoreboardExact, PTL

----------------------------------------------------------------------------
(* Which anomaly needs which feature: a program without indirect jumps     *)
(* meets none at all when it runs without prediction and forwarding, and   *)
(* prediction and forwarding each bring in their own.  The argument rests  *)
(* on the scoreboard: decode lets an instruction pass although a load it   *)
(* depends on is in ID/EX only if it believes the value can be forwarded.  *)

\* Only a misprediction flushes, and only a setting with prediction has one.
FlushesPredict ==
  \A i \in {W, R} : "FLUSH" \in control_buff[i].flags => config.Bp_enabled

\* What was in ID/EX at the beginning of the cycle has gone through execute:
\* it stays there for another cycle, or it is on its way to memory.
Passed ==
  phase = "decode" /\ dx_buff[R].valid =>
    \/ dx_buff[W].valid
    \/ /\ xm_buff[W].valid
       /\ xm_buff[W].inst.op = dx_buff[R].inst.op
       /\ xm_buff[W].inst.Rd = dx_buff[R].inst.Rd

AInv == FlushesPredict /\ Passed

----------------------------------------------------------------------------

LEMMA InitAInv == Init => AInv
BY DEF Init, AInv, FlushesPredict, Passed, NoSignal, W, R

LEMMA StepFlushesPredict ==
  IInv /\ NoJalr /\ FlushesPredict /\ [Next]_vars => FlushesPredict'
<1> SUFFICES ASSUME IInv, NoJalr, FlushesPredict, [Next]_vars PROVE FlushesPredict'
  OBVIOUS
<1>0. config' = config
  BY DEF Next, Step, Stopped, vars, setup, RunControl,
     RunWriteback, RunMemory, RunExecuteCycle, RunExecutePanic, RunExecute,
     RunDecodeStall, RunDecode, RunFetchEnd, RunFetch, Bubble, ShiftPipelineBuffers
<1>1. CASE RunExecute
  <2>1. Executed.op # "jalr"
    BY <1>1, ExecutedType DEF RunExecute, SameAs, NoJalr, Straight, IInv
  <2>2. control_buff \in [{W, R} -> Control_Buffer]
    BY DEF IInv, Core
  <2> DEFINE target == NextPc(Executed, dx_buff[R].pc)
  <2>3. \/ UNCHANGED control_buff
        \/ config.Bp_enabled /\ Signal(target, {"BRANCH", "FLUSH"})
        \/ Signal(target, {"BRANCH"})
    BY <1>1, <2>1 DEF RunExecute, ResolveBranch
  <2> HIDE DEF target
  <2>4. CASE UNCHANGED control_buff
    BY <1>0, <2>4 DEF FlushesPredict
  <2>5. CASE config.Bp_enabled /\ Signal(target, {"BRANCH", "FLUSH"})
    BY <1>0, <2>5 DEF FlushesPredict
  <2>6. CASE Signal(target, {"BRANCH"})
    BY <1>0, <2>2, <2>6, SignalFlags DEF FlushesPredict
  <2> QED BY <2>3, <2>4, <2>5, <2>6
<1>2. CASE RunFetch
  BY <1>0, <1>2, FetchSignals DEF FlushesPredict
<1>3. CASE ShiftPipelineBuffers
  BY <1>0, <1>3 DEF ShiftPipelineBuffers, FlushesPredict, NoSignal, W, R
<1>4. CASE UNCHANGED control_buff
  BY <1>0, <1>4 DEF FlushesPredict
<1> QED BY <1>1, <1>2, <1>3, <1>4
        DEF Next, Step, Stopped, vars, RunControl, RunWriteback, RunMemory,
            RunExecuteCycle, RunExecutePanic, RunDecodeStall, RunDecode,
            RunFetchEnd, Bubble

LEMMA StepPassed == IInv /\ Passed /\ [Next]_vars => Passed'
<1> SUFFICES ASSUME IInv, Passed, [Next]_vars PROVE Passed'
  OBVIOUS
<1>0. dx_buff \in Buffers /\ xm_buff \in Buffers
  BY BuffersType
<1>1. CASE RunExecuteCycle
  <2>1. dx_buff'[W].valid = TRUE
    BY <1>0, <1>1, FilledSides DEF RunExecuteCycle
  <2> QED BY <2>1 DEF Passed
<1>2. CASE RunExecute
  <2>1. Executed \in Instruction /\ SameAs(Executed, dx_buff[R].inst)
    BY <1>2, ExecutedType DEF RunExecute, SameAs, IInv
  <2> DEFINE out == [Executed EXCEPT !.result = Result(Executed, dx_buff[R].pc)]
  <2>2. out.op = dx_buff[R].inst.op /\ out.Rd = dx_buff[R].inst.Rd
    BY <2>1 DEF Instruction, SameAs
  <2>3. xm_buff' = Filled(xm_buff, dx_buff[R].pc, out) /\ dx_buff' = dx_buff
    BY <1>2 DEF RunExecute
  <2>4. xm_buff'[W].valid = TRUE /\ xm_buff'[W].inst = out
    BY <1>0, <2>3 DEF Filled, Buffers, W, R
  <2> QED BY <2>2, <2>3, <2>4 DEF Passed
<1>3. CASE Bubble
  BY <1>3 DEF Bubble, Passed
<1>4. CASE UNCHANGED vars
  BY <1>4 DEF vars, Passed
<1>5. CASE phase' # "decode"
  BY <1>5 DEF Passed
<1> QED BY <1>1, <1>2, <1>3, <1>4, <1>5
        DEF Next, Step, Stopped, RunControl, RunWriteback, RunMemory,
            RunExecutePanic, RunDecodeStall, RunDecode, RunFetchEnd, RunFetch,
            ShiftPipelineBuffers

----------------------------------------------------------------------------
(* No anomaly without its feature.                                         *)

LEMMA LostRedirectPredicts ==
  ASSUME IInv, NoJalr, LostRedirect
  PROVE  config.Bp_enabled
<1>1. Pc \in Nat /\ program \in Seq(Instruction)
  BY WordModPositive DEF IInv, Core, Addr
<1>2. Pc \div 4 \in Nat /\ Pc \div 4 < Len(program)
  BY <1>1 DEF LostRedirect, AtEnd, Program_size
<1>3. (Pc \div 4) + 1 \in DOMAIN program
  BY <1>1, <1>2
<1>4. Fetched.op # "jalr"
  BY <1>3 DEF Fetched, NoJalr
<1> QED BY <1>4 DEF LostRedirect, Guess

LEMMA LoadShadowForwards ==
  ASSUME IInv, Exact, Passed, LoadShadow
  PROVE  config.Forwarding_enabled
<1> DEFINE inst == fd_buff[R].inst
           rs   == getSourceRegisters(inst)
           r    == dx_buff[R].inst.Rd
<1>1. r \in Reg /\ r # 0 /\ r > 0 /\ (r = rs[1] \/ r = rs[2])
  <2>1. dx_buff[R] \in Pipeline_Buffer
    BY DEF IInv, Core, Buffers
  <2>2. r \in Reg
    BY <2>1 DEF Pipeline_Buffer, Instruction
  <2> QED BY <2>2, NumRegsAssumption DEF LoadShadow, Reg
<1>2. ~dx_buff[W].valid
  BY DEF LoadShadow, shouldStallDecode
<1>3. /\ phase = "decode" /\ xm_buff[W].valid
      /\ xm_buff[W].inst.Rd = r /\ isLoad(xm_buff[W].inst)
  BY <1>2 DEF LoadShadow, Passed, isLoad
<1>4. Holds(xm_buff[W], r) = 1
  BY <1>3 DEF Holds, WritesRd, Fmt_I, isLoad, Loads, I_Ops
<1>5. RegBusy[r] = Holds(dx_buff[W], r) + Holds(xm_buff[W], r) + Holds(mw_buff[W], r)
  BY <1>1, <1>3 DEF Exact, PendingWriters
<1>6. RegBusy[r] > 0
  BY <1>4, <1>5 DEF Holds
<1>7. checkRegisterForwardDecode(r)
  <2>1. CASE r = rs[1]
    BY <1>1, <1>6, <2>1 DEF LoadShadow, shouldStallDecode
  <2>2. CASE r = rs[2]
    BY <1>1, <1>6, <2>2 DEF LoadShadow, shouldStallDecode
  <2> QED BY <1>1, <2>1, <2>2
<1>8. ~(r <= 0)
  BY <1>1, NumRegsAssumption DEF Reg
<1> HIDE DEF r
<1>9. /\ config.Forwarding_enabled
      /\ Forwards(dx_buff[R].inst, r) \/ Forwards(xm_buff[R].inst, r)
  BY <1>7, <1>8 DEF checkRegisterForwardDecode
<1> QED BY <1>9

LEMMA NewAnomaliesPossible ==
  IInv /\ SInv /\ AInv => NewAnomalies \subseteq PossibleAnomalies
<1> SUFFICES ASSUME IInv, SInv, AInv PROVE NewAnomalies \subseteq PossibleAnomalies
  OBVIOUS
<1>1. LostRedirect => config.Bp_enabled
  BY LostRedirectPredicts DEF SInv
<1>2. SwallowedFlush => config.Bp_enabled
  BY DEF SwallowedFlush, AInv, FlushesPredict
<1>3. LoadShadow => config.Forwarding_enabled
  BY LoadShadowForwards DEF SInv, AInv
<1>4. ~ForeignStall
  BY DEF ForeignStall, SInv, NoJalr, Straight
<1> QED BY <1>1, <1>2, <1>3, <1>4 DEF NewAnomalies, PossibleAnomalies

LEMMA AnomalyInvariant == NoIndirectJumps /\ Spec => [](IInv /\ SInv /\ AInv)
<1>1. Init => AInv
  BY InitAInv
<1>2. IInv /\ SInv /\ AInv /\ [Next]_vars => AInv'
  BY StepFlushesPredict, StepPassed DEF AInv, SInv
<1> QED BY <1>1, <1>2, TypeInvariant, ScoreboardInvariant, PTL DEF Spec

\* Without prediction and forwarding no program without jalr meets an
\* anomaly; prediction can only lose a redirect or a flush, forwarding can
\* only overlook a load (run_fetch, flush and shouldStallDecode).
THEOREM AnomaliesNeedTheirFeature ==
  NoIndirectJumps /\ ObservedSpec => []AnomaliesNeedFeatures
<1> DEFINE Possible == anomalies \subseteq PossibleAnomalies
<1>1. ObservedInit => Init /\ Possible
  BY DEF ObservedInit
<1>2. [ObservedNext]_<<vars, anomalies>> => [Next]_vars
  BY DEF ObservedNext
<1>3. ASSUME IInv, SInv, AInv, Possible, [ObservedNext]_<<vars, anomalies>>
      PROVE  Possible'
  <2>1. config' = config
    BY <1>3 DEF ObservedNext, Next, Step, Stopped, vars, setup, RunControl,
       RunWriteback, RunMemory, RunExecuteCycle, RunExecutePanic, RunExecute,
       RunDecodeStall, RunDecode, RunFetchEnd, RunFetch, Bubble,
       ShiftPipelineBuffers
  <2>2. PossibleAnomalies' = PossibleAnomalies
    BY <2>1 DEF PossibleAnomalies
  <2>3. anomalies' = anomalies \/ anomalies' = anomalies \cup NewAnomalies
    BY <1>3 DEF ObservedNext
  <2> QED BY <1>3, <2>2, <2>3, NewAnomaliesPossible
<1>4. Possible => AnomaliesNeedFeatures
  BY DEF AnomaliesNeedFeatures
<1> HIDE DEF Possible
<1> QED BY <1>1, <1>2, <1>3, <1>4, AnomalyInvariant, PTL DEF ObservedSpec, Spec

----------------------------------------------------------------------------
(* The instructions in flight, from the oldest to the youngest, wherever   *)
(* the phase has them: in front of memory, of execute and of decode.       *)

ToMemory  == IF phase \in {"control", "writeback", "memory"}
             THEN xm_buff[R] ELSE xm_buff[W]
ToExecute == IF phase \in {"control", "writeback", "memory", "execute", "panicked"}
             THEN dx_buff[R] ELSE dx_buff[W]
ToDecode  == IF phase \in {"fetch", "shift"} THEN fd_buff[W] ELSE fd_buff[R]

\* The registers after what has passed run_memory, and after what is in front
\* of it.
Regs            == WrittenBack(WrittenBack(RegData, mw_buff[R]), mw_buff[W])
RegsAfterMemory == WrittenBack(Regs, ToMemory)

\* Where fetch goes on after a conditional branch.
GuessedBy(bp, max, pc) ==
  IF predict(bp, max, pc).taken THEN predict(bp, max, pc).target ELSE Uint32(pc + 4)

\* The address after the instruction of a buffer, if there is one: when its
\* operands are known, when it is decoded, and when it has just been fetched.
After(pc, b) == IF b.valid THEN NextPc(b.inst, b.pc) ELSE pc
AfterDecoded(bp, max, pc, b) ==
  IF ~b.valid THEN pc
  ELSE IF isConditionalBranch(b.inst) THEN GuessedBy(bp, max, b.pc)
  ELSE NextPc(b.inst, b.pc)
AfterFetched(bp, max, pc, b) ==
  IF ~b.valid THEN pc
  ELSE IF isConditionalBranch(b.inst) THEN GuessedBy(bp, max, b.pc)
  ELSE Uint32(b.pc + 4)

PcAfterCommitted ==
  IF Youngest.inst.op = "nop" THEN pc_init ELSE NextPc(Youngest.inst, Youngest.pc)
PcAfterMemory  == After(PcAfterCommitted, ToMemory)
PcAfterExecute == AfterDecoded(Bp, max_counter, PcAfterMemory, ToExecute)
PcAfterDecode  == AfterFetched(Bp, max_counter, PcAfterExecute, ToDecode)

\* The answer of execute or the jump of fetch that run_control has yet to see.
Signalled ==
  CASE phase = "control"                      -> control_buff[R]
    [] phase \in {"decode", "fetch", "shift"} -> control_buff[W]
    [] OTHER                                  -> NoSignal

Mispredicted == "FLUSH" \in Signalled.flags
Redirected   == "BRANCH" \in Signalled.flags

\* Without prediction fetch waits for the answer to a branch.
Branch(b) == b.valid /\ isConditionalBranch(b.inst)
Waiting   == ~config.Bp_enabled /\ (Branch(ToDecode) \/ Branch(ToExecute))

----------------------------------------------------------------------------
(* What a buffer still shows of an instruction that has left it: bypass    *)
(* and decode look at it without asking whether it is valid.               *)

Alike(a, b)    == a.op = b.op /\ a.Rd = b.Rd
SameValue(a, b) == Alike(a, b) /\ (isLoad(a) \/ a.result = b.result)
Writing(b)     == b.valid /\ WritesRd(b.inst)

Twins ==
  /\ ~dx_buff[W].valid => dx_buff[W].inst = dx_buff[R].inst
  /\ ~xm_buff[W].valid => xm_buff[W].inst = xm_buff[R].inst
  /\ ~mw_buff[W].valid => mw_buff[W].inst = mw_buff[R].inst

\* The register file holds the value of the last instruction written back.
Held(inst) == WritesRd(inst) /\ inst.Rd # 0 => RegData[inst.Rd] = inst.result
Stored ==
  phase \notin {"control", "writeback"} \/ ~mw_buff[R].valid => Held(mw_buff[R].inst)

\* What is left in front of execute is what has gone on to memory, unless it
\* was flushed; what is left in front of memory is what has passed it.
Shadows ==
  /\ ~ToExecute.valid =>
       \/ Alike(ToExecute.inst, xm_buff[W].inst)
       \/ ~Writing(ToMemory) /\ ~Writing(mw_buff[W])
  /\ ~ToMemory.valid => SameValue(ToMemory.inst, mw_buff[W].inst)
  /\ phase \in {"execute", "decode", "panicked"} => SameValue(xm_buff[R].inst, mw_buff[W].inst)
  /\ phase = "decode" /\ xm_buff[W].valid => dx_buff[R].valid

\* Signals: only execute and fetch give them, and only a branch on its way to
\* memory asks for a flush.
Signals ==
  /\ phase \in {"control", "writeback", "memory", "execute", "panicked"} =>
       control_buff[W].flags = {}
  /\ Mispredicted => config.Bp_enabled /\ Redirected /\ Branch(ToMemory)
  /\ config.Bp_enabled /\ Redirected /\ ~Mispredicted => phase \in {"shift", "control"}

\* Without prediction nothing is fetched behind a branch.
Blocked ==
  ~config.Bp_enabled =>
    /\ Waiting \/ Redirected => "BRANCH" \in stall_map
    /\ Redirected => ~ToExecute.valid /\ ~ToDecode.valid
    /\ Branch(ToExecute) => ~ToDecode.valid

Errors ==
  /\ Runtime_error # NoError =>
       phase \in {"execute", "decode", "fetch", "shift", "panicked"} \/ Halted
  /\ Halted => phase = "control"

ShInv == Twins /\ Stored /\ Shadows /\ Signals /\ Blocked /\ Errors

----------------------------------------------------------------------------
(* What is in flight is the program, in order, with the right operands.    *)

Origin(prog, pc) == prog[(pc \div 4) + 1]

FromProgram(prog, b) ==
  LET o == Origin(prog, b.pc) IN
  /\ b.pc \div 4 < Len(prog)
  /\ o.op # "end"
  /\ b.inst.op = o.op /\ b.inst.Rd = o.Rd /\ b.inst.Rs1 = o.Rs1 /\ b.inst.Rs2 = o.Rs2

\* In front of memory: executed, on the registers and at the address that the
\* instructions before it leave.
Done(prog, regs, pc, m) ==
  m.valid =>
    LET c == Decoded(Origin(prog, m.pc), regs) IN
    /\ FromProgram(prog, m) /\ m.pc = pc
    /\ m.inst.s1 = c.s1 /\ m.inst.s2 = c.s2 /\ m.inst.imm = c.imm
    /\ m.inst.result = Result(c, m.pc)
    /\ ~Panics(c)

\* The value that execute takes for reg, when x and y are in EX/MEM and MEM/WB.
Supplied(forward, x, y, reg, value) ==
  IF reg <= 0 \/ ~forward THEN value
  ELSE IF Forwards(x, reg) THEN x.result
  ELSE IF Forwards(y, reg) THEN y.result
  ELSE value

\* In front of execute: as decoded, or held there with its operands latched.
Latched(inst) == inst.remaining # ExTotal(inst)

Operands(prog, regs, forward, x, y, m, d) ==
  LET c   == Decoded(Origin(prog, d.pc), regs)
      alu == getAluInputRegisters(d.inst)
      rs  == getSourceRegisters(d.inst)
  IN  /\ d.inst.imm = c.imm /\ d.inst.result = 0
      /\ d.inst.remaining <= ExTotal(d.inst)
      /\ Latched(d.inst) => d.inst.s1 = c.s1 /\ d.inst.s2 = c.s2 /\ ~m.valid
      /\ ~Latched(d.inst) =>
           /\ Supplied(forward, x, y, alu[1], d.inst.s1) = c.s1
           /\ Supplied(forward, x, y, alu[2], d.inst.s2) = c.s2
           /\ m.valid /\ isLoad(m.inst) /\ m.inst.Rd # 0 =>
                m.inst.Rd # rs[1] /\ m.inst.Rd # rs[2]

Ready(prog, regs, pc, forward, x, y, m, d) ==
  d.valid =>
    /\ FromProgram(prog, d) /\ d.pc = pc
    /\ Operands(prog, regs, forward, x, y, m, d)

\* In front of decode: as fetched.
AsFetched(prog, pc, f) ==
  f.valid =>
    LET o == Origin(prog, f.pc) IN
    /\ FromProgram(prog, f) /\ f.pc = pc
    /\ f.inst = [o EXCEPT !.remaining = ExTotal(o)]

BypassX == IF phase \in {"control", "writeback", "memory", "execute"}
           THEN xm_buff[R].inst ELSE xm_buff[W].inst
BypassY == IF phase \in {"control", "writeback", "memory", "execute"}
           THEN mw_buff[R].inst ELSE mw_buff[W].inst

MemoryReady  == Done(program, Regs, PcAfterCommitted, ToMemory)
ExecuteReady == Ready(program, RegsAfterMemory, PcAfterMemory, config.Forwarding_enabled,
                      BypassX, BypassY, ToMemory, ToExecute)
DecodeReady  == AsFetched(program, PcAfterExecute, ToDecode)

\* Fetch goes on after the youngest of them, or waits.
Path ==
  /\ ~Waiting => (IF Redirected THEN Signalled.branch_target ELSE Pc) = PcAfterDecode
  /\ halt => AtEnd /\ ~Waiting /\ ~Redirected

Unharmed == anomalies = {} /\ Runtime_error = NoError /\ phase # "panicked"

InOrder ==
  /\ MemoryReady
  /\ halt => ~ToDecode.valid
  /\ Mispredicted => Signalled.branch_target = PcAfterMemory
  /\ ~Mispredicted => ExecuteReady /\ DecodeReady /\ Path

OrderInv == Unharmed => InOrder

----------------------------------------------------------------------------
(* The operations.                                                         *)

Bps == [Slots -> Bp_Entry]

LEMMA FilledIs ==
  ASSUME NEW buff \in Buffers, NEW pc, NEW inst
  PROVE  /\ Filled(buff, pc, inst)[W] = [pc |-> pc, inst |-> inst, valid |-> TRUE]
         /\ Filled(buff, pc, inst)[R] = buff[R]
BY DEF Filled, Buffers, W, R

\* The types of what the buffers hold.
LEMMA InFlightType ==
  ASSUME IInv, NEW i \in {W, R}
  PROVE  /\ fd_buff[i] \in Pipeline_Buffer /\ dx_buff[i] \in Pipeline_Buffer
         /\ xm_buff[i] \in Pipeline_Buffer /\ mw_buff[i] \in Pipeline_Buffer
BY BuffersType DEF Buffers

LEMMA BufferFields ==
  ASSUME NEW b \in Pipeline_Buffer
  PROVE  /\ b.pc \in Addr /\ b.inst \in Instruction /\ b.valid \in BOOLEAN
         /\ b.inst.Rd \in Reg /\ b.inst.result \in Word
         /\ b.inst.s1 \in Word /\ b.inst.s2 \in Word /\ b.inst.imm \in Word
         /\ b.inst.remaining \in 0 .. 3
BY DEF Pipeline_Buffer, Instruction

LEMMA WrittenBackType ==
  ASSUME NEW regs \in [Reg -> Word], NEW b \in Pipeline_Buffer
  PROVE  WrittenBack(regs, b) \in [Reg -> Word]
BY BufferFields DEF WrittenBack

LEMMA ViewTypes ==
  ASSUME IInv
  PROVE  /\ ToMemory \in Pipeline_Buffer /\ ToExecute \in Pipeline_Buffer
         /\ ToDecode \in Pipeline_Buffer
         /\ Regs \in [Reg -> Word] /\ RegsAfterMemory \in [Reg -> Word]
<1>1. /\ ToMemory \in Pipeline_Buffer /\ ToExecute \in Pipeline_Buffer
      /\ ToDecode \in Pipeline_Buffer
  BY InFlightType DEF ToMemory, ToExecute, ToDecode
<1>2. Regs \in [Reg -> Word]
  <2>1. RegData \in [Reg -> Word]
    BY DEF IInv, Core
  <2>2. WrittenBack(RegData, mw_buff[R]) \in [Reg -> Word]
    BY <2>1, InFlightType, WrittenBackType
  <2> QED BY <2>2, InFlightType, WrittenBackType DEF Regs
<1> QED BY <1>1, <1>2, WrittenBackType DEF RegsAfterMemory

----------------------------------------------------------------------------
(* What is left in the buffers.                                            *)

LEMMA InitShInv == Init => ShInv
<1> SUFFICES ASSUME Init PROVE ShInv
  OBVIOUS
<1>1. Twins
  BY DEF Init, Twins, EmptyPipelineBuffer, W, R
<1>2. Stored
  BY DEF Init, Stored, Held, EmptyPipelineBuffer, ZeroInstruction, newInstruction, W, R
<1>3. Shadows
  BY DEF Init, Shadows, ToExecute, ToMemory, Alike, SameValue, Writing,
         EmptyPipelineBuffer, W, R
<1>4. Signals
  BY DEF Init, Signals, Mispredicted, Redirected, Signalled, NoSignal, W, R
<1>5. Blocked
  BY DEF Init, Blocked, Waiting, Branch, Redirected, Signalled, NoSignal, ToExecute,
         ToDecode, EmptyPipelineBuffer, W, R
<1>6. Errors
  BY DEF Init, Errors
<1> QED BY <1>1, <1>2, <1>3, <1>4, <1>5, <1>6 DEF ShInv

LEMMA StepTwins == IInv /\ Sides /\ Twins /\ [Next]_vars => Twins'
<1> SUFFICES ASSUME IInv, Sides, Twins, [Next]_vars PROVE Twins'
  OBVIOUS
<1>0. dx_buff \in Buffers /\ xm_buff \in Buffers /\ mw_buff \in Buffers
  BY BuffersType
<1>1. CASE RunControl
  <2>1. /\ dx_buff'[W].inst = dx_buff[W].inst /\ dx_buff'[R].inst = dx_buff[R].inst
        /\ xm_buff' = xm_buff /\ mw_buff' = mw_buff
    BY <1>0, <1>1, DrainedType DEF RunControl, flush
  <2>2. ~dx_buff[W].valid
    BY <1>1 DEF RunControl, Sides
  <2> QED BY <2>1, <2>2 DEF Twins
<1>2. CASE RunMemory
  <2>1. mw_buff'[W].valid
    BY <1>0, <1>2, FilledSides DEF RunMemory
  <2> QED BY <1>2, <2>1 DEF RunMemory, Twins
<1>3. CASE RunExecuteCycle
  <2>1. dx_buff'[W].valid
    BY <1>0, <1>3, FilledSides DEF RunExecuteCycle
  <2> QED BY <1>3, <2>1 DEF RunExecuteCycle, Twins
<1>4. CASE RunExecute
  <2>1. xm_buff'[W].valid
    BY <1>0, <1>4, FilledSides DEF RunExecute
  <2> QED BY <1>4, <2>1 DEF RunExecute, Twins
<1>5. CASE RunDecode
  <2>1. dx_buff'[W].valid
    BY <1>0, <1>5, FilledSides DEF RunDecode
  <2> QED BY <1>5, <2>1 DEF RunDecode, Twins
<1>6. CASE ShiftPipelineBuffers
  <2>1. ASSUME NEW buff \in Buffers PROVE Shifted(buff)[W].inst = Shifted(buff)[R].inst
    BY ShiftedType
  <2> QED BY <1>0, <1>6, <2>1 DEF ShiftPipelineBuffers, Twins
<1>7. CASE UNCHANGED <<dx_buff, xm_buff, mw_buff>>
  BY <1>7 DEF Twins
<1> QED BY <1>1, <1>2, <1>3, <1>4, <1>5, <1>6, <1>7
        DEF Next, Step, Stopped, vars, RunWriteback, RunExecutePanic,
            RunDecodeStall, RunFetchEnd, RunFetch, Bubble

LEMMA StepStored == IInv /\ Twins /\ Stored /\ [Next]_vars => Stored'
<1> SUFFICES ASSUME IInv, Twins, Stored, [Next]_vars PROVE Stored'
  OBVIOUS
<1>0. mw_buff \in Buffers /\ RegData \in [Reg -> Word]
  BY BuffersType DEF IInv, Core
<1>1. CASE RunWriteback
  <2>1. mw_buff[R].inst.Rd \in Reg
    BY InFlightType, BufferFields
  <2>2. Held(mw_buff[R].inst)'
    BY <1>0, <1>1, <2>1 DEF RunWriteback, Held
  <2> QED BY <2>2 DEF Stored
<1>2. CASE RunMemory
  <2>1. mw_buff'[R] = mw_buff[R]
    BY <1>0, <1>2, FilledSides DEF RunMemory
  <2> QED BY <1>2, <2>1 DEF RunMemory, Stored, Held
<1>3. CASE Bubble
  BY <1>3 DEF Bubble, Stored, Held
<1>4. CASE ShiftPipelineBuffers
  <2>1. mw_buff'[R] = mw_buff[W]
    BY <1>0, <1>4, ShiftedType DEF ShiftPipelineBuffers
  <2>2. Held(mw_buff[R].inst)
    BY <1>4 DEF ShiftPipelineBuffers, Stored
  <2> QED BY <1>4, <2>1, <2>2 DEF ShiftPipelineBuffers, Stored, Held, Twins
<1>5. CASE UNCHANGED <<RegData, mw_buff>> /\ phase \notin {"writeback", "shift"}
  BY <1>5 DEF Next, Step, Stopped, vars, Stored, Held, RunControl, RunWriteback, RunMemory,
            RunExecuteCycle, RunExecutePanic, RunExecute, RunDecodeStall, RunDecode,
            RunFetchEnd, RunFetch, Bubble, ShiftPipelineBuffers
<1>6. CASE UNCHANGED vars
  BY <1>6 DEF vars, Stored, Held
<1> QED BY <1>1, <1>2, <1>3, <1>4, <1>5, <1>6
        DEF Next, Step, Stopped, RunControl, RunExecuteCycle,
            RunExecutePanic, RunExecute, RunDecodeStall, RunDecode,
            RunFetchEnd, RunFetch

LEMMA StepErrors == Errors /\ [Next]_vars => Errors'
<1> SUFFICES ASSUME Errors, [Next]_vars PROVE Errors'
  OBVIOUS
<1>1. CASE RunControl           BY <1>1 DEF RunControl, Errors
<1>2. CASE RunWriteback         BY <1>2 DEF RunWriteback, Errors
<1>3. CASE RunMemory            BY <1>3 DEF RunMemory, Errors
<1>4. CASE RunExecuteCycle      BY <1>4 DEF RunExecuteCycle, Errors
<1>5. CASE RunExecutePanic      BY <1>5 DEF RunExecutePanic, Errors
<1>6. CASE RunExecute           BY <1>6 DEF RunExecute, Errors
<1>7. CASE RunDecodeStall       BY <1>7 DEF RunDecodeStall, Errors
<1>8. CASE RunDecode            BY <1>8 DEF RunDecode, Errors
<1>9. CASE RunFetchEnd          BY <1>9 DEF RunFetchEnd, Errors
<1>10. CASE RunFetch            BY <1>10 DEF RunFetch, Errors
<1>11. CASE Bubble              BY <1>11 DEF Bubble, Errors
<1>12. CASE ShiftPipelineBuffers
  BY <1>12 DEF ShiftPipelineBuffers, Errors
<1>13. CASE UNCHANGED vars      BY <1>13 DEF vars, Errors
<1> QED BY <1>1, <1>2, <1>3, <1>4, <1>5, <1>6, <1>7, <1>8, <1>9, <1>10, <1>11,
           <1>12, <1>13 DEF Next, Step, Stopped

----------------------------------------------------------------------------
(* How each call moves the instructions in flight.                         *)

\* The same instruction, or none, seen from the next phase.
Carried(c, b) == (c.valid <=> b.valid) /\ (b.valid => c = b) /\ c.inst = b.inst

LEMMA ControlViews ==
  ASSUME IInv, Sides, RunControl
  PROVE  /\ ToMemory' = ToMemory
         /\ ToExecute'.inst = ToExecute.inst
         /\ IF "FLUSH" \in control_buff[R].flags /\ ~halt
            THEN ~ToExecute'.valid /\ ~ToDecode'.valid
            ELSE ToExecute' = ToExecute /\ ToDecode' = ToDecode
         /\ Signalled = control_buff[R] /\ Signalled' = NoSignal
<1>0. fd_buff \in Buffers /\ dx_buff \in Buffers
  BY BuffersType
<1>1. /\ phase = "control" /\ phase' = "writeback" /\ xm_buff' = xm_buff
      /\ IF "FLUSH" \in control_buff[R].flags /\ ~halt
         THEN fd_buff' = Drained(fd_buff) /\ dx_buff' = Drained(dx_buff)
         ELSE fd_buff' = fd_buff /\ dx_buff' = dx_buff
  BY DEF RunControl, flush
<1>2. CASE "FLUSH" \in control_buff[R].flags /\ ~halt
  <2>1. ~fd_buff'[R].valid /\ ~dx_buff'[R].valid /\ dx_buff'[R].inst = dx_buff[R].inst
    BY <1>0, <1>1, <1>2, DrainedType
  <2> QED BY <1>1, <1>2, <2>1 DEF ToMemory, ToExecute, ToDecode, Signalled
<1>3. CASE ~("FLUSH" \in control_buff[R].flags /\ ~halt)
  BY <1>1, <1>3 DEF ToMemory, ToExecute, ToDecode, Signalled
<1> QED BY <1>2, <1>3

LEMMA WritebackViews ==
  ASSUME RunWriteback
  PROVE  /\ ToMemory' = ToMemory /\ ToExecute' = ToExecute /\ ToDecode' = ToDecode
         /\ Signalled = NoSignal /\ Signalled' = NoSignal
BY DEF RunWriteback, ToMemory, ToExecute, ToDecode, Signalled

LEMMA MemoryViews ==
  ASSUME Sides, Twins, RunMemory
  PROVE  /\ ToMemory = xm_buff[R] /\ ToMemory.valid
         /\ ~ToMemory'.valid /\ ToMemory'.inst = ToMemory.inst
         /\ ToExecute' = ToExecute /\ ToDecode' = ToDecode
         /\ Signalled = NoSignal /\ Signalled' = NoSignal
BY DEF RunMemory, Sides, Twins, ToMemory, ToExecute, ToDecode, Signalled

LEMMA ExecuteCycleViews ==
  ASSUME IInv, Sides, Signals, RunExecuteCycle
  PROVE  /\ ToMemory' = ToMemory /\ ~ToMemory.valid
         /\ ToExecute = dx_buff[R] /\ ToExecute.valid
         /\ ToExecute' = [pc |-> ToExecute.pc, inst |-> Executed, valid |-> TRUE]
         /\ ToDecode' = ToDecode
         /\ Signalled = NoSignal /\ Signalled'.flags = {}
<1>1. dx_buff'[W] = [pc |-> dx_buff[R].pc, inst |-> Executed, valid |-> TRUE]
  BY BuffersType, FilledIs DEF RunExecuteCycle
<1> QED BY <1>1 DEF RunExecuteCycle, Sides, Signals, ToMemory, ToExecute, ToDecode, Signalled

LEMMA ExecuteViews ==
  ASSUME IInv, Sides, Twins, Signals, RunExecute
  PROVE  /\ ~ToMemory.valid
         /\ ToMemory' = [pc |-> ToExecute.pc, valid |-> TRUE,
                         inst |-> [Executed EXCEPT !.result = Result(Executed, ToExecute.pc)]]
         /\ ToExecute = dx_buff[R] /\ ToExecute.valid
         /\ ~ToExecute'.valid /\ ToExecute'.inst = ToExecute.inst
         /\ ToDecode' = ToDecode
         /\ Signalled = NoSignal /\ Signalled' = control_buff'[W]
         /\ control_buff[W].flags = {}
<1> DEFINE out == [Executed EXCEPT !.result = Result(Executed, dx_buff[R].pc)]
<1>1. xm_buff'[W] = [pc |-> dx_buff[R].pc, inst |-> out, valid |-> TRUE]
  BY BuffersType, FilledIs DEF RunExecute
<1> HIDE DEF out
<1>2. /\ phase = "execute" /\ phase' = "decode" /\ dx_buff[R].valid
      /\ dx_buff' = dx_buff /\ fd_buff' = fd_buff
  BY DEF RunExecute
<1>3. /\ ToExecute = dx_buff[R] /\ ToExecute' = dx_buff[W]
      /\ ToMemory = xm_buff[W] /\ ToMemory' = xm_buff'[W] /\ ToDecode' = ToDecode
      /\ Signalled = NoSignal /\ Signalled' = control_buff'[W]
  BY <1>2 DEF ToMemory, ToExecute, ToDecode, Signalled
<1>4. ~xm_buff[W].valid /\ ~dx_buff[W].valid /\ dx_buff[W].inst = dx_buff[R].inst
  BY <1>2 DEF Sides, Twins
<1>5. control_buff[W].flags = {}
  BY <1>2 DEF Signals
<1> QED BY <1>1, <1>2, <1>3, <1>4, <1>5 DEF out

LEMMA DecodeStallViews ==
  ASSUME IInv, RunDecodeStall
  PROVE  /\ ToMemory' = ToMemory /\ ToExecute' = ToExecute /\ ToDecode' = ToDecode
         /\ Signalled' = Signalled
<1>1. fd_buff'[W] = fd_buff[R]
  BY BuffersType DEF RunDecodeStall, Buffers, W, R
<1> QED BY <1>1 DEF RunDecodeStall, ToMemory, ToExecute, ToDecode, Signalled

LEMMA DecodeViews ==
  ASSUME IInv, Sides, RunDecode
  PROVE  /\ ToMemory' = ToMemory
         /\ ~ToExecute.valid
         /\ ToExecute' = [pc |-> ToDecode.pc, inst |-> Decoded(ToDecode.inst, RegData),
                          valid |-> TRUE]
         /\ ToDecode = fd_buff[R] /\ ToDecode.valid /\ ~ToDecode'.valid
         /\ Signalled' = Signalled
<1>1. dx_buff'[W] = [pc |-> fd_buff[R].pc, inst |-> Decoded(fd_buff[R].inst, RegData),
                     valid |-> TRUE]
  BY BuffersType, FilledIs DEF RunDecode
<1> QED BY <1>1 DEF RunDecode, shouldStallDecode, Sides, ToMemory, ToExecute, ToDecode,
                    Signalled

LEMMA FetchEndViews ==
  ASSUME Sides, RunFetchEnd
  PROVE  /\ ToMemory' = ToMemory /\ ToExecute' = ToExecute /\ ToDecode' = ToDecode
         /\ ~ToDecode.valid /\ Signalled' = Signalled
BY DEF RunFetchEnd, FetchEnabled, Sides, ToMemory, ToExecute, ToDecode, Signalled

LEMMA FetchViews ==
  ASSUME IInv, Sides, RunFetch
  PROVE  /\ ToMemory' = ToMemory /\ ToExecute' = ToExecute
         /\ ~ToDecode.valid
         /\ ToDecode' = [pc |-> Pc, inst |-> [Fetched EXCEPT !.remaining = ExTotal(Fetched)],
                         valid |-> TRUE]
         /\ Signalled = control_buff[W] /\ Signalled' = control_buff'[W]
<1> DEFINE out == [Fetched EXCEPT !.remaining = ExTotal(Fetched)]
<1>1. fd_buff'[W] = [pc |-> Pc, inst |-> out, valid |-> TRUE]
  BY BuffersType, FilledIs DEF RunFetch
<1> HIDE DEF out
<1>2. /\ phase = "fetch" /\ phase' = "shift" /\ stall_map = {}
      /\ dx_buff' = dx_buff /\ xm_buff' = xm_buff
  BY DEF RunFetch, FetchEnabled
<1>3. ~fd_buff[W].valid
  BY <1>2 DEF Sides
<1> QED BY <1>1, <1>2, <1>3 DEF out, ToMemory, ToExecute, ToDecode, Signalled

LEMMA BubbleViews ==
  ASSUME Sides, Twins, Signals, Bubble
  PROVE  /\ Carried(ToMemory', ToMemory) /\ Carried(ToExecute', ToExecute)
         /\ ToDecode'.valid <=> ToDecode.valid
         /\ ToDecode.valid => ToDecode' = ToDecode
         /\ Signalled'.flags = Signalled.flags
         /\ phase # "execute" => Signalled' = Signalled
<1>1. CASE phase = "writeback"
  BY <1>1 DEF Bubble, Carried, ToMemory, ToExecute, ToDecode, Signalled
<1>2. CASE phase = "memory"
  BY <1>2 DEF Bubble, Sides, Twins, Carried, ToMemory, ToExecute, ToDecode, Signalled
<1>3. CASE phase = "execute"
  BY <1>3 DEF Bubble, Sides, Twins, Signals, Carried, ToMemory, ToExecute, ToDecode,
     Signalled, NoSignal
<1>4. CASE phase = "decode"
  BY <1>4 DEF Bubble, Sides, Twins, Carried, ToMemory, ToExecute, ToDecode, Signalled
<1>5. CASE phase = "fetch"
  BY <1>5 DEF Bubble, Carried, ToMemory, ToExecute, ToDecode, Signalled
<1> QED BY <1>1, <1>2, <1>3, <1>4, <1>5 DEF Bubble

LEMMA ShiftViews ==
  ASSUME IInv, ShiftPipelineBuffers
  PROVE  /\ ToMemory' = ToMemory /\ ToExecute' = ToExecute /\ ToDecode' = ToDecode
         /\ Signalled' = Signalled
<1>1. /\ fd_buff'[R] = fd_buff[W] /\ dx_buff'[R] = dx_buff[W] /\ xm_buff'[R] = xm_buff[W]
  BY BuffersType, ShiftedType DEF ShiftPipelineBuffers
<1>2. control_buff'[R] = control_buff[W]
  BY DEF ShiftPipelineBuffers, R, W
<1> QED BY <1>1, <1>2 DEF ShiftPipelineBuffers, ToMemory, ToExecute, ToDecode, Signalled

----------------------------------------------------------------------------

\* Without jalr execute either says nothing or answers a branch.
LEMMA ExecuteAnswers ==
  ASSUME IInv, NoJalr, RunExecute
  PROVE  /\ Executed.op # "jalr" /\ dx_buff[R].valid
         /\ isConditionalBranch(Executed) <=> isConditionalBranch(dx_buff[R].inst)
         /\ ~isConditionalBranch(Executed) => UNCHANGED <<control_buff, Bp>>
         /\ isConditionalBranch(Executed) =>
              ResolveBranch(Executed, dx_buff[R].pc,
                            BranchTarget(Executed, dx_buff[R].pc), Taken(Executed))
<1>1. Executed.op = dx_buff[R].inst.op /\ dx_buff[R].valid
  BY ExecutedType DEF RunExecute, SameAs, IInv
<1>2. Executed.op # "jalr"
  BY <1>1 DEF NoJalr, Straight
<1>3. isConditionalBranch(Executed) <=> isConditionalBranch(dx_buff[R].inst)
  BY <1>1 DEF isConditionalBranch, Fmt_B
<1> QED BY <1>1, <1>2, <1>3 DEF RunExecute

LEMMA SignalIs ==
  ASSUME control_buff \in [{W, R} -> Control_Buffer], NEW target,
         NEW flags \in SUBSET {"BRANCH", "FLUSH"}, Signal(target, flags)
  PROVE  /\ control_buff'[W] = [branch_target |-> target,
                                flags |-> control_buff[W].flags \cup flags]
         /\ control_buff'[R] = control_buff[R]
BY DEF Signal, Control_Buffer, W, R

\* The instruction at Pc is not a jalr, so that fetch only jumps after a branch.
LEMMA FetchedIs ==
  ASSUME IInv, NoJalr, ~AtEnd
  PROVE  /\ Fetched \in Instruction /\ Parsed(Fetched) /\ Fetched.op # "jalr"
         /\ Fetched.op # "end"
         /\ Pc \div 4 < Len(program) /\ Fetched = Origin(program, Pc)
         /\ (Pc \div 4) + 1 \in DOMAIN program
<1>1. Pc \in Nat /\ program \in Seq(Instruction)
  BY WordModPositive DEF IInv, Core, Addr
<1>2. Pc \div 4 \in Nat /\ Pc \div 4 < Len(program)
  BY <1>1 DEF AtEnd, Program_size
<1>3. (Pc \div 4) + 1 \in DOMAIN program
  BY <1>1, <1>2
<1>4. Fetched \in Instruction /\ Parsed(Fetched)
  BY FetchedType DEF IInv
<1>5. Fetched.op # "end"
  BY <1>2 DEF AtEnd, Program_size
<1> QED BY <1>2, <1>3, <1>4, <1>5 DEF Fetched, NoJalr, Origin

\* What fetch does after the instruction at Pc.
LEMMA FetchGuesses ==
  ASSUME IInv, NoJalr, RunFetch
  PROVE  LET guess == GuessedBy(Bp, max_counter, Pc) IN
         /\ ~isConditionalBranch(Fetched) =>
              UNCHANGED <<control_buff, stall_map>>
         /\ isConditionalBranch(Fetched) /\ ~config.Bp_enabled =>
              stall_map' = stall_map \cup {"BRANCH"} /\ UNCHANGED control_buff
         /\ isConditionalBranch(Fetched) /\ config.Bp_enabled =>
              /\ UNCHANGED stall_map
              /\ \/ Signal(guess, {"BRANCH"}) /\ Guess.kind = "jump"
                 \/ UNCHANGED control_buff /\ guess = Uint32(Pc + 4)
<1>1. Fetched.op # "jalr"
  BY FetchedIs DEF RunFetch
<1>2. Guess = IF isConditionalBranch(Fetched)
              THEN IF ~config.Bp_enabled THEN [kind |-> "stall", target |-> 0]
                   ELSE IF predict(Bp, max_counter, Pc).taken
                   THEN [kind |-> "jump", target |-> predict(Bp, max_counter, Pc).target]
                   ELSE [kind |-> "next", target |-> 0]
              ELSE [kind |-> "next", target |-> 0]
  BY <1>1 DEF Guess
<1> QED BY <1>2 DEF RunFetch, GuessedBy

LEMMA StepSignals ==
  IInv /\ Sides /\ NoJalr /\ Twins /\ Signals /\ [Next]_vars => Signals'
<1> SUFFICES ASSUME IInv, Sides, NoJalr, Twins, Signals, [Next]_vars PROVE Signals'
  OBVIOUS
<1> USE DEF Mispredicted, Redirected
<1>0. control_buff \in [{W, R} -> Control_Buffer]
  BY DEF IInv, Core
<1>1. CASE RunControl
  BY <1>1, ControlViews DEF RunControl, Signals, NoSignal
<1>2. CASE RunWriteback
  BY <1>2, WritebackViews DEF RunWriteback, Signals, NoSignal
<1>3. CASE RunMemory
  BY <1>3, MemoryViews DEF RunMemory, Signals, NoSignal
<1>4. CASE RunExecuteCycle
  BY <1>4, ExecuteCycleViews DEF RunExecuteCycle, Signals
<1>5. CASE RunExecutePanic
  <2>1. Signalled' = NoSignal
    BY <1>5 DEF RunExecutePanic, Signalled
  <2> QED BY <1>5, <2>1 DEF RunExecutePanic, Signals, NoSignal
<1>6. CASE RunExecute
  <2>1. /\ control_buff[W].flags = {} /\ Signalled' = control_buff'[W]
        /\ phase' = "decode" /\ config' = config
    BY <1>6, ExecuteViews DEF RunExecute, setup
  <2>2. CASE UNCHANGED control_buff
    BY <2>1, <2>2 DEF Signals
  <2>3. CASE control_buff' # control_buff
    <3>1. isConditionalBranch(Executed)
      BY <1>6, <2>3, ExecuteAnswers
    <3> DEFINE target == NextPc(Executed, dx_buff[R].pc)
    <3>2. IF config.Bp_enabled THEN Signal(target, {"BRANCH", "FLUSH"})
          ELSE Signal(target, {"BRANCH"})
      BY <1>6, <2>3, <3>1, ExecuteAnswers DEF ResolveBranch
    <3> HIDE DEF target
    <3>3. control_buff'[W].flags = IF config.Bp_enabled THEN {"BRANCH", "FLUSH"}
                                   ELSE {"BRANCH"}
      <4>1. CASE Signal(target, {"BRANCH", "FLUSH"})
        <5>1. control_buff'[W].flags = control_buff[W].flags \cup {"BRANCH", "FLUSH"}
          BY <1>0, <4>1, SignalFlags
        <5> QED BY <2>1, <3>2, <4>1, <5>1, SignalFlags, <1>0
      <4>2. CASE Signal(target, {"BRANCH"})
        <5>1. control_buff'[W].flags = control_buff[W].flags \cup {"BRANCH"}
          BY <1>0, <4>2, SignalFlags
        <5> QED BY <2>1, <3>2, <4>2, <5>1, SignalFlags, <1>0
      <4> QED BY <3>2, <4>1, <4>2
    <3>4. Branch(ToMemory')
      <4> DEFINE out == [Executed EXCEPT !.result = Result(Executed, ToExecute.pc)]
      <4>1. ToMemory'.valid /\ ToMemory'.inst = out
        BY <1>6, ExecuteViews
      <4>2. out.op = Executed.op
        BY <1>6, ExecutedType DEF RunExecute, SameAs, IInv, Instruction
      <4> HIDE DEF out
      <4> QED BY <3>1, <4>1, <4>2 DEF Branch, isConditionalBranch, Fmt_B
    <3> QED BY <2>1, <3>3, <3>4 DEF Signals, Branch
  <2> QED BY <2>2, <2>3
<1>7. CASE RunDecodeStall
  BY <1>7, DecodeStallViews DEF RunDecodeStall, setup, Signals, Branch
<1>8. CASE RunDecode
  BY <1>8, DecodeViews DEF RunDecode, setup, Signals, Branch
<1>9. CASE RunFetchEnd
  BY <1>9, FetchEndViews DEF RunFetchEnd, setup, Signals, Branch
<1>10. CASE RunFetch
  <2>1. /\ Signalled = control_buff[W] /\ Signalled' = control_buff'[W]
        /\ ToMemory' = ToMemory /\ phase' = "shift" /\ config' = config
    BY <1>10, FetchViews DEF RunFetch, setup
  <2> DEFINE guess == GuessedBy(Bp, max_counter, Pc)
  <2>2. \/ UNCHANGED control_buff
        \/ config.Bp_enabled /\ Signal(guess, {"BRANCH"})
    BY <1>10, FetchGuesses
  <2> HIDE DEF guess
  <2>3. \/ Signalled'.flags = Signalled.flags
        \/ config.Bp_enabled /\ Signalled'.flags = Signalled.flags \cup {"BRANCH"}
    <3>1. CASE config.Bp_enabled /\ Signal(guess, {"BRANCH"})
      <4>1. control_buff'[W].flags = control_buff[W].flags \cup {"BRANCH"}
        BY <1>0, <3>1, SignalFlags
      <4> QED BY <2>1, <3>1, <4>1
    <3> QED BY <2>1, <2>2, <3>1
  <2> QED BY <1>10, <2>1, <2>3 DEF Signals, Branch
<1>11. CASE Bubble
  BY <1>11, BubbleViews DEF Bubble, setup, Signals, Branch, Carried
<1>12. CASE ShiftPipelineBuffers
  <2>1. control_buff'[W] = NoSignal
    BY <1>12 DEF ShiftPipelineBuffers, R, W
  <2> QED BY <1>12, <2>1, ShiftViews DEF ShiftPipelineBuffers, setup, Signals, Branch, NoSignal
<1>13. CASE UNCHANGED vars
  <2>1. Signalled' = Signalled /\ ToMemory' = ToMemory
    BY <1>13 DEF vars, Signalled, ToMemory
  <2> QED BY <1>13, <2>1 DEF vars, setup, Signals, Branch
<1> QED BY <1>1, <1>2, <1>3, <1>4, <1>5, <1>6, <1>7, <1>8, <1>9, <1>10, <1>11,
           <1>12, <1>13 DEF Next, Step, Stopped

LEMMA SetupStays == [Next]_vars => UNCHANGED setup
BY DEF Next, Step, Stopped, vars, setup, RunControl, RunWriteback, RunMemory,
       RunExecuteCycle, RunExecutePanic, RunExecute, RunDecodeStall, RunDecode,
       RunFetchEnd, RunFetch, Bubble, ShiftPipelineBuffers

LEMMA StepBlocked ==
  /\ IInv /\ Sides /\ NoJalr /\ FlushesPredict
  /\ Twins /\ Signals /\ Blocked /\ [Next]_vars
  => Blocked'
<1> SUFFICES ASSUME IInv, Sides, NoJalr, FlushesPredict, Twins, Signals, Blocked,
                    [Next]_vars
             PROVE  Blocked'
  OBVIOUS
<1>0. config' = config
  BY SetupStays DEF setup
<1> SUFFICES ASSUME ~config.Bp_enabled PROVE Blocked'
  BY <1>0 DEF Blocked
<1> USE DEF Redirected, Waiting, Branch
<1>1. CASE RunControl
  <2>1. "FLUSH" \notin control_buff[R].flags
    BY DEF FlushesPredict
  <2>2. /\ ToExecute' = ToExecute /\ ToDecode' = ToDecode
        /\ Signalled = control_buff[R] /\ Signalled'.flags = {}
    BY <1>1, <2>1, ControlViews DEF NoSignal
  <2>3. IF Redirected THEN stall_map' = stall_map \ {"BRANCH"} ELSE stall_map' = stall_map
    BY <1>1, <2>2 DEF RunControl
  <2> QED BY <2>2, <2>3 DEF Blocked
<1>2. CASE RunWriteback
  BY <1>2, WritebackViews DEF RunWriteback, Blocked
<1>3. CASE RunMemory
  BY <1>3, MemoryViews DEF RunMemory, Blocked
<1>4. CASE RunExecuteCycle
  <2>1. /\ ToExecute'.valid /\ ToExecute'.inst = Executed /\ ToExecute.valid
        /\ ToExecute = dx_buff[R] /\ ToDecode' = ToDecode /\ Signalled'.flags = {}
    BY <1>4, ExecuteCycleViews
  <2>2. Executed.op = ToExecute.inst.op
    BY <2>1, ExecutedType DEF SameAs, IInv
  <2> QED BY <1>4, <2>1, <2>2 DEF RunExecuteCycle, Blocked, isConditionalBranch, Fmt_B
<1>5. CASE RunExecutePanic
  <2>1. Signalled'.flags = {} /\ ToExecute' = ToExecute /\ ToDecode' = ToDecode
    BY <1>5 DEF RunExecutePanic, Signalled, NoSignal, ToExecute, ToDecode
  <2> QED BY <1>5, <2>1 DEF RunExecutePanic, Blocked
<1>6. CASE RunExecute
  <2>1. /\ ToExecute = dx_buff[R] /\ ToExecute.valid /\ ~ToExecute'.valid
        /\ ToDecode' = ToDecode /\ stall_map' = stall_map
        /\ Signalled' = control_buff'[W] /\ control_buff[W].flags = {}
    BY <1>6, ExecuteViews DEF RunExecute
  <2>2. isConditionalBranch(ToExecute.inst) \/ UNCHANGED control_buff
    BY <1>6, <2>1, ExecuteAnswers
  <2> QED BY <2>1, <2>2 DEF Blocked
<1>7. CASE RunDecodeStall
  BY <1>7, DecodeStallViews DEF RunDecodeStall, Blocked
<1>8. CASE RunDecode
  <2>1. /\ ToDecode = fd_buff[R] /\ ToDecode.valid /\ ~ToDecode'.valid
        /\ ToExecute'.valid /\ ToExecute'.inst = Decoded(ToDecode.inst, RegData)
        /\ Signalled' = Signalled /\ stall_map' = stall_map \ {"RAW"}
    BY <1>8, DecodeViews DEF RunDecode
  <2>2. Decoded(ToDecode.inst, RegData).op = ToDecode.inst.op
    BY <2>1, DecodedSame DEF SameAs
  <2> QED BY <2>1, <2>2 DEF Blocked, isConditionalBranch, Fmt_B
<1>9. CASE RunFetchEnd
  BY <1>9, FetchEndViews DEF RunFetchEnd, Blocked
<1>10. CASE RunFetch
  <2>1. /\ Signalled = control_buff[W] /\ Signalled' = control_buff'[W]
        /\ ToExecute' = ToExecute
        /\ ToDecode'.inst = [Fetched EXCEPT !.remaining = ExTotal(Fetched)]
        /\ stall_map = {}
    BY <1>10, FetchViews DEF RunFetch, FetchEnabled
  <2>2. Fetched \in Instruction
    BY <1>10, FetchedIs DEF RunFetch
  <2>3. ToDecode'.inst.op = Fetched.op
    BY <2>1, <2>2 DEF Instruction
  <2>4. /\ UNCHANGED control_buff
        /\ isConditionalBranch(Fetched) => "BRANCH" \in stall_map'
    BY <1>10, FetchGuesses
  <2>5. ~Redirected /\ ~Branch(ToExecute)
    BY <2>1 DEF Blocked
  <2> QED BY <2>1, <2>3, <2>4, <2>5 DEF Blocked, isConditionalBranch, Fmt_B
<1>11. CASE Bubble
  BY <1>11, BubbleViews DEF Bubble, Blocked, Carried
<1>12. CASE ShiftPipelineBuffers
  BY <1>12, ShiftViews DEF ShiftPipelineBuffers, Blocked
<1>13. CASE UNCHANGED vars
  <2>1. Signalled' = Signalled /\ ToExecute' = ToExecute /\ ToDecode' = ToDecode
    BY <1>13 DEF vars, Signalled, ToExecute, ToDecode
  <2> QED BY <1>13, <2>1 DEF vars, Blocked
<1> QED BY <1>1, <1>2, <1>3, <1>4, <1>5, <1>6, <1>7, <1>8, <1>9, <1>10, <1>11,
           <1>12, <1>13 DEF Next, Step, Stopped

\* What run_memory hands on.
LEMMA MemoryFills ==
  ASSUME IInv, Sides, Twins, RunMemory
  PROVE  /\ mw_buff'[W].valid /\ mw_buff'[W].pc = ToMemory.pc
         /\ mw_buff'[W].inst \in Instruction
         /\ SameValue(ToMemory.inst, mw_buff'[W].inst)
         /\ ~isLoad(ToMemory.inst) => mw_buff'[W].inst = ToMemory.inst
         /\ isLoad(ToMemory.inst) =>
              mw_buff'[W].inst = [ToMemory.inst EXCEPT !.result =
                memoryRead(Memory, config.Mem_size, Uint32(ToMemory.inst.result),
                           AccessBytes(ToMemory.inst.op))]
         /\ mw_buff'[R] = mw_buff[R]
<1> DEFINE inst == xm_buff[R].inst
           data == memoryRead(Memory, config.Mem_size, Uint32(inst.result),
                              AccessBytes(inst.op))
           out  == IF isLoad(inst) THEN [inst EXCEPT !.result = data] ELSE inst
<1>1. ToMemory = xm_buff[R] /\ inst \in Instruction
  BY MemoryViews, InFlightType, BufferFields
<1>2. mw_buff' = Filled(mw_buff, xm_buff[R].pc, out)
  BY DEF RunMemory
<1>3. SameValue(inst, out)
  <2> HIDE DEF data
  <2> QED BY <1>1 DEF SameValue, Alike, Instruction
<1>4. mw_buff'[W] = [pc |-> xm_buff[R].pc, inst |-> out, valid |-> TRUE]
      /\ mw_buff'[R] = mw_buff[R]
  <2> HIDE DEF out
  <2> QED BY <1>2, BuffersType, FilledIs
<1>5. mw_buff'[W] \in Pipeline_Buffer
  <2>1. IInv'
    BY StepIInv DEF Next, Step
  <2> QED BY <2>1, BuffersType DEF IInv, Core, Buffers
<1>6. out \in Instruction
  BY <1>4, <1>5 DEF Pipeline_Buffer
<1> QED BY <1>1, <1>3, <1>4, <1>6

LEMMA StepShadows ==
  IInv /\ Sides /\ Twins /\ Signals /\ Shadows /\ [Next]_vars => Shadows'
<1> SUFFICES ASSUME IInv, Sides, Twins, Signals, Shadows, [Next]_vars PROVE Shadows'
  OBVIOUS
<1>1. CASE RunControl
  <2>1. ToMemory' = ToMemory /\ ToExecute'.inst = ToExecute.inst
    BY <1>1, ControlViews
  <2>2. xm_buff' = xm_buff /\ mw_buff' = mw_buff /\ phase' = "writeback"
    BY <1>1 DEF RunControl
  <2>3. CASE "FLUSH" \in control_buff[R].flags /\ ~halt
    <3>1. Branch(ToMemory)
      BY <1>1, <2>3, ControlViews DEF Signals, Mispredicted
    <3>2. ~Writing(ToMemory)
      BY <3>1, BranchesDoNotWrite DEF Branch, Writing
    <3>3. ~Writing(mw_buff[W])
      BY <1>1 DEF RunControl, Sides, Writing
    <3> QED BY <2>1, <2>2, <3>2, <3>3 DEF Shadows, Writing
  <2>4. CASE ~("FLUSH" \in control_buff[R].flags /\ ~halt)
    <3>1. ToExecute' = ToExecute
      BY <1>1, <2>4, ControlViews
    <3> QED BY <2>1, <2>2, <3>1 DEF Shadows, Writing
  <2> QED BY <2>3, <2>4
<1>2. CASE RunWriteback
  BY <1>2, WritebackViews DEF RunWriteback, Shadows, Writing
<1>3. CASE RunMemory
  <2>1. /\ ToMemory.valid /\ ~ToMemory'.valid /\ ToMemory'.inst = ToMemory.inst
        /\ ToExecute' = ToExecute /\ ToMemory = xm_buff[R]
    BY <1>3, MemoryViews
  <2>2. SameValue(ToMemory.inst, mw_buff'[W].inst)
    BY <1>3, MemoryFills
  <2>3. Writing(mw_buff[W])' => Writing(ToMemory)
    BY <2>1, <2>2 DEF SameValue, Alike, Writing, WritesRd, Fmt_R, Fmt_I, Fmt_U, Fmt_J
  <2>4. ~Writing(ToMemory')
    BY <2>1 DEF Writing
  <2>5. xm_buff' = xm_buff /\ phase' = "execute"
    BY <1>3 DEF RunMemory
  <2> QED BY <2>1, <2>2, <2>3, <2>4, <2>5 DEF Shadows, Writing
<1>4. CASE RunExecuteCycle
  <2>1. dx_buff'[R] = dx_buff[R]
    BY <1>4, BuffersType, FilledIs DEF RunExecuteCycle
  <2> QED BY <1>4, <2>1, ExecuteCycleViews DEF RunExecuteCycle, Shadows
<1>5. CASE RunExecutePanic
  <2>1. ToExecute' = ToExecute /\ ToMemory' = ToMemory
    BY <1>5 DEF RunExecutePanic, ToExecute, ToMemory
  <2> QED BY <1>5, <2>1 DEF RunExecutePanic, Shadows, Writing
<1>6. CASE RunExecute
  <2> DEFINE out == [Executed EXCEPT !.result = Result(Executed, ToExecute.pc)]
  <2>1. /\ ToExecute = dx_buff[R] /\ ToExecute'.inst = ToExecute.inst
        /\ ToMemory'.valid /\ ToMemory'.inst = out
    BY <1>6, ExecuteViews
  <2>2. Alike(ToExecute.inst, out)
    <3>1. SameAs(Executed, ToExecute.inst)
      BY <1>6, <2>1, ExecutedType DEF RunExecute, IInv
    <3> QED BY <3>1 DEF SameAs, Alike, Instruction
  <2> HIDE DEF out
  <2>3. ToMemory' = xm_buff'[W]
    BY <1>6 DEF RunExecute, ToMemory
  <2>4. xm_buff'[R] = xm_buff[R]
    <3> DEFINE filled == [Executed EXCEPT !.result = Result(Executed, dx_buff[R].pc)]
    <3>1. xm_buff' = Filled(xm_buff, dx_buff[R].pc, filled)
      BY <1>6 DEF RunExecute
    <3> HIDE DEF filled
    <3> QED BY <3>1, BuffersType, FilledIs
  <2> QED BY <1>6, <2>1, <2>2, <2>3, <2>4 DEF RunExecute, Shadows
<1>7. CASE RunDecodeStall
  BY <1>7, DecodeStallViews DEF RunDecodeStall, Shadows, Writing
<1>8. CASE RunDecode
  BY <1>8, DecodeViews DEF RunDecode, Shadows, Writing
<1>9. CASE RunFetchEnd
  BY <1>9, FetchEndViews DEF RunFetchEnd, Shadows, Writing
<1>10. CASE RunFetch
  BY <1>10, FetchViews DEF RunFetch, Shadows, Writing
<1>11. CASE Bubble
  <2>1. /\ Carried(ToMemory', ToMemory) /\ Carried(ToExecute', ToExecute)
        /\ xm_buff' = xm_buff /\ mw_buff' = mw_buff /\ dx_buff' = dx_buff
    BY <1>11, BubbleViews DEF Bubble
  <2>2. phase' = "execute" => ~ToMemory.valid /\ ToMemory = xm_buff[R]
    BY <1>11 DEF Bubble, ToMemory
  <2>3. phase' = "decode" => phase = "execute" /\ ~xm_buff[W].valid
    BY <1>11 DEF Bubble, Sides
  <2>4. phase' # "panicked"
    BY <1>11 DEF Bubble
  <2> QED BY <2>1, <2>2, <2>3, <2>4 DEF Shadows, Writing, Carried
<1>12. CASE ShiftPipelineBuffers
  <2>1. /\ xm_buff'[W].inst = xm_buff[W].inst /\ mw_buff'[W].inst = mw_buff[W].inst
        /\ ~mw_buff'[W].valid
    BY <1>12, BuffersType, ShiftedType DEF ShiftPipelineBuffers
  <2> QED BY <1>12, <2>1, ShiftViews DEF ShiftPipelineBuffers, Shadows, Writing
<1>13. CASE UNCHANGED vars
  <2>1. ToMemory' = ToMemory /\ ToExecute' = ToExecute
    BY <1>13 DEF vars, ToMemory, ToExecute
  <2> QED BY <1>13, <2>1 DEF vars, Shadows, Writing
<1> QED BY <1>1, <1>2, <1>3, <1>4, <1>5, <1>6, <1>7, <1>8, <1>9, <1>10, <1>11,
           <1>12, <1>13 DEF Next, Step, Stopped

LEMMA ShadowInvariant ==
  NoIndirectJumps /\ Spec => [](IInv /\ Sides /\ SInv /\ AInv /\ ShInv)
<1>1. Init => ShInv
  BY InitShInv
<1>2. IInv /\ Sides /\ SInv /\ AInv /\ ShInv /\ [Next]_vars => ShInv'
  BY StepTwins, StepStored, StepShadows, StepSignals, StepBlocked, StepErrors
     DEF ShInv, SInv, AInv
<1> QED BY <1>1, <1>2, SidesInvariant, AnomalyInvariant, PTL DEF Spec

----------------------------------------------------------------------------
(* What an instruction computes depends on its operands only.              *)

Immediate(inst) ==
  IF Fmt_R(inst) THEN inst.imm
  ELSE IF Fmt_B(inst) \/ (Fmt_I(inst) /\ ~isLoad(inst)) THEN inst.Rs2
  ELSE inst.Rs1

LEMMA DecodedFields ==
  ASSUME NEW inst \in Instruction, NEW regs
  PROVE  LET c  == Decoded(inst, regs)
             rs == getSourceRegisters(inst)
         IN  /\ c.op = inst.op /\ c.Rd = inst.Rd /\ c.Rs1 = inst.Rs1 /\ c.Rs2 = inst.Rs2
             /\ c.result = inst.result /\ c.remaining = inst.remaining
             /\ rs[1] \in Reg \cup {-1} /\ rs[2] \in Reg \cup {-1}
             /\ c.s1 = IF rs[1] = -1 THEN inst.s1 ELSE regs[rs[1]]
             /\ c.s2 = IF rs[2] = -1 THEN inst.s2 ELSE regs[rs[2]]
             /\ c.imm = Immediate(inst)
<1>0. inst.Rd \in Reg /\ RegisterOperands(inst) /\ -1 \notin Reg
  BY NumRegsAssumption DEF Instruction, Reg
<1>1. CASE Fmt_R(inst)
  <2>1. inst.Rs1 \in Reg /\ inst.Rs2 \in Reg
    BY <1>0, <1>1 DEF RegisterOperands
  <2>2. /\ Decoded(inst, regs) = [inst EXCEPT !.s1 = regs[inst.Rs1], !.s2 = regs[inst.Rs2]]
        /\ getSourceRegisters(inst) = <<inst.Rs1, inst.Rs2>>
        /\ Immediate(inst) = inst.imm
    BY <1>1, FormatsDisjoint DEF Decoded, getSourceRegisters, Immediate
  <2> QED BY <1>0, <2>1, <2>2 DEF Instruction
<1>2. CASE Fmt_I(inst) /\ isLoad(inst)
  <2>1. inst.Rs2 \in Reg /\ ~Fmt_R(inst) /\ ~Fmt_B(inst)
    BY <1>0, <1>2, FormatsDisjoint DEF RegisterOperands
  <2> QED BY <1>0, <1>2, <2>1 DEF Decoded, getSourceRegisters, Immediate, Instruction
<1>3. CASE Fmt_I(inst) /\ ~isLoad(inst)
  <2>1. inst.Rs1 \in Reg /\ ~Fmt_R(inst) /\ ~Fmt_B(inst)
    BY <1>0, <1>3, FormatsDisjoint DEF RegisterOperands
  <2>2. /\ Decoded(inst, regs) = [inst EXCEPT !.s1 = regs[inst.Rs1], !.imm = inst.Rs2]
        /\ getSourceRegisters(inst) = <<inst.Rs1, -1>>
        /\ Immediate(inst) = inst.Rs2
    BY <1>3, <2>1, FormatsDisjoint DEF Decoded, getSourceRegisters, Immediate
  <2> QED BY <1>0, <2>1, <2>2 DEF Instruction
<1>4. CASE Fmt_S(inst)
  <2>1. inst.Rs2 \in Reg /\ ~Fmt_R(inst) /\ ~Fmt_B(inst) /\ ~Fmt_I(inst)
    BY <1>0, <1>4, FormatsDisjoint DEF RegisterOperands
  <2> QED BY <1>0, <1>4, <2>1 DEF Decoded, getSourceRegisters, Immediate, Instruction
<1>5. CASE Fmt_B(inst)
  <2>1. inst.Rs1 \in Reg /\ ~Fmt_R(inst) /\ ~Fmt_S(inst) /\ ~Fmt_I(inst)
    BY <1>0, <1>5, FormatsDisjoint DEF RegisterOperands
  <2> QED BY <1>0, <1>5, <2>1 DEF Decoded, getSourceRegisters, Immediate, Instruction
<1>6. CASE ~Fmt_R(inst) /\ ~Fmt_I(inst) /\ ~Fmt_S(inst) /\ ~Fmt_B(inst)
  BY <1>0, <1>6 DEF Decoded, getSourceRegisters, Immediate, Instruction
<1> QED BY <1>1, <1>2, <1>3, <1>4, <1>5, <1>6

SameOperation(a, b) == a.op = b.op /\ a.Rd = b.Rd /\ a.Rs1 = b.Rs1 /\ a.Rs2 = b.Rs2

\* Two instructions that differ in the bookkeeping of the pipeline at most.
LEMMA SameFormat ==
  ASSUME NEW a, NEW b, SameOperation(a, b)
  PROVE  /\ getSourceRegisters(a) = getSourceRegisters(b)
         /\ getAluInputRegisters(a) = getAluInputRegisters(b)
         /\ ExTotal(a) = ExTotal(b)
         /\ a.imm = b.imm => Immediate(a) = Immediate(b)
         /\ isLoad(a) <=> isLoad(b)
         /\ isStore(a) <=> isStore(b)
         /\ WritesRd(a) <=> WritesRd(b)
         /\ isConditionalBranch(a) <=> isConditionalBranch(b)
BY DEF SameOperation, getSourceRegisters, getAluInputRegisters, ExTotal, Immediate,
       isLoad, isStore, WritesRd, isConditionalBranch, Fmt_R, Fmt_I, Fmt_S, Fmt_B, Fmt_U, Fmt_J

LEMMA SameMeaning ==
  ASSUME NEW a, NEW b, NEW pc, a.op = b.op,
         a.s1 = b.s1, a.s2 = b.s2, a.imm = b.imm
  PROVE  /\ a.result = b.result => Result(a, pc) = Result(b, pc)
         /\ NextPc(a, pc) = NextPc(b, pc)
         /\ Panics(a) <=> Panics(b)
<1>1. Taken(a) <=> Taken(b)
  BY DEF Taken
<1>2. BranchTarget(a, pc) = BranchTarget(b, pc)
  BY <1>1 DEF BranchTarget
<1>3. NextPc(a, pc) = NextPc(b, pc)
  BY <1>1, <1>2 DEF NextPc
<1>4. Panics(a) <=> Panics(b)
  BY DEF Panics
<1>5. a.result = b.result => Result(a, pc) = Result(b, pc)
  BY DEF Result, isLoad, isStore
<1> QED BY <1>3, <1>4, <1>5

\* Where a jump that is not indirect and not conditional goes does not depend
\* on registers.
LEMMA DirectNext ==
  ASSUME NEW a, NEW b, NEW pc, a.op = b.op, a.imm = b.imm,
         a.op # "jalr", ~isConditionalBranch(a)
  PROVE  NextPc(a, pc) = NextPc(b, pc)
<1>1. Taken(a) = (a.op = "jal") /\ Taken(b) = (a.op = "jal")
  BY DEF Taken, isConditionalBranch, Fmt_B, B_Ops
<1> QED BY <1>1 DEF NextPc, BranchTarget

\* The instruction of the program that a buffer holds.
LEMMA OriginIs ==
  ASSUME IInv, NEW b \in Pipeline_Buffer, FromProgram(program, b)
  PROVE  LET o == Origin(program, b.pc) IN
         /\ o \in Instruction /\ SameOperation(b.inst, o)
         /\ o.op # "nop" /\ o.op # "end"
         /\ o.s1 = 0 /\ o.s2 = 0 /\ o.imm = 0 /\ o.result = 0 /\ o.remaining = 0
         /\ b.pc \div 4 \in Nat /\ (b.pc \div 4) + 1 \in DOMAIN program
<1>1. b.pc \in Nat /\ program \in Seq(Instruction)
  BY BufferFields, WordModPositive DEF IInv, Core, Addr
<1>2. (b.pc \div 4) \in Nat /\ (b.pc \div 4) + 1 \in DOMAIN program
  BY <1>1 DEF FromProgram
<1>3. Parsed(Origin(program, b.pc))
  BY <1>2 DEF IInv, Core, Origin
<1>4. /\ Origin(program, b.pc) \in Instruction /\ Origin(program, b.pc).op # "nop"
  BY <1>3 DEF Parsed
<1> DEFINE o == Origin(program, b.pc)
<1>5. o = newInstruction(o.op, o.Rd, o.Rs1, o.Rs2)
  BY <1>3 DEF Parsed
<1> HIDE DEF o
<1>6. o.s1 = 0 /\ o.s2 = 0 /\ o.imm = 0 /\ o.result = 0 /\ o.remaining = 0
  BY <1>5 DEF newInstruction
<1> QED BY <1>2, <1>4, <1>6 DEF o, FromProgram, SameOperation

LEMMA ExecutedFields ==
  ASSUME IInv, dx_buff[R].valid
  PROVE  LET inst == dx_buff[R].inst
             alu  == getAluInputRegisters(inst)
             fw   == config.Forwarding_enabled
             x    == xm_buff[R].inst
             y    == mw_buff[R].inst
         IN  /\ Executed \in Instruction /\ SameOperation(Executed, inst)
             /\ Executed.imm = inst.imm /\ Executed.result = inst.result
             /\ Executed.remaining = inst.remaining - 1
             /\ Executed.s1 = IF Latched(inst) THEN inst.s1
                              ELSE Supplied(fw, x, y, alu[1], inst.s1)
             /\ Executed.s2 = IF Latched(inst) THEN inst.s2
                              ELSE Supplied(fw, x, y, alu[2], inst.s2)
<1> DEFINE inst == dx_buff[R].inst
           alu  == getAluInputRegisters(inst)
           b1   == getRegValueFromBypass(alu[1], inst.s1)
           b2   == getRegValueFromBypass(alu[2], inst.s2)
           latched == IF ~Latched(inst) THEN [inst EXCEPT !.s1 = b1, !.s2 = b2] ELSE inst
<1>1. inst \in Instruction
  BY InFlightType, BufferFields
<1>2. /\ b1 = Supplied(config.Forwarding_enabled, xm_buff[R].inst, mw_buff[R].inst,
                       alu[1], inst.s1)
      /\ b2 = Supplied(config.Forwarding_enabled, xm_buff[R].inst, mw_buff[R].inst,
                       alu[2], inst.s2)
  BY DEF getRegValueFromBypass, Supplied
<1>3. Executed = [latched EXCEPT !.remaining = @ - 1]
  BY DEF Executed, Latched
<1>4. Executed \in Instruction /\ SameOperation(Executed, inst)
  BY ExecutedType DEF IInv, SameAs, SameOperation
<1> HIDE DEF inst, alu, b1, b2
<1>5. /\ latched.s1 = (IF Latched(inst) THEN inst.s1 ELSE b1)
      /\ latched.s2 = (IF Latched(inst) THEN inst.s2 ELSE b2)
      /\ latched.imm = inst.imm /\ latched.result = inst.result
      /\ latched.remaining = inst.remaining
      /\ latched = [f \in DOMAIN latched |-> latched[f]]
      /\ DOMAIN latched = {"op", "Rd", "Rs1", "Rs2", "s1", "s2", "imm", "result", "remaining"}
  BY <1>1 DEF Instruction
<1> HIDE DEF latched
<1>6. /\ Executed.s1 = latched.s1 /\ Executed.s2 = latched.s2
      /\ Executed.imm = latched.imm /\ Executed.result = latched.result
      /\ Executed.remaining = latched.remaining - 1
  BY <1>3, <1>5
<1> QED BY <1>2, <1>4, <1>5, <1>6 DEF inst, alu

----------------------------------------------------------------------------
(* The registers and the address that the sequential machine has.          *)

LEMMA HeldIs ==
  ASSUME NEW b \in Pipeline_Buffer, Held(b.inst), RegData \in [Reg -> Word]
  PROVE  WrittenBack(RegData, b) = RegData
BY BufferFields DEF Held, WrittenBack

\* Everything but run_memory leaves them alone.
LEMMA StepRegs ==
  ASSUME IInv, Sides, Twins, Stored, [Next]_vars, ~RunMemory
  PROVE  /\ Regs' = Regs
         /\ mw_buff'[W].inst = mw_buff[W].inst /\ mw_buff'[W].pc = mw_buff[W].pc
         /\ PcAfterCommitted' = PcAfterCommitted
<1>0. mw_buff \in Buffers /\ RegData \in [Reg -> Word] /\ mw_buff[R] \in Pipeline_Buffer
  BY BuffersType, InFlightType DEF IInv, Core
<1>1. pc_init' = pc_init
  BY SetupStays DEF setup
<1>2. CASE RunWriteback
  <2>1. RegData' = WrittenBack(RegData, mw_buff[R]) /\ mw_buff' = mw_buff
    BY <1>0, <1>2 DEF RunWriteback, WrittenBack
  <2>2. WrittenBack(RegData', mw_buff[R]) = RegData'
    <3>1. mw_buff[R].inst.Rd \in Reg /\ mw_buff[R].inst.result \in Word
      BY <1>0, BufferFields
    <3> QED BY <1>0, <2>1, <3>1 DEF WrittenBack
  <2> QED BY <1>1, <2>1, <2>2 DEF Regs, PcAfterCommitted, Youngest
<1>3. CASE ShiftPipelineBuffers
  <2>1. /\ mw_buff' = Shifted(mw_buff) /\ RegData' = RegData
        /\ Held(mw_buff[R].inst)
    BY <1>3 DEF ShiftPipelineBuffers, Stored
  <2>2. /\ mw_buff'[R] = mw_buff[W] /\ ~mw_buff'[W].valid
        /\ mw_buff'[W].inst = mw_buff[W].inst
    BY <1>0, <2>1, ShiftedType
  <2>3. mw_buff'[W].pc = mw_buff[W].pc
    <3>1. mw_buff'[W] = [mw_buff[W] EXCEPT !.valid = FALSE]
      BY <2>1 DEF Shifted, W, R
    <3>2. mw_buff[W] \in Pipeline_Buffer
      BY InFlightType
    <3> QED BY <3>1, <3>2 DEF Pipeline_Buffer
  <2>4. Regs = WrittenBack(RegData, mw_buff[W])
    BY <1>0, <2>1, HeldIs DEF Regs
  <2>5. Regs' = WrittenBack(RegData, mw_buff[W])
    BY <2>1, <2>2 DEF Regs, WrittenBack
  <2> QED BY <1>1, <2>2, <2>3, <2>4, <2>5 DEF PcAfterCommitted, Youngest
<1>4. CASE UNCHANGED <<RegData, mw_buff>>
  BY <1>1, <1>4 DEF Regs, PcAfterCommitted, Youngest
<1> QED BY <1>2, <1>3, <1>4
        DEF Next, Step, Stopped, vars, RunControl, RunExecuteCycle,
            RunExecutePanic, RunExecute, RunDecodeStall, RunDecode,
            RunFetchEnd, RunFetch, Bubble

----------------------------------------------------------------------------
(* A view is kept when it shows the same instruction, or none.             *)

Kept(c, b) == (c.valid <=> b.valid) /\ (b.valid => c = b)

LEMMA KeptViews ==
  ASSUME NEW c, NEW b, Kept(c, b)
  PROVE  /\ \A regs : WrittenBack(regs, c) = WrittenBack(regs, b)
         /\ \A pc : After(pc, c) = After(pc, b)
         /\ \A bp, max, pc : /\ AfterDecoded(bp, max, pc, c) = AfterDecoded(bp, max, pc, b)
                             /\ AfterFetched(bp, max, pc, c) = AfterFetched(bp, max, pc, b)
         /\ Branch(c) <=> Branch(b)
         /\ \A prog, regs, pc : Done(prog, regs, pc, b) => Done(prog, regs, pc, c)
         /\ \A prog, pc : AsFetched(prog, pc, b) => AsFetched(prog, pc, c)
<1>1. CASE b.valid
  BY <1>1 DEF Kept
<1>2. CASE ~b.valid
  BY <1>2 DEF Kept, WrittenBack, After, AfterDecoded, AfterFetched, Branch, Done, AsFetched
<1> QED BY <1>1, <1>2

LEMMA KeptReady ==
  ASSUME NEW n, NEW m, Kept(n, m), NEW e, NEW d, Kept(e, d),
         NEW prog, NEW regs, NEW pc, NEW fw, NEW x, NEW y,
         Ready(prog, regs, pc, fw, x, y, m, d)
  PROVE  Ready(prog, regs, pc, fw, x, y, n, e)
<1>1. CASE ~d.valid
  BY <1>1 DEF Kept, Ready
<1>2. CASE d.valid
  <2>1. e = d
    BY <1>2 DEF Kept
  <2>2. CASE n = m
    BY <2>1, <2>2
  <2>3. CASE ~m.valid /\ ~n.valid
    BY <1>2, <2>1, <2>3 DEF Ready, Operands
  <2> QED BY <2>2, <2>3 DEF Kept
<1> QED BY <1>1, <1>2

\* A step that keeps every view keeps what is said of them.
LEMMA Steady ==
  ASSUME UNCHANGED <<setup, Bp>>,
         Regs' = Regs, PcAfterCommitted' = PcAfterCommitted,
         Kept(ToMemory', ToMemory), Kept(ToExecute', ToExecute), Kept(ToDecode', ToDecode),
         ToExecute.valid => BypassX' = BypassX /\ BypassY' = BypassY
  PROVE  /\ MemoryReady => MemoryReady'
         /\ ExecuteReady => ExecuteReady'
         /\ DecodeReady => DecodeReady'
         /\ PcAfterMemory' = PcAfterMemory /\ PcAfterDecode' = PcAfterDecode
         /\ Waiting' <=> Waiting
<1>0. program' = program /\ config' = config /\ Bp' = Bp /\ max_counter' = max_counter
  BY DEF setup, max_counter
<1>1. RegsAfterMemory' = RegsAfterMemory /\ PcAfterMemory' = PcAfterMemory
  BY KeptViews DEF RegsAfterMemory, PcAfterMemory
<1>2. PcAfterExecute' = PcAfterExecute
  BY <1>0, <1>1, KeptViews DEF PcAfterExecute
<1>3. PcAfterDecode' = PcAfterDecode
  BY <1>0, <1>2, KeptViews DEF PcAfterDecode
<1>4. Waiting' <=> Waiting
  BY <1>0, KeptViews DEF Waiting
<1>5. MemoryReady => MemoryReady'
  BY <1>0, KeptViews DEF MemoryReady
<1>6. DecodeReady => DecodeReady'
  BY <1>0, <1>2, KeptViews DEF DecodeReady
<1>7. ASSUME ExecuteReady PROVE ExecuteReady'
  <2>1. CASE ~ToExecute.valid
    BY <2>1 DEF Kept, ExecuteReady, Ready
  <2>2. CASE ToExecute.valid
    <3>1. Ready(program, RegsAfterMemory, PcAfterMemory, config.Forwarding_enabled,
                BypassX, BypassY, ToMemory', ToExecute')
      BY <1>7, KeptReady DEF ExecuteReady
    <3>2. BypassX' = BypassX /\ BypassY' = BypassY
      BY <2>2
    <3> QED BY <1>0, <1>1, <3>1, <3>2 DEF ExecuteReady
  <2> QED BY <2>1, <2>2
<1> QED BY <1>1, <1>3, <1>4, <1>5, <1>6, <1>7

\* The same of the whole, when nothing is signalled, fetched or halted.
LEMMA SteadyOrder ==
  ASSUME UNCHANGED <<setup, Bp, Pc, halt>>, InOrder,
         Regs' = Regs, PcAfterCommitted' = PcAfterCommitted,
         Kept(ToMemory', ToMemory), Kept(ToExecute', ToExecute), Kept(ToDecode', ToDecode),
         ToExecute.valid => BypassX' = BypassX /\ BypassY' = BypassY,
         Signalled'.flags = Signalled.flags,
         Signalled.flags = {} \/ Signalled' = Signalled
  PROVE  InOrder'
<1>1. /\ MemoryReady => MemoryReady'
      /\ ExecuteReady => ExecuteReady'
      /\ DecodeReady => DecodeReady'
      /\ PcAfterMemory' = PcAfterMemory /\ PcAfterDecode' = PcAfterDecode
      /\ Waiting' <=> Waiting
  BY Steady
<1>2. ToDecode'.valid <=> ToDecode.valid
  BY DEF Kept
<1>3. AtEnd' <=> AtEnd
  BY DEF setup, AtEnd, Fetched, Program_size
<1>4. /\ Mispredicted' <=> Mispredicted
      /\ Redirected' <=> Redirected
      /\ Mispredicted \/ Redirected => Signalled'.branch_target = Signalled.branch_target
  BY DEF Mispredicted, Redirected
<1>5. Path => Path'
  BY <1>1, <1>3, <1>4 DEF Path
<1> QED BY <1>1, <1>2, <1>4, <1>5 DEF InOrder

Base == IInv /\ Sides /\ SInv /\ AInv /\ ShInv

LEMMA WritebackOrder == ASSUME Base, InOrder, RunWriteback PROVE InOrder'
<1>1. Regs' = Regs /\ PcAfterCommitted' = PcAfterCommitted
  BY StepRegs DEF Base, ShInv, Next, Step, RunWriteback, RunMemory
<1>2. BypassX' = BypassX /\ BypassY' = BypassY
  BY DEF RunWriteback, BypassX, BypassY
<1> QED BY <1>1, <1>2, SteadyOrder, WritebackViews DEF RunWriteback, Kept

LEMMA DecodeStallOrder == ASSUME Base, InOrder, RunDecodeStall PROVE InOrder'
<1>1. Regs' = Regs /\ PcAfterCommitted' = PcAfterCommitted
  BY StepRegs DEF Base, ShInv, Next, Step, RunDecodeStall, RunMemory
<1>2. BypassX' = BypassX /\ BypassY' = BypassY
  BY DEF RunDecodeStall, BypassX, BypassY
<1> QED BY <1>1, <1>2, SteadyOrder, DecodeStallViews DEF RunDecodeStall, Kept, Base

LEMMA BubbleOrder == ASSUME Base, InOrder, Bubble PROVE InOrder'
<1>1. Regs' = Regs /\ PcAfterCommitted' = PcAfterCommitted
  BY StepRegs DEF Base, ShInv, Next, Step, Bubble, RunMemory
<1>2. /\ Kept(ToMemory', ToMemory) /\ Kept(ToExecute', ToExecute)
      /\ Kept(ToDecode', ToDecode) /\ Signalled'.flags = Signalled.flags
      /\ Signalled.flags = {} \/ Signalled' = Signalled
  <2>1. phase = "execute" => Signalled.flags = {}
    BY DEF Signalled, NoSignal
  <2> QED BY <2>1, BubbleViews DEF Base, ShInv, Kept, Carried
<1>3. ToExecute.valid => BypassX' = BypassX /\ BypassY' = BypassY
  BY DEF Bubble, BypassX, BypassY, ToExecute
<1> QED BY <1>1, <1>2, <1>3, SteadyOrder DEF Bubble

LEMMA ShiftOrder == ASSUME Base, InOrder, ShiftPipelineBuffers PROVE InOrder'
<1>1. Regs' = Regs /\ PcAfterCommitted' = PcAfterCommitted
  BY StepRegs DEF Base, ShInv, Next, Step, ShiftPipelineBuffers, RunMemory
<1>2. BypassX' = BypassX /\ BypassY' = BypassY
  <2>1. xm_buff'[R] = xm_buff[W] /\ mw_buff'[R] = mw_buff[W]
    BY BuffersType, ShiftedType DEF ShiftPipelineBuffers, Base
  <2> QED BY <2>1 DEF ShiftPipelineBuffers, BypassX, BypassY
<1> QED BY <1>1, <1>2, SteadyOrder, ShiftViews DEF ShiftPipelineBuffers, Kept, Base

LEMMA StopOrder == ASSUME InOrder, UNCHANGED <<vars, anomalies>> PROVE InOrder'
<1>1. /\ Regs' = Regs /\ PcAfterCommitted' = PcAfterCommitted
      /\ ToMemory' = ToMemory /\ ToExecute' = ToExecute /\ ToDecode' = ToDecode
      /\ BypassX' = BypassX /\ BypassY' = BypassY /\ Signalled' = Signalled
  BY DEF vars, setup, Regs, PcAfterCommitted, Youngest, ToMemory, ToExecute, ToDecode, BypassX,
         BypassY, Signalled
<1>2. UNCHANGED <<setup, Bp, Pc, halt>>
  BY DEF vars, setup
<1>3. Kept(ToMemory', ToMemory) /\ Kept(ToExecute', ToExecute) /\ Kept(ToDecode', ToDecode)
  BY <1>1 DEF Kept
<1> QED BY <1>1, <1>2, <1>3, SteadyOrder

----------------------------------------------------------------------------
(* Neighbouring entries of the predictor.                                  *)

\* Two instructions in a row use different entries of the predictor: it has 32
\* of them in the program.
SeparateSlots == \A pc \in Addr : BpIndex(Uint32(pc + 4)) # BpIndex(pc)

\* A remainder survives a conversion to a number of values it divides.
LEMMA ModOfMod ==
  ASSUME NEW m \in Nat \ {0}, NEW n \in Nat \ {0}, n % m = 0, NEW x \in Int
  PROVE  ((x % n) % m) = x % m
<1>1. PICK q \in Int : q = x \div n
  BY DivMod
<1>2. PICK y \in Int : y = x % n
  BY DivMod
<1>3. x = n * q + y
  BY <1>1, <1>2, DivMod
<1>4. PICK k \in Int : k = n \div m
  BY DivMod
<1>5. n = m * k
  <2>1. n = m * k + (n % m)
    BY <1>4, DivMod
  <2> QED BY <2>1
<1>6. x = y + m * (k * q)
  <2>1. n * q = m * (k * q)
    BY <1>5
  <2>2. n * q \in Int
    OBVIOUS
  <2> QED BY <1>3, <2>1, <2>2
<1>7. PICK t \in Int : t = k * q
  OBVIOUS
<1>8. ((y + m * t) % m) = y % m
  BY ModShift
<1> QED BY <1>2, <1>6, <1>7, <1>8

\* Two numbers closer to each other than m have different remainders.
LEMMA ModApart ==
  ASSUME NEW m \in Nat \ {0}, NEW x \in Int, NEW d \in 1 .. m - 1
  PROVE  ((x + d) % m) # x % m
<1>1. PICK y \in Int : y = x + d
  OBVIOUS
<1>2. PICK p \in Int : p = x \div m
  BY DivMod
<1>3. PICK q \in Int : q = y \div m
  BY DivMod
<1>4. PICK r \in Int : r = x % m
  BY DivMod
<1>5. PICK s \in Int : s = y % m
  BY DivMod
<1>6. x = m * p + r
  BY <1>2, <1>4, DivMod
<1>7. y = m * q + s
  BY <1>3, <1>5, DivMod
<1> SUFFICES ASSUME r = s PROVE FALSE
  BY <1>1, <1>4, <1>5
<1>8. PICK e \in Int : e = q - p
  OBVIOUS
<1>9. m * e = d
  <2>1. m * e = m * q - m * p
    BY <1>8
  <2>2. m * q \in Int /\ m * p \in Int
    OBVIOUS
  <2> QED BY <1>1, <1>6, <1>7, <2>1, <2>2
<1>10. e = 0
  BY <1>9, Multiple
<1> QED BY <1>9, <1>10

\* A buffer of more than four entries, a power of two, has them.
LEMMA SlotsSeparate ==
  ASSUME BP_BUFFER_SIZE > 4, WORD_MOD % BP_BUFFER_SIZE = 0
  PROVE  SeparateSlots
<1>1. BP_BUFFER_SIZE \in Nat \ {0} /\ WORD_MOD \in Nat \ {0} /\ 4 \in 1 .. BP_BUFFER_SIZE - 1
  BY WordModPositive, BpSizeAssumption
<1> SUFFICES ASSUME NEW pc \in Addr PROVE BpIndex(Uint32(pc + 4)) # BpIndex(pc)
  BY DEF SeparateSlots
<1>2. PICK y \in Int : y = pc + 4
  BY WordIsInt
<1>3. ((y % WORD_MOD) % BP_BUFFER_SIZE) = y % BP_BUFFER_SIZE
  BY <1>1, ModOfMod
<1>4. ((pc + 4) % BP_BUFFER_SIZE) # pc % BP_BUFFER_SIZE
  BY <1>1, WordIsInt, ModApart
<1> QED BY <1>2, <1>3, <1>4 DEF BpIndex, Uint32

----------------------------------------------------------------------------
(* What the calls do to the order: run_control and run_memory.             *)

\* The machine after a flush: nothing is left behind the branch.
LEMMA FlushedOrder ==
  ASSUME UNCHANGED <<setup, Bp>>, MemoryReady,
         Regs' = Regs, PcAfterCommitted' = PcAfterCommitted, ToMemory' = ToMemory,
         ~ToExecute'.valid, ~ToDecode'.valid, ~halt',
         Signalled' = NoSignal, Pc' = PcAfterMemory
  PROVE  InOrder'
<1>1. program' = program
  BY DEF setup
<1>2. MemoryReady' /\ PcAfterMemory' = PcAfterMemory
  BY <1>1 DEF MemoryReady, PcAfterMemory
<1>3. ~Mispredicted' /\ ~Redirected' /\ ~Waiting'
  BY DEF Mispredicted, Redirected, Waiting, Branch, NoSignal
<1>4. ExecuteReady' /\ DecodeReady'
  BY DEF ExecuteReady, Ready, DecodeReady, AsFetched
<1>5. PcAfterDecode' = PcAfterMemory
  BY <1>2 DEF PcAfterDecode, PcAfterExecute, AfterDecoded, AfterFetched
<1>6. Path'
  BY <1>3, <1>5 DEF Path
<1> QED BY <1>2, <1>3, <1>4, <1>6 DEF InOrder

LEMMA ControlOrder ==
  ASSUME Base, InOrder, RunControl, ~SwallowedFlush PROVE InOrder'
<1>1. Regs' = Regs /\ PcAfterCommitted' = PcAfterCommitted
  BY StepRegs DEF Base, ShInv, Next, Step, RunControl, RunMemory
<1>2. /\ UNCHANGED <<setup, Bp>> /\ ToMemory' = ToMemory
      /\ Signalled = control_buff[R] /\ Signalled' = NoSignal
      /\ phase = "control" /\ ToExecute = dx_buff[R]
  BY ControlViews DEF RunControl, Base, ToExecute
<1>3. CASE Mispredicted
  <2>1. "FLUSH" \in control_buff[R].flags /\ "BRANCH" \in control_buff[R].flags
    BY <1>2, <1>3 DEF Mispredicted, Redirected, Base, ShInv, Signals
  <2>2. Pc' = PcAfterMemory
    BY <1>2, <1>3, <2>1 DEF RunControl, InOrder
  <2>3. ~halt' /\ ~ToExecute'.valid /\ ~ToDecode'.valid
    <3>1. CASE halt
      <4>1. ToExecute' = ToExecute /\ ToDecode' = ToDecode
        BY <3>1, ControlViews DEF Base
      <4>2. ~dx_buff[R].valid
        BY <1>2, <2>1, <3>1 DEF SwallowedFlush
      <4>3. ~halt'
        BY <2>1, <3>1 DEF RunControl, flush
      <4> QED BY <1>2, <3>1, <4>1, <4>2, <4>3 DEF InOrder
    <3>2. CASE ~halt
      <4>1. ~halt'
        BY <2>1, <3>2 DEF RunControl, flush
      <4> QED BY <2>1, <3>2, <4>1, ControlViews DEF Base
    <3> QED BY <3>1, <3>2
  <2> QED BY <1>1, <1>2, <2>2, <2>3, FlushedOrder DEF InOrder
<1>4. CASE ~Mispredicted
  <2>1. "FLUSH" \notin control_buff[R].flags
    BY <1>2, <1>4 DEF Mispredicted
  <2>2. ToExecute' = ToExecute /\ ToDecode' = ToDecode /\ halt' = halt
    BY <2>1, ControlViews DEF Base, RunControl
  <2>3. BypassX' = BypassX /\ BypassY' = BypassY
    BY DEF RunControl, BypassX, BypassY
  <2>4. Kept(ToMemory', ToMemory) /\ Kept(ToExecute', ToExecute) /\ Kept(ToDecode', ToDecode)
    BY <1>2, <2>2 DEF Kept
  <2>5. /\ MemoryReady' /\ ExecuteReady' /\ DecodeReady'
        /\ PcAfterDecode' = PcAfterDecode /\ (Waiting' <=> Waiting)
    BY <1>1, <1>2, <1>4, <2>3, <2>4, Steady DEF InOrder
  <2>6. ~Mispredicted' /\ ~Redirected'
    BY <1>2 DEF Mispredicted, Redirected, NoSignal
  <2>7. Pc' = IF Redirected THEN Signalled.branch_target ELSE Pc
    BY <1>2 DEF RunControl, Redirected
  <2>8. halt => Pc' = Pc /\ AtEnd'
    <3>1. halt => AtEnd /\ Pc' = Pc
      BY <1>4, <2>7 DEF InOrder, Path
    <3> QED BY <1>2, <3>1 DEF setup, AtEnd, Fetched, Program_size
  <2>9. Path'
    BY <1>4, <2>2, <2>5, <2>6, <2>7, <2>8 DEF InOrder, Path
  <2> QED BY <1>4, <2>2, <2>5, <2>6, <2>9 DEF InOrder
<1> QED BY <1>3, <1>4

\* What waits for a load to pass run_memory does not read its register.
LEMMA ReadyAfterLoad ==
  ASSUME IInv, NEW pc, NEW fw, NEW x, NEW y,
         NEW m, NEW n, m.valid, ~n.valid, NEW d \in Pipeline_Buffer,
         NEW old, NEW new,
         Ready(program, old, pc, fw, x, y, m, d),
         \A r \in Reg : new[r] = old[r] \/ (isLoad(m.inst) /\ r = m.inst.Rd /\ r # 0)
  PROVE  Ready(program, new, pc, fw, x, y, n, d)
<1> SUFFICES ASSUME d.valid
             PROVE  /\ FromProgram(program, d) /\ d.pc = pc
                    /\ Operands(program, new, fw, x, y, n, d)
  BY DEF Ready
<1> DEFINE o  == Origin(program, d.pc)
           c  == Decoded(o, old)
           e  == Decoded(o, new)
           rs == getSourceRegisters(d.inst)
<1>1. /\ FromProgram(program, d) /\ d.pc = pc
      /\ Operands(program, old, fw, x, y, m, d)
  BY DEF Ready
<1>2. /\ o \in Instruction /\ SameOperation(d.inst, o)
  BY <1>1, OriginIs
<1>3. rs = getSourceRegisters(o)
  BY <1>2, SameFormat
<1>4. ~Latched(d.inst)
  BY <1>1 DEF Operands
<1>5. isLoad(m.inst) /\ m.inst.Rd # 0 => m.inst.Rd # rs[1] /\ m.inst.Rd # rs[2]
  BY <1>1, <1>4 DEF Operands
<1>6. e.s1 = c.s1 /\ e.s2 = c.s2 /\ e.imm = c.imm
  <2>1. /\ c.s1 = (IF rs[1] = -1 THEN o.s1 ELSE old[rs[1]])
        /\ c.s2 = (IF rs[2] = -1 THEN o.s2 ELSE old[rs[2]])
        /\ c.imm = Immediate(o)
        /\ rs[1] \in Reg \cup {-1} /\ rs[2] \in Reg \cup {-1}
    BY <1>2, <1>3, DecodedFields
  <2>2. /\ e.s1 = (IF rs[1] = -1 THEN o.s1 ELSE new[rs[1]])
        /\ e.s2 = (IF rs[2] = -1 THEN o.s2 ELSE new[rs[2]])
        /\ e.imm = Immediate(o)
    BY <1>2, <1>3, DecodedFields
  <2> HIDE DEF o, c, e, rs
  <2>3. rs[1] # -1 => new[rs[1]] = old[rs[1]]
    BY <1>5, <2>1
  <2>4. rs[2] # -1 => new[rs[2]] = old[rs[2]]
    BY <1>5, <2>1
  <2> QED BY <2>1, <2>2, <2>3, <2>4
<1> QED BY <1>1, <1>4, <1>6 DEF Operands

LEMMA MemoryOrder ==
  ASSUME Base, InOrder, RunMemory, Runtime_error' = NoError
  PROVE  InOrder'
<1> DEFINE m == ToMemory
<1>1. /\ m = xm_buff[R] /\ m.valid /\ ~ToMemory'.valid
      /\ ToExecute' = ToExecute /\ ToDecode' = ToDecode
      /\ Signalled = NoSignal /\ Signalled' = NoSignal
      /\ phase = "memory" /\ phase' = "execute"
      /\ Bp' = Bp /\ Pc' = Pc /\ xm_buff' = xm_buff /\ RegData' = RegData
      /\ UNCHANGED setup
  BY MemoryViews DEF Base, ShInv, RunMemory
<1>2. program' = program /\ config' = config /\ pc_init' = pc_init /\ max_counter' = max_counter
  BY <1>1 DEF setup, max_counter
<1>3. /\ mw_buff'[W].valid /\ mw_buff'[W].pc = m.pc
      /\ mw_buff'[W].inst \in Instruction
      /\ SameValue(m.inst, mw_buff'[W].inst)
      /\ ~isLoad(m.inst) => mw_buff'[W].inst = m.inst
      /\ isLoad(m.inst) =>
           mw_buff'[W].inst = [m.inst EXCEPT !.result =
                memoryRead(Memory, config.Mem_size, Uint32(m.inst.result),
                           AccessBytes(m.inst.op))]
      /\ mw_buff'[R] = mw_buff[R]
  BY MemoryFills DEF Base, ShInv
<1>4. m \in Pipeline_Buffer /\ ToExecute \in Pipeline_Buffer /\ Regs \in [Reg -> Word]
  BY ViewTypes DEF Base
<1>5. MemoryReady /\ ExecuteReady /\ DecodeReady /\ Path /\ (halt => ~ToDecode.valid)
  BY <1>1 DEF InOrder, Mispredicted, NoSignal
<1>6. halt' = halt
  <2> DEFINE inst  == xm_buff[R].inst
             error == AccessError(config.Mem_size, Uint32(inst.result), AccessBytes(inst.op))
  <2>1. halt' = (halt \/ (isLoad(inst) /\ error = "unaligned"))
    BY DEF RunMemory, NoError
  <2>2. isLoad(inst) => error = NoError
    BY DEF RunMemory
  <2>3. halt \in BOOLEAN
    BY DEF Base, IInv, Core
  <2> HIDE DEF error, inst
  <2> QED BY <2>1, <2>2, <2>3 DEF NoError
<1>7. m.inst.op # "nop"
  BY <1>1, <1>4, <1>5, OriginIs DEF MemoryReady, Done, Base, SameOperation
<1>8. PcAfterCommitted' = NextPc(m.inst, m.pc)
  <2> DEFINE data == memoryRead(Memory, config.Mem_size, Uint32(m.inst.result),
                                AccessBytes(m.inst.op))
             out == mw_buff'[W].inst
  <2>1. m.inst \in Instruction
    BY <1>4, BufferFields
  <2>2. out = m.inst \/ out = [m.inst EXCEPT !.result = data]
    BY <1>3
  <2>3. /\ out.op = m.inst.op
        /\ out.s1 = m.inst.s1 /\ out.s2 = m.inst.s2 /\ out.imm = m.inst.imm
    <3> HIDE DEF data, out, m
    <3> QED BY <2>1, <2>2 DEF Instruction
  <2>4. NextPc(out, m.pc) = NextPc(m.inst, m.pc)
    BY <2>3, SameMeaning
  <2> QED BY <1>2, <1>3, <1>7, <2>3, <2>4 DEF PcAfterCommitted, Youngest
<1>9. PcAfterMemory' = PcAfterMemory
  BY <1>1, <1>8 DEF PcAfterMemory, After
<1>10. Regs' = WrittenBack(Regs, mw_buff'[W]) /\ RegsAfterMemory' = Regs'
  <2>1. ~mw_buff[W].valid
    BY <1>1 DEF Base, Sides
  <2>2. Regs = WrittenBack(RegData, mw_buff[R])
    BY <2>1 DEF Regs, WrittenBack
  <2> QED BY <1>1, <1>3, <2>2 DEF Regs, RegsAfterMemory, WrittenBack
<1>11. \A r \in Reg : \/ RegsAfterMemory'[r] = RegsAfterMemory[r]
                      \/ isLoad(m.inst) /\ r = m.inst.Rd /\ r # 0
  <2>1. CASE ~isLoad(m.inst)
    BY <1>1, <1>3, <1>10, <2>1 DEF RegsAfterMemory, WrittenBack
  <2>2. CASE isLoad(m.inst)
    <3> DEFINE out == mw_buff'[W].inst
    <3>1. out.Rd = m.inst.Rd /\ out.op = m.inst.op
      BY <1>3 DEF SameValue, Alike
    <3>2. WritesRd(out) /\ WritesRd(m.inst)
      BY <2>2, <3>1 DEF isLoad, Loads, WritesRd, Fmt_I, I_Ops
    <3> HIDE DEF m
    <3> QED BY <1>1, <1>3, <1>4, <1>10, <2>2, <3>1, <3>2 DEF RegsAfterMemory, WrittenBack, m
  <2> QED BY <2>1, <2>2
<1>12. BypassX' = BypassX /\ BypassY' = BypassY
  BY <1>1, <1>3 DEF BypassX, BypassY
<1>13. ExecuteReady'
  <2>1. Ready(program, RegsAfterMemory', PcAfterMemory, config.Forwarding_enabled,
              BypassX, BypassY, ToMemory', ToExecute)
    BY <1>1, <1>4, <1>5, <1>11, ReadyAfterLoad DEF ExecuteReady, Base
  <2> QED BY <1>1, <1>2, <1>9, <1>12, <2>1 DEF ExecuteReady
<1>14. PcAfterExecute' = PcAfterExecute
  BY <1>1, <1>2, <1>9 DEF PcAfterExecute
<1>15. DecodeReady' /\ PcAfterDecode' = PcAfterDecode
  BY <1>1, <1>2, <1>5, <1>14 DEF DecodeReady, PcAfterDecode
<1>16. MemoryReady'
  BY <1>1 DEF MemoryReady, Done
<1>17. ~Mispredicted' /\ ~Redirected' /\ ~Mispredicted /\ ~Redirected /\ (Waiting' <=> Waiting)
  BY <1>1, <1>2 DEF Mispredicted, Redirected, NoSignal, Waiting
<1>18. AtEnd' <=> AtEnd
  BY <1>1, <1>2 DEF AtEnd, Fetched, Program_size
<1>19. Path'
  BY <1>1, <1>5, <1>6, <1>15, <1>17, <1>18 DEF Path
<1> QED BY <1>1, <1>5, <1>6, <1>13, <1>15, <1>16, <1>17, <1>19 DEF InOrder

----------------------------------------------------------------------------
(* Execute: operands, branches and their predictions.                      *)

LEMMA ExecutedReady ==
  ASSUME Base, ExecuteReady, phase = "execute", dx_buff[R].valid
  PROVE  LET o == Origin(program, dx_buff[R].pc)
             c == Decoded(o, Regs)
         IN  /\ FromProgram(program, dx_buff[R]) /\ dx_buff[R].pc = PcAfterCommitted
             /\ Executed \in Instruction /\ SameOperation(Executed, o)
             /\ Executed.op = c.op /\ Executed.imm = c.imm
             /\ Executed.s1 = c.s1 /\ Executed.s2 = c.s2
             /\ Executed.result = c.result /\ Executed.result = 0
             /\ Executed.imm = dx_buff[R].inst.imm
             /\ SameOperation(Executed, dx_buff[R].inst)
             /\ Latched(Executed) /\ Executed.remaining <= ExTotal(Executed)
<1> DEFINE d == dx_buff[R]
           o == Origin(program, d.pc)
           c == Decoded(o, Regs)
           alu == getAluInputRegisters(d.inst)
           fw == config.Forwarding_enabled
           x == xm_buff[R].inst
           y == mw_buff[R].inst
<1>1. ToMemory = xm_buff[W] /\ ~ToMemory.valid /\ ToExecute = d
  BY DEF ToMemory, ToExecute, Base, Sides
<1>2. RegsAfterMemory = Regs /\ PcAfterMemory = PcAfterCommitted
  BY <1>1 DEF RegsAfterMemory, PcAfterMemory, WrittenBack, After
<1>3. /\ FromProgram(program, d) /\ d.pc = PcAfterCommitted
      /\ Operands(program, Regs, fw, x, y, ToMemory, d)
  BY <1>1, <1>2 DEF ExecuteReady, Ready, BypassX, BypassY
<1>4. d \in Pipeline_Buffer
  BY InFlightType DEF Base
<1>5. o \in Instruction /\ SameOperation(d.inst, o) /\ o.result = 0
  BY <1>3, <1>4, OriginIs DEF Base
<1>6. /\ c.op = o.op /\ c.Rd = o.Rd /\ c.Rs1 = o.Rs1 /\ c.Rs2 = o.Rs2
      /\ c.result = 0
  BY <1>5, DecodedFields
<1>7. /\ Executed \in Instruction /\ SameOperation(Executed, d.inst)
      /\ Executed.imm = d.inst.imm /\ Executed.result = d.inst.result
      /\ Executed.remaining = d.inst.remaining - 1
      /\ Executed.s1 = (IF Latched(d.inst) THEN d.inst.s1
                        ELSE Supplied(fw, x, y, alu[1], d.inst.s1))
      /\ Executed.s2 = (IF Latched(d.inst) THEN d.inst.s2
                        ELSE Supplied(fw, x, y, alu[2], d.inst.s2))
  BY ExecutedFields DEF Base
<1>8. /\ d.inst.imm = c.imm /\ d.inst.result = 0 /\ d.inst.remaining <= ExTotal(d.inst)
      /\ Latched(d.inst) => d.inst.s1 = c.s1 /\ d.inst.s2 = c.s2
      /\ ~Latched(d.inst) => /\ Supplied(fw, x, y, alu[1], d.inst.s1) = c.s1
                             /\ Supplied(fw, x, y, alu[2], d.inst.s2) = c.s2
  BY <1>3 DEF Operands
<1>9. ExTotal(Executed) = ExTotal(d.inst) /\ ExTotal(Executed) \in {1, 3}
  BY <1>7, SameFormat DEF ExTotal
<1>10. d.inst.remaining \in 0 .. 3
  BY <1>4, BufferFields
<1>11. Latched(Executed) /\ Executed.remaining <= ExTotal(Executed)
  BY <1>7, <1>8, <1>9, <1>10 DEF Latched
<1> HIDE DEF o, c, alu, fw, x, y
<1>12. Executed.s1 = c.s1 /\ Executed.s2 = c.s2 /\ Executed.imm = c.imm
  BY <1>7, <1>8
<1>13. Executed.op = c.op /\ SameOperation(Executed, o)
  BY <1>5, <1>6, <1>7 DEF SameOperation
<1> QED BY <1>3, <1>6, <1>7, <1>8, <1>11, <1>12, <1>13 DEF o, c, d

\* An instruction that goes straight on does so whatever its operands are.
LEMMA ExecutedNext ==
  ASSUME Base, ExecuteReady, phase = "execute", dx_buff[R].valid,
         ~isConditionalBranch(dx_buff[R].inst)
  PROVE  NextPc(Executed, dx_buff[R].pc) = NextPc(dx_buff[R].inst, dx_buff[R].pc)
<1>1. SameOperation(Executed, dx_buff[R].inst) /\ Executed.imm = dx_buff[R].inst.imm
  BY ExecutedReady
<1>2. dx_buff[R].inst.op # "jalr"
  BY DEF Base, SInv, NoJalr, Straight
<1>3. Executed.op # "jalr" /\ ~isConditionalBranch(Executed)
  BY <1>1, <1>2, SameFormat DEF SameOperation
<1> QED BY <1>1, <1>3, DirectNext DEF SameOperation

LEMMA ExecuteCycleOrder == ASSUME Base, InOrder, RunExecuteCycle PROVE InOrder'
<1>1. Regs' = Regs /\ PcAfterCommitted' = PcAfterCommitted
  BY StepRegs DEF Base, ShInv, Next, Step, RunExecuteCycle, RunMemory
<1>2. /\ ToMemory' = ToMemory /\ ~ToMemory.valid
      /\ ToExecute = dx_buff[R] /\ ToExecute.valid
      /\ ToExecute' = [pc |-> ToExecute.pc, inst |-> Executed, valid |-> TRUE]
      /\ ToDecode' = ToDecode
      /\ Signalled = NoSignal /\ Signalled'.flags = {}
      /\ phase = "execute" /\ phase' = "decode"
      /\ UNCHANGED setup /\ Bp' = Bp /\ Pc' = Pc /\ halt' = halt
  BY ExecuteCycleViews DEF Base, ShInv, RunExecuteCycle
<1>3. program' = program /\ config' = config /\ max_counter' = max_counter
  BY <1>2 DEF setup, max_counter
<1>4. ~Mispredicted /\ ~Redirected /\ ~Mispredicted' /\ ~Redirected'
  BY <1>2 DEF Mispredicted, Redirected, NoSignal
<1>5. MemoryReady /\ ExecuteReady /\ DecodeReady /\ Path /\ (halt => ~ToDecode.valid)
  BY <1>4 DEF InOrder
<1> DEFINE d == dx_buff[R]
           o == Origin(program, d.pc)
           c == Decoded(o, Regs)
<1>6. /\ FromProgram(program, d) /\ d.pc = PcAfterCommitted
      /\ Executed \in Instruction /\ SameOperation(Executed, o)
      /\ Executed.op = c.op /\ Executed.imm = c.imm
      /\ Executed.s1 = c.s1 /\ Executed.s2 = c.s2
      /\ Executed.result = 0
      /\ SameOperation(Executed, d.inst)
      /\ Latched(Executed) /\ Executed.remaining <= ExTotal(Executed)
  BY <1>2, <1>5, ExecutedReady
<1>7. /\ RegsAfterMemory' = Regs /\ PcAfterMemory' = PcAfterCommitted
      /\ PcAfterMemory = PcAfterCommitted
  BY <1>1, <1>2 DEF RegsAfterMemory, PcAfterMemory, WrittenBack, After
<1>8. ExecuteReady'
  <2>1. FromProgram(program, ToExecute')
    BY <1>2, <1>6 DEF FromProgram, SameOperation
  <2>2. \A fw, x, y : Operands(program, Regs, fw, x, y, ToMemory', ToExecute')
    <3> HIDE DEF o, c
    <3>1. Decoded(Origin(program, ToExecute'.pc), Regs) = c
      BY <1>2 DEF o, c
    <3> QED BY <1>2, <1>6, <3>1 DEF Operands
  <2> QED BY <1>2, <1>3, <1>6, <1>7, <2>1, <2>2 DEF ExecuteReady, Ready
<1>9. isConditionalBranch(Executed) <=> isConditionalBranch(d.inst)
  BY <1>6, SameFormat
<1>10. PcAfterExecute' = PcAfterExecute
  <2>1. ~isConditionalBranch(d.inst) => NextPc(Executed, d.pc) = NextPc(d.inst, d.pc)
    BY <1>2, <1>5, ExecutedNext
  <2> QED BY <1>2, <1>3, <1>9, <2>1 DEF PcAfterExecute, AfterDecoded
<1>11. DecodeReady' /\ PcAfterDecode' = PcAfterDecode
  BY <1>2, <1>3, <1>5, <1>10 DEF DecodeReady, PcAfterDecode
<1>12. MemoryReady'
  BY <1>2 DEF MemoryReady, Done
<1>13. Waiting' <=> Waiting
  BY <1>2, <1>3, <1>9 DEF Waiting, Branch
<1>14. AtEnd' <=> AtEnd
  BY <1>2, <1>3 DEF AtEnd, Fetched, Program_size
<1>15. Path'
  BY <1>2, <1>4, <1>5, <1>11, <1>13, <1>14 DEF Path
<1> QED BY <1>2, <1>4, <1>5, <1>8, <1>11, <1>12, <1>15 DEF InOrder

\* A prediction that update finds correct is the way execute goes on.
LEMMA CorrectGuess ==
  ASSUME NEW bp \in Bps, NEW max \in Nat, NEW inst, NEW pc \in Nat,
         UpdateCorrect(bp, max, pc, BranchTarget(inst, pc), Taken(inst))
  PROVE  /\ GuessedBy(bp, max, pc) = NextPc(inst, pc)
         /\ Taken(inst) => /\ Hit(bp, pc)
                           /\ bp[BpIndex(pc)].counter >= Threshold(max)
                           /\ bp[BpIndex(pc)].target = BranchTarget(inst, pc)
<1> DEFINE entry == bp[BpIndex(pc)]
           target == BranchTarget(inst, pc)
<1>1. entry \in Bp_Entry /\ entry.counter \in Nat
  BY BpIndexType DEF Bps, Bp_Entry
<1>2. Threshold(max) \in Nat /\ Threshold(max) >= 1
  BY DEF Threshold
<1>3. Taken(inst) \in BOOLEAN
  BY TakenType
<1>4. CASE Hit(bp, pc)
  <2>1. Claimed(entry, pc) = entry
    BY <1>4 DEF Hit, Claimed
  <2>2. (entry.counter >= Threshold(max)) = Taken(inst) /\ entry.target = target
    BY <2>1 DEF UpdateCorrect
  <2>3. predict(bp, max, pc) = [taken |-> entry.counter >= Threshold(max),
                                target |-> entry.target]
    BY <1>4 DEF predict
  <2> HIDE DEF entry, target
  <2>4. predict(bp, max, pc).taken = Taken(inst) /\ predict(bp, max, pc).target = target
    BY <2>2, <2>3
  <2> QED BY <1>3, <1>4, <2>2, <2>4 DEF GuessedBy, NextPc, target, entry
<1>5. CASE ~Hit(bp, pc)
  <2>1. Claimed(entry, pc).counter = 0
    BY <1>1, <1>5 DEF Hit, Claimed, Bp_Entry
  <2>2. (0 >= Threshold(max)) = Taken(inst)
    BY <2>1 DEF UpdateCorrect
  <2>3. ~Taken(inst)
    <3>1. ~(0 >= Threshold(max))
      BY <1>2
    <3> QED BY <1>3, <2>2, <3>1, Zenon
  <2>4. ~predict(bp, max, pc).taken
    BY <1>5 DEF predict
  <2> QED BY <2>3, <2>4 DEF GuessedBy, NextPc
<1> QED BY <1>4, <1>5

\* Training the entry of pc leaves every other slot alone.
LEMMA OtherSlot ==
  ASSUME NEW bp \in Bps, NEW max \in Nat, NEW pc \in Nat, NEW target, NEW taken,
         NEW f \in Nat, BpIndex(f) # BpIndex(pc)
  PROVE  GuessedBy(update(bp, max, pc, target, taken), max, f) = GuessedBy(bp, max, f)
<1> DEFINE bp2 == update(bp, max, pc, target, taken)
<1>1. bp2[BpIndex(f)] = bp[BpIndex(f)]
  BY BpIndexType DEF update, Bps
<1> HIDE DEF bp2
<1>2. predict(bp2, max, f) = predict(bp, max, f)
  BY <1>1 DEF predict, Hit
<1> QED BY <1>2 DEF GuessedBy, bp2

\* Training does not change the prediction of the instruction that was
\* fetched behind a correctly predicted branch.
LEMMA GuessStable ==
  ASSUME NEW bp \in Bps, NEW max \in Nat, NEW inst, NEW pc \in Nat,
         BpIndex(Uint32(pc + 4)) # BpIndex(pc), NextPc(inst, pc) \in Nat,
         UpdateCorrect(bp, max, pc, BranchTarget(inst, pc), Taken(inst))
  PROVE  GuessedBy(update(bp, max, pc, BranchTarget(inst, pc), Taken(inst)), max,
                   NextPc(inst, pc))
           = GuessedBy(bp, max, NextPc(inst, pc))
<1> DEFINE target == BranchTarget(inst, pc)
           f      == NextPc(inst, pc)
           bp2    == update(bp, max, pc, target, Taken(inst))
           i      == BpIndex(pc)
<1>1. CASE BpIndex(f) # i
  BY <1>1, OtherSlot
<1>2. CASE BpIndex(f) = i
  <2>1. Taken(inst) = TRUE
    BY <1>2, TakenType DEF NextPc
  <2>2. /\ Hit(bp, pc) /\ bp[i].counter >= Threshold(max) /\ bp[i].target = target
    BY <2>1, CorrectGuess
  <2>3. i \in Slots /\ bp[i] \in Bp_Entry
    BY BpIndexType DEF Bps
  <2>4. Claimed(bp[i], pc) = bp[i]
    BY <2>2 DEF Hit, Claimed
  <2>5. bp2[i] = [bp[i] EXCEPT !.counter = Moved(bp[i].counter, max, TRUE), !.target = target]
    BY <2>1, <2>3, <2>4 DEF update, Bps
  <2>6. /\ Moved(bp[i].counter, max, TRUE) >= Threshold(max)
    BY <2>2, <2>3 DEF Moved, Bp_Entry, Threshold
  <2> HIDE DEF i
  <2>7. /\ bp2[i].valid = bp[i].valid /\ bp2[i].tag = bp[i].tag
        /\ bp2[i].target = target /\ bp2[i].counter >= Threshold(max)
    BY <2>3, <2>5, <2>6 DEF Bp_Entry
  <2> HIDE DEF bp2, target
  <2>8. Hit(bp2, f) <=> Hit(bp, f)
    BY <1>2, <2>7 DEF Hit
  <2>9. GuessedBy(bp2, max, f) = GuessedBy(bp, max, f)
    <3>1. CASE Hit(bp, f)
      BY <1>2, <2>2, <2>7, <2>8, <3>1 DEF GuessedBy, predict
    <3>2. CASE ~Hit(bp, f)
      BY <2>8, <3>2 DEF GuessedBy, predict
    <3> QED BY <3>1, <3>2
  <2> QED BY <2>9 DEF bp2, target
<1> QED BY <1>1, <1>2

\* What execute hands on, and what is behind it when it does not redirect.
LEMMA ExecuteParts ==
  ASSUME Base, InOrder, RunExecute
  PROVE  LET next == NextPc(Executed, dx_buff[R].pc) IN
         /\ Signalled = NoSignal /\ ExecuteReady /\ DecodeReady /\ Path
         /\ MemoryReady' /\ ExecuteReady' /\ (halt' => ~ToDecode'.valid)
         /\ PcAfterMemory' = next /\ PcAfterExecute' = next
         /\ PcAfterMemory = PcAfterCommitted
         /\ isConditionalBranch(Executed) <=> isConditionalBranch(dx_buff[R].inst)
         /\ ~isConditionalBranch(Executed) =>
              NextPc(dx_buff[R].inst, dx_buff[R].pc) = next
<1> DEFINE d == dx_buff[R]
           o == Origin(program, d.pc)
           c == Decoded(o, Regs)
           next == NextPc(Executed, d.pc)
           result == Result(Executed, d.pc)
<1>1. Regs' = Regs /\ PcAfterCommitted' = PcAfterCommitted
  BY StepRegs DEF Base, ShInv, Next, Step, RunExecute, RunMemory
<1>2. /\ ~ToMemory.valid
      /\ ToMemory' = [pc |-> d.pc, valid |-> TRUE,
                      inst |-> [Executed EXCEPT !.result = result]]
      /\ ToExecute = d /\ ToExecute.valid /\ ~ToExecute'.valid
      /\ ToDecode' = ToDecode /\ Signalled = NoSignal
  BY ExecuteViews DEF Base, ShInv
<1>3. /\ phase = "execute" /\ ~Panics(Executed) /\ d.valid
      /\ UNCHANGED setup /\ Pc' = Pc /\ halt' = halt
  BY DEF RunExecute
<1>4. program' = program /\ config' = config /\ max_counter' = max_counter
  BY <1>3 DEF setup, max_counter
<1>5. ExecuteReady /\ DecodeReady /\ Path /\ (halt => ~ToDecode.valid)
  BY <1>2 DEF InOrder, Mispredicted, NoSignal
<1>6. /\ FromProgram(program, d) /\ d.pc = PcAfterCommitted
      /\ Executed \in Instruction /\ SameOperation(Executed, o)
      /\ Executed.op = c.op /\ Executed.imm = c.imm
      /\ Executed.s1 = c.s1 /\ Executed.s2 = c.s2
      /\ Executed.result = c.result
      /\ SameOperation(Executed, d.inst)
  BY <1>3, <1>5, ExecutedReady
<1> HIDE DEF result
<1>7. LET i == ToMemory'.inst IN
      /\ SameOperation(i, Executed) /\ i.result = result
      /\ i.s1 = Executed.s1 /\ i.s2 = Executed.s2 /\ i.imm = Executed.imm
  BY <1>2, <1>6 DEF Instruction, SameOperation
<1>8. PcAfterMemory' = next
  <2>1. NextPc(ToMemory'.inst, d.pc) = next
    BY <1>7, SameMeaning DEF SameOperation
  <2> QED BY <1>2, <2>1 DEF PcAfterMemory, After
<1>9. PcAfterExecute' = next
  BY <1>2, <1>8 DEF PcAfterExecute, AfterDecoded
<1>10. result = Result(c, d.pc) /\ ~Panics(c)
  BY <1>3, <1>6, SameMeaning DEF result
<1>11. MemoryReady'
  <2>1. FromProgram(program, ToMemory')
    <3> HIDE DEF o
    <3>1. Origin(program, ToMemory'.pc) = o /\ FromProgram(program, d)
      BY <1>2, <1>6 DEF o
    <3> QED BY <1>2, <1>6, <1>7, <3>1 DEF FromProgram, SameOperation
  <2>2. Done(program, Regs, PcAfterCommitted, ToMemory')
    <3> HIDE DEF c, o
    <3>1. Decoded(Origin(program, ToMemory'.pc), Regs) = c
      BY <1>2 DEF c, o
    <3> QED BY <1>2, <1>6, <1>7, <1>10, <2>1, <3>1 DEF Done
  <2> QED BY <1>1, <1>4, <2>2 DEF MemoryReady
<1>12. ExecuteReady'
  BY <1>2 DEF ExecuteReady, Ready
<1>13. isConditionalBranch(Executed) <=> isConditionalBranch(d.inst)
  BY <1>6, SameFormat
<1>14. ~isConditionalBranch(Executed) => NextPc(d.inst, d.pc) = next
  BY <1>3, <1>5, <1>13, ExecutedNext
<1>15. PcAfterMemory = PcAfterCommitted
  BY <1>2 DEF PcAfterMemory, After
<1> QED BY <1>2, <1>3, <1>5, <1>8, <1>9, <1>11, <1>12, <1>13, <1>14, <1>15

LEMMA ExecuteOrder ==
  ASSUME Base, SeparateSlots, InOrder, RunExecute PROVE InOrder'
<1> DEFINE d      == dx_buff[R]
           next   == NextPc(Executed, d.pc)
           target == BranchTarget(Executed, d.pc)
<1>1. /\ Signalled = NoSignal /\ ExecuteReady /\ DecodeReady /\ Path
      /\ MemoryReady' /\ ExecuteReady' /\ (halt' => ~ToDecode'.valid)
      /\ PcAfterMemory' = next /\ PcAfterExecute' = next
      /\ PcAfterMemory = PcAfterCommitted
      /\ isConditionalBranch(Executed) <=> isConditionalBranch(d.inst)
      /\ ~isConditionalBranch(Executed) => NextPc(d.inst, d.pc) = next
  BY ExecuteParts
<1>2. /\ ToExecute = d /\ ToExecute.valid /\ ~ToExecute'.valid
      /\ ToDecode' = ToDecode
      /\ Signalled' = control_buff'[W] /\ control_buff[W].flags = {}
  BY ExecuteViews DEF Base, ShInv
<1>3. UNCHANGED setup /\ Pc' = Pc /\ halt' = halt
  BY DEF RunExecute
<1>4. program' = program /\ config' = config /\ max_counter' = max_counter
  BY <1>3 DEF setup, max_counter
<1>5. AtEnd' <=> AtEnd
  BY <1>3, <1>4 DEF AtEnd, Fetched, Program_size
<1>6. control_buff \in [{W, R} -> Control_Buffer]
  BY DEF Base, IInv, Core
<1>7. /\ ~isConditionalBranch(Executed) => UNCHANGED <<control_buff, Bp>>
      /\ isConditionalBranch(Executed) =>
           ResolveBranch(Executed, d.pc, target, Taken(Executed))
  BY ExecuteAnswers DEF Base, SInv
<1>8. ~Mispredicted /\ ~Redirected
  BY <1>1 DEF Mispredicted, Redirected, NoSignal
<1> HIDE DEF next, target
<1>9. CASE ~isConditionalBranch(Executed)
  <2>1. control_buff' = control_buff /\ Bp' = Bp
    BY <1>7, <1>9
  <2>2. ~Mispredicted' /\ ~Redirected'
    BY <1>2, <2>1 DEF Mispredicted, Redirected
  <2>3. PcAfterExecute = next
    BY <1>1, <1>2, <1>9 DEF PcAfterExecute, AfterDecoded
  <2>4. DecodeReady'
    BY <1>1, <1>2, <1>4, <2>3 DEF DecodeReady
  <2>5. PcAfterDecode' = PcAfterDecode
    BY <1>1, <1>2, <1>4, <2>1, <2>3 DEF PcAfterDecode
  <2>6. Waiting' <=> Waiting
    BY <1>1, <1>2, <1>4, <1>9 DEF Waiting, Branch
  <2>7. Path'
    BY <1>1, <1>3, <1>5, <1>8, <2>2, <2>5, <2>6 DEF Path
  <2> QED BY <1>1, <2>2, <2>4, <2>7 DEF InOrder
<1>10. CASE isConditionalBranch(Executed) /\ ~config.Bp_enabled
  <2>1. Signal(next, {"BRANCH"})
    BY <1>7, <1>10 DEF ResolveBranch, next
  <2>2. Signalled' = [branch_target |-> next, flags |-> {"BRANCH"}]
    BY <1>2, <1>6, <2>1, SignalIs
  <2>3. ~Mispredicted' /\ Redirected'
    BY <2>2 DEF Mispredicted, Redirected
  <2>4. ~ToDecode'.valid /\ ~halt'
    <3>1. Branch(ToExecute)
      BY <1>1, <1>2, <1>10 DEF Branch
    <3>2. Waiting
      BY <1>10, <3>1 DEF Waiting
    <3> QED BY <1>1, <1>2, <1>3, <1>10, <3>1, <3>2 DEF Base, ShInv, Blocked, Path
  <2>5. DecodeReady'
    BY <2>4 DEF DecodeReady, AsFetched
  <2>6. PcAfterDecode' = next
    BY <1>1, <2>4 DEF PcAfterDecode, AfterFetched
  <2>7. Path'
    BY <2>2, <2>3, <2>4, <2>6 DEF Path
  <2> QED BY <1>1, <2>3, <2>5, <2>7 DEF InOrder
<1>11. CASE /\ isConditionalBranch(Executed) /\ config.Bp_enabled
            /\ UpdateCorrect(Bp, max_counter, d.pc, target, Taken(Executed))
  <2>1. control_buff' = control_buff
    BY <1>7, <1>11 DEF ResolveBranch
  <2>2. Bp' = update(Bp, max_counter, d.pc, target, Taken(Executed))
    BY <1>7, <1>11 DEF ResolveBranch, Learn
  <2>3. ~Mispredicted' /\ ~Redirected' /\ ~Waiting' /\ ~Waiting
    BY <1>2, <1>4, <1>11, <2>1 DEF Mispredicted, Redirected, Waiting
  <2>4. Bp \in Bps /\ max_counter \in Nat /\ d.pc \in Nat /\ d.pc \in Addr /\ next \in Nat
    <3>1. Executed \in Instruction /\ d.pc \in Addr
      BY ExecutedType DEF RunExecute, SameAs, Base, IInv
    <3>2. next \in Addr
      BY <3>1, BranchTargetType DEF next
    <3> QED BY <3>1, <3>2, ConfigsAssumption, WordModPositive
            DEF Base, IInv, Core, Bps, Addr, max_counter
  <2>5. GuessedBy(Bp, max_counter, d.pc) = next
    BY <1>11, <2>4, CorrectGuess DEF next, target
  <2>6. GuessedBy(Bp', max_counter, next) = GuessedBy(Bp, max_counter, next)
    BY <1>11, <2>2, <2>4, GuessStable DEF SeparateSlots, next, target
  <2>7. PcAfterExecute = next
    BY <1>1, <1>2, <1>11, <2>5 DEF PcAfterExecute, AfterDecoded
  <2>8. DecodeReady'
    BY <1>1, <1>2, <1>4, <2>7 DEF DecodeReady
  <2>9. PcAfterDecode' = PcAfterDecode
    <3>1. ToDecode.valid => ToDecode.pc = next
      BY <1>1, <2>7 DEF DecodeReady, AsFetched
    <3> QED BY <1>1, <1>2, <1>4, <2>6, <2>7, <3>1 DEF PcAfterDecode, AfterFetched
  <2>10. Path'
    BY <1>1, <1>3, <1>5, <1>8, <2>3, <2>9 DEF Path
  <2> QED BY <1>1, <2>3, <2>8, <2>10 DEF InOrder
<1>12. CASE /\ isConditionalBranch(Executed) /\ config.Bp_enabled
            /\ ~UpdateCorrect(Bp, max_counter, d.pc, target, Taken(Executed))
  <2>1. Signal(next, {"BRANCH", "FLUSH"})
    BY <1>7, <1>12 DEF ResolveBranch, next
  <2>2. Signalled' = [branch_target |-> next, flags |-> {"BRANCH", "FLUSH"}]
    BY <1>2, <1>6, <2>1, SignalIs
  <2>3. Mispredicted'
    BY <2>2 DEF Mispredicted
  <2> QED BY <1>1, <2>2, <2>3 DEF InOrder
<1> QED BY <1>9, <1>10, <1>11, <1>12
----------------------------------------------------------------------------
(* Decode: the registers, or a promise that bypass will have the value.    *)

\* Where the registers stand when decode reads them.
LEMMA DecodeReads ==
  ASSUME Base, RunDecode
  PROVE  /\ ToMemory = xm_buff[W] /\ ToExecute = dx_buff[W] /\ ToDecode = fd_buff[R]
         /\ ~dx_buff[W].valid
         /\ Regs = WrittenBack(RegData, mw_buff[W])
         /\ RegsAfterMemory = WrittenBack(Regs, xm_buff[W])
         /\ Held(mw_buff[R].inst)
         /\ ~mw_buff[W].valid => mw_buff[W].inst = mw_buff[R].inst
         /\ ~xm_buff[W].valid => SameValue(xm_buff[W].inst, mw_buff[W].inst)
         /\ SameValue(xm_buff[R].inst, mw_buff[W].inst)
         /\ \A r \in Reg : RegBusy[r] = Holds(xm_buff[W], r) + Holds(mw_buff[W], r)
<1>1. phase = "decode" /\ ~dx_buff[W].valid
  BY DEF RunDecode, shouldStallDecode
<1>2. /\ ToMemory = xm_buff[W] /\ ToExecute = dx_buff[W] /\ ToDecode = fd_buff[R]
  BY <1>1 DEF ToMemory, ToExecute, ToDecode
<1>3. Held(mw_buff[R].inst)
  BY <1>1 DEF Base, ShInv, Stored
<1>4. WrittenBack(RegData, mw_buff[R]) = RegData
  BY <1>3, HeldIs, InFlightType DEF Base, IInv, Core
<1>5. /\ ~mw_buff[W].valid => mw_buff[W].inst = mw_buff[R].inst
      /\ ~xm_buff[W].valid => SameValue(xm_buff[W].inst, mw_buff[W].inst)
      /\ SameValue(xm_buff[R].inst, mw_buff[W].inst)
  BY <1>1, <1>2 DEF Base, ShInv, Twins, Shadows
<1>6. ASSUME NEW r \in Reg
      PROVE  RegBusy[r] = Holds(xm_buff[W], r) + Holds(mw_buff[W], r)
  <2>1. Holds(dx_buff[W], r) = 0
    BY <1>1 DEF Holds
  <2>2. RegBusy[r] = Holds(dx_buff[W], r) + Holds(xm_buff[W], r) + Holds(mw_buff[W], r)
    BY <1>1 DEF Base, SInv, Exact, PendingWriters
  <2> QED BY <2>1, <2>2, HoldsType
<1> QED BY <1>1, <1>2, <1>3, <1>4, <1>5, <1>6 DEF Regs, RegsAfterMemory

\* Decode has not passed a load that is about to enter memory.
LEMMA NoLoadAhead ==
  ASSUME Base, RunDecode, ~LoadShadow, xm_buff[W].valid, isLoad(xm_buff[W].inst),
         xm_buff[W].inst.Rd # 0
  PROVE  LET rs == getSourceRegisters(fd_buff[R].inst) IN
         xm_buff[W].inst.Rd # rs[1] /\ xm_buff[W].inst.Rd # rs[2]
<1>1. phase = "decode" /\ ~dx_buff[W].valid /\ fd_buff[R].valid
      /\ ~shouldStallDecode(fd_buff[R].inst)
  BY DEF RunDecode, shouldStallDecode
<1>2. dx_buff[R].valid
  BY <1>1 DEF Base, ShInv, Shadows
<1>3. dx_buff[R].inst.op = xm_buff[W].inst.op /\ dx_buff[R].inst.Rd = xm_buff[W].inst.Rd
  BY <1>1, <1>2 DEF Base, AInv, Passed
<1> QED BY <1>1, <1>2, <1>3 DEF LoadShadow, isLoad

\* The value that execute will take is the one the register is going to have.
LEMMA Supplies ==
  ASSUME Base, RunDecode, NEW reg \in Reg, reg # 0,
         RegBusy[reg] > 0 => checkRegisterForwardDecode(reg),
         xm_buff[W].valid /\ isLoad(xm_buff[W].inst) => xm_buff[W].inst.Rd # reg
  PROVE  /\ Supplied(config.Forwarding_enabled, xm_buff[W].inst, mw_buff[W].inst,
                     reg, RegData[reg])
              = RegsAfterMemory[reg]
         /\ RegBusy[reg] <= 0 => RegsAfterMemory[reg] = RegData[reg]
<1> DEFINE x == xm_buff[W]
           y == mw_buff[W]
           Writer(b) == b.valid /\ WritesRd(b.inst) /\ b.inst.Rd = reg
<1>0. /\ reg \in Int /\ reg > 0 /\ ~(reg <= 0) /\ RegData \in [Reg -> Word]
      /\ config.Forwarding_enabled \in BOOLEAN
      /\ x \in Pipeline_Buffer /\ y \in Pipeline_Buffer
      /\ RegBusy[reg] \in Int
  BY InFlightType, NumRegsAssumption, ConfigsAssumption DEF Base, IInv, Core, Reg, Config
<1>1. /\ ToMemory = x /\ ToExecute = dx_buff[W] /\ ~dx_buff[W].valid
      /\ Regs = WrittenBack(RegData, y) /\ RegsAfterMemory = WrittenBack(Regs, x)
      /\ Held(mw_buff[R].inst)
      /\ ~y.valid => y.inst = mw_buff[R].inst
      /\ ~x.valid => SameValue(x.inst, y.inst)
      /\ SameValue(xm_buff[R].inst, y.inst)
      /\ RegBusy[reg] = Holds(x, reg) + Holds(y, reg)
  BY DecodeReads
<1>2. Regs[reg] = IF Writer(y) THEN y.inst.result ELSE RegData[reg]
  BY <1>0, <1>1 DEF WrittenBack, Pipeline_Buffer, Instruction
<1>3. RegsAfterMemory[reg] = IF Writer(x) THEN x.inst.result ELSE Regs[reg]
  <2>1. Regs \in [Reg -> Word]
    BY ViewTypes DEF Base
  <2> QED BY <1>0, <1>1, <2>1 DEF WrittenBack, Pipeline_Buffer, Instruction
<1>4. RegBusy[reg] > 0 <=> Writer(x) \/ Writer(y)
  BY <1>1 DEF Holds
<1>5. Forwards(x.inst, reg) /\ ~Writer(x) => Forwards(y.inst, reg) /\ y.inst.result = x.inst.result
  BY <1>1 DEF Forwards, SameValue, Alike, isLoad, WritesRd, Fmt_R, Fmt_I, Fmt_U, Fmt_J
<1>6. Forwards(y.inst, reg) /\ ~Writer(y) => y.inst.result = RegData[reg]
  <2> SUFFICES ASSUME Forwards(y.inst, reg), ~Writer(y) PROVE y.inst.result = RegData[reg]
    OBVIOUS
  <2>1. y.inst = mw_buff[R].inst
    BY <1>1 DEF Forwards
  <2> QED BY <1>0, <1>1, <2>1 DEF Held, Forwards
<1>7. CASE ~(RegBusy[reg] > 0)
  <2>1. ~Writer(x) /\ ~Writer(y)
    BY <1>4, <1>7
  <2>2. RegsAfterMemory[reg] = RegData[reg]
    BY <1>2, <1>3, <2>1
  <2>3. /\ Forwards(x.inst, reg) => x.inst.result = RegData[reg]
        /\ Forwards(y.inst, reg) => y.inst.result = RegData[reg]
    BY <1>5, <1>6, <2>1
  <2> QED BY <2>2, <2>3 DEF Supplied
<1>8. CASE RegBusy[reg] > 0
  <2>1. config.Forwarding_enabled /\ (Forwards(dx_buff[R].inst, reg) \/ Forwards(xm_buff[R].inst, reg))
    BY <1>0, <1>8 DEF checkRegisterForwardDecode
  <2>2. Writer(x) => Forwards(x.inst, reg)
    BY DEF Forwards
  <2>3. Forwards(x.inst, reg) \/ Forwards(y.inst, reg)
    <3>1. CASE Forwards(xm_buff[R].inst, reg)
      BY <1>1, <3>1 DEF Forwards, SameValue, Alike, isLoad, WritesRd, Fmt_R, Fmt_I, Fmt_U, Fmt_J
    <3>2. CASE Forwards(dx_buff[R].inst, reg)
      <4>1. dx_buff[W].inst = dx_buff[R].inst
        BY <1>1 DEF Base, ShInv, Twins
      <4>2. Alike(dx_buff[R].inst, x.inst)
        <5>1. Writing(x) \/ Writing(y)
          BY <1>4, <1>8 DEF Writing
        <5> QED BY <1>1, <4>1, <5>1 DEF Base, ShInv, Shadows
      <4> QED BY <3>2, <4>2 DEF Forwards, Alike, isLoad, WritesRd, Fmt_R, Fmt_I, Fmt_U, Fmt_J
    <3> QED BY <2>1, <3>1, <3>2
  <2>4. CASE Writer(x)
    BY <1>0, <1>3, <1>8, <2>1, <2>2, <2>4 DEF Supplied
  <2>5. CASE ~Writer(x)
    <3>1. Writer(y) /\ RegsAfterMemory[reg] = y.inst.result
      BY <1>2, <1>3, <1>4, <1>8, <2>5
    <3>2. Forwards(x.inst, reg) => x.inst.result = y.inst.result
      BY <1>5, <2>5
    <3> QED BY <1>0, <1>8, <2>1, <2>3, <3>1, <3>2 DEF Supplied
  <2> QED BY <1>8, <2>4, <2>5
<1> QED BY <1>7, <1>8

\* Nothing is written to register 0.
LEMMA ZeroStays ==
  ASSUME Base, RunDecode
  PROVE  RegsAfterMemory[0] = RegData[0]
<1>1. 0 \in Reg
  BY NumRegsAssumption DEF Reg, SP
<1>2. RegData \in [Reg -> Word] /\ Regs \in [Reg -> Word]
  BY ViewTypes DEF Base, IInv, Core
<1>3. xm_buff[W] \in Pipeline_Buffer /\ mw_buff[W] \in Pipeline_Buffer
  BY InFlightType DEF Base
<1>4. Regs = WrittenBack(RegData, mw_buff[W]) /\ RegsAfterMemory = WrittenBack(Regs, xm_buff[W])
  BY DecodeReads
<1>5. \A regs \in [Reg -> Word] : \A b \in Pipeline_Buffer :
         WrittenBack(regs, b)[0] = regs[0]
  BY <1>1, BufferFields DEF WrittenBack
<1> QED BY <1>2, <1>3, <1>4, <1>5

\* The ALU inputs are the source registers, but for the datum of a store.
LEMMA AluInputs ==
  ASSUME NEW inst
  PROVE  LET rs  == getSourceRegisters(inst)
             alu == getAluInputRegisters(inst)
         IN  /\ alu[2] = rs[2]
             /\ isStore(inst) => alu[1] = -1
             /\ ~isStore(inst) => alu[1] = rs[1]
<1>1. CASE Fmt_S(inst)
  BY <1>1, FormatsDisjoint DEF getSourceRegisters, getAluInputRegisters, isStore, Fmt_S
<1>2. CASE ~Fmt_S(inst)
  BY <1>2 DEF getAluInputRegisters, isStore, Fmt_S
<1> QED BY <1>1, <1>2

LEMMA DecodeOperands ==
  ASSUME Base, RunDecode, ~LoadShadow, NEW pc, AsFetched(program, pc, fd_buff[R])
  PROVE  LET f == fd_buff[R]
             d == [pc |-> f.pc, inst |-> Decoded(f.inst, RegData), valid |-> TRUE]
         IN  /\ FromProgram(program, d)
             /\ SameOperation(d.inst, f.inst) /\ d.inst.imm = Immediate(f.inst)
             /\ Operands(program, RegsAfterMemory, config.Forwarding_enabled,
                         xm_buff[W].inst, mw_buff[W].inst, xm_buff[W], d)
<1> DEFINE f    == fd_buff[R]
           inst == f.inst
           o    == Origin(program, f.pc)
           c    == Decoded(o, RegsAfterMemory)
           i    == Decoded(inst, RegData)
           d    == [pc |-> f.pc, inst |-> i, valid |-> TRUE]
           rs   == getSourceRegisters(inst)
           alu  == getAluInputRegisters(inst)
           fw   == config.Forwarding_enabled
           x    == xm_buff[W].inst
           y    == mw_buff[W].inst
<1>1. f.valid /\ f \in Pipeline_Buffer
  BY InFlightType DEF RunDecode, Base
<1>2. FromProgram(program, f) /\ inst = [o EXCEPT !.remaining = ExTotal(o)]
  BY <1>1 DEF AsFetched
<1>3. /\ o \in Instruction /\ SameOperation(inst, o)
      /\ o.s1 = 0 /\ o.s2 = 0 /\ o.imm = 0 /\ o.result = 0
  BY <1>1, <1>2, OriginIs DEF Base
<1>4. inst \in Instruction
  BY <1>1, BufferFields
<1>5. /\ inst.s1 = 0 /\ inst.s2 = 0 /\ inst.imm = 0 /\ inst.result = 0
      /\ inst.remaining = ExTotal(o)
  <2> HIDE DEF o, inst
  <2> QED BY <1>2, <1>3 DEF Instruction
<1>6. /\ i.op = inst.op /\ i.Rd = inst.Rd /\ i.Rs1 = inst.Rs1 /\ i.Rs2 = inst.Rs2
      /\ i.result = 0 /\ i.remaining = ExTotal(o)
      /\ rs[1] \in Reg \cup {-1} /\ rs[2] \in Reg \cup {-1}
      /\ i.s1 = (IF rs[1] = -1 THEN 0 ELSE RegData[rs[1]])
      /\ i.s2 = (IF rs[2] = -1 THEN 0 ELSE RegData[rs[2]])
      /\ i.imm = Immediate(inst)
  BY <1>4, <1>5, DecodedFields
<1>7. /\ rs = getSourceRegisters(o)
      /\ Immediate(inst) = Immediate(o) /\ ExTotal(inst) = ExTotal(o)
  BY <1>3, <1>5, SameFormat
<1>8. /\ c.s1 = (IF rs[1] = -1 THEN 0 ELSE RegsAfterMemory[rs[1]])
      /\ c.s2 = (IF rs[2] = -1 THEN 0 ELSE RegsAfterMemory[rs[2]])
      /\ c.imm = Immediate(o)
  BY <1>3, <1>7, DecodedFields
<1>9. SameOperation(i, inst) /\ SameOperation(i, o)
  BY <1>3, <1>6 DEF SameOperation
<1>10. /\ getSourceRegisters(i) = rs /\ getAluInputRegisters(i) = alu
       /\ ExTotal(i) = ExTotal(o)
  BY <1>7, <1>9, SameFormat
<1>11. FromProgram(program, d)
  BY <1>2, <1>9 DEF FromProgram, SameOperation
<1>12. ~Latched(i) /\ i.remaining <= ExTotal(i)
  BY <1>6, <1>10 DEF Latched, ExTotal
<1>13. /\ alu[2] = rs[2] /\ (isStore(inst) => alu[1] = -1)
       /\ (~isStore(inst) => alu[1] = rs[1])
  BY AluInputs
<1>14. xm_buff[W].valid /\ isLoad(x) /\ x.Rd # 0 => x.Rd # rs[1] /\ x.Rd # rs[2]
  BY NoLoadAhead
<1>15. /\ rs[1] > 0 /\ RegBusy[rs[1]] > 0 => ~isStore(inst) /\ checkRegisterForwardDecode(rs[1])
       /\ rs[2] > 0 /\ RegBusy[rs[2]] > 0 => checkRegisterForwardDecode(rs[2])
  BY DEF RunDecode, shouldStallDecode
<1>16. RegsAfterMemory[0] = RegData[0]
  BY ZeroStays
<1>17. \A reg \in Reg : reg \in Int /\ reg >= 0
  BY NumRegsAssumption DEF Reg
<1>18. \A r \in Reg : RegBusy[r] \in Int
  BY DEF Base, IInv, Core
<1> HIDE DEF o, c, i, rs, alu, fw, x, y, inst
<1>19. Supplied(fw, x, y, alu[1], i.s1) = c.s1
  <2>1. CASE rs[1] = -1 \/ rs[1] = 0
    <3>1. alu[1] <= 0
      BY <1>13, <2>1
    <3>2. i.s1 = c.s1
      BY <1>6, <1>8, <1>16, <2>1
    <3> QED BY <3>1, <3>2 DEF Supplied
  <2>2. CASE rs[1] \in Reg /\ rs[1] > 0 /\ isStore(inst)
    <3>1. alu[1] <= 0
      BY <1>13, <2>2
    <3>2. RegBusy[rs[1]] <= 0 /\ ~(RegBusy[rs[1]] > 0)
      BY <1>15, <1>18, <2>2
    <3>3. rs[1] # 0 /\ rs[1] # -1
      BY <2>2
    <3>4. xm_buff[W].valid /\ isLoad(xm_buff[W].inst) => xm_buff[W].inst.Rd # rs[1]
      BY <1>14, <3>3 DEF x
    <3>5. RegsAfterMemory[rs[1]] = RegData[rs[1]]
      BY <2>2, <3>2, <3>3, <3>4, Supplies
    <3>6. i.s1 = c.s1
      BY <1>6, <1>8, <2>2, <3>3, <3>5
    <3> QED BY <3>1, <3>6 DEF Supplied
  <2>3. CASE rs[1] \in Reg /\ rs[1] > 0 /\ ~isStore(inst)
    <3>1. RegBusy[rs[1]] > 0 => checkRegisterForwardDecode(rs[1])
      BY <1>15, <2>3
    <3>2. rs[1] # 0 /\ rs[1] # -1
      BY <2>3
    <3>3. xm_buff[W].valid /\ isLoad(xm_buff[W].inst) => xm_buff[W].inst.Rd # rs[1]
      BY <1>14, <3>2 DEF x
    <3>4. Supplied(fw, x, y, rs[1], RegData[rs[1]]) = RegsAfterMemory[rs[1]]
      BY <2>3, <3>1, <3>2, <3>3, Supplies DEF fw, x, y
    <3> QED BY <1>6, <1>8, <1>13, <2>3, <3>2, <3>4
  <2> QED BY <1>6, <1>17, <2>1, <2>2, <2>3
<1>20. Supplied(fw, x, y, alu[2], i.s2) = c.s2
  <2>1. CASE rs[2] = -1 \/ rs[2] = 0
    <3>1. alu[2] <= 0
      BY <1>13, <2>1
    <3>2. i.s2 = c.s2
      BY <1>6, <1>8, <1>16, <2>1
    <3> QED BY <3>1, <3>2 DEF Supplied
  <2>2. CASE rs[2] \in Reg /\ rs[2] > 0
    <3>1. RegBusy[rs[2]] > 0 => checkRegisterForwardDecode(rs[2])
      BY <1>15, <2>2
    <3>2. rs[2] # 0 /\ rs[2] # -1
      BY <2>2
    <3>3. xm_buff[W].valid /\ isLoad(xm_buff[W].inst) => xm_buff[W].inst.Rd # rs[2]
      BY <1>14, <3>2 DEF x
    <3>4. Supplied(fw, x, y, rs[2], RegData[rs[2]]) = RegsAfterMemory[rs[2]]
      BY <2>2, <3>1, <3>2, <3>3, Supplies DEF fw, x, y
    <3> QED BY <1>6, <1>8, <1>13, <2>2, <3>2, <3>4
  <2> QED BY <1>6, <1>17, <2>1, <2>2
<1>21. Operands(program, RegsAfterMemory, fw, x, y, xm_buff[W], d)
  BY <1>6, <1>7, <1>8, <1>10, <1>12, <1>14, <1>19, <1>20 DEF Operands, x, c, o
<1> QED BY <1>6, <1>9, <1>11, <1>21 DEF i, inst, fw, x, y

LEMMA DecodeOrder ==
  ASSUME Base, InOrder, RunDecode, ~LoadShadow PROVE InOrder'
<1> DEFINE f  == fd_buff[R]
           d  == [pc |-> f.pc, inst |-> Decoded(f.inst, RegData), valid |-> TRUE]
           fw == config.Forwarding_enabled
<1>1. Regs' = Regs /\ PcAfterCommitted' = PcAfterCommitted
  BY StepRegs DEF Base, ShInv, Next, Step, RunDecode, RunMemory
<1>2. /\ ToMemory' = ToMemory /\ ~ToExecute.valid /\ ToExecute' = d
      /\ ToDecode = f /\ ToDecode.valid /\ ~ToDecode'.valid
      /\ Signalled' = Signalled /\ ToMemory = xm_buff[W]
  BY DecodeViews, DecodeReads DEF Base
<1>3. /\ phase = "decode" /\ phase' = "fetch"
      /\ UNCHANGED setup /\ Bp' = Bp /\ halt' = halt
      /\ xm_buff' = xm_buff /\ mw_buff' = mw_buff
      /\ Pc' = IF f.inst.op = "jal" THEN Uint32(f.pc + f.inst.Rs1) ELSE Pc
  BY DEF RunDecode
<1>4. program' = program /\ config' = config /\ max_counter' = max_counter
  BY <1>3 DEF setup, max_counter
<1>5. RegsAfterMemory' = RegsAfterMemory /\ PcAfterMemory' = PcAfterMemory
  BY <1>1, <1>2 DEF RegsAfterMemory, PcAfterMemory
<1>6. MemoryReady' /\ ~halt'
  BY <1>1, <1>2, <1>3, <1>4 DEF InOrder, MemoryReady
<1>7. /\ Mispredicted' <=> Mispredicted
      /\ Redirected' <=> Redirected
  BY <1>2 DEF Mispredicted, Redirected
<1>8. CASE Mispredicted
  BY <1>2, <1>5, <1>6, <1>7, <1>8 DEF InOrder
<1>9. CASE ~Mispredicted
  <2>1. DecodeReady /\ Path
    BY <1>9 DEF InOrder
  <2>2. PcAfterExecute = PcAfterMemory
    BY <1>2 DEF PcAfterExecute, AfterDecoded
  <2>3. AsFetched(program, PcAfterMemory, f)
    BY <1>2, <2>1, <2>2 DEF DecodeReady
  <2>4. /\ FromProgram(program, d)
        /\ SameOperation(d.inst, f.inst) /\ d.inst.imm = Immediate(f.inst)
        /\ Operands(program, RegsAfterMemory, fw, xm_buff[W].inst, mw_buff[W].inst,
                    xm_buff[W], d)
    BY <2>3, DecodeOperands
  <2>5. f.pc = PcAfterMemory
    BY <1>2, <2>3 DEF AsFetched
  <2> HIDE DEF d
  <2>6. d.pc = f.pc /\ d.valid
    BY DEF d
  <2>7. BypassX' = xm_buff[W].inst /\ BypassY' = mw_buff[W].inst
    BY <1>3 DEF BypassX, BypassY
  <2>8. ExecuteReady'
    BY <1>2, <1>4, <1>5, <2>4, <2>5, <2>6, <2>7 DEF ExecuteReady, Ready
  <2>9. DecodeReady'
    BY <1>2 DEF DecodeReady, AsFetched
  <2>10. isConditionalBranch(d.inst) <=> isConditionalBranch(f.inst)
    BY <2>4, SameFormat
  <2>11. Waiting' <=> Waiting
    BY <1>2, <1>4, <2>6, <2>10 DEF Waiting, Branch
  <2>12. ~Redirected
    BY <1>2, <1>3, <1>9 DEF Base, ShInv, Signals, Blocked
  <2>13. PcAfterDecode' = IF isConditionalBranch(f.inst)
                          THEN GuessedBy(Bp, max_counter, f.pc) ELSE NextPc(d.inst, f.pc)
    BY <1>2, <1>3, <1>4, <2>6, <2>10 DEF PcAfterDecode, PcAfterExecute, AfterFetched, AfterDecoded
  <2>14. PcAfterDecode = IF isConditionalBranch(f.inst)
                         THEN GuessedBy(Bp, max_counter, f.pc) ELSE Uint32(f.pc + 4)
    BY <1>2 DEF PcAfterDecode, AfterFetched
  <2>15. ~Waiting => Pc' = PcAfterDecode'
    <3>1. ~Waiting => Pc = PcAfterDecode
      BY <2>1, <2>12 DEF Path
    <3>2. CASE isConditionalBranch(f.inst)
      <4>1. f.inst.op # "jal"
        BY <3>2 DEF isConditionalBranch, Fmt_B, B_Ops
      <4> QED BY <1>3, <2>13, <2>14, <3>1, <3>2, <4>1
    <3>3. CASE f.inst.op = "jal"
      <4>1. ~isConditionalBranch(f.inst) /\ d.inst.imm = f.inst.Rs1 /\ d.inst.op = "jal"
        BY <2>4, <3>3 DEF isConditionalBranch, Immediate, SameOperation, Fmt_R, Fmt_B, Fmt_I,
                          R_Ops, B_Ops, I_Ops
      <4>2. NextPc(d.inst, f.pc) = Uint32(f.pc + f.inst.Rs1)
        BY <4>1 DEF NextPc, Taken, BranchTarget
      <4> QED BY <1>3, <2>13, <3>3, <4>1, <4>2
    <3>4. CASE ~isConditionalBranch(f.inst) /\ f.inst.op # "jal"
      <4>1. d.inst.op = f.inst.op /\ f.inst.op # "jalr"
        BY <2>4 DEF SameOperation, Base, SInv, NoJalr, Straight
      <4>2. ~Taken(d.inst)
        BY <3>4, <4>1 DEF Taken, isConditionalBranch, Fmt_B, B_Ops
      <4> QED BY <1>3, <2>13, <2>14, <3>1, <3>4, <4>2 DEF NextPc
    <3> QED BY <3>2, <3>3, <3>4
  <2>16. Path'
    BY <1>6, <1>7, <2>11, <2>12, <2>15 DEF Path
  <2> QED BY <1>6, <1>7, <1>9, <2>8, <2>9, <2>16 DEF InOrder
<1> QED BY <1>8, <1>9
----------------------------------------------------------------------------
(* Fetch: at the end of the program, and on its way.                       *)

\* Fetch is only called when no branch is open.
LEMMA FetchFree ==
  ASSUME Base, InOrder, phase = "fetch", FetchEnabled, ~Mispredicted
  PROVE  ~Redirected /\ ~Waiting /\ Pc = PcAfterDecode
<1>1. "BRANCH" \notin stall_map
  BY DEF FetchEnabled
<1>2. ~Redirected /\ ~Waiting
  <2>1. CASE config.Bp_enabled
    BY <2>1 DEF Base, ShInv, Signals, Waiting
  <2>2. CASE ~config.Bp_enabled
    BY <1>1, <2>2 DEF Base, ShInv, Blocked
  <2> QED BY <2>1, <2>2
<1> QED BY <1>2 DEF InOrder, Path

LEMMA FetchEndOrder == ASSUME Base, InOrder, RunFetchEnd PROVE InOrder'
<1>1. Regs' = Regs /\ PcAfterCommitted' = PcAfterCommitted
  BY StepRegs DEF Base, ShInv, Next, Step, RunFetchEnd, RunMemory
<1>2. /\ ToMemory' = ToMemory /\ ToExecute' = ToExecute /\ ToDecode' = ToDecode
      /\ ~ToDecode.valid /\ Signalled' = Signalled
  BY FetchEndViews DEF Base
<1>3. /\ UNCHANGED setup /\ Bp' = Bp /\ Pc' = Pc
      /\ phase = "fetch" /\ FetchEnabled /\ AtEnd
      /\ BypassX' = BypassX /\ BypassY' = BypassY
  BY DEF RunFetchEnd, BypassX, BypassY
<1>4. Kept(ToMemory', ToMemory) /\ Kept(ToExecute', ToExecute) /\ Kept(ToDecode', ToDecode)
  BY <1>2 DEF Kept
<1>5. /\ MemoryReady => MemoryReady'
      /\ ExecuteReady => ExecuteReady'
      /\ DecodeReady => DecodeReady'
      /\ PcAfterMemory' = PcAfterMemory /\ PcAfterDecode' = PcAfterDecode
      /\ Waiting' <=> Waiting
  BY <1>1, <1>3, <1>4, Steady
<1>6. AtEnd'
  BY <1>3 DEF setup, AtEnd, Fetched, Program_size
<1>7. /\ Mispredicted' <=> Mispredicted
      /\ Redirected' <=> Redirected
  BY <1>2 DEF Mispredicted, Redirected
<1>8. ~Mispredicted => Path'
  BY <1>3, <1>5, <1>6, <1>7, FetchFree DEF Path
<1> QED BY <1>2, <1>5, <1>7, <1>8 DEF InOrder

LEMMA FetchOrder ==
  ASSUME Base, InOrder, RunFetch, ~LostRedirect PROVE InOrder'
<1> DEFINE guess == GuessedBy(Bp, max_counter, Pc)
           out   == [Fetched EXCEPT !.remaining = ExTotal(Fetched)]
<1>1. Regs' = Regs /\ PcAfterCommitted' = PcAfterCommitted
  BY StepRegs DEF Base, ShInv, Next, Step, RunFetch, RunMemory
<1>2. /\ ToMemory' = ToMemory /\ ToExecute' = ToExecute /\ ~ToDecode.valid
      /\ ToDecode' = [pc |-> Pc, inst |-> out, valid |-> TRUE]
      /\ Signalled = control_buff[W] /\ Signalled' = control_buff'[W]
  BY FetchViews DEF Base
<1>3. /\ UNCHANGED setup /\ Bp' = Bp /\ Pc' = Uint32(Pc + 4)
      /\ phase = "fetch" /\ FetchEnabled /\ ~AtEnd /\ ~halt /\ ~halt'
      /\ BypassX' = BypassX /\ BypassY' = BypassY
  BY DEF RunFetch, FetchEnabled, BypassX, BypassY
<1>4. program' = program /\ config' = config /\ max_counter' = max_counter
  BY <1>3 DEF setup, max_counter
<1>5. /\ Fetched \in Instruction /\ Fetched.op # "end"
      /\ Pc \div 4 < Len(program) /\ Fetched = Origin(program, Pc)
  BY <1>3, FetchedIs DEF Base, SInv
<1>6. /\ out.op = Fetched.op /\ out.Rd = Fetched.Rd
      /\ out.Rs1 = Fetched.Rs1 /\ out.Rs2 = Fetched.Rs2
  <2>1. \A n : LET i == [Fetched EXCEPT !.remaining = n] IN
          i.op = Fetched.op /\ i.Rd = Fetched.Rd /\ i.Rs1 = Fetched.Rs1 /\ i.Rs2 = Fetched.Rs2
    BY <1>5 DEF Instruction
  <2> QED BY <2>1
<1>7. control_buff \in [{W, R} -> Control_Buffer]
  BY DEF Base, IInv, Core
<1>8. /\ ~isConditionalBranch(Fetched) => UNCHANGED control_buff
      /\ isConditionalBranch(Fetched) /\ ~config.Bp_enabled => UNCHANGED control_buff
      /\ isConditionalBranch(Fetched) /\ config.Bp_enabled =>
           \/ Signal(guess, {"BRANCH"}) /\ Guess.kind = "jump"
           \/ UNCHANGED control_buff /\ guess = Uint32(Pc + 4)
  BY FetchGuesses DEF Base, SInv
<1>9. isConditionalBranch(out) <=> isConditionalBranch(Fetched)
  BY <1>6 DEF isConditionalBranch, Fmt_B
<1>10. /\ RegsAfterMemory' = RegsAfterMemory /\ PcAfterMemory' = PcAfterMemory
       /\ PcAfterExecute' = PcAfterExecute
       /\ MemoryReady' /\ (ExecuteReady => ExecuteReady')
  BY <1>1, <1>2, <1>3, <1>4
     DEF InOrder, RegsAfterMemory, PcAfterMemory, PcAfterExecute, MemoryReady, ExecuteReady
<1> HIDE DEF out, guess
<1>11. CASE Mispredicted
  <2>1. "BRANCH" \in control_buff[W].flags
    BY <1>2, <1>11 DEF Base, ShInv, Signals, Redirected
  <2>2. Guess.kind # "jump"
    BY <1>3, <2>1 DEF LostRedirect
  <2>3. Signalled' = Signalled
    BY <1>2, <1>8, <2>2
  <2>4. Mispredicted' /\ Signalled'.branch_target = PcAfterMemory'
    BY <1>10, <1>11, <2>3 DEF Mispredicted, InOrder
  <2> QED BY <1>3, <1>10, <2>4 DEF InOrder
<1>12. CASE ~Mispredicted
  <2>1. ~Redirected /\ ~Waiting /\ Pc = PcAfterDecode
    BY <1>3, <1>12, FetchFree
  <2>2. PcAfterExecute' = Pc
    BY <1>2, <1>10, <2>1 DEF PcAfterDecode, AfterFetched
  <2>3. DecodeReady'
    <3>1. FromProgram(program, ToDecode')
      BY <1>2, <1>5, <1>6 DEF FromProgram
    <3> QED BY <1>2, <1>4, <1>5, <2>2, <3>1 DEF DecodeReady, AsFetched, out
  <2>4. PcAfterDecode' = IF isConditionalBranch(Fetched) THEN guess ELSE Uint32(Pc + 4)
    BY <1>2, <1>3, <1>4, <1>9 DEF PcAfterDecode, AfterFetched, guess
  <2>5. Waiting' <=> ~config.Bp_enabled /\ isConditionalBranch(Fetched)
    BY <1>2, <1>4, <1>9, <2>1 DEF Waiting, Branch
  <2>6. Signalled.flags = {}
    <3>1. Signalled.flags \in SUBSET {"BRANCH", "FLUSH"}
      BY <1>2, <1>7 DEF Control_Buffer, W, R
    <3> QED BY <1>12, <2>1, <3>1 DEF Mispredicted, Redirected
  <2>7. CASE UNCHANGED control_buff
    <3>1. ~Mispredicted' /\ ~Redirected'
      BY <1>2, <2>6, <2>7 DEF Mispredicted, Redirected
    <3>2. ~Waiting' => Pc' = PcAfterDecode'
      <4>1. CASE isConditionalBranch(Fetched) /\ config.Bp_enabled
        <5>1. guess = Uint32(Pc + 4)
          <6>1. CASE Signal(guess, {"BRANCH"})
            <7>1. control_buff'[W].flags = control_buff[W].flags \cup {"BRANCH"}
              BY <1>7, <6>1, SignalFlags
            <7> QED BY <1>2, <2>6, <2>7, <7>1
          <6> QED BY <1>8, <4>1, <6>1
        <5> QED BY <1>3, <2>4, <4>1, <5>1
      <4>2. CASE ~isConditionalBranch(Fetched)
        BY <1>3, <2>4, <4>2
      <4> QED BY <2>5, <4>1, <4>2
    <3> QED BY <1>3, <1>10, <1>12, <2>3, <3>1, <3>2 DEF InOrder, Path
  <2>8. CASE /\ isConditionalBranch(Fetched) /\ config.Bp_enabled
             /\ Signal(guess, {"BRANCH"})
    <3>1. control_buff'[W] = [branch_target |-> guess,
                              flags |-> control_buff[W].flags \cup {"BRANCH"}]
      BY <1>7, <2>8, SignalIs
    <3>2. Signalled' = [branch_target |-> guess, flags |-> {"BRANCH"}]
      BY <1>2, <2>6, <3>1
    <3>3. ~Mispredicted' /\ Redirected'
      BY <3>2 DEF Mispredicted, Redirected
    <3> QED BY <1>3, <1>10, <1>12, <2>3, <2>4, <2>8, <3>2, <3>3 DEF InOrder, Path
  <2> QED BY <1>8, <2>7, <2>8
<1> QED BY <1>11, <1>12
----------------------------------------------------------------------------
(* The order is an invariant.                                              *)

LEMMA InitOrder == Init => InOrder
<1> SUFFICES ASSUME Init PROVE InOrder
  OBVIOUS
<1>1. /\ ~ToMemory.valid /\ ~ToExecute.valid /\ ~ToDecode.valid
      /\ Signalled = NoSignal /\ PcAfterCommitted = pc_init
      /\ Pc = pc_init /\ ~halt
  BY DEF Init, ToMemory, ToExecute, ToDecode, Signalled, NoSignal, EmptyPipelineBuffer,
         PcAfterCommitted, Youngest, ZeroInstruction, newInstruction, W, R
<1>2. ~Mispredicted /\ ~Redirected
  BY <1>1 DEF Mispredicted, Redirected, NoSignal
<1>3. PcAfterDecode = pc_init
  BY <1>1 DEF PcAfterDecode, PcAfterExecute, PcAfterMemory, After, AfterDecoded, AfterFetched
<1> QED BY <1>1, <1>2, <1>3
        DEF InOrder, MemoryReady, Done, ExecuteReady, Ready, DecodeReady, AsFetched, Path

\* Harm is never undone.
LEMMA StaysHarmed ==
  ASSUME Errors, [ObservedNext]_<<vars, anomalies>>, Unharmed'
  PROVE  /\ Unharmed
         /\ ObservedNext => Next /\ ~LostRedirect /\ ~SwallowedFlush /\ ~LoadShadow
<1>1. CASE UNCHANGED <<vars, anomalies>>
  <2>1. Unharmed
    BY <1>1 DEF vars, Unharmed
  <2>2. ObservedNext => NewAnomalies = {}
    BY <2>1 DEF ObservedNext, Unharmed
  <2>3. NewAnomalies = {} => ~LostRedirect /\ ~SwallowedFlush /\ ~LoadShadow
    BY DEF NewAnomalies
  <2> QED BY <2>1, <2>2, <2>3 DEF ObservedNext
<1>2. CASE ObservedNext
  <2>1. anomalies = {} /\ NewAnomalies = {}
    BY <1>2 DEF ObservedNext, Unharmed
  <2>2. ~LostRedirect /\ ~SwallowedFlush /\ ~LoadShadow
    BY <2>1 DEF NewAnomalies
  <2>3. Runtime_error' = NoError /\ phase' # "panicked" /\ Next
    BY <1>2 DEF ObservedNext, Unharmed
  <2>4. phase # "panicked"
    BY <2>3 DEF Next, Step, Stopped, vars, RunControl, RunWriteback, RunMemory,
       RunExecuteCycle, RunExecutePanic, RunExecute, RunDecodeStall, RunDecode,
       RunFetchEnd, RunFetch, Bubble, ShiftPipelineBuffers
  <2>5. Runtime_error = NoError
    <3>1. CASE RunControl
      BY <3>1 DEF RunControl, Errors
    <3>2. CASE RunMemory
      BY <3>2 DEF RunMemory, Errors
    <3>3. CASE Runtime_error' = Runtime_error
      BY <2>3, <3>3
    <3> QED BY <2>3, <3>1, <3>2, <3>3
            DEF Next, Step, Stopped, vars, RunWriteback,
       RunExecuteCycle, RunExecutePanic, RunExecute, RunDecodeStall, RunDecode,
       RunFetchEnd, RunFetch, Bubble, ShiftPipelineBuffers
  <2> QED BY <2>1, <2>2, <2>3, <2>4, <2>5 DEF Unharmed
<1> QED BY <1>1, <1>2

\* Every call keeps the order.
LEMMA StepOrder ==
  SeparateSlots /\ Base /\ OrderInv /\ [ObservedNext]_<<vars, anomalies>> => OrderInv'
<1> SUFFICES ASSUME SeparateSlots, Base, OrderInv, [ObservedNext]_<<vars, anomalies>>,
                    Unharmed'
             PROVE  InOrder'
  BY DEF OrderInv
<1>1. /\ Unharmed
      /\ ObservedNext => Next /\ ~LostRedirect /\ ~SwallowedFlush /\ ~LoadShadow
  BY StaysHarmed DEF Base, ShInv
<1>2. InOrder
  BY <1>1 DEF OrderInv
<1>3. CASE UNCHANGED <<vars, anomalies>>
  BY <1>2, <1>3, StopOrder
<1>4. CASE ObservedNext
  <2>1. Next /\ ~LostRedirect /\ ~SwallowedFlush /\ ~LoadShadow
    BY <1>1, <1>4
  <2>2. CASE RunControl           BY <1>2, <2>1, <2>2, ControlOrder
  <2>3. CASE RunWriteback         BY <1>2, <2>3, WritebackOrder
  <2>4. CASE RunMemory            BY <1>2, <2>4, MemoryOrder DEF Unharmed
  <2>5. CASE RunExecuteCycle      BY <1>2, <2>5, ExecuteCycleOrder
  <2>6. CASE RunExecutePanic      BY <2>6 DEF RunExecutePanic, Unharmed
  <2>7. CASE RunExecute           BY <1>2, <2>7, ExecuteOrder
  <2>8. CASE RunDecodeStall       BY <1>2, <2>8, DecodeStallOrder
  <2>9. CASE RunDecode            BY <1>2, <2>1, <2>9, DecodeOrder
  <2>10. CASE RunFetchEnd         BY <1>2, <2>10, FetchEndOrder
  <2>11. CASE RunFetch            BY <1>2, <2>1, <2>11, FetchOrder
  <2>12. CASE Bubble              BY <1>2, <2>12, BubbleOrder
  <2>13. CASE ShiftPipelineBuffers BY <1>2, <2>13, ShiftOrder
  <2>14. CASE Stopped
    <3>1. UNCHANGED <<vars, anomalies>>
      <4>1. vars' = vars
        BY <2>14 DEF Stopped
      <4>2. anomalies' = anomalies
        BY <1>1, <1>4 DEF ObservedNext, Unharmed
      <4> QED BY <4>1, <4>2
    <3> QED BY <1>2, <3>1, StopOrder
  <2> QED BY <2>1, <2>2, <2>3, <2>4, <2>5, <2>6, <2>7, <2>8, <2>9, <2>10, <2>11, <2>12,
             <2>13, <2>14 DEF Next, Step
<1> QED BY <1>3, <1>4

\* Without an anomaly, what is in flight is always the program in order.
LEMMA OrderInvariant ==
  ASSUME SeparateSlots
  PROVE  NoIndirectJumps /\ ObservedSpec => [](Base /\ OrderInv)
<1>1. ObservedInit => Init /\ OrderInv
  BY InitOrder DEF ObservedInit, OrderInv
<1>2. [ObservedNext]_<<vars, anomalies>> => [Next]_vars
  BY DEF ObservedNext
<1>3. ObservedSpec => Spec
  BY <1>1, <1>2, PTL DEF ObservedSpec, Spec
<1>4. NoIndirectJumps /\ ObservedSpec => []Base
  <2>1. IInv /\ Sides /\ SInv /\ AInv /\ ShInv => Base
    BY DEF Base
  <2> QED BY <1>3, <2>1, ShadowInvariant, PTL
<1>5. Base /\ OrderInv /\ [ObservedNext]_<<vars, anomalies>> => OrderInv'
  BY StepOrder
<1> QED BY <1>1, <1>4, <1>5, PTL DEF ObservedSpec

----------------------------------------------------------------------------
(* The operators that Isa is built from are those of the pipeline.         *)

\* Words and conversions.
LEMMA SameWords ==
  /\ Sequential!WORD_MOD = WORD_MOD /\ Sequential!Place = Place
  /\ Sequential!NoError = NoError /\ Sequential!Reg = Reg /\ Sequential!SP = SP
  /\ Sequential!Addr = Addr
  /\ \A x : Sequential!Uint32(x) = Uint32(x) /\ Sequential!Int32(x) = Int32(x)
  /\ \A x, i : Sequential!ByteOf(x, i) = ByteOf(x, i)
BY DEF Sequential!WORD_MOD, WORD_MOD, Sequential!Place, Place, Sequential!WORD_SIZE, WORD_SIZE,
       Sequential!NoError, NoError, Sequential!Reg, Reg, Sequential!SP, SP, Sequential!Addr, Addr,
       Sequential!Uint32, Uint32, Sequential!Int32, Int32, Sequential!ByteOf, ByteOf

\* The sets of operations.
LEMMA SameOps ==
  /\ Sequential!R_Ops = R_Ops /\ Sequential!I_Ops = I_Ops /\ Sequential!S_Ops = S_Ops
  /\ Sequential!B_Ops = B_Ops /\ Sequential!U_Ops = U_Ops /\ Sequential!J_Ops = J_Ops
  /\ Sequential!Loads = Loads /\ Sequential!ImmAluOps = ImmAluOps
  /\ Sequential!ShiftOps = ShiftOps
BY DEF Sequential!R_Ops, R_Ops, Sequential!I_Ops, I_Ops, Sequential!S_Ops, S_Ops,
       Sequential!B_Ops, B_Ops, Sequential!U_Ops, U_Ops, Sequential!J_Ops, J_Ops,
       Sequential!Loads, Loads, Sequential!ImmAluOps, ImmAluOps, Sequential!ShiftOps, ShiftOps

\* What an instruction is, and whether it panics or jumps.
LEMMA SamePredicates ==
  ASSUME NEW inst
  PROVE  /\ Sequential!Fmt_R(inst) <=> Fmt_R(inst)
         /\ Sequential!Fmt_I(inst) <=> Fmt_I(inst)
         /\ Sequential!Fmt_S(inst) <=> Fmt_S(inst)
         /\ Sequential!Fmt_B(inst) <=> Fmt_B(inst)
         /\ Sequential!isLoad(inst) <=> isLoad(inst)
         /\ Sequential!isStore(inst) <=> isStore(inst)
         /\ Sequential!WritesRd(inst) <=> WritesRd(inst)
         /\ Sequential!Panics(inst) <=> Panics(inst)
         /\ Sequential!Taken(inst) <=> Taken(inst)
BY SameOps DEF Sequential!Fmt_R, Fmt_R, Sequential!Fmt_I, Fmt_I, Sequential!Fmt_S, Fmt_S,
       Sequential!Fmt_B, Fmt_B, Sequential!Fmt_U, Fmt_U, Sequential!Fmt_J, Fmt_J,
       Sequential!isLoad, isLoad, Sequential!isStore, isStore,
       Sequential!WritesRd, WritesRd, Sequential!Panics, Panics, Sequential!Taken, Taken

\* Its operands.
LEMMA SameDecoded ==
  ASSUME NEW inst, NEW regs
  PROVE  Sequential!Decoded(inst, regs) = Decoded(inst, regs)
BY SamePredicates DEF Sequential!Decoded, Decoded

\* Its result, and the instruction after it.
LEMMA SameResult ==
  ASSUME NEW inst, NEW pc
  PROVE  /\ Sequential!Result(inst, pc) = Result(inst, pc)
         /\ Sequential!NextPc(inst, pc) = NextPc(inst, pc)
<1>1. Sequential!Result(inst, pc) = Result(inst, pc)
  BY SameWords, SameOps, SamePredicates DEF Sequential!Result, Result
<1>2. Sequential!BranchTarget(inst, pc) = BranchTarget(inst, pc)
  BY SameWords, SamePredicates DEF Sequential!BranchTarget, BranchTarget
<1>3. Sequential!NextPc(inst, pc) = NextPc(inst, pc)
  BY <1>2, SameWords, SamePredicates DEF Sequential!NextPc, NextPc
<1> QED BY <1>1, <1>3

\* Its access to memory.
LEMMA SameAccess ==
  ASSUME NEW op, NEW mem, NEW size, NEW data, NEW addr, NEW n
  PROVE  /\ Sequential!AccessBytes(op) = AccessBytes(op)
         /\ Sequential!AccessError(size, addr, n) = AccessError(size, addr, n)
         /\ Sequential!memoryRead(mem, size, addr, n) = memoryRead(mem, size, addr, n)
         /\ Sequential!memoryWrite(mem, size, data, addr, n)
              = memoryWrite(mem, size, data, addr, n)
<1>1. Sequential!AccessBytes(op) = AccessBytes(op)
  BY DEF Sequential!AccessBytes, AccessBytes
<1>2. Sequential!Cells(addr, n) = Cells(addr, n)
  BY SameWords DEF Sequential!Cells, Cells
<1>3. Sequential!AccessError(size, addr, n) = AccessError(size, addr, n)
  BY <1>2, SameWords DEF Sequential!AccessError, AccessError
<1>4. Sequential!memoryRead(mem, size, addr, n) = memoryRead(mem, size, addr, n)
  BY <1>3, SameWords DEF Sequential!memoryRead, memoryRead
<1>5. Sequential!memoryWrite(mem, size, data, addr, n)
        = memoryWrite(mem, size, data, addr, n)
  BY SameWords DEF Sequential!memoryWrite, memoryWrite
<1> QED BY <1>1, <1>3, <1>4, <1>5

----------------------------------------------------------------------------
(* A failing store, and the refinement mapping.                            *)

\* A store that is in error stores nothing.
LEMMA FaultStoresNothing ==
  ASSUME NEW size \in Nat, size % 4 = 0, NEW mem, mem = [a \in DOMAIN mem |-> mem[a]],
         NEW addr \in Addr, NEW n \in {1, 2, 4}, NEW data,
         AccessError(size, addr, n) # NoError
  PROVE  memoryWrite(mem, size, data, addr, n) = mem
<1>0. addr \in Nat /\ Uint32(addr + 0) = addr
  BY WordModPositive DEF Addr, Uint32
<1>1. CASE addr % n # 0
  BY <1>1 DEF memoryWrite
<1>2. CASE addr % n = 0
  <2>1. PICK i \in 0 .. n - 1 : Uint32(addr + i) >= size
    BY <1>2 DEF AccessError, Cells, NoError
  <2>2. Uint32(addr + i) \in 0 .. addr + i
    BY <1>0, Uint32Below
  <2>3. ~(addr < size)
    <3> SUFFICES ASSUME addr < size PROVE FALSE
      OBVIOUS
    <3>1. addr + n <= size
      BY <1>0, <1>2, AlignedFits
    <3> QED BY <1>0, <2>1, <2>2, <3>1
  <2> DEFINE stored == {k \in 0 .. n - 1 : \A j \in 0 .. k : Uint32(addr + j) < size}
  <2>4. stored = {}
    BY <1>0, <2>3
  <2>5. memoryWrite(mem, size, data, addr, n)
          = [a \in DOMAIN mem |->
               IF \E k \in stored : a = Uint32(addr + k)
               THEN ByteOf(data, CHOOSE k \in stored : a = Uint32(addr + k))
               ELSE mem[a]]
    BY <1>2 DEF memoryWrite
  <2> HIDE DEF stored
  <2> QED BY <2>4, <2>5
<1> QED BY <1>1, <1>2

----------------------------------------------------------------------------
(* The refinement mapping, step by step.                                   *)

\* Without an error the mapping shows what has been committed.
LEMMA Mapped ==
  ASSUME Runtime_error = NoError
  PROVE  AbstractRegs = Regs /\ AbstractPc = PcAfterCommitted
BY DEF AbstractRegs, Regs, AbstractPc, PcAfterCommitted, Youngest

\* The same of the state after the call.
LEMMA MappedNext ==
  ASSUME Runtime_error' = NoError
  PROVE  AbstractRegs' = Regs' /\ AbstractPc' = PcAfterCommitted'
BY DEF AbstractRegs, Regs, AbstractPc, PcAfterCommitted, Youngest

\* Only run_memory changes the registers, the address or the memory of the
\* sequential machine.
LEMMA MappedStays ==
  ASSUME Base, [Next]_vars, ~RunMemory
  PROVE  /\ AbstractRegs' = AbstractRegs /\ AbstractPc' = AbstractPc
         /\ Memory' = Memory /\ program' = program /\ config' = config
         /\ Runtime_error' = Runtime_error
<1>1. /\ Regs' = Regs /\ PcAfterCommitted' = PcAfterCommitted
      /\ mw_buff'[W].inst = mw_buff[W].inst /\ mw_buff'[W].pc = mw_buff[W].pc
  BY StepRegs DEF Base, ShInv
<1>2. program' = program /\ config' = config /\ pc_init' = pc_init
  BY SetupStays DEF setup
<1>3. Memory' = Memory
  BY MemoryStays DEF Next, Stopped, vars
<1>4. Runtime_error' = Runtime_error
  <2>1. CASE RunControl
    BY <2>1 DEF RunControl, Base, ShInv, Errors
  <2> QED BY <2>1 DEF Next, Step, Stopped, vars, RunWriteback, RunExecuteCycle,
       RunExecutePanic, RunExecute, RunDecodeStall, RunDecode, RunFetchEnd, RunFetch,
       Bubble, ShiftPipelineBuffers
<1>5. CASE Runtime_error = NoError
  BY <1>1, <1>2, <1>3, <1>4, <1>5, Mapped, MappedNext
<1>6. CASE Runtime_error # NoError
  <2>1. RegData' = RegData
    <3>1. ~RunWriteback
      BY <1>6 DEF RunWriteback, Base, ShInv, Errors
    <3> QED BY <3>1 DEF Next, Step, Stopped, vars, RunControl, RunExecuteCycle,
         RunExecutePanic, RunExecute, RunDecodeStall, RunDecode, RunFetchEnd, RunFetch,
         Bubble, ShiftPipelineBuffers
  <2> QED BY <1>1, <1>2, <1>3, <1>4, <1>6, <2>1 DEF AbstractRegs, AbstractPc, Youngest
<1> QED BY <1>5, <1>6

\* Which instruction the sequential machine is at.
LEMMA CurrentIs ==
  ASSUME Runtime_error = NoError
  PROVE  Sequential!Current = Decoded(Origin(program, PcAfterCommitted), Regs)
BY Mapped, SameDecoded DEF Sequential!Current, Origin

\* An instruction in flight is not the end of the program.
LEMMA NotAtEnd ==
  ASSUME Base, Runtime_error = NoError, phase # "panicked", ~Halted,
         NEW b \in Pipeline_Buffer, FromProgram(program, b), b.pc = PcAfterCommitted
  PROVE  Sequential!Running
<1>1. b.pc \div 4 \in Nat /\ Len(program) \in Nat
  BY OriginIs DEF Base, IInv, Core
<1>2. ~Sequential!AtEnd
  BY <1>1, Mapped DEF Sequential!AtEnd, FromProgram, Origin
<1> QED BY <1>2 DEF Sequential!Running, AbstractStatus

----------------------------------------------------------------------------

\* The step that panics in execute is the panic of the sequential machine: its
\* operands are the ones that the sequential machine has there.
LEMMA PanicStep ==
  ASSUME Base, InOrder, Unharmed, RunExecutePanic PROVE Sequential!Panic
<1>0. Runtime_error = NoError /\ phase # "panicked"
  BY DEF Unharmed
<1>1. phase = "execute" /\ dx_buff[R].valid /\ phase' = "panicked" /\ ~Halted
  BY DEF RunExecutePanic, Base, ShInv, Errors
<1>2. /\ AbstractRegs' = AbstractRegs /\ AbstractPc' = AbstractPc
      /\ Memory' = Memory /\ program' = program /\ config' = config
      /\ Runtime_error' = Runtime_error
  BY MappedStays DEF Next, Step, RunExecutePanic, RunMemory
<1>3. ExecuteReady
  <2>1. ~Mispredicted
    BY <1>1 DEF Mispredicted, Signalled, NoSignal
  <2> QED BY <2>1 DEF InOrder
<1> DEFINE d == dx_buff[R]
           c == Decoded(Origin(program, d.pc), Regs)
<1>4. /\ FromProgram(program, d) /\ d.pc = PcAfterCommitted
      /\ Executed.op = c.op /\ Executed.imm = c.imm
      /\ Executed.s1 = c.s1 /\ Executed.s2 = c.s2
  BY <1>1, <1>3, ExecutedReady
<1>5. Panics(c)
  <2>1. Panics(Executed)
    BY DEF RunExecutePanic
  <2> HIDE DEF c
  <2> QED BY <1>4, <2>1, SameMeaning
<1>6. Sequential!Panics(Sequential!Current)
  BY <1>0, <1>4, <1>5, CurrentIs, SamePredicates
<1>7. Sequential!Running
  BY <1>0, <1>1, <1>4, InFlightType, NotAtEnd DEF Base
<1>8. AbstractStatus' = "panicked"
  BY <1>0, <1>1, <1>2 DEF AbstractStatus
<1> QED BY <1>2, <1>6, <1>7, <1>8 DEF Sequential!Panic

\* The cycle that halts without an error ends the sequential machine: nothing
\* is in flight, and fetch waits at the end of the program.
LEMMA EndStep ==
  ASSUME Base, InOrder, Unharmed, ShiftPipelineBuffers, Halted' PROVE Sequential!End
<1>0. Runtime_error = NoError /\ phase = "shift" /\ phase' = "control" /\ ~Halted
  BY DEF Unharmed, ShiftPipelineBuffers, Base, ShInv, Errors
<1>1. /\ AbstractRegs' = AbstractRegs /\ AbstractPc' = AbstractPc
      /\ Memory' = Memory /\ program' = program /\ config' = config
      /\ Runtime_error' = Runtime_error
  BY MappedStays DEF Next, Step, ShiftPipelineBuffers, RunMemory
<1>2. halt /\ ~ToMemory.valid /\ ~ToExecute.valid /\ ~ToDecode.valid
  BY <1>0 DEF ShiftPipelineBuffers, ToMemory, ToExecute, ToDecode
<1>3. ~Mispredicted
  BY <1>2 DEF Base, ShInv, Signals, Branch
<1>4. AtEnd /\ Pc = PcAfterCommitted
  <2>1. AtEnd /\ Pc = PcAfterDecode
    BY <1>2, <1>3 DEF InOrder, Path
  <2> QED BY <1>2, <2>1 DEF PcAfterDecode, PcAfterExecute, PcAfterMemory, AfterFetched,
                         AfterDecoded, After
<1>5. Sequential!AtEnd
  <2>1. Pc \div 4 \in Int /\ Len(program) \in Int
    BY WordIsInt DEF Base, IInv, Core
  <2> QED BY <1>0, <1>4, <2>1, Mapped DEF Sequential!AtEnd, AtEnd, Fetched, Program_size
<1>6. AbstractStatus = "running" /\ AbstractStatus' = "ended"
  BY <1>0, <1>1 DEF AbstractStatus
<1> QED BY <1>1, <1>5, <1>6 DEF Sequential!End

----------------------------------------------------------------------------

\* run_memory retires the next instruction of the program, or meets its fault
\* and leaves registers, address and memory as they were before it.
LEMMA MemoryStep ==
  ASSUME Base, InOrder, Unharmed, RunMemory
  PROVE  Sequential!Retire \/ Sequential!Fault
<1> DEFINE m    == xm_buff[R]
           c    == Decoded(Origin(program, PcAfterCommitted), Regs)
           addr == Uint32(m.inst.result)
           n    == AccessBytes(m.inst.op)
           size == config.Mem_size
           error == IF isLoad(m.inst) \/ isStore(m.inst)
                    THEN AccessError(size, addr, n) ELSE NoError
           data == memoryRead(Memory, size, addr, n)
           out  == mw_buff'[W]
<1>0. Runtime_error = NoError /\ phase = "memory" /\ phase' = "execute" /\ ~Halted /\ ~Halted'
  BY DEF Unharmed, RunMemory, Base, ShInv, Errors
<1>1. /\ ToMemory = m /\ m.valid /\ m \in Pipeline_Buffer
      /\ program' = program /\ config' = config /\ pc_init' = pc_init /\ RegData' = RegData
  BY MemoryViews, InFlightType DEF Base, ShInv, RunMemory, setup
<1>2. /\ FromProgram(program, m) /\ m.pc = PcAfterCommitted
      /\ m.inst.s1 = c.s1 /\ m.inst.s2 = c.s2 /\ m.inst.imm = c.imm
      /\ m.inst.result = Result(c, m.pc)
      /\ ~Panics(c)
  BY <1>1 DEF InOrder, MemoryReady, Done
<1>3. SameOperation(m.inst, c) /\ m.inst.op # "nop"
  <2>1. LET o == Origin(program, m.pc) IN
        o \in Instruction /\ SameOperation(m.inst, o) /\ o.op # "nop"
    BY <1>1, <1>2, OriginIs DEF Base
  <2> QED BY <1>2, <2>1, DecodedFields DEF SameOperation
<1>4. Sequential!Running
  BY <1>0, <1>1, <1>2, NotAtEnd DEF Unharmed
<1>5. Sequential!Current = c
  BY <1>0, CurrentIs
<1>6. /\ isLoad(c) <=> isLoad(m.inst)
      /\ isStore(c) <=> isStore(m.inst)
      /\ WritesRd(c) <=> WritesRd(m.inst)
      /\ NextPc(c, m.pc) = NextPc(m.inst, m.pc)
      /\ c.op = m.inst.op /\ c.Rd = m.inst.Rd
  <2> HIDE DEF c, m
  <2> QED BY <1>2, <1>3, SameFormat, SameMeaning DEF SameOperation
<1>7. AbstractRegs = Regs /\ AbstractPc = PcAfterCommitted /\ AbstractStatus = "running"
  BY <1>0, Mapped DEF AbstractStatus
<1> HIDE DEF c
<1>8. /\ Sequential!Address = addr
      /\ Sequential!AccessBytes(Sequential!Current.op) = n
      /\ Sequential!Error = error
      /\ Sequential!Value = IF isLoad(m.inst) THEN data ELSE m.inst.result
      /\ ~Sequential!Panics(Sequential!Current)
  <2>1. Sequential!Address = addr
    BY <1>2, <1>5, <1>7, SameResult, SameWords DEF Sequential!Address
  <2>2. Sequential!AccessBytes(Sequential!Current.op) = n
    BY <1>5, <1>6, SameAccess
  <2>3. Sequential!Error = error
    BY <1>5, <1>6, <2>1, <2>2, SamePredicates, SameAccess, SameWords DEF Sequential!Error
  <2>4. Sequential!Value = IF isLoad(m.inst) THEN data ELSE m.inst.result
    BY <1>2, <1>5, <1>6, <1>7, <2>1, <2>2, SamePredicates, SameAccess, SameResult
       DEF Sequential!Value
  <2> QED BY <1>2, <1>5, <2>1, <2>2, <2>3, <2>4, SamePredicates
<1>9. /\ out.valid /\ out.pc = m.pc /\ out.inst \in Instruction
      /\ SameValue(m.inst, out.inst)
      /\ ~isLoad(m.inst) => out.inst = m.inst
      /\ isLoad(m.inst) => out.inst = [m.inst EXCEPT !.result = data]
      /\ mw_buff'[R] = mw_buff[R]
  BY <1>1, MemoryFills DEF Base, ShInv
<1>10. /\ out.inst.op = m.inst.op /\ out.inst.Rd = m.inst.Rd
       /\ out.inst.s1 = m.inst.s1 /\ out.inst.s2 = m.inst.s2 /\ out.inst.imm = m.inst.imm
       /\ out.inst.result = IF isLoad(m.inst) THEN data ELSE m.inst.result
  <2>1. m.inst \in Instruction
    BY <1>1, BufferFields
  <2> HIDE DEF out, data, m
  <2>2. out.inst = m.inst \/ (isLoad(m.inst) /\ out.inst = [m.inst EXCEPT !.result = data])
    BY <1>9
  <2> QED BY <1>9, <2>1, <2>2 DEF Instruction
<1>11. WrittenBack(RegData, mw_buff[R]) = Regs
  <2>1. ~mw_buff[W].valid
    BY <1>0 DEF Base, Sides
  <2> QED BY <2>1 DEF Regs, WrittenBack
<1>12. /\ Memory' = IF isStore(m.inst)
                    THEN memoryWrite(Memory, size, m.inst.s1, addr, n) ELSE Memory
       /\ Runtime_error' = error
  BY <1>0 DEF RunMemory
<1>13. CASE error = NoError
  <2>1. Runtime_error' = NoError
    BY <1>12, <1>13
  <2>2. AbstractRegs' = Regs' /\ AbstractPc' = PcAfterCommitted' /\ AbstractStatus' = "running"
    BY <1>0, <2>1, MappedNext DEF AbstractStatus
  <2>3. PcAfterCommitted' = NextPc(m.inst, m.pc)
    <3>1. NextPc(out.inst, m.pc) = NextPc(m.inst, m.pc)
      BY <1>10, SameMeaning
    <3> QED BY <1>3, <1>9, <1>10, <3>1 DEF PcAfterCommitted, Youngest
  <2>4. Regs' = IF WritesRd(m.inst) /\ m.inst.Rd # 0
                THEN [Regs EXCEPT ![m.inst.Rd] = out.inst.result] ELSE Regs
    <3>1. Regs' = WrittenBack(Regs, out)
      BY <1>1, <1>9, <1>11 DEF Regs
    <3>2. WritesRd(out.inst) <=> WritesRd(m.inst)
      BY <1>10 DEF WritesRd, Fmt_R, Fmt_I, Fmt_U, Fmt_J
    <3> QED BY <1>9, <1>10, <3>1, <3>2 DEF WrittenBack
  <2>5. AbstractPc' = Sequential!NextPc(Sequential!Current, AbstractPc)
    BY <1>2, <1>5, <1>6, <1>7, <2>2, <2>3, SameResult
  <2>6. AbstractRegs' = IF Sequential!WritesRd(Sequential!Current) /\ Sequential!Current.Rd # 0
                        THEN [AbstractRegs EXCEPT ![Sequential!Current.Rd] = Sequential!Value]
                        ELSE AbstractRegs
    BY <1>5, <1>6, <1>7, <1>8, <1>10, <2>2, <2>4, SamePredicates
  <2>7. Memory' = IF Sequential!isStore(Sequential!Current)
                  THEN Sequential!memoryWrite(Memory, size, Sequential!Current.s1,
                         Sequential!Address, Sequential!AccessBytes(Sequential!Current.op))
                  ELSE Memory
    BY <1>2, <1>5, <1>6, <1>8, <1>12, SamePredicates, SameAccess
  <2>8. Sequential!Error = Sequential!NoError
    BY <1>8, <1>13, SameWords
  <2>9. program' = program /\ size' = size /\ AbstractStatus' = AbstractStatus
    BY <1>1, <1>7, <2>2
  <2> QED BY <1>4, <1>8, <2>5, <2>6, <2>7, <2>8, <2>9 DEF Sequential!Retire
<1>14. CASE error # NoError
  <2>1. AccessError(size, addr, n) # NoError
    BY <1>14
  <2>2. Memory' = Memory
    <3>1. size \in Nat /\ size % 4 = 0 /\ Memory \in [0 .. size - 1 -> Byte]
      BY ConfigsAssumption DEF Base, IInv, Core, Config, WORD_SIZE
    <3>2. addr \in Addr /\ n \in {1, 2, 4}
      BY <1>1, BufferFields, WordIsInt, Uint32Type, AccessBytesType
    <3> HIDE DEF addr, n, size
    <3>3. Memory = [a \in DOMAIN Memory |-> Memory[a]]
      BY <3>1
    <3>4. memoryWrite(Memory, size, m.inst.s1, addr, n) = Memory
      BY <2>1, <3>1, <3>2, <3>3, FaultStoresNothing
    <3> QED BY <1>12, <3>4 DEF addr, n, size
  <2>3. AbstractRegs' = AbstractRegs
    <3>1. AbstractRegs' = RegData
      BY <1>1, <1>12, <1>14 DEF AbstractRegs
    <3>2. Held(mw_buff[R].inst) /\ RegData \in [Reg -> Word] /\ mw_buff[R] \in Pipeline_Buffer
      BY <1>0, InFlightType DEF Base, ShInv, Stored, IInv, Core
    <3>3. WrittenBack(RegData, mw_buff[R]) = RegData
      BY <3>2, HeldIs
    <3> QED BY <1>7, <1>11, <3>1, <3>3
  <2>4. AbstractPc' = AbstractPc
    BY <1>2, <1>3, <1>7, <1>9, <1>10, <1>12, <1>14 DEF AbstractPc, Youngest
  <2>5. AbstractStatus' = error
    BY <1>12, <1>14 DEF AbstractStatus
  <2>6. Sequential!Error # Sequential!NoError /\ AbstractStatus' = Sequential!Error
    BY <1>8, <1>14, <2>5, SameWords
  <2>7. program' = program /\ size' = size
    BY <1>1
  <2> QED BY <1>4, <1>8, <2>2, <2>3, <2>4, <2>6, <2>7 DEF Sequential!Fault
<1> QED BY <1>13, <1>14

\* Every other call leaves the sequential machine where it is.
LEMMA OtherSteps ==
  ASSUME Base, [Next]_vars, ~RunMemory, ~RunExecutePanic,
         ~(ShiftPipelineBuffers /\ Halted')
  PROVE  UNCHANGED Sequential!isa
<1>1. /\ AbstractRegs' = AbstractRegs /\ AbstractPc' = AbstractPc
      /\ Memory' = Memory /\ program' = program /\ config' = config
      /\ Runtime_error' = Runtime_error
  BY MappedStays
<1>2. AbstractStatus' = AbstractStatus
  <2>1. CASE Stopped \/ UNCHANGED vars
    BY <2>1 DEF Stopped, vars, AbstractStatus
  <2>2. CASE Step /\ phase # "panicked"
    <3>1. phase' # "panicked"
      BY <2>2 DEF Step, RunControl, RunWriteback, RunMemory, RunExecuteCycle, RunExecute,
         RunDecodeStall, RunDecode, RunFetchEnd, RunFetch, Bubble, ShiftPipelineBuffers
    <3>2. CASE ShiftPipelineBuffers
      <4>1. ~Halted
        BY <3>2 DEF ShiftPipelineBuffers, Base, ShInv, Errors
      <4> QED BY <1>1, <2>2, <3>1, <3>2, <4>1 DEF AbstractStatus
    <3>3. CASE Halted' = Halted
      BY <1>1, <2>2, <3>1, <3>3 DEF AbstractStatus
    <3> QED BY <2>2, <3>2, <3>3 DEF Step, RunControl, RunWriteback, RunMemory,
         RunExecuteCycle, RunExecute, RunDecodeStall, RunDecode, RunFetchEnd, RunFetch, Bubble
  <2>3. Step => phase # "panicked"
    BY DEF Step, RunControl, RunWriteback, RunMemory, RunExecuteCycle, RunExecutePanic,
       RunExecute, RunDecodeStall, RunDecode, RunFetchEnd, RunFetch, Bubble,
       ShiftPipelineBuffers
  <2> QED BY <2>1, <2>2, <2>3 DEF Next
<1> QED BY <1>1, <1>2 DEF Sequential!isa

\* After an error nothing happens any more to the sequential machine.
LEMMA HarmedSteps ==
  ASSUME Base, [Next]_vars, Runtime_error # NoError
  PROVE  UNCHANGED Sequential!isa
<1>1. ~RunMemory
  BY DEF RunMemory, Base, ShInv, Errors
<1>2. /\ AbstractRegs' = AbstractRegs /\ AbstractPc' = AbstractPc
      /\ Memory' = Memory /\ program' = program /\ config' = config
      /\ Runtime_error' = Runtime_error
  BY <1>1, MappedStays
<1> QED BY <1>2 DEF Sequential!isa, AbstractStatus

\* A call without an anomaly is a step of the sequential machine or none.
LEMMA StepRefines ==
  Base /\ OrderInv /\ [ObservedNext]_<<vars, anomalies>>
    => [anomalies' # {} \/ Sequential!Next]_(Sequential!isa)
<1> SUFFICES ASSUME Base, OrderInv, [ObservedNext]_<<vars, anomalies>>, anomalies' = {}
             PROVE  Sequential!Next \/ UNCHANGED Sequential!isa
  OBVIOUS
<1>1. [Next]_vars /\ anomalies = {}
  BY DEF ObservedNext
<1>2. CASE Runtime_error # NoError
  BY <1>1, <1>2, HarmedSteps
<1>3. CASE Runtime_error = NoError
  <2>1. CASE RunMemory
    <3>1. Unharmed
      BY <1>1, <1>3, <2>1 DEF Unharmed, RunMemory
    <3> QED BY <2>1, <3>1, MemoryStep DEF OrderInv, Sequential!Next
  <2>2. CASE RunExecutePanic
    <3>1. Unharmed
      BY <1>1, <1>3, <2>2 DEF Unharmed, RunExecutePanic
    <3> QED BY <2>2, <3>1, PanicStep DEF OrderInv, Sequential!Next
  <2>3. CASE ShiftPipelineBuffers /\ Halted'
    <3>1. Unharmed
      BY <1>1, <1>3, <2>3 DEF Unharmed, ShiftPipelineBuffers
    <3> QED BY <2>3, <3>1, EndStep DEF OrderInv, Sequential!Next
  <2> QED BY <1>1, <2>1, <2>2, <2>3, OtherSteps
<1> QED BY <1>2, <1>3

\* A new machine is a new sequential machine.
LEMMA InitRefines == ObservedInit => Sequential!Init
<1> SUFFICES ASSUME ObservedInit PROVE Sequential!Init
  OBVIOUS
<1>1. Init
  BY DEF ObservedInit
<1>2. /\ Runtime_error = NoError /\ phase = "control" /\ ~Halted
      /\ Youngest.inst.op = "nop" /\ ~mw_buff[R].valid /\ ~mw_buff[W].valid
      /\ RegData = [r \in Reg |-> IF r = SP THEN Int32(config.Mem_size) ELSE 0]
      /\ Memory = [a \in 0 .. config.Mem_size - 1 |-> 0]
  BY <1>1 DEF Init, Youngest, EmptyPipelineBuffer, ZeroInstruction, newInstruction, W, R
<1>3. pc_init \in Addr /\ pc_init % 4 = 0
  <2>1. PICK p \in Programs : pc_init = 4 * p.entry
    BY <1>1 DEF Init
  <2>2. p.entry \in Nat /\ 4 * p.entry \in Addr
    BY ProgramsAssumption
  <2> QED BY <2>1, <2>2
<1>4. AbstractPc = pc_init /\ AbstractRegs = RegData /\ AbstractStatus = "running"
  BY <1>2 DEF AbstractPc, AbstractRegs, AbstractStatus, WrittenBack, Youngest
<1>5. AbstractRegs = [r \in Sequential!Reg |->
                        IF r = Sequential!SP THEN Sequential!Int32(config.Mem_size) ELSE 0]
  BY <1>2, <1>4, SameWords
<1> QED BY <1>2, <1>3, <1>4, <1>5, SameWords DEF Sequential!Init

\* The refinement of the runs, for every program without jalr and every
\* setting: while there is no anomaly, whatever is stalled, forwarded,
\* predicted or flushed, every call is a step of the sequential machine or
\* changes nothing of it (ExecuteCycle, core.go:821-887).  The predictor has
\* 32 entries and a word 2^32 values in the program; with four entries or
\* fewer two instructions in a row could share one, and training it with the
\* first would change the guess that the second was fetched on.
THEOREM RefinementTheorem ==
  ASSUME BP_BUFFER_SIZE > 4, WORD_MOD % BP_BUFFER_SIZE = 0
  PROVE  NoIndirectJumps /\ ObservedSpec => RefinesIsa
<1>1. NoIndirectJumps /\ ObservedSpec => [](Base /\ OrderInv)
  BY SlotsSeparate, OrderInvariant
<1>2. ObservedInit => Sequential!Init
  BY InitRefines
<1>3. Base /\ OrderInv /\ [ObservedNext]_<<vars, anomalies>>
        => [anomalies' # {} \/ Sequential!Next]_(Sequential!isa)
  BY StepRefines
<1> QED BY <1>1, <1>2, <1>3, PTL DEF ObservedSpec, RefinesIsa

\* A machine that is only ever reset to settings with neither the branch
\* predictor nor forwarding (Config, core.go).
PlainSettings == \A c \in Configs : ~c.Bp_enabled /\ ~c.Forwarding_enabled

\* With both features off nothing has to be excused: stalls and flushes alone
\* make every call a step of the sequential machine or a step that changes
\* nothing of it, for every program without jalr (ExecuteCycle,
\* core.go:821-887).  The runs refute the claim with forwarding and with a
\* jalr; this shows that one of the features or a jalr is needed to do so.
THEOREM PlainTheorem ==
  ASSUME BP_BUFFER_SIZE > 4, WORD_MOD % BP_BUFFER_SIZE = 0, PlainSettings
  PROVE  NoIndirectJumps /\ ObservedSpec => SameInEveryConfiguration
<1>1. NoIndirectJumps /\ ObservedSpec => [](Base /\ OrderInv)
  BY SlotsSeparate, OrderInvariant
<1>2. Base /\ AnomaliesNeedFeatures => anomalies = {}
  BY DEF Base, SInv, NoJalr, IInv, Core, AnomaliesNeedFeatures, PossibleAnomalies, PlainSettings
<1>3. [anomalies' # {} \/ Sequential!Next]_(Sequential!isa) /\ (anomalies = {})'
        => [Sequential!Next]_(Sequential!isa)
  OBVIOUS
<1> QED BY <1>1, <1>2, <1>3, AnomaliesNeedTheirFeature, RefinementTheorem, PTL
        DEF RefinesIsa, SameInEveryConfiguration
=============================================================================
