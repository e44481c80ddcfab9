---------------------------- MODULE SessionProofs ----------------------------
(***************************************************************************)
(* Sessions, for every set of programs and settings and every sequence of  *)
(* requests, without the bounds of the runs: the counters agree with the   *)
(* machine, and so does the copy that the client keeps of it.              *)
(*                                                                         *)
(* An instruction that was fetched is on the read side of a buffer until   *)
(* the stage there has run, and on the write side of the next one after    *)
(* that: Pending says for each phase where to look.  A panic leaves write  *)
(* sides full at the beginning of a cycle, so that nothing is claimed of   *)
(* the counters until a reset has emptied them; that a machine after a     *)
(* panic stands still is shown at the end.                                 *)
(***************************************************************************)
EXTENDS VmSession, PipelineProofs

----------------------------------------------------------------------------
(* Buffers.                                                                *)

\* Two sides, each of which is valid or not.
Latch(b) ==
  /\ DOMAIN b = {W, R}
  /\ \A i \in {W, R} : "valid" \in DOMAIN b[i] /\ b[i].valid \in BOOLEAN

N(b, i) == Plus(b[i].valid)

\* A side counts for one instruction, or for none.
LEMMA CountLatch ==
  ASSUME NEW b, Latch(b), NEW i \in {W, R}
  PROVE  /\ N(b, i) \in {0, 1}
         /\ b[i].valid => N(b, i) = 1
         /\ ~b[i].valid => N(b, i) = 0
BY DEF Latch, N, Plus

\* What the operators of Pipeline make of a buffer.
LEMMA EmptyLatch ==
  /\ Latch(EmptyPipelineBuffer)
  /\ \A i \in {W, R} : ~EmptyPipelineBuffer[i].valid
<1> DEFINE side == [pc |-> 0, inst |-> ZeroInstruction, valid |-> FALSE]
<1>1. "valid" \in DOMAIN side /\ side.valid = FALSE OBVIOUS
<1> HIDE DEF side
<1>2. EmptyPipelineBuffer = [i \in {W, R} |-> side] BY DEF EmptyPipelineBuffer, side
<1> QED BY <1>1, <1>2 DEF Latch

LEMMA DrainedLatch ==
  ASSUME NEW b, Latch(b)
  PROVE  /\ Latch(Drained(b))
         /\ \A i \in {W, R} : ~Drained(b)[i].valid
BY DEF Latch, Drained, W, R

LEMMA FilledLatch ==
  ASSUME NEW b, Latch(b), NEW pc, NEW inst
  PROVE  /\ Latch(Filled(b, pc, inst))
         /\ Filled(b, pc, inst)[W].valid
         /\ Filled(b, pc, inst)[R] = b[R]
BY DEF Latch, Filled, W, R

LEMMA ShiftedLatch ==
  ASSUME NEW b, Latch(b)
  PROVE  /\ Latch(Shifted(b)) /\ ~Shifted(b)[W].valid
         /\ Shifted(b)[R] = b[W]
<1>1. Shifted(b)[R] = b[W] BY DEF Shifted, W, R
<1>2. Shifted(b)[W] = [b[W] EXCEPT !.valid = FALSE] BY DEF Shifted, W, R
<1>3. DOMAIN Shifted(b) = {W, R} BY DEF Shifted
<1>4. "valid" \in DOMAIN b[W] /\ b[W].valid \in BOOLEAN BY DEF Latch
<1>5. "valid" \in DOMAIN Shifted(b)[W] /\ Shifted(b)[W].valid = FALSE BY <1>2, <1>4
<1> QED BY <1>1, <1>3, <1>4, <1>5 DEF Latch

LEMMA FedBackLatch ==
  ASSUME NEW b, Latch(b)
  PROVE  /\ Latch([b EXCEPT ![W] = b[R]])
         /\ [b EXCEPT ![W] = b[R]][W] = b[R]
BY DEF Latch, W, R

Latches == Latch(fd_buff) /\ Latch(dx_buff) /\ Latch(xm_buff) /\ Latch(mw_buff)

\* No stage spoils a buffer.
LEMMA StepLatches ==
  ASSUME Latches, Step
  PROVE  Latches'
<1>1. CASE RunControl
  BY <1>1, DrainedLatch DEF Latches, RunControl, flush
<1>2. CASE RunWriteback      BY <1>2 DEF Latches, RunWriteback
<1>3. CASE RunMemory         BY <1>3, FilledLatch DEF Latches, RunMemory
<1>4. CASE RunExecuteCycle   BY <1>4, FilledLatch DEF Latches, RunExecuteCycle
<1>5. CASE RunExecutePanic   BY <1>5 DEF Latches, RunExecutePanic
<1>6. CASE RunExecute        BY <1>6, FilledLatch DEF Latches, RunExecute
<1>7. CASE RunDecodeStall    BY <1>7, FedBackLatch DEF Latches, RunDecodeStall
<1>8. CASE RunDecode         BY <1>8, FilledLatch DEF Latches, RunDecode
<1>9. CASE RunFetchEnd       BY <1>9 DEF Latches, RunFetchEnd
<1>10. CASE RunFetch         BY <1>10, FilledLatch DEF Latches, RunFetch
<1>11. CASE Bubble           BY <1>11 DEF Latches, Bubble
<1>12. CASE ShiftPipelineBuffers
  BY <1>12, ShiftedLatch DEF Latches, ShiftPipelineBuffers
<1> QED BY <1>1, <1>2, <1>3, <1>4, <1>5, <1>6, <1>7, <1>8, <1>9, <1>10, <1>11,
           <1>12 DEF Step

----------------------------------------------------------------------------
(* The counters.                                                           *)

Counters == {"N_cycle", "N_fetched", "N_retired", "N_stalls", "N_forwards",
             "N_branch", "N_mispred"}

CountersType ==
  /\ Dm \in [Counters -> Nat] /\ Dm.N_mispred <= Dm.N_branch
  /\ flushed \in Nat

\* A condition counts for at most one.
LEMMA PlusType == \A x : Plus(x) \in {0, 1}
BY DEF Plus

\* What the stages count of an instruction.
LEMMA CountedType ==
  /\ Discarded \in Nat /\ Forwarded \in Nat /\ Branches \in Nat
  /\ Mispredictions \in Nat /\ Mispredictions <= Branches
<1>1. Discarded \in Nat /\ Forwarded \in Nat
  BY PlusType DEF Discarded, Forwarded
<1>2. Mispredictions <= Branches /\ Branches \in Nat /\ Mispredictions \in Nat
  BY DEF Branches, Mispredictions, Plus
<1> QED BY <1>1, <1>2

\* Counting no more mispredictions than branches keeps them ordered.
LEMMA BranchCounted ==
  ASSUME NEW d \in [Counters -> Nat], d.N_mispred <= d.N_branch,
         NEW f \in Nat, NEW b \in Nat, NEW m \in Nat, m <= b
  PROVE  LET e == [d EXCEPT !.N_forwards = @ + f, !.N_branch = @ + b,
                            !.N_mispred = @ + m]
         IN  e \in [Counters -> Nat] /\ e.N_mispred <= e.N_branch
<1> DEFINE d1 == [d EXCEPT !.N_forwards = @ + f]
           d2 == [d1 EXCEPT !.N_branch = @ + b]
           d3 == [d2 EXCEPT !.N_mispred = @ + m]
<1>1. d1 \in [Counters -> Nat] /\ d1.N_branch = d.N_branch /\ d1.N_mispred = d.N_mispred
  BY DEF Counters
<1>2. d2 \in [Counters -> Nat] /\ d2.N_branch = d1.N_branch + b
      /\ d2.N_mispred = d1.N_mispred
  <2> HIDE DEF d1
  <2> QED BY <1>1 DEF Counters
<1>3. d3 \in [Counters -> Nat] /\ d3.N_branch = d2.N_branch
      /\ d3.N_mispred = d2.N_mispred + m
  <2> HIDE DEF d2
  <2> QED BY <1>2 DEF Counters
<1>4. d3.N_mispred <= d3.N_branch
  <2> HIDE DEF d1, d2, d3
  <2> QED BY <1>1, <1>2, <1>3 DEF Counters
<1> QED BY <1>3, <1>4

\* No stage takes a counter out of range.
LEMMA StepCounters ==
  ASSUME CountersType, ReportedStep
  PROVE  CountersType'
<1>1. CASE CountControl
  BY <1>1, CountedType DEF CountersType, Counters, CountControl
<1>2. CASE CountWriteback    BY <1>2 DEF CountersType, Counters, CountWriteback
<1>3. CASE CountMemory       BY <1>3 DEF CountersType, CountMemory
<1>4. CASE CountExecuteCycle
  BY <1>4, CountedType DEF CountersType, Counters, CountExecuteCycle
<1>5. CASE CountExecute
  <2>1. Dm' = [Dm EXCEPT !.N_forwards = @ + Forwarded, !.N_branch = @ + Branches,
                         !.N_mispred = @ + Mispredictions] /\ flushed' = flushed
    BY <1>5 DEF CountExecute
  <2> QED BY <2>1, CountedType, BranchCounted DEF CountersType
<1>6. CASE CountDecode       BY <1>6 DEF CountersType, CountDecode
<1>7. CASE CountFetch        BY <1>7 DEF CountersType, Counters, CountFetch
<1>8. CASE CountShift
  BY <1>8, PlusType DEF CountersType, Counters, CountShift
<1>9. CASE CountNothing      BY <1>9 DEF CountersType, CountNothing, reports
<1> QED BY <1>1, <1>2, <1>3, <1>4, <1>5, <1>6, <1>7, <1>8, <1>9 DEF ReportedStep

----------------------------------------------------------------------------
(* The instructions in flight.                                             *)

\* The instructions in flight, in the middle of a cycle too.
Pending ==
  CASE phase \in {"control", "writeback"} ->
         N(fd_buff, R) + N(dx_buff, R) + N(xm_buff, R) + N(mw_buff, R)
    [] phase = "memory"  -> N(fd_buff, R) + N(dx_buff, R) + N(xm_buff, R)
    [] phase = "execute" -> N(fd_buff, R) + N(dx_buff, R) + N(mw_buff, W)
    [] phase = "decode"  ->
         N(fd_buff, R) + N(dx_buff, W) + N(xm_buff, W) + N(mw_buff, W)
    [] OTHER ->
         N(fd_buff, W) + N(dx_buff, W) + N(xm_buff, W) + N(mw_buff, W)

\* The stages that are still to run find an empty side to write to; fetch
\* does, unless decode has put its instruction back and holds fetch up.
Room ==
  /\ phase \in {"control", "writeback", "memory", "execute", "decode"} =>
       ~fd_buff[W].valid
  /\ phase \in {"control", "writeback", "memory", "execute"} =>
       ~dx_buff[W].valid /\ ~xm_buff[W].valid
  /\ phase \in {"control", "writeback", "memory"} => ~mw_buff[W].valid
  /\ phase = "fetch" /\ fd_buff[W].valid => "RAW" \in stall_map

Conserved ==
  phase # "panicked" => Room /\ Dm.N_fetched = Dm.N_retired + flushed + Pending

\* An instruction moves from a read side to a write side, and is counted
\* where it enters and where it leaves.
LEMMA StepConserved ==
  ASSUME Latches, CountersType, Conserved, ReportedStep
  PROVE  Conserved'
<1> USE DEF Conserved
<1>0. /\ \A b \in {fd_buff, dx_buff, xm_buff, mw_buff}, i \in {W, R} :
           /\ N(b, i) \in {0, 1}
           /\ b[i].valid => N(b, i) = 1
           /\ ~b[i].valid => N(b, i) = 0
      /\ Dm.N_fetched \in Nat /\ Dm.N_retired \in Nat /\ flushed \in Nat
  BY CountLatch DEF Latches, CountersType, Counters
<1>1. CASE CountControl
  <2>1. /\ phase = "control" /\ phase' = "writeback"
        /\ Dm'.N_fetched = Dm.N_fetched /\ Dm'.N_retired = Dm.N_retired
        /\ flushed' = flushed + Discarded
        /\ UNCHANGED <<xm_buff, mw_buff>>
    BY <1>1 DEF CountControl, RunControl, CountersType, Counters
  <2>2. CASE "FLUSH" \in control_buff[R].flags /\ ~halt
    <3>1. fd_buff' = Drained(fd_buff) /\ dx_buff' = Drained(dx_buff)
      BY <1>1, <2>2 DEF CountControl, RunControl, flush
    <3>2. Discarded = N(fd_buff, R) + N(dx_buff, R)
      BY <2>2 DEF Discarded, N
    <3>3. /\ ~fd_buff'[W].valid /\ ~dx_buff'[W].valid
          /\ N(fd_buff, R)' = 0 /\ N(dx_buff, R)' = 0
      BY <3>1, DrainedLatch, CountLatch DEF Latches, N
    <3>4. N(xm_buff, R)' = N(xm_buff, R) /\ N(mw_buff, R)' = N(mw_buff, R)
      BY <2>1 DEF N
    <3> QED BY <1>0, <2>1, <3>2, <3>3, <3>4 DEF Room, Pending
  <2>3. CASE ~("FLUSH" \in control_buff[R].flags /\ ~halt)
    <3>1. Discarded = 0 /\ UNCHANGED <<fd_buff, dx_buff>>
      BY <1>1, <2>3 DEF Discarded, CountControl, RunControl, flush
    <3> QED BY <1>0, <2>1, <3>1 DEF Room, Pending, N
  <2> QED BY <2>2, <2>3
<1>2. CASE CountWriteback
  <2>1. /\ phase = "writeback" /\ phase' = "memory" /\ mw_buff[R].valid
        /\ Dm'.N_fetched = Dm.N_fetched /\ Dm'.N_retired = Dm.N_retired + 1
        /\ UNCHANGED <<fd_buff, dx_buff, xm_buff, mw_buff, stall_map, flushed>>
    BY <1>2 DEF CountWriteback, RunWriteback, CountersType, Counters
  <2>2. /\ N(fd_buff, R)' = N(fd_buff, R) /\ N(dx_buff, R)' = N(dx_buff, R)
        /\ N(xm_buff, R)' = N(xm_buff, R) /\ N(mw_buff, R) = 1
    BY <1>0, <2>1 DEF N
  <2> QED BY <1>0, <2>1, <2>2 DEF Room, Pending
<1>3. CASE CountMemory
  <2>1. /\ phase = "memory" /\ phase' = "execute" /\ xm_buff[R].valid
        /\ mw_buff'[W].valid
        /\ UNCHANGED <<fd_buff, dx_buff, xm_buff, stall_map, Dm, flushed>>
    BY <1>3, FilledLatch DEF CountMemory, RunMemory, Latches
  <2>2. /\ N(mw_buff, W)' = 1
        /\ N(fd_buff, R)' = N(fd_buff, R) /\ N(dx_buff, R)' = N(dx_buff, R)
    BY <2>1 DEF N, Plus
  <2> QED BY <1>0, <2>1, <2>2 DEF Room, Pending
<1>4. CASE CountExecuteCycle
  <2>1. /\ phase = "execute" /\ phase' = "decode" /\ dx_buff[R].valid
        /\ dx_buff'[W].valid
        /\ Dm'.N_fetched = Dm.N_fetched /\ Dm'.N_retired = Dm.N_retired
        /\ UNCHANGED <<fd_buff, xm_buff, mw_buff, stall_map, flushed>>
    BY <1>4, FilledLatch
    DEF CountExecuteCycle, RunExecuteCycle, Latches, CountersType, Counters
  <2>2. /\ N(dx_buff, W)' = 1 /\ N(fd_buff, R)' = N(fd_buff, R)
        /\ N(xm_buff, W)' = N(xm_buff, W) /\ N(mw_buff, W)' = N(mw_buff, W)
    BY <2>1 DEF N, Plus
  <2> QED BY <1>0, <2>1, <2>2 DEF Room, Pending
<1>5. CASE CountExecute
  <2>1. /\ phase = "execute" /\ phase' = "decode" /\ dx_buff[R].valid
        /\ xm_buff'[W].valid
        /\ Dm'.N_fetched = Dm.N_fetched /\ Dm'.N_retired = Dm.N_retired
        /\ UNCHANGED <<fd_buff, dx_buff, mw_buff, stall_map, flushed>>
    BY <1>5, FilledLatch
    DEF CountExecute, RunExecute, Latches, CountersType, Counters
  <2>2. /\ N(xm_buff, W)' = 1 /\ N(fd_buff, R)' = N(fd_buff, R)
        /\ N(dx_buff, W)' = N(dx_buff, W) /\ N(mw_buff, W)' = N(mw_buff, W)
    BY <2>1 DEF N, Plus
  <2> QED BY <1>0, <2>1, <2>2 DEF Room, Pending
<1>6. CASE CountDecode
  <2>1. /\ phase = "decode" /\ phase' = "fetch" /\ fd_buff[R].valid
        /\ ~dx_buff[W].valid /\ dx_buff'[W].valid
        /\ UNCHANGED <<fd_buff, xm_buff, mw_buff, Dm, flushed>>
    BY <1>6, FilledLatch DEF CountDecode, RunDecode, Latches, shouldStallDecode
  <2>2. /\ N(dx_buff, W)' = 1 /\ N(fd_buff, W)' = N(fd_buff, W)
        /\ N(xm_buff, W)' = N(xm_buff, W) /\ N(mw_buff, W)' = N(mw_buff, W)
    BY <2>1 DEF N, Plus
  <2> QED BY <1>0, <2>1, <2>2 DEF Room, Pending
<1>7. CASE CountFetch
  <2>1. /\ phase = "fetch" /\ phase' = "shift" /\ stall_map = {}
        /\ fd_buff'[W].valid
        /\ Dm'.N_fetched = Dm.N_fetched + 1 /\ Dm'.N_retired = Dm.N_retired
        /\ UNCHANGED <<dx_buff, xm_buff, mw_buff, flushed>>
    BY <1>7, FilledLatch
    DEF CountFetch, RunFetch, FetchEnabled, Latches, CountersType, Counters
  <2>2. /\ N(fd_buff, W)' = 1 /\ N(dx_buff, W)' = N(dx_buff, W)
        /\ N(xm_buff, W)' = N(xm_buff, W) /\ N(mw_buff, W)' = N(mw_buff, W)
    BY <2>1 DEF N, Plus
  <2> QED BY <1>0, <2>1, <2>2 DEF Room, Pending
<1>8. CASE CountShift
  <2>1. /\ phase = "shift" /\ phase' = "control"
        /\ Dm'.N_fetched = Dm.N_fetched /\ Dm'.N_retired = Dm.N_retired
        /\ flushed' = flushed
        /\ fd_buff' = Shifted(fd_buff) /\ dx_buff' = Shifted(dx_buff)
        /\ xm_buff' = Shifted(xm_buff) /\ mw_buff' = Shifted(mw_buff)
    BY <1>8 DEF CountShift, ShiftPipelineBuffers, CountersType, Counters
  <2>2. /\ N(fd_buff, R)' = N(fd_buff, W) /\ N(dx_buff, R)' = N(dx_buff, W)
        /\ N(xm_buff, R)' = N(xm_buff, W) /\ N(mw_buff, R)' = N(mw_buff, W)
        /\ ~fd_buff'[W].valid /\ ~dx_buff'[W].valid
        /\ ~xm_buff'[W].valid /\ ~mw_buff'[W].valid
    BY <2>1, ShiftedLatch DEF Latches, N
  <2> QED BY <1>0, <2>1, <2>2 DEF Room, Pending
<1>9. CASE CountNothing
  <2>1. UNCHANGED <<Dm, flushed>>
    BY <1>9 DEF CountNothing, reports
  <2>2. CASE RunExecutePanic
    BY <2>2 DEF RunExecutePanic
  <2>3. CASE RunDecodeStall
    <3>1. /\ phase = "decode" /\ phase' = "fetch" /\ fd_buff[R].valid
          /\ fd_buff'[W] = fd_buff[R] /\ "RAW" \in stall_map'
          /\ UNCHANGED <<dx_buff, xm_buff, mw_buff>>
      BY <2>3, FedBackLatch DEF RunDecodeStall, Latches
    <3>2. N(fd_buff, W)' = N(fd_buff, R)
      BY <3>1 DEF N
    <3> QED BY <1>0, <2>1, <3>1, <3>2 DEF Room, Pending, N
  <2>4. CASE RunFetchEnd
    BY <1>0, <2>1, <2>4 DEF RunFetchEnd, Room, Pending, N
  <2>5. CASE Bubble
    BY <1>0, <2>1, <2>5 DEF Bubble, Room, Pending, N
  <2> QED BY <1>9, <2>2, <2>3, <2>4, <2>5 DEF CountNothing
<1> QED BY <1>1, <1>2, <1>3, <1>4, <1>5, <1>6, <1>7, <1>8, <1>9 DEF ReportedStep
----------------------------------------------------------------------------
(* What the client knows.                                                  *)

\* Registers and memory are given cell by cell.
Cellwise ==
  /\ RegData = [r \in Reg |-> RegData[r]] /\ Memory = [a \in DOMAIN Memory |-> Memory[a]]
  /\ DOMAIN view = {"regs", "mem"}

\* Outside the lists of changes, the client's copy is the machine's.
Known ==
  /\ \A r \in Reg \ Register_diff_idx : view.regs[r] = RegData[r]
  /\ phase = "control" => view.regs = RegData
  /\ damage = "none" =>
       /\ \A a \in DOMAIN Memory \ Memory_diff_addr : view.mem[a] = Memory[a]
       /\ phase = "control" => view.mem = Memory

\* A store changes no cell that it does not report.
LEMMA StoreKnown ==
  ASSUME NEW mem, NEW data, NEW addr, NEW n, NEW a \in DOMAIN mem,
         a \notin Stored(addr, n)
  PROVE  memoryWrite(mem, config.Mem_size, data, addr, n)[a] = mem[a]
BY DEF memoryWrite, Stored

\* A store adds and removes no cell.
LEMMA StoreDomain ==
  ASSUME NEW mem, mem = [a \in DOMAIN mem |-> mem[a]], NEW size, NEW data, NEW addr, NEW n
  PROVE  LET new_mem == memoryWrite(mem, size, data, addr, n)
         IN  /\ DOMAIN new_mem = DOMAIN mem
             /\ new_mem = [a \in DOMAIN new_mem |-> new_mem[a]]
BY DEF memoryWrite

\* Registers and memory stay functions.
LEMMA StepCellwise ==
  ASSUME Cellwise, ReportedStep
  PROVE  Cellwise'
<1>1. CASE CountControl       BY <1>1 DEF Cellwise, CountControl, RunControl
<1>2. CASE CountWriteback
  BY <1>2 DEF Cellwise, CountWriteback, RunWriteback
<1>3. CASE CountMemory
  BY <1>3, StoreDomain DEF Cellwise, CountMemory, RunMemory
<1>4. CASE CountExecuteCycle  BY <1>4 DEF Cellwise, CountExecuteCycle, RunExecuteCycle
<1>5. CASE CountExecute       BY <1>5 DEF Cellwise, CountExecute, RunExecute
<1>6. CASE CountDecode        BY <1>6 DEF Cellwise, CountDecode, RunDecode
<1>7. CASE CountFetch         BY <1>7 DEF Cellwise, CountFetch, RunFetch
<1>8. CASE CountShift         BY <1>8 DEF Cellwise, CountShift, ShiftPipelineBuffers
<1>9. CASE CountNothing
  <2>1. UNCHANGED <<RegData, Memory, view>>
    BY <1>9 DEF CountNothing, RunExecutePanic, RunDecodeStall, RunFetchEnd, Bubble,
                reports
  <2> QED BY <2>1 DEF Cellwise
<1> QED BY <1>1, <1>2, <1>3, <1>4, <1>5, <1>6, <1>7, <1>8, <1>9 DEF ReportedStep

\* Whatever a stage changes it reports, and the client catches up when the
\* cycle ends.
LEMMA StepKnown ==
  ASSUME Cellwise, Known, ReportedStep, UNCHANGED damage
  PROVE  Known'
<1> USE DEF Known, Cellwise
<1>1. CASE CountControl
  BY <1>1 DEF CountControl, RunControl
<1>2. CASE CountWriteback
  <2>1. /\ phase' = "memory" /\ UNCHANGED <<Memory, Memory_diff_addr, view>>
    BY <1>2 DEF CountWriteback, RunWriteback
  <2>2. CASE WritesRd(mw_buff[R].inst) /\ mw_buff[R].inst.Rd # 0
    <3>1. /\ RegData' = [RegData EXCEPT ![mw_buff[R].inst.Rd] = mw_buff[R].inst.result]
          /\ Register_diff_idx' = Register_diff_idx \cup {mw_buff[R].inst.Rd}
      BY <1>2, <2>2 DEF CountWriteback, RunWriteback
    <3> QED BY <2>1, <3>1
  <2>3. CASE ~(WritesRd(mw_buff[R].inst) /\ mw_buff[R].inst.Rd # 0)
    <3>1. RegData' = RegData /\ Register_diff_idx' = Register_diff_idx
      BY <1>2, <2>3 DEF CountWriteback, RunWriteback
    <3> QED BY <2>1, <3>1
  <2> QED BY <2>2, <2>3
<1>3. CASE CountMemory
  <2> DEFINE inst == xm_buff[R].inst
             addr == Uint32(inst.result)
             n    == AccessBytes(inst.op)
  <2>1. /\ phase' = "execute" /\ UNCHANGED <<RegData, Register_diff_idx, view>>
    BY <1>3 DEF CountMemory, RunMemory
  <2>2. CASE isStore(inst)
    <3>1. /\ Memory' = memoryWrite(Memory, config.Mem_size, inst.s1, addr, n)
          /\ Memory_diff_addr' = Memory_diff_addr \cup Stored(addr, n)
      BY <1>3, <2>2 DEF CountMemory, RunMemory
    <3>2. DOMAIN Memory' = DOMAIN Memory /\ Memory' = [a \in DOMAIN Memory' |-> Memory'[a]]
      BY <3>1, StoreDomain
    <3>3. \A a \in DOMAIN Memory \ Memory_diff_addr' : Memory'[a] = Memory[a]
      BY <3>1, StoreKnown
    <3> HIDE DEF inst, addr, n
    <3> QED BY <2>1, <3>1, <3>2, <3>3
  <2>3. CASE ~isStore(inst)
    <3>1. Memory' = Memory /\ Memory_diff_addr' = Memory_diff_addr
      BY <1>3, <2>3 DEF CountMemory, RunMemory
    <3> QED BY <2>1, <3>1
  <2> QED BY <2>2, <2>3
<1>4. CASE CountExecuteCycle  BY <1>4 DEF CountExecuteCycle, RunExecuteCycle
<1>5. CASE CountExecute       BY <1>5 DEF CountExecute, RunExecute
<1>6. CASE CountDecode
  <2>1. /\ phase' = "fetch" /\ Register_diff_idx \subseteq Register_diff_idx'
        /\ UNCHANGED <<RegData, Memory, Memory_diff_addr, view>>
    BY <1>6 DEF CountDecode, RunDecode
  <2> QED BY <2>1
<1>7. CASE CountFetch         BY <1>7 DEF CountFetch, RunFetch
<1>8. CASE CountShift
  <2>1. UNCHANGED <<RegData, Memory, Memory_diff_addr, Register_diff_idx>>
    BY <1>8 DEF CountShift, ShiftPipelineBuffers
  <2>2. /\ view'.regs = [r \in Reg |-> IF r \in Register_diff_idx
                                       THEN RegData[r] ELSE view.regs[r]]
        /\ view'.mem = [a \in DOMAIN Memory |-> IF a \in Memory_diff_addr
                                       THEN Memory[a] ELSE view.mem[a]]
    BY <1>8 DEF CountShift
  <2>3. view'.regs = RegData
    BY <2>2
  <2>4. damage = "none" => view'.mem = Memory
    BY <2>2
  <2> QED BY <2>1, <2>3, <2>4
<1>9. CASE CountNothing
  <2>1. phase' # "control" /\ UNCHANGED <<RegData, Memory, reports>>
    BY <1>9
    DEF CountNothing, RunExecutePanic, RunDecodeStall, RunFetchEnd, Bubble
  <2> QED BY <2>1 DEF reports
<1> QED BY <1>1, <1>2, <1>3, <1>4, <1>5, <1>6, <1>7, <1>8, <1>9 DEF ReportedStep

----------------------------------------------------------------------------
(* Sessions.                                                               *)

SessionInv ==
  /\ Latches /\ CountersType /\ Cellwise
  /\ serving = "none" => phase = "control"
  /\ damage \notin Unmended => Conserved /\ Known

\* A new session.
LEMMA InitSession == SessionInit => SessionInv
<1> SUFFICES ASSUME SessionInit PROVE SessionInv
  OBVIOUS
<1>1. Latches /\ \A b \in {fd_buff, dx_buff, xm_buff, mw_buff}, i \in {W, R} : ~b[i].valid
  BY EmptyLatch DEF SessionInit, Latches
<1>2. CountersType /\ Dm.N_fetched = 0 /\ Dm.N_retired = 0 /\ flushed = 0
  BY DEF SessionInit, CountersType, NoDiagnostics, Counters
<1>3. Conserved
  <2>1. \A b \in {fd_buff, dx_buff, xm_buff, mw_buff}, i \in {W, R} : N(b, i) = 0
    BY <1>1, CountLatch DEF Latches
  <2>2. phase = "control" BY DEF SessionInit
  <2> QED BY <1>1, <1>2, <2>1, <2>2 DEF Conserved, Room, Pending
<1>4. Cellwise /\ Known
  <2>1. Cellwise BY DEF SessionInit, Cellwise
  <2>2. view.regs = RegData /\ view.mem = Memory BY DEF SessionInit
  <2> QED BY <2>1, <2>2 DEF Known
<1>5. serving = "none" => phase = "control"
  BY DEF SessionInit
<1> QED BY <1>1, <1>2, <1>3, <1>4, <1>5 DEF SessionInv

\* A reset, whatever the last request has left behind.
LEMMA ResetSession ==
  ASSUME SessionInv, serving = "none", NEW c, Reset(c), UNCHANGED serving
  PROVE  SessionInv'
<1>1. phase = "control" /\ phase' = "control"
  BY DEF SessionInv, Reset
<1>2. /\ Latches'
      /\ \A b \in {fd_buff', dx_buff', xm_buff', mw_buff'}, i \in {W, R} : ~b[i].valid
  <2>1. ASSUME NEW b, Latch(b)
        PROVE  /\ Latch(ShiftedTwice(b))
               /\ \A i \in {W, R} : ~ShiftedTwice(b)[i].valid
    <3>1. Latch(Shifted(b)) /\ ~Shifted(b)[W].valid
      BY <2>1, ShiftedLatch
    <3>2. /\ Latch(Shifted(Shifted(b))) /\ ~Shifted(Shifted(b))[W].valid
          /\ Shifted(Shifted(b))[R] = Shifted(b)[W]
      BY <3>1, ShiftedLatch
    <3> QED BY <3>1, <3>2 DEF ShiftedTwice
  <2> QED BY <2>1 DEF SessionInv, Latches, Reset
<1>3. CountersType' /\ Dm'.N_fetched = 0 /\ Dm'.N_retired = 0 /\ flushed' = 0
  BY DEF Reset, CountersType, NoDiagnostics, Counters
<1>4. Conserved'
  <2>1. \A b \in {fd_buff', dx_buff', xm_buff', mw_buff'}, i \in {W, R} : N(b, i) = 0
    BY <1>2, CountLatch DEF Latches
  <2>2. /\ N(fd_buff, R)' = 0 /\ N(dx_buff, R)' = 0
        /\ N(xm_buff, R)' = 0 /\ N(mw_buff, R)' = 0
    BY <2>1 DEF N
  <2> QED BY <1>1, <1>2, <1>3, <2>2 DEF Conserved, Room, Pending
<1>5. Cellwise' /\ Known'
  <2>1. UNCHANGED Memory /\ damage' = IF damage = "none" THEN "none" ELSE "mended"
    BY DEF Reset
  <2>2. view' = [view EXCEPT !.regs = RegData']
    BY DEF Reset
  <2>3. damage' = "none" => view.mem = Memory
    BY <1>1, <2>1 DEF SessionInv, Known, Unmended
  <2>4. view'.mem = view.mem
    BY <2>2
  <2>5. Cellwise'
    BY <2>1 DEF SessionInv, Cellwise, Reset
  <2>6. view'.regs = RegData'
    BY <2>2 DEF SessionInv, Known
  <2> QED BY <1>1, <2>1, <2>3, <2>4, <2>5, <2>6 DEF Known
<1> QED BY <1>1, <1>2, <1>3, <1>4, <1>5 DEF SessionInv

\* A panic in run_memory changes nothing else.
LEMMA AccessPanics ==
  ASSUME SessionInv, phase' = "panicked", serving = "step", serving' = "step",
         UNCHANGED <<RegData, Memory, fd_buff, dx_buff, xm_buff, mw_buff,
                     reports, damage>>
  PROVE  SessionInv'
BY DEF SessionInv, Latches, CountersType, Cellwise, Conserved, Known, reports

\* Every request, and every call of a stage.
LEMMA NextSession ==
  ASSUME SessionInv, [SessionNext]_sessionVars
  PROVE  SessionInv'
<1>1. CASE LoadProgram
  BY <1>1, ResetSession DEF LoadProgram, Request
<1>2. CASE LoadUnparsable
  BY <1>2, ResetSession DEF LoadUnparsable, Request
<1>3. CASE UpdateConfig
  BY <1>3, ResetSession DEF UpdateConfig, Request
<1>4. CASE StepRequest \/ Answer \/ UNCHANGED sessionVars
  <2>1. /\ UNCHANGED <<vars, reports, damage>>
        /\ serving' = "none" => phase = "control"
    BY <1>4 DEF SessionInv, StepRequest, Answer, sessionVars
  <2>2. UNCHANGED <<Latches, CountersType, Cellwise, Conserved, Known, phase>>
    BY <2>1 DEF Latches, CountersType, Cellwise, Conserved, Room, Pending, N, Known,
                vars, reports
  <2> QED BY <2>1, <2>2 DEF SessionInv
<1>5. CASE ExecuteCycle
  <2>1. ReportedStep /\ serving' = "step" /\ UNCHANGED damage
    BY <1>5 DEF ExecuteCycle, InLoop
  <2>2. Step
    BY <2>1 DEF ReportedStep, Step, CountControl, CountWriteback, CountMemory,
       CountExecuteCycle, CountExecute, CountDecode, CountFetch, CountShift, CountNothing
  <2> QED BY <2>1, <2>2, StepLatches, StepCounters, StepConserved, StepCellwise, StepKnown
          DEF SessionInv
<1>6. CASE RunMemoryPanic
  BY <1>6, AccessPanics DEF RunMemoryPanic, InLoop
<1>7. CASE Recover
  <2>1. /\ phase' = "control" /\ damage' \in Unmended
        /\ UNCHANGED <<fd_buff, dx_buff, xm_buff, mw_buff, Dm, flushed, RegData, Memory, view>>
    BY <1>7 DEF Recover, reports, Unmended
  <2> QED BY <2>1 DEF SessionInv, Latches, CountersType, Cellwise
<1>8. CASE Quiet
  BY <1>4, <1>8 DEF Quiet
<1> QED BY <1>1, <1>2, <1>3, <1>4, <1>5, <1>6, <1>7, <1>8 DEF SessionNext

\* The inductive invariant of sessions.
LEMMA SessionInvariant == SessionSpec => []SessionInv
<1>1. SessionInit => SessionInv                       BY InitSession
<1>2. SessionInv /\ [SessionNext]_sessionVars => SessionInv'  BY NextSession
<1> QED BY <1>1, <1>2, PTL DEF SessionSpec

\* No instruction is lost or counted twice: run_fetch, run_writeback and
\* flush (core.go:308-329, 776, 851) account for every one, in every session.
THEOREM AccountTheorem == SessionSpec => []InstructionsAccounted
<1>1. SessionInv => InstructionsAccounted
  <2> SUFFICES ASSUME SessionInv, phase = "control", damage \notin Unmended
               PROVE  Dm.N_fetched = Dm.N_retired + flushed + InFlight
    BY DEF InstructionsAccounted
  <2>1. InFlight = Pending
    BY DEF InFlight, Pending, N
  <2> QED BY <2>1 DEF SessionInv, Conserved
<1> QED BY <1>1, SessionInvariant, PTL

\* A part of b in percent of b.
LEMMA Percentage ==
  ASSUME NEW b \in Nat, b > 0, NEW x \in 0 .. b
  PROVE  (100 * x) \div b \in 0 .. 100
OBVIOUS

\* The prediction accuracy (diagnostic.go:59-68) is a percentage: the
\* unsigned difference of the counters never wraps.
THEOREM AccuracyTheorem == SessionSpec => []AccuracyInRange
<1>1. SessionInv => AccuracyInRange
  <2> SUFFICES ASSUME SessionInv, Dm.N_branch > 0
               PROVE  (100 * Uint32(Dm.N_branch - Dm.N_mispred)) \div Dm.N_branch \in 0 .. 100
    BY DEF AccuracyInRange, CalculatePredictionAccuracy
  <2> DEFINE x == Dm.N_branch - Dm.N_mispred
  <2>1. Dm.N_branch \in Nat /\ x \in 0 .. Dm.N_branch
    BY DEF SessionInv, CountersType, Counters
  <2>2. Uint32(x) \in 0 .. x
    BY <2>1, WordModPositive DEF Uint32
  <2>3. Uint32(x) \in 0 .. Dm.N_branch
    BY <2>1, <2>2
  <2> QED BY <2>1, <2>3, Percentage
<1> QED BY <1>1, SessionInvariant, PTL

\* What the client is told is complete: between cycles, and up to the first
\* panic for the memory, its copy is the machine (interface.go:36-44;
\* core.go:427-457, 703, 792).
THEOREM ReportTheorem == SessionSpec => []ReportsComplete
<1>1. SessionInv => ReportsComplete
  BY DEF SessionInv, Known, ReportsComplete
<1> QED BY <1>1, SessionInvariant, PTL

----------------------------------------------------------------------------
(* Types.  The memory keeps the size of the first configuration: that      *)
(* memory accesses stay inside of it is what IndexPanics decides.          *)

SessionTypes ==
  /\ Core
  /\ Memory \in [DOMAIN Memory -> Byte]
  /\ Memory_diff_addr \subseteq DOMAIN Memory /\ Register_diff_idx \subseteq Reg
  /\ serving \in {"none", "step"} /\ left \in Int

\* A store reaches all of its cells, and without an error, or none.
LEMMA StoredCells ==
  ASSUME NEW addr \in Addr, NEW n \in {1, 2, 4}, config \in Configs, Stored(addr, n) # {}
  PROVE  /\ AccessError(config.Mem_size, addr, n) = NoError
         /\ Stored(addr, n) \subseteq Cells(addr, n)
<1> DEFINE size == config.Mem_size
<1>1. size \in Nat /\ size % 4 = 0
  BY ConfigsAssumption DEF Config, WORD_SIZE
<1>2. addr % n = 0
  BY DEF Stored
<1>3. addr \in Nat /\ Uint32(addr) = addr
  BY WordModPositive DEF Addr, Uint32
<1>4. addr < size
  <2>1. PICK k \in 0 .. n - 1 : \A j \in 0 .. k : Uint32(addr + j) < size
    BY DEF Stored
  <2>2. Uint32(addr + 0) < size
    BY <2>1
  <2> QED BY <1>3, <2>2
<1>5. addr + n <= size
  BY <1>1, <1>2, <1>3, <1>4, AlignedFits
<1>6. ASSUME NEW i \in 0 .. n - 1 PROVE ~(Uint32(addr + i) >= size)
  <2>1. Uint32(addr + i) \in 0 .. addr + i
    BY <1>3, Uint32Below
  <2> HIDE DEF size
  <2> QED BY <1>1, <1>3, <1>5, <2>1
<1>7. AccessError(size, addr, n) = NoError
  BY <1>2, <1>6 DEF AccessError, Cells
<1>8. Stored(addr, n) \subseteq Cells(addr, n)
  BY DEF Stored, Cells
<1> QED BY <1>7, <1>8

\* A cycle, of which no access runs off the memory.
LEMMA StepTypes ==
  ASSUME SessionTypes, ExecuteCycle
  PROVE  SessionTypes'
<1> DEFINE inst == xm_buff[R].inst
           addr == Uint32(inst.result)
           n    == AccessBytes(inst.op)
           size == config.Mem_size
<1>0. /\ Core /\ Memory \in [DOMAIN Memory -> Byte] /\ config \in Configs
      /\ Memory_diff_addr \subseteq DOMAIN Memory /\ Register_diff_idx \subseteq Reg
  BY DEF SessionTypes, Core
<1>1. /\ inst \in Instruction /\ addr \in Addr /\ addr \in Int /\ n \in {1, 2, 4}
      /\ size \in Nat /\ inst.s1 \in Int
  BY <1>0, AccessType
<1>2. /\ ReportedStep /\ Step
      /\ serving' = serving /\ (left' = left \/ (left > 0 /\ left' = left - 1))
  BY DEF ExecuteCycle, ReportedStep, Step, CountControl, CountWriteback, CountMemory,
     CountExecuteCycle, CountExecute, CountDecode, CountFetch, CountShift, CountNothing
<1>3. RunMemory /\ (isLoad(inst) \/ isStore(inst)) /\ AccessError(size, addr, n) = NoError
        => Cells(addr, n) \subseteq DOMAIN Memory
  BY DEF ExecuteCycle, IndexPanics, RunMemory
<1>4. RunMemory => LoadsWord
  <2> SUFFICES ASSUME RunMemory, isLoad(inst)
               PROVE  memoryRead(Memory, size, addr, n) \in Word
    BY DEF LoadsWord
  <2>1. AccessError(size, addr, n) = NoError => Cells(addr, n) \subseteq DOMAIN Memory
    BY <1>3
  <2> HIDE DEF inst, addr, n, size
  <2> QED BY <1>0, <1>1, <2>1, MemoryReadType
<1>5. Core'
  BY <1>0, <1>2, <1>4, StepCore
<1>6. Memory' \in [DOMAIN Memory -> Byte]
  <2>1. memoryWrite(Memory, size, inst.s1, addr, n) \in [DOMAIN Memory -> Byte]
    <3> HIDE DEF inst, addr, n, size
    <3> QED BY <1>0, <1>1, MemoryWriteType
  <2>2. CASE RunMemory
    BY <1>0, <2>1, <2>2 DEF RunMemory
  <2> QED BY <1>0, <1>2, <2>2, MemoryStays
<1>7. Memory_diff_addr' \subseteq DOMAIN Memory
  <2>1. CASE CountMemory
    <3>1. RunMemory
      BY <2>1 DEF CountMemory
    <3>2. isStore(inst) => Stored(addr, n) \subseteq DOMAIN Memory
      <4>1. CASE isStore(inst) /\ Stored(addr, n) # {}
        <5>1. AccessError(size, addr, n) = NoError /\ Stored(addr, n) \subseteq Cells(addr, n)
          <6> HIDE DEF addr, n
          <6> QED BY <1>0, <1>1, <4>1, StoredCells DEF size
        <5> QED BY <1>3, <3>1, <4>1, <5>1
      <4> QED BY <4>1
    <3> QED BY <1>0, <2>1, <3>2 DEF CountMemory
  <2>2. CASE ~CountMemory
    <3>1. Memory_diff_addr' = {} \/ Memory_diff_addr' = Memory_diff_addr
      BY <1>2, <2>2 DEF ReportedStep, CountControl, CountWriteback, CountExecuteCycle,
         CountExecute, CountDecode, CountFetch, CountShift, CountNothing, reports
    <3> QED BY <1>0, <3>1
  <2> QED BY <2>1, <2>2
<1>8. Register_diff_idx' \subseteq Reg
  <2>1. mw_buff[R].inst.Rd \in Reg /\ fd_buff[R].inst.Rd \in Reg
    BY <1>0 DEF Core, Buffers, Pipeline_Buffer, Instruction
  <2>2. \/ Register_diff_idx' = {} \/ Register_diff_idx' = Register_diff_idx
        \/ Register_diff_idx' = Register_diff_idx \cup {mw_buff[R].inst.Rd}
        \/ Register_diff_idx' = Register_diff_idx \cup {fd_buff[R].inst.Rd}
    BY <1>2 DEF ReportedStep, CountControl, CountWriteback, CountMemory, CountExecuteCycle,
       CountExecute, CountDecode, CountFetch, CountShift, CountNothing, reports
  <2> QED BY <1>0, <2>1, <2>2
<1>9. serving' \in {"none", "step"} /\ left' \in Int
  BY <1>2 DEF SessionTypes
<1> QED BY <1>5, <1>6, <1>7, <1>8, <1>9 DEF SessionTypes

\* Resetting keeps the memory as it is.
LEMMA ResetTypes ==
  ASSUME SessionTypes, NEW c \in Configs, Reset(c), UNCHANGED <<serving, left>>,
         NEW code, NEW entry_pc, SetProgram(code, entry_pc),
         code \in Seq(Instruction), \A i \in DOMAIN code : Parsed(code[i]),
         entry_pc \in Addr
  PROVE  SessionTypes'
<1>1. /\ fd_buff \in Buffers /\ dx_buff \in Buffers /\ xm_buff \in Buffers
      /\ mw_buff \in Buffers /\ Unexecuted(fd_buff) /\ Unexecuted(dx_buff)
  BY DEF SessionTypes, Core
<1>2. \A b \in Buffers : ShiftedTwice(b) \in Buffers
  BY ShiftedType DEF ShiftedTwice
<1>3. \A b \in Buffers : Unexecuted(b) => Unexecuted(ShiftedTwice(b))
  BY ShiftedType, KeepsUnexecuted DEF ShiftedTwice
<1>4. /\ fd_buff' \in Buffers /\ dx_buff' \in Buffers /\ xm_buff' \in Buffers
      /\ mw_buff' \in Buffers
      /\ Unexecuted(fd_buff') /\ Unexecuted(dx_buff')
  BY <1>1, <1>2, <1>3 DEF Reset
<1>5. RegData' \in [Reg -> Word] /\ RegBusy' \in [Reg -> Int]
  <2>1. Int32(c.Mem_size) \in Word
    BY ConfigsAssumption, Int32Type DEF Config
  <2> QED BY <2>1, WordIsInt DEF Reset
<1>6. Bp' \in [Slots -> Bp_Entry] /\ \A i \in Slots : Bp'[i].target \in Addr
  BY EmptyBufferType, WordIsInt DEF Reset, ResetPredictor, EmptyBuffer, EmptyEntry
<1>7. control_buff' \in [{W, R} -> Control_Buffer]
  BY WordIsInt DEF Reset, NoSignal, Control_Buffer
<1>8. /\ program' = code /\ pc_init' = entry_pc /\ Pc' = entry_pc /\ config' = c
      /\ stall_map' = {} /\ halt' = FALSE /\ Halted' = FALSE
      /\ Memory_diff_addr' = {} /\ Register_diff_idx' = {}
      /\ UNCHANGED <<Memory, Runtime_error, phase>>
  BY DEF Reset, SetProgram, ResetControl
<1> QED BY <1>4, <1>5, <1>6, <1>7, <1>8 DEF SessionTypes, Core, Unexecuted

LEMMA InitTypes == SessionInit => SessionTypes
<1> SUFFICES ASSUME SessionInit PROVE SessionTypes
  OBVIOUS
<1>1. program \in Seq(Instruction) /\ \A i \in DOMAIN program : Parsed(program[i])
  BY DEF SessionInit
<1>2. RegData \in [Reg -> Word] /\ RegBusy \in [Reg -> Int]
  <2>1. Int32(config.Mem_size) \in Word
    BY ConfigsAssumption, Int32Type DEF Config, SessionInit
  <2> QED BY <2>1, WordIsInt DEF SessionInit
<1>3. Bp \in [Slots -> Bp_Entry] /\ \A i \in Slots : Bp[i].target \in Addr
  BY EmptyBufferType, WordIsInt DEF SessionInit, EmptyBuffer, EmptyEntry
<1>4. control_buff \in [{W, R} -> Control_Buffer]
  BY WordIsInt DEF SessionInit, NoSignal, Control_Buffer
<1>5. Memory \in [DOMAIN Memory -> Byte]
  BY ByteModAssumption DEF SessionInit, Byte
<1>6. /\ config \in Configs /\ pc_init \in Addr /\ Pc \in Addr
      /\ fd_buff \in Buffers /\ dx_buff \in Buffers /\ xm_buff \in Buffers
      /\ mw_buff \in Buffers /\ Unexecuted(fd_buff) /\ Unexecuted(dx_buff)
  BY EmptyType, WordIsInt DEF SessionInit
<1>7. /\ stall_map = {} /\ halt = FALSE /\ Halted = FALSE
      /\ Runtime_error = NoError /\ phase = "control"
      /\ Memory_diff_addr = {} /\ Register_diff_idx = {}
      /\ serving = "none" /\ left = 0
  BY DEF SessionInit
<1>8. Core
  BY <1>1, <1>2, <1>3, <1>4, <1>6, <1>7 DEF Core, MemoryErrors, Phases
<1> QED BY <1>5, <1>7, <1>8 DEF SessionTypes

LEMMA NextTypes ==
  ASSUME SessionTypes, [SessionNext]_sessionVars
  PROVE  SessionTypes'
<1>1. /\ program \in Seq(Instruction) /\ \A i \in DOMAIN program : Parsed(program[i])
      /\ pc_init \in Addr /\ config \in Configs
  BY DEF SessionTypes, Core
<1>2. CASE LoadProgram
  <2>1. PICK p \in Programs : SetProgram(p.code, 4 * p.entry)
    BY <1>2 DEF LoadProgram
  <2>2. Reset(config) /\ UNCHANGED <<serving, left>>
    BY <1>2 DEF LoadProgram
  <2>3. /\ p.code \in Seq(Instruction) /\ \A i \in DOMAIN p.code : Parsed(p.code[i])
        /\ 4 * p.entry \in Addr
    BY ProgramsAssumption
  <2> QED BY <1>1, <2>1, <2>2, <2>3, ResetTypes
<1>3. CASE LoadUnparsable
  BY <1>1, <1>3, ResetTypes DEF LoadUnparsable
<1>4. CASE UpdateConfig
  BY <1>1, <1>4, ResetTypes DEF UpdateConfig
<1>5. ASSUME UNCHANGED <<setup, Pc, RegData, RegBusy, Memory, Bp, control_buff, fd_buff,
                         dx_buff, xm_buff, mw_buff, stall_map, halt, Halted,
                         Runtime_error, reports>>,
             phase' \in Phases, serving' \in {"none", "step"}, left' \in Int
      PROVE  SessionTypes'
  BY <1>5, UnchangedCore DEF SessionTypes, reports
<1>6. CASE StepRequest \/ Answer \/ UNCHANGED sessionVars \/ Quiet
  <2>1. UNCHANGED <<vars, reports>> /\ serving' \in {"none", "step"} /\ left' \in Int
    BY <1>6, StepCountsAssumption
    DEF StepRequest, Answer, Quiet, sessionVars, SessionTypes
  <2> QED BY <1>5, <2>1 DEF vars, setup, SessionTypes, Core
<1>7. CASE ExecuteCycle
  BY <1>7, StepTypes
<1>8. CASE RunMemoryPanic \/ Recover
  BY <1>5, <1>8 DEF RunMemoryPanic, Recover, Phases, SessionTypes
<1> QED BY <1>2, <1>3, <1>4, <1>6, <1>7, <1>8 DEF SessionNext

\* The inductive invariant of the types.
LEMMA SessionTypesInvariant == SessionSpec => []SessionTypes
<1>1. SessionInit => SessionTypes                                BY InitTypes
<1>2. SessionTypes /\ [SessionNext]_sessionVars => SessionTypes'  BY NextTypes
<1> QED BY <1>1, <1>2, PTL DEF SessionSpec

\* The types of a session: whatever configuration a machine is given for the
\* memory it has, registers and cells hold what their Go types say, and the
\* counters, which are unsigned, never run below zero (core.go:137-170, 337,
\* 343; interface.go:36-44).
THEOREM SessionTypesCorrect == SessionSpec => []SessionTypeOK
<1>1. SessionTypes /\ SessionInv => SessionTypeOK
  BY DEF SessionTypes, Core, SessionInv, CountersType, Counters, SessionTypeOK
<1> QED BY <1>1, SessionTypesInvariant, SessionInvariant, PTL
----------------------------------------------------------------------------
(* The cycle that a panic has cut short is begun again.  Its first stages  *)
(* do the same once more, to a machine on which it makes no difference.    *)

\* What is left to do for the first three stages: nothing.
Redirected ==
  "BRANCH" \in control_buff[R].flags => Pc = control_buff[R].branch_target

WrittenBack ==
  LET inst == mw_buff[R].inst IN
  mw_buff[R].valid /\ WritesRd(inst) /\ inst.Rd # 0 => RegData[inst.Rd] = inst.result

StoreDone ==
  LET inst == xm_buff[R].inst IN
  xm_buff[R].valid /\ isStore(inst) =>
    memoryWrite(Memory, config.Mem_size, inst.s1, Uint32(inst.result),
                AccessBytes(inst.op)) = Memory

\* Where the cycle panics.
RunsOffMemory ==
  /\ xm_buff[R].valid
  /\ LET inst == xm_buff[R].inst
         addr == Uint32(inst.result)
         n    == AccessBytes(inst.op)
     IN  /\ isLoad(inst) \/ isStore(inst)
         /\ AccessError(config.Mem_size, addr, n) = NoError
         /\ ~(Cells(addr, n) \subseteq DOMAIN Memory)

PanicsInExecute ==
  dx_buff[R].valid /\ Executed.remaining <= 0 /\ Panics(Executed) /\ StoreDone

CycleSoFar ==
  /\ phase \in {"writeback", "memory", "execute", "panicked"} => Redirected
  /\ phase \in {"memory", "execute", "panicked"} => WrittenBack
  /\ phase = "execute" => StoreDone
  /\ phase = "panicked" => RunsOffMemory \/ PanicsInExecute

Stuck ==
  damage = "stuck" =>
    /\ "FLUSH" \notin control_buff[R].flags
    /\ phase \in {"control", "writeback", "memory", "execute", "panicked"}
    /\ Redirected /\ WrittenBack
    /\ RunsOffMemory \/ PanicsInExecute
    /\ phase = "execute" => PanicsInExecute

FreezeInv == CycleSoFar /\ Stuck

\* To store once more what has been stored changes nothing.
LEMMA StoredAgain ==
  ASSUME NEW D, NEW mem \in [D -> Byte], NEW size, NEW data, NEW addr, NEW n
  PROVE  memoryWrite(memoryWrite(mem, size, data, addr, n), size, data, addr, n)
           = memoryWrite(mem, size, data, addr, n)
<1>1. CASE addr % n # 0
  BY <1>1 DEF memoryWrite
<1>2. CASE addr % n = 0
  <2> DEFINE stored == {i \in 0 .. n - 1 : \A j \in 0 .. i : Uint32(addr + j) < size}
             hit(a) == \E i \in stored : a = Uint32(addr + i)
             byte(a) == ByteOf(data, CHOOSE i \in stored : a = Uint32(addr + i))
             after(m) == [a \in DOMAIN m |-> IF hit(a) THEN byte(a) ELSE m[a]]
  <2>1. \A m : memoryWrite(m, size, data, addr, n) = after(m)
    BY <1>2 DEF memoryWrite
  <2> HIDE DEF stored, hit, byte
  <2>2. after(after(mem)) = after(mem)
    OBVIOUS
  <2> HIDE DEF after
  <2> QED BY <2>1, <2>2
<1> QED BY <1>1, <1>2

\* The instruction in execute is the one of the first attempt.
LEMMA ExecutedAgain ==
  ASSUME UNCHANGED <<config, xm_buff[R], mw_buff[R], dx_buff[R]>>
  PROVE  UNCHANGED Executed /\ (Panics(Executed)' <=> Panics(Executed))
<1>1. \A reg, decoded : getRegValueFromBypass(reg, decoded)' = getRegValueFromBypass(reg, decoded)
  BY DEF getRegValueFromBypass
<1>2. UNCHANGED Executed
  BY <1>1 DEF Executed
<1> QED BY <1>2

\* What a step leaves alone of the facts above.
LEMMA StillRedirected ==
  ASSUME UNCHANGED <<control_buff, Pc>>
  PROVE  Redirected <=> Redirected'
BY DEF Redirected

LEMMA StillWritten ==
  ASSUME UNCHANGED <<mw_buff[R], RegData>>
  PROVE  WrittenBack <=> WrittenBack'
BY DEF WrittenBack

LEMMA StillPanics ==
  ASSUME UNCHANGED <<config, Memory, xm_buff[R], mw_buff[R], dx_buff[R]>>
  PROVE  /\ RunsOffMemory <=> RunsOffMemory'
         /\ StoreDone <=> StoreDone'
         /\ PanicsInExecute <=> PanicsInExecute'
<1>1. StoreDone <=> StoreDone'
  BY DEF StoreDone
<1>2. RunsOffMemory <=> RunsOffMemory'
  BY DEF RunsOffMemory
<1>3. PanicsInExecute <=> PanicsInExecute'
  BY <1>1, ExecutedAgain DEF PanicsInExecute
<1> QED BY <1>1, <1>2, <1>3

Frozen == damage = "stuck" => UNCHANGED <<Pc, RegData, Memory>>

\* run_control jumps where it has jumped before.
LEMMA ControlAgain ==
  ASSUME SessionTypes, FreezeInv, RunControl, UNCHANGED damage
  PROVE  FreezeInv' /\ Frozen
<1>1. /\ phase' = "writeback" /\ UNCHANGED <<config, RegData, Memory, control_buff, xm_buff, mw_buff>>
      /\ "FLUSH" \notin control_buff[R].flags => UNCHANGED dx_buff
      /\ Pc' = IF "BRANCH" \in control_buff[R].flags THEN control_buff[R].branch_target ELSE Pc
  BY DEF RunControl, setup
<1>2. Redirected'
  BY <1>1 DEF Redirected
<1>3. ASSUME damage = "stuck"
      PROVE  /\ "FLUSH" \notin control_buff'[R].flags /\ Pc' = Pc
             /\ WrittenBack' /\ (RunsOffMemory' \/ PanicsInExecute')
  <2>1. /\ "FLUSH" \notin control_buff[R].flags /\ Redirected /\ WrittenBack
        /\ RunsOffMemory \/ PanicsInExecute
    BY <1>3 DEF FreezeInv, Stuck
  <2>2. Pc' = Pc
    BY <1>1, <2>1 DEF Redirected
  <2>3. WrittenBack'
    BY <1>1, <2>1, StillWritten
  <2>4. RunsOffMemory' \/ PanicsInExecute'
    BY <1>1, <2>1, StillPanics
  <2> QED BY <1>1, <2>1, <2>2, <2>3, <2>4
<1> QED BY <1>1, <1>2, <1>3 DEF FreezeInv, CycleSoFar, Stuck, Frozen

\* run_writeback writes what it has written before.
LEMMA WritebackAgain ==
  ASSUME SessionTypes, FreezeInv, RunWriteback, UNCHANGED damage
  PROVE  FreezeInv' /\ Frozen
<1> DEFINE inst == mw_buff[R].inst
<1>1. /\ phase = "writeback" /\ phase' = "memory" /\ mw_buff[R].valid
      /\ UNCHANGED <<config, Pc, Memory, control_buff, dx_buff, xm_buff, mw_buff>>
      /\ RegData' = IF WritesRd(inst) /\ inst.Rd # 0
                    THEN [RegData EXCEPT ![inst.Rd] = inst.result] ELSE RegData
  BY DEF RunWriteback, setup
<1>2. RegData \in [Reg -> Word] /\ inst.Rd \in Reg
  BY DEF SessionTypes, Core, Buffers, Pipeline_Buffer, Instruction
<1>3. Redirected'
  BY <1>1, StillRedirected DEF FreezeInv, CycleSoFar
<1>4. WrittenBack'
  <2> HIDE DEF inst
  <2>1. WritesRd(inst) /\ inst.Rd # 0 => RegData'[inst.Rd] = inst.result
    BY <1>1, <1>2
  <2> QED BY <1>1, <2>1 DEF WrittenBack, inst
<1>5. ASSUME damage = "stuck"
      PROVE  /\ "FLUSH" \notin control_buff'[R].flags /\ RegData' = RegData
             /\ RunsOffMemory' \/ PanicsInExecute'
  <2>1. /\ "FLUSH" \notin control_buff[R].flags /\ WrittenBack
        /\ RunsOffMemory \/ PanicsInExecute
    BY <1>5 DEF FreezeInv, Stuck
  <2>2. RegData' = RegData
    <3>1. WritesRd(inst) /\ inst.Rd # 0 => RegData[inst.Rd] = inst.result
      BY <1>1, <2>1 DEF WrittenBack
    <3> HIDE DEF inst
    <3> QED BY <1>1, <1>2, <3>1
  <2> QED BY <1>1, <2>1, <2>2, StillPanics
<1> QED BY <1>1, <1>3, <1>4, <1>5 DEF FreezeInv, CycleSoFar, Stuck, Frozen

\* run_memory stores what it has stored before, if it comes that far.
LEMMA MemoryAgain ==
  ASSUME SessionTypes, FreezeInv, RunMemory, ~RunsOffMemory, UNCHANGED damage
  PROVE  FreezeInv' /\ Frozen
<1> DEFINE inst == xm_buff[R].inst
           addr == Uint32(inst.result)
           n    == AccessBytes(inst.op)
           size == config.Mem_size
<1>1. /\ phase = "memory" /\ phase' = "execute" /\ xm_buff[R].valid
      /\ UNCHANGED <<config, Pc, RegData, control_buff, dx_buff, xm_buff>>
      /\ mw_buff'[R] = mw_buff[R]
      /\ Memory' = IF isStore(inst) THEN memoryWrite(Memory, size, inst.s1, addr, n)
                   ELSE Memory
  BY DEF RunMemory, setup, Filled, SessionTypes, Core, Buffers, W, R
<1>2. Redirected' /\ WrittenBack'
  BY <1>1, StillRedirected, StillWritten DEF FreezeInv, CycleSoFar
<1>3. StoreDone'
  <2>1. Memory \in [DOMAIN Memory -> Byte]
    BY DEF SessionTypes
  <2>2. memoryWrite(Memory', size, inst.s1, addr, n) = Memory' \/ ~isStore(inst)
    <3> HIDE DEF inst, addr, n, size
    <3> QED BY <1>1, <2>1, StoredAgain
  <2> QED BY <1>1, <2>2 DEF StoreDone
<1>4. ASSUME damage = "stuck"
      PROVE  /\ "FLUSH" \notin control_buff'[R].flags /\ Memory' = Memory
             /\ PanicsInExecute'
  <2>1. "FLUSH" \notin control_buff[R].flags /\ PanicsInExecute
    BY <1>4 DEF FreezeInv, Stuck
  <2>2. Memory' = Memory
    BY <1>1, <2>1 DEF PanicsInExecute, StoreDone
  <2>3. PanicsInExecute'
    BY <1>1, <2>1, <2>2, StillPanics
  <2> QED BY <1>1, <2>1, <2>2, <2>3
<1> QED BY <1>1, <1>2, <1>3, <1>4 DEF FreezeInv, CycleSoFar, Stuck, Frozen

\* Execute panics where it has panicked before; no later stage is reached.
LEMMA ExecuteAgain ==
  ASSUME SessionTypes, FreezeInv, UNCHANGED damage,
         RunExecuteCycle \/ RunExecutePanic \/ RunExecute
  PROVE  FreezeInv' /\ Frozen
<1>1. Executed.remaining \in Int
  <2>1. dx_buff[R].valid
    BY DEF RunExecuteCycle, RunExecutePanic, RunExecute
  <2>2. Executed \in Instruction
    BY <2>1, ExecutedType DEF SessionTypes, SameAs
  <2> QED BY <2>2 DEF Instruction
<1>2. CASE RunExecutePanic
  <2>1. /\ phase = "execute" /\ phase' = "panicked" /\ dx_buff[R].valid
        /\ Executed.remaining <= 0 /\ Panics(Executed)
        /\ UNCHANGED <<config, Pc, RegData, Memory, control_buff, dx_buff, xm_buff, mw_buff>>
    BY <1>2 DEF RunExecutePanic, setup
  <2>2. Redirected /\ WrittenBack /\ PanicsInExecute
    BY <2>1 DEF FreezeInv, CycleSoFar, PanicsInExecute
  <2>3. Redirected' /\ WrittenBack' /\ PanicsInExecute'
    BY <2>1, <2>2, StillRedirected, StillWritten, StillPanics
  <2> QED BY <2>1, <2>3 DEF FreezeInv, CycleSoFar, Stuck, Frozen
<1>3. CASE RunExecuteCycle \/ RunExecute
  <2>1. phase = "execute" /\ phase' = "decode"
    BY <1>3 DEF RunExecuteCycle, RunExecute
  <2>2. ~PanicsInExecute
    BY <1>1, <1>3 DEF RunExecuteCycle, RunExecute, PanicsInExecute
  <2>3. damage # "stuck"
    BY <2>1, <2>2 DEF FreezeInv, Stuck
  <2> QED BY <2>1, <2>3 DEF FreezeInv, CycleSoFar, Stuck, Frozen
<1> QED BY <1>2, <1>3

\* What comes after execute is not reached in a stuck machine.
LEMMA NotReached ==
  ASSUME FreezeInv, UNCHANGED damage, phase \in {"decode", "fetch", "shift"},
         phase' \in {"fetch", "shift", "control"}
  PROVE  FreezeInv' /\ Frozen
<1>1. damage # "stuck"
  BY DEF FreezeInv, Stuck
<1> QED BY <1>1 DEF FreezeInv, CycleSoFar, Stuck, Frozen

\* A stage that is not called has nothing to do again.
LEMMA BubbleAgain ==
  ASSUME SessionTypes, FreezeInv, Bubble, UNCHANGED damage,
         ~(phase = "memory" /\ RunsOffMemory)
  PROVE  FreezeInv' /\ Frozen
<1>1. /\ UNCHANGED <<config, Pc, RegData, Memory, control_buff, dx_buff, xm_buff, mw_buff>>
      /\ \/ phase = "writeback" /\ ~mw_buff[R].valid /\ phase' = "memory"
         \/ phase = "memory"    /\ ~xm_buff[R].valid /\ phase' = "execute"
         \/ phase = "execute"   /\ ~dx_buff[R].valid /\ phase' = "decode"
         \/ phase = "decode" /\ phase' = "fetch"
         \/ phase = "fetch" /\ phase' = "shift"
  BY DEF Bubble, setup
<1>2. CASE phase \in {"decode", "fetch"}
  BY <1>1, <1>2, NotReached
<1>3. /\ (Redirected' <=> Redirected) /\ (WrittenBack' <=> WrittenBack)
      /\ (RunsOffMemory' <=> RunsOffMemory) /\ (StoreDone' <=> StoreDone)
      /\ (PanicsInExecute' <=> PanicsInExecute)
  BY <1>1, StillRedirected, StillWritten, StillPanics
<1>4. CASE phase = "writeback"
  <2>1. WrittenBack
    BY <1>1, <1>4 DEF WrittenBack
  <2> QED BY <1>1, <1>3, <1>4, <2>1 DEF FreezeInv, CycleSoFar, Stuck, Frozen
<1>5. CASE phase = "memory"
  <2>1. StoreDone
    BY <1>1, <1>5 DEF StoreDone
  <2> QED BY <1>1, <1>3, <1>5, <2>1 DEF FreezeInv, CycleSoFar, Stuck, Frozen
<1>6. CASE phase = "execute"
  <2>1. ~PanicsInExecute
    BY <1>1, <1>6 DEF PanicsInExecute
  <2> QED BY <1>1, <1>6, <2>1 DEF FreezeInv, CycleSoFar, Stuck, Frozen
<1> QED BY <1>1, <1>2, <1>4, <1>5, <1>6

\* A cycle, from whichever stage it is at.
LEMMA CycleAgain ==
  ASSUME SessionTypes, FreezeInv, ExecuteCycle
  PROVE  FreezeInv' /\ Frozen
<1>1. /\ Step /\ UNCHANGED damage
      /\ ~(phase = "memory" /\ RunsOffMemory)
  BY DEF ExecuteCycle, ReportedStep, Step, CountControl, CountWriteback, CountMemory,
     CountExecuteCycle, CountExecute, CountDecode, CountFetch, CountShift, CountNothing,
     IndexPanics, RunsOffMemory
<1>2. CASE RunControl    BY <1>1, <1>2, ControlAgain
<1>3. CASE RunWriteback  BY <1>1, <1>3, WritebackAgain
<1>4. CASE RunMemory
  <2>1. ~RunsOffMemory
    BY <1>1, <1>4 DEF RunMemory
  <2> QED BY <1>1, <1>4, <2>1, MemoryAgain
<1>5. CASE RunExecuteCycle \/ RunExecutePanic \/ RunExecute
  BY <1>1, <1>5, ExecuteAgain
<1>6. CASE Bubble        BY <1>1, <1>6, BubbleAgain
<1>7. CASE RunDecodeStall \/ RunDecode \/ RunFetchEnd \/ RunFetch \/ ShiftPipelineBuffers
  <2>1. /\ phase \in {"decode", "fetch", "shift"}
        /\ phase' \in {"fetch", "shift", "control"}
    BY <1>7 DEF RunDecodeStall, RunDecode, RunFetchEnd, RunFetch, ShiftPipelineBuffers
  <2> QED BY <1>1, <2>1, NotReached
<1> QED BY <1>1, <1>2, <1>3, <1>4, <1>5, <1>6, <1>7 DEF Step

\* Every request, and every call of a stage.
LEMMA NextFreeze ==
  ASSUME SessionTypes, SessionInv, FreezeInv, [SessionNext]_sessionVars
  PROVE  /\ FreezeInv'
         /\ damage = "stuck" /\ damage' # "mended" => UNCHANGED <<Pc, RegData, Memory>>
<1>1. CASE LoadProgram \/ LoadUnparsable \/ UpdateConfig
  <2>1. PICK c : Reset(c)
    BY <1>1 DEF LoadProgram, LoadUnparsable, UpdateConfig
  <2>2. phase = "control"
    BY <1>1 DEF LoadProgram, LoadUnparsable, UpdateConfig, Request, SessionInv
  <2>3. phase' = "control" /\ damage' = IF damage = "none" THEN "none" ELSE "mended"
    BY <2>1, <2>2 DEF Reset
  <2> QED BY <2>3 DEF FreezeInv, CycleSoFar, Stuck
<1>2. ASSUME UNCHANGED <<config, Pc, RegData, Memory, control_buff, dx_buff, xm_buff, mw_buff>>
      PROVE  /\ Redirected' <=> Redirected
             /\ WrittenBack' <=> WrittenBack
             /\ RunsOffMemory' <=> RunsOffMemory
             /\ StoreDone' <=> StoreDone
             /\ PanicsInExecute' <=> PanicsInExecute
  BY <1>2, StillRedirected, StillWritten, StillPanics
<1>3. CASE StepRequest \/ Answer \/ Quiet \/ UNCHANGED sessionVars
  <2>1. /\ UNCHANGED <<phase, damage>>
        /\ UNCHANGED <<config, Pc, RegData, Memory, control_buff, dx_buff, xm_buff, mw_buff>>
    BY <1>3 DEF StepRequest, Answer, Quiet, sessionVars, vars, setup
  <2> QED BY <1>2, <2>1 DEF FreezeInv, CycleSoFar, Stuck
<1>4. CASE ExecuteCycle
  BY <1>4, CycleAgain DEF Frozen
<1>5. CASE RunMemoryPanic
  <2>1. /\ phase = "memory" /\ phase' = "panicked" /\ UNCHANGED damage
        /\ UNCHANGED <<config, Pc, RegData, Memory, control_buff, dx_buff, xm_buff, mw_buff>>
        /\ RunsOffMemory
    BY <1>5 DEF RunMemoryPanic, IndexPanics, RunsOffMemory, setup
  <2> QED BY <1>2, <2>1 DEF FreezeInv, CycleSoFar, Stuck
<1>6. CASE Recover
  <2>1. /\ phase = "panicked" /\ phase' = "control"
        /\ UNCHANGED <<config, Pc, RegData, Memory, control_buff, dx_buff, xm_buff, mw_buff>>
        /\ damage' = IF "FLUSH" \in control_buff[R].flags THEN "broken" ELSE "stuck"
    BY <1>6 DEF Recover, setup
  <2> QED BY <1>2, <2>1 DEF FreezeInv, CycleSoFar, Stuck
<1> QED BY <1>1, <1>3, <1>4, <1>5, <1>6 DEF SessionNext

\* A panic leaves the machine in a cycle that panics again at every attempt
\* (handlers.go:141-145; core.go:534, 697, 721): until the next reset no
\* register, no cell and not the program counter changes, unless the cycle
\* begins with a flush.
THEOREM FreezeTheorem == SessionSpec => PanicFreezes
<1>1. SessionInit => FreezeInv
  BY DEF SessionInit, FreezeInv, CycleSoFar, Stuck
<1>2. SessionTypes /\ SessionInv /\ FreezeInv /\ [SessionNext]_sessionVars => FreezeInv'
  BY NextFreeze
<1>3. SessionTypes /\ SessionInv /\ FreezeInv /\ [SessionNext]_sessionVars
        => [damage = "stuck" /\ damage' # "mended"
              => UNCHANGED <<Pc, RegData, Memory>>]_sessionVars
  BY NextFreeze
<1> QED BY <1>1, <1>2, <1>3, SessionTypesInvariant, SessionInvariant, PTL
        DEF SessionSpec, PanicFreezes
=============================================================================
