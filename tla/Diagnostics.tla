----------------------------- MODULE Diagnostics -----------------------------
(***************************************************************************)
(* What the machine reports of itself (vm/diagnostic.go, vm/interface.go   *)
(* and the places in vm/core.go that feed them): the counters of           *)
(* Diagnostics_Manager and the lists of cells changed in the last cycle.   *)
(* Every action of Pipeline is taken together with what it reports.        *)
(***************************************************************************)
EXTENDS Pipeline

VARIABLES
  Dm,                  \* the counters
  Memory_diff_addr, Register_diff_idx,   \* sets: order and repetition mean nothing
  flushed,             \* history: instructions thrown away (Flushed_pcs)
  view                 \* a client that applies every Vm_State it is sent

reports == <<Dm, Memory_diff_addr, Register_diff_idx, flushed, view>>

NoDiagnostics ==
  [N_cycle |-> 0, N_fetched |-> 0, N_retired |-> 0, N_stalls |-> 0,
   N_forwards |-> 0, N_branch |-> 0, N_mispred |-> 0]

Plus(condition) == IF condition THEN 1 ELSE 0

----------------------------------------------------------------------------
(* The actions of Pipeline with their reports.                             *)

\* A slip: a flush that only takes the halt back is counted as well.
DiscardedAnyway ==
  IF "FLUSH" \in control_buff[R].flags
  THEN Plus(fd_buff[R].valid) + Plus(dx_buff[R].valid) ELSE 0

\* Instructions that this call of run_control throws away.
Discarded ==
  IF "FLUSH" \in control_buff[R].flags /\ ~halt
  THEN Plus(fd_buff[R].valid) + Plus(dx_buff[R].valid) ELSE 0

CountControl ==
  /\ RunControl
  /\ Dm' = [Dm EXCEPT !.N_cycle = @ + 1]
  /\ Memory_diff_addr' = {} /\ Register_diff_idx' = {}
  /\ flushed' = flushed + Discarded
  /\ UNCHANGED view

CountWriteback ==
  /\ RunWriteback
  /\ Dm' = [Dm EXCEPT !.N_retired = @ + 1]
  /\ LET inst == mw_buff[R].inst IN
     Register_diff_idx' = Register_diff_idx \cup
       (IF WritesRd(inst) /\ inst.Rd # 0 THEN {inst.Rd} ELSE {})
  /\ UNCHANGED <<Memory_diff_addr, flushed, view>>

\* Slips: cells are noted before they are checked, or only the first is.
StoredUnchecked(addr, n) == Cells(addr, n)
StoredFirst(addr, n) ==
  IF addr % n # 0 \/ addr >= config.Mem_size THEN {} ELSE {addr}

\* The cells that memoryWrite reaches before it finds an error.
Stored(addr, n) ==
  IF addr % n # 0 THEN {}
  ELSE {Uint32(addr + i) : i \in {k \in 0 .. n - 1 :
          \A j \in 0 .. k : Uint32(addr + j) < config.Mem_size}}

CountMemory ==
  /\ RunMemory
  /\ LET inst == xm_buff[R].inst IN
     Memory_diff_addr' = Memory_diff_addr \cup
       (IF isStore(inst)
        THEN Stored(Uint32(inst.result), AccessBytes(inst.op)) ELSE {})
  /\ UNCHANGED <<Dm, Register_diff_idx, flushed, view>>

\* Counted at the end of a cycle that execute has not left by a panic.
Bypassed(reg) ==
  /\ reg > 0 /\ config.Forwarding_enabled
  /\ Forwards(xm_buff[R].inst, reg) \/ Forwards(mw_buff[R].inst, reg)

Forwarded ==
  LET inst == dx_buff[R].inst
      regs == getAluInputRegisters(inst)
  IN  IF inst.remaining = ExTotal(inst)
      THEN Plus(Bypassed(regs[1])) + Plus(Bypassed(regs[2])) ELSE 0

CountExecuteCycle ==
  /\ RunExecuteCycle
  /\ Dm' = [Dm EXCEPT !.N_forwards = @ + Forwarded]
  /\ UNCHANGED <<Memory_diff_addr, Register_diff_idx, flushed, view>>

\* A slip: only taken branches are counted.
BranchesTaken == Plus(isConditionalBranch(Executed) /\ Taken(Executed))

Branches == Plus(isConditionalBranch(Executed))
Mispredictions ==
  LET inst == Executed
      pc   == dx_buff[R].pc
  IN  Plus(/\ isConditionalBranch(inst) /\ config.Bp_enabled
           /\ ~UpdateCorrect(Bp, max_counter, pc, BranchTarget(inst, pc), Taken(inst)))

CountExecute ==
  /\ RunExecute
  /\ Dm' = [Dm EXCEPT !.N_forwards = @ + Forwarded, !.N_branch = @ + Branches,
                      !.N_mispred = @ + Mispredictions]
  /\ UNCHANGED <<Memory_diff_addr, Register_diff_idx, flushed, view>>

CountDecode ==
  /\ RunDecode
  /\ LET inst == fd_buff[R].inst IN
     Register_diff_idx' = Register_diff_idx \cup
       (IF WritesRd(inst) THEN {inst.Rd} ELSE {})
  /\ UNCHANGED <<Dm, Memory_diff_addr, flushed, view>>

CountFetch ==
  /\ RunFetch
  /\ Dm' = [Dm EXCEPT !.N_fetched = @ + 1]
  /\ UNCHANGED <<Memory_diff_addr, Register_diff_idx, flushed, view>>

\* Counted before the buffers are shifted; GetState follows every cycle.
CountShift ==
  /\ ShiftPipelineBuffers
  /\ Dm' = [Dm EXCEPT !.N_stalls = @ + Plus(stall_map # {})]
  /\ view' = [regs |-> [r \in Reg |-> IF r \in Register_diff_idx
                                       THEN RegData[r] ELSE view.regs[r]],
              mem  |-> [a \in DOMAIN Memory |-> IF a \in Memory_diff_addr
                                       THEN Memory[a] ELSE view.mem[a]]]
  /\ UNCHANGED <<Memory_diff_addr, Register_diff_idx, flushed>>

\* The end of the program is counted and discounted (core.go:337, 343, 851).
CountNothing ==
  /\ RunExecutePanic \/ RunDecodeStall \/ RunFetchEnd \/ Bubble
  /\ UNCHANGED reports

ReportedStep ==
  \/ CountControl \/ CountWriteback \/ CountMemory
  \/ CountExecuteCycle \/ CountExecute \/ CountDecode \/ CountFetch
  \/ CountShift \/ CountNothing

----------------------------------------------------------------------------
(* What the reports say.                                                   *)

\* The counters are unsigned.
CalculatePredictionAccuracy ==
  IF config.Bp_enabled /\ Dm.N_branch > 0
  THEN (100 * Uint32(Dm.N_branch - Dm.N_mispred)) \div Dm.N_branch ELSE 0

InFlight == Plus(fd_buff[R].valid) + Plus(dx_buff[R].valid)
              + Plus(xm_buff[R].valid) + Plus(mw_buff[R].valid)
=============================================================================
