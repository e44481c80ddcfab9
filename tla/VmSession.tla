------------------------------ MODULE VmSession ------------------------------
(***************************************************************************)
(* A machine that is used again and again: a session of the REST server.   *)
(* CreateVm, Reset, SetProgram and LoadProgramFromStr of vm/core.go, called *)
(* as the handlers of rest/handlers.go call them.  A handler holds the      *)
(* server's mutex from beginning to end, so that requests come one after    *)
(* the other (see RestServer); all of them but step are one action here.    *)
(*                                                                         *)
(* A step request runs ExecuteCycle in a loop.  A Go panic ends it in the   *)
(* middle of a cycle; net/http recovers, and the session lives on with the  *)
(* machine as it was left.                                                 *)
(***************************************************************************)
EXTENDS Diagnostics

CONSTANTS StepCounts,   \* the values of the url parameter n
          MaxRequests,  \* bound: requests per session
          MaxCycles     \* bound: cycles between two resets

ASSUME StepCountsAssumption ==
  StepCounts \subseteq Int /\ MaxRequests \in Nat /\ MaxCycles \in Nat

VARIABLES
  serving,    \* "none", or "step" while the loop of stepProgramHandler runs
  left,       \* its variable i
  requests,   \* how many requests there were
  damage      \* history of panics: "none"; until a reset "stuck", or "broken"
              \* if the panic came after a flush; then "mended"

sessionVars == <<vars, reports, serving, left, requests, damage>>

\* CreateVm: a machine without a program.
SessionInit ==
  /\ config \in Configs
  /\ program = << >> /\ pc_init = 0 /\ Pc = 0
  /\ RegData = [r \in Reg |-> IF r = SP THEN Int32(config.Mem_size) ELSE 0]
  /\ RegBusy = [r \in Reg |-> 0]
  /\ Memory = [a \in 0 .. config.Mem_size - 1 |-> 0]
  /\ Bp = EmptyBuffer
  /\ control_buff = [i \in {W, R} |-> NoSignal]
  /\ fd_buff = EmptyPipelineBuffer /\ dx_buff = EmptyPipelineBuffer
  /\ xm_buff = EmptyPipelineBuffer /\ mw_buff = EmptyPipelineBuffer
  /\ stall_map = {}
  /\ halt = FALSE /\ Halted = FALSE
  /\ Runtime_error = NoError
  /\ phase = "control"
  /\ Dm = NoDiagnostics
  /\ Memory_diff_addr = {} /\ Register_diff_idx = {}
  /\ flushed = 0
  /\ view = [regs |-> RegData, mem |-> Memory]
  /\ serving = "none" /\ left = 0
  /\ requests = 0
  /\ damage = "none"

----------------------------------------------------------------------------
(* Reset.                                                                  *)

\* shiftPipelineBuffers, twice: what was written last stays, not valid.
ShiftedTwice(buff) == Shifted(Shifted(buff))

\* A slip: the flags of the pipeline are forgotten.
resetControlLightly == UNCHANGED <<stall_map, halt>> /\ Halted' = FALSE

ResetControl   == stall_map' = {} /\ halt' = FALSE /\ Halted' = FALSE
ResetPredictor == Bp' = EmptyBuffer

\* Neither the memory nor Runtime_error is touched.  The client knows that
\* registers start from zero.
Reset(c) ==
  /\ config' = c
  /\ RegData' = [r \in Reg |-> IF r = SP THEN Int32(c.Mem_size) ELSE 0]
  /\ RegBusy' = [r \in Reg |-> 0]
  /\ ResetPredictor /\ ResetControl
  /\ fd_buff' = ShiftedTwice(fd_buff) /\ dx_buff' = ShiftedTwice(dx_buff)
  /\ xm_buff' = ShiftedTwice(xm_buff) /\ mw_buff' = ShiftedTwice(mw_buff)
  /\ control_buff' = [i \in {W, R} |-> NoSignal]
  /\ Dm' = NoDiagnostics
  /\ Memory_diff_addr' = {} /\ Register_diff_idx' = {}
  /\ flushed' = 0
  /\ view' = [view EXCEPT !.regs = RegData']
  /\ damage' = IF damage = "none" THEN "none" ELSE "mended"
  /\ UNCHANGED <<Memory, Runtime_error, phase>>

SetProgram(code, entry_pc) ==
  program' = code /\ pc_init' = entry_pc /\ Pc' = entry_pc

----------------------------------------------------------------------------
(* Requests.                                                               *)

Request ==
  /\ serving = "none" /\ requests < MaxRequests
  /\ requests' = requests + 1

LoadProgram ==
  /\ Request
  /\ Reset(config)
  /\ \E p \in Programs : SetProgram(p.code, 4 * p.entry)
  /\ UNCHANGED <<serving, left>>

\* A program that does not parse: by then the machine has been reset.
LoadUnparsable ==
  /\ Request
  /\ Reset(config)
  /\ SetProgram(program, pc_init)
  /\ UNCHANGED <<serving, left>>

UpdateConfig ==
  /\ Request
  /\ \E c \in Configs : Reset(c)
  /\ SetProgram(program, pc_init)
  /\ UNCHANGED <<serving, left>>

\* A negative n runs until the machine halts.
StepRequest ==
  /\ Request
  /\ \E n \in StepCounts : left' = n
  /\ serving' = "step"
  /\ UNCHANGED <<vars, reports, damage>>

----------------------------------------------------------------------------
(* The loop of stepProgramHandler.                                         *)

InLoop ==
  /\ serving = "step"
  /\ phase # "control" \/ (left # 0 /\ ~Halted /\ Dm.N_cycle < MaxCycles)

\* After a Reset with a larger memory size, Memory is shorter than the bound
\* that memoryRead and memoryWrite check.
IndexPanics ==
  /\ phase = "memory" /\ xm_buff[R].valid
  /\ LET inst == xm_buff[R].inst
         addr == Uint32(inst.result)
         n    == AccessBytes(inst.op)
     IN  /\ isLoad(inst) \/ isStore(inst)
         /\ AccessError(config.Mem_size, addr, n) = NoError
         /\ ~(Cells(addr, n) \subseteq DOMAIN Memory)

ExecuteCycle ==
  /\ InLoop /\ ~IndexPanics
  /\ ReportedStep
  /\ left' = IF phase = "shift" /\ left > 0 THEN left - 1 ELSE left
  /\ UNCHANGED <<serving, requests, damage>>

\* Nothing has been stored: an aligned access never crosses the end of Memory.
RunMemoryPanic ==
  /\ InLoop /\ IndexPanics
  /\ phase' = "panicked"
  /\ UNCHANGED <<setup, Pc, RegData, RegBusy, Memory, Bp, control_buff, fd_buff,
                 dx_buff, xm_buff, mw_buff, stall_map, halt, Halted, Runtime_error,
                 reports, serving, left, requests, damage>>

\* A slip: an access that panics is dropped.
RecoverDropping ==
  /\ serving = "step" /\ phase = "panicked"
  /\ phase' = "control"
  /\ serving' = "none" /\ left' = 0
  /\ damage' = IF "FLUSH" \in control_buff[R].flags THEN "broken" ELSE "stuck"
  /\ xm_buff' = Drained(xm_buff)
  /\ UNCHANGED <<setup, Pc, RegData, RegBusy, Memory, Bp, control_buff, fd_buff,
                 dx_buff, mw_buff, stall_map, halt, Halted, Runtime_error, reports, requests>>

\* The request is aborted; the next call of ExecuteCycle will start with
\* run_control again, on the buffers of the unfinished cycle.
Recover ==
  /\ serving = "step" /\ phase = "panicked"
  /\ phase' = "control"
  /\ serving' = "none" /\ left' = 0
  /\ damage' = IF "FLUSH" \in control_buff[R].flags THEN "broken" ELSE "stuck"
  /\ UNCHANGED <<setup, Pc, RegData, RegBusy, Memory, Bp, control_buff, fd_buff,
                 dx_buff, xm_buff, mw_buff, stall_map, halt, Halted, Runtime_error,
                 reports, requests>>

Answer ==
  /\ serving = "step" /\ phase = "control" /\ (left = 0 \/ Halted)
  /\ serving' = "none" /\ left' = 0
  /\ UNCHANGED <<vars, reports, requests, damage>>

\* The session is over, or a program runs on that is not followed further.
Quiet ==
  /\ \/ serving = "none" /\ requests = MaxRequests
     \/ serving = "step" /\ phase = "control" /\ Dm.N_cycle >= MaxCycles
  /\ UNCHANGED sessionVars

SessionNext ==
  \/ LoadProgram \/ LoadUnparsable \/ UpdateConfig \/ StepRequest
  \/ ExecuteCycle \/ RunMemoryPanic \/ Recover \/ Answer
  \/ Quiet

SessionSpec == SessionInit /\ [][SessionNext]_sessionVars

----------------------------------------------------------------------------
(* Invariants and properties.                                              *)

\* Cycles that a panic has cut short.
Unmended == {"stuck", "broken"}

\* Counters do not run below zero, registers hold words, whatever a request
\* finds and leaves behind.
SessionTypeOK ==
  /\ Dm \in [{"N_cycle", "N_fetched", "N_retired", "N_stalls", "N_forwards",
              "N_branch", "N_mispred"} -> Nat]
  /\ Memory_diff_addr \subseteq DOMAIN Memory /\ Register_diff_idx \subseteq Reg
  /\ RegData \in [Reg -> Word] /\ \A a \in DOMAIN Memory : Memory[a] \in Byte
  /\ Pc \in Addr /\ config \in Configs
  /\ stall_map \subseteq {"RAW", "BRANCH"}
  /\ Runtime_error \in MemoryErrors /\ phase \in Phases
  /\ serving \in {"none", "step"} /\ left \in Int
  /\ serving = "none" => phase = "control"

\* No instruction is lost or counted twice: every fetched one has retired, is
\* in flight, or was flushed (core.go:337, 343, 776, 851 and 308-329), in
\* every run that no panic has cut short.
InstructionsAccounted ==
  phase = "control" /\ damage \notin Unmended =>
    Dm.N_fetched = Dm.N_retired + flushed + InFlight

\* The accuracy is a percentage: mispredictions never exceed branches, so the
\* unsigned difference does not wrap (diagnostic.go:59-68), although
\* SetProgram resets some of the counters and not these.
AccuracyInRange == CalculatePredictionAccuracy \in 0 .. 100

\* Between cycles, a client that applies the changes in every state it was
\* sent has the registers and the memory of the machine (interface.go:36-44;
\* core.go:427-457, 792, 703): no change is left out of a report.  After a
\* panic the answer of a whole request is lost, and what it stored is never
\* reported.
ReportsComplete ==
  phase = "control" /\ damage \notin Unmended =>
    view.regs = RegData /\ (damage = "none" => view.mem = Memory)

\* A panic leaves the machine in the middle of a cycle, and the next request
\* starts that cycle again (handlers.go:141-145).  It panics again, and until
\* the next reset the client sees no effect of it: nothing moves, unless a
\* flush of the first attempt, which took back a halt, is carried out by the
\* second.
PanicFreezes ==
  [][damage = "stuck" /\ damage' # "mended"
       => UNCHANGED <<Pc, RegData, Memory>>]_sessionVars
=============================================================================
