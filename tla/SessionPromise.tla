--------------------------- MODULE SessionPromise ---------------------------
(***************************************************************************)
(* What Reset promises: a new machine.  Next to the machine of the session *)
(* runs a second one, created by CreateVm at every reset and given the     *)
(* same program; the two take every step together.                         *)
(*                                                                         *)
(* Reset leaves two things of the old run behind: the memory, and the      *)
(* instructions in the drained buffers, which the forwarding paths read    *)
(* without asking whether they are valid.  The history variable tainted    *)
(* says that the run has looked at one of the two; until then the session  *)
(* cannot be told from a new machine.                                      *)
(***************************************************************************)
EXTENDS VmSession

VARIABLES
  newPc, newRegData, newRegBusy, newMemory, newBp, newcontrol_buff,
  newfd_buff, newdx_buff, newxm_buff, newmw_buff,
  newstall_map, newhalt, newHalted, newRuntime_error, newphase,
  filled,     \* history: read sides that have held an instruction of this run
  written,    \* history: addresses this run has stored to
  tainted     \* history: this run has seen something of an old one

new == <<newPc, newRegData, newRegBusy, newMemory, newBp, newcontrol_buff,
         newfd_buff, newdx_buff, newxm_buff, newmw_buff,
         newstall_map, newhalt, newHalted, newRuntime_error, newphase>>

New == INSTANCE Pipeline WITH
  Pc <- newPc, RegData <- newRegData, RegBusy <- newRegBusy,
  Memory <- newMemory, Bp <- newBp, control_buff <- newcontrol_buff,
  fd_buff <- newfd_buff, dx_buff <- newdx_buff, xm_buff <- newxm_buff,
  mw_buff <- newmw_buff, stall_map <- newstall_map, halt <- newhalt,
  Halted <- newHalted, Runtime_error <- newRuntime_error, phase <- newphase

history     == <<filled, written, tainted>>
promiseVars == <<sessionVars, new, history>>

PromiseInit ==
  /\ SessionInit
  /\ newPc = Pc /\ newRegData = RegData /\ newRegBusy = RegBusy
  /\ newMemory = Memory /\ newBp = Bp /\ newcontrol_buff = control_buff
  /\ newfd_buff = fd_buff /\ newdx_buff = dx_buff
  /\ newxm_buff = xm_buff /\ newmw_buff = mw_buff
  /\ newstall_map = stall_map /\ newhalt = halt /\ newHalted = Halted
  /\ newRuntime_error = Runtime_error /\ newphase = phase
  /\ filled = {} /\ written = {} /\ tainted = FALSE

\* What CreateVm and SetProgram make of the settings chosen in this step.
CreateNew ==
  /\ newPc' = pc_init'
  /\ newRegData' = [r \in Reg |-> IF r = SP THEN Int32(config'.Mem_size) ELSE 0]
  /\ newRegBusy' = [r \in Reg |-> 0]
  /\ newMemory' = [a \in 0 .. config'.Mem_size - 1 |-> 0]
  /\ newBp' = EmptyBuffer
  /\ newcontrol_buff' = [i \in {W, R} |-> NoSignal]
  /\ newfd_buff' = EmptyPipelineBuffer /\ newdx_buff' = EmptyPipelineBuffer
  /\ newxm_buff' = EmptyPipelineBuffer /\ newmw_buff' = EmptyPipelineBuffer
  /\ newstall_map' = {} /\ newhalt' = FALSE /\ newHalted' = FALSE
  /\ newRuntime_error' = NoError /\ newphase' = "control"
  /\ filled' = {} /\ written' = {} /\ tainted' = FALSE

----------------------------------------------------------------------------
(* Looking at the old run.                                                 *)

\* A forwarding path picks the instruction of an old run for reg.
TakesStale(reg, near, far) ==
  /\ reg > 0 /\ config.Forwarding_enabled
  /\ \/ near.stale /\ Forwards(near.inst, reg)
     \/ far.stale /\ Forwards(far.inst, reg) /\ ~Forwards(near.inst, reg)

Source(name, buff) == [stale |-> name \notin filled, inst |-> buff[R].inst]

\* checkRegisterForwardDecode, for an operand that is still to be written.
DecodeLeaks ==
  /\ phase = "decode" /\ fd_buff[R].valid
  /\ LET rs == getSourceRegisters(fd_buff[R].inst) IN
     \E i \in 1 .. 2 :
       /\ rs[i] > 0 /\ RegBusy[rs[i]] > 0
       /\ TakesStale(rs[i], Source("dx", dx_buff), Source("xm", xm_buff))

\* getRegValueFromBypass.
ExecuteLeaks ==
  /\ phase = "execute" /\ dx_buff[R].valid
  /\ dx_buff[R].inst.remaining = ExTotal(dx_buff[R].inst)
  /\ LET rs == getAluInputRegisters(dx_buff[R].inst) IN
     \E i \in 1 .. 2 :
       TakesStale(rs[i], Source("xm", xm_buff), Source("mw", mw_buff))

\* A load of bytes that an old run has stored.
MemoryLeaks ==
  /\ phase = "memory" /\ xm_buff[R].valid /\ isLoad(xm_buff[R].inst)
  /\ LET addr == Uint32(xm_buff[R].inst.result)
         n    == AccessBytes(xm_buff[R].inst.op)
     IN  /\ AccessError(config.Mem_size, addr, n) = NoError
         /\ \E a \in Cells(addr, n) \ written : Memory[a] # 0

----------------------------------------------------------------------------
(* Both machines.                                                          *)

ResetBoth == (LoadProgram \/ LoadUnparsable \/ UpdateConfig) /\ CreateNew

\* The new machine is not followed any further than to the first leak.
CycleBoth ==
  /\ ExecuteCycle
  /\ tainted' = (tainted \/ DecodeLeaks \/ ExecuteLeaks \/ MemoryLeaks)
  /\ IF tainted' THEN UNCHANGED new ELSE New!Step
  /\ filled' = IF phase # "shift" THEN filled
               ELSE filled \cup (IF dx_buff[W].valid THEN {"dx"} ELSE {})
                           \cup (IF xm_buff[W].valid THEN {"xm"} ELSE {})
                           \cup (IF mw_buff[W].valid THEN {"mw"} ELSE {})
  /\ written' = IF phase = "memory" THEN written \cup Memory_diff_addr' ELSE written

\* The memory that Reset leaves may also be too short.
IndexPanicLeaks ==
  /\ RunMemoryPanic
  /\ tainted' = TRUE /\ UNCHANGED <<new, filled, written>>

RecoverBoth ==
  /\ Recover
  /\ newphase' = IF tainted THEN newphase ELSE "control"
  /\ UNCHANGED <<newPc, newRegData, newRegBusy, newMemory, newBp, newcontrol_buff,
                 newfd_buff, newdx_buff, newxm_buff, newmw_buff, newstall_map,
                 newhalt, newHalted, newRuntime_error, history>>

RequestOnly == (StepRequest \/ Answer \/ Quiet) /\ UNCHANGED <<new, history>>

PromiseNext == ResetBoth \/ CycleBoth \/ IndexPanicLeaks \/ RecoverBoth \/ RequestOnly

PromiseSpec == PromiseInit /\ [][PromiseNext]_promiseVars

----------------------------------------------------------------------------
(* The promise.                                                            *)

Alike(buff, newbuff) ==
  \A i \in {W, R} : /\ buff[i].valid = newbuff[i].valid
                    /\ buff[i].valid => buff[i] = newbuff[i]

\* "Shifting twice totally empties" the buffers (core.go:167) and everything
\* else that Reset does (core.go:137-170) give a machine that computes what a
\* new one computes, cycle by cycle and with the same errors, as long as it
\* has not read the memory or a forwarded value of an old run; a panic in the
\* old run, or in the middle of this one, makes no difference.
AsNew ==
  ~tainted =>
    /\ phase = newphase
    /\ Pc = newPc /\ RegData = newRegData /\ RegBusy = newRegBusy
    /\ Bp = newBp /\ control_buff = newcontrol_buff
    /\ stall_map = newstall_map /\ halt = newhalt /\ Halted = newHalted
    /\ Alike(fd_buff, newfd_buff) /\ Alike(dx_buff, newdx_buff)
    /\ Alike(xm_buff, newxm_buff) /\ Alike(mw_buff, newmw_buff)
    /\ \A a \in written : Memory[a] = newMemory[a]
    /\ Dm.N_cycle > 0 => Runtime_error = newRuntime_error
=============================================================================
