------------------------------ MODULE Pipeline ------------------------------
(***************************************************************************)
(* The five-stage machine of vm/core.go.  ExecuteCycle calls run_control   *)
(* and then the stages from the last to the first; here every call is an   *)
(* action, and phase says which call comes next.  A pipeline buffer has a  *)
(* side that is written in this cycle (W) and a side that is read (R);     *)
(* ShiftPipelineBuffers moves W to R at the end of the cycle.              *)
(*                                                                         *)
(* The state of the Go struct Vm that only feeds reports (Dm, cycle_info,  *)
(* the diff arrays) is left out: no stage reads it, except Program_size,   *)
(* which is the length of program.                                         *)
(***************************************************************************)
EXTENDS Instructions, BranchPredictor, Sequences

CONSTANTS Programs,   \* parsed programs: [code: Seq of instructions, entry: index]
          Configs     \* the settings a client may choose (Vm_Config)

Config == [Mem_size: Nat, Bp_nbit: Nat,
           Forwarding_enabled: BOOLEAN, Bp_enabled: BOOLEAN]

\* Well-formed programs as the parser lays them out, and what CreateConfig
\* accepts.
ASSUME ProgramsAssumption ==
  \A p \in Programs :
    /\ p.code \in Seq(Instruction)
    /\ \A i \in DOMAIN p.code : Parsed(p.code[i])
    /\ p.entry \in Nat /\ 4 * p.entry \in Addr

ASSUME ConfigsAssumption ==
  \A c \in Configs : /\ c \in Config
                     /\ c.Mem_size % WORD_SIZE = 0
                     /\ MaxCounter(c.Bp_nbit) \in Nat

VARIABLES
  program, config, pc_init,        \* chosen once
  Pc, RegData, RegBusy, Memory, Bp,
  control_buff, fd_buff, dx_buff, xm_buff, mw_buff,
  stall_map, halt, Halted, Runtime_error,
  phase

setup == <<program, config, pc_init>>
vars  == <<program, config, pc_init, Pc, RegData, RegBusy, Memory, Bp,
           control_buff, fd_buff, dx_buff, xm_buff, mw_buff,
           stall_map, halt, Halted, Runtime_error, phase>>

W == 0   \* the index of the side a stage writes
R == 1   \* the index of the side a stage reads

Pipeline_Buffer == [pc: Addr, inst: Instruction, valid: BOOLEAN]
Control_Buffer  == [branch_target: Addr, flags: SUBSET {"BRANCH", "FLUSH"}]

NoSignal == [branch_target |-> 0, flags |-> {}]
Drained(buff) == [i \in {W, R} |-> [buff[i] EXCEPT !.valid = FALSE]]
Filled(buff, pc, inst) ==
  [buff EXCEPT ![W] = [pc |-> pc, inst |-> inst, valid |-> TRUE]]
Shifted(buff) ==
  [i \in {W, R} |-> IF i = R THEN buff[W] ELSE [buff[W] EXCEPT !.valid = FALSE]]

EmptyPipelineBuffer ==
  [i \in {W, R} |-> [pc |-> 0, inst |-> ZeroInstruction, valid |-> FALSE]]

Program_size == Len(program)
max_counter  == MaxCounter(config.Bp_nbit)

Init ==
  /\ \E p \in Programs : program = p.code /\ pc_init = 4 * p.entry
  /\ config \in Configs
  /\ Pc = pc_init
  /\ RegData = [r \in Reg |-> IF r = SP THEN Int32(config.Mem_size) ELSE 0]
  /\ RegBusy = [r \in Reg |-> 0]
  /\ Memory = [a \in 0 .. config.Mem_size - 1 |-> 0]
  /\ Bp = EmptyBuffer
  /\ control_buff = [i \in {W, R} |-> NoSignal]
  /\ fd_buff = EmptyPipelineBuffer /\ dx_buff = EmptyPipelineBuffer
  /\ xm_buff = EmptyPipelineBuffer /\ mw_buff = EmptyPipelineBuffer
  /\ stall_map = {}
  /\ halt = FALSE /\ Halted = FALSE
  /\ Runtime_error = NoError
  /\ phase = "control"

----------------------------------------------------------------------------
(* run_control and flush.                                                  *)

\* A slip: the flushed instruction keeps its register busy.
flushForgetsBusy ==
  IF halt
  THEN halt' = FALSE /\ UNCHANGED <<RegBusy, fd_buff, dx_buff>>
  ELSE fd_buff' = Drained(fd_buff) /\ dx_buff' = Drained(dx_buff)
       /\ UNCHANGED <<RegBusy, halt>>

\* A flush that finds _halt set only takes the halt back.
flush ==
  IF halt
  THEN /\ halt' = FALSE
       /\ UNCHANGED <<RegBusy, fd_buff, dx_buff>>
  ELSE LET d_inst == dx_buff[R].inst IN
       /\ RegBusy' = IF WritesRd(d_inst)
                     THEN [RegBusy EXCEPT ![d_inst.Rd] = @ - 1] ELSE RegBusy
       /\ fd_buff' = Drained(fd_buff)
       /\ dx_buff' = Drained(dx_buff)
       /\ UNCHANGED halt

RunControl ==
  /\ phase = "control" /\ ~Halted
  /\ phase' = "writeback"
  /\ Runtime_error' = NoError
  /\ LET cb == control_buff[R] IN
     /\ IF "BRANCH" \in cb.flags
        THEN Pc' = cb.branch_target /\ stall_map' = stall_map \ {"BRANCH"}
        ELSE UNCHANGED <<Pc, stall_map>>
     /\ IF "FLUSH" \in cb.flags
        THEN flush ELSE UNCHANGED <<halt, RegBusy, fd_buff, dx_buff>>
  /\ UNCHANGED <<setup, RegData, Memory, Bp, control_buff, xm_buff, mw_buff, Halted>>

----------------------------------------------------------------------------
(* run_writeback and run_memory.                                           *)

RunWriteback ==
  /\ phase = "writeback" /\ mw_buff[R].valid
  /\ phase' = "memory"
  /\ LET inst == mw_buff[R].inst IN
     IF WritesRd(inst)
     THEN /\ RegBusy' = [RegBusy EXCEPT ![inst.Rd] = @ - 1]
          /\ RegData' = IF inst.Rd = 0 THEN RegData
                        ELSE [RegData EXCEPT ![inst.Rd] = inst.result]
     ELSE UNCHANGED <<RegBusy, RegData>>
  /\ UNCHANGED <<setup, Pc, Memory, Bp, control_buff, fd_buff, dx_buff, xm_buff,
                 mw_buff, stall_map, halt, Halted, Runtime_error>>

\* An unaligned read, and no other error, also sets _halt.
RunMemory ==
  /\ phase = "memory" /\ xm_buff[R].valid
  /\ phase' = "execute"
  /\ LET inst  == xm_buff[R].inst
         addr  == Uint32(inst.result)
         n     == AccessBytes(inst.op)
         error == IF isLoad(inst) \/ isStore(inst)
                  THEN AccessError(config.Mem_size, addr, n) ELSE NoError
     IN  /\ Memory' = IF isStore(inst)
                      THEN memoryWrite(Memory, config.Mem_size, inst.s1, addr, n)
                      ELSE Memory
         /\ Runtime_error' = IF error = NoError THEN Runtime_error ELSE error
         /\ halt' = (halt \/ (isLoad(inst) /\ error = "unaligned"))
         /\ mw_buff' = Filled(mw_buff, xm_buff[R].pc,
              IF isLoad(inst)
              THEN [inst EXCEPT !.result =
                      memoryRead(Memory, config.Mem_size, addr, n)]
              ELSE inst)
  /\ UNCHANGED <<setup, Pc, RegData, RegBusy, Bp, control_buff, fd_buff, dx_buff,
                 xm_buff, stall_map, Halted>>

----------------------------------------------------------------------------
(* run_execute.                                                            *)

Forwards(inst, reg) == WritesRd(inst) /\ ~isLoad(inst) /\ inst.Rd = reg

\* A slip: the older of two values wins.
oldestFromBypass(reg, decoded) ==
  IF reg <= 0 \/ ~config.Forwarding_enabled THEN decoded
  ELSE IF Forwards(mw_buff[R].inst, reg) THEN mw_buff[R].inst.result
  ELSE IF Forwards(xm_buff[R].inst, reg) THEN xm_buff[R].inst.result
  ELSE decoded

\* The ALU input for reg: from EX/MEM, from MEM/WB, or as read in decode.
getRegValueFromBypass(reg, decoded) ==
  IF reg <= 0 \/ ~config.Forwarding_enabled THEN decoded
  ELSE IF Forwards(xm_buff[R].inst, reg) THEN xm_buff[R].inst.result
  ELSE IF Forwards(mw_buff[R].inst, reg) THEN mw_buff[R].inst.result
  ELSE decoded

\* The instruction in execute, its inputs latched in its first cycle there.
Executed ==
  LET inst == dx_buff[R].inst
      regs == getAluInputRegisters(inst)
      latched == IF inst.remaining = ExTotal(inst)
                 THEN [inst EXCEPT !.s1 = getRegValueFromBypass(regs[1], inst.s1),
                                   !.s2 = getRegValueFromBypass(regs[2], inst.s2)]
                 ELSE inst
  IN  [latched EXCEPT !.remaining = @ - 1]

\* A multi-cycle instruction stays in ID/EX.
RunExecuteCycle ==
  /\ phase = "execute" /\ dx_buff[R].valid
  /\ Executed.remaining > 0
  /\ phase' = "decode"
  /\ dx_buff' = Filled(dx_buff, dx_buff[R].pc, Executed)
  /\ UNCHANGED <<setup, Pc, RegData, RegBusy, Memory, Bp, control_buff, fd_buff,
                 xm_buff, mw_buff, stall_map, halt, Halted, Runtime_error>>

\* A run-time panic of Go leaves the cycle unfinished.
RunExecutePanic ==
  /\ phase = "execute" /\ dx_buff[R].valid
  /\ Executed.remaining <= 0 /\ Panics(Executed)
  /\ phase' = "panicked"
  /\ UNCHANGED <<setup, Pc, RegData, RegBusy, Memory, Bp, control_buff, fd_buff,
                 dx_buff, xm_buff, mw_buff, stall_map, halt, Halted, Runtime_error>>

\* What the stage tells run_control, and whether it trains the predictor.
Signal(target, flags) ==
  control_buff' = [control_buff EXCEPT ![W] =
                     [branch_target |-> target, flags |-> @.flags \cup flags]]
Learn(pc, target, taken) == Bp' = update(Bp, max_counter, pc, target, taken)

\* A slip: without prediction, only a taken branch is announced.
ResolveTakenBranch(inst, pc, target, taken) ==
  IF config.Bp_enabled
  THEN /\ Learn(pc, target, taken)
       /\ IF UpdateCorrect(Bp, max_counter, pc, target, taken)
          THEN UNCHANGED control_buff
          ELSE Signal(NextPc(inst, pc), {"BRANCH", "FLUSH"})
  ELSE /\ UNCHANGED Bp
       /\ IF taken THEN Signal(target, {"BRANCH"}) ELSE UNCHANGED control_buff

ResolveBranch(inst, pc, target, taken) ==
  LET correct == /\ config.Bp_enabled
                 /\ UpdateCorrect(Bp, max_counter, pc, target, taken)
  IN  /\ IF config.Bp_enabled THEN Learn(pc, target, taken) ELSE UNCHANGED Bp
      /\ IF correct THEN UNCHANGED control_buff
         ELSE Signal(NextPc(inst, pc),
                     IF config.Bp_enabled THEN {"BRANCH", "FLUSH"} ELSE {"BRANCH"})

\* Slips: the stall is not answered, and a known target is always trusted.
ResolveJalrSilently(pc, target) ==
  UNCHANGED control_buff /\ Learn(pc, target, TRUE)
ResolveJalrTrusting(pc, target) ==
  IF "BRANCH" \in stall_map
  THEN Signal(target, {"BRANCH"}) /\ Learn(pc, target, TRUE)
  ELSE UNCHANGED <<control_buff, Bp>>

ResolveJalr(pc, target) ==
  LET old == getTarget(Bp, pc) IN
  IF "BRANCH" \in stall_map
  THEN Signal(target, {"BRANCH"}) /\ Learn(pc, target, TRUE)
  ELSE IF old.valid /\ old.target # target
  THEN Signal(target, {"BRANCH", "FLUSH"}) /\ Learn(pc, target, TRUE)
  ELSE UNCHANGED <<control_buff, Bp>>

RunExecute ==
  /\ phase = "execute" /\ dx_buff[R].valid
  /\ Executed.remaining <= 0 /\ ~Panics(Executed)
  /\ phase' = "decode"
  /\ LET inst   == Executed
         pc     == dx_buff[R].pc
         target == BranchTarget(inst, pc)
     IN  /\ \/ /\ isConditionalBranch(inst)
               /\ ResolveBranch(inst, pc, target, Taken(inst))
            \/ inst.op = "jalr" /\ ResolveJalr(pc, target)
            \/ /\ ~isConditionalBranch(inst) /\ inst.op # "jalr"
               /\ UNCHANGED <<control_buff, Bp>>
         /\ xm_buff' = Filled(xm_buff, pc,
                              [inst EXCEPT !.result = Result(inst, pc)])
  /\ UNCHANGED <<setup, Pc, RegData, RegBusy, Memory, fd_buff, dx_buff, mw_buff,
                 stall_map, halt, Halted, Runtime_error>>

----------------------------------------------------------------------------
(* run_decode.                                                             *)

\* A slip: the setting is not consulted.
forwardsInEverySetting(reg) ==
  reg <= 0 \/ Forwards(dx_buff[R].inst, reg) \/ Forwards(xm_buff[R].inst, reg)

checkRegisterForwardDecode(reg) ==
  \/ reg <= 0
  \/ /\ config.Forwarding_enabled
     /\ Forwards(dx_buff[R].inst, reg) \/ Forwards(xm_buff[R].inst, reg)

\* A slip: a multi-cycle instruction in ID/EX is not waited for.
shouldStallOnRegisters(inst) ==
  LET rs == getSourceRegisters(inst)
      busy(reg) == reg > 0 /\ RegBusy[reg] > 0
  IN  \/ busy(rs[1]) /\ (isStore(inst) \/ ~checkRegisterForwardDecode(rs[1]))
      \/ busy(rs[2]) /\ ~checkRegisterForwardDecode(rs[2])

\* The datum of a store is not an ALU input and cannot be forwarded.
shouldStallDecode(inst) ==
  LET rs == getSourceRegisters(inst)
      busy(reg) == reg > 0 /\ RegBusy[reg] > 0
  IN  \/ dx_buff[W].valid
      \/ busy(rs[1]) /\ (isStore(inst) \/ ~checkRegisterForwardDecode(rs[1]))
      \/ busy(rs[2]) /\ ~checkRegisterForwardDecode(rs[2])

RunDecodeStall ==
  /\ phase = "decode" /\ fd_buff[R].valid
  /\ shouldStallDecode(fd_buff[R].inst)
  /\ phase' = "fetch"
  /\ stall_map' = stall_map \cup {"RAW"}
  /\ fd_buff' = [fd_buff EXCEPT ![W] = fd_buff[R]]
  /\ UNCHANGED <<setup, Pc, RegData, RegBusy, Memory, Bp, control_buff, dx_buff,
                 xm_buff, mw_buff, halt, Halted, Runtime_error>>

RunDecode ==
  LET inst == fd_buff[R].inst
      pc   == fd_buff[R].pc
  IN
  /\ phase = "decode" /\ fd_buff[R].valid
  /\ ~shouldStallDecode(inst)
  /\ phase' = "fetch"
  /\ stall_map' = stall_map \ {"RAW"}
  /\ dx_buff' = Filled(dx_buff, pc, Decoded(inst, RegData))
  /\ RegBusy' = IF WritesRd(inst) THEN [RegBusy EXCEPT ![inst.Rd] = @ + 1]
                ELSE RegBusy
  /\ Pc' = IF inst.op = "jal" THEN Uint32(pc + inst.Rs1) ELSE Pc
  /\ UNCHANGED <<setup, RegData, Memory, Bp, control_buff, fd_buff, xm_buff,
                 mw_buff, halt, Halted, Runtime_error>>

----------------------------------------------------------------------------
(* run_fetch.                                                              *)

\* A slip: only branch stalls hold fetch back.
FetchUnlessBranch ==
  Pc \div 4 <= Program_size /\ ~halt /\ "BRANCH" \notin stall_map

FetchEnabled == Pc \div 4 <= Program_size /\ ~halt /\ stall_map = {}

Fetched == program[(Pc \div 4) + 1]
AtEnd   == IF Pc \div 4 < Program_size THEN Fetched.op = "end" ELSE TRUE

RunFetchEnd ==
  /\ phase = "fetch" /\ FetchEnabled /\ AtEnd
  /\ phase' = "shift"
  /\ halt' = TRUE
  /\ UNCHANGED <<setup, Pc, RegData, RegBusy, Memory, Bp, control_buff, fd_buff,
                 dx_buff, xm_buff, mw_buff, stall_map, Halted, Runtime_error>>

\* Where fetch goes on after the instruction at Pc: at a target it knows,
\* nowhere until the branch is resolved, or at the next instruction.
Guess ==
  LET old == getTarget(Bp, Pc)
      p   == predict(Bp, max_counter, Pc)
  IN  CASE Fetched.op = "jalr" ->
             IF old.valid THEN [kind |-> "jump", target |-> old.target]
             ELSE [kind |-> "stall", target |-> 0]
        [] isConditionalBranch(Fetched) ->
             IF ~config.Bp_enabled THEN [kind |-> "stall", target |-> 0]
             ELSE IF p.taken THEN [kind |-> "jump", target |-> p.target]
             ELSE [kind |-> "next", target |-> 0]
        [] OTHER -> [kind |-> "next", target |-> 0]

RunFetch ==
  /\ phase = "fetch" /\ FetchEnabled /\ ~AtEnd
  /\ phase' = "shift"
  /\ IF Guess.kind = "jump" THEN Signal(Guess.target, {"BRANCH"})
     ELSE UNCHANGED control_buff
  /\ stall_map' = IF Guess.kind = "stall" THEN stall_map \cup {"BRANCH"}
                  ELSE stall_map
  /\ fd_buff' = Filled(fd_buff, Pc, [Fetched EXCEPT !.remaining = ExTotal(Fetched)])
  /\ Pc' = Uint32(Pc + 4)
  /\ UNCHANGED <<setup, RegData, RegBusy, Memory, Bp, dx_buff, xm_buff, mw_buff,
                 halt, Halted, Runtime_error>>

----------------------------------------------------------------------------
(* The cycle.                                                              *)

\* A stage whose buffer is empty is not called.
Bubble ==
  /\ \/ phase = "writeback" /\ ~mw_buff[R].valid /\ phase' = "memory"
     \/ phase = "memory"    /\ ~xm_buff[R].valid /\ phase' = "execute"
     \/ phase = "execute"   /\ ~dx_buff[R].valid /\ phase' = "decode"
     \/ phase = "decode"    /\ ~fd_buff[R].valid /\ phase' = "fetch"
     \/ phase = "fetch"     /\ ~FetchEnabled     /\ phase' = "shift"
  /\ UNCHANGED <<setup, Pc, RegData, RegBusy, Memory, Bp, control_buff, fd_buff,
                 dx_buff, xm_buff, mw_buff, stall_map, halt, Halted, Runtime_error>>

\* The end of ExecuteCycle.
ShiftPipelineBuffers ==
  /\ phase = "shift"
  /\ phase' = "control"
  /\ fd_buff' = Shifted(fd_buff) /\ dx_buff' = Shifted(dx_buff)
  /\ xm_buff' = Shifted(xm_buff) /\ mw_buff' = Shifted(mw_buff)
  /\ control_buff' = [i \in {W, R} |-> IF i = R THEN control_buff[W] ELSE NoSignal]
  /\ Halted' = \/ Runtime_error # NoError
               \/ /\ halt
                  /\ ~fd_buff[W].valid /\ ~dx_buff[W].valid
                  /\ ~xm_buff[W].valid /\ ~mw_buff[W].valid
  /\ UNCHANGED <<setup, Pc, RegData, RegBusy, Memory, Bp, stall_map, halt,
                 Runtime_error>>

Step ==
  \/ RunControl \/ RunWriteback \/ RunMemory
  \/ RunExecuteCycle \/ RunExecutePanic \/ RunExecute
  \/ RunDecodeStall \/ RunDecode \/ RunFetchEnd \/ RunFetch
  \/ Bubble \/ ShiftPipelineBuffers

\* RunPipelined stops calling ExecuteCycle once Halted is set.
Finished == phase = "panicked" \/ (phase = "control" /\ Halted)
Stopped  == Finished /\ UNCHANGED vars

Next == Step \/ Stopped

Spec     == Init /\ [][Next]_vars
FairSpec == Spec /\ WF_vars(Step)

----------------------------------------------------------------------------
(* Invariants and properties.                                              *)

Phases == {"control", "writeback", "memory", "execute", "decode", "fetch",
           "shift", "panicked"}
MemoryErrors == {NoError, "unaligned", "out_of_bounds"}

\* Every field holds what its Go type and its use allow: registers signed
\* words, memory bytes, Pc and branch targets 32-bit addresses.
TypeOK ==
  /\ program \in Seq(Instruction) /\ pc_init \in Addr
  /\ \A i \in DOMAIN program : Parsed(program[i])
  /\ config \in Configs
  /\ Pc \in Addr
  /\ RegData \in [Reg -> Word] /\ RegBusy \in [Reg -> Int]
  /\ Memory \in [0 .. config.Mem_size - 1 -> Byte]
  /\ Bp \in [Slots -> Bp_Entry] /\ \A i \in Slots : Bp[i].target \in Addr
  /\ control_buff \in [{W, R} -> Control_Buffer]
  /\ fd_buff \in [{W, R} -> Pipeline_Buffer] /\ dx_buff \in [{W, R} -> Pipeline_Buffer]
  /\ xm_buff \in [{W, R} -> Pipeline_Buffer] /\ mw_buff \in [{W, R} -> Pipeline_Buffer]
  /\ stall_map \subseteq {"RAW", "BRANCH"}
  /\ halt \in BOOLEAN /\ Halted \in BOOLEAN
  /\ Runtime_error \in MemoryErrors
  /\ phase \in Phases

\* A flush has thrown away the instruction that decode was stalling on
\* (core.go:323-326), and nothing else ever takes the stall back.
Wedged == "RAW" \in stall_map /\ ~fd_buff[R].valid

\* The decoded instructions that still have to write register r.
Holds(buffer, r) ==
  IF buffer.valid /\ WritesRd(buffer.inst) /\ buffer.inst.Rd = r THEN 1 ELSE 0

PendingWriters(r) ==
  CASE phase \in {"control", "writeback"} ->
         Holds(dx_buff[R], r) + Holds(xm_buff[R], r) + Holds(mw_buff[R], r)
    [] phase = "memory" -> Holds(dx_buff[R], r) + Holds(xm_buff[R], r)
    [] phase \in {"execute", "panicked"} ->
         Holds(dx_buff[R], r) + Holds(mw_buff[W], r)
    [] OTHER ->
         Holds(dx_buff[W], r) + Holds(xm_buff[W], r) + Holds(mw_buff[W], r)

\* Busy "count[s] how many instructions still want to write" the register
\* (core.go:16-19): no increment is lost and none is taken back twice,
\* whatever is flushed, stalled or held in execute in between.
Scoreboard ==
  Wedged \/ \A r \in Reg \ {0} : RegBusy[r] = PendingWriters(r)

\* A stage never writes over an instruction that was put into the same
\* buffer earlier in the cycle: stalled and multi-cycle instructions, which
\* are fed back to the write side, are not lost (core.go:406-410, 512-517).
NoOverwrite ==
  [][/\ fd_buff[W].valid /\ phase # "shift" => fd_buff'[W] = fd_buff[W]
     /\ dx_buff[W].valid /\ phase # "shift" => dx_buff'[W] = dx_buff[W]
     /\ xm_buff[W].valid /\ phase # "shift" => xm_buff'[W] = xm_buff[W]]_vars

\* A branch stall is never orphaned: at the start of a cycle the branch that
\* has to resolve it is still in front of execute, or its answer is due in
\* this very cycle (core.go:371, 386 against 797-800).
IsJump(buffer) ==
  buffer.valid /\ (isConditionalBranch(buffer.inst) \/ buffer.inst.op = "jalr")

BranchStallHasOwner ==
  phase = "control" /\ ~Halted /\ "BRANCH" \in stall_map =>
    IsJump(fd_buff[R]) \/ IsJump(dx_buff[R]) \/ "BRANCH" \in control_buff[R].flags

\* The machine is past the end of the program, where run_fetch is not even
\* called (core.go:850), and nothing is left that could bring it back.
Lost ==
  /\ phase = "control" /\ Pc \div 4 > Program_size /\ ~halt
  /\ ~fd_buff[R].valid /\ ~dx_buff[R].valid /\ ~xm_buff[R].valid

\* An instruction takes effect in this cycle.
Committing == phase = "execute" /\ mw_buff[W].valid

\* The only ways to stop making progress: the end, a wedge, or a jump beyond
\* the end of the program.  No combination of stalls locks the machine up.
Progress == []<>(Finished \/ Committing \/ Wedged \/ Lost)
=============================================================================
