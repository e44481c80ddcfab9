------------------------- MODULE PipelineRefinement -------------------------
(***************************************************************************)
(* What the five-stage machine promises: the sequential machine Isa.  An   *)
(* instruction takes effect when it passes run_memory; until then it can   *)
(* be flushed, after that only its write-back is due.                      *)
(*                                                                         *)
(* The promise is not kept unconditionally.  The history variable          *)
(* anomalies collects the situations in which the control logic goes       *)
(* wrong, each defined by its cause; as long as there is none, every step  *)
(* of the pipeline is a step of Isa or changes nothing there.              *)
(***************************************************************************)
EXTENDS Pipeline

VARIABLE anomalies

----------------------------------------------------------------------------
(* The situations, as predicates on the state just before the call.        *)

\* Fetch overwrites the target that execute has just asked for.
LostRedirect ==
  /\ phase = "fetch" /\ FetchEnabled /\ ~AtEnd
  /\ Guess.kind = "jump" /\ "BRANCH" \in control_buff[W].flags

\* A flush only takes back the halt although a wrong-path instruction has
\* already been decoded.
SwallowedFlush ==
  /\ phase = "control" /\ "FLUSH" \in control_buff[R].flags
  /\ halt /\ dx_buff[R].valid

\* Decode takes the value of an older instruction to be forwardable although
\* the newest writer of the register is a load still in ID/EX.
LoadShadow ==
  /\ phase = "decode" /\ fd_buff[R].valid /\ ~shouldStallDecode(fd_buff[R].inst)
  /\ dx_buff[R].valid /\ isLoad(dx_buff[R].inst)
  /\ LET rs == getSourceRegisters(fd_buff[R].inst) IN
     dx_buff[R].inst.Rd \in {rs[1], rs[2]} \ {0}

\* An indirect jump that fetch followed to a known target takes the stall
\* of a younger branch for its own.
ForeignStall ==
  /\ phase = "execute" /\ dx_buff[R].valid /\ dx_buff[R].inst.op = "jalr"
  /\ "BRANCH" \in stall_map /\ fd_buff[R].valid

NewAnomalies ==
  (IF LostRedirect    THEN {"lost_redirect"}    ELSE {}) \cup
  (IF SwallowedFlush  THEN {"swallowed_flush"}  ELSE {}) \cup
  (IF LoadShadow      THEN {"load_shadow"}      ELSE {}) \cup
  (IF ForeignStall    THEN {"foreign_stall"}    ELSE {})

ObservedInit == Init /\ anomalies = {}
ObservedNext == Next /\ anomalies' = anomalies \cup NewAnomalies
ObservedSpec == ObservedInit /\ [][ObservedNext]_<<vars, anomalies>>
FairObservedSpec == ObservedSpec /\ WF_<<vars, anomalies>>(Step /\ ObservedNext)

----------------------------------------------------------------------------
(* The refinement mapping.                                                 *)

\* The youngest instruction that has passed run_memory.
Youngest == mw_buff[W]

WrittenBack(regs, buff) ==
  IF buff.valid /\ WritesRd(buff.inst) /\ buff.inst.Rd # 0
  THEN [regs EXCEPT ![buff.inst.Rd] = buff.inst.result] ELSE regs

AbstractRegs ==
  IF Runtime_error # NoError THEN RegData
  ELSE WrittenBack(WrittenBack(RegData, mw_buff[R]), Youngest)

AbstractPc ==
  IF Youngest.inst.op = "nop" THEN pc_init
  ELSE IF Runtime_error # NoError THEN Youngest.pc
  ELSE NextPc(Youngest.inst, Youngest.pc)

AbstractStatus ==
  IF Runtime_error # NoError THEN Runtime_error
  ELSE IF phase = "panicked" THEN "panicked"
  ELSE IF Halted THEN "ended" ELSE "running"

Sequential == INSTANCE Isa WITH
  code <- program, mem_size <- config.Mem_size,
  pc <- AbstractPc, regs <- AbstractRegs, mem <- Memory, status <- AbstractStatus

\* Every configuration computes what the sequential machine computes, with
\* precise faults: nothing younger than a faulting instruction takes effect
\* (ExecuteCycle, core.go:821-887, and everything it calls).
RefinesIsa ==
  /\ Sequential!Init
  /\ [][anomalies' # {} \/ Sequential!Next]_(Sequential!isa)

\* The same with no excuse.
SameInEveryConfiguration ==
  Sequential!Init /\ [][Sequential!Next]_(Sequential!isa)

\* Which anomaly needs what: a program without indirect jumps meets none when
\* it runs without prediction and without forwarding, and each feature only
\* brings in its own (run_fetch, flush and shouldStallDecode, core.go:273-390).
PossibleAnomalies ==
  (IF config.Bp_enabled THEN {"lost_redirect", "swallowed_flush"} ELSE {})
    \cup (IF config.Forwarding_enabled THEN {"load_shadow"} ELSE {})

AnomaliesNeedFeatures ==
  (\A i \in DOMAIN program : program[i].op # "jalr") =>
    anomalies \subseteq PossibleAnomalies
=============================================================================
