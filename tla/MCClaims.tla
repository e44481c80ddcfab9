------------------------------ MODULE MCClaims ------------------------------
(* What comments and tests of the repository say of the pipeline and the   *)
(* code does not do: one small program for each.                           *)
EXTENDS MCPipeline

\* "flushes the IF/ID and ID/EX pipeline buffers" (core.go:301).
FlushEmptiesBuffers ==
  [][phase = "control" /\ phase' = "writeback" /\ "FLUSH" \in control_buff[R].flags
       => ~fd_buff'[R].valid /\ ~dx_buff'[R].valid]_vars

\* "If our prediction was not correct do the correct branch" (core.go:623):
\* a flush comes with the address that really follows the branch, which has
\* moved on to EX/MEM.
FlushGoesToOutcome ==
  phase = "control" /\ "FLUSH" \in control_buff[R].flags =>
    control_buff[R].branch_target = NextPc(xm_buff[R].inst, xm_buff[R].pc)

\* At the end of the program _halt is set "so that execution stops when the
\* pipeline is drained" (core.go:334-335): a program without a backward jump
\* comes to its end.
Ends == <>Finished

----------------------------------------------------------------------------
\* A branch not taken, one instruction from the end: executed twice.
BranchAtEnd == {Program(<<Inst("bne", 0, 0, 8), Inst("addi", 1, 1, 4)>>)}

\* The exit of a loop of two instructions is lost, so it runs once more.
TightLoop == {Loop(4, << >>, << >>)}

\* The load is newer than the addi whose value is forwarded.
LoadAfterAlu == {Program(<<Inst("addi", 1, 1, 4), Inst("lw", 1, 0, 0),
                           Inst("add", 3, 1, 1)>>)}

\* The wrong-path store waits for register 1 when it is flushed.
WaitingStore == {Program(<<Inst("addi", 1, 1, 4), Inst("beq", 0, 0, 8),
                           Inst("sw", 1, 0, 0)>>)}

\* A routine that returns to a conditional branch, called in a loop.
ReturnToBranch ==
  {Program(<<Inst("addi", 3, 0, 3), Inst("jal", 1, 20, 0),
             Inst("bne", 3, 0, 4), Inst("addi", 3, 3, -1), Inst("bne", 3, 0, -12),
             TheEnd, Inst("jalr", 0, 1, 0)>>)}

Predicting == Settings({2}, {TRUE}, {TRUE})
Forwarding == Settings({1}, {FALSE}, {TRUE})
Plain      == Settings({1}, {FALSE}, {FALSE})
=============================================================================
