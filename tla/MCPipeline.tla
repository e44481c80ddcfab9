----------------------------- MODULE MCPipeline -----------------------------
(* Every program of three instructions over a menu that has each kind of   *)
(* dependence, fault and jump, under every configuration; and a family of  *)
(* longer programs with loops and calls, which warm up the predictor.      *)
EXTENDS PipelineRefinement, Alu

Inst(op, a, b, c) == newInstruction(op, a, b, c)
TheEnd == Inst("end", 0, 0, 0)

\* The parser puts an "end" at index 0 and starts at index 1.
Program(body) == [code |-> <<TheEnd>> \o body, entry |-> 1]

Settings(widths, predicted, forwarded) ==
  {[Mem_size |-> 8, Bp_nbit |-> n, Forwarding_enabled |-> f, Bp_enabled |-> b] :
     n \in widths, f \in forwarded, b \in predicted}

----------------------------------------------------------------------------
(* Short programs.  Register 0 is zero, 2 is sp = 8, 1 and 3 are general.  *)

Menu == {
  Inst("addi", 1, 1, 4), Inst("add", 3, 1, 3), Inst("mul", 3, 1, 1),
  Inst("div", 3, 3, 1),                         \* panics on zero
  Inst("lw", 1, 0, 0), Inst("lb", 3, -4, 2),    \* 0(zero), -4(sp)
  Inst("lw", 1, 2, 0),                          \* unaligned
  Inst("sw", 1, 4, 0), Inst("sw", 3, 0, 2),     \* 4(zero), out of bounds
  Inst("beq", 1, 0, 8), Inst("bne", 1, 3, -8),
  Inst("jal", 3, 8, 0), Inst("jalr", 3, 1, 4)}

ShortPrograms == {Program(body) : body \in [1 .. 3 -> Menu]}
EverySetting  == Settings({1}, BOOLEAN, BOOLEAN)

----------------------------------------------------------------------------
(* Loops and calls.                                                        *)

Work == {Inst("lw", 1, 0, 0), Inst("sw", 1, 0, 0), Inst("mul", 1, 1, 1),
         Inst("jal", 0, 8, 0), Inst("beq", 1, 0, 8), Inst("blt", 1, 3, 8),
         Inst("bge", 0, 3, -4)}

Bodies == {<< >>} \cup {<<x>> : x \in Work} \cup {<<x, y>> : x, y \in Work}
Tails  == {<< >>, <<Inst("addi", 1, 1, 1)>>,
           <<Inst("lw", 1, 0, 0), Inst("addi", 1, 1, 1)>>}

\* Count register 3 down from k around a body.
Loop(k, body, tail) ==
  Program(<<Inst("addi", 3, 0, k)>> \o body
          \o <<Inst("addi", 3, 3, -1), Inst("bne", 3, 0, -4 * (Len(body) + 1))>>
          \o tail)

\* A subroutine called in a loop; the caller returns through register 1.
CallLoop(k, x, routine) ==
  Program(<<Inst("addi", 3, 0, k), Inst("jal", 1, 20, 0), x,
            Inst("addi", 3, 3, -1), Inst("bne", 3, 0, -12), TheEnd>>
          \o routine \o <<Inst("jalr", 0, 1, 0)>>)

\* The same indirect jump taken from two places to two targets.
TwoCalls(there, x, routine, u) ==
  Program(<<Inst("addi", 1, 0, 12), Inst("jal", 0, 20, 0), x,
            Inst("addi", 1, 0, there), Inst("jal", 0, 8, 0), TheEnd>>
          \o routine \o <<Inst("jalr", 3, 1, 0), Inst("addi", 1, 1, 1), u>>)

Routines == {<< >>, <<Inst("lw", 2, 0, 0)>>, <<Inst("mul", 2, 2, 2)>>,
             <<Inst("beq", 3, 0, 8)>>}

LongPrograms ==
  {Loop(4, body, tail) : body \in Bodies, tail \in Tails}
  \cup {Loop(2, <<x>>, tail) : x \in Work, tail \in Tails}
  \cup {CallLoop(k, x, routine) : k \in {2, 3}, x \in Work, routine \in Routines}
  \cup {TwoCalls(there, x, routine, u) :
           there \in {24, 32, 36}, routine \in Routines,
           x \in {Inst("add", 1, 3, 3), Inst("sw", 3, 0, 0)},
           u \in {Inst("addi", 3, 3, 1), Inst("bge", 0, 0, 4)}}
LongSettings == Settings({1}, BOOLEAN, BOOLEAN) \cup Settings({2}, {TRUE}, {TRUE})
=============================================================================
