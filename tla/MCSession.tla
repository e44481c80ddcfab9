----------------------------- MODULE MCSession -----------------------------
(* Programs that leave something behind and programs that would notice, in *)
(* sessions of a few requests.  Register 0 is zero, 2 is sp.               *)
EXTENDS SessionPromise, Alu

Inst(op, a, b, c) == newInstruction(op, a, b, c)
TheEnd == Inst("end", 0, 0, 0)
ProgramOf(body) == [code |-> <<TheEnd>> \o body, entry |-> 1]

SessionPrograms == {
  \* writes a register last
  ProgramOf(<<Inst("sw", 2, 4, 0), Inst("addi", 1, 0, 4)>>),
  \* reads a register first
  ProgramOf(<<Inst("add", 3, 1, 1), Inst("sw", 3, 0, 0)>>),
  \* a load first, and its value at once
  ProgramOf(<<Inst("lw", 1, 4, 0), Inst("add", 3, 1, 2)>>),
  \* a loop that trains the predictor
  ProgramOf(<<Inst("addi", 3, 3, 4), Inst("blt", 3, 2, -4), Inst("addi", 1, 0, 1),
              Inst("sb", 3, 0, 1)>>),
  \* a branch that is not taken, and whose flush meets the end of the program
  ProgramOf(<<Inst("bne", 0, 0, 8), Inst("addi", 1, 1, 4)>>),
  \* stores, then panics with the store of the same cycle done
  ProgramOf(<<Inst("addi", 1, 0, 1), Inst("sh", 2, 2, 0), Inst("rem", 3, 2, 0),
              Inst("add", 1, 1, 1)>>),
  \* panics behind a branch whose flush meets the end of the program
  ProgramOf(<<Inst("addi", 1, 1, 4), Inst("blt", 1, 2, -4), Inst("slli", 3, 1, -1)>>),
  \* faults at the old end of the memory, or runs off it
  ProgramOf(<<Inst("addi", 1, 0, 8), Inst("sw", 1, 0, 1), Inst("jalr", 1, 1, -4)>>)}

SessionSettings ==
  {[Mem_size |-> m, Bp_nbit |-> 1, Forwarding_enabled |-> f, Bp_enabled |-> f] :
     m \in {8}, f \in BOOLEAN}
  \cup {[Mem_size |-> 12, Bp_nbit |-> 1, Forwarding_enabled |-> FALSE,
         Bp_enabled |-> TRUE]}

\* Nothing, a part of a program, and to the end.
SomeCounts == {0, 3, -1}
=============================================================================
