------------------------------ MODULE Assembly ------------------------------
(***************************************************************************)
(* What a source means, read line by line without an order of passes, and  *)
(* what the parser promises about it.                                      *)
(***************************************************************************)
EXTENDS Parser

CONSTANT RegFiles   \* register contents on which meanings are compared

ASSUME RegFilesAssumption ==
  \A regs \in RegFiles : regs \in [Reg -> Word] /\ regs[0] = 0

\* The operations that the pseudo instructions are expanded to.
ASSUME ArithmeticAssumption ==
  \A a \in Word, b \in Word :
    /\ Alu("addi", a, b) = Int32(a + b)
    /\ Alu("sub", a, b) = Int32(a - b)
    /\ Alu("xori", a, -1) = Int32(-1 - a)

----------------------------------------------------------------------------
(* The shape of a source.                                                  *)

Colon(l)  == {k \in DOMAIN Lines[l] : Lines[l][k].Type = "colon"}
IsDeclaration(l) == Len(Lines[l]) = 2 /\ Colon(l) = {2} /\ Lines[l][1].Type = "symbol"
IsInstruction(l) == Colon(l) = {} /\ Lines[l][1].Type = "symbol"

\* A declaration with something else on its line: the parser takes what
\* follows the colon as operands of an instruction without an opcode.
IsMixed(l) == ~IsDeclaration(l) /\ Colon(l) # {}

\* The index of the instruction on line l, or of the next one.
IndexOf(l) == 1 + Cardinality({k \in 1 .. l - 1 : IsInstruction(k)})

DeclaredOn(name) == {l \in DOMAIN Lines : IsDeclaration(l) /\ Lines[l][1].Value = name}

\* What stands in each operand of a mnemonic.
Operands(op) ==
  CASE op \in R_Ops               -> <<"reg", "reg", "reg">>
    [] op \in Loads \cup S_Ops    -> <<"reg", "imm", "reg">>
    [] op \in B_Ops \cup {"jalr", "ble", "bgt"} -> <<"reg", "reg", "target">>
    [] op \in ImmAluOps           -> <<"reg", "reg", "imm">>
    [] op = "jal"                 -> <<"reg", "target">>
    [] op \in {"mv", "not", "neg"} -> <<"reg", "reg">>
    [] op \in U_Ops \cup {"li"}   -> <<"reg", "imm">>
    [] op = "jr"                  -> <<"reg">>
    [] op \in {"j", "call"}       -> <<"target">>
    [] OTHER                      -> << >>

Names(kind, t) ==
  CASE kind = "reg"    -> t.Type = "symbol" /\ t.Value \in DOMAIN abiToRegNum
    [] kind = "imm"    -> t.Type = "number"
    [] kind = "target" -> \/ t.Type = "number"
                          \/ t.Type = "symbol" /\ t.Value \notin DOMAIN abiToRegNum

IsComplete(l) ==
  /\ IsInstruction(l) /\ Lines[l][1].Value \in Mnemonics
  /\ LET kinds == Operands(Lines[l][1].Value) IN
     /\ Len(Lines[l]) = Len(kinds) + 1
     /\ \A k \in DOMAIN kinds : Names(kinds[k], Lines[l][k + 1])

\* The label a complete line refers to, if any: always its last operand.
RefersTo(l) ==
  LET t == Lines[l][Len(Lines[l])] IN
  IF Len(Lines[l]) > 1 /\ t.Type = "symbol" /\ t.Value \notin DOMAIN abiToRegNum
  THEN {t.Value} ELSE {}

WellFormed ==
  /\ ~source.open_comment
  /\ \A l \in DOMAIN Lines : IsDeclaration(l) \/ IsComplete(l)
  /\ \A l \in DOMAIN Lines :
       IsDeclaration(l) => DeclaredOn(Lines[l][1].Value) = {l}
  /\ \A l \in DOMAIN Lines : IsComplete(l) =>
       \A name \in RefersTo(l) : DeclaredOn(name) # {}

----------------------------------------------------------------------------
(* The meaning of a line and of an instruction: registers and next address. *)

Reading(t, pc) ==
  CASE t.Type = "number" -> t.Number
    [] t.Type = "symbol" /\ t.Value \in DOMAIN abiToRegNum -> abiToRegNum[t.Value]
    [] OTHER -> 4 * IndexOf(CHOOSE l \in DeclaredOn(t.Value) : TRUE) - pc

Put(regs, rd, x) == IF rd = 0 THEN regs ELSE [regs EXCEPT ![rd] = Int32(x)]
Outcome(regs, pc) == [regs |-> regs, next |-> Uint32(pc)]

\* The pseudo instructions, by the comments of expandPseudoInstruction and
\* their names: copy, one's and two's complement, load immediate, jumps.
Meaning(l, regs) ==
  LET pc == 4 * IndexOf(l)
      op == Lines[l][1].Value
      x(k) == Reading(Lines[l][k + 1], pc)
      Write(rd, v) == Outcome(Put(regs, rd, v), pc + 4)
      JumpIf(test, target) == Outcome(regs, IF test THEN target ELSE pc + 4)
  IN  CASE op = "mv"   -> Write(x(1), regs[x(2)])
        [] op = "not"  -> Write(x(1), -1 - regs[x(2)])
        [] op = "neg"  -> Write(x(1), -regs[x(2)])
        [] op = "li"   -> Write(x(1), x(2))
        [] op = "jr"   -> Outcome(regs, regs[x(1)])
        [] op = "ret"  -> Outcome(regs, regs[1])
        [] op = "ble"  -> JumpIf(regs[x(1)] <= regs[x(2)], pc + x(3))
        [] op = "bgt"  -> JumpIf(regs[x(1)] > regs[x(2)], pc + x(3))
        [] op = "j"    -> Outcome(regs, pc + x(1))
        [] op = "call" -> Outcome(Put(regs, 1, pc + 4), pc + x(1))

Effect(i, regs) ==
  LET pc == 4 * i
      d  == Decoded(Program[i + 1], regs)
  IN  Outcome(IF WritesRd(d) THEN Put(regs, d.Rd, Result(d, pc)) ELSE regs,
              NextPc(d, pc))

----------------------------------------------------------------------------
(* Properties.                                                             *)

TypeOK ==
  /\ line \in 1 .. Len(Lines) + 1 /\ num \in 0 .. 254
  /\ inst \in [op: Ops \cup Pseudo_Ops, Rd: Word, Rs1: Word, Rs2: Word, s1: {0},
               s2: {0}, imm: {0}, result: {0}, remaining: {0}]
  /\ \A l \in DOMAIN symbol_table : symbol_table[l] \in 1 .. Len(Program)
  /\ \A n \in DOMAIN insts_missing_label : n \in 1 .. Len(Program)
  /\ \A i \in DOMAIN Program : Program[i].op \in Ops
  /\ entry \in 1 .. Len(Program)
  /\ status \in {"parsing", "linking", "done", "error", "panicked"}

\* A label means the same address from every complete line that refers to it,
\* declared before or after it, whatever else is wrong in a source that the
\* parser accepts (parser.go:358-383 against 421-432).  Excepted are labels
\* declared twice and sources that mix a declaration with an instruction.
LabelsResolve ==
  status = "done" /\ (\A l \in DOMAIN Lines : ~IsMixed(l)) =>
    \A l \in DOMAIN Lines : IsComplete(l) => \A name \in RefersTo(l) :
      Cardinality(DeclaredOn(name)) = 1 =>
        LET i == Program[IndexOf(l) + 1]
            displacement == IF Fmt_J(i) THEN i.Rs1 ELSE i.Rs2
        IN  Uint32(4 * IndexOf(l) + displacement)
              = Uint32(4 * IndexOf(CHOOSE d \in DeclaredOn(name) : TRUE))

\* No source that is written as the instruction set asks is turned down, and
\* execution starts at "main" (parser.go:385-390) or at the first line.
AcceptsWellFormed ==
  WellFormed =>
    /\ status \notin {"error", "panicked"}
    /\ status = "done" =>
         entry = IF DeclaredOn("main") = {} THEN 1
                 ELSE IndexOf(CHOOSE l \in DeclaredOn("main") : TRUE)

\* A pseudo instruction does what its comment says (instruction.go:255-291),
\* also when the second pass has filled in its target.
PseudoMeaning ==
  status = "done" /\ WellFormed =>
    \A l \in DOMAIN Lines : IsComplete(l) /\ Lines[l][1].Value \in Pseudo_Ops =>
      \A regs \in RegFiles : Effect(IndexOf(l), regs) = Meaning(l, regs)

\* What the parser makes of a well-formed source is what the machine is
\* specified for: see ProgramsAssumption in Pipeline.
FeedsPipeline ==
  status = "done" /\ WellFormed =>
    /\ Len(Program) = IndexOf(Len(Lines) + 1)
    /\ \A i \in DOMAIN Program : Parsed(Program[i])

\* The parser answers with a program or an error, except for the two ways to
\* run off an array: an unfinished last line that is a comment (parser.go:187)
\* and a label used on a declaration's line behind the last instruction
\* (parser.go:430 and 366).
PanicsExplained ==
  status = "panicked" =>
    \/ source.open_comment
    \/ \E l \in DOMAIN Lines :
         /\ IsMixed(l)
         /\ \A k \in l + 1 .. Len(Lines) : ~IsInstruction(k)
=============================================================================
