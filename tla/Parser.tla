------------------------------- MODULE Parser -------------------------------
(***************************************************************************)
(* ParseProgramFromString of vm/parser.go: one pass over the tokens, which *)
(* fills in one instruction per line and the labels it already knows, and  *)
(* a second loop over the instructions that wait for a label.              *)
(*                                                                         *)
(* A source is a sequence of lines, a line the sequence of its tokens: the *)
(* characters, and the spaces, commas, parentheses and blank lines that    *)
(* the lexer skips are left out.  A line has fewer than 256 tokens, so that *)
(* their numbers (uint8) do not wrap.                                      *)
(***************************************************************************)
EXTENDS Instructions, Sequences, FiniteSets

CONSTANT Sources   \* [lines: sequence of lines, open_comment: BOOLEAN]

\* Type, spelling of a symbol, value of a number.
Token == [Type: {"symbol", "number", "colon", "invalid", "end"},
          Value: STRING, Number: Int]

EndOfSource == [Type |-> "end", Value |-> "", Number |-> 0]

ASSUME SourcesAssumption ==
  \A s \in Sources :
    /\ s.lines \in Seq(Seq(Token)) /\ s.open_comment \in BOOLEAN
    /\ \A l \in DOMAIN s.lines :
         /\ Len(s.lines[l]) \in 1 .. 255
         /\ \A k \in DOMAIN s.lines[l] : s.lines[l][k].Type # "end"

Pseudo_Ops == {"mv", "not", "neg", "li", "jr", "ret", "ble", "bgt", "j", "call"}

\* The names in opcodeToStringMap.
Mnemonics == (Ops \ {"nop"}) \cup Pseudo_Ops

abiToRegNum ==
  [zero |-> 0, ra |-> 1, sp |-> 2, gp |-> 3, tp |-> 4, t0 |-> 5, t1 |-> 6,
   t2 |-> 7, s0 |-> 8, fp |-> 8, s1 |-> 9, a0 |-> 10, a1 |-> 11, a2 |-> 12,
   a3 |-> 13, a4 |-> 14, a5 |-> 15, a6 |-> 16, a7 |-> 17, s2 |-> 18,
   s3 |-> 19, s4 |-> 20, s5 |-> 21, s6 |-> 22, s7 |-> 23, s8 |-> 24,
   s9 |-> 25, s10 |-> 26, s11 |-> 27, t3 |-> 28, t4 |-> 29, t5 |-> 30,
   t6 |-> 31]

\* The registers a source names are registers of the machine, and their
\* numbers are words.  With 32 registers and bytes of 8 bits all of them are.
ASSUME RegisterNamesAssumption ==
  \A s \in Sources : \A l \in DOMAIN s.lines : \A k \in DOMAIN s.lines[l] :
    s.lines[l][k].Value \in DOMAIN abiToRegNum =>
      abiToRegNum[s.lines[l][k].Value] \in Reg \cap Word

VARIABLES
  source,               \* chosen once
  line, num,            \* the current token: its line and its number there
  inst,                 \* the instruction being filled in
  symbol_table, insts_missing_label,
  Program, entry, status

vars == <<source, line, num, inst, symbol_table, insts_missing_label,
          Program, entry, status>>

Init ==
  /\ source \in Sources
  /\ line = 1 /\ num = 0
  /\ inst = ZeroInstruction
  /\ symbol_table = << >> /\ insts_missing_label = << >>
  /\ Program = <<newInstruction("end", 0, 0, 0)>>
  /\ entry = 1
  /\ status = IF source.lines = << >> /\ source.open_comment
              THEN "panicked" ELSE "parsing"

----------------------------------------------------------------------------
(* The lexer.                                                              *)

Lines == source.lines

tok == IF line > Len(Lines) THEN EndOfSource ELSE Lines[line][num + 1]

\* peekNextToken looks at a copy of the lexer, and across the line end.
LastOnLine == num + 1 = Len(Lines[line])
next == IF ~LastOnLine THEN Lines[line][num + 2]
        ELSE IF line < Len(Lines) THEN Lines[line + 1][1] ELSE EndOfSource

\* A comment that ends with the file makes trimSpace read behind the end.
PeekPanics == source.open_comment /\ LastOnLine /\ line = Len(Lines)

Advance ==
  IF LastOnLine THEN line' = line + 1 /\ num' = 0
                ELSE num' = num + 1 /\ UNCHANGED line

----------------------------------------------------------------------------
(* Instructions.                                                           *)

inst_count == Len(Program)

\* A slip: the operands are not exchanged.
Straight(op, ps) == newInstruction(op, ps.Rd, ps.Rs1, ps.Rs2)

Exchanged(op, ps) == newInstruction(op, ps.Rs1, ps.Rd, ps.Rs2)

expandPseudoInstruction(ps) ==
  CASE ps.op = "mv"   -> newInstruction("addi", ps.Rd, ps.Rs1, 0)
    [] ps.op = "not"  -> newInstruction("xori", ps.Rd, ps.Rs1, -1)
    [] ps.op = "neg"  -> newInstruction("sub", ps.Rd, 0, ps.Rs1)
    [] ps.op = "li"   -> newInstruction("addi", ps.Rd, 0, ps.Rs1)
    [] ps.op = "jr"   -> newInstruction("jalr", 0, ps.Rd, 0)
    [] ps.op = "ret"  -> newInstruction("jalr", 0, 1, 0)
    [] ps.op = "ble"  -> Exchanged("bge", ps)
    [] ps.op = "bgt"  -> Exchanged("blt", ps)
    [] ps.op = "j"    -> newInstruction("jal", 0, ps.Rd, 0)
    [] ps.op = "call" -> newInstruction("jal", 1, ps.Rd, 0)
    [] OTHER          -> ps

\* The end of an iteration: push the instruction if its line is complete.
\* A line that has filled in nothing, or only zeros, pushes nothing.
FinishToken(filled) ==
  /\ Advance
  /\ IF LastOnLine /\ filled # ZeroInstruction
     THEN /\ Program' = Append(Program, expandPseudoInstruction(filled))
          /\ inst' = ZeroInstruction
     ELSE inst' = filled /\ UNCHANGED Program
  /\ UNCHANGED <<source, entry, status>>

StopWith(outcome) ==
  /\ status' = outcome
  /\ UNCHANGED <<source, line, num, inst, symbol_table, insts_missing_label,
                 Program, entry>>

Misplaced == tok.Type = "invalid" \/ (num = 0 /\ tok.Type # "symbol")

\* At a token that the loop handles.
Parsing == status = "parsing" /\ tok.Type # "end" /\ ~Misplaced /\ ~PeekPanics

RejectToken ==
  status = "parsing" /\ tok.Type # "end" /\ Misplaced /\ StopWith("error")

PanicInLexer ==
  /\ status = "parsing" /\ tok.Type # "end" /\ ~Misplaced /\ PeekPanics
  /\ StopWith("panicked")

\* The assignment map[key] = x of Go.
With(map, key, x) ==
  [k \in DOMAIN map \cup {key} |-> IF k = key THEN x ELSE map[k]]

Declares == tok.Type = "symbol" /\ next.Type = "colon"

\* A slip: the line number instead of the number of instructions.
DeclareLine ==
  /\ Parsing /\ Declares
  /\ symbol_table' = With(symbol_table, tok.Value, line)
  /\ FinishToken(inst)
  /\ UNCHANGED insts_missing_label

DeclareLabel ==
  /\ Parsing /\ Declares
  /\ symbol_table' = With(symbol_table, tok.Value, inst_count)
  /\ FinishToken(inst)
  /\ UNCHANGED insts_missing_label

SkipColon ==
  /\ Parsing /\ tok.Type = "colon"
  /\ FinishToken(inst)
  /\ UNCHANGED <<symbol_table, insts_missing_label>>

\* fillInstructionToken on the first token of a line.
FillOpcode ==
  /\ Parsing /\ ~Declares /\ num = 0
  /\ IF tok.Value \in Mnemonics
     THEN /\ FinishToken([inst EXCEPT !.op = tok.Value])
          /\ UNCHANGED <<symbol_table, insts_missing_label>>
     ELSE StopWith("error")

\* A slip: the offset from the next instruction.
OffsetFromNext(target, n) == Int32((target - (n + 1)) * 4)

\* From instruction n to the instruction target, in bytes.
Offset(target, n) == Int32((target - n) * 4)

\* fillInstructionToken on an operand: a register before a label, a label
\* that is known before one that is not.
IsRegister == tok.Type = "symbol" /\ tok.Value \in DOMAIN abiToRegNum
IsLabel    == tok.Type = "symbol" /\ tok.Value \notin DOMAIN abiToRegNum
IsKnown    == IsLabel /\ tok.Value \in DOMAIN symbol_table

val == IF tok.Type = "number" THEN Int32(tok.Number)
       ELSE IF IsRegister THEN abiToRegNum[tok.Value]
       ELSE IF IsKnown THEN Int32((symbol_table[tok.Value] - inst_count) * 4)
       ELSE 0

\* The instruction being filled in will have the next index.
\* A slip: counted as if it had been pushed.
MissingAfter == inst_count + 1
MissingAt    == inst_count

FillOperand ==
  /\ Parsing /\ ~Declares /\ num > 0 /\ tok.Type # "colon"
  /\ IF num > 3 THEN StopWith("error")
     ELSE /\ FinishToken(IF num = 1 THEN [inst EXCEPT !.Rd = val]
                         ELSE IF num = 2 THEN [inst EXCEPT !.Rs1 = val]
                         ELSE [inst EXCEPT !.Rs2 = val])
          /\ insts_missing_label' =
               IF IsLabel /\ ~IsKnown
               THEN With(insts_missing_label, MissingAt, tok.Value)
               ELSE insts_missing_label
          /\ UNCHANGED symbol_table

----------------------------------------------------------------------------
(* Filling in the missing labels.  Go visits a map in any order.           *)

FinishTokens ==
  status = "parsing" /\ tok.Type = "end" /\ StopWith("linking")

\* A slip: every format keeps its offset where jal does.
LinkedLikeJal(i, offset) == [i EXCEPT !.Rs1 = offset]

Linked(i, offset) ==
  IF Fmt_B(i) \/ i.op = "jalr" THEN [i EXCEPT !.Rs2 = offset]
                               ELSE [i EXCEPT !.Rs1 = offset]

\* A slip: jal is forgotten.
TakesLabelOnBranch(i) == Fmt_B(i) \/ i.op = "jalr"

TakesLabel(i) == Fmt_B(i) \/ Fmt_J(i) \/ i.op = "jalr"

\* The instruction with index n is Program[n + 1] here.
FillMissingLabel ==
  /\ status = "linking"
  /\ \E n \in DOMAIN insts_missing_label :
       LET label == insts_missing_label[n] IN
       IF label \notin DOMAIN symbol_table THEN StopWith("error")
       ELSE IF n >= Len(Program) THEN StopWith("panicked")
       ELSE IF ~TakesLabel(Program[n + 1]) THEN StopWith("error")
       ELSE /\ Program' = [Program EXCEPT ![n + 1] =
                             Linked(@, Offset(symbol_table[label], n))]
            /\ insts_missing_label' =
                 [m \in DOMAIN insts_missing_label \ {n} |-> insts_missing_label[m]]
            /\ UNCHANGED <<source, line, num, inst, symbol_table, entry, status>>

Return ==
  /\ status = "linking" /\ DOMAIN insts_missing_label = {}
  /\ status' = "done"
  /\ entry' = IF "main" \in DOMAIN symbol_table THEN symbol_table["main"] ELSE 1
  /\ UNCHANGED <<source, line, num, inst, symbol_table, insts_missing_label, Program>>

Stopped == status \in {"done", "error", "panicked"} /\ UNCHANGED vars

Next ==
  \/ RejectToken \/ PanicInLexer \/ DeclareLabel \/ SkipColon
  \/ FillOpcode \/ FillOperand
  \/ FinishTokens \/ FillMissingLabel \/ Return
  \/ Stopped

Spec == Init /\ [][Next]_vars
=============================================================================
