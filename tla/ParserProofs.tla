---------------------------- MODULE ParserProofs ----------------------------
(***************************************************************************)
(* For any sources: what the parser makes of a line, in whatever order its *)
(* two passes learn of a label, is what the line means.                    *)
(*                                                                         *)
(* The invariant follows the tokens.  Instructions are counted as the      *)
(* source counts them (Counted), the table of labels has the declarations  *)
(* that have been passed (Declared), every complete line that has been     *)
(* passed is in the program with the offset of its label, or is noted down *)
(* to get it (Assembled, Noted).                                           *)
(***************************************************************************)
EXTENDS Assembly, MachineLemmas, FiniteSetTheorems

----------------------------------------------------------------------------
(* The invariant.                                                          *)

\* An instruction of the program, and one that is being filled in.
Coded(ops) == [op: ops, Rd: Word, Rs1: Word, Rs2: Word, s1: {0}, s2: {0},
               imm: {0}, result: {0}, remaining: {0}]

ParserTypes ==
  /\ source \in Sources
  /\ line \in 1 .. Len(Lines) + 1 /\ num \in Nat
  /\ line <= Len(Lines) => num < Len(Lines[line])
  /\ line = Len(Lines) + 1 => num = 0
  /\ inst \in Coded(Ops \cup Pseudo_Ops)
  /\ Program \in Seq(Coded(Ops)) /\ Len(Program) > 0
  /\ \A name \in DOMAIN symbol_table : symbol_table[name] \in 1 .. Len(Program)
  /\ \A n \in DOMAIN insts_missing_label : n \in 1 .. Len(Program)
  /\ entry \in 1 .. Len(Program)
  /\ status \in {"parsing", "linking", "done", "error", "panicked"}
  /\ status \in {"linking", "done"} => line = Len(Lines) + 1

\* At the start of a line that can only be rejected.
Doomed == line <= Len(Lines) /\ num = 0 /\ Lines[line][1].Type # "symbol"

\* No instruction begins between line l and the current token.
Last(l) == \A k \in l + 1 .. line - 1 : ~IsInstruction(k)

\* Who waits for a label has an instruction coming, or is on a mixed line with
\* no instruction behind it.
Following ==
  status \in {"parsing", "linking"} /\ ~Doomed =>
    /\ num = 0 => inst = ZeroInstruction
    /\ num > 0 => Lines[line][1].Type = "symbol"
    /\ num > 0 /\ IsInstruction(line) =>
         inst.op = Lines[line][1].Value /\ inst.op \in Mnemonics
    /\ Len(Program) \in DOMAIN insts_missing_label =>
         \/ num > 0 /\ (IsInstruction(line) \/ IsMixed(line))
         \/ \E l \in 1 .. line - 1 : IsMixed(l) /\ Last(l)

\* The first token of line l is behind.
Passed(l) == l < line \/ (l = line /\ num > 0)

\* Sources without mixed lines; and as long as they are not turned down.
Unmixed == \A l \in DOMAIN Lines : ~IsMixed(l)
Accepting == status \in {"parsing", "linking", "done"}

Counted ==
  /\ Len(Program) = IndexOf(line)
  /\ \A l \in DOMAIN Lines : Passed(l) => IsDeclaration(l) \/ IsInstruction(l)
  /\ num > 0 => IF IsDeclaration(line) THEN num = 1 /\ inst = ZeroInstruction
                ELSE inst.op = Lines[line][1].Value /\ inst.op \in Mnemonics
  /\ num = 0 => inst = ZeroInstruction

\* A name is known from a declaration that has been passed.
DeclaredAt(name, l) == l \in DeclaredOn(name) /\ Passed(l)

Declared ==
  /\ \A name \in DOMAIN symbol_table :
       \E l \in DOMAIN Lines : DeclaredAt(name, l) /\ symbol_table[name] = IndexOf(l)
  /\ \A l \in DOMAIN Lines :
       IsDeclaration(l) /\ Passed(l) => Lines[l][1].Value \in DOMAIN symbol_table

\* What the operand t says if labels read as x; and the instruction after the
\* first j tokens of line l.
OperandValue(t, x) ==
  IF t.Type = "number" THEN Int32(t.Number)
  ELSE IF t.Value \in DOMAIN abiToRegNum THEN abiToRegNum[t.Value] ELSE x

Operand(l, j, k, x) == IF k < j THEN OperandValue(Lines[l][k + 1], x) ELSE 0

Filled(l, j, x) ==
  newInstruction(Lines[l][1].Value,
                 Operand(l, j, 1, x), Operand(l, j, 2, x), Operand(l, j, 3, x))

\* The instruction of a complete line whose label, if it has one, is x away.
Assembled(l, x) == expandPseudoInstruction(Filled(l, Len(Lines[l]), x))

Pending(l, name) ==
  IndexOf(l) \in DOMAIN insts_missing_label /\ insts_missing_label[IndexOf(l)] = name

Resolved(l, name, x) ==
  \E d \in DeclaredOn(name) : x = Offset(IndexOf(d), IndexOf(l))

Encoded ==
  \A l \in DOMAIN Lines : IsComplete(l) /\ l < line =>
    \E x \in Word :
      /\ Program[IndexOf(l) + 1] = Assembled(l, x)
      /\ \A name \in RefersTo(l) : Pending(l, name) \/ Resolved(l, name, x)

Filling == num > 0 /\ IsComplete(line) => inst = Filled(line, num, 0)

Noted ==
  \A n \in DOMAIN insts_missing_label : \E l \in DOMAIN Lines :
    /\ IsInstruction(l) /\ Passed(l) /\ IndexOf(l) = n
    /\ IsComplete(l) => l < line /\ insts_missing_label[n] \in RefersTo(l)

Entered ==
  status = "done" =>
    /\ DOMAIN insts_missing_label = {}
    /\ entry = IF "main" \in DOMAIN symbol_table THEN symbol_table["main"] ELSE 1

Followed == Counted /\ Declared /\ Encoded /\ Filling /\ Noted

UnmixedInv == Unmixed /\ Accepting => Followed /\ Entered

----------------------------------------------------------------------------
(* The source, and maps of labels.                                         *)

LEMMA SmallWords == 0 \in Word /\ 1 \in Word /\ -1 \in Word
<1>1. WORD_MOD \in Nat /\ WORD_MOD > 3
  <2>1. WORD_MOD = (BYTE_MOD * BYTE_MOD) * (BYTE_MOD * BYTE_MOD)
    BY ByteModAssumption DEF WORD_MOD
  <2>2. BYTE_MOD * BYTE_MOD \in Nat /\ BYTE_MOD * BYTE_MOD > 3
    BY ByteModAssumption
  <2>3. \A n \in Nat : n > 3 => n * n \in Nat /\ n * n > 3
    OBVIOUS
  <2> QED BY <2>1, <2>2, <2>3
<1> QED BY <1>1 DEF Word

LEMMA SourceShape ==
  ASSUME source \in Sources
  PROVE  /\ DOMAIN Lines = 1 .. Len(Lines) /\ Len(Lines) \in Nat
         /\ \A l \in DOMAIN Lines :
              Len(Lines[l]) \in 1 .. 255 /\ DOMAIN Lines[l] = 1 .. Len(Lines[l])
<1>1. Lines \in Seq(Seq(Token))
  BY SourcesAssumption DEF Lines
<1>2. DOMAIN Lines = 1 .. Len(Lines) /\ Len(Lines) \in Nat
  BY <1>1
<1>3. ASSUME NEW l \in DOMAIN Lines
      PROVE  Len(Lines[l]) \in 1 .. 255 /\ DOMAIN Lines[l] = 1 .. Len(Lines[l])
  <2>1. Lines[l] \in Seq(Token)
    BY <1>1, <1>2
  <2>2. Len(Lines[l]) \in 1 .. 255
    BY SourcesAssumption DEF Lines
  <2> QED BY <2>1, <2>2
<1> QED BY <1>2, <1>3

LEMMA TokenShape ==
  ASSUME source \in Sources, NEW l \in DOMAIN Lines, NEW k \in DOMAIN Lines[l]
  PROVE  /\ Lines[l][k].Type \in {"symbol", "number", "colon", "invalid"}
         /\ Lines[l][k].Number \in Int
         /\ Lines[l][k].Value \in DOMAIN abiToRegNum =>
              abiToRegNum[Lines[l][k].Value] \in Reg \cap Word
<1>1. Lines \in Seq(Seq(Token))
  BY SourcesAssumption DEF Lines
<1>2. Lines[l] \in Seq(Token)
  BY <1>1
<1>3. Lines[l][k] \in Token
  BY <1>2
<1>4. Lines[l][k].Type # "end"
  BY SourcesAssumption DEF Lines
<1>5. Lines[l][k].Value \in DOMAIN abiToRegNum =>
        abiToRegNum[Lines[l][k].Value] \in Reg \cap Word
  BY RegisterNamesAssumption DEF Lines
<1> QED BY <1>3, <1>4, <1>5 DEF Token

LEMMA LineShape ==
  ASSUME ParserTypes
  PROVE  /\ line \in Nat /\ line > 0 /\ Len(Lines) \in Nat
         /\ \A l \in Nat \ {0} : l <= Len(Lines) =>
              l \in DOMAIN Lines /\ Len(Lines[l]) \in Nat \ {0}
<1>1. source \in Sources /\ line \in 1 .. Len(Lines) + 1
  BY DEF ParserTypes
<1>2. DOMAIN Lines = 1 .. Len(Lines) /\ Len(Lines) \in Nat
  BY <1>1, SourceShape
<1>3. \A l \in DOMAIN Lines : Len(Lines[l]) \in Nat \ {0}
  <2>1. \A n \in 1 .. 255 : n \in Nat \ {0}
    OBVIOUS
  <2> QED BY <2>1, <1>1, SourceShape
<1> QED BY <1>1, <1>2, <1>3

LEMMA Updated ==
  ASSUME NEW key, NEW x, NEW f
  PROVE  LET g == With(f, key, x) IN
         /\ DOMAIN g = DOMAIN f \cup {key}
         /\ g[key] = x
         /\ \A k \in DOMAIN f : k # key => g[k] = f[k]
BY DEF With

\* The current token, while the lines last.
LEMMA CurrentToken ==
  ASSUME ParserTypes, tok.Type # "end"
  PROVE  /\ line \in DOMAIN Lines /\ line <= Len(Lines) /\ num + 1 \in DOMAIN Lines[line]
         /\ tok = Lines[line][num + 1]
<1>1. line <= Len(Lines)
  BY SourceShape DEF ParserTypes, tok, EndOfSource
<1> QED BY <1>1, SourceShape DEF ParserTypes, tok

LEMMA EndToken ==
  ASSUME ParserTypes, tok.Type = "end"
  PROVE  line = Len(Lines) + 1
<1>1. ~ line <= Len(Lines)
  <2> SUFFICES ASSUME line <= Len(Lines) PROVE FALSE
    OBVIOUS
  <2>1. ~ line > Len(Lines) /\ line \in DOMAIN Lines
    BY SourceShape DEF ParserTypes
  <2>2. tok = Lines[line][num + 1]
    BY <2>1 DEF tok
  <2>3. num + 1 \in DOMAIN Lines[line]
    BY <2>1, SourceShape DEF ParserTypes
  <2> QED BY <2>1, <2>2, <2>3, TokenShape DEF ParserTypes
<1> QED BY <1>1, SourceShape DEF ParserTypes

\* The three ways in which an iteration ends.
GoesOnLine(filled) ==
  /\ ~LastOnLine /\ num + 1 < Len(Lines[line])
  /\ line' = line /\ num' = num + 1 /\ inst' = filled /\ Program' = Program

Pushes(filled) ==
  /\ LastOnLine /\ filled # ZeroInstruction
  /\ line' = line + 1 /\ num' = 0 /\ inst' = ZeroInstruction
  /\ Program' = Append(Program, expandPseudoInstruction(filled))

Drops(filled) ==
  /\ LastOnLine /\ filled = ZeroInstruction
  /\ line' = line + 1 /\ num' = 0 /\ inst' = ZeroInstruction /\ Program' = Program

LEMMA FinishCases ==
  ASSUME ParserTypes, line <= Len(Lines), NEW filled, FinishToken(filled)
  PROVE  /\ GoesOnLine(filled) \/ Pushes(filled) \/ Drops(filled)
         /\ UNCHANGED <<source, entry, status>>
<1>1. num + 1 <= Len(Lines[line])
  BY SourceShape DEF ParserTypes
<1> QED BY <1>1, SourceShape
        DEF FinishToken, Advance, LastOnLine, GoesOnLine, Pushes, Drops, ParserTypes

----------------------------------------------------------------------------
(* Types.                                                                  *)

LEMMA ZeroCoded == ZeroInstruction \in Coded(Ops \cup Pseudo_Ops)
BY SmallWords DEF ZeroInstruction, newInstruction, Coded, Ops

LEMMA NewCoded ==
  ASSUME NEW ops, NEW op \in ops, NEW a \in Word, NEW b \in Word, NEW c \in Word
  PROVE  newInstruction(op, a, b, c) \in Coded(ops)
BY DEF newInstruction, Coded

LEMMA ExpandedCoded ==
  ASSUME NEW ps \in Coded(Ops \cup Pseudo_Ops)
  PROVE  expandPseudoInstruction(ps) \in Coded(Ops)
<1>1. ps.Rd \in Word /\ ps.Rs1 \in Word /\ ps.Rs2 \in Word /\ ps.op \in Ops \cup Pseudo_Ops
  BY DEF Coded
<1>2. {"addi", "xori", "sub", "jalr", "bge", "blt", "jal"} \subseteq Ops
  BY DEF Ops, I_Ops, R_Ops, B_Ops, J_Ops
<1>3. CASE ps.op \in Pseudo_Ops
  <2>1. \E op \in {"addi", "xori", "sub", "jalr", "bge", "blt", "jal"},
           a \in Word, b \in Word, c \in Word :
           expandPseudoInstruction(ps) = newInstruction(op, a, b, c)
    BY <1>1, <1>3, SmallWords DEF expandPseudoInstruction, Exchanged, Pseudo_Ops
  <2> QED BY <2>1, <1>2, NewCoded
<1>4. CASE ps.op \notin Pseudo_Ops
  <2>1. expandPseudoInstruction(ps) = ps
    BY <1>4 DEF expandPseudoInstruction, Pseudo_Ops
  <2> QED BY <1>1, <1>4, <2>1 DEF Coded
<1> QED BY <1>3, <1>4

LEMMA FinishTypes ==
  ASSUME ParserTypes, status = "parsing", line <= Len(Lines),
         NEW filled \in Coded(Ops \cup Pseudo_Ops), FinishToken(filled),
         \A name \in DOMAIN symbol_table' : symbol_table'[name] \in 1 .. Len(Program),
         \A n \in DOMAIN insts_missing_label' : n \in 1 .. Len(Program)
  PROVE  ParserTypes' /\ Len(Program') \in {Len(Program), Len(Program) + 1}
<1>1. /\ source' = source /\ entry' = entry /\ status' = status
      /\ GoesOnLine(filled) \/ Pushes(filled) \/ Drops(filled)
  BY FinishCases
<1>2. Lines' = Lines
  BY <1>1 DEF Lines
<1>3. Program' \in Seq(Coded(Ops)) /\ Len(Program') \in {Len(Program), Len(Program) + 1}
  <2>1. expandPseudoInstruction(filled) \in Coded(Ops) /\ Program \in Seq(Coded(Ops))
    BY ExpandedCoded DEF ParserTypes
  <2> QED BY <1>1, <2>1 DEF GoesOnLine, Pushes, Drops
<1>4. inst' \in Coded(Ops \cup Pseudo_Ops)
  BY <1>1, ZeroCoded DEF GoesOnLine, Pushes, Drops
<1>5. /\ line' \in 1 .. Len(Lines) + 1 /\ num' \in Nat
      /\ line' <= Len(Lines) => num' < Len(Lines[line'])
      /\ line' = Len(Lines) + 1 => num' = 0
  <2>1. CASE GoesOnLine(filled)
    BY <2>1, SourceShape DEF GoesOnLine, ParserTypes
  <2>2. CASE line' = line + 1 /\ num' = 0
    <3>1. line \in Nat /\ Len(Lines) \in Nat /\ line > 0
      BY LineShape
    <3>3. line + 1 <= Len(Lines) => 0 < Len(Lines[line + 1])
      BY <3>1, LineShape
    <3>4. line' <= Len(Lines) => num' < Len(Lines[line'])
      <4> SUFFICES ASSUME line' <= Len(Lines) PROVE num' < Len(Lines[line'])
        OBVIOUS
      <4>1. Lines[line'] = Lines[line + 1] /\ line + 1 <= Len(Lines)
        BY <2>2
      <4> QED BY <2>2, <3>3, <4>1
    <3> QED BY <2>2, <3>1, <3>4
  <2> QED BY <1>1, <2>1, <2>2 DEF Pushes, Drops
<1>6. Len(Program) \in Nat /\ Len(Program) > 0 /\ Len(Program') >= Len(Program)
  BY <1>3 DEF ParserTypes
<1> QED BY <1>1, <1>2, <1>3, <1>4, <1>5, <1>6 DEF ParserTypes

LEMMA ValType ==
  ASSUME ParserTypes, tok.Type # "end"
  PROVE  val \in Word
<1>1. tok.Number \in Int /\ (tok.Value \in DOMAIN abiToRegNum => abiToRegNum[tok.Value] \in Word)
  BY CurrentToken, TokenShape DEF ParserTypes
<1>2. IsKnown => Int32((symbol_table[tok.Value] - inst_count) * 4) \in Word
  <2> SUFFICES ASSUME IsKnown PROVE Int32((symbol_table[tok.Value] - inst_count) * 4) \in Word
    OBVIOUS
  <2>1. symbol_table[tok.Value] \in Int /\ inst_count \in Int
    BY DEF IsKnown, ParserTypes, inst_count
  <2> QED BY <2>1, Int32Type
<1> QED BY <1>1, <1>2, Int32Type, SmallWords DEF val, IsRegister

LEMMA StopTypes ==
  ASSUME ParserTypes, NEW outcome \in {"error", "panicked", "linking"}, StopWith(outcome),
         outcome = "linking" => tok.Type = "end"
  PROVE  ParserTypes'
<1>1. Lines' = Lines /\ status' = outcome
  BY DEF StopWith, Lines
<1>2. outcome = "linking" => line = Len(Lines) + 1
  BY EndToken
<1> QED BY <1>1, <1>2 DEF StopWith, ParserTypes

\* With what an iteration fills in the instruction, and with what labels.
LEMMA OperandCoded ==
  ASSUME ParserTypes, tok.Type # "end"
  PROVE  /\ [inst EXCEPT !.Rd = val] \in Coded(Ops \cup Pseudo_Ops)
         /\ [inst EXCEPT !.Rs1 = val] \in Coded(Ops \cup Pseudo_Ops)
         /\ [inst EXCEPT !.Rs2 = val] \in Coded(Ops \cup Pseudo_Ops)
         /\ tok.Value \in Mnemonics =>
              [inst EXCEPT !.op = tok.Value] \in Coded(Ops \cup Pseudo_Ops)
<1>1. val \in Word /\ inst \in Coded(Ops \cup Pseudo_Ops)
  BY ValType DEF ParserTypes
<1> HIDE DEF val
<1>2. tok.Value \in Mnemonics => tok.Value \in Ops \cup Pseudo_Ops
  BY DEF Mnemonics
<1> QED BY <1>1, <1>2 DEF Coded

LEMMA IterationTypes ==
  ASSUME ParserTypes, DeclareLabel \/ SkipColon \/ FillOpcode \/ FillOperand
  PROVE  ParserTypes'
<1>1. /\ status = "parsing" /\ tok.Type # "end" /\ line <= Len(Lines)
      /\ inst \in Coded(Ops \cup Pseudo_Ops)
      /\ Len(Program) \in 1 .. Len(Program)
  <2>1. Len(Program) \in Nat /\ Len(Program) > 0
    BY DEF ParserTypes
  <2> QED BY <2>1, CurrentToken
          DEF DeclareLabel, SkipColon, FillOpcode, FillOperand, Parsing, ParserTypes
<1>2. CASE DeclareLabel
  <2>1. /\ FinishToken(inst) /\ insts_missing_label' = insts_missing_label
        /\ symbol_table' = With(symbol_table, tok.Value, Len(Program))
    BY <1>2 DEF DeclareLabel, inst_count
  <2>2. \A name \in DOMAIN symbol_table' : symbol_table'[name] \in 1 .. Len(Program)
    BY <1>1, <2>1 DEF With, ParserTypes
  <2>3. \A n \in DOMAIN insts_missing_label' : n \in 1 .. Len(Program)
    BY <2>1 DEF ParserTypes
  <2> QED BY <1>1, <2>1, <2>2, <2>3, FinishTypes
<1>3. CASE SkipColon
  <2>1. FinishToken(inst) /\ UNCHANGED <<symbol_table, insts_missing_label>>
    BY <1>3 DEF SkipColon
  <2>2. \A name \in DOMAIN symbol_table' : symbol_table'[name] \in 1 .. Len(Program)
    BY <2>1 DEF ParserTypes
  <2>3. \A n \in DOMAIN insts_missing_label' : n \in 1 .. Len(Program)
    BY <2>1 DEF ParserTypes
  <2> QED BY <1>1, <2>1, <2>2, <2>3, FinishTypes
<1>4. CASE FillOpcode
  <2>1. CASE StopWith("error")
    BY <2>1, StopTypes
  <2>2. CASE /\ tok.Value \in Mnemonics
             /\ FinishToken([inst EXCEPT !.op = tok.Value])
             /\ UNCHANGED <<symbol_table, insts_missing_label>>
    <3>1. \A name \in DOMAIN symbol_table' : symbol_table'[name] \in 1 .. Len(Program)
      BY <2>2 DEF ParserTypes
    <3>2. \A n \in DOMAIN insts_missing_label' : n \in 1 .. Len(Program)
      BY <2>2 DEF ParserTypes
    <3>3. [inst EXCEPT !.op = tok.Value] \in Coded(Ops \cup Pseudo_Ops)
      BY <1>1, <2>2, OperandCoded
    <3> QED BY <1>1, <2>2, <3>1, <3>2, <3>3, FinishTypes
  <2> QED BY <1>4, <2>1, <2>2 DEF FillOpcode
<1>5. CASE FillOperand
  <2>1. CASE StopWith("error")
    BY <2>1, StopTypes
  <2>2. CASE ~StopWith("error")
    <3>1. PICK filled \in Coded(Ops \cup Pseudo_Ops) : FinishToken(filled)
      BY <1>1, <1>5, <2>2, OperandCoded DEF FillOperand
    <3>2. /\ insts_missing_label' \in {insts_missing_label,
                                       With(insts_missing_label, Len(Program), tok.Value)}
          /\ UNCHANGED symbol_table
      BY <1>5, <2>2 DEF FillOperand, MissingAt, inst_count
    <3>3. \A name \in DOMAIN symbol_table' : symbol_table'[name] \in 1 .. Len(Program)
      BY <3>2 DEF ParserTypes
    <3>4. \A n \in DOMAIN insts_missing_label' : n \in 1 .. Len(Program)
      BY <1>1, <3>2 DEF With, ParserTypes
    <3> QED BY <1>1, <3>1, <3>3, <3>4, FinishTypes
  <2> QED BY <2>1, <2>2
<1> QED BY <1>2, <1>3, <1>4, <1>5

\* A label is filled in where there is an instruction to take it.
Links(n) ==
  /\ status = "linking" /\ n \in DOMAIN insts_missing_label
  /\ insts_missing_label[n] \in DOMAIN symbol_table
  /\ n \in 1 .. Len(Program) - 1 /\ TakesLabel(Program[n + 1])
  /\ Program' = [Program EXCEPT ![n + 1] =
                   Linked(@, Offset(symbol_table[insts_missing_label[n]], n))]
  /\ insts_missing_label' =
       [m \in DOMAIN insts_missing_label \ {n} |-> insts_missing_label[m]]
  /\ UNCHANGED <<source, line, num, inst, symbol_table, entry, status>>

LEMMA LinkCases ==
  ASSUME ParserTypes, FillMissingLabel
  PROVE  \/ StopWith("error")
         \/ /\ Len(Program) \in DOMAIN insts_missing_label /\ status = "linking"
            /\ StopWith("panicked")
         \/ \E n \in DOMAIN insts_missing_label : Links(n)
<1>1. PICK n \in DOMAIN insts_missing_label :
        LET label == insts_missing_label[n] IN
        IF label \notin DOMAIN symbol_table THEN StopWith("error")
        ELSE IF n >= Len(Program) THEN StopWith("panicked")
        ELSE IF ~TakesLabel(Program[n + 1]) THEN StopWith("error")
        ELSE /\ Program' = [Program EXCEPT ![n + 1] =
                              Linked(@, Offset(symbol_table[label], n))]
             /\ insts_missing_label' =
                  [m \in DOMAIN insts_missing_label \ {n} |-> insts_missing_label[m]]
             /\ UNCHANGED <<source, line, num, inst, symbol_table, entry, status>>
  BY DEF FillMissingLabel
<1>2. status = "linking" /\ n \in 1 .. Len(Program) /\ Len(Program) \in Nat
  BY DEF FillMissingLabel, ParserTypes
<1>3. n >= Len(Program) => n = Len(Program)
  BY <1>2
<1>4. ~ n >= Len(Program) => n \in 1 .. Len(Program) - 1
  BY <1>2
<1> QED BY <1>1, <1>2, <1>3, <1>4 DEF Links

LEMMA LinkedCoded ==
  ASSUME NEW i \in Coded(Ops), NEW x \in Word
  PROVE  Linked(i, x) \in Coded(Ops)
BY DEF Linked, Coded

LEMMA LinkTypes ==
  ASSUME ParserTypes, NEW n \in DOMAIN insts_missing_label, Links(n)
  PROVE  ParserTypes' /\ Len(Program') = Len(Program)
<1>1. /\ Program \in Seq(Coded(Ops)) /\ n + 1 \in DOMAIN Program /\ n \in Int
      /\ Program[n + 1] \in Coded(Ops)
      /\ symbol_table[insts_missing_label[n]] \in Int
  BY DEF Links, ParserTypes
<1>2. Offset(symbol_table[insts_missing_label[n]], n) \in Word
  BY <1>1, Int32Type DEF Offset
<1> DEFINE new == Linked(Program[n + 1], Offset(symbol_table[insts_missing_label[n]], n))
<1>3. new \in Coded(Ops)
  BY <1>1, <1>2, LinkedCoded
<1> HIDE DEF new
<1>4. Program' = [Program EXCEPT ![n + 1] = new]
  BY DEF Links, new
<1>5. Program' \in Seq(Coded(Ops)) /\ Len(Program') = Len(Program)
  BY <1>1, <1>3, <1>4
<1>6. Lines' = Lines
  BY DEF Links, Lines
<1>7. DOMAIN insts_missing_label' \subseteq DOMAIN insts_missing_label
  BY DEF Links
<1> QED BY <1>5, <1>6, <1>7 DEF Links, ParserTypes

LEMMA TypesStep ==
  ASSUME ParserTypes, [Next]_vars
  PROVE  ParserTypes'
<1>1. CASE UNCHANGED vars \/ Stopped
  <2>1. UNCHANGED vars
    BY <1>1 DEF Stopped
  <2> QED BY <2>1 DEF vars, ParserTypes, Lines
<1>2. CASE RejectToken \/ PanicInLexer \/ FinishTokens
  BY <1>2, StopTypes DEF RejectToken, PanicInLexer, FinishTokens
<1>3. CASE DeclareLabel \/ SkipColon \/ FillOpcode \/ FillOperand
  BY <1>3, IterationTypes
<1>4. CASE FillMissingLabel
  BY <1>4, LinkCases, LinkTypes, StopTypes
<1>5. CASE Return
  <2>1. /\ entry' = IF "main" \in DOMAIN symbol_table THEN symbol_table["main"] ELSE 1
        /\ status' = "done" /\ status = "linking" /\ Lines' = Lines
        /\ UNCHANGED <<source, line, num, inst, symbol_table, insts_missing_label, Program>>
    BY <1>5 DEF Return, Lines
  <2>2. entry' \in 1 .. Len(Program)
    BY <2>1 DEF ParserTypes
  <2> QED BY <2>1, <2>2 DEF ParserTypes
<1> QED BY <1>1, <1>2, <1>3, <1>4, <1>5 DEF Next

LEMMA InitTypes == Init => ParserTypes
<1> SUFFICES ASSUME Init PROVE ParserTypes
  OBVIOUS
<1>1. source \in Sources /\ line = 1 /\ num = 0
  BY DEF Init
<1>2. Len(Lines) \in Nat /\ (1 <= Len(Lines) => 0 < Len(Lines[1]))
  <2>1. DOMAIN Lines = 1 .. Len(Lines) /\ Len(Lines) \in Nat
    BY <1>1, SourceShape
  <2>2. \A n \in 1 .. 255 : 0 < n
    OBVIOUS
  <2>3. 1 \in DOMAIN Lines => Len(Lines[1]) \in 1 .. 255
    BY <1>1, SourceShape
  <2>4. 1 <= Len(Lines) => 1 \in DOMAIN Lines
    BY <2>1
  <2> QED BY <2>1, <2>2, <2>3, <2>4
<1>3. newInstruction("end", 0, 0, 0) \in Coded(Ops)
  BY SmallWords, NewCoded DEF Ops
<1>4. Program = <<newInstruction("end", 0, 0, 0)>>
  BY DEF Init
<1> HIDE DEF newInstruction
<1>5. Program \in Seq(Coded(Ops)) /\ Len(Program) = 1
  BY <1>3, <1>4
<1> QED BY <1>1, <1>2, <1>5, ZeroCoded DEF Init, ParserTypes

LEMMA ParserTypesCorrect == Spec => []ParserTypes
BY InitTypes, TypesStep, PTL DEF Spec

\* For any sources: an index that a label or a waiting instruction stands for
\* is one the program has, and every instruction of the program has an
\* operation of the machine; "num" stays what a uint8 holds.
THEOREM ParserTypeTheorem == Spec => []TypeOK
<1>1. ParserTypes => TypeOK
  <2> SUFFICES ASSUME ParserTypes PROVE TypeOK
    OBVIOUS
  <2>1. num \in 0 .. 254
    <3>1. CASE line <= Len(Lines)
      <4>1. line \in DOMAIN Lines
        BY <3>1, LineShape
      <4>2. \A n \in 1 .. 255 : n \in Nat /\ n <= 255
        OBVIOUS
      <4>3. Len(Lines[line]) \in Nat /\ Len(Lines[line]) <= 255
        BY <4>1, <4>2, SourceShape DEF ParserTypes
      <4> QED BY <3>1, <4>3 DEF ParserTypes
    <3> QED BY <3>1, LineShape DEF ParserTypes
  <2>2. inst \in [op: Ops \cup Pseudo_Ops, Rd: Word, Rs1: Word, Rs2: Word, s1: {0},
                  s2: {0}, imm: {0}, result: {0}, remaining: {0}]
    BY DEF ParserTypes, Coded
  <2>3. \A i \in DOMAIN Program : Program[i].op \in Ops
    <3> TAKE i \in DOMAIN Program
    <3>1. Program[i] \in Coded(Ops)
      BY DEF ParserTypes
    <3> QED BY <3>1 DEF Coded
  <2> QED BY <2>1, <2>2, <2>3 DEF ParserTypes, TypeOK
<1> QED BY <1>1, ParserTypesCorrect, PTL

----------------------------------------------------------------------------
(* The panics.                                                             *)

LEMMA SourceStays ==
  ASSUME source' = source
  PROVE  /\ Lines' = Lines
         /\ \A l : /\ IsInstruction(l)' <=> IsInstruction(l)
                   /\ IsDeclaration(l)' <=> IsDeclaration(l)
                   /\ IsMixed(l)' <=> IsMixed(l)
BY DEF Lines, IsInstruction, IsDeclaration, IsMixed, Colon

\* What precedes a colon on its line, or at the end of the line before, is a
\* label; a line of an instruction has none before the next line is rejected.
LEMMA DeclaringLine ==
  ASSUME ParserTypes, line <= Len(Lines), Declares, IsInstruction(line), source' = source,
         LastOnLine => line' = line + 1 /\ num' = 0
  PROVE  LastOnLine /\ Doomed'
<1>1. line \in DOMAIN Lines /\ num \in Nat /\ num < Len(Lines[line]) /\ Len(Lines[line]) \in Nat
      /\ DOMAIN Lines[line] = 1 .. Len(Lines[line]) /\ source \in Sources
  BY LineShape, SourceShape DEF ParserTypes
<1>2. LastOnLine
  <2> SUFFICES ASSUME ~LastOnLine PROVE FALSE
    OBVIOUS
  <2>1. num + 2 \in DOMAIN Lines[line]
    <3>1. PICK len \in Nat : len = Len(Lines[line])
      BY <1>1
    <3>2. num + 1 # len /\ num < len /\ num \in Nat
      BY <1>1, <3>1 DEF LastOnLine
    <3>3. num + 2 \in 1 .. len
      BY <3>2
    <3> QED BY <1>1, <3>1, <3>3
  <2>2. num + 2 \in Colon(line)
    BY <2>1 DEF Declares, next, Colon
  <2> QED BY <2>2 DEF IsInstruction
<1>3. line < Len(Lines) /\ Lines[line + 1][1].Type = "colon"
  BY <1>2 DEF Declares, next, EndOfSource
<1> QED BY <1>2, <1>3, LineShape, SourceStays DEF Doomed

LEMMA LastStays ==
  ASSUME source' = source, line' = line, NEW l
  PROVE  Last(l)' <=> Last(l)
BY SourceStays DEF Last

LEMMA FollowIteration ==
  ASSUME ParserTypes, Following, status = "parsing", ~Doomed, tok.Type # "end",
         Lines[line][1].Type = "symbol",
         NEW filled, FinishToken(filled),
         IsInstruction(line) =>
           Doomed' \/ (filled.op = Lines[line][1].Value /\ filled.op \in Mnemonics),
         DOMAIN insts_missing_label' \subseteq 1 .. Len(Program),
         Len(Program) \in DOMAIN insts_missing_label' =>
           \/ Len(Program) \in DOMAIN insts_missing_label
           \/ num > 0 /\ (IsInstruction(line) \/ IsMixed(line))
  PROVE  Following'
<1>1. /\ GoesOnLine(filled) \/ Pushes(filled) \/ Drops(filled)
      /\ source' = source /\ status' = status
      /\ line \in Nat /\ num \in Nat /\ line > 0 /\ Len(Program) \in Nat
  BY FinishCases, CurrentToken, LineShape DEF ParserTypes
<1>2. Len(Program) \in DOMAIN insts_missing_label' =>
        \/ num > 0 /\ (IsInstruction(line) \/ IsMixed(line))
        \/ \E l \in 1 .. line - 1 : IsMixed(l) /\ Last(l)
  BY DEF Following
<1>3. CASE GoesOnLine(filled)
  <2>1. line' = line /\ num' > 0 /\ num' # 0 /\ inst' = filled /\ Program' = Program
    BY <1>1, <1>3 DEF GoesOnLine
  <2>2. ~Doomed'
    BY <2>1 DEF Doomed
  <2> QED BY <1>1, <1>2, <2>1, <2>2, SourceStays, LastStays DEF Following
<1>4. CASE Pushes(filled)
  <2>1. num' = 0 /\ inst' = ZeroInstruction /\ Len(Program') = Len(Program) + 1
    BY <1>4 DEF Pushes, ParserTypes
  <2>2. Len(Program') \notin DOMAIN insts_missing_label'
    BY <1>1, <2>1
  <2> QED BY <2>1, <2>2 DEF Following
<1>5. CASE Drops(filled) /\ ~Doomed'
  <2>1. /\ line' = line + 1 /\ num' = 0 /\ inst' = ZeroInstruction /\ Program' = Program
        /\ filled = ZeroInstruction
    BY <1>5 DEF Drops
  <2>2. ~IsInstruction(line)
    BY <1>5, <2>1 DEF ZeroInstruction, newInstruction, Mnemonics, Pseudo_Ops
  <2>3. ASSUME Len(Program') \in DOMAIN insts_missing_label'
        PROVE  \E l \in 1 .. line' - 1 : IsMixed(l)' /\ Last(l)'
    <3>1. CASE num > 0 /\ IsMixed(line)
      <4>1. PICK l \in 1 .. line : l = line
        BY <1>1
      <4>2. Last(l)' /\ l \in 1 .. line' - 1
        BY <1>1, <2>1, <4>1 DEF Last
      <4> QED BY <1>1, <3>1, <4>1, <4>2, SourceStays
    <3>2. CASE \E l \in 1 .. line - 1 : IsMixed(l) /\ Last(l)
      <4>1. PICK l \in 1 .. line - 1 : IsMixed(l) /\ Last(l)
        BY <3>2
      <4>2. \A k \in l + 1 .. line : ~IsInstruction(k)
        BY <1>1, <2>2, <4>1 DEF Last
      <4>3. Last(l)'
        BY <1>1, <2>1, <4>2, SourceStays DEF Last
      <4> QED BY <1>1, <2>1, <4>1, <4>3, SourceStays
    <3>3. Len(Program) \in DOMAIN insts_missing_label'
      BY <2>1, <2>3
    <3> QED BY <1>2, <2>2, <3>1, <3>2, <3>3
  <2> QED BY <2>1, <2>3 DEF Following
<1> QED BY <1>1, <1>3, <1>4, <1>5 DEF Following

LEMMA FollowingStep ==
  ASSUME ParserTypes, Following, [Next]_vars
  PROVE  Following'
<1>1. CASE UNCHANGED vars \/ Stopped
  <2>1. UNCHANGED vars
    BY <1>1 DEF Stopped
  <2>2. \A l : Last(l)' <=> Last(l)
    BY <2>1, LastStays DEF vars
  <2> QED BY <2>1, <2>2, SourceStays DEF vars, Following, Doomed
<1>2. CASE RejectToken \/ PanicInLexer
  BY <1>2 DEF RejectToken, PanicInLexer, StopWith, Following
<1>3. CASE FinishTokens
  <2>1. /\ status = "parsing" /\ line = Len(Lines) + 1
        /\ UNCHANGED <<source, line, num, inst, symbol_table, insts_missing_label, Program>>
    BY <1>3, EndToken DEF FinishTokens, StopWith
  <2>2. ~Doomed
    BY <2>1, LineShape DEF Doomed
  <2>3. \A l : Last(l)' <=> Last(l)
    BY <2>1, LastStays
  <2> QED BY <2>1, <2>2, <2>3, SourceStays DEF Following
<1>4. CASE FillMissingLabel
  <2>1. CASE \E n \in DOMAIN insts_missing_label : Links(n)
    <3>1. PICK n \in DOMAIN insts_missing_label : Links(n)
      BY <2>1
    <3>2. /\ Len(Program') = Len(Program) /\ status = "linking" /\ status' = status
          /\ DOMAIN insts_missing_label' \subseteq DOMAIN insts_missing_label
          /\ UNCHANGED <<source, line, num, inst>>
      BY <3>1, LinkTypes DEF Links
    <3>3. ~Doomed
      BY <3>2, LineShape DEF Doomed, ParserTypes
    <3>4. \A l : Last(l)' <=> Last(l)
      BY <3>2, LastStays
    <3> QED BY <3>2, <3>3, <3>4, SourceStays DEF Following
  <2> QED BY <1>4, <2>1, LinkCases DEF StopWith, Following
<1>5. CASE Return
  BY <1>5 DEF Return, Following
<1>6. ASSUME status = "parsing", tok.Type # "end", ~Misplaced
      PROVE  /\ ~Doomed /\ Lines[line][1].Type = "symbol" /\ line <= Len(Lines)
             /\ num = 0 => tok = Lines[line][1]
             /\ DOMAIN insts_missing_label \subseteq 1 .. Len(Program)
  <2>1. line <= Len(Lines) /\ tok = Lines[line][num + 1] /\ num \in Nat
    BY <1>6, CurrentToken DEF ParserTypes
  <2>2. ~Doomed
    BY <1>6, <2>1 DEF Misplaced, Doomed
  <2>3. Lines[line][1].Type = "symbol"
    BY <1>6, <2>1, <2>2 DEF Misplaced, Following
  <2> QED BY <2>1, <2>2, <2>3 DEF ParserTypes
<1>7. CASE DeclareLabel
  <2>1. /\ status = "parsing" /\ tok.Type # "end" /\ ~Misplaced /\ Declares
        /\ FinishToken(inst) /\ insts_missing_label' = insts_missing_label
    BY <1>7 DEF DeclareLabel, Parsing
  <2>2. IsInstruction(line) => Doomed'
    <3>1. source' = source /\ (LastOnLine => line' = line + 1 /\ num' = 0)
      BY <2>1 DEF FinishToken, Advance
    <3> QED BY <2>1, <3>1, <1>6, DeclaringLine
  <2> QED BY <2>1, <2>2, <1>6, FollowIteration
<1>8. CASE SkipColon
  <2>1. /\ status = "parsing" /\ tok.Type # "end" /\ ~Misplaced /\ tok.Type = "colon"
        /\ FinishToken(inst) /\ insts_missing_label' = insts_missing_label
    BY <1>8 DEF SkipColon, Parsing
  <2>2. ~IsInstruction(line)
    <3>1. num + 1 \in Colon(line)
      BY <2>1, CurrentToken DEF Colon
    <3> QED BY <3>1 DEF IsInstruction
  <2> QED BY <2>1, <2>2, <1>6, FollowIteration
<1>9. CASE FillOpcode
  <2>1. /\ status = "parsing" /\ tok.Type # "end" /\ ~Misplaced /\ num = 0
    BY <1>9 DEF FillOpcode, Parsing
  <2>2. CASE StopWith("error")
    BY <2>2 DEF StopWith, Following
  <2>3. CASE /\ tok.Value \in Mnemonics /\ FinishToken([inst EXCEPT !.op = tok.Value])
             /\ UNCHANGED insts_missing_label
    <3>1. [inst EXCEPT !.op = tok.Value].op = tok.Value
      BY DEF ParserTypes, Coded
    <3> QED BY <2>1, <2>3, <3>1, <1>6, FollowIteration
  <2> QED BY <1>9, <2>2, <2>3 DEF FillOpcode
<1>10. CASE FillOperand
  <2>1. /\ status = "parsing" /\ tok.Type # "end" /\ ~Misplaced /\ num > 0
        /\ tok.Type # "colon"
    BY <1>10 DEF FillOperand, Parsing
  <2>2. CASE StopWith("error")
    BY <2>2 DEF StopWith, Following
  <2>3. CASE ~StopWith("error")
    <3>1. PICK filled : FinishToken(filled) /\ filled.op = inst.op
      BY <1>10, <2>3 DEF FillOperand, ParserTypes, Coded
    <3>2. DOMAIN insts_missing_label' \subseteq DOMAIN insts_missing_label \cup {Len(Program)}
      BY <1>10, <2>3 DEF FillOperand, MissingAt, inst_count, With
    <3>3. IsInstruction(line) \/ IsMixed(line)
      <4>1. line \in DOMAIN Lines /\ num + 1 \in DOMAIN Lines[line] /\ tok = Lines[line][num + 1]
            /\ num \in Nat /\ DOMAIN Lines[line] = 1 .. Len(Lines[line])
        BY <2>1, CurrentToken, SourceShape DEF ParserTypes
      <4>2. ~IsDeclaration(line)
        <5> SUFFICES ASSUME IsDeclaration(line) PROVE FALSE
          OBVIOUS
        <5>1. num + 1 = 2
          BY <2>1, <4>1 DEF IsDeclaration
        <5>2. 2 \in Colon(line)
          BY DEF IsDeclaration
        <5> QED BY <2>1, <4>1, <5>1, <5>2 DEF Colon
      <4> QED BY <2>1, <1>6, <4>2 DEF IsInstruction, IsMixed
    <3>4. IsInstruction(line) => filled.op = Lines[line][1].Value /\ filled.op \in Mnemonics
      BY <2>1, <3>1, <1>6 DEF Following
    <3>5. DOMAIN insts_missing_label' \subseteq 1 .. Len(Program)
      BY <2>1, <3>2, <1>6 DEF ParserTypes
    <3> QED BY <2>1, <3>1, <3>3, <3>4, <3>5, <1>6, FollowIteration
  <2> QED BY <2>2, <2>3
<1> QED BY <1>1, <1>2, <1>3, <1>4, <1>5, <1>7, <1>8, <1>9, <1>10 DEF Next

LEMMA FollowingInit == Init => Following
BY DEF Init, Following

LEMMA FollowingCorrect == Spec => []Following
BY FollowingInit, FollowingStep, ParserTypesCorrect, PTL DEF Spec

\* For any sources: the parser runs off the end of the source only in an open
\* comment, and off the end of the program only for a label behind a
\* declaration on a line that no instruction follows.
THEOREM PanicsTheorem == Spec => []PanicsExplained
<1>1. Init => PanicsExplained
  BY DEF Init, PanicsExplained
<1>2. ParserTypes /\ Following /\ PanicsExplained /\ [Next]_vars => PanicsExplained'
  <2> SUFFICES ASSUME ParserTypes, Following, PanicsExplained, [Next]_vars,
                      status' = "panicked"
               PROVE  \/ source'.open_comment
                      \/ \E l \in DOMAIN Lines' :
                           /\ IsMixed(l)'
                           /\ \A k \in l + 1 .. Len(Lines') : ~IsInstruction(k)'
    BY DEF PanicsExplained
  <2>1. source' = source
    BY DEF Next, vars, RejectToken, PanicInLexer, DeclareLabel, SkipColon, FillOpcode,
           FillOperand, FinishTokens, FillMissingLabel, Return, Stopped, StopWith, FinishToken
  <2>2. CASE status = "panicked"
    BY <2>1, <2>2, SourceStays DEF PanicsExplained
  <2>3. CASE PanicInLexer
    BY <2>1, <2>3 DEF PanicInLexer, PeekPanics
  <2>4. CASE FillMissingLabel
    <3>1. Len(Program) \in DOMAIN insts_missing_label /\ status = "linking"
      BY <2>4, LinkCases DEF StopWith, Links
    <3>2. line = Len(Lines) + 1 /\ num = 0 /\ Len(Lines) \in Nat /\ source \in Sources
      BY <3>1, LineShape DEF ParserTypes
    <3>3. \E l \in 1 .. Len(Lines) : IsMixed(l) /\ \A k \in l + 1 .. Len(Lines) : ~IsInstruction(k)
      BY <3>1, <3>2 DEF Following, Doomed, Last
    <3>4. DOMAIN Lines = 1 .. Len(Lines)
      BY <3>2, SourceShape
    <3> QED BY <2>1, <3>3, <3>4, SourceStays
  <2>5. status # "panicked" => PanicInLexer \/ FillMissingLabel
    BY DEF Next, vars, RejectToken, PanicInLexer, DeclareLabel, SkipColon, FillOpcode,
           FillOperand, FinishTokens, Return, Stopped, StopWith, FinishToken, Parsing
  <2> QED BY <2>2, <2>3, <2>4, <2>5
<1> QED BY <1>1, <1>2, ParserTypesCorrect, FollowingCorrect, PTL DEF Spec

----------------------------------------------------------------------------
(* Counting instructions, and complete lines.                              *)

LEMMA IndexFacts ==
  /\ \A l \in Nat \ {0} : IndexOf(l) \in Nat \ {0}
  /\ \A l \in Nat \ {0} :
       IndexOf(l + 1) = IF IsInstruction(l) THEN IndexOf(l) + 1 ELSE IndexOf(l)
  /\ \A l, m \in Nat \ {0} : l < m /\ IsInstruction(l) => IndexOf(l) < IndexOf(m)
  /\ IndexOf(1) = 1
<1> DEFINE Before(l) == {k \in 1 .. l - 1 : IsInstruction(k)}
<1>1. \A l \in Nat \ {0} : IsFiniteSet(Before(l)) /\ Cardinality(Before(l)) \in Nat
  <2> TAKE l \in Nat \ {0}
  <2>1. IsFiniteSet(1 .. l - 1)
    BY FS_Interval
  <2> QED BY <2>1, FS_Subset, FS_CardinalityType
<1>2. ASSUME NEW l \in Nat \ {0}
      PROVE  Cardinality(Before(l + 1)) =
               IF IsInstruction(l) THEN Cardinality(Before(l)) + 1 ELSE Cardinality(Before(l))
  <2>1. CASE IsInstruction(l)
    <3>1. Before(l + 1) = Before(l) \cup {l} /\ l \notin Before(l)
      BY <2>1
    <3> QED BY <1>1, <2>1, <3>1, FS_AddElement
  <2>2. CASE ~IsInstruction(l)
    <3>1. Before(l + 1) = Before(l)
      BY <2>2
    <3> QED BY <2>2, <3>1
  <2> QED BY <2>1, <2>2
<1>3. ASSUME NEW l \in Nat \ {0}, NEW m \in Nat \ {0}, l < m, IsInstruction(l)
      PROVE  Cardinality(Before(l)) < Cardinality(Before(m))
  <2>1. Before(l + 1) \subseteq Before(m) /\ l + 1 \in Nat \ {0}
    BY <1>3
  <2>2. Cardinality(Before(l + 1)) <= Cardinality(Before(m))
    BY <2>1, <1>1, FS_Subset
  <2>3. Cardinality(Before(l + 1)) = Cardinality(Before(l)) + 1
    BY <1>2, <1>3
  <2>4. /\ Cardinality(Before(l)) \in Nat /\ Cardinality(Before(m)) \in Nat
    BY <1>1
  <2> QED BY <2>2, <2>3, <2>4
<1>4. Cardinality(Before(1)) = 0
  <2>1. Before(1) = {}
    OBVIOUS
  <2> QED BY <2>1, FS_EmptySet
<1>5. \A l : IndexOf(l) = 1 + Cardinality(Before(l))
  BY DEF IndexOf
<1> HIDE DEF Before
<1>6. \A l \in Nat \ {0} : IndexOf(l) \in Nat \ {0}
  BY <1>1, <1>5
<1>7. \A l \in Nat \ {0} :
        IndexOf(l + 1) = IF IsInstruction(l) THEN IndexOf(l) + 1 ELSE IndexOf(l)
  BY <1>1, <1>2, <1>5
<1>8. \A l, m \in Nat \ {0} : l < m /\ IsInstruction(l) => IndexOf(l) < IndexOf(m)
  BY <1>1, <1>3, <1>5
<1>9. IndexOf(1) = 1
  BY <1>4, <1>5
<1> QED BY <1>6, <1>7, <1>8, <1>9

\* An index stands for one line of an instruction.
LEMMA IndexInjective ==
  ASSUME NEW l \in Nat \ {0}, NEW m \in Nat \ {0}, IsInstruction(l), IsInstruction(m),
         IndexOf(l) = IndexOf(m)
  PROVE  l = m
<1>1. ~(l < m) /\ ~(m < l)
  BY IndexFacts
<1> QED BY <1>1

\* Only the last operand is a target.
LEMMA OperandsShape ==
  ASSUME NEW op
  PROVE  /\ Len(Operands(op)) \in 0 .. 3 /\ DOMAIN Operands(op) = 1 .. Len(Operands(op))
         /\ \A k \in DOMAIN Operands(op) :
              /\ Operands(op)[k] \in {"reg", "imm", "target"}
              /\ Operands(op)[k] = "target" => k = Len(Operands(op))
<1> DEFINE Shape(s) == /\ Len(s) \in 0 .. 3 /\ DOMAIN s = 1 .. Len(s)
                       /\ \A k \in DOMAIN s : /\ s[k] \in {"reg", "imm", "target"}
                                              /\ s[k] = "target" => k = Len(s)
<1>1. \A a, b, c \in {"reg", "imm", "target"} :
        a # "target" /\ b # "target" => Shape(<<a, b, c>>)
  OBVIOUS
<1>2. \A a, b \in {"reg", "imm", "target"} : a # "target" => Shape(<<a, b>>)
  OBVIOUS
<1>3. \A a \in {"reg", "imm", "target"} : Shape(<<a>>)
  OBVIOUS
<1>4. Shape(<< >>)
  OBVIOUS
<1> HIDE DEF Shape
<1>5. Shape(Operands(op))
  BY <1>1, <1>2, <1>3, <1>4 DEF Operands
<1> QED BY <1>5 DEF Shape

TargetLast == B_Ops \cup {"jalr", "ble", "bgt"}

LEMMA TargetOps ==
  ASSUME NEW op, NEW k \in DOMAIN Operands(op), Operands(op)[k] = "target"
  PROVE  \/ op \in TargetLast /\ k = 3 /\ Len(Operands(op)) = 3
         \/ op = "jal" /\ k = 2 /\ Len(Operands(op)) = 2
         \/ op \in {"j", "call"} /\ k = 1 /\ Len(Operands(op)) = 1
BY DEF Operands, TargetLast

IsTarget(t) == t.Type = "symbol" /\ t.Value \notin DOMAIN abiToRegNum

LEMMA CompleteShape ==
  ASSUME source \in Sources, NEW l \in DOMAIN Lines, IsComplete(l)
  PROVE  /\ Len(Lines[l]) \in 1 .. 4 /\ Lines[l][1].Value \in Mnemonics /\ IsInstruction(l)
         /\ Len(Operands(Lines[l][1].Value)) = Len(Lines[l]) - 1
         /\ \A k \in 1 .. Len(Lines[l]) - 1 :
              /\ k \in DOMAIN Operands(Lines[l][1].Value)
              /\ Lines[l][k + 1].Type \in {"number", "symbol"}
              /\ IsTarget(Lines[l][k + 1]) =>
                   /\ k = Len(Lines[l]) - 1
                   /\ Operands(Lines[l][1].Value)[k] = "target"
<1> DEFINE op == Lines[l][1].Value
           kinds == Operands(op)
<1>1. /\ op \in Mnemonics /\ IsInstruction(l) /\ Len(Lines[l]) = Len(kinds) + 1
      /\ \A k \in DOMAIN kinds : Names(kinds[k], Lines[l][k + 1])
  BY DEF IsComplete
<1>2. /\ Len(kinds) \in 0 .. 3 /\ DOMAIN kinds = 1 .. Len(kinds)
      /\ \A k \in DOMAIN kinds : /\ kinds[k] \in {"reg", "imm", "target"}
                                 /\ kinds[k] = "target" => k = Len(kinds)
  BY OperandsShape
<1> HIDE DEF kinds
<1>3. \A k \in DOMAIN kinds :
        /\ Lines[l][k + 1].Type \in {"number", "symbol"}
        /\ IsTarget(Lines[l][k + 1]) => kinds[k] = "target"
  BY <1>1, <1>2 DEF Names, IsTarget
<1>4. PICK n \in 0 .. 3 : n = Len(kinds)
  BY <1>2
<1>5. Len(Lines[l]) = n + 1 /\ DOMAIN kinds = 1 .. n
  BY <1>1, <1>2, <1>4
<1>6. \A k \in 1 .. n : k = n => k = Len(Lines[l]) - 1
  BY <1>5
<1>7. 1 .. Len(Lines[l]) - 1 = 1 .. n /\ Len(Lines[l]) \in 1 .. 4 /\ n = Len(Lines[l]) - 1
  BY <1>5
<1>8. \A k \in 1 .. n :
        /\ k \in DOMAIN kinds
        /\ Lines[l][k + 1].Type \in {"number", "symbol"}
        /\ IsTarget(Lines[l][k + 1]) => k = Len(Lines[l]) - 1 /\ kinds[k] = "target"
  BY <1>2, <1>3, <1>4, <1>5, <1>6
<1> QED BY <1>1, <1>4, <1>7, <1>8 DEF kinds

\* The label that a complete line refers to is its last operand.
LEMMA ReferredLast ==
  ASSUME source \in Sources, NEW l \in DOMAIN Lines, IsComplete(l), NEW name \in RefersTo(l)
  PROVE  /\ RefersTo(l) = {name} /\ Len(Lines[l]) > 1
         /\ IsTarget(Lines[l][Len(Lines[l])]) /\ Lines[l][Len(Lines[l])].Value = name
BY DEF RefersTo, IsTarget

\* Where the label of a line goes.
LEMMA FilledTarget ==
  ASSUME source \in Sources, NEW l \in DOMAIN Lines, IsComplete(l), RefersTo(l) # {}
  PROVE  LET op == Lines[l][1].Value
             n  == Len(Lines[l])
         IN  \/ op \in TargetLast /\ n = 4 /\ \E a, b : \A x : Filled(l, n, x) = newInstruction(op, a, b, x)
             \/ op = "jal" /\ n = 3 /\ \E a : \A x : Filled(l, n, x) = newInstruction(op, a, x, 0)
             \/ op \in {"j", "call"} /\ n = 2 /\ \A x : Filled(l, n, x) = newInstruction(op, x, 0, 0)
<1> DEFINE op == Lines[l][1].Value
<1>1. PICK n \in 1 .. 4 : n = Len(Lines[l])
  BY CompleteShape
<1>2. n > 1 /\ IsTarget(Lines[l][n])
  BY <1>1, ReferredLast
<1>3. PICK k \in 1 .. 3 : k + 1 = n
  BY <1>1, <1>2
<1>4. k \in 1 .. Len(Lines[l]) - 1 /\ IsTarget(Lines[l][k + 1])
  BY <1>1, <1>2, <1>3
<1>5. /\ k \in DOMAIN Operands(op) /\ Operands(op)[k] = "target"
      /\ \A j \in 1 .. n - 1 : /\ Lines[l][j + 1].Type \in {"number", "symbol"}
                               /\ IsTarget(Lines[l][j + 1]) => j = n - 1
  BY <1>1, <1>4, CompleteShape
<1>6. \A x : OperandValue(Lines[l][n], x) = x
  BY <1>2 DEF IsTarget, OperandValue
<1>7. \A x, y : \A j \in 1 .. n - 2 :
        OperandValue(Lines[l][j + 1], x) = OperandValue(Lines[l][j + 1], y)
  <2> TAKE x, y
  <2> TAKE j \in 1 .. n - 2
  <2>1. j \in 1 .. n - 1 /\ j # n - 1
    BY <1>1
  <2>2. ~IsTarget(Lines[l][j + 1]) /\ Lines[l][j + 1].Type \in {"number", "symbol"}
    BY <1>5, <2>1
  <2> QED BY <2>2 DEF IsTarget, OperandValue
<1>8. CASE op \in TargetLast /\ n = 4
  <2> DEFINE a == OperandValue(Lines[l][2], 0)
             b == OperandValue(Lines[l][3], 0)
  <2>1. 1 \in 1 .. n - 2 /\ 2 \in 1 .. n - 2 /\ 1 + 1 = 2 /\ 2 + 1 = 3 /\ 3 + 1 = 4
    BY <1>8
  <2>2. \A x : /\ OperandValue(Lines[l][2], x) = a
               /\ OperandValue(Lines[l][3], x) = b /\ OperandValue(Lines[l][4], x) = x
    BY <1>6, <1>7, <1>8, <2>1
  <2> HIDE DEF a, b
  <2>3. \A x : Filled(l, 4, x) = newInstruction(op, a, b, x)
    BY <2>1, <2>2 DEF Filled, Operand
  <2> QED BY <1>1, <1>8, <2>3
<1>9. CASE op = "jal" /\ n = 3
  <2> DEFINE a == OperandValue(Lines[l][2], 0)
  <2>1. 1 \in 1 .. n - 2 /\ 1 + 1 = 2 /\ 2 + 1 = 3
    BY <1>9
  <2>2. \A x : OperandValue(Lines[l][2], x) = a /\ OperandValue(Lines[l][3], x) = x
    BY <1>6, <1>7, <1>9, <2>1
  <2> HIDE DEF a
  <2>3. \A x : Filled(l, 3, x) = newInstruction(op, a, x, 0)
    BY <2>1, <2>2 DEF Filled, Operand
  <2> QED BY <1>1, <1>9, <2>3
<1>10. CASE op \in {"j", "call"} /\ n = 2
  <2>1. \A x : Filled(l, 2, x) = newInstruction(op, x, 0, 0)
    BY <1>6, <1>10 DEF Filled, Operand
  <2> QED BY <1>1, <1>10, <2>1
<1>11. \/ op \in TargetLast /\ k = 3
       \/ op = "jal" /\ k = 2
       \/ op \in {"j", "call"} /\ k = 1
  BY <1>5, TargetOps
<1> QED BY <1>3, <1>8, <1>9, <1>10, <1>11

\* The second pass puts a label where the first one would have.
LEMMA LinkedAssembled ==
  ASSUME source \in Sources, NEW l \in DOMAIN Lines, IsComplete(l), RefersTo(l) # {},
         NEW x, NEW y
  PROVE  TakesLabel(Assembled(l, x)) /\ Linked(Assembled(l, x), y) = Assembled(l, y)
<1> DEFINE op == Lines[l][1].Value
           n  == Len(Lines[l])
<1>1. CASE op \in TargetLast /\ \E a, b : \A z : Filled(l, n, z) = newInstruction(op, a, b, z)
  <2>1. PICK a, b : \A z : Filled(l, n, z) = newInstruction(op, a, b, z)
    BY <1>1
  <2>2. CASE op \in B_Ops \cup {"jalr"}
    <3>1. \A z : Assembled(l, z) = newInstruction(op, a, b, z)
      BY <2>1, <2>2 DEF Assembled, expandPseudoInstruction, newInstruction, B_Ops
    <3> QED BY <2>2, <3>1 DEF TakesLabel, Linked, Fmt_B, newInstruction
  <2>3. CASE op \in {"ble", "bgt"}
    <3>1. \E o \in {"bge", "blt"} : \A z : Assembled(l, z) = newInstruction(o, b, a, z)
      BY <2>1, <2>3 DEF Assembled, expandPseudoInstruction, Exchanged, newInstruction
    <3> QED BY <3>1 DEF TakesLabel, Linked, Fmt_B, B_Ops, newInstruction
  <2> QED BY <1>1, <2>2, <2>3 DEF TargetLast
<1>2. CASE op = "jal" /\ \E a : \A z : Filled(l, n, z) = newInstruction(op, a, z, 0)
  <2>1. PICK a : \A z : Filled(l, n, z) = newInstruction(op, a, z, 0)
    BY <1>2
  <2>2. \A z : Assembled(l, z) = newInstruction("jal", a, z, 0)
    BY <1>2, <2>1 DEF Assembled, expandPseudoInstruction, newInstruction
  <2> QED BY <2>2 DEF TakesLabel, Linked, Fmt_B, Fmt_J, B_Ops, J_Ops, newInstruction
<1>3. CASE op \in {"j", "call"} /\ \A z : Filled(l, n, z) = newInstruction(op, z, 0, 0)
  <2>1. \E a \in {0, 1} : \A z : Assembled(l, z) = newInstruction("jal", a, z, 0)
    BY <1>3 DEF Assembled, expandPseudoInstruction, newInstruction
  <2> QED BY <2>1 DEF TakesLabel, Linked, Fmt_B, Fmt_J, B_Ops, J_Ops, newInstruction
<1> QED BY <1>1, <1>2, <1>3, FilledTarget

----------------------------------------------------------------------------
(* Sources without mixed lines: an iteration keeps the invariant.          *)

LEMMA StaticStays ==
  ASSUME source' = source
  PROVE  /\ Unmixed' <=> Unmixed
         /\ \A l : /\ IsComplete(l)' <=> IsComplete(l)
                   /\ IndexOf(l)' = IndexOf(l) /\ RefersTo(l)' = RefersTo(l)
         /\ \A l, j, x : Filled(l, j, x)' = Filled(l, j, x)
         /\ \A l, x : Assembled(l, x)' = Assembled(l, x)
         /\ \A name : DeclaredOn(name)' = DeclaredOn(name)
         /\ \A l, name, x : Resolved(l, name, x)' <=> Resolved(l, name, x)
BY DEF Unmixed, IsMixed, IsComplete, IndexOf, RefersTo, Filled, Operand, Assembled,
       DeclaredOn, Resolved, Lines, IsInstruction, IsDeclaration, Colon

LEMMA KindsOfLines ==
  ASSUME Unmixed, NEW l \in DOMAIN Lines
  PROVE  /\ Lines[l][1].Type = "symbol" => IsDeclaration(l) \/ IsInstruction(l)
         /\ IsDeclaration(l) => /\ ~IsInstruction(l) /\ ~IsComplete(l)
                                /\ Lines[l][2].Type = "colon" /\ Len(Lines[l]) = 2
         /\ source \in Sources => Lines[l][1].Type # "colon"
<1>1. IsDeclaration(l) \/ Colon(l) = {}
  BY DEF Unmixed, IsMixed
<1>2. IsDeclaration(l) => /\ ~IsInstruction(l) /\ ~IsComplete(l)
                          /\ Lines[l][2].Type = "colon" /\ Len(Lines[l]) = 2
  <2> SUFFICES ASSUME IsDeclaration(l)
               PROVE  /\ ~IsInstruction(l) /\ ~IsComplete(l)
                      /\ Lines[l][2].Type = "colon" /\ Len(Lines[l]) = 2
    OBVIOUS
  <2>1. 2 \in Colon(l)
    BY DEF IsDeclaration
  <2> QED BY <2>1 DEF IsDeclaration, IsInstruction, IsComplete, Colon
<1>3. source \in Sources => Lines[l][1].Type # "colon"
  <2> SUFFICES ASSUME source \in Sources, Lines[l][1].Type = "colon" PROVE FALSE
    OBVIOUS
  <2>1. PICK n \in 1 .. 255 : n = Len(Lines[l])
    BY SourceShape
  <2>2. 1 \in DOMAIN Lines[l]
    <3>1. DOMAIN Lines[l] = 1 .. n
      BY <2>1, SourceShape
    <3> QED BY <3>1
  <2>3. 1 \in Colon(l)
    BY <2>2 DEF Colon
  <2>4. Colon(l) = {2}
    BY <1>1, <2>3 DEF IsDeclaration
  <2> QED BY <2>3, <2>4
<1> QED BY <1>1, <1>2, <1>3 DEF IsInstruction

\* No next line is rejected for its colon.
LEMMA NotDoomed ==
  ASSUME ParserTypes, Unmixed, source' = source, line' = line + 1, Doomed'
  PROVE  /\ line + 1 \in DOMAIN Lines /\ Lines[line + 1][1].Type # "colon"
<1>1. line + 1 <= Len(Lines)
  BY SourceStays DEF Doomed
<1>2. line + 1 \in DOMAIN Lines
  BY <1>1, LineShape
<1> QED BY <1>2, KindsOfLines DEF ParserTypes

LEMMA DeclaresKind ==
  ASSUME ParserTypes, Unmixed, Followed, status = "parsing", tok.Type # "end", ~Misplaced
  PROVE  /\ line \in DOMAIN Lines /\ line \in Nat \ {0}
         /\ IsDeclaration(line) \/ IsInstruction(line)
         /\ Declares => IsDeclaration(line) /\ num = 0 /\ ~LastOnLine
         /\ tok.Type = "colon" => IsDeclaration(line) /\ num = 1 /\ LastOnLine
         /\ IsDeclaration(line) => Declares \/ tok.Type = "colon"
<1>1. /\ line \in DOMAIN Lines /\ line <= Len(Lines) /\ num + 1 \in DOMAIN Lines[line]
      /\ tok = Lines[line][num + 1] /\ line \in Nat \ {0} /\ num \in Nat
  BY CurrentToken, LineShape DEF ParserTypes
<1>2. IsDeclaration(line) \/ IsInstruction(line)
  <2>1. CASE num = 0
    BY <1>1, <2>1, KindsOfLines DEF Misplaced
  <2>2. CASE num > 0
    BY <1>1, <2>2 DEF Followed, Counted, Passed
  <2> QED BY <1>1, <2>1, <2>2
<1>3. ASSUME IsDeclaration(line)
      PROVE  /\ num = 0 => Declares /\ ~LastOnLine /\ tok.Type = "symbol"
             /\ num # 0 => num = 1 /\ LastOnLine /\ tok.Type = "colon"
  <2>1. Lines[line][2].Type = "colon" /\ Len(Lines[line]) = 2 /\ Lines[line][1].Type = "symbol"
    BY <1>1, <1>3, KindsOfLines DEF IsDeclaration
  <2>2. CASE num = 0
    BY <1>1, <2>1, <2>2 DEF Declares, next, LastOnLine
  <2>3. CASE num # 0
    <3>1. num = 1
      BY <1>1, <1>3, <2>3 DEF Followed, Counted
    <3> QED BY <1>1, <2>1, <3>1 DEF LastOnLine
  <2> QED BY <2>2, <2>3
<1>4. ASSUME IsInstruction(line) PROVE ~Declares /\ tok.Type # "colon"
  <2>1. tok.Type # "colon"
    BY <1>1, <1>4 DEF IsInstruction, Colon
  <2>2. ~Declares
    <3> SUFFICES ASSUME Declares PROVE FALSE
      OBVIOUS
    <3>1. PICK n \in Nat : n = Len(Lines[line])
      BY <1>1, LineShape DEF ParserTypes
    <3>2. DOMAIN Lines[line] = 1 .. n /\ num < n
      BY <1>1, <3>1, SourceShape DEF ParserTypes
    <3>3. CASE ~LastOnLine
      <4>1. num + 2 \in DOMAIN Lines[line] /\ Lines[line][num + 2].Type = "colon"
        BY <1>1, <3>1, <3>2, <3>3 DEF Declares, next, LastOnLine
      <4> QED BY <1>4, <4>1 DEF IsInstruction, Colon
    <3>4. CASE LastOnLine
      <4>1. line < Len(Lines) /\ Lines[line + 1][1].Type = "colon"
        BY <3>4 DEF Declares, next, EndOfSource
      <4>2. line + 1 \in DOMAIN Lines
        BY <1>1, <4>1, LineShape
      <4> QED BY <4>1, <4>2, KindsOfLines DEF ParserTypes
    <3> QED BY <3>3, <3>4
  <2> QED BY <2>1, <2>2
<1>5. Declares => tok.Type = "symbol"
  BY DEF Declares
<1> QED BY <1>1, <1>2, <1>3, <1>4, <1>5

\* What is said of lines that have been passed stays, as long as their
\* instructions do.
LEMMA EncodedStays ==
  ASSUME ParserTypes, Encoded, source' = source, NEW m \in Nat,
         \A n \in 1 .. m : n + 1 \in DOMAIN Program => Program'[n + 1] = Program[n + 1],
         \A n \in DOMAIN insts_missing_label : n <= m =>
           n \in DOMAIN insts_missing_label' /\ insts_missing_label'[n] = insts_missing_label[n],
         NEW l \in DOMAIN Lines, IsComplete(l), l < line,
         IndexOf(l) <= m, IndexOf(l) + 1 \in DOMAIN Program
  PROVE  \E x \in Word :
           /\ Program'[IndexOf(l) + 1] = Assembled(l, x)
           /\ \A name \in RefersTo(l) : Pending(l, name)' \/ Resolved(l, name, x)
<1>1. PICK x \in Word :
        /\ Program[IndexOf(l) + 1] = Assembled(l, x)
        /\ \A name \in RefersTo(l) : Pending(l, name) \/ Resolved(l, name, x)
  BY DEF Encoded
<1>2. l \in Nat \ {0}
  BY SourceShape DEF ParserTypes
<1>3. PICK n \in Nat \ {0} : n = IndexOf(l)
  BY <1>2, IndexFacts
<1>4. Program'[n + 1] = Program[n + 1]
  BY <1>3
<1>5. \A name : Pending(l, name) => Pending(l, name)'
  BY <1>3, StaticStays DEF Pending
<1> QED BY <1>1, <1>3, <1>4, <1>5

LEMMA PassedGrows ==
  ASSUME ParserTypes, line \in DOMAIN Lines, source' = source, NEW filled,
         GoesOnLine(filled) \/ Pushes(filled) \/ Drops(filled),
         NEW l \in DOMAIN Lines
  PROVE  (Passed(l)' <=> Passed(l) \/ l = line) /\ (l < line => l < line')
<1>1. line \in Nat /\ l \in Nat /\ num \in Nat
  BY LineShape, SourceShape DEF ParserTypes
<1>2. PICK k \in Nat : k = line
  BY <1>1
<1>3. (line' = k /\ num' > 0 /\ num' = num + 1) \/ (line' = k + 1 /\ num' = 0)
  BY <1>1, <1>2 DEF GoesOnLine, Pushes, Drops
<1>4. Passed(l)' <=> l < line' \/ (l = line' /\ num' > 0)
  BY DEF Passed
<1> QED BY <1>1, <1>2, <1>3, <1>4 DEF Passed

LEMMA DeclaredKept ==
  ASSUME ParserTypes, Unmixed, Declared, line \in DOMAIN Lines, source' = source,
         NEW filled, GoesOnLine(filled) \/ Pushes(filled) \/ Drops(filled),
         symbol_table' = symbol_table,
         IsDeclaration(line) => Passed(line)
  PROVE  Declared'
<1>1. \A l \in DOMAIN Lines : Passed(l) => Passed(l)'
  BY PassedGrows
<1>2. \A l \in DOMAIN Lines : IsDeclaration(l) /\ Passed(l)' => Passed(l)
  BY PassedGrows
<1>3. Lines' = Lines
  BY SourceStays
<1>4. \A name, l : /\ DeclaredAt(name, l)' <=> (l \in DeclaredOn(name) /\ Passed(l)')
                   /\ DeclaredAt(name, l) <=> (l \in DeclaredOn(name) /\ Passed(l))
  BY StaticStays DEF DeclaredAt
<1>5. ASSUME NEW name \in DOMAIN symbol_table'
      PROVE  \E l \in DOMAIN Lines' : DeclaredAt(name, l)' /\ symbol_table'[name] = IndexOf(l)'
  <2>1. PICK l \in DOMAIN Lines : DeclaredAt(name, l) /\ symbol_table[name] = IndexOf(l)
    BY DEF Declared
  <2>2. IndexOf(l)' = IndexOf(l) /\ DeclaredAt(name, l)'
    BY <2>1, <1>1, <1>4, StaticStays
  <2> QED BY <1>3, <2>1, <2>2
<1>6. \A l \in DOMAIN Lines' :
        IsDeclaration(l)' /\ Passed(l)' => Lines'[l][1].Value \in DOMAIN symbol_table'
  BY <1>2, <1>3, SourceStays DEF Declared
<1> QED BY <1>5, <1>6 DEF Declared

LEMMA NotedKept ==
  ASSUME ParserTypes, Unmixed, Noted, line \in DOMAIN Lines, source' = source,
         NEW filled, GoesOnLine(filled) \/ Pushes(filled) \/ Drops(filled),
         NEW new,
         \A n \in DOMAIN insts_missing_label' : n # new =>
           n \in DOMAIN insts_missing_label /\ insts_missing_label'[n] = insts_missing_label[n],
         new \in DOMAIN insts_missing_label' =>
           /\ IsInstruction(line) /\ IndexOf(line) = new
           /\ IsComplete(line) => line' = line + 1 /\ insts_missing_label'[new] \in RefersTo(line)
  PROVE  Noted'
<1>1. Lines' = Lines
  BY SourceStays
<1>2. ASSUME NEW n \in DOMAIN insts_missing_label'
      PROVE  \E l \in DOMAIN Lines :
               /\ IsInstruction(l) /\ Passed(l)' /\ IndexOf(l) = n
               /\ IsComplete(l) => l < line' /\ insts_missing_label'[n] \in RefersTo(l)
  <2>1. CASE n = new
    <3>1. PICK l \in DOMAIN Lines : l = line
      OBVIOUS
    <3>2. IsInstruction(l) /\ IndexOf(l) = n
      BY <2>1, <3>1
    <3>3. Passed(l)'
      BY <3>1, PassedGrows
    <3>4. IsComplete(l) => l < line' /\ insts_missing_label'[n] \in RefersTo(l)
      BY <2>1, <3>1, LineShape
    <3> QED BY <3>2, <3>3, <3>4
  <2>2. CASE n # new
    <3>1. n \in DOMAIN insts_missing_label /\ insts_missing_label'[n] = insts_missing_label[n]
      BY <2>2
    <3>2. PICK l \in DOMAIN Lines :
            /\ IsInstruction(l) /\ Passed(l) /\ IndexOf(l) = n
            /\ IsComplete(l) => l < line /\ insts_missing_label[n] \in RefersTo(l)
      BY <3>1 DEF Noted
    <3>3. Passed(l)' /\ (l < line => l < line')
      BY <3>2, PassedGrows
    <3> QED BY <3>1, <3>2, <3>3
  <2> QED BY <2>1, <2>2
<1>3. \A l, x : /\ IsInstruction(l)' <=> IsInstruction(l)
                /\ IndexOf(l)' = IndexOf(l) /\ RefersTo(l)' = RefersTo(l)
                /\ IsComplete(l)' <=> IsComplete(l)
  BY SourceStays, StaticStays
<1> QED BY <1>1, <1>2, <1>3 DEF Noted

\* An iteration on a line of an instruction, whatever it fills in.
LEMMA InstructionIteration ==
  ASSUME ParserTypes, Unmixed, Followed, line \in DOMAIN Lines, IsInstruction(line),
         NEW filled, FinishToken(filled),
         filled.op = Lines[line][1].Value, filled.op \in Mnemonics,
         symbol_table' = symbol_table,
         \A n \in DOMAIN insts_missing_label : n # Len(Program) =>
           n \in DOMAIN insts_missing_label' /\ insts_missing_label'[n] = insts_missing_label[n],
         \A n \in DOMAIN insts_missing_label' : n # Len(Program) =>
           n \in DOMAIN insts_missing_label /\ insts_missing_label'[n] = insts_missing_label[n],
         IsComplete(line) /\ Len(Program) \in DOMAIN insts_missing_label' =>
           LastOnLine /\ insts_missing_label'[Len(Program)] \in RefersTo(line),
         IsComplete(line) =>
           \E x \in Word :
             /\ filled = Filled(line, num + 1, x)
             /\ ~LastOnLine => filled = Filled(line, num + 1, 0)
             /\ LastOnLine => \A name \in RefersTo(line) :
                  \/ /\ Len(Program) \in DOMAIN insts_missing_label'
                     /\ insts_missing_label'[Len(Program)] = name
                  \/ Resolved(line, name, x)
  PROVE  Followed'
<1>1. /\ GoesOnLine(filled) \/ Pushes(filled) \/ Drops(filled)
      /\ source' = source /\ Lines' = Lines
      /\ Len(Program) \in Nat \ {0} /\ Len(Program) = IndexOf(line)
      /\ Program \in Seq(Coded(Ops))
      /\ line \in Nat \ {0} /\ num \in Nat /\ source \in Sources
  <2>1. line <= Len(Lines)
    BY SourceShape DEF ParserTypes
  <2> QED BY <2>1, FinishCases, LineShape, SourceStays DEF ParserTypes, Followed, Counted
<1>2. filled # ZeroInstruction /\ ~Drops(filled)
  BY DEF Drops, ZeroInstruction, newInstruction, Mnemonics, Pseudo_Ops
<1>3. ~IsDeclaration(line)
  BY KindsOfLines
<1>4. PICK L \in DOMAIN Lines : L = line
  OBVIOUS
<1>5. ASSUME NEW l \in DOMAIN Lines, IsComplete(l), l < L
      PROVE  \E x \in Word :
               /\ Program'[IndexOf(l) + 1] = Assembled(l, x)
               /\ \A name \in RefersTo(l) : Pending(l, name)' \/ Resolved(l, name, x)
  <2>1. l \in Nat \ {0} /\ IsInstruction(l) /\ l < line
    BY <1>1, <1>4, <1>5, CompleteShape, SourceShape
  <2>2. IndexOf(l) < Len(Program) /\ IndexOf(l) \in Nat \ {0}
    BY <1>1, <2>1, IndexFacts
  <2>3. PICK m \in Nat : m = Len(Program) - 1
    BY <1>1
  <2>4. /\ IndexOf(l) <= m /\ IndexOf(l) + 1 \in DOMAIN Program
        /\ \A n \in DOMAIN insts_missing_label : n <= m => n # Len(Program)
    BY <1>1, <2>2, <2>3
  <2>5. \A n \in 1 .. m : n + 1 \in DOMAIN Program => Program'[n + 1] = Program[n + 1]
    BY <1>1, <1>2 DEF GoesOnLine, Pushes
  <2> QED BY <1>1, <1>5, <2>1, <2>3, <2>4, <2>5, EncodedStays DEF Followed
<1>6. \A l, x, name : /\ IsComplete(l)' <=> IsComplete(l)
                      /\ IndexOf(l)' = IndexOf(l) /\ RefersTo(l)' = RefersTo(l)
                      /\ Assembled(l, x)' = Assembled(l, x)
                      /\ Resolved(l, name, x)' <=> Resolved(l, name, x)
  BY <1>1, StaticStays
<1>7. Declared'
  BY <1>1, <1>3, DeclaredKept DEF Followed
<1>8. Noted'
  <2>1. LastOnLine => line' = line + 1
    BY <1>1 DEF GoesOnLine, Pushes, Drops
  <2> QED BY <1>1, <2>1, NotedKept DEF Followed
<1>9. CASE GoesOnLine(filled)
  <2>1. line' = L /\ num' = num + 1 /\ num' > 0 /\ inst' = filled /\ Program' = Program
        /\ ~LastOnLine
    BY <1>1, <1>4, <1>9 DEF GoesOnLine
  <2>2. Counted'
    <3>1. Len(Program') = IndexOf(L)
      BY <1>1, <1>4, <2>1
    <3>2. \A l \in DOMAIN Lines : Passed(l)' => IsDeclaration(l) \/ IsInstruction(l)
      BY <1>1, <1>9, PassedGrows DEF Followed, Counted
    <3>3. IsDeclaration(line)' <=> IsDeclaration(L)
      BY <1>1, <2>1, SourceStays DEF IsDeclaration
    <3>4. IndexOf(line)' = IndexOf(L)
      BY <1>1, <2>1 DEF IndexOf, IsInstruction, Lines, Colon
    <3>5. inst'.op = Lines'[line'][1].Value /\ inst'.op \in Mnemonics
      BY <1>1, <1>4, <2>1
    <3>6. num' # 0
      BY <2>1
    <3> QED BY <1>1, <1>3, <1>4, <3>1, <3>2, <3>3, <3>4, <3>5, <3>6, SourceStays, SMTT(60)
            DEF Counted
  <2>3. Encoded'
    BY <1>1, <1>4, <1>5, <1>6, <2>1 DEF Encoded
  <2>4. Filling'
    <3>1. IsComplete(line)' => IsComplete(L)
      BY <1>1, <2>1 DEF IsComplete, IsInstruction, Lines, Colon
    <3>2. IsComplete(L) => filled = Filled(L, num + 1, 0)
      BY <1>4, <2>1
    <3>3. Filled(line, num, 0)' = Filled(L, num + 1, 0)
      BY <1>1, <2>1 DEF Filled, Operand, Lines
    <3> QED BY <2>1, <3>1, <3>2, <3>3 DEF Filling
  <2> QED BY <1>7, <1>8, <2>2, <2>3, <2>4 DEF Followed
<1>10. CASE Pushes(filled)
  <2>1. /\ line' = L + 1 /\ num' = 0 /\ inst' = ZeroInstruction /\ LastOnLine
        /\ Program' = Append(Program, expandPseudoInstruction(filled))
    BY <1>4, <1>10 DEF Pushes
  <2>2. Len(Program') = Len(Program) + 1
    BY <1>1, <2>1
  <2>3. Counted'
    <3>1. IndexOf(L + 1) = IndexOf(L) + 1
      BY <1>1, <1>4, IndexFacts
    <3>2. IndexOf(line)' = IndexOf(L + 1)
      <4>1. Cardinality({k \in 1 .. line' - 1 : IsInstruction(k)'})
              = Cardinality({k \in 1 .. (L + 1) - 1 : IsInstruction(k)})
        BY <1>1, <2>1, SourceStays
      <4> QED BY <4>1 DEF IndexOf
    <3>3. Len(Program') = IndexOf(line)'
      BY <1>1, <1>4, <2>2, <3>1, <3>2
    <3>4. \A l \in DOMAIN Lines : Passed(l)' => IsDeclaration(l) \/ IsInstruction(l)
      BY <1>1, <1>10, PassedGrows DEF Followed, Counted
    <3>5. num' = 0 /\ ~(num' > 0) /\ inst' = ZeroInstruction
      BY <2>1
    <3> QED BY <1>1, <3>3, <3>4, <3>5, SourceStays DEF Counted
  <2>4. Encoded'
    <3>1. ASSUME IsComplete(L)
          PROVE  \E x \in Word :
                   /\ Program'[IndexOf(L) + 1] = Assembled(L, x)
                   /\ \A name \in RefersTo(L) : Pending(L, name)' \/ Resolved(L, name, x)
      <4>1. PICK x \in Word :
              /\ filled = Filled(L, num + 1, x)
              /\ \A name \in RefersTo(L) :
                   \/ /\ Len(Program) \in DOMAIN insts_missing_label'
                      /\ insts_missing_label'[Len(Program)] = name
                   \/ Resolved(L, name, x)
        BY <1>4, <2>1, <3>1
      <4>2. num + 1 = Len(Lines[L])
        BY <1>4, <2>1 DEF LastOnLine
      <4>3. Program'[Len(Program) + 1] = Assembled(L, x)
        BY <1>1, <2>1, <4>1, <4>2 DEF Assembled
      <4>4. Len(Program) = IndexOf(L) /\ IndexOf(L)' = IndexOf(L)
        BY <1>1, <1>4, <1>6
      <4> QED BY <4>1, <4>3, <4>4 DEF Pending
    <3>2. \A l \in DOMAIN Lines : l < L + 1 => l < L \/ l = L
      BY <1>1, <1>4, SourceShape
    <3>3. ASSUME NEW l \in DOMAIN Lines, IsComplete(l), l < L + 1
          PROVE  \E x \in Word :
                   /\ Program'[IndexOf(l) + 1] = Assembled(l, x)
                   /\ \A name \in RefersTo(l) : Pending(l, name)' \/ Resolved(l, name, x)
      <4>1. CASE l = L
        BY <3>1, <3>3, <4>1
      <4>2. CASE l < L
        BY <1>5, <3>3, <4>2
      <4> QED BY <3>2, <3>3, <4>1, <4>2
    <3> QED BY <1>1, <1>6, <2>1, <3>3 DEF Encoded
  <2>5. Filling'
    BY <2>1 DEF Filling
  <2> QED BY <1>7, <1>8, <2>3, <2>4, <2>5 DEF Followed
<1> QED BY <1>1, <1>2, <1>9, <1>10

\* One more operand; those before it are no labels.
LEMMA FilledNext ==
  ASSUME source \in Sources, NEW l \in DOMAIN Lines, IsComplete(l),
         NEW k \in 1 .. Len(Lines[l]) - 1, NEW x
  PROVE  LET i == Filled(l, k, 0)
             v == OperandValue(Lines[l][k + 1], x)
         IN  Filled(l, k + 1, x) = IF k = 1 THEN [i EXCEPT !.Rd = v]
                                   ELSE IF k = 2 THEN [i EXCEPT !.Rs1 = v]
                                   ELSE [i EXCEPT !.Rs2 = v]
<1>1. PICK n \in 1 .. 4 : n = Len(Lines[l])
  BY CompleteShape
<1>2. k \in 1 .. n - 1 /\ k \in {1, 2, 3}
  BY <1>1
<1>3. \A j \in 1 .. n - 1 : j # n - 1 =>
        OperandValue(Lines[l][j + 1], x) = OperandValue(Lines[l][j + 1], 0)
  <2> TAKE j \in 1 .. n - 1
  <2> SUFFICES ASSUME j # n - 1
               PROVE  OperandValue(Lines[l][j + 1], x) = OperandValue(Lines[l][j + 1], 0)
    OBVIOUS
  <2>1. ~IsTarget(Lines[l][j + 1]) /\ Lines[l][j + 1].Type \in {"number", "symbol"}
    BY <1>1, CompleteShape
  <2> QED BY <2>1 DEF IsTarget, OperandValue
<1>4. \A j \in 1 .. 3 :
        Operand(l, k + 1, j, x) = IF j = k THEN OperandValue(Lines[l][k + 1], x)
                                  ELSE Operand(l, k, j, 0)
  <2> TAKE j \in 1 .. 3
  <2>1. CASE j < k
    <3>1. j \in 1 .. n - 1 /\ j # n - 1 /\ j < k + 1 /\ j # k
      BY <1>2, <2>1
    <3>2. OperandValue(Lines[l][j + 1], x) = OperandValue(Lines[l][j + 1], 0)
      BY <1>3, <3>1
    <3> QED BY <2>1, <3>1, <3>2 DEF Operand
  <2>2. CASE j = k
    BY <1>2, <2>2 DEF Operand
  <2>3. CASE j > k
    BY <1>2, <2>3 DEF Operand
  <2> QED BY <1>2, <2>1, <2>2, <2>3
<1>5. \A a, b, c, op, v :
        /\ [newInstruction(op, a, b, c) EXCEPT !.Rd = v] = newInstruction(op, v, b, c)
        /\ [newInstruction(op, a, b, c) EXCEPT !.Rs1 = v] = newInstruction(op, a, v, c)
        /\ [newInstruction(op, a, b, c) EXCEPT !.Rs2 = v] = newInstruction(op, a, b, v)
  BY DEF newInstruction
<1>6. /\ Operand(l, k + 1, 1, x) = IF 1 = k THEN OperandValue(Lines[l][k + 1], x) ELSE Operand(l, k, 1, 0)
      /\ Operand(l, k + 1, 2, x) = IF 2 = k THEN OperandValue(Lines[l][k + 1], x) ELSE Operand(l, k, 2, 0)
      /\ Operand(l, k + 1, 3, x) = IF 3 = k THEN OperandValue(Lines[l][k + 1], x) ELSE Operand(l, k, 3, 0)
  BY <1>4
<1> QED BY <1>2, <1>5, <1>6 DEF Filled

\* A complete line does not wait for its label before it has been read.
LEMMA NotWaiting ==
  ASSUME ParserTypes, Followed, line \in DOMAIN Lines, IsComplete(line)
  PROVE  Len(Program) \notin DOMAIN insts_missing_label
<1> SUFFICES ASSUME Len(Program) \in DOMAIN insts_missing_label PROVE FALSE
  OBVIOUS
<1>1. source \in Sources /\ line \in Nat \ {0} /\ IsInstruction(line) /\ Len(Program) = IndexOf(line)
  BY LineShape, CompleteShape DEF ParserTypes, Followed, Counted
<1>2. PICK l \in DOMAIN Lines :
        /\ IsInstruction(l) /\ IndexOf(l) = Len(Program)
        /\ IsComplete(l) => l < line
  BY DEF Followed, Noted
<1>3. l \in Nat \ {0}
  BY <1>1, SourceShape
<1>4. l = line
  BY <1>1, <1>2, <1>3, IndexInjective
<1> QED BY <1>1, <1>2, <1>4

LEMMA FollowedOpcode ==
  ASSUME ParserTypes, Unmixed, Followed, FillOpcode, ~StopWith("error")
  PROVE  Followed'
<1>1. /\ status = "parsing" /\ tok.Type # "end" /\ ~Misplaced /\ ~Declares /\ num = 0
      /\ tok.Value \in Mnemonics /\ FinishToken([inst EXCEPT !.op = tok.Value])
      /\ UNCHANGED <<symbol_table, insts_missing_label>>
  BY DEF FillOpcode, Parsing
<1>2. tok.Type = "symbol" /\ tok = Lines[line][1]
  BY <1>1, CurrentToken DEF Misplaced
<1>3. line \in DOMAIN Lines /\ IsInstruction(line)
  BY <1>1, <1>2, DeclaresKind
<1>4. inst = ZeroInstruction
  BY <1>1 DEF Followed, Counted
<1> DEFINE filled == [inst EXCEPT !.op = tok.Value]
<1>5. filled = newInstruction(tok.Value, 0, 0, 0)
  BY <1>4 DEF ZeroInstruction, newInstruction
<1>6. filled = Filled(line, num + 1, 0)
  BY <1>1, <1>2, <1>5 DEF Filled, Operand
<1>7. LastOnLine => RefersTo(line) = {}
  BY <1>1 DEF LastOnLine, RefersTo
<1>8. filled.op = Lines[line][1].Value /\ filled.op \in Mnemonics
  BY <1>1, <1>2, <1>5 DEF newInstruction
<1> HIDE DEF filled
<1>9. IsComplete(line) => Len(Program) \notin DOMAIN insts_missing_label'
  BY <1>1, <1>3, NotWaiting
<1>10. IsComplete(line) =>
         \E x \in Word :
           /\ filled = Filled(line, num + 1, x)
           /\ ~LastOnLine => filled = Filled(line, num + 1, 0)
           /\ LastOnLine => \A name \in RefersTo(line) :
                \/ /\ Len(Program) \in DOMAIN insts_missing_label'
                   /\ insts_missing_label'[Len(Program)] = name
                \/ Resolved(line, name, x)
  BY <1>6, <1>7, SmallWords
<1> QED BY <1>1, <1>3, <1>8, <1>9, <1>10, InstructionIteration DEF filled

LEMMA FollowedOperand ==
  ASSUME ParserTypes, Unmixed, Followed, FillOperand, ~StopWith("error")
  PROVE  Followed'
<1> DEFINE filled == IF num = 1 THEN [inst EXCEPT !.Rd = val]
                     ELSE IF num = 2 THEN [inst EXCEPT !.Rs1 = val]
                     ELSE [inst EXCEPT !.Rs2 = val]
           new == IsLabel /\ ~IsKnown
<1>1. /\ status = "parsing" /\ tok.Type # "end" /\ ~Misplaced /\ ~Declares /\ num > 0
      /\ tok.Type # "colon" /\ FinishToken(filled)
      /\ insts_missing_label' = IF new THEN With(insts_missing_label, Len(Program), tok.Value)
                                ELSE insts_missing_label
      /\ symbol_table' = symbol_table
  BY DEF FillOperand, Parsing, MissingAt, inst_count
<1>2. /\ line \in DOMAIN Lines /\ IsInstruction(line) /\ ~IsDeclaration(line)
      /\ tok = Lines[line][num + 1] /\ num \in Nat /\ source \in Sources
      /\ num + 1 \in DOMAIN Lines[line] /\ DOMAIN Lines[line] = 1 .. Len(Lines[line])
  BY <1>1, DeclaresKind, CurrentToken, SourceShape DEF ParserTypes
<1>3. filled.op = Lines[line][1].Value /\ filled.op \in Mnemonics
  <2>1. inst.op = Lines[line][1].Value /\ inst.op \in Mnemonics
    BY <1>1, <1>2 DEF Followed, Counted
  <2>2. filled.op = inst.op
    BY DEF ParserTypes, Coded
  <2> QED BY <2>1, <2>2
<1>4. /\ \A n \in DOMAIN insts_missing_label : n # Len(Program) =>
           n \in DOMAIN insts_missing_label' /\ insts_missing_label'[n] = insts_missing_label[n]
      /\ \A n \in DOMAIN insts_missing_label' : n # Len(Program) =>
           n \in DOMAIN insts_missing_label /\ insts_missing_label'[n] = insts_missing_label[n]
      /\ new => /\ Len(Program) \in DOMAIN insts_missing_label'
                /\ insts_missing_label'[Len(Program)] = tok.Value
      /\ ~new => insts_missing_label' = insts_missing_label
  BY <1>1 DEF With
<1>5. ASSUME IsComplete(line)
      PROVE  /\ filled = Filled(line, num + 1, val)
             /\ IsTarget(tok) => LastOnLine /\ RefersTo(line) = {tok.Value}
             /\ ~IsTarget(tok) => /\ LastOnLine => RefersTo(line) = {}
                                  /\ filled = Filled(line, num + 1, 0)
  <2>1. PICK n \in 1 .. 4 : n = Len(Lines[line])
    BY <1>2, <1>5, CompleteShape
  <2>2. num \in 1 .. Len(Lines[line]) - 1
    BY <1>1, <1>2, <2>1
  <2>3. tok.Type \in {"number", "symbol"} /\ (IsTarget(tok) => num = Len(Lines[line]) - 1)
    BY <1>2, <1>5, <2>2, CompleteShape
  <2>4. IsTarget(tok) => LastOnLine
    BY <2>1, <2>3 DEF LastOnLine
  <2>5. LastOnLine => num + 1 = Len(Lines[line]) /\ Len(Lines[line]) > 1 /\ tok = Lines[line][Len(Lines[line])]
    BY <1>1, <1>2 DEF LastOnLine
  <2>6. LastOnLine => RefersTo(line) = IF IsTarget(tok) THEN {tok.Value} ELSE {}
    BY <2>5 DEF RefersTo, IsTarget
  <2>7. inst = Filled(line, num, 0)
    BY <1>1, <1>5 DEF Followed, Filling
  <2>8. val = OperandValue(tok, val) /\ (~IsTarget(tok) => val = OperandValue(tok, 0))
    BY <2>3 DEF val, OperandValue, IsTarget, IsRegister, IsKnown, IsLabel
  <2> HIDE DEF val
  <2>9. filled = Filled(line, num + 1, val)
    BY <1>2, <1>5, <2>2, <2>7, <2>8, FilledNext
  <2>10. ~IsTarget(tok) => filled = Filled(line, num + 1, 0)
    BY <1>2, <1>5, <2>2, <2>7, <2>8, FilledNext
  <2> QED BY <2>4, <2>6, <2>9, <2>10
<1>6. IsComplete(line) /\ Len(Program) \in DOMAIN insts_missing_label' =>
        LastOnLine /\ insts_missing_label'[Len(Program)] \in RefersTo(line)
  <2>1. new => IsTarget(tok)
    BY DEF IsLabel, IsTarget
  <2> QED BY <1>2, <1>4, <1>5, <2>1, NotWaiting
<1>7. ASSUME IsComplete(line), IsTarget(tok), ~new PROVE Resolved(line, tok.Value, val)
  <2>1. tok.Value \in DOMAIN symbol_table /\ IsLabel /\ IsKnown
    BY <1>7 DEF IsTarget, IsLabel, IsKnown
  <2>2. val = Int32((symbol_table[tok.Value] - Len(Program)) * 4)
    BY <2>1, <1>7 DEF val, IsTarget, IsRegister, inst_count
  <2>3. PICK d \in DOMAIN Lines : DeclaredAt(tok.Value, d) /\ symbol_table[tok.Value] = IndexOf(d)
    BY <2>1 DEF Followed, Declared
  <2>4. Len(Program) = IndexOf(line)
    BY DEF Followed, Counted
  <2> HIDE DEF val
  <2> QED BY <2>2, <2>3, <2>4 DEF Resolved, Offset, DeclaredAt
<1>8. val \in Word
  BY <1>1, ValType
<1> HIDE DEF filled, val
<1>9. IsComplete(line) =>
        \E x \in Word :
          /\ filled = Filled(line, num + 1, x)
          /\ ~LastOnLine => filled = Filled(line, num + 1, 0)
          /\ LastOnLine => \A name \in RefersTo(line) :
               \/ /\ Len(Program) \in DOMAIN insts_missing_label'
                  /\ insts_missing_label'[Len(Program)] = name
               \/ Resolved(line, name, x)
  BY <1>4, <1>5, <1>7, <1>8
<1> HIDE DEF new
<1> QED BY <1>1, <1>2, <1>3, <1>4, <1>6, <1>9, InstructionIteration

\* An iteration on a line of a declaration.
LEMMA DeclarationIteration ==
  ASSUME ParserTypes, Unmixed, Followed, line \in DOMAIN Lines, IsDeclaration(line),
         inst = ZeroInstruction, source' = source,
         \/ GoesOnLine(inst) /\ num = 0
         \/ Drops(inst) /\ num = 1,
         insts_missing_label' = insts_missing_label,
         Declared'
  PROVE  Followed'
<1>1. /\ line \in Nat \ {0} /\ num \in Nat /\ source \in Sources /\ Lines' = Lines
      /\ ~IsInstruction(line) /\ ~IsComplete(line)
      /\ GoesOnLine(inst) \/ Pushes(inst) \/ Drops(inst)
  BY LineShape, SourceStays, KindsOfLines DEF ParserTypes
<1>2. /\ Program' = Program /\ inst' = ZeroInstruction
      /\ \/ line' = line /\ num' = 1
         \/ line' = line + 1 /\ num' = 0
  BY DEF GoesOnLine, Drops
<1>3. PICK L \in DOMAIN Lines : L = line
  OBVIOUS
<1>4. \A l, x, name : /\ IsComplete(l)' <=> IsComplete(l)
                      /\ IsDeclaration(l)' <=> IsDeclaration(l)
                      /\ IsInstruction(l)' <=> IsInstruction(l)
                      /\ IndexOf(l)' = IndexOf(l) /\ RefersTo(l)' = RefersTo(l)
                      /\ Assembled(l, x)' = Assembled(l, x)
                      /\ Resolved(l, name, x)' <=> Resolved(l, name, x)
  BY StaticStays, SourceStays
<1>5. Counted'
  <2>1. IndexOf(L + 1) = IndexOf(L) /\ Len(Program) = IndexOf(L)
    BY <1>1, <1>3, IndexFacts DEF Followed, Counted
  <2>2. line' = L => IndexOf(line)' = IndexOf(L) /\ (IsDeclaration(line)' <=> IsDeclaration(L))
    BY <1>1 DEF IndexOf, IsInstruction, IsDeclaration, Lines, Colon
  <2>3. line' = L + 1 => IndexOf(line)' = IndexOf(L + 1)
    BY <1>1 DEF IndexOf, IsInstruction, Lines, Colon
  <2>4. Len(Program') = IndexOf(line)'
    BY <1>2, <1>3, <2>1, <2>2, <2>3
  <2>5. \A l \in DOMAIN Lines : Passed(l)' => IsDeclaration(l) \/ IsInstruction(l)
    BY <1>1, PassedGrows DEF Followed, Counted
  <2>6. num' > 0 => IsDeclaration(line)' /\ num' = 1
    BY <1>2, <1>3, <2>2
  <2> QED BY <1>1, <1>2, <1>4, <2>4, <2>5, <2>6 DEF Counted
<1>6. Encoded'
  <2>1. \A l \in DOMAIN Lines : IsComplete(l) /\ l < line' => l < line
    BY <1>1, <1>2, <1>3, SourceShape
  <2>2. \A l, name : Pending(l, name)' <=> Pending(l, name)
    BY <1>4 DEF Pending
  <2> QED BY <1>1, <1>2, <1>4, <2>1, <2>2 DEF Followed, Encoded
<1>7. Filling'
  <2>1. line' = L => ~IsComplete(line)'
    BY <1>1, <1>3 DEF IsComplete, IsInstruction, Lines, Colon
  <2> QED BY <1>2, <1>3, <2>1 DEF Filling
<1>8. Noted'
  <2>1. 0 \notin DOMAIN insts_missing_label'
    BY DEF ParserTypes
  <2> QED BY <1>1, <2>1, NotedKept DEF Followed
<1> QED BY <1>5, <1>6, <1>7, <1>8 DEF Followed

LEMMA FollowedLabel ==
  ASSUME ParserTypes, Unmixed, Followed, DeclareLabel
  PROVE  Followed'
<1>1. /\ status = "parsing" /\ tok.Type # "end" /\ ~Misplaced /\ Declares
      /\ symbol_table' = With(symbol_table, tok.Value, Len(Program))
      /\ FinishToken(inst) /\ insts_missing_label' = insts_missing_label
  BY DEF DeclareLabel, Parsing, inst_count
<1>2. /\ line \in DOMAIN Lines /\ IsDeclaration(line) /\ num = 0 /\ ~LastOnLine
      /\ tok = Lines[line][1] /\ line <= Len(Lines) /\ inst = ZeroInstruction
  BY <1>1, DeclaresKind, CurrentToken DEF Followed, Counted
<1>3. GoesOnLine(inst) /\ source' = source /\ Lines' = Lines
  BY <1>1, <1>2, FinishCases, SourceStays DEF Pushes, Drops
<1>4. \A l \in DOMAIN Lines : Passed(l)' <=> Passed(l) \/ l = line
  BY <1>2, <1>3, PassedGrows
<1>5. \A name, l : DeclaredAt(name, l)' <=> (l \in DeclaredOn(name) /\ Passed(l)')
  BY <1>3, StaticStays DEF DeclaredAt
<1>6. PICK L \in DOMAIN Lines : L = line
  BY <1>2
<1>7. Declared'
  <2>1. ASSUME NEW name \in DOMAIN symbol_table'
        PROVE  \E l \in DOMAIN Lines : DeclaredAt(name, l)' /\ symbol_table'[name] = IndexOf(l)
    <3>1. CASE name = tok.Value
      <4>1. symbol_table'[name] = IndexOf(L)
        BY <1>1, <1>6, <3>1 DEF With, Followed, Counted
      <4>2. DeclaredAt(name, L)'
        BY <1>2, <1>4, <1>5, <1>6, <3>1 DEF DeclaredOn
      <4> QED BY <4>1, <4>2
    <3>2. CASE name # tok.Value
      <4>1. name \in DOMAIN symbol_table /\ symbol_table'[name] = symbol_table[name]
        BY <1>1, <2>1, <3>2 DEF With
      <4>2. PICK l \in DOMAIN Lines : DeclaredAt(name, l) /\ symbol_table[name] = IndexOf(l)
        BY <4>1 DEF Followed, Declared
      <4> QED BY <1>4, <1>5, <4>1, <4>2 DEF DeclaredAt
    <3> QED BY <3>1, <3>2
  <2>2. \A l \in DOMAIN Lines :
          IsDeclaration(l) /\ Passed(l)' => Lines[l][1].Value \in DOMAIN symbol_table'
    BY <1>1, <1>2, <1>4 DEF With, Followed, Declared
  <2> QED BY <1>3, <2>1, <2>2, StaticStays, SourceStays DEF Declared
<1> QED BY <1>1, <1>2, <1>3, <1>7, DeclarationIteration

LEMMA FollowedColon ==
  ASSUME ParserTypes, Unmixed, Followed, SkipColon
  PROVE  Followed'
<1>1. /\ status = "parsing" /\ tok.Type # "end" /\ ~Misplaced /\ tok.Type = "colon"
      /\ FinishToken(inst) /\ UNCHANGED <<symbol_table, insts_missing_label>>
  BY DEF SkipColon, Parsing
<1>2. /\ line \in DOMAIN Lines /\ IsDeclaration(line) /\ num = 1 /\ LastOnLine
      /\ line <= Len(Lines) /\ inst = ZeroInstruction
  BY <1>1, DeclaresKind, CurrentToken DEF Followed, Counted
<1>3. Drops(inst) /\ source' = source
  BY <1>1, <1>2, FinishCases DEF Pushes, GoesOnLine
<1>4. Declared'
  BY <1>1, <1>2, <1>3, DeclaredKept DEF Followed, Passed
<1> QED BY <1>1, <1>2, <1>3, <1>4, DeclarationIteration

LEMMA FollowedSame ==
  ASSUME Followed,
         UNCHANGED <<source, line, num, inst, symbol_table, insts_missing_label, Program>>
  PROVE  Followed'
<1>1. Counted'
  BY DEF Followed, Counted, Passed, IndexOf, Lines, IsInstruction, IsDeclaration, Colon
<1>2. Declared'
  <2>1. \A name, l : /\ Passed(l)' <=> Passed(l)
                     /\ IsDeclaration(l)' <=> IsDeclaration(l)
                     /\ IndexOf(l)' = IndexOf(l)
                     /\ DeclaredAt(name, l)' <=> DeclaredAt(name, l)
    BY StaticStays, SourceStays DEF Passed, DeclaredAt
  <2> QED BY <2>1, SourceStays DEF Followed, Declared
<1>3. Encoded'
  <2>1. \A l, x, name : /\ IsComplete(l)' <=> IsComplete(l)
                        /\ IndexOf(l)' = IndexOf(l) /\ RefersTo(l)' = RefersTo(l)
                        /\ Assembled(l, x)' = Assembled(l, x)
                        /\ Resolved(l, name, x)' <=> Resolved(l, name, x)
    BY StaticStays
  <2>2. \A l, name : Pending(l, name)' <=> Pending(l, name)
    BY <2>1 DEF Pending
  <2> QED BY <2>1, <2>2, SourceStays DEF Followed, Encoded
<1>4. Filling'
  BY DEF Followed, Filling, IsComplete, IsInstruction, Filled, Operand, Lines, Colon
<1>5. Noted'
  <2>1. \A l : /\ IsComplete(l)' <=> IsComplete(l)
               /\ IsInstruction(l)' <=> IsInstruction(l)
               /\ IndexOf(l)' = IndexOf(l) /\ RefersTo(l)' = RefersTo(l)
               /\ Passed(l)' <=> Passed(l)
    BY StaticStays, SourceStays DEF Passed
  <2>2. ASSUME NEW m \in DOMAIN insts_missing_label
        PROVE  \E l \in DOMAIN Lines' :
                 /\ IsInstruction(l)' /\ Passed(l)' /\ IndexOf(l)' = m
                 /\ IsComplete(l)' => l < line' /\ insts_missing_label'[m] \in RefersTo(l)'
    <3>1. PICK l \in DOMAIN Lines :
            /\ IsInstruction(l) /\ Passed(l) /\ IndexOf(l) = m
            /\ IsComplete(l) => l < line /\ insts_missing_label[m] \in RefersTo(l)
      BY DEF Followed, Noted
    <3> QED BY <2>1, <3>1, SourceStays
  <2> QED BY <2>2 DEF Noted
<1> QED BY <1>1, <1>2, <1>3, <1>4, <1>5 DEF Followed

LEMMA FollowedLink ==
  ASSUME ParserTypes, Unmixed, Followed, NEW n \in DOMAIN insts_missing_label, Links(n)
  PROVE  Followed'
<1> DEFINE label == insts_missing_label[n]
           y == Offset(symbol_table[label], n)
<1>1. /\ UNCHANGED <<source, line, num, inst, symbol_table, status>> /\ Lines' = Lines
      /\ line = Len(Lines) + 1 /\ num = 0 /\ source \in Sources
      /\ Program \in Seq(Coded(Ops)) /\ n + 1 \in DOMAIN Program /\ n \in Nat
      /\ Len(Program') = Len(Program) /\ label \in DOMAIN symbol_table
      /\ Program' = [Program EXCEPT ![n + 1] = Linked(Program[n + 1], y)]
      /\ insts_missing_label' = [m \in DOMAIN insts_missing_label \ {n} |-> insts_missing_label[m]]
  BY LinkTypes, SourceStays DEF Links, ParserTypes
<1>2. \A l, x, name : /\ IsComplete(l)' <=> IsComplete(l)
                      /\ IsDeclaration(l)' <=> IsDeclaration(l)
                      /\ IsInstruction(l)' <=> IsInstruction(l)
                      /\ Passed(l)' <=> Passed(l)
                      /\ DeclaredAt(name, l)' <=> DeclaredAt(name, l)
                      /\ IndexOf(l)' = IndexOf(l) /\ RefersTo(l)' = RefersTo(l)
                      /\ Assembled(l, x)' = Assembled(l, x)
                      /\ Resolved(l, name, x)' <=> Resolved(l, name, x)
  BY <1>1, StaticStays, SourceStays DEF Passed, DeclaredAt
<1>3. Counted'
  <2>1. IndexOf(line)' = IndexOf(line)
    BY <1>1 DEF IndexOf, IsInstruction, Lines, Colon
  <2> QED BY <1>1, <1>2, <2>1 DEF Followed, Counted
<1>4. Declared'
  BY <1>1, <1>2 DEF Followed, Declared
<1>5. Filling'
  BY <1>1 DEF Filling
<1>6. Noted'
  <2> SUFFICES ASSUME NEW m \in DOMAIN insts_missing_label'
               PROVE  \E l \in DOMAIN Lines' :
                        /\ IsInstruction(l)' /\ Passed(l)' /\ IndexOf(l)' = m
                        /\ IsComplete(l)' => l < line' /\ insts_missing_label'[m] \in RefersTo(l)'
    BY DEF Noted
  <2>1. m \in DOMAIN insts_missing_label /\ insts_missing_label'[m] = insts_missing_label[m]
    BY <1>1
  <2>2. PICK l \in DOMAIN Lines :
          /\ IsInstruction(l) /\ Passed(l) /\ IndexOf(l) = m
          /\ IsComplete(l) => l < line /\ insts_missing_label[m] \in RefersTo(l)
    BY <2>1 DEF Followed, Noted
  <2> QED BY <1>1, <1>2, <2>1, <2>2
<1>7. PICK w \in DOMAIN Lines :
        /\ IsInstruction(w) /\ IndexOf(w) = n
        /\ IsComplete(w) => w < line /\ label \in RefersTo(w)
  BY DEF Followed, Noted
<1>8. y \in Word
  <2>1. symbol_table[label] \in Int
    BY <1>1 DEF ParserTypes
  <2> QED BY <1>1, <2>1, Int32Type DEF Offset
<1>9. PICK d \in DOMAIN Lines : DeclaredAt(label, d) /\ symbol_table[label] = IndexOf(d)
  BY <1>1 DEF Followed, Declared
<1>10. Resolved(w, label, y)
  BY <1>7, <1>9 DEF Resolved, DeclaredAt
<1> HIDE DEF y
<1>11. ASSUME NEW l \in DOMAIN Lines, IsComplete(l), l < line
       PROVE  \E x \in Word :
                /\ Program'[IndexOf(l) + 1] = Assembled(l, x)
                /\ \A name \in RefersTo(l) : Pending(l, name)' \/ Resolved(l, name, x)
  <2>1. PICK x \in Word :
          /\ Program[IndexOf(l) + 1] = Assembled(l, x)
          /\ \A name \in RefersTo(l) : Pending(l, name) \/ Resolved(l, name, x)
    BY <1>11 DEF Followed, Encoded
  <2>2. IsInstruction(l) /\ l \in Nat \ {0} /\ w \in Nat \ {0}
    <3>1. IsInstruction(l)
      BY <1>1, <1>11, CompleteShape
    <3>2. DOMAIN Lines \subseteq Nat \ {0}
      BY <1>1, SourceShape, SMTT(30)
    <3> QED BY <3>1, <3>2
  <2>3. CASE IndexOf(l) = n
    <3>1. l = w
      BY <1>7, <2>2, <2>3, IndexInjective
    <3>2. RefersTo(l) = {label}
      BY <1>1, <1>7, <1>11, <3>1, ReferredLast
    <3>3. Program'[IndexOf(l) + 1] = Linked(Assembled(l, x), y)
      BY <1>1, <2>1, <2>3
    <3>4. Linked(Assembled(l, x), y) = Assembled(l, y)
      BY <1>1, <1>11, <3>2, LinkedAssembled
    <3> QED BY <1>8, <1>10, <3>1, <3>2, <3>3, <3>4
  <2>4. CASE IndexOf(l) # n
    <3>1. PICK i \in Nat \ {0} : i = IndexOf(l)
      BY <2>2, IndexFacts
    <3>2. Program'[i + 1] = Program[i + 1]
      BY <1>1, <2>4, <3>1
    <3>3. \A name : Pending(l, name) => Pending(l, name)'
      BY <1>1, <1>2, <2>4 DEF Pending
    <3> QED BY <2>1, <3>1, <3>2, <3>3
  <2> QED BY <2>3, <2>4
<1>12. Encoded'
  BY <1>1, <1>2, <1>11 DEF Encoded
<1> QED BY <1>3, <1>4, <1>5, <1>6, <1>12 DEF Followed

LEMMA UnmixedStep ==
  ASSUME ParserTypes, UnmixedInv, [Next]_vars
  PROVE  UnmixedInv'
<1> SUFFICES ASSUME Unmixed', Accepting' PROVE (Followed /\ Entered)'
  BY DEF UnmixedInv
<1>1. source' = source
  BY DEF Next, vars, RejectToken, PanicInLexer, DeclareLabel, SkipColon, FillOpcode,
         FillOperand, FinishTokens, FillMissingLabel, Return, Stopped, StopWith, FinishToken
<1>2. Unmixed /\ ~StopWith("error") /\ ~StopWith("panicked")
  BY <1>1, StaticStays DEF StopWith, Accepting
<1>3. CASE UNCHANGED vars \/ Stopped
  <2>1. UNCHANGED vars
    BY <1>3 DEF Stopped
  <2>2. Followed /\ Entered
    BY <1>2, <2>1 DEF vars, Accepting, UnmixedInv
  <2> QED BY <2>1, <2>2, FollowedSame DEF vars, Entered
<1>4. CASE RejectToken \/ PanicInLexer
  BY <1>2, <1>4 DEF RejectToken, PanicInLexer
<1>5. status \in {"parsing", "linking"} => Followed
  BY <1>2 DEF UnmixedInv, Accepting
<1>6. CASE DeclareLabel \/ SkipColon \/ FillOpcode \/ FillOperand
  <2>1. Followed'
    BY <1>2, <1>5, <1>6, FollowedLabel, FollowedColon, FollowedOpcode, FollowedOperand
       DEF DeclareLabel, SkipColon, FillOpcode, FillOperand, Parsing
  <2>2. status' # "done"
    BY <1>2, <1>6
       DEF DeclareLabel, SkipColon, FillOpcode, FillOperand, Parsing, FinishToken
  <2> QED BY <2>1, <2>2 DEF Entered
<1>7. CASE FinishTokens
  BY <1>5, <1>7, FollowedSame DEF FinishTokens, StopWith, Entered
<1>8. CASE FillMissingLabel
  <2>1. PICK n \in DOMAIN insts_missing_label : Links(n)
    BY <1>2, <1>8, LinkCases
  <2> QED BY <1>2, <1>5, <2>1, FollowedLink DEF Links, Entered
<1>9. CASE Return
  <2>1. /\ Followed /\ UNCHANGED <<source, line, num, inst, symbol_table, insts_missing_label, Program>>
    BY <1>5, <1>9 DEF Return
  <2> QED BY <1>9, <2>1, FollowedSame DEF Return, Entered
<1> QED BY <1>3, <1>4, <1>6, <1>7, <1>8, <1>9 DEF Next

LEMMA UnmixedInit == Init => UnmixedInv
<1> SUFFICES ASSUME Init PROVE Followed /\ Entered
  BY DEF UnmixedInv
<1>1. /\ source \in Sources /\ line = 1 /\ num = 0 /\ inst = ZeroInstruction
      /\ DOMAIN symbol_table = {} /\ DOMAIN insts_missing_label = {}
      /\ Len(Program) = 1 /\ status # "done"
  BY DEF Init
<1>2. \A l \in DOMAIN Lines : ~Passed(l) /\ ~(l < line)
  <2>1. DOMAIN Lines = 1 .. Len(Lines) /\ Len(Lines) \in Nat
    BY <1>1, SourceShape
  <2> QED BY <1>1, <2>1 DEF Passed
<1>3. Len(Program) = IndexOf(line)
  BY <1>1, IndexFacts
<1> QED BY <1>1, <1>2, <1>3 DEF Followed, Counted, Declared, Encoded, Filling, Noted, Entered

LEMMA UnmixedCorrect == Spec => []UnmixedInv
BY UnmixedInit, UnmixedStep, ParserTypesCorrect, PTL DEF Spec

----------------------------------------------------------------------------
(* What a finished program says of the source.                             *)

\* At the end nothing is pending, and all lines have been passed.
LEMMA Finished ==
  ASSUME ParserTypes, Followed, Entered, status = "done", NEW l \in DOMAIN Lines, IsComplete(l)
  PROVE  \E x \in Word :
           /\ Program[IndexOf(l) + 1] = Assembled(l, x)
           /\ \A name \in RefersTo(l) : Resolved(l, name, x)
<1>1. l < line
  BY SourceShape DEF ParserTypes
<1>2. \A name : ~Pending(l, name)
  BY DEF Entered, Pending
<1> QED BY <1>1, <1>2 DEF Followed, Encoded

LEMMA IndexInProgram ==
  ASSUME ParserTypes, Counted, NEW l \in DOMAIN Lines, IsInstruction(l), l < line
  PROVE  /\ IndexOf(l) \in Nat \ {0} /\ IndexOf(l) < Len(Program)
         /\ Program[IndexOf(l) + 1] \in Coded(Ops)
<1>1. l \in Nat \ {0} /\ line \in Nat \ {0}
  BY LineShape, SourceShape DEF ParserTypes
<1>2. IndexOf(l) < IndexOf(line) /\ IndexOf(l) \in Nat \ {0}
  BY <1>1, IndexFacts
<1>3. Len(Program) = IndexOf(line)
  BY DEF Counted
<1>4. Program \in Seq(Coded(Ops)) /\ Len(Program) \in Nat
  BY DEF ParserTypes
<1> QED BY <1>2, <1>3, <1>4

\* A label ends up where the format of its instruction keeps the offset.
LEMMA AssembledTarget ==
  ASSUME source \in Sources, NEW l \in DOMAIN Lines, IsComplete(l), RefersTo(l) # {},
         NEW x, Assembled(l, x) \in Coded(Ops)
  PROVE  LET i == Assembled(l, x) IN (IF Fmt_J(i) THEN i.Rs1 ELSE i.Rs2) = x
<1>1. PICK i \in Coded(Ops) : i = Assembled(l, x)
  OBVIOUS
<1>2. TakesLabel(i) /\ Linked(i, x) = i
  BY <1>1, LinkedAssembled
<1>3. Fmt_J(i) => ~Fmt_B(i) /\ i.op # "jalr"
  BY DEF Fmt_J, Fmt_B, J_Ops, B_Ops
<1>4. Fmt_J(i) => i.Rs1 = x
  BY <1>2, <1>3 DEF Linked, Coded
<1>5. ~Fmt_J(i) => i.Rs2 = x
  BY <1>2 DEF Linked, TakesLabel, Coded
<1> QED BY <1>1, <1>4, <1>5

\* For any sources: a line and the label it refers to are as far apart in the
\* program as in the source, whether the label was known when the line was read
\* or filled in afterwards.
THEOREM LabelsTheorem == Spec => []LabelsResolve
<1>1. ParserTypes /\ UnmixedInv => LabelsResolve
  <2> SUFFICES ASSUME ParserTypes, UnmixedInv, status = "done", Unmixed,
                      NEW l \in DOMAIN Lines, IsComplete(l), NEW name \in RefersTo(l),
                      Cardinality(DeclaredOn(name)) = 1
               PROVE  LET i == Program[IndexOf(l) + 1]
                          displacement == IF Fmt_J(i) THEN i.Rs1 ELSE i.Rs2
                      IN  Uint32(4 * IndexOf(l) + displacement)
                            = Uint32(4 * IndexOf(CHOOSE d \in DeclaredOn(name) : TRUE))
    BY DEF LabelsResolve, Unmixed
  <2>1. Followed /\ Entered /\ source \in Sources
    BY DEF UnmixedInv, Accepting, ParserTypes
  <2>2. PICK x \in Word : Program[IndexOf(l) + 1] = Assembled(l, x) /\ Resolved(l, name, x)
    BY <2>1, Finished
  <2>3. PICK d \in DeclaredOn(name) : x = Offset(IndexOf(d), IndexOf(l))
    BY <2>2 DEF Resolved
  <2>4. DeclaredOn(name) = {d}
    <3>1. \A S : IsFiniteSet(S) /\ Cardinality(S) = 1 => \E e : S = {e}
      BY FS_Singleton
    <3>2. IsFiniteSet(DeclaredOn(name))
      <4>1. IsFiniteSet(1 .. Len(Lines))
        BY <2>1, SourceShape, FS_Interval
      <4> QED BY <2>1, <4>1, SourceShape, FS_Subset DEF DeclaredOn
    <3> QED BY <3>1, <3>2
  <2>5. (CHOOSE e \in DeclaredOn(name) : TRUE) = d
    BY <2>4
  <2>6. d \in Nat \ {0} /\ l \in Nat \ {0}
    BY <2>1, SourceShape DEF DeclaredOn
  <2>7. PICK from \in Int, to \in Int : from = IndexOf(l) /\ to = IndexOf(d)
    BY <2>6, IndexFacts
  <2>8. Uint32(4 * from + Int32((to - from) * 4)) = Uint32(4 * to)
    <3>1. PICK a \in Int, b \in Int : a = 4 * from /\ b = (to - from) * 4
      BY <2>7
    <3>2. Uint32(a + Int32(b)) = Uint32(a + b)
      BY Uint32OfInt32
    <3>3. a + b = 4 * to
      BY <3>1
    <3> QED BY <3>1, <3>2, <3>3
  <2>9. LET i == Program[IndexOf(l) + 1] IN (IF Fmt_J(i) THEN i.Rs1 ELSE i.Rs2) = x
    <3>1. l < line /\ IsInstruction(l)
      BY <2>1, SourceShape, CompleteShape DEF ParserTypes
    <3>2. Program[IndexOf(l) + 1] \in Coded(Ops)
      BY <2>1, <3>1, IndexInProgram DEF Followed
    <3> QED BY <2>1, <2>2, <3>2, AssembledTarget
  <2> QED BY <2>3, <2>5, <2>7, <2>8, <2>9 DEF Offset
<1> QED BY <1>1, ParserTypesCorrect, UnmixedCorrect, PTL

----------------------------------------------------------------------------
(* Well-formed sources.                                                    *)

LEMMA WellFormedLines ==
  ASSUME WellFormed, source \in Sources
  PROVE  /\ Unmixed
         /\ \A l \in DOMAIN Lines : ~IsDeclaration(l) => IsComplete(l)
<1>1. \A l \in DOMAIN Lines : ~IsDeclaration(l) => IsComplete(l)
  BY DEF WellFormed
<1> QED BY <1>1 DEF Unmixed, IsMixed, IsComplete, IsInstruction

LEMMA WellFormedStays ==
  ASSUME source' = source
  PROVE  WellFormed' <=> WellFormed
<1>1. /\ Lines' = Lines
      /\ \A l, name : /\ IsComplete(l)' <=> IsComplete(l)
                      /\ IsDeclaration(l)' <=> IsDeclaration(l)
                      /\ RefersTo(l)' = RefersTo(l)
                      /\ DeclaredOn(name)' = DeclaredOn(name)
  BY StaticStays, SourceStays
<1>2. /\ (\A l \in DOMAIN Lines : IsDeclaration(l) \/ IsComplete(l))' <=>
            \A l \in DOMAIN Lines : IsDeclaration(l) \/ IsComplete(l)
      /\ (\A l \in DOMAIN Lines : IsComplete(l) =>
             \A name \in RefersTo(l) : DeclaredOn(name) # {})' <=>
            \A l \in DOMAIN Lines : IsComplete(l) =>
              \A name \in RefersTo(l) : DeclaredOn(name) # {}
  BY <1>1
<1>3. (\A l \in DOMAIN Lines : IsDeclaration(l) => DeclaredOn(Lines[l][1].Value) = {l})' <=>
        \A l \in DOMAIN Lines : IsDeclaration(l) => DeclaredOn(Lines[l][1].Value) = {l}
  BY <1>1
<1> QED BY <1>2, <1>3 DEF WellFormed

\* The current token is one that the shape of its line allows.
LEMMA WellFormedToken ==
  ASSUME ParserTypes, Followed, WellFormed, tok.Type # "end"
  PROVE  /\ ~Misplaced /\ ~PeekPanics
         /\ IsComplete(line) => num <= 3
<1>1. /\ line \in DOMAIN Lines /\ num + 1 \in DOMAIN Lines[line]
      /\ tok = Lines[line][num + 1] /\ source \in Sources /\ num \in Nat
      /\ DOMAIN Lines[line] = 1 .. Len(Lines[line])
  BY CurrentToken, SourceShape DEF ParserTypes
<1>2. IsDeclaration(line) \/ IsComplete(line)
  BY <1>1, WellFormedLines
<1>3. CASE IsDeclaration(line)
  <2>1. Lines[line][1].Type = "symbol" /\ Lines[line][2].Type = "colon" /\ ~IsComplete(line)
    BY <1>1, <1>3, WellFormedLines, KindsOfLines DEF IsDeclaration
  <2>2. num + 1 = 1 \/ num + 1 = 2
    BY <1>1, <1>3 DEF IsDeclaration
  <2> QED BY <1>1, <2>1, <2>2 DEF Misplaced, PeekPanics, WellFormed
<1>4. CASE IsComplete(line)
  <2>1. PICK n \in 1 .. 4 : n = Len(Lines[line])
    BY <1>1, <1>4, CompleteShape
  <2>2. num = 0 => tok.Type = "symbol"
    BY <1>1, <1>4 DEF IsComplete, IsInstruction
  <2>3. num > 0 => tok.Type \in {"number", "symbol"}
    <3> SUFFICES ASSUME num > 0 PROVE tok.Type \in {"number", "symbol"}
      OBVIOUS
    <3>1. num \in 1 .. Len(Lines[line]) - 1
      BY <1>1, <2>1
    <3> QED BY <1>1, <1>4, <3>1, CompleteShape
  <2> QED BY <1>1, <2>1, <2>2, <2>3 DEF Misplaced, PeekPanics, WellFormed
<1> QED BY <1>2, <1>3, <1>4

\* No label is missing, and each goes to an instruction that takes one.
LEMMA WellFormedLink ==
  ASSUME ParserTypes, Followed, WellFormed, status = "linking",
         NEW n \in DOMAIN insts_missing_label
  PROVE  /\ insts_missing_label[n] \in DOMAIN symbol_table
         /\ n < Len(Program) /\ TakesLabel(Program[n + 1])
<1>1. /\ line = Len(Lines) + 1 /\ source \in Sources
      /\ DOMAIN Lines = 1 .. Len(Lines) /\ Len(Lines) \in Nat
  BY SourceShape DEF ParserTypes
<1>2. PICK l \in DOMAIN Lines :
        /\ IsInstruction(l) /\ IndexOf(l) = n
        /\ IsComplete(l) => l < line /\ insts_missing_label[n] \in RefersTo(l)
  BY DEF Followed, Noted
<1>3. IsComplete(l)
  BY <1>1, <1>2, WellFormedLines, KindsOfLines
<1>4. insts_missing_label[n] \in DOMAIN symbol_table
  <2>1. PICK d \in DeclaredOn(insts_missing_label[n]) : TRUE
    BY <1>2, <1>3 DEF WellFormed
  <2>2. Passed(d) /\ d \in DOMAIN Lines
    BY <1>1, <2>1 DEF DeclaredOn, Passed
  <2> QED BY <2>1, <2>2 DEF DeclaredOn, Followed, Declared
<1>5. n < Len(Program)
  BY <1>2, <1>3, IndexInProgram DEF Followed
<1>6. TakesLabel(Program[n + 1])
  <2>1. PICK x \in Word : Program[IndexOf(l) + 1] = Assembled(l, x)
    BY <1>2, <1>3 DEF Followed, Encoded
  <2> QED BY <1>1, <1>2, <1>3, <2>1, LinkedAssembled
<1> QED BY <1>4, <1>5, <1>6

Accepted == WellFormed => Accepting

LEMMA AcceptedStep ==
  ASSUME ParserTypes, UnmixedInv, Accepted, [Next]_vars
  PROVE  Accepted'
<1> SUFFICES ASSUME WellFormed' PROVE Accepting'
  BY DEF Accepted
<1>1. source' = source
  BY DEF Next, vars, RejectToken, PanicInLexer, DeclareLabel, SkipColon, FillOpcode,
         FillOperand, FinishTokens, FillMissingLabel, Return, Stopped, StopWith, FinishToken
<1>2. WellFormed /\ Unmixed /\ Followed /\ Accepting
  BY <1>1, WellFormedStays, WellFormedLines DEF Accepted, UnmixedInv, ParserTypes
<1>3. CASE UNCHANGED vars \/ Stopped
  BY <1>2, <1>3 DEF Stopped, vars, Accepting
<1>4. CASE RejectToken \/ PanicInLexer
  BY <1>2, <1>4, WellFormedToken DEF RejectToken, PanicInLexer
<1>5. CASE DeclareLabel \/ SkipColon
  BY <1>5 DEF DeclareLabel, SkipColon, Parsing, FinishToken, Accepting
<1>6. ASSUME FillOpcode \/ FillOperand
      PROVE  /\ status = "parsing" /\ tok.Type # "end" /\ IsComplete(line) /\ line \in DOMAIN Lines
             /\ num = 0 => tok = Lines[line][1]
  <2>1. /\ status = "parsing" /\ tok.Type # "end" /\ ~Misplaced /\ ~Declares
        /\ num = 0 \/ tok.Type # "colon"
    BY <1>6 DEF FillOpcode, FillOperand, Parsing
  <2>2. ~IsDeclaration(line) /\ line \in DOMAIN Lines /\ (num = 0 => tok = Lines[line][1])
    BY <1>2, <2>1, DeclaresKind, CurrentToken DEF Misplaced
  <2> QED BY <1>2, <2>1, <2>2, WellFormedLines DEF ParserTypes
<1>7. CASE FillOpcode
  <2>1. num = 0
    BY <1>7 DEF FillOpcode
  <2>2. tok.Value \in Mnemonics
    BY <1>6, <1>7, <2>1 DEF IsComplete
  <2> QED BY <1>6, <1>7, <2>2 DEF FillOpcode, FinishToken, Accepting
<1>8. CASE FillOperand
  <2>1. num <= 3 /\ num \in Nat
    BY <1>2, <1>6, <1>8, WellFormedToken DEF ParserTypes
  <2> QED BY <1>6, <1>8, <2>1 DEF FillOperand, FinishToken, Accepting
<1>9. CASE FinishTokens
  BY <1>9 DEF FinishTokens, StopWith, Accepting
<1>10. CASE FillMissingLabel
  <2>1. \A n \in DOMAIN insts_missing_label :
          /\ insts_missing_label[n] \in DOMAIN symbol_table
          /\ n < Len(Program) /\ TakesLabel(Program[n + 1]) /\ ~(n >= Len(Program))
    <3>1. \A n \in DOMAIN insts_missing_label : n \in Int /\ Len(Program) \in Int
      BY DEF ParserTypes
    <3> QED BY <1>2, <1>10, <3>1, WellFormedLink DEF FillMissingLabel
  <2> QED BY <1>10, <2>1 DEF FillMissingLabel, Accepting
<1>11. CASE Return
  BY <1>11 DEF Return, Accepting
<1> QED BY <1>3, <1>4, <1>5, <1>7, <1>8, <1>9, <1>10, <1>11 DEF Next

LEMMA AcceptedCorrect == Spec => []Accepted
<1>1. Init => Accepted
  BY DEF Init, Accepted, Accepting, WellFormed
<1> QED BY <1>1, AcceptedStep, ParserTypesCorrect, UnmixedCorrect, PTL DEF Spec

\* For any sources: the parser turns down no source that is written as the
\* instruction set asks, and starts it at the label "main" if there is one.
THEOREM AcceptsTheorem == Spec => []AcceptsWellFormed
<1>1. ParserTypes /\ UnmixedInv /\ Accepted => AcceptsWellFormed
  <2> SUFFICES ASSUME ParserTypes, UnmixedInv, Accepted, WellFormed
               PROVE  /\ status \notin {"error", "panicked"}
                      /\ status = "done" =>
                           entry = IF DeclaredOn("main") = {} THEN 1
                                   ELSE IndexOf(CHOOSE l \in DeclaredOn("main") : TRUE)
    BY DEF AcceptsWellFormed
  <2>1. /\ Followed /\ Entered /\ source \in Sources /\ Accepting
        /\ DOMAIN Lines = 1 .. Len(Lines) /\ Len(Lines) \in Nat
    BY WellFormedLines, SourceShape DEF Accepted, UnmixedInv, ParserTypes
  <2>2. ASSUME status = "done"
        PROVE  entry = IF DeclaredOn("main") = {} THEN 1
                       ELSE IndexOf(CHOOSE l \in DeclaredOn("main") : TRUE)
    <3>1. CASE "main" \in DOMAIN symbol_table
      <4>1. PICK d \in DOMAIN Lines :
              d \in DeclaredOn("main") /\ symbol_table["main"] = IndexOf(d)
        BY <2>1, <3>1 DEF Followed, Declared, DeclaredAt
      <4>2. DeclaredOn("main") = {d}
        BY <4>1 DEF WellFormed, DeclaredOn
      <4> QED BY <2>1, <2>2, <3>1, <4>1, <4>2 DEF Entered
    <3>2. CASE "main" \notin DOMAIN symbol_table
      <4>1. \A d \in DOMAIN Lines : Passed(d)
        BY <2>1, <2>2 DEF ParserTypes, Passed
      <4>2. DeclaredOn("main") = {}
        BY <2>1, <3>2, <4>1 DEF Followed, Declared, DeclaredOn
      <4> QED BY <2>1, <2>2, <3>2, <4>2 DEF Entered
    <3> QED BY <3>1, <3>2
  <2> QED BY <2>1, <2>2 DEF Accepting
<1> QED BY <1>1, ParserTypesCorrect, UnmixedCorrect, AcceptedCorrect, PTL

----------------------------------------------------------------------------
(* What the pipeline is fed with.                                          *)

\* The operands of a complete line: registers where it asks for them, words
\* everywhere, and zero where it has none.
LEMMA OperandTypes ==
  ASSUME source \in Sources, NEW l \in DOMAIN Lines, IsComplete(l), NEW x \in Word,
         NEW k \in 1 .. 3
  PROVE  LET kinds == Operands(Lines[l][1].Value)
             v == Operand(l, Len(Lines[l]), k, x)
         IN  /\ v \in Word
             /\ k \in DOMAIN kinds => v = OperandValue(Lines[l][k + 1], x)
             /\ k \in DOMAIN kinds /\ kinds[k] = "reg" => v \in Reg
             /\ k \notin DOMAIN kinds => v = 0
<1> DEFINE kinds == Operands(Lines[l][1].Value)
           v == Operand(l, Len(Lines[l]), k, x)
<1>1. PICK n \in 1 .. 4 : n = Len(Lines[l])
  BY CompleteShape
<1>2. DOMAIN kinds = 1 .. n - 1
  <2>1. Len(kinds) = n - 1
    BY <1>1, CompleteShape
  <2> QED BY <2>1, OperandsShape
<1>3. CASE k \in DOMAIN kinds
  <2>1. k < n /\ v = OperandValue(Lines[l][k + 1], x)
    BY <1>1, <1>2, <1>3 DEF Operand
  <2>2. DOMAIN Lines[l] = 1 .. n
    BY <1>1, SourceShape
  <2>3. k + 1 \in DOMAIN Lines[l]
    BY <1>1, <2>1, <2>2
  <2>4. /\ Lines[l][k + 1].Number \in Int
        /\ Lines[l][k + 1].Value \in DOMAIN abiToRegNum =>
             abiToRegNum[Lines[l][k + 1].Value] \in Reg \cap Word
    BY <2>3, TokenShape
  <2>5. v \in Word
    BY <2>1, <2>4, Int32Type DEF OperandValue
  <2>6. kinds[k] = "reg" => v \in Reg
    <3> SUFFICES ASSUME kinds[k] = "reg" PROVE v \in Reg
      OBVIOUS
    <3>1. Names("reg", Lines[l][k + 1])
      BY <1>3 DEF IsComplete
    <3> QED BY <2>1, <2>4, <3>1 DEF Names, OperandValue
  <2> QED BY <1>3, <2>1, <2>5, <2>6
<1>4. CASE k \notin DOMAIN kinds
  <2>1. v = 0
    BY <1>1, <1>2, <1>4 DEF Operand
  <2> QED BY <1>4, <2>1, SmallWords
<1> QED BY <1>3, <1>4

LEMMA OperandKinds ==
  ASSUME NEW op
  PROVE  LET kinds == Operands(op) IN
         /\ op \in R_Ops =>
              Len(kinds) = 3 /\ kinds[1] = "reg" /\ kinds[2] = "reg" /\ kinds[3] = "reg"
         /\ op \in Loads \cup S_Ops =>
              Len(kinds) = 3 /\ kinds[1] = "reg" /\ kinds[2] = "imm" /\ kinds[3] = "reg"
         /\ op \in B_Ops \cup {"jalr", "ble", "bgt"} =>
              Len(kinds) = 3 /\ kinds[1] = "reg" /\ kinds[2] = "reg" /\ kinds[3] = "target"
         /\ op \in ImmAluOps =>
              Len(kinds) = 3 /\ kinds[1] = "reg" /\ kinds[2] = "reg" /\ kinds[3] = "imm"
         /\ op = "jal" => Len(kinds) = 2 /\ kinds[1] = "reg" /\ kinds[2] = "target"
         /\ op \in {"mv", "not", "neg"} =>
              Len(kinds) = 2 /\ kinds[1] = "reg" /\ kinds[2] = "reg"
         /\ op \in U_Ops \cup {"li"} =>
              Len(kinds) = 2 /\ kinds[1] = "reg" /\ kinds[2] = "imm"
         /\ op = "jr" => Len(kinds) = 1 /\ kinds[1] = "reg"
         /\ op \in {"j", "call"} => Len(kinds) = 1 /\ kinds[1] = "target"
         /\ op \in {"ret", "end"} => Len(kinds) = 0
BY DEF Operands, R_Ops, Loads, S_Ops, B_Ops, I_Ops, ImmAluOps, U_Ops

LEMMA Expansions ==
  ASSUME NEW op, NEW a, NEW b, NEW c
  PROVE  LET made == expandPseudoInstruction(newInstruction(op, a, b, c)) IN
         /\ op \in Ops => made = newInstruction(op, a, b, c)
         /\ op = "mv" => made = newInstruction("addi", a, b, 0)
         /\ op = "not" => made = newInstruction("xori", a, b, -1)
         /\ op = "neg" => made = newInstruction("sub", a, 0, b)
         /\ op = "li" => made = newInstruction("addi", a, 0, b)
         /\ op = "jr" => made = newInstruction("jalr", 0, a, 0)
         /\ op = "ret" => made = newInstruction("jalr", 0, 1, 0)
         /\ op = "ble" => made = newInstruction("bge", b, a, c)
         /\ op = "bgt" => made = newInstruction("blt", b, a, c)
         /\ op = "j" => made = newInstruction("jal", 0, a, 0)
         /\ op = "call" => made = newInstruction("jal", 1, a, 0)
<1> PICK ps : ps = newInstruction(op, a, b, c)
  OBVIOUS
<1>1. ps.op = op /\ ps.Rd = a /\ ps.Rs1 = b /\ ps.Rs2 = c
  BY DEF newInstruction
<1>2. op \in Ops => expandPseudoInstruction(ps) = ps
  BY <1>1 DEF expandPseudoInstruction, Ops, R_Ops, I_Ops, S_Ops, B_Ops, U_Ops, J_Ops
<1> HIDE DEF newInstruction
<1>3. /\ op = "mv" => expandPseudoInstruction(ps) = newInstruction("addi", a, b, 0)
      /\ op = "not" => expandPseudoInstruction(ps) = newInstruction("xori", a, b, -1)
      /\ op = "neg" => expandPseudoInstruction(ps) = newInstruction("sub", a, 0, b)
      /\ op = "li" => expandPseudoInstruction(ps) = newInstruction("addi", a, 0, b)
      /\ op = "jr" => expandPseudoInstruction(ps) = newInstruction("jalr", 0, a, 0)
      /\ op = "ret" => expandPseudoInstruction(ps) = newInstruction("jalr", 0, 1, 0)
      /\ op = "ble" => expandPseudoInstruction(ps) = newInstruction("bge", b, a, c)
      /\ op = "bgt" => expandPseudoInstruction(ps) = newInstruction("blt", b, a, c)
      /\ op = "j" => expandPseudoInstruction(ps) = newInstruction("jal", 0, a, 0)
      /\ op = "call" => expandPseudoInstruction(ps) = newInstruction("jal", 1, a, 0)
  BY <1>1 DEF expandPseudoInstruction, Exchanged
<1> QED BY <1>2, <1>3

LEMMA NewParsed ==
  ASSUME NEW op \in Ops, op # "nop", NEW a \in Reg, NEW b \in Word, NEW c \in Word,
         RegisterOperands(newInstruction(op, a, b, c))
  PROVE  Parsed(newInstruction(op, a, b, c))
BY SmallWords DEF Parsed, Instruction, newInstruction

LEMMA AssembledParsed ==
  ASSUME source \in Sources, NEW l \in DOMAIN Lines, IsComplete(l), NEW x \in Word
  PROVE  Parsed(Assembled(l, x))
<1> DEFINE op == Lines[l][1].Value
           kinds == Operands(op)
<1>1. PICK a, b, c :
        /\ a = Operand(l, Len(Lines[l]), 1, x)
        /\ b = Operand(l, Len(Lines[l]), 2, x)
        /\ c = Operand(l, Len(Lines[l]), 3, x)
  OBVIOUS
<1>2. Filled(l, Len(Lines[l]), x) = newInstruction(op, a, b, c)
  BY <1>1 DEF Filled
<1>3. /\ a \in Word /\ b \in Word /\ c \in Word
      /\ 1 \in DOMAIN kinds /\ kinds[1] = "reg" => a \in Reg
      /\ 2 \in DOMAIN kinds /\ kinds[2] = "reg" => b \in Reg
      /\ 3 \in DOMAIN kinds /\ kinds[3] = "reg" => c \in Reg
      /\ 1 \notin DOMAIN kinds => a = 0
      /\ 2 \notin DOMAIN kinds => b = 0
      /\ 3 \notin DOMAIN kinds => c = 0
  BY <1>1, OperandTypes
<1>4. op \in Mnemonics
  BY DEF IsComplete
<1>5. 0 \in Reg /\ 1 \in Reg
  BY NumRegsAssumption DEF Reg, SP
<1> HIDE DEF op, kinds
<1>6. /\ R_Ops \cup Loads \cup S_Ops \cup B_Ops \cup {"jalr"} \cup ImmAluOps
            \cup {"jal"} \cup U_Ops \cup {"end"} \subseteq Ops \ {"nop"}
  BY DEF R_Ops, Loads, S_Ops, B_Ops, ImmAluOps, I_Ops, J_Ops, U_Ops, Ops
<1>7. /\ op \in R_Ops => a \in Reg /\ b \in Reg /\ c \in Reg
      /\ op \in Loads \cup S_Ops => a \in Reg /\ c \in Reg
      /\ op \in B_Ops \cup {"jalr", "ble", "bgt", "mv", "not", "neg"} \cup ImmAluOps =>
           a \in Reg /\ b \in Reg
      /\ op \in U_Ops \cup {"jal", "li", "jr"} => a \in Reg
      /\ op \in {"ret", "end"} => a = 0 /\ b = 0 /\ c = 0
  <2>1. /\ DOMAIN kinds = 1 .. Len(kinds)
        /\ Len(kinds) = 1 => 1 \in DOMAIN kinds
        /\ Len(kinds) = 2 => 1 \in DOMAIN kinds /\ 2 \in DOMAIN kinds
        /\ Len(kinds) = 3 => 1 \in DOMAIN kinds /\ 2 \in DOMAIN kinds /\ 3 \in DOMAIN kinds
        /\ Len(kinds) = 0 => 1 \notin DOMAIN kinds /\ 2 \notin DOMAIN kinds /\ 3 \notin DOMAIN kinds
    BY OperandsShape DEF kinds
  <2> QED BY <1>3, <2>1, OperandKinds DEF kinds
<1>8. CASE op \in R_Ops
  <2>2. a \in Reg /\ b \in Reg /\ c \in Reg
    BY <1>8, <1>7
  <2>3. Assembled(l, x) = newInstruction(op, a, b, c) /\ op \in Ops /\ op # "nop"
    BY <1>2, <1>8, Expansions, <1>6 DEF Assembled
  <2>4. RegisterOperands(newInstruction(op, a, b, c))
    BY <2>2 DEF RegisterOperands, newInstruction
  <2> QED BY <1>3, <2>2, <2>3, <2>4, NewParsed
<1>9. CASE op \in Loads \cup S_Ops
  <2>2. a \in Reg /\ c \in Reg
    BY <1>9, <1>7
  <2>3. Assembled(l, x) = newInstruction(op, a, b, c) /\ op \in Ops /\ op # "nop"
    BY <1>2, <1>9, Expansions, <1>6 DEF Assembled
  <2>4. RegisterOperands(newInstruction(op, a, b, c))
    BY <1>9, <2>2 DEF RegisterOperands, newInstruction, Fmt_R, Fmt_I, Fmt_B, Fmt_S, isLoad,
                       Loads, R_Ops, S_Ops, B_Ops, I_Ops
  <2> QED BY <1>3, <2>2, <2>3, <2>4, NewParsed
<1>10. CASE op \in B_Ops \cup {"jalr"} \cup ImmAluOps
  <2>2. a \in Reg /\ b \in Reg
    BY <1>10, <1>7
  <2>3. Assembled(l, x) = newInstruction(op, a, b, c) /\ op \in Ops /\ op # "nop"
    BY <1>2, <1>10, Expansions, <1>6 DEF Assembled
  <2>4. RegisterOperands(newInstruction(op, a, b, c))
    BY <1>10, <2>2 DEF RegisterOperands, newInstruction, Fmt_R, Fmt_I, Fmt_B, Fmt_S, isLoad,
                       Loads, R_Ops, S_Ops, B_Ops, I_Ops, ImmAluOps
  <2> QED BY <1>3, <2>2, <2>3, <2>4, NewParsed
<1>11. CASE op \in {"ble", "bgt"}
  <2>2. a \in Reg /\ b \in Reg
    BY <1>11, <1>7
  <2>3. \E o \in {"bge", "blt"} : Assembled(l, x) = newInstruction(o, b, a, c)
    BY <1>2, <1>11, Expansions, <1>6 DEF Assembled
  <2>4. \A o \in {"bge", "blt"} :
          RegisterOperands(newInstruction(o, b, a, c)) /\ o \in Ops /\ o # "nop"
    BY <2>2 DEF RegisterOperands, newInstruction, Fmt_R, Fmt_I, Fmt_B, Fmt_S, isLoad,
                Loads, R_Ops, S_Ops, B_Ops, I_Ops, Ops
  <2> QED BY <1>3, <2>2, <2>3, <2>4, NewParsed
<1>12. CASE op \in {"jal"} \cup U_Ops
  <2>2. a \in Reg
    BY <1>12, <1>7
  <2>3. Assembled(l, x) = newInstruction(op, a, b, c) /\ op \in Ops /\ op # "nop"
    BY <1>2, <1>12, Expansions, <1>6 DEF Assembled
  <2>4. RegisterOperands(newInstruction(op, a, b, c))
    BY <1>12 DEF RegisterOperands, newInstruction, Fmt_R, Fmt_I, Fmt_B, Fmt_S, isLoad,
                  Loads, R_Ops, S_Ops, B_Ops, I_Ops, U_Ops
  <2> QED BY <1>3, <2>2, <2>3, <2>4, NewParsed
<1>13. CASE op \in {"mv", "not", "neg"}
  <2>2. a \in Reg /\ b \in Reg
    BY <1>13, <1>7
  <2>3. \/ \E o \in {"addi", "xori"}, d \in {0, -1} : Assembled(l, x) = newInstruction(o, a, b, d)
        \/ Assembled(l, x) = newInstruction("sub", a, 0, b)
    BY <1>2, <1>13, Expansions, <1>6 DEF Assembled
  <2>4. /\ \A o \in {"addi", "xori"}, d \in {0, -1} :
             RegisterOperands(newInstruction(o, a, b, d)) /\ o \in Ops /\ o # "nop"
        /\ RegisterOperands(newInstruction("sub", a, 0, b)) /\ "sub" \in Ops
    BY <1>5, <2>2 DEF RegisterOperands, newInstruction, Fmt_R, Fmt_I, Fmt_B, Fmt_S, isLoad,
                Loads, R_Ops, S_Ops, B_Ops, I_Ops, Ops
  <2> QED BY <1>3, <2>2, <2>3, <2>4, NewParsed, SmallWords
<1>14. CASE op = "li"
  <2>2. a \in Reg
    BY <1>14, <1>7
  <2>3. Assembled(l, x) = newInstruction("addi", a, 0, b)
    BY <1>2, <1>14, Expansions, <1>6 DEF Assembled
  <2>4. RegisterOperands(newInstruction("addi", a, 0, b)) /\ "addi" \in Ops
    BY <1>5 DEF RegisterOperands, newInstruction, Fmt_R, Fmt_I, Fmt_B, Fmt_S, isLoad,
                Loads, R_Ops, S_Ops, B_Ops, I_Ops, Ops
  <2> QED BY <1>3, <2>2, <2>3, <2>4, NewParsed, SmallWords
<1>15. CASE op \in {"jr", "ret"}
  <2>1. op = "jr" => a \in Reg
    BY <1>15, <1>7
  <2>3. PICK d \in Reg : Assembled(l, x) = newInstruction("jalr", 0, d, 0) /\ d \in Word
    BY <1>2, <1>3, <1>5, <1>15, <2>1, Expansions, SmallWords DEF Assembled
  <2>4. RegisterOperands(newInstruction("jalr", 0, d, 0)) /\ "jalr" \in Ops
    BY DEF RegisterOperands, newInstruction, Fmt_R, Fmt_I, Fmt_B, Fmt_S, isLoad,
           Loads, R_Ops, S_Ops, B_Ops, I_Ops, Ops
  <2> QED BY <1>5, <2>3, <2>4, NewParsed, SmallWords
<1>16. CASE op \in {"j", "call"}
  <2>1. PICK d \in {0, 1} : Assembled(l, x) = newInstruction("jal", d, a, 0)
    BY <1>2, <1>16, Expansions, <1>6 DEF Assembled
  <2>2. RegisterOperands(newInstruction("jal", d, a, 0)) /\ "jal" \in Ops
    BY DEF RegisterOperands, newInstruction, Fmt_R, Fmt_I, Fmt_B, Fmt_S, isLoad,
           Loads, R_Ops, S_Ops, B_Ops, I_Ops, J_Ops, Ops
  <2> QED BY <1>3, <1>5, <2>1, <2>2, NewParsed, SmallWords
<1>17. CASE op = "end"
  <2>2. a = 0 /\ b = 0 /\ c = 0
    BY <1>17, <1>7
  <2>3. Assembled(l, x) = newInstruction("end", 0, 0, 0)
    BY <1>2, <1>17, <2>2, Expansions, <1>6 DEF Assembled
  <2>4. RegisterOperands(newInstruction("end", 0, 0, 0)) /\ "end" \in Ops
    BY <1>5 DEF RegisterOperands, newInstruction, Ops
  <2> QED BY <1>5, <2>3, <2>4, NewParsed, SmallWords
<1> QED BY <1>4, <1>8, <1>9, <1>10, <1>11, <1>12, <1>13, <1>14, <1>15, <1>16, <1>17
        DEF Mnemonics, Ops, Pseudo_Ops, I_Ops, J_Ops, ImmAluOps, Loads

\* Every index stands for a line; the first instruction is the one that ends
\* the program.
Covered ==
  /\ Program[1] = newInstruction("end", 0, 0, 0)
  /\ \A n \in 1 .. Len(Program) - 1 : \E l \in DOMAIN Lines :
       l < line /\ IsInstruction(l) /\ IndexOf(l) = n

CoveredInv == WellFormed => Covered

\* The program keeps its length, or the instruction of the line is pushed.
LEMMA CoveredKept ==
  ASSUME ParserTypes, Covered, source' = source, line' >= line, line' \in Int,
         Len(Program') = Len(Program), Program'[1] = Program[1]
  PROVE  Covered'
<1>1. /\ Lines' = Lines /\ line \in Int
      /\ \A l : (IsInstruction(l)' <=> IsInstruction(l)) /\ IndexOf(l)' = IndexOf(l)
  BY StaticStays, SourceStays, LineShape
<1>2. \A l \in DOMAIN Lines : l < line => l < line'
  BY <1>1, SourceShape DEF ParserTypes
<1>3. ASSUME NEW n \in 1 .. Len(Program) - 1
      PROVE  \E l \in DOMAIN Lines : l < line' /\ IsInstruction(l) /\ IndexOf(l) = n
  BY <1>2 DEF Covered
<1> QED BY <1>1, <1>3 DEF Covered

LEMMA CoveredIteration ==
  ASSUME ParserTypes, Covered, Counted, line <= Len(Lines), NEW filled, FinishToken(filled),
         IsInstruction(line) \/ ~Pushes(filled)
  PROVE  Covered'
<1>1. /\ GoesOnLine(filled) \/ Pushes(filled) \/ Drops(filled)
      /\ source' = source /\ line \in Nat \ {0} /\ line \in DOMAIN Lines
      /\ Len(Program) \in Nat \ {0} /\ Program \in Seq(Coded(Ops))
  BY FinishCases, LineShape DEF ParserTypes
<1>2. CASE GoesOnLine(filled) \/ Drops(filled)
  <2>1. line' \in Int /\ line' >= line /\ Program' = Program
    BY <1>1, <1>2 DEF GoesOnLine, Drops
  <2> QED BY <1>1, <2>1, CoveredKept
<1>3. CASE Pushes(filled)
  <2>1. PICK new : Program' = Append(Program, new)
    BY <1>3 DEF Pushes
  <2>2. line' = line + 1 /\ Len(Program') = Len(Program) + 1 /\ Program'[1] = Program[1]
    BY <1>1, <1>3, <2>1 DEF Pushes
  <2>3. \A l : (IsInstruction(l)' <=> IsInstruction(l)) /\ IndexOf(l)' = IndexOf(l)
    BY <1>1, StaticStays, SourceStays
  <2>4. ASSUME NEW n \in 1 .. Len(Program)
        PROVE  \E l \in DOMAIN Lines : l < line' /\ IsInstruction(l) /\ IndexOf(l) = n
    <3>1. CASE n = Len(Program)
      <4>1. PICK l \in DOMAIN Lines : l = line
        BY <1>1
      <4>2. IndexOf(l) = n /\ IsInstruction(l) /\ l < line'
        BY <1>1, <1>3, <2>2, <3>1, <4>1 DEF Counted
      <4> QED BY <4>2
    <3>2. CASE n # Len(Program)
      <4>1. PICK l \in DOMAIN Lines : l < line /\ IsInstruction(l) /\ IndexOf(l) = n
        BY <1>1, <3>2 DEF Covered
      <4>2. l < line'
        BY <1>1, <2>2, <4>1, SourceShape DEF ParserTypes
      <4> QED BY <4>1, <4>2
    <3> QED BY <3>1, <3>2
  <2>5. Len(Program') - 1 = Len(Program)
    BY <1>1, <2>2
  <2> QED BY <1>1, <2>2, <2>3, <2>4, <2>5, SourceStays DEF Covered
<1> QED BY <1>1, <1>2, <1>3

LEMMA CoveredStep ==
  ASSUME ParserTypes, UnmixedInv, Accepted, CoveredInv, [Next]_vars
  PROVE  CoveredInv'
<1> SUFFICES ASSUME WellFormed' PROVE Covered'
  BY DEF CoveredInv
<1>1. source' = source
  BY DEF Next, vars, RejectToken, PanicInLexer, DeclareLabel, SkipColon, FillOpcode,
         FillOperand, FinishTokens, FillMissingLabel, Return, Stopped, StopWith, FinishToken
<1>2. WellFormed /\ Unmixed /\ Followed /\ Covered /\ line \in Int
  BY <1>1, WellFormedStays, WellFormedLines, LineShape
     DEF Accepted, UnmixedInv, CoveredInv, ParserTypes
<1>3. CASE UNCHANGED <<line, Program>>
  BY <1>1, <1>2, <1>3, CoveredKept
<1>4. UNCHANGED vars \/ Stopped \/ RejectToken \/ PanicInLexer \/ FinishTokens \/ Return =>
        UNCHANGED <<line, Program>>
  BY DEF vars, Stopped, RejectToken, PanicInLexer, FinishTokens, Return, StopWith
<1>5. CASE DeclareLabel \/ SkipColon
  <2>1. /\ status = "parsing" /\ tok.Type # "end" /\ ~Misplaced /\ FinishToken(inst)
        /\ Declares \/ tok.Type = "colon"
    BY <1>5 DEF DeclareLabel, SkipColon, Parsing
  <2>2. line <= Len(Lines) /\ IsDeclaration(line) /\ (num = 1 \/ ~LastOnLine)
    BY <1>2, <2>1, DeclaresKind, CurrentToken
  <2>3. num = 1 => inst = ZeroInstruction
    BY <1>2, <2>2 DEF Followed, Counted
  <2>4. ~Pushes(inst)
    BY <2>2, <2>3 DEF Pushes
  <2> QED BY <1>2, <2>1, <2>2, <2>4, CoveredIteration DEF Followed
<1>6. CASE (FillOpcode \/ FillOperand) /\ ~StopWith("error")
  <2>1. /\ status = "parsing" /\ tok.Type # "end" /\ ~Misplaced /\ ~Declares
        /\ \E filled : FinishToken(filled)
        /\ num = 0 \/ tok.Type # "colon"
    BY <1>6 DEF FillOpcode, FillOperand, Parsing
  <2>2. line <= Len(Lines) /\ IsInstruction(line)
    BY <1>2, <2>1, DeclaresKind, CurrentToken DEF Misplaced
  <2> QED BY <1>2, <2>1, <2>2, CoveredIteration DEF Followed
<1>7. StopWith("error") \/ StopWith("panicked") => UNCHANGED <<line, Program>>
  BY DEF StopWith
<1>8. CASE \E n \in DOMAIN insts_missing_label : Links(n)
  <2>1. PICK n \in DOMAIN insts_missing_label : Links(n)
    BY <1>8
  <2>2. Len(Program') = Len(Program) /\ line' = line
    BY <2>1, LinkTypes DEF Links
  <2>3. Program'[1] = Program[1]
    BY <2>1 DEF Links, ParserTypes
  <2> QED BY <1>1, <1>2, <2>2, <2>3, CoveredKept
<1>9. FillMissingLabel => StopWith("error") \/ StopWith("panicked")
                            \/ \E n \in DOMAIN insts_missing_label : Links(n)
  BY LinkCases
<1> QED BY <1>3, <1>4, <1>5, <1>6, <1>7, <1>8, <1>9 DEF Next

LEMMA CoveredCorrect == Spec => []CoveredInv
<1>1. Init => CoveredInv
  <2> SUFFICES ASSUME Init PROVE Covered
    BY DEF CoveredInv
  <2>1. Program = <<newInstruction("end", 0, 0, 0)>>
    BY DEF Init
  <2>2. Len(Program) = 1 /\ Program[1] = newInstruction("end", 0, 0, 0)
    BY <2>1
  <2>3. 1 .. Len(Program) - 1 = {}
    BY <2>2
  <2> QED BY <2>2, <2>3 DEF Covered
<1> QED BY <1>1, CoveredStep, ParserTypesCorrect, UnmixedCorrect, AcceptedCorrect, PTL DEF Spec

\* For any sources: what the parser makes of a well-formed source is what the
\* machine is specified for, an instruction for each line that has one and the
\* one that ends the program before them.
THEOREM FeedsTheorem == Spec => []FeedsPipeline
<1>1. ParserTypes /\ UnmixedInv /\ CoveredInv => FeedsPipeline
  <2> SUFFICES ASSUME ParserTypes, UnmixedInv, CoveredInv, status = "done", WellFormed
               PROVE  /\ Len(Program) = IndexOf(Len(Lines) + 1)
                      /\ \A i \in DOMAIN Program : Parsed(Program[i])
    BY DEF FeedsPipeline
  <2>1. /\ Followed /\ Entered /\ Covered /\ source \in Sources
        /\ line = Len(Lines) + 1 /\ Program \in Seq(Coded(Ops))
    BY WellFormedLines DEF UnmixedInv, CoveredInv, Accepting, ParserTypes
  <2>2. Len(Program) = IndexOf(Len(Lines) + 1)
    <3>1. PICK L : L = line
      OBVIOUS
    <3>2. Len(Program) = IndexOf(L)
      BY <2>1, <3>1 DEF Followed, Counted
    <3> QED BY <2>1, <3>1, <3>2
  <2>3. ASSUME NEW i \in DOMAIN Program PROVE Parsed(Program[i])
    <3>1. CASE i = 1
      <4>1. RegisterOperands(newInstruction("end", 0, 0, 0)) /\ "end" \in Ops /\ 0 \in Reg
        BY NumRegsAssumption DEF RegisterOperands, newInstruction, Ops, Reg, SP
      <4>2. Parsed(newInstruction("end", 0, 0, 0))
        BY <4>1, NewParsed, SmallWords
      <4> QED BY <2>1, <3>1, <4>2 DEF Covered
    <3>2. CASE i # 1
      <4>1. PICK n \in 1 .. Len(Program) - 1 : n + 1 = i
        <5>1. DOMAIN Program = 1 .. Len(Program) /\ Len(Program) \in Nat
          BY <2>1
        <5>2. i \in Nat /\ i > 1 /\ i <= Len(Program)
          BY <3>2, <5>1
        <5>3. i - 1 \in 1 .. Len(Program) - 1 /\ (i - 1) + 1 = i
          BY <5>1, <5>2
        <5> QED BY <5>3
      <4>2. PICK l \in DOMAIN Lines : IsInstruction(l) /\ IndexOf(l) = n
        BY <2>1 DEF Covered
      <4>3. IsComplete(l)
        BY <2>1, <4>2, WellFormedLines, KindsOfLines
      <4>4. PICK x \in Word : Program[IndexOf(l) + 1] = Assembled(l, x)
        BY <2>1, <4>3, Finished
      <4> QED BY <2>1, <4>1, <4>2, <4>3, <4>4, AssembledParsed
    <3> QED BY <3>1, <3>2
  <2> QED BY <2>2, <2>3
<1> QED BY <1>1, ParserTypesCorrect, UnmixedCorrect, CoveredCorrect, PTL

----------------------------------------------------------------------------
(* Pseudo instructions.                                                    *)

LEMMA PutConverted ==
  ASSUME NEW regs, NEW rd, NEW v \in Int
  PROVE  Put(regs, rd, Int32(v)) = Put(regs, rd, v)
<1>1. Int32(Int32(v)) = Int32(v)
  BY Int32Type, Int32Idem
<1> QED BY <1>1 DEF Put

LEMMA OutcomeConverted ==
  ASSUME NEW regs, NEW v \in Int
  PROVE  Outcome(regs, Uint32(v)) = Outcome(regs, v)
<1>1. Uint32(Uint32(v)) = Uint32(v)
  BY Uint32Type, Uint32Idem
<1> QED BY <1>1 DEF Outcome

\* What the instructions do that pseudo instructions are expanded to.
LEMMA AluEffect ==
  ASSUME NEW regs \in [Reg -> Word], NEW i \in Nat, NEW op \in {"addi", "xori", "sub"},
         NEW a, NEW b, NEW c, Program[i + 1] = newInstruction(op, a, b, c)
  PROVE  Effect(i, regs) =
           Outcome(Put(regs, a, Alu(op, regs[b], IF op = "sub" THEN regs[c] ELSE c)), 4 * i + 4)
<1> DEFINE d == Decoded(Program[i + 1], regs)
           pc == 4 * i
<1>1. op # "sub" => d = [newInstruction(op, a, b, c) EXCEPT !.s1 = regs[b], !.imm = c]
  BY DEF Decoded, newInstruction, Fmt_R, Fmt_I, Fmt_S, Fmt_B,
         R_Ops, I_Ops, S_Ops, B_Ops, isLoad, Loads
<1>2. op = "sub" => d = [newInstruction(op, a, b, c) EXCEPT !.s1 = regs[b], !.s2 = regs[c]]
  BY DEF Decoded, newInstruction, Fmt_R, Fmt_I, Fmt_S, Fmt_B, R_Ops, I_Ops, S_Ops, B_Ops
<1>3. /\ d.op = op /\ d.Rd = a /\ d.s1 = regs[b]
      /\ op # "sub" => d.imm = c
      /\ op = "sub" => d.s2 = regs[c]
  BY <1>1, <1>2 DEF newInstruction
<1> HIDE DEF d
<1>4. WritesRd(d) /\ ~Taken(d)
  BY <1>3 DEF WritesRd, Fmt_R, Fmt_I, R_Ops, I_Ops, Taken
<1>5. Result(d, pc) = Alu(op, regs[b], IF op = "sub" THEN regs[c] ELSE c)
  BY <1>3 DEF Result, R_Ops, ImmAluOps, I_Ops, Loads, isLoad, isStore, S_Ops
<1>6. NextPc(d, pc) = Uint32(pc + 4) /\ pc + 4 \in Int
  BY <1>4 DEF NextPc
<1> HIDE DEF pc
<1>7. Effect(i, regs) = Outcome(Put(regs, d.Rd, Result(d, pc)), NextPc(d, pc))
  BY <1>4 DEF Effect, d, pc
<1> QED BY <1>3, <1>5, <1>6, <1>7, OutcomeConverted DEF pc

LEMMA BranchEffect ==
  ASSUME NEW regs \in [Reg -> Word], NEW i \in Nat, NEW op \in {"bge", "blt"},
         NEW a \in Reg, NEW b \in Reg, NEW c \in Int, Program[i + 1] = newInstruction(op, a, b, c)
  PROVE  Effect(i, regs) =
           Outcome(regs, IF (IF op = "bge" THEN regs[a] >= regs[b] ELSE regs[a] < regs[b])
                         THEN 4 * i + c ELSE 4 * i + 4)
<1> DEFINE d == Decoded(Program[i + 1], regs)
           pc == 4 * i
<1>1. d = [newInstruction(op, a, b, c) EXCEPT !.s1 = regs[a], !.s2 = regs[b], !.imm = c]
  BY DEF Decoded, newInstruction, Fmt_R, Fmt_I, Fmt_S, Fmt_B, R_Ops, I_Ops, S_Ops, B_Ops
<1>2. d.op = op /\ d.s1 = regs[a] /\ d.s2 = regs[b] /\ d.imm = c
  BY <1>1 DEF newInstruction
<1> HIDE DEF d
<1>3. /\ ~WritesRd(d)
      /\ Taken(d) <=> IF op = "bge" THEN regs[a] >= regs[b] ELSE regs[a] < regs[b]
  BY <1>2 DEF WritesRd, Fmt_R, Fmt_I, Fmt_U, Fmt_J, R_Ops, I_Ops, U_Ops, J_Ops, Taken
<1>4. NextPc(d, pc) = IF Taken(d) THEN Uint32(pc + c) ELSE Uint32(pc + 4)
  BY <1>2 DEF NextPc, BranchTarget
<1>5. pc + c \in Int /\ pc + 4 \in Int
  OBVIOUS
<1> HIDE DEF pc
<1>6. Effect(i, regs) = Outcome(regs, NextPc(d, pc))
  BY <1>3 DEF Effect, d, pc
<1> QED BY <1>3, <1>4, <1>5, <1>6, OutcomeConverted DEF pc

LEMMA JumpEffect ==
  ASSUME NEW regs \in [Reg -> Word], NEW i \in Nat, NEW a \in Reg, NEW b, NEW c,
         Program[i + 1] = newInstruction("jal", a, b, c), b \in Int
  PROVE  Effect(i, regs) = Outcome(Put(regs, a, 4 * i + 4), 4 * i + b)
<1> DEFINE d == Decoded(Program[i + 1], regs)
           pc == 4 * i
<1>1. d = [newInstruction("jal", a, b, c) EXCEPT !.imm = b]
  BY DEF Decoded, newInstruction, Fmt_R, Fmt_I, Fmt_S, Fmt_B, R_Ops, I_Ops, S_Ops, B_Ops
<1>2. d.op = "jal" /\ d.Rd = a /\ d.imm = b
  BY <1>1 DEF newInstruction
<1> HIDE DEF d
<1>3. WritesRd(d) /\ Taken(d)
  BY <1>2 DEF WritesRd, Fmt_J, J_Ops, Taken
<1>4. NextPc(d, pc) = Uint32(pc + b)
  BY <1>2, <1>3 DEF NextPc, BranchTarget
<1>5. Result(d, pc) = Int32(pc + 4)
  BY <1>2 DEF Result, R_Ops, ImmAluOps, I_Ops, Loads, isLoad, isStore, S_Ops
<1>6. pc + b \in Int /\ pc + 4 \in Int
  OBVIOUS
<1> HIDE DEF pc
<1>7. Effect(i, regs) = Outcome(Put(regs, d.Rd, Result(d, pc)), NextPc(d, pc))
  BY <1>3 DEF Effect, d, pc
<1> QED BY <1>2, <1>4, <1>5, <1>6, <1>7, OutcomeConverted, PutConverted DEF pc

LEMMA ReturnEffect ==
  ASSUME NEW regs \in [Reg -> Word], NEW i \in Nat, NEW b \in Reg,
         Program[i + 1] = newInstruction("jalr", 0, b, 0)
  PROVE  Effect(i, regs) = Outcome(regs, regs[b])
<1> DEFINE d == Decoded(Program[i + 1], regs)
           pc == 4 * i
<1>1. d = [newInstruction("jalr", 0, b, 0) EXCEPT !.s1 = regs[b], !.imm = 0]
  BY DEF Decoded, newInstruction, Fmt_R, Fmt_I, Fmt_S, Fmt_B,
         R_Ops, I_Ops, S_Ops, B_Ops, isLoad, Loads
<1>2. d.op = "jalr" /\ d.Rd = 0 /\ d.s1 = regs[b] /\ d.imm = 0
  BY <1>1 DEF newInstruction
<1> HIDE DEF d
<1>3. Taken(d)
  BY <1>2 DEF Taken
<1>4. NextPc(d, pc) = Uint32(regs[b] + 0)
  BY <1>2, <1>3 DEF NextPc, BranchTarget
<1>5. regs[b] \in Int /\ regs[b] + 0 = regs[b]
  <2>1. PICK v \in Int : v = regs[b]
    BY WordIsInt
  <2> QED BY <2>1
<1>6. Effect(i, regs) = Outcome(regs, NextPc(d, pc))
  BY <1>2 DEF Effect, d, Put
<1> QED BY <1>4, <1>5, <1>6, OutcomeConverted

\* What an operand of a complete line is read as is what the parser makes of
\* it: the register, the number as a word, an offset to the address meant.
LEMMA OperandMeaning ==
  ASSUME source \in Sources, WellFormed, NEW l \in DOMAIN Lines, IsComplete(l),
         NEW x \in Word, \A name \in RefersTo(l) : Resolved(l, name, x),
         NEW k \in DOMAIN Operands(Lines[l][1].Value)
  PROVE  LET kind == Operands(Lines[l][1].Value)[k]
             pc   == 4 * IndexOf(l)
             v    == OperandValue(Lines[l][k + 1], x)
             r    == Reading(Lines[l][k + 1], pc)
         IN  /\ kind = "reg" => r = v /\ v \in Reg
             /\ kind = "imm" => r \in Int /\ v = Int32(r)
             /\ kind = "target" =>
                  /\ v \in Int
                  /\ \A regs : Outcome(regs, pc + v) = Outcome(regs, pc + r)
<1> DEFINE kind == Operands(Lines[l][1].Value)[k]
<1>1. PICK t : t = Lines[l][k + 1]
  OBVIOUS
<1>2. PICK n \in 1 .. 4 : n = Len(Lines[l])
  BY CompleteShape
<1>3. k \in 1 .. n - 1 /\ k + 1 \in DOMAIN Lines[l]
  <2>1. k \in 1 .. Len(Operands(Lines[l][1].Value)) /\ DOMAIN Lines[l] = 1 .. n
    BY <1>2, OperandsShape, SourceShape
  <2> QED BY <1>2, <2>1, CompleteShape
<1>4. /\ t.Number \in Int
      /\ t.Value \in DOMAIN abiToRegNum => abiToRegNum[t.Value] \in Reg
  BY <1>1, <1>3, TokenShape
<1>5. Names(kind, t)
  BY <1>1 DEF IsComplete
<1>6. PICK from \in Nat : from = IndexOf(l)
  BY IndexFacts, SourceShape
<1>7. t.Type = "number" => /\ OperandValue(t, x) = Int32(t.Number)
                           /\ \A pc : Reading(t, pc) = t.Number
  BY DEF OperandValue, Reading
<1>8. CASE kind = "reg"
  <2>1. t.Type = "symbol" /\ t.Value \in DOMAIN abiToRegNum
    BY <1>5, <1>8 DEF Names
  <2> QED BY <1>1, <1>4, <1>8, <2>1 DEF OperandValue, Reading
<1>9. CASE kind = "imm"
  BY <1>1, <1>4, <1>5, <1>7, <1>9 DEF Names
<1>10. CASE kind = "target" /\ t.Type = "number"
  <2>1. PICK m \in Int, pc \in Int : m = t.Number /\ pc = 4 * from
    BY <1>4
  <2>2. Int32(m) \in Int /\ Uint32(pc + Int32(m)) = Uint32(pc + m)
    BY Uint32OfInt32, Int32Type, WordIsInt
  <2> QED BY <1>1, <1>6, <1>7, <1>10, <2>1, <2>2 DEF Outcome
<1>11. CASE kind = "target" /\ t.Type # "number"
  <2>1. IsTarget(t)
    BY <1>5, <1>11 DEF Names, IsTarget
  <2>2. k + 1 = n
    <3>1. k = n - 1
      BY <1>1, <1>2, <1>3, <2>1, CompleteShape
    <3> QED BY <3>1, <1>3
  <2>3. t.Value \in RefersTo(l)
    BY <1>1, <1>2, <1>3, <2>1, <2>2 DEF RefersTo, IsTarget
  <2>4. PICK d \in DeclaredOn(t.Value) : x = Offset(IndexOf(d), IndexOf(l))
    BY <2>3 DEF Resolved
  <2>5. DeclaredOn(t.Value) = {d}
    BY <2>4 DEF WellFormed, DeclaredOn
  <2>6. PICK to \in Nat : to = IndexOf(d)
    BY <2>4, IndexFacts, SourceShape DEF DeclaredOn
  <2>7. /\ OperandValue(t, x) = x
        /\ Reading(t, 4 * from) = 4 * to - 4 * from
    BY <2>1, <2>5, <2>6 DEF OperandValue, Reading, IsTarget
  <2>8. Uint32(4 * from + x) = Uint32(4 * from + (4 * to - 4 * from))
    <3>1. PICK a \in Int, b \in Int : a = 4 * from /\ b = (to - from) * 4
      OBVIOUS
    <3>2. x = Int32(b)
      BY <1>6, <2>4, <2>6, <3>1 DEF Offset
    <3>3. Uint32(a + Int32(b)) = Uint32(a + b)
      BY Uint32OfInt32
    <3>4. b = 4 * to - 4 * from
      BY <3>1
    <3> QED BY <3>1, <3>2, <3>3, <3>4
  <2> QED BY <1>1, <1>6, <1>11, <2>7, <2>8, WordIsInt DEF Outcome
<1> QED BY <1>5, <1>8, <1>9, <1>10, <1>11 DEF Names

LEMMA MeaningOf ==
  ASSUME NEW l, NEW regs
  PROVE  LET pc == 4 * IndexOf(l)
             op == Lines[l][1].Value
             x(k) == Reading(Lines[l][k + 1], pc)
         IN  /\ op = "mv" => Meaning(l, regs) = Outcome(Put(regs, x(1), regs[x(2)]), pc + 4)
             /\ op = "not" => Meaning(l, regs) = Outcome(Put(regs, x(1), -1 - regs[x(2)]), pc + 4)
             /\ op = "neg" => Meaning(l, regs) = Outcome(Put(regs, x(1), -regs[x(2)]), pc + 4)
             /\ op = "li" => Meaning(l, regs) = Outcome(Put(regs, x(1), x(2)), pc + 4)
             /\ op = "jr" => Meaning(l, regs) = Outcome(regs, regs[x(1)])
             /\ op = "ret" => Meaning(l, regs) = Outcome(regs, regs[1])
             /\ op = "ble" => Meaning(l, regs) =
                  Outcome(regs, IF regs[x(1)] <= regs[x(2)] THEN pc + x(3) ELSE pc + 4)
             /\ op = "bgt" => Meaning(l, regs) =
                  Outcome(regs, IF regs[x(1)] > regs[x(2)] THEN pc + x(3) ELSE pc + 4)
             /\ op = "j" => Meaning(l, regs) = Outcome(regs, pc + x(1))
             /\ op = "call" => Meaning(l, regs) = Outcome(Put(regs, 1, pc + 4), pc + x(1))
<1> DEFINE op == Lines[l][1].Value
           pc == 4 * IndexOf(l)
<1>1. PICK x1, x2, x3 : /\ x1 = Reading(Lines[l][2], pc)
                        /\ x2 = Reading(Lines[l][3], pc)
                        /\ x3 = Reading(Lines[l][4], pc)
  OBVIOUS
<1>2. PICK o : o = op
  OBVIOUS
<1>3. PICK p : p = pc
  OBVIOUS
<1>4. Meaning(l, regs) =
        CASE o = "mv"   -> Outcome(Put(regs, x1, regs[x2]), p + 4)
          [] o = "not"  -> Outcome(Put(regs, x1, -1 - regs[x2]), p + 4)
          [] o = "neg"  -> Outcome(Put(regs, x1, -regs[x2]), p + 4)
          [] o = "li"   -> Outcome(Put(regs, x1, x2), p + 4)
          [] o = "jr"   -> Outcome(regs, regs[x1])
          [] o = "ret"  -> Outcome(regs, regs[1])
          [] o = "ble"  -> Outcome(regs, IF regs[x1] <= regs[x2] THEN p + x3 ELSE p + 4)
          [] o = "bgt"  -> Outcome(regs, IF regs[x1] > regs[x2] THEN p + x3 ELSE p + 4)
          [] o = "j"    -> Outcome(regs, p + x1)
          [] o = "call" -> Outcome(Put(regs, 1, p + 4), p + x1)
  BY <1>1, <1>2, <1>3 DEF Meaning
<1>5. /\ o = "mv" => Meaning(l, regs) = Outcome(Put(regs, x1, regs[x2]), p + 4)
      /\ o = "not" => Meaning(l, regs) = Outcome(Put(regs, x1, -1 - regs[x2]), p + 4)
      /\ o = "neg" => Meaning(l, regs) = Outcome(Put(regs, x1, -regs[x2]), p + 4)
      /\ o = "li" => Meaning(l, regs) = Outcome(Put(regs, x1, x2), p + 4)
      /\ o = "jr" => Meaning(l, regs) = Outcome(regs, regs[x1])
  BY <1>4
<1>6. /\ o = "ret" => Meaning(l, regs) = Outcome(regs, regs[1])
      /\ o = "ble" => Meaning(l, regs) =
           Outcome(regs, IF regs[x1] <= regs[x2] THEN p + x3 ELSE p + 4)
      /\ o = "bgt" => Meaning(l, regs) =
           Outcome(regs, IF regs[x1] > regs[x2] THEN p + x3 ELSE p + 4)
      /\ o = "j" => Meaning(l, regs) = Outcome(regs, p + x1)
      /\ o = "call" => Meaning(l, regs) = Outcome(Put(regs, 1, p + 4), p + x1)
  BY <1>4
<1>7. /\ x1 = Reading(Lines[l][1 + 1], pc)
      /\ x2 = Reading(Lines[l][2 + 1], pc)
      /\ x3 = Reading(Lines[l][3 + 1], pc)
  BY <1>1
<1> QED BY <1>2, <1>3, <1>5, <1>6, <1>7

\* What an expanded instruction does is what the comment beside it says.
LEMMA PseudoEffect ==
  ASSUME NEW regs \in [Reg -> Word], regs[0] = 0, NEW i \in Nat,
         NEW op, NEW a, NEW b, NEW c,
         Program[i + 1] = expandPseudoInstruction(newInstruction(op, a, b, c))
  PROVE  LET pc == 4 * i
             Write(rd, v) == Outcome(Put(regs, rd, v), pc + 4)
             JumpIf(test) == Outcome(regs, IF test THEN pc + c ELSE pc + 4)
         IN  /\ op = "mv" /\ b \in Reg => Effect(i, regs) = Write(a, regs[b])
             /\ op = "not" /\ b \in Reg => Effect(i, regs) = Write(a, -1 - regs[b])
             /\ op = "neg" /\ b \in Reg => Effect(i, regs) = Write(a, -regs[b])
             /\ op = "li" /\ b \in Word => Effect(i, regs) = Write(a, b)
             /\ op = "jr" /\ a \in Reg => Effect(i, regs) = Outcome(regs, regs[a])
             /\ op = "ret" => Effect(i, regs) = Outcome(regs, regs[1])
             /\ op = "ble" /\ a \in Reg /\ b \in Reg /\ c \in Int =>
                  Effect(i, regs) = JumpIf(regs[a] <= regs[b])
             /\ op = "bgt" /\ a \in Reg /\ b \in Reg /\ c \in Int =>
                  Effect(i, regs) = JumpIf(regs[a] > regs[b])
             /\ op = "j" /\ a \in Int => Effect(i, regs) = Outcome(regs, pc + a)
             /\ op = "call" /\ a \in Int =>
                  Effect(i, regs) = Outcome(Put(regs, 1, pc + 4), pc + a)
<1> DEFINE pc == 4 * i
<1>1. 0 \in Reg /\ 1 \in Reg
  BY NumRegsAssumption DEF Reg, SP
<1>2. \A r \in Reg : regs[r] \in Word /\ regs[r] \in Int
  BY WordIsInt
<1>3. 0 \in Word /\ -1 \in Word
  BY SmallWords
<1>4. ASSUME op = "mv", b \in Reg
      PROVE  Effect(i, regs) = Outcome(Put(regs, a, regs[b]), pc + 4)
  <2>1. PICK v \in Word : v = regs[b] /\ v \in Int
    BY <1>2, <1>4
  <2>2. Program[i + 1] = newInstruction("addi", a, b, 0)
    BY <1>4, Expansions
  <2>3. Effect(i, regs) = Outcome(Put(regs, a, Alu("addi", v, 0)), pc + 4)
    BY <2>1, <2>2, AluEffect
  <2>4. Alu("addi", v, 0) = Int32(v + 0) /\ v + 0 = v
    BY <1>3, <2>1, ArithmeticAssumption
  <2> QED BY <2>1, <2>3, <2>4, PutConverted
<1>5. ASSUME op = "not", b \in Reg
      PROVE  Effect(i, regs) = Outcome(Put(regs, a, -1 - regs[b]), pc + 4)
  <2>1. PICK v \in Word : v = regs[b] /\ v \in Int
    BY <1>2, <1>5
  <2>2. Program[i + 1] = newInstruction("xori", a, b, -1)
    BY <1>5, Expansions
  <2>3. Effect(i, regs) = Outcome(Put(regs, a, Alu("xori", v, -1)), pc + 4)
    BY <2>1, <2>2, AluEffect
  <2>4. Alu("xori", v, -1) = Int32(-1 - v) /\ -1 - v \in Int
    BY <1>3, <2>1, ArithmeticAssumption
  <2> QED BY <2>1, <2>3, <2>4, PutConverted
<1>6. ASSUME op = "neg", b \in Reg
      PROVE  Effect(i, regs) = Outcome(Put(regs, a, -regs[b]), pc + 4)
  <2>1. PICK v \in Word : v = regs[b] /\ v \in Int
    BY <1>2, <1>6
  <2>2. Program[i + 1] = newInstruction("sub", a, 0, b)
    BY <1>6, Expansions
  <2>3. Effect(i, regs) = Outcome(Put(regs, a, Alu("sub", 0, v)), pc + 4)
    BY <2>1, <2>2, AluEffect
  <2>4. Alu("sub", 0, v) = Int32(0 - v) /\ 0 - v = -v /\ -v \in Int
    BY <1>3, <2>1, ArithmeticAssumption
  <2> QED BY <2>1, <2>3, <2>4, PutConverted
<1>7. ASSUME op = "li", b \in Word
      PROVE  Effect(i, regs) = Outcome(Put(regs, a, b), pc + 4)
  <2>1. Program[i + 1] = newInstruction("addi", a, 0, b)
    BY <1>7, Expansions
  <2>2. Effect(i, regs) = Outcome(Put(regs, a, Alu("addi", 0, b)), pc + 4)
    BY <2>1, AluEffect
  <2>3. Alu("addi", 0, b) = Int32(0 + b) /\ 0 + b = b /\ b \in Int
    BY <1>3, <1>7, WordIsInt, ArithmeticAssumption
  <2> QED BY <2>2, <2>3, PutConverted
<1>8. op = "jr" /\ a \in Reg => Effect(i, regs) = Outcome(regs, regs[a])
  BY Expansions, ReturnEffect
<1>9. op = "ret" => Effect(i, regs) = Outcome(regs, regs[1])
  BY <1>1, Expansions, ReturnEffect
<1>10. ASSUME op = "ble", a \in Reg, b \in Reg, c \in Int
       PROVE  Effect(i, regs) = Outcome(regs, IF regs[a] <= regs[b] THEN pc + c ELSE pc + 4)
  <2>1. Program[i + 1] = newInstruction("bge", b, a, c)
    BY <1>10, Expansions
  <2>2. Effect(i, regs) = Outcome(regs, IF regs[b] >= regs[a] THEN pc + c ELSE pc + 4)
    BY <1>10, <2>1, BranchEffect
  <2>3. regs[b] >= regs[a] <=> regs[a] <= regs[b]
    BY <1>2, <1>10
  <2> QED BY <2>2, <2>3
<1>11. ASSUME op = "bgt", a \in Reg, b \in Reg, c \in Int
       PROVE  Effect(i, regs) = Outcome(regs, IF regs[a] > regs[b] THEN pc + c ELSE pc + 4)
  <2>1. Program[i + 1] = newInstruction("blt", b, a, c)
    BY <1>11, Expansions
  <2>2. Effect(i, regs) = Outcome(regs, IF regs[b] < regs[a] THEN pc + c ELSE pc + 4)
    BY <1>11, <2>1, BranchEffect
  <2>3. regs[b] < regs[a] <=> regs[a] > regs[b]
    BY <1>2, <1>11
  <2> QED BY <2>2, <2>3
<1>12. ASSUME op = "j", a \in Int
       PROVE  Effect(i, regs) = Outcome(regs, pc + a)
  <2>1. Effect(i, regs) = Outcome(Put(regs, 0, pc + 4), pc + a)
    BY <1>1, <1>12, Expansions, JumpEffect
  <2> QED BY <2>1 DEF Put
<1>13. op = "call" /\ a \in Int =>
         Effect(i, regs) = Outcome(Put(regs, 1, pc + 4), pc + a)
  BY <1>1, Expansions, JumpEffect
<1> QED BY <1>4, <1>5, <1>6, <1>7, <1>8, <1>9, <1>10, <1>11, <1>12, <1>13

\* For any sources and register contents: a line with a pseudo instruction does
\* to registers and program counter what its name and its comment say, whatever
\* it is expanded to and whichever pass has filled in its target.
THEOREM PseudoTheorem == Spec => []PseudoMeaning
<1>1. ParserTypes /\ UnmixedInv => PseudoMeaning
  <2> SUFFICES ASSUME ParserTypes, UnmixedInv, status = "done", WellFormed,
                      NEW l \in DOMAIN Lines, IsComplete(l), Lines[l][1].Value \in Pseudo_Ops,
                      NEW regs \in RegFiles
               PROVE  Effect(IndexOf(l), regs) = Meaning(l, regs)
    BY DEF PseudoMeaning
  <2> DEFINE op == Lines[l][1].Value
             kinds == Operands(op)
             pc == 4 * IndexOf(l)
             r(k) == Reading(Lines[l][k + 1], pc)
  <2>1. Followed /\ Entered /\ source \in Sources
    BY WellFormedLines DEF UnmixedInv, Accepting, ParserTypes
  <2>2. PICK x \in Word : /\ Program[IndexOf(l) + 1] = Assembled(l, x)
                          /\ \A name \in RefersTo(l) : Resolved(l, name, x)
    BY <2>1, Finished
  <2>3. PICK a, b, c :
          /\ a = Operand(l, Len(Lines[l]), 1, x)
          /\ b = Operand(l, Len(Lines[l]), 2, x)
          /\ c = Operand(l, Len(Lines[l]), 3, x)
    OBVIOUS
  <2>4. PICK i \in Nat : i = IndexOf(l)
    BY <2>1, IndexFacts, SourceShape
  <2>5. Program[i + 1] = expandPseudoInstruction(newInstruction(op, a, b, c))
    BY <2>2, <2>3, <2>4 DEF Assembled, Filled
  <2>6. regs \in [Reg -> Word] /\ regs[0] = 0
    BY RegFilesAssumption
  <2>7. /\ 1 \in DOMAIN kinds => a = OperandValue(Lines[l][2], x) /\ a \in Word
        /\ 2 \in DOMAIN kinds => b = OperandValue(Lines[l][3], x) /\ b \in Word
        /\ 3 \in DOMAIN kinds => c = OperandValue(Lines[l][4], x) /\ c \in Word
    BY <2>1, <2>3, OperandTypes
  <2>8. PICK x1, x2, x3 : x1 = r(1) /\ x2 = r(2) /\ x3 = r(3)
    OBVIOUS
  <2>9. /\ 1 \in DOMAIN kinds /\ kinds[1] = "reg" => x1 = a /\ a \in Reg
        /\ 2 \in DOMAIN kinds /\ kinds[2] = "reg" => x2 = b /\ b \in Reg
        /\ 2 \in DOMAIN kinds /\ kinds[2] = "imm" => x2 \in Int /\ b = Int32(x2)
        /\ 1 \in DOMAIN kinds /\ kinds[1] = "target" =>
             a \in Int /\ \A f : Outcome(f, 4 * i + a) = Outcome(f, 4 * i + x1)
        /\ 3 \in DOMAIN kinds /\ kinds[3] = "target" =>
             c \in Int /\ \A f : Outcome(f, 4 * i + c) = Outcome(f, 4 * i + x3)
    <3> HIDE DEF op, kinds
    <3>1. /\ 1 \in DOMAIN kinds /\ kinds[1] = "reg" => x1 = a /\ a \in Reg
          /\ 1 \in DOMAIN kinds /\ kinds[1] = "target" =>
               a \in Int /\ \A f : Outcome(f, 4 * i + a) = Outcome(f, 4 * i + x1)
      <4>1. Lines[l][1 + 1] = Lines[l][2]
        OBVIOUS
      <4> QED BY <2>1, <2>2, <2>4, <2>7, <2>8, <4>1, OperandMeaning DEF op, kinds
    <3>2. /\ 2 \in DOMAIN kinds /\ kinds[2] = "reg" => x2 = b /\ b \in Reg
          /\ 2 \in DOMAIN kinds /\ kinds[2] = "imm" => x2 \in Int /\ b = Int32(x2)
      <4>1. Lines[l][2 + 1] = Lines[l][3]
        OBVIOUS
      <4> QED BY <2>1, <2>2, <2>4, <2>7, <2>8, <4>1, OperandMeaning DEF op, kinds
    <3>3. 3 \in DOMAIN kinds /\ kinds[3] = "target" =>
            c \in Int /\ \A f : Outcome(f, 4 * i + c) = Outcome(f, 4 * i + x3)
      <4>1. Lines[l][3 + 1] = Lines[l][4]
        OBVIOUS
      <4> QED BY <2>1, <2>2, <2>4, <2>7, <2>8, <4>1, OperandMeaning DEF op, kinds
    <3> QED BY <3>1, <3>2, <3>3
  <2>10. /\ op \in {"mv", "not", "neg"} => x1 = a /\ x2 = b /\ b \in Reg
         /\ op = "li" => x1 = a /\ x2 \in Int /\ b = Int32(x2)
         /\ op = "jr" => x1 = a /\ a \in Reg
         /\ op \in {"ble", "bgt"} => /\ x1 = a /\ a \in Reg /\ x2 = b /\ b \in Reg
                                     /\ c \in Int
                                     /\ Outcome(regs, 4 * i + c) = Outcome(regs, 4 * i + x3)
         /\ op \in {"j", "call"} =>
              a \in Int /\ \A f : Outcome(f, 4 * i + a) = Outcome(f, 4 * i + x1)
    <3> HIDE DEF op
    <3>1. /\ Len(kinds) = 1 => 1 \in DOMAIN kinds
          /\ Len(kinds) = 2 => 1 \in DOMAIN kinds /\ 2 \in DOMAIN kinds
          /\ Len(kinds) = 3 => 1 \in DOMAIN kinds /\ 2 \in DOMAIN kinds /\ 3 \in DOMAIN kinds
      BY OperandsShape
    <3> HIDE DEF kinds
    <3> QED BY <2>9, <3>1, OperandKinds DEF kinds
  <2> HIDE DEF kinds
  <2>11. op = "li" => \A f, p : Outcome(Put(f, a, b), p) = Outcome(Put(f, a, x2), p)
    BY <2>10, PutConverted
  <2>12. /\ op \in {"mv", "not", "neg", "li", "jr", "ret"} =>
              Effect(i, regs) = Meaning(l, regs)
    <3>1. op = "li" => b \in Word
      BY <2>10, Int32Type
    <3>2. op = "mv" => Effect(i, regs) = Meaning(l, regs)
      BY <2>4, <2>5, <2>6, <2>8, <2>10, PseudoEffect, MeaningOf
    <3>3. op \in {"not", "neg"} => Effect(i, regs) = Meaning(l, regs)
      BY <2>4, <2>5, <2>6, <2>8, <2>10, PseudoEffect, MeaningOf
    <3>4. op = "li" => Effect(i, regs) = Meaning(l, regs)
      BY <2>4, <2>5, <2>6, <2>8, <2>10, <2>11, <3>1, PseudoEffect, MeaningOf
    <3>5. op \in {"jr", "ret"} => Effect(i, regs) = Meaning(l, regs)
      BY <2>4, <2>5, <2>6, <2>8, <2>10, PseudoEffect, MeaningOf
    <3> QED BY <3>2, <3>3, <3>4, <3>5
  <2>13. op \in {"ble", "bgt"} => Effect(i, regs) = Meaning(l, regs)
    BY <2>4, <2>5, <2>6, <2>8, <2>10, PseudoEffect, MeaningOf
  <2>14. op \in {"j", "call"} => Effect(i, regs) = Meaning(l, regs)
    BY <2>4, <2>5, <2>6, <2>8, <2>10, PseudoEffect, MeaningOf
  <2> QED BY <2>4, <2>12, <2>13, <2>14 DEF Pseudo_Ops
<1> QED BY <1>1, ParserTypesCorrect, UnmixedCorrect, PTL
=============================================================================
