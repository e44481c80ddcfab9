------------------------------ MODULE MCParser ------------------------------
(* All sources of up to three lines over a menu of good and bad lines, and *)
(* all orders of four lines that declare and use labels.                   *)
EXTENDS Assembly, Alu

Sym(s)  == [Type |-> "symbol", Value |-> s, Number |-> 0]
Num(n)  == [Type |-> "number", Value |-> "", Number |-> n]
ColonT  == [Type |-> "colon", Value |-> "", Number |-> 0]
Bad     == [Type |-> "invalid", Value |-> "", Number |-> 0]

Declaration(l)  == <<Sym(l), ColonT>>
Line1(op, a)       == <<Sym(op), a>>
Line2(op, a, b)    == <<Sym(op), a, b>>
Line3(op, a, b, c) == <<Sym(op), a, b, c>>

GoodLines == {
  Declaration("L"), Declaration("main"),
  Line3("add", Sym("ra"), Sym("sp"), Sym("gp")),
  Line3("beq", Sym("ra"), Sym("zero"), Sym("L")),
  Line3("ble", Sym("ra"), Sym("sp"), Sym("L")),
  Line3("bgt", Sym("ra"), Sym("sp"), Num(8)),
  Line3("jalr", Sym("ra"), Sym("gp"), Sym("main")),
  Line2("jal", Sym("gp"), Sym("L")),
  Line1("j", Sym("L")), Line1("call", Sym("main")), Line1("jr", Sym("sp")),
  <<Sym("ret")>>,
  Line2("mv", Sym("ra"), Sym("gp")), Line2("not", Sym("gp"), Sym("sp")),
  Line2("neg", Sym("gp"), Sym("ra")), Line2("li", Sym("ra"), Num(-3))}

BadLines == {
  Declaration("sp"),                                    \* named as a register
  Line3("beq", Sym("ra"), Sym("gp"), Sym("sp")),
  Line2("li", Sym("ra"), Sym("L")),                     \* no place for a label
  Line3("beq", Sym("L"), Sym("ra"), Sym("main")),       \* two labels
  Line1("jal", Sym("L")),                               \* too few operands
  <<Sym("add"), Sym("ra"), Sym("ra"), Sym("ra"), Sym("ra")>>,
  <<Sym("L"), ColonT, Sym("main")>>,                    \* declaration, label
  <<Sym("main"), ColonT, Sym("ret")>>,                  \* declaration, mnemonic
  <<Sym("L"), ColonT, Num(5)>>,
  <<ColonT>>, <<Sym("L"), Bad>>, Line1("unknown", Sym("ra"))}

Source(lines, open) == [lines |-> lines, open_comment |-> open]

Mixture == {Source(lines, FALSE) :
              lines \in UNION {[1 .. n -> GoodLines \cup BadLines] : n \in 0 .. 2}}

Shuffled ==
  {Source(lines, FALSE) : lines \in [1 .. 3 -> GoodLines]}
    \cup {Source(<<b, x, c>>, o) :
            x \in GoodLines, o \in BOOLEAN,
            b \in BadLines, c \in {Declaration("L"), Declaration("main"),
                                   Line1("j", Sym("L"))}}
    \cup {Source(<<x, y, Line1("j", Sym("L")), Declaration("L"), Declaration("main")>>, FALSE) :
            x, y \in GoodLines}

AllSources == Mixture \cup Shuffled \cup {Source(<< >>, TRUE)}

SomeRegisters ==
  {[r \in Reg |-> IF r = 0 THEN 0 ELSE IF r = 1 THEN a ELSE IF r = 2 THEN b ELSE 8] :
     a, b \in {-2, 0, 4}}
=============================================================================
