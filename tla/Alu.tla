-------------------------------- MODULE Alu --------------------------------
(* The arithmetic of run_execute (vm/core.go): what Instructions leaves    *)
(* open as the parameter Alu.  Only runs use this module.                  *)
EXTENDS Words, Bitwise

WIDTH == 8   \* bits of a word when BYTE_MOD = 4, as in the runs

\* Go's / truncates towards zero, and % takes the sign of the dividend.
Quotient(a, b) ==
  LET size(x) == IF x < 0 THEN -x ELSE x
      q == size(a) \div size(b)
  IN  IF (a < 0) = (b < 0) THEN q ELSE -q

Bits(f(_, _), a, b) == Int32(f(Uint32(a), Uint32(b)))
AndBits(a, b) == a & b
OrBits(a, b)  == a | b
XorBits(a, b) == a ^^ b

\* A shift by the width of a word or more leaves nothing.
Power(n) == IF n < WIDTH THEN 2^n ELSE 0

Arithmetic(op, a, b) ==
  CASE op \in {"add", "addi"} -> Int32(a + b)
    [] op \in {"sub", "subi"} -> Int32(a - b)
    [] op = "mul"             -> Int32(a * b)
    [] op = "div"             -> IF b = 0 THEN 0 ELSE Int32(Quotient(a, b))
    [] op = "rem"             -> IF b = 0 THEN 0
                                 ELSE Int32(a - b * Quotient(a, b))
    [] op \in {"and", "andi"} -> Bits(AndBits, a, b)
    [] op \in {"or", "ori"}   -> Bits(OrBits, a, b)
    [] op \in {"xor", "xori"} -> Bits(XorBits, a, b)
    [] op = "srli"            -> IF b < 0 THEN 0
                                 ELSE IF Power(b) = 0 THEN 0
                                 ELSE Int32(Uint32(a) \div Power(b))
    [] OTHER                  -> IF b < 0 THEN 0 ELSE Int32(a * Power(b))
=============================================================================
