------------------------------- MODULE Words -------------------------------
(***************************************************************************)
(* The machine words of the simulator.  A word is four bytes; registers    *)
(* hold them signed (Go's int32), addresses are their unsigned reading     *)
(* (uint32).  The size of a byte is a parameter: 256 in the program, small *)
(* in the model-checked instances, so that every wrap-around stays within  *)
(* reach of TLC.                                                           *)
(***************************************************************************)
EXTENDS Integers

CONSTANT BYTE_MOD   \* values of a byte: 2^8 in the program

ASSUME ByteModAssumption == BYTE_MOD \in Nat /\ BYTE_MOD > 1

WORD_SIZE == 4

\* The weight of each byte of a little-endian word.
Place == [i \in 0 .. WORD_SIZE - 1 |->
            IF i = 0 THEN 1
            ELSE IF i = 1 THEN BYTE_MOD
            ELSE IF i = 2 THEN BYTE_MOD * BYTE_MOD
            ELSE BYTE_MOD * BYTE_MOD * BYTE_MOD]

WORD_MOD == BYTE_MOD * BYTE_MOD * BYTE_MOD * BYTE_MOD

Byte == 0 .. BYTE_MOD - 1
Addr == 0 .. WORD_MOD - 1
Word == -(WORD_MOD \div 2) .. WORD_MOD - (WORD_MOD \div 2) - 1

\* Go's conversions uint32(x) and int32(x), and the byte i of a word.
Uint32(x) == x % WORD_MOD
Int32(x)  == ((x + (WORD_MOD \div 2)) % WORD_MOD) - (WORD_MOD \div 2)
ByteOf(x, i) == (Uint32(x) \div Place[i]) % BYTE_MOD
=============================================================================
