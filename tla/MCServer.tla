------------------------------- MODULE MCServer -------------------------------
(* Two clients that never stop, and sessions of two programs.  One divides *)
(* by what it finds in the memory: it halts, or it panics, and then panics *)
(* again or runs into a memory fault.  The other never ends.               *)
EXTENDS RestServer

CONSTANTS a, b, small, reader, loop

After(n, ends) == [toGo |-> n, ends |-> ends]

MyRun == [p \in {reader, loop}, c \in {small} |->
  IF p = reader THEN {After(2, "halts"), After(1, "panics")} ELSE {After(0, "never")}]

MyRerun == [p \in {reader, loop}, c \in {small} |->
  {After(0, "panics"), After(1, "faults")}]

SomeCounts == {0, 1, -1}
=============================================================================
