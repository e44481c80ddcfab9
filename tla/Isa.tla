-------------------------------- MODULE Isa --------------------------------
(***************************************************************************)
(* What a program means: the machine that executes one instruction at a    *)
(* time, with no pipeline, no stalls, no forwarding and no predictor.      *)
(* This is the promise the five-stage machine makes whatever its           *)
(* configuration; vm/test.go checks it on eight programs by comparing the  *)
(* final registers and memory of every configuration with saved ones.      *)
(*                                                                         *)
(* The meaning of each instruction is the code's own, see Instructions.    *)
(***************************************************************************)
EXTENDS Instructions, Sequences

VARIABLES code, mem_size,     \* chosen once
          pc, regs, mem, status

isa == <<code, mem_size, pc, regs, mem, status>>

AtEnd == pc \div 4 >= Len(code) \/ code[(pc \div 4) + 1].op = "end"

Current == Decoded(code[(pc \div 4) + 1], regs)

Address == Uint32(Result(Current, pc))
Error == IF isLoad(Current) \/ isStore(Current)
         THEN AccessError(mem_size, Address, AccessBytes(Current.op))
         ELSE NoError

Running == status = "running" /\ ~AtEnd

\* A value to write back: what was computed, or what was read.
Value == IF isLoad(Current)
         THEN memoryRead(mem, mem_size, Address, AccessBytes(Current.op))
         ELSE Result(Current, pc)

Retire ==
  /\ Running /\ ~Panics(Current) /\ Error = NoError
  /\ pc' = NextPc(Current, pc)
  /\ regs' = IF WritesRd(Current) /\ Current.Rd # 0
             THEN [regs EXCEPT ![Current.Rd] = Value] ELSE regs
  /\ mem' = IF isStore(Current)
            THEN memoryWrite(mem, mem_size, Current.s1, Address,
                             AccessBytes(Current.op))
            ELSE mem
  /\ UNCHANGED <<code, mem_size, status>>

\* A bad access stops the machine with everything before it done and
\* nothing of it or after it.
Fault ==
  /\ Running /\ ~Panics(Current) /\ Error # NoError
  /\ status' = Error
  /\ UNCHANGED <<code, mem_size, pc, regs, mem>>

Panic ==
  /\ Running /\ Panics(Current)
  /\ status' = "panicked"
  /\ UNCHANGED <<code, mem_size, pc, regs, mem>>

End ==
  /\ status = "running" /\ AtEnd
  /\ status' = "ended"
  /\ UNCHANGED <<code, mem_size, pc, regs, mem>>

\* CreateVm and SetProgram: only the stack pointer is set, and the program
\* may start anywhere (pc is its entry).
Init ==
  /\ pc \in Addr /\ pc % 4 = 0
  /\ regs = [r \in Reg |-> IF r = SP THEN Int32(mem_size) ELSE 0]
  /\ mem = [a \in 0 .. mem_size - 1 |-> 0]
  /\ status = "running"

Next == Retire \/ Fault \/ Panic \/ End

Spec == Init /\ [][Next]_isa
=============================================================================
