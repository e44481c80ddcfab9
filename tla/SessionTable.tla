----------------------------- MODULE SessionTable -----------------------------
(***************************************************************************)
(* What the REST server keeps and what it is asked (package rest): a table *)
(* of machines by session id, and five kinds of requests.                  *)
(*                                                                         *)
(* A machine is reduced to what the server depends on: its settings, its   *)
(* program, how the run it is in will end and when, and whether            *)
(* Runtime_error is set.  What an old run has left in the memory and the   *)
(* buffers may decide how the next one goes, so that a reset machine has   *)
(* one of several runs before it; VmSession looks inside the machine.      *)
(***************************************************************************)
EXTENDS Integers

CONSTANTS Clients,
          Programs, EmptyProgram,   \* what the parser accepts; CreateVm's program
          Unparsable, Crashing,     \* a text it refuses, one that makes it panic
          Configs, Refused,         \* what CreateConfig accepts, and a setting it refuses
          Run,                      \* the runs a reset machine may have before it
          Rerun,                    \* and a machine that has panicked
          StepCounts,               \* the numbers n of step requests
          MaxSessions               \* bound: entries of the table

\* After toGo more cycles the machine has halted, by the end of the program or
\* by a memory fault, or its next cycle panics; or it never stops.
Ends == {"halts", "faults", "panics", "never"}
Runs == {r \in [toGo: Nat, ends: Ends] : r.ends \in {"halts", "faults"} => r.toGo > 0}

ASSUME TableAssumption ==
  /\ EmptyProgram \in Programs /\ {Unparsable, Crashing} \cap Programs = {}
  /\ Unparsable # Crashing /\ Refused \notin Configs
  /\ Run \in [Programs \X Configs -> (SUBSET Runs) \ {{}}]
  /\ Rerun \in [Programs \X Configs -> (SUBSET Runs) \ {{}}]
  /\ StepCounts \subseteq Int /\ MaxSessions \in Nat

----------------------------------------------------------------------------
(* Machines.                                                               *)

Machine == [program: Programs, config: Configs, toGo: Nat, ends: Ends, error: BOOLEAN]

Halted(m) == m.ends \in {"halts", "faults"} /\ m.toGo = 0
Panics(m) == m.ends = "panics" /\ m.toGo = 0

\* m with one of the runs before it.
Facing(m, runs) == {[m EXCEPT !.toGo = r.toGo, !.ends = r.ends] : r \in runs}
Begun(m) == Facing(m, Run[m.program, m.config])

CreateVm(config) ==
  Begun([program |-> EmptyProgram, config |-> config,
         toGo |-> 0, ends |-> "never", error |-> FALSE])

\* Runtime_error is not cleared.
Reset(m, config)       == Begun([m EXCEPT !.config = config])
SetProgram(m, program) == Begun([m EXCEPT !.program = program])

\* The cycles of a run without end are not told apart.
ExecuteCycle(m) ==
  [m EXCEPT !.toGo = IF m.ends = "never" THEN @ ELSE @ - 1,
            !.error = m.ends = "faults" /\ m.toGo = 1]

\* A panic leaves half a cycle behind, with or without a fault in it.  Most
\* often the next cycle panics again; after a flush that has taken back the
\* halt (core.go:305, 804), the machine may as well run on.
Panicked(m) ==
  UNION {Facing([m EXCEPT !.error = e], Rerun[m.program, m.config]) : e \in BOOLEAN}

----------------------------------------------------------------------------
(* The table.  Ids are drawn at random, so that no client can guess one    *)
(* and none is drawn twice; here they are counted.                         *)

NoSession == 0
Ids       == 1 .. MaxSessions
Table(t)  == \E k \in 0 .. MaxSessions : t \in [1 .. k -> Machine]

generateId(table) == CHOOSE id \in Ids : DOMAIN table = 1 .. id - 1

----------------------------------------------------------------------------
(* Requests and answers.  A body or a parameter n that cannot be decoded   *)
(* is << >>.                                                               *)

Decodes(req) == req.arg # << >>
Value(req)   == req.arg[1]
Accepted(req, bad) == Decodes(req) /\ Value(req) # bad

NewRequests       == [op: {"new"}, id: {NoSession},
                      arg: {<< >>} \cup {<<c>> : c \in Configs \cup {Refused}}]
GetRequests(ids)  == [op: {"get"}, id: ids, arg: {<< >>}]
LoadRequests(ids) == [op: {"load_program"}, id: ids,
                      arg: {<< >>} \cup {<<p>> : p \in Programs \cup {Unparsable, Crashing}}]
UpdateRequests(ids) == [op: {"update_config"}, id: ids,
                        arg: {<< >>} \cup {<<c>> : c \in Configs \cup {Refused}}]
StepRequests(ids) == [op: {"step"}, id: ids,
                      arg: {<< >>} \cup {<<n>> : n \in StepCounts}]

\* ids: the sessions a client may know of, and an unknown one.
Requests(ids) == NewRequests \cup GetRequests(ids) \cup LoadRequests(ids)
                   \cup UpdateRequests(ids) \cup StepRequests(ids)

Statuses == {"ok", "error", "bad_request", "not_found", "aborted"}
Answers  == [status: Statuses, id: Ids \cup {NoSession}]
Say(status) == [status |-> status, id |-> NoSession]
=============================================================================
