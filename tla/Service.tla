------------------------------- MODULE Service -------------------------------
(***************************************************************************)
(* What the server promises: every request takes effect at once, at some   *)
(* moment between its arrival and its answer, and a request that steps a   *)
(* machine leaves it where n cycles lead, or where it stops before that.   *)
(* A step that would run for ever never takes effect.                      *)
(***************************************************************************)
EXTENDS SessionTable

VARIABLES table,    \* session id -> machine
          calls     \* client -> its call, in one of the states below

Calling(req)        == [state |-> "calling", req |-> req]
Served(req, answer) == [state |-> "served", req |-> req, answer |-> answer]
Quiet               == [state |-> "quiet"]

Init == table = << >> /\ calls = [c \in Clients |-> Quiet]

----------------------------------------------------------------------------
(* A step of n cycles, in one go.                                          *)

\* A negative n sets no limit.
Exceeds(n, k) == n < 0 \/ n > k

Diverges(m, n) == m.ends = "never" /\ n < 0
Aborts(m, n)   == m.ends = "panics" /\ Exceeds(n, m.toGo)

\* Where the cycles that are completed lead.
Stepped(m, n) ==
  IF n = 0 THEN m
  ELSE IF m.ends = "never" THEN [m EXCEPT !.error = FALSE]
  ELSE IF m.toGo = 0 THEN m
  ELSE IF Exceeds(n, m.toGo - 1)
  THEN [m EXCEPT !.toGo = 0, !.error = m.ends = "faults"]
  ELSE [m EXCEPT !.toGo = @ - n, !.error = FALSE]

StepAnswer(m, n) == Say(IF Stepped(m, n).error THEN "error" ELSE "ok")

----------------------------------------------------------------------------
(* What a request does to the table, and its answer.                       *)

Knows(req) == req.id \in DOMAIN table
Store(req, m) == table' = [table EXCEPT ![req.id] = m]
Reply(c, answer) == calls' = [calls EXCEPT ![c] = Served(@.req, answer)]

\* A setting that is refused aborts the connection (rest/handlers.go:45-49).
ServeNew(c, req) ==
  \/ ~Decodes(req) /\ Reply(c, Say("bad_request")) /\ UNCHANGED table
  \/ /\ Decodes(req) /\ Value(req) = Refused
     /\ Reply(c, Say("aborted")) /\ UNCHANGED table
  \/ /\ Accepted(req, Refused)
     /\ LET id == generateId(table) IN
        /\ \E m \in CreateVm(Value(req)) :
             table' = [i \in DOMAIN table \cup {id} |-> IF i = id THEN m ELSE table[i]]
        /\ Reply(c, [status |-> "ok", id |-> id])

\* A program that does not parse, or makes the parser panic, has reset the
\* machine.
ServeLoad(c, req) ==
  LET m == table[req.id] IN
  \/ ~Decodes(req) /\ Reply(c, Say("bad_request")) /\ UNCHANGED table
  \/ /\ Decodes(req)
     /\ \E m2 \in Reset(m, m.config) :
          \/ /\ Value(req) = Unparsable
             /\ Store(req, m2) /\ Reply(c, Say("bad_request"))
          \/ Value(req) = Crashing /\ Store(req, m2) /\ Reply(c, Say("aborted"))
          \/ /\ Value(req) \in Programs
             /\ \E m3 \in SetProgram(m2, Value(req)) : Store(req, m3)
             /\ Reply(c, Say("ok"))

ServeUpdate(c, req) ==
  \/ ~Accepted(req, Refused) /\ Reply(c, Say("bad_request")) /\ UNCHANGED table
  \/ /\ Accepted(req, Refused)
     /\ \E m2 \in Reset(table[req.id], Value(req)) : Store(req, m2)
     /\ Reply(c, Say("ok"))

ServeStep(c, req) ==
  LET m == table[req.id]
      n == Value(req)
  IN  \/ ~Decodes(req) /\ Reply(c, Say("bad_request")) /\ UNCHANGED table
      \/ /\ Decodes(req) /\ ~Diverges(m, n) /\ ~Aborts(m, n)
         /\ Store(req, Stepped(m, n)) /\ Reply(c, StepAnswer(m, n))
      \/ /\ Decodes(req) /\ Aborts(m, n)
         /\ \E m2 \in Panicked(Stepped(m, n)) : Store(req, m2)
         /\ Reply(c, Say("aborted"))

Serve(c) ==
  LET req == calls[c].req IN
  /\ calls[c].state = "calling"
  /\ \/ req.op = "new" /\ ServeNew(c, req)
     \/ /\ req.op # "new" /\ ~Knows(req)
        /\ Reply(c, Say("not_found")) /\ UNCHANGED table
     \/ req.op = "get" /\ Knows(req) /\ Reply(c, Say("ok")) /\ UNCHANGED table
     \/ req.op = "load_program" /\ Knows(req) /\ ServeLoad(c, req)
     \/ req.op = "update_config" /\ Knows(req) /\ ServeUpdate(c, req)
     \/ req.op = "step" /\ Knows(req) /\ ServeStep(c, req)

Call(c) ==
  /\ calls[c].state = "quiet"
  /\ \E req \in Requests(DOMAIN table \cup {NoSession}) :
       calls' = [calls EXCEPT ![c] = Calling(req)]
  /\ UNCHANGED table

Return(c) ==
  /\ calls[c].state = "served"
  /\ calls' = [calls EXCEPT ![c] = Quiet]
  /\ UNCHANGED table

Next == \E c \in Clients : Call(c) \/ Serve(c) \/ Return(c)

Spec == Init /\ [][Next]_<<table, calls>>
=============================================================================
