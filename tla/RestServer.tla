------------------------------ MODULE RestServer ------------------------------
(***************************************************************************)
(* The REST server: net/http runs the handlers of rest/handlers.go in one  *)
(* goroutine per request, and all of them share the table of sessions and  *)
(* the mutex mu.  Here a client has one request at a time; the body of a   *)
(* request may arrive later than its head, or never, and the handler that  *)
(* reads it waits for it.  The answer is written with mu held, and a long  *)
(* one only as fast as the client reads it.                                *)
(*                                                                         *)
(* at[c] is the next thing to happen to the request of c:                  *)
(*   idle       nothing, there is none                                     *)
(*   body       newSessionHandler reads the body                           *)
(*   lock       mu.Lock                                                    *)
(*   lookup     with mu held: find or create the session                   *)
(*   read       with mu held: read the body                                *)
(*   parse      with mu held: the program text                             *)
(*   loop       with mu held: the loop of stepProgramHandler               *)
(*   write      with mu held: write the answer                             *)
(*   unlock     the deferred mu.Unlock                                     *)
(*   reply      net/http finishes the response, or drops the connection    *)
(***************************************************************************)
EXTENDS SessionTable, FiniteSets

VARIABLES
  sessions,   \* the table
  holder,     \* who holds mu, or NoOne
  at, request, answer,   \* per client
  left,       \* the variable i of stepProgramHandler
  before      \* history: sessions when mu was taken

serverVars == <<sessions, holder, at, request, answer, left, before>>

CONSTANT NoOne
ASSUME NoOneAssumption == NoOne \notin Clients

Through == {"write", "unlock"}                            \* with the table
Inside  == {"lookup", "read", "parse", "loop"} \cup Through   \* between Lock and Unlock
Points  == {"idle", "body", "lock", "reply"} \cup Inside
NoRequest == [op |-> "get", id |-> NoSession, arg |-> << >>]

ServerInit ==
  /\ sessions = << >> /\ before = << >>
  /\ holder = NoOne
  /\ at = [c \in Clients |-> "idle"]
  /\ request = [c \in Clients |-> NoRequest]
  /\ answer = [c \in Clients |-> Say("ok")]
  /\ left = 0

Go(c, point) == at' = [at EXCEPT ![c] = point]

\* The handler is through, and what is left to do is at the point.
Conclude(c, point, reply) == Go(c, point) /\ answer' = [answer EXCEPT ![c] = reply]
Finish(c, reply) == Conclude(c, "write", reply)     \* writeJSON, http.Error
Leave(c, reply)  == Conclude(c, "unlock", reply)    \* without writing

----------------------------------------------------------------------------
(* Clients.                                                                *)

\* The bound on sessions counts those that are being created.
Creating == {c \in Clients : request[c].op = "new" /\ Accepted(request[c], Refused)}
Full     == Cardinality(DOMAIN sessions) + Cardinality(Creating) >= MaxSessions

Send(c) ==
  /\ at[c] = "idle"
  /\ \E req \in Requests(DOMAIN sessions \cup {NoSession}) :
       /\ Full => req.op # "new" \/ ~Accepted(req, Refused)
       /\ request' = [request EXCEPT ![c] = req]
       /\ Go(c, IF req.op = "new" THEN "body" ELSE "lock")
  /\ UNCHANGED <<sessions, holder, answer, left, before>>

----------------------------------------------------------------------------
(* Outside of the mutex.                                                   *)

\* newSessionHandler, up to the call of newSession.  A refused setting is
\* answered, and then nil is dereferenced: the connection is dropped.
ReadNew(c) ==
  /\ at[c] = "body"
  /\ \/ /\ ~Decodes(request[c])
        /\ Conclude(c, "reply", Say("bad_request"))
     \/ /\ Decodes(request[c]) /\ Value(request[c]) = Refused
        /\ Conclude(c, "reply", Say("aborted"))
     \/ /\ Accepted(request[c], Refused)
        /\ Go(c, "lock") /\ UNCHANGED answer
  /\ UNCHANGED <<sessions, holder, request, left, before>>

\* A slip: read locks, as for a sync.RWMutex, do not exclude each other.
LockShared(c) ==
  /\ at[c] = "lock" /\ (holder = NoOne \/ request[c].op = "step")
  /\ holder' = c
  /\ before' = sessions
  /\ Go(c, "lookup")
  /\ UNCHANGED <<sessions, request, answer, left>>

Lock(c) ==
  /\ at[c] = "lock" /\ holder = NoOne
  /\ holder' = c
  /\ before' = sessions
  /\ Go(c, "lookup")
  /\ UNCHANGED <<sessions, request, answer, left>>

\* The end of a handler; a panic has run the deferred calls as well.
Unlock(c) ==
  /\ at[c] = "unlock"
  /\ holder' = NoOne
  /\ before' = << >>
  /\ Go(c, "reply")
  /\ UNCHANGED <<sessions, request, answer, left>>

----------------------------------------------------------------------------
(* Answers.  One that quotes the request or grows with it, an unknown id,  *)
(* a listing, an error of the parser, the states of many cycles, may       *)
(* exceed all buffers.  No write has a time limit.                         *)

Long(c) ==
  LET req == request[c] IN
  \/ answer[c].status = "not_found"
  \/ /\ answer[c].status # "aborted" /\ Decodes(req)
     /\ req.op = "load_program" \/ (req.op = "step" /\ Value(req) # 0)

Write(c) ==
  /\ at[c] = "write"
  /\ Go(c, "unlock")
  /\ UNCHANGED <<sessions, holder, request, answer, left, before>>

Respond(c) ==
  /\ at[c] = "reply"
  /\ Go(c, "idle")
  /\ request' = [request EXCEPT ![c] = NoRequest]
  /\ answer' = [answer EXCEPT ![c] = Say("ok")]
  /\ UNCHANGED <<sessions, holder, left, before>>

Deliver(c) == Write(c) \/ Respond(c)

----------------------------------------------------------------------------
(* With mu held.                                                           *)

Found(c) == request[c].id \in DOMAIN sessions

\* newSession has released mu when the answer is written.
CreateSession(c) ==
  /\ at[c] = "lookup" /\ request[c].op = "new"
  /\ LET id == generateId(sessions) IN
     /\ \E m \in CreateVm(Value(request[c])) :
          sessions' = [i \in DOMAIN sessions \cup {id} |-> IF i = id THEN m ELSE sessions[i]]
     /\ Leave(c, [status |-> "ok", id |-> id])
  /\ UNCHANGED <<holder, request, left, before>>

NotFound(c) ==
  /\ at[c] = "lookup" /\ request[c].op # "new" /\ ~Found(c)
  /\ Finish(c, Say("not_found"))
  /\ UNCHANGED <<sessions, holder, request, left, before>>

GetSession(c) ==
  /\ at[c] = "lookup" /\ request[c].op = "get" /\ Found(c)
  /\ Finish(c, Say("ok"))
  /\ UNCHANGED <<sessions, holder, request, left, before>>

\* withSessionMiddleware has found the session and calls the handler.
EnterHandler(c) ==
  /\ at[c] = "lookup" /\ Found(c)
  /\ \/ request[c].op \in {"load_program", "update_config"} /\ Go(c, "read")
        /\ UNCHANGED <<answer, left>>
     \/ /\ request[c].op = "step" /\ Decodes(request[c])
        /\ Go(c, "loop") /\ left' = Value(request[c]) /\ UNCHANGED answer
     \/ /\ request[c].op = "step" /\ ~Decodes(request[c])
        /\ Finish(c, Say("bad_request")) /\ UNCHANGED left
  /\ UNCHANGED <<sessions, holder, request, before>>

\* The machine of the request of c becomes m.
Put(c, m) == sessions' = [sessions EXCEPT ![request[c].id] = m]
Session(c) == sessions[request[c].id]

\* The body is read with the mutex held.
ReadLoad(c) ==
  /\ at[c] = "read" /\ request[c].op = "load_program"
  /\ \/ /\ ~Decodes(request[c])
        /\ Finish(c, Say("bad_request")) /\ UNCHANGED sessions
     \/ /\ Decodes(request[c])
        /\ \E m \in Reset(Session(c), Session(c).config) : Put(c, m)
        /\ Go(c, "parse") /\ UNCHANGED answer
  /\ UNCHANGED <<holder, request, left, before>>

\* The parser itself may panic (parser.go:187, 367).
ParseProgram(c) ==
  /\ at[c] = "parse"
  /\ \/ /\ Value(request[c]) = Unparsable
        /\ Finish(c, Say("bad_request")) /\ UNCHANGED sessions
     \/ /\ Value(request[c]) = Crashing
        /\ Leave(c, Say("aborted")) /\ UNCHANGED sessions
     \/ /\ Value(request[c]) \in Programs
        /\ \E m \in SetProgram(Session(c), Value(request[c])) : Put(c, m)
        /\ Finish(c, Say("ok"))
  /\ UNCHANGED <<holder, request, left, before>>

ReadUpdate(c) ==
  /\ at[c] = "read" /\ request[c].op = "update_config"
  /\ \/ /\ ~Accepted(request[c], Refused)
        /\ Finish(c, Say("bad_request")) /\ UNCHANGED sessions
     \/ /\ Accepted(request[c], Refused)
        /\ \E m \in Reset(Session(c), Value(request[c])) : Put(c, m)
        /\ Finish(c, Say("ok"))
  /\ UNCHANGED <<holder, request, left, before>>

\* A slip: only the count ends the loop.
GoesOnBlindly(m, i) == i # 0
GoesOn(m, i) == i # 0 /\ ~Halted(m)

\* i counts down from a negative n as well; how far does not matter.
StepCycle(c) ==
  /\ at[c] = "loop" /\ GoesOn(Session(c), left) /\ ~Panics(Session(c))
  /\ Put(c, ExecuteCycle(Session(c)))
  /\ left' = IF left > 0 THEN left - 1 ELSE left
  /\ UNCHANGED <<holder, at, request, answer, before>>

Panicking(c) == at[c] = "loop" /\ GoesOn(Session(c), left) /\ Panics(Session(c))

\* Slips: a panic leaves the mutex locked, or is caught inside of the loop.
StepPanicLocked(c) ==
  /\ Panicking(c)
  /\ \E m \in Panicked(Session(c)) : Put(c, m)
  /\ Conclude(c, "reply", Say("aborted"))
  /\ UNCHANGED <<holder, request, left, before>>

StepPanicCaught(c) ==
  /\ Panicking(c)
  /\ \E m \in Panicked(Session(c)) : Put(c, m)
  /\ UNCHANGED <<holder, at, request, answer, left, before>>

\* A Go panic in the machine runs the deferred Unlock on its way out.
StepPanic(c) ==
  /\ Panicking(c)
  /\ \E m \in Panicked(Session(c)) : Put(c, m)
  /\ Leave(c, Say("aborted"))
  /\ UNCHANGED <<holder, request, left, before>>

StepDone(c) ==
  /\ at[c] = "loop" /\ ~GoesOn(Session(c), left)
  /\ Finish(c, Say(IF Session(c).error THEN "error" ELSE "ok"))
  /\ left' = 0
  /\ UNCHANGED <<sessions, holder, request, before>>

----------------------------------------------------------------------------
(* The server.                                                             *)

\* The body is there, and the handler goes on.
Receive(c) == ReadNew(c) \/ ReadLoad(c) \/ ReadUpdate(c)

\* What the goroutine of c does without waiting for anyone.
Handle(c) ==
  \/ Unlock(c) \/ (~Long(c) /\ Deliver(c))
  \/ CreateSession(c) \/ NotFound(c) \/ GetSession(c) \/ EnterHandler(c)
  \/ ParseProgram(c)
  \/ StepCycle(c) \/ StepPanic(c) \/ StepDone(c)

ServerNext ==
  \E c \in Clients : Send(c) \/ Receive(c) \/ Lock(c) \/ Handle(c) \/ Deliver(c)

ServerSpec == ServerInit /\ [][ServerNext]_serverVars

\* Goroutines are scheduled, and a mutex that is free again and again is
\* handed to whoever waits (sync.Mutex hands it over after a millisecond of
\* waiting).  Nothing is said of the clients: a body need not arrive, and
\* a long answer need not be read.
FairServerSpec ==
  ServerSpec /\ \A c \in Clients : WF_serverVars(Handle(c)) /\ SF_serverVars(Lock(c))

----------------------------------------------------------------------------
(* Invariants and properties.                                              *)

\* No machine runs past its end, whoever steps it.
ServerTypeOK ==
  /\ Table(sessions) /\ Table(before)
  /\ holder \in Clients \cup {NoOne}
  /\ at \in [Clients -> Points]
  /\ \A c \in Clients : request[c] \in Requests(Ids \cup {NoSession})
  /\ answer \in [Clients -> Answers]
  /\ left \in Int

\* The handler that holds mu is the one that works on the table, and it will
\* release mu on every path, by a panic too (middlewares.go:14-15,
\* handlers.go:65-66, sessions.go:16-17).
MutexHeldInside == \A c \in Clients : at[c] \in Inside <=> holder = c

\* To the clients each request takes effect at one moment, whatever runs at
\* the same time; a loop of n cycles, a reset in two steps and a panic half
\* way are never seen by another request.
Committed == IF holder # NoOne /\ at[holder] \notin Through THEN before ELSE sessions

CallOf(c) ==
  CASE at[c] = "idle"              -> [state |-> "quiet"]
    [] at[c] \in Through \cup {"reply"} ->
         [state |-> "served", req |-> request[c], answer |-> answer[c]]
    [] OTHER                       -> [state |-> "calling", req |-> request[c]]

Abstract == INSTANCE Service WITH
  table <- Committed, calls <- [c \in Clients |-> CallOf(c)]

ServesAtomically == Abstract!Spec

\* What may keep c waiting for ever, at its own request or at that of the
\* client that holds mu: a body that does not come (handlers.go:82, 108), a
\* long answer that is not read (handlers.go:70, 92, 103, 148, 152,
\* middlewares.go:19), and a step of a program without end (handlers.go:139-141).
Delayed(c)  == \/ at[c] \in {"body", "read"}
               \/ at[c] \in {"write", "reply"} /\ Long(c)
RunsOn(c)   == at[c] = "loop" /\ left < 0 /\ Session(c).ends = "never"
Stuck(c)    == \E d \in {c, holder} \cap Clients : Delayed(d) \/ RunsOn(d)

\* Every request is answered, unless one of these goes on for ever: no order
\* of requests, no failure and no panic takes the server down.
Answered == \A c \in Clients : []<>(at[c] = "idle") \/ <>[]Stuck(c)
=============================================================================
