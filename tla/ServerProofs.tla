----------------------------- MODULE ServerProofs -----------------------------
(***************************************************************************)
(* For any clients, programs and settings: the handler that works on the   *)
(* table holds the mutex and gives it back, and the server is the atomic   *)
(* service.                                                                *)
(*                                                                         *)
(* The invariant says, for each point of a handler, how far it has taken   *)
(* the table away from what it was when the mutex was taken.  In the loop  *)
(* of step, what is left to do leads from the machine as it is to where    *)
(* the whole request leads from the machine as it was.                     *)
(***************************************************************************)
EXTENDS RestServer, FiniteSetTheorems, TLAPS

----------------------------------------------------------------------------
(* Machines and steps.                                                     *)

\* Stepping m by n and stepping m2 by n2 come to the same.
SameStep(m, n, m2, n2) ==
  /\ Abstract!Stepped(m, n) = Abstract!Stepped(m2, n2)
  /\ Abstract!Aborts(m, n) <=> Abstract!Aborts(m2, n2)
  /\ Abstract!Diverges(m, n) <=> Abstract!Diverges(m2, n2)

\* The abstract step, in the operators of the server.
LEMMA StepForm ==
  ASSUME NEW m, NEW n
  PROVE  /\ Abstract!Stepped(m, n) =
              IF n = 0 THEN m
              ELSE IF m.ends = "never" THEN [m EXCEPT !.error = FALSE]
              ELSE IF m.toGo = 0 THEN m
              ELSE IF n < 0 \/ n > m.toGo - 1
              THEN [m EXCEPT !.toGo = 0, !.error = m.ends = "faults"]
              ELSE [m EXCEPT !.toGo = @ - n, !.error = FALSE]
         /\ Abstract!Aborts(m, n) <=> m.ends = "panics" /\ (n < 0 \/ n > m.toGo)
         /\ Abstract!Diverges(m, n) <=> m.ends = "never" /\ n < 0
BY DEF Abstract!Stepped, Abstract!Aborts, Abstract!Diverges, Abstract!Exceeds

\* One turn of the loop changes nothing in where the request leads.
LEMMA OneCycle ==
  ASSUME NEW m \in Machine, NEW i \in Int, GoesOn(m, i), ~Panics(m)
  PROVE  LET m2 == ExecuteCycle(m)
             i2 == IF i > 0 THEN i - 1 ELSE i
         IN  /\ m2 \in Machine /\ i2 \in Int
             /\ SameStep(m, i, m2, i2)
<1> DEFINE m2 == ExecuteCycle(m)
           i2 == IF i > 0 THEN i - 1 ELSE i
           toGo == IF m.ends = "never" THEN m.toGo ELSE m.toGo - 1
           error == m.ends = "faults" /\ m.toGo = 1
<1>1. /\ m.toGo \in Nat /\ m.ends \in {"halts", "faults", "panics", "never"}
      /\ i # 0 /\ (m.ends # "never" => m.toGo > 0)
  BY DEF Machine, Ends, GoesOn, Halted, Panics
<1>a. m.ends # "never" => toGo = m.toGo - 1
  OBVIOUS
<1>2. toGo \in Nat /\ error \in BOOLEAN /\ m2 = [m EXCEPT !.toGo = toGo, !.error = error]
  BY <1>1 DEF ExecuteCycle
<1> HIDE DEF m2
<1>3. m2 \in Machine /\ m2.ends = m.ends /\ m2.toGo = toGo /\ m2.error = error
  BY <1>2 DEF Machine
<1>4. i2 \in Int
  OBVIOUS
<1>5. Abstract!Aborts(m, i) <=> Abstract!Aborts(m2, i2)
  <2>1. Abstract!Aborts(m, i) <=> m.ends = "panics" /\ (i < 0 \/ i > m.toGo)
    BY StepForm
  <2>2. Abstract!Aborts(m2, i2) <=> m.ends = "panics" /\ (i2 < 0 \/ i2 > toGo)
    <3>1. Abstract!Aborts(m2, i2) <=> m2.ends = "panics" /\ (i2 < 0 \/ i2 > m2.toGo)
      BY StepForm
    <3> HIDE DEF toGo, i2
    <3> QED BY <3>1, <1>3
  <2>3. ASSUME m.ends = "panics" PROVE i < 0 \/ i > m.toGo <=> i2 < 0 \/ i2 > toGo
    <3>1. toGo = m.toGo - 1 /\ m.toGo \in Nat /\ i # 0
      BY <1>1, <2>3
    <3> HIDE DEF toGo
    <3> QED BY <3>1
  <2> QED BY <2>1, <2>2, <2>3
<1>6. Abstract!Diverges(m, i) <=> Abstract!Diverges(m2, i2)
  <2>1. Abstract!Diverges(m, i) <=> m.ends = "never" /\ i < 0
    BY StepForm
  <2>2. Abstract!Diverges(m2, i2) <=> m.ends = "never" /\ i2 < 0
    BY <1>3, StepForm
  <2> QED BY <2>1, <2>2, <1>1
<1>7. Abstract!Stepped(m, i) = Abstract!Stepped(m2, i2)
  <2>1. \A k \in Nat, e \in BOOLEAN :
          [m2 EXCEPT !.toGo = k, !.error = e] = [m EXCEPT !.toGo = k, !.error = e]
    BY <1>2 DEF Machine
  <2>2. /\ m2 = [m2 EXCEPT !.toGo = toGo, !.error = error]
        /\ [m2 EXCEPT !.error = FALSE] = [m2 EXCEPT !.toGo = toGo, !.error = FALSE]
        /\ [m EXCEPT !.error = FALSE] = [m EXCEPT !.toGo = m.toGo, !.error = FALSE]
    BY <1>3 DEF Machine
  <2> HIDE DEF i2
  <2>3. CASE m.ends = "never"
    <3>1. Abstract!Stepped(m, i) = [m EXCEPT !.error = FALSE]
      BY <2>3, <1>1, StepForm
    <3>2. Abstract!Stepped(m2, i2) \in {m2, [m2 EXCEPT !.error = FALSE]}
      BY <2>3, <1>3, StepForm
    <3>3. toGo = m.toGo /\ error = FALSE
      BY <2>3
    <3> QED BY <3>1, <3>2, <3>3, <2>1, <2>2, <1>1
  <2>4. CASE m.ends # "never" /\ (i < 0 \/ i > m.toGo - 1)
    <3>0. m.toGo # 0
      BY <2>4, <1>1
    <3>1. Abstract!Stepped(m, i) = [m EXCEPT !.toGo = 0, !.error = m.ends = "faults"]
      BY <2>4, <3>0, <1>1, StepForm, Zenon
    <3>2. toGo = m.toGo - 1 /\ m2.toGo = toGo /\ m2.ends # "never"
      BY <2>4, <1>3
    <3>3. CASE m.toGo = 1
      <4>1. Abstract!Stepped(m2, i2) = m2
        <5>1. m2.toGo = 0
          BY <3>2, <3>3
        <5> QED BY <5>1, <3>2, StepForm, Zenon
      <4>2. toGo = 0 /\ error = (m.ends = "faults")
        BY <3>2, <3>3
      <4> QED BY <3>1, <4>1, <4>2, <2>1, <2>2, <1>2
    <3>4. CASE m.toGo # 1
      <4>1. i2 # 0 /\ toGo # 0 /\ (i2 < 0 \/ i2 > toGo - 1)
        <5> HIDE DEF toGo
        <5> QED BY <2>4, <3>2, <3>4, <1>1 DEF i2
      <4>2. Abstract!Stepped(m2, i2) = [m2 EXCEPT !.toGo = 0, !.error = m2.ends = "faults"]
        BY <3>2, <4>1, StepForm, Zenon
      <4>3. (m.ends = "faults") \in BOOLEAN /\ m2.ends = m.ends
        BY <1>3
      <4> QED BY <3>1, <4>2, <4>3, <2>1
    <3> QED BY <3>3, <3>4
  <2>5. CASE m.ends # "never" /\ ~(i < 0 \/ i > m.toGo - 1)
    <3>0. m.toGo # 0
      BY <2>5, <1>1
    <3>1. Abstract!Stepped(m, i) = [m EXCEPT !.toGo = m.toGo - i, !.error = FALSE]
      BY <2>5, <3>0, <1>1, StepForm, Zenon
    <3>2. /\ toGo = m.toGo - 1 /\ i2 = i - 1 /\ toGo # 0 /\ m.toGo - i \in Nat
          /\ m.toGo # 1 /\ ~(i2 < 0 \/ i2 > toGo - 1) /\ toGo - i2 = m.toGo - i
      <4>1. toGo = m.toGo - 1
        BY <2>5, <1>a
      <4> HIDE DEF toGo
      <4> QED BY <4>1, <2>5, <1>1 DEF i2
    <3>3. error = FALSE
      BY <3>2
    <3>4. CASE i2 = 0
      <4>1. Abstract!Stepped(m2, i2) = m2
        BY <3>4, StepForm
      <4>2. toGo = m.toGo - i
        BY <3>2, <3>4
      <4> QED BY <3>1, <3>2, <3>3, <4>1, <4>2, <2>1, <2>2
    <3>5. CASE i2 # 0
      <4>1. Abstract!Stepped(m2, i2) = [m2 EXCEPT !.toGo = m2.toGo - i2, !.error = FALSE]
        <5>1. m2.ends # "never" /\ m2.toGo # 0 /\ ~(i2 < 0 \/ i2 > m2.toGo - 1)
          BY <3>2, <2>5, <1>3
        <5> QED BY <5>1, <3>5, StepForm, Zenon
      <4> QED BY <3>1, <3>2, <4>1, <2>1, <1>3
    <3> QED BY <3>4, <3>5
  <2> QED BY <2>3, <2>4, <2>5
<1> QED BY <1>3, <1>4, <1>5, <1>6, <1>7 DEF SameStep, m2

\* Where the loop is left, nothing is left to do.
LEMMA LoopEnd ==
  ASSUME NEW m \in Machine, NEW i \in Int, ~GoesOn(m, i)
  PROVE  /\ Abstract!Stepped(m, i) = m
         /\ ~Abstract!Aborts(m, i) /\ ~Abstract!Diverges(m, i)
<1>1. m.toGo \in Nat /\ (i = 0 \/ (m.ends \in {"halts", "faults"} /\ m.toGo = 0))
  BY DEF Machine, GoesOn, Halted
<1>2. Abstract!Stepped(m, i) = m
  BY <1>1, StepForm
<1>3. ~Abstract!Aborts(m, i) /\ ~Abstract!Diverges(m, i)
  <2>1. Abstract!Aborts(m, i) <=> m.ends = "panics" /\ (i < 0 \/ i > m.toGo)
    BY StepForm
  <2>2. Abstract!Diverges(m, i) <=> m.ends = "never" /\ i < 0
    BY StepForm
  <2> QED BY <1>1, <2>1, <2>2
<1> QED BY <1>2, <1>3

LEMMA LoopPanic ==
  ASSUME NEW m \in Machine, NEW i \in Int, GoesOn(m, i), Panics(m)
  PROVE  Abstract!Stepped(m, i) = m /\ Abstract!Aborts(m, i)
<1>1. m.ends = "panics" /\ m.toGo = 0 /\ i # 0
  BY DEF GoesOn, Panics
<1>2. Abstract!Stepped(m, i) = m
  BY <1>1, StepForm
<1>3. Abstract!Aborts(m, i)
  <2>1. Abstract!Aborts(m, i) <=> m.ends = "panics" /\ (i < 0 \/ i > m.toGo)
    BY StepForm
  <2> QED BY <1>1, <2>1
<1> QED BY <1>2, <1>3

\* Setting up a machine, and what a panic leaves, is a machine again.
LEMMA FacingMachine ==
  ASSUME NEW m, NEW runs \in SUBSET Runs,
         \A k \in Nat, e \in Ends : [m EXCEPT !.toGo = k, !.ends = e] \in Machine
  PROVE  Facing(m, runs) \subseteq Machine
<1>1. ASSUME NEW r \in runs
      PROVE  [m EXCEPT !.toGo = r.toGo, !.ends = r.ends] \in Machine
  BY DEF Runs
<1> QED BY <1>1 DEF Facing

LEMMA BegunMachine ==
  ASSUME NEW m, m.program \in Programs, m.config \in Configs,
         \A k \in Nat, e \in Ends : [m EXCEPT !.toGo = k, !.ends = e] \in Machine
  PROVE  Begun(m) \subseteq Machine
<1>1. Run[m.program, m.config] \subseteq Runs
  BY TableAssumption
<1> QED BY <1>1, FacingMachine DEF Begun

LEMMA ResetMachine ==
  ASSUME NEW m \in Machine
  PROVE  /\ \A c \in Configs : Reset(m, c) \subseteq Machine
         /\ \A p \in Programs : SetProgram(m, p) \subseteq Machine
         /\ Panicked(m) \subseteq Machine
<1>1. ASSUME NEW c \in Configs PROVE Reset(m, c) \subseteq Machine
  <2> DEFINE m2 == [m EXCEPT !.config = c]
  <2>1. /\ m2.program \in Programs /\ m2.config \in Configs
        /\ \A k \in Nat, e \in Ends : [m2 EXCEPT !.toGo = k, !.ends = e] \in Machine
    BY DEF Machine
  <2> HIDE DEF m2
  <2>2. Begun(m2) \subseteq Machine
    BY <2>1, BegunMachine
  <2> QED BY <2>2 DEF Reset, m2
<1>2. ASSUME NEW p \in Programs PROVE SetProgram(m, p) \subseteq Machine
  <2> DEFINE m2 == [m EXCEPT !.program = p]
  <2>1. /\ m2.program \in Programs /\ m2.config \in Configs
        /\ \A k \in Nat, e \in Ends : [m2 EXCEPT !.toGo = k, !.ends = e] \in Machine
    BY DEF Machine
  <2> HIDE DEF m2
  <2>2. Begun(m2) \subseteq Machine
    BY <2>1, BegunMachine
  <2> QED BY <2>2 DEF SetProgram, m2
<1>3. ASSUME NEW b \in BOOLEAN
      PROVE  Facing([m EXCEPT !.error = b], Rerun[m.program, m.config]) \subseteq Machine
  <2>1. Rerun[m.program, m.config] \in SUBSET Runs
    BY TableAssumption DEF Machine
  <2> DEFINE m2 == [m EXCEPT !.error = b]
  <2>2. \A k \in Nat, e \in Ends : [m2 EXCEPT !.toGo = k, !.ends = e] \in Machine
    BY DEF Machine
  <2> HIDE DEF m2
  <2>3. Facing(m2, Rerun[m.program, m.config]) \subseteq Machine
    BY <2>1, <2>2, FacingMachine
  <2> QED BY <2>3 DEF m2
<1> QED BY <1>1, <1>2, <1>3 DEF Panicked

LEMMA CreatedMachine == \A c \in Configs : CreateVm(c) \subseteq Machine
<1> SUFFICES ASSUME NEW c \in Configs PROVE CreateVm(c) \subseteq Machine
  OBVIOUS
<1> DEFINE m == [program |-> EmptyProgram, config |-> c,
                 toGo |-> 0, ends |-> "never", error |-> FALSE]
<1>1. /\ m.program \in Programs /\ m.config \in Configs
      /\ \A k \in Nat, e \in Ends : [m EXCEPT !.toGo = k, !.ends = e] \in Machine
  BY TableAssumption DEF Machine
<1> HIDE DEF m
<1>2. Begun(m) \subseteq Machine
  BY <1>1, BegunMachine
<1> QED BY <1>2 DEF CreateVm, m

----------------------------------------------------------------------------
(* The invariant.                                                          *)

\* What the fields of a request may be.
Shaped(req) ==
  /\ req.op \in {"new", "get", "load_program", "update_config", "step"}
  /\ req.op \in {"new", "update_config"} /\ Accepted(req, Refused) =>
       Value(req) \in Configs
  /\ req.op = "step" /\ Decodes(req) => Value(req) \in Int

ServerTypes ==
  /\ holder \in Clients \cup {NoOne}
  /\ at \in [Clients -> Points]
  /\ DOMAIN request = Clients /\ \A c \in Clients : Shaped(request[c])
  /\ DOMAIN answer = Clients
  /\ left \in Int
  /\ sessions = [id \in DOMAIN sessions |-> sessions[id]]

AllMachines(table) == \A id \in DOMAIN table : table[id] \in Machine

\* How far the handler of c has got: what it knows of its request, and what
\* it has made of the table.
AtPoint(c) ==
  LET req == request[c] IN
  /\ at[c] = "body" => req.op = "new"
  /\ at[c] \in {"lock", "lookup"} /\ req.op = "new" => Accepted(req, Refused)
  /\ at[c] = "lookup" => sessions = before
  /\ at[c] = "read" =>
       /\ req.op \in {"load_program", "update_config"}
       /\ req.id \in DOMAIN before /\ sessions = before
  /\ at[c] = "parse" =>
       /\ req.op = "load_program" /\ Decodes(req)
       /\ req.id \in DOMAIN before
       /\ sessions = [before EXCEPT ![req.id] = sessions[req.id]]
       /\ sessions[req.id] \in Reset(before[req.id], before[req.id].config)
  /\ at[c] = "loop" =>
       /\ req.op = "step" /\ Decodes(req)
       /\ req.id \in DOMAIN before
       /\ sessions = [before EXCEPT ![req.id] = sessions[req.id]]
       /\ SameStep(before[req.id], Value(req), sessions[req.id], left)

ServerInv ==
  /\ ServerTypes /\ MutexHeldInside
  /\ AllMachines(sessions) /\ AllMachines(before)
  /\ \A c \in Clients : AtPoint(c)

LEMMA RequestShape == \A ids : \A req \in Requests(ids) : Shaped(req)
<1> SUFFICES ASSUME NEW ids, NEW req \in Requests(ids) PROVE Shaped(req)
  OBVIOUS
<1>1. CASE req \in NewRequests
  BY <1>1 DEF NewRequests, Shaped, Accepted, Decodes, Value
<1>2. CASE req \in GetRequests(ids)
  BY <1>2 DEF GetRequests, Shaped, Accepted, Decodes, Value
<1>3. CASE req \in LoadRequests(ids)
  BY <1>3 DEF LoadRequests, Shaped, Accepted, Decodes, Value
<1>4. CASE req \in UpdateRequests(ids)
  BY <1>4 DEF UpdateRequests, Shaped, Accepted, Decodes, Value
<1>5. CASE req \in StepRequests(ids)
  BY <1>5, TableAssumption DEF StepRequests, Shaped, Accepted, Decodes, Value
<1> QED BY <1>1, <1>2, <1>3, <1>4, <1>5 DEF Requests

\* A handler at work leaves the others where they are: none of them is inside.
LEMMA OthersStay ==
  ASSUME ServerInv, NEW d \in Clients,
         at'[d] = at[d], request'[d] = request[d],
         at[d] \notin Inside \/ UNCHANGED <<sessions, before, left>>
  PROVE  AtPoint(d)'
<1>1. AtPoint(d)
  BY DEF ServerInv
<1>2. CASE at[d] \notin Inside
  BY <1>1, <1>2 DEF AtPoint, Inside, Through
<1>3. CASE UNCHANGED <<sessions, before, left>>
  <2>1. SameStep(before[request[d].id], Value(request[d]), sessions[request[d].id], left)
          => SameStep(before[request[d].id], Value(request[d]), sessions[request[d].id], left)'
    BY <1>3 DEF SameStep
  <2> QED BY <1>1, <1>3, <2>1 DEF AtPoint
<1> QED BY <1>2, <1>3

LEMMA InitInv == ServerInit => ServerInv
<1> SUFFICES ASSUME ServerInit PROVE ServerInv
  OBVIOUS
<1>1. ServerTypes
  BY DEF ServerInit, ServerTypes, Shaped, NoRequest, Points, Inside, Through, Decodes
<1>2. MutexHeldInside
  BY NoOneAssumption DEF ServerInit, MutexHeldInside, Inside, Through
<1>3. AllMachines(sessions) /\ AllMachines(before)
  BY DEF ServerInit, AllMachines
<1>4. \A c \in Clients : AtPoint(c)
  BY DEF ServerInit, AtPoint
<1> QED BY <1>1, <1>2, <1>3, <1>4 DEF ServerInv

----------------------------------------------------------------------------
(* Every step keeps the invariant.                                         *)

LEMMA Alone ==
  ASSUME ServerInv, NEW c \in Clients, at[c] \in Inside
  PROVE  /\ holder = c /\ holder # NoOne
         /\ \A d \in Clients \ {c} : at[d] \notin Inside
BY NoOneAssumption DEF ServerInv, MutexHeldInside

\* The mutex, and everything that an action of c cannot disturb.
LEMMA MutexStep ==
  ASSUME ServerInv, NEW c \in Clients, NEW p \in Points, Go(c, p),
         \/ holder' = holder /\ (at[c] \in Inside <=> p \in Inside)
         \/ holder = NoOne /\ holder' = c /\ p \in Inside
         \/ holder = c /\ holder' = NoOne /\ p \notin Inside
  PROVE  /\ MutexHeldInside'
         /\ at' \in [Clients -> Points] /\ holder' \in Clients \cup {NoOne}
         /\ at'[c] = p /\ \A d \in Clients \ {c} : at'[d] = at[d]
BY NoOneAssumption DEF ServerInv, ServerTypes, MutexHeldInside, Go

LEMMA Preserved ==
  ASSUME ServerInv, NEW c \in Clients,
         ServerTypes', MutexHeldInside', AllMachines(sessions)', AllMachines(before)',
         AtPoint(c)',
         \A d \in Clients \ {c} :
           /\ at'[d] = at[d] /\ request'[d] = request[d]
           /\ at[d] \notin Inside \/ UNCHANGED <<sessions, before, left>>
  PROVE  ServerInv'
<1>1. \A d \in Clients : AtPoint(d)'
  <2> TAKE d \in Clients
  <2>1. CASE d = c
    BY <2>1
  <2>2. CASE d # c
    BY <2>2, OthersStay
  <2> QED BY <2>1, <2>2
<1> QED BY <1>1 DEF ServerInv

LEMMA SendInv ==
  ASSUME ServerInv, NEW c \in Clients, Send(c)
  PROVE  ServerInv'
<1>1. PICK req \in Requests(DOMAIN sessions \cup {NoSession}) :
        /\ Full => req.op # "new" \/ ~Accepted(req, Refused)
        /\ request' = [request EXCEPT ![c] = req]
        /\ Go(c, IF req.op = "new" THEN "body" ELSE "lock")
  BY DEF Send
<1>2. Shaped(req)
  BY RequestShape
<1>3. at[c] = "idle" /\ UNCHANGED <<sessions, holder, answer, left, before>>
  BY DEF Send
<1> DEFINE p == IF req.op = "new" THEN "body" ELSE "lock"
<1>4. p \in Points /\ p \notin Inside /\ at[c] \notin Inside
  BY <1>3 DEF Points, Inside, Through
<1>5. /\ MutexHeldInside'
      /\ at' \in [Clients -> Points] /\ holder' \in Clients \cup {NoOne}
      /\ at'[c] = p /\ \A d \in Clients \ {c} : at'[d] = at[d]
  BY <1>1, <1>3, <1>4, MutexStep
<1>6. /\ DOMAIN request' = Clients /\ request'[c] = req
      /\ \A d \in Clients \ {c} : request'[d] = request[d]
  BY <1>1 DEF ServerInv, ServerTypes
<1>7. ServerTypes'
  BY <1>2, <1>3, <1>5, <1>6 DEF ServerInv, ServerTypes
<1>8. AtPoint(c)'
  BY <1>5, <1>6 DEF AtPoint
<1>9. AllMachines(sessions)' /\ AllMachines(before)'
  BY <1>3 DEF ServerInv, AllMachines
<1> QED BY <1>3, <1>5, <1>6, <1>7, <1>8, <1>9, Preserved

\* Lock, Unlock, Write and Respond.
LEMMA MutexInv ==
  ASSUME ServerInv, NEW c \in Clients, Lock(c) \/ Unlock(c) \/ Deliver(c)
  PROVE  ServerInv'
<1>1. CASE Lock(c)
  <2>1. at[c] = "lock" /\ "lookup" \in Points /\ "lookup" \in Inside /\ "lock" \notin Inside
    BY <1>1 DEF Lock, Points, Inside, Through
  <2>2. /\ MutexHeldInside'
        /\ at' \in [Clients -> Points] /\ holder' \in Clients \cup {NoOne}
        /\ at'[c] = "lookup" /\ \A d \in Clients \ {c} : at'[d] = at[d]
    BY <1>1, <2>1, MutexStep DEF Lock
  <2>3. ServerTypes'
    BY <1>1, <2>2 DEF Lock, ServerInv, ServerTypes
  <2>4. AtPoint(c)'
    BY <1>1, <2>1, <2>2 DEF Lock, AtPoint, ServerInv
  <2>5. \A d \in Clients \ {c} : at[d] \notin Inside
    BY <1>1, NoOneAssumption DEF Lock, ServerInv, MutexHeldInside
  <2>6. AllMachines(sessions)' /\ AllMachines(before)'
    BY <1>1 DEF Lock, ServerInv, AllMachines
  <2> QED BY <1>1, <2>2, <2>3, <2>4, <2>5, <2>6, Preserved DEF Lock
<1>2. CASE Unlock(c)
  <2>1. /\ at[c] \in Inside /\ "reply" \in Points /\ "reply" \notin Inside
        /\ holder = c /\ \A d \in Clients \ {c} : at[d] \notin Inside
    BY <1>2, Alone DEF Unlock, Points, Inside, Through
  <2>2. /\ MutexHeldInside'
        /\ at' \in [Clients -> Points] /\ holder' \in Clients \cup {NoOne}
        /\ at'[c] = "reply" /\ \A d \in Clients \ {c} : at'[d] = at[d]
    BY <1>2, <2>1, MutexStep DEF Unlock
  <2>3. ServerTypes'
    BY <1>2, <2>2 DEF Unlock, ServerInv, ServerTypes
  <2>4. AtPoint(c)'
    BY <2>2 DEF AtPoint
  <2>5. AllMachines(sessions)' /\ AllMachines(before)'
    BY <1>2 DEF Unlock, ServerInv, AllMachines
  <2> QED BY <1>2, <2>1, <2>2, <2>3, <2>4, <2>5, Preserved DEF Unlock
<1>3. CASE Respond(c)
  <2>1. at[c] = "reply" /\ "idle" \in Points /\ "idle" \notin Inside /\ "reply" \notin Inside
    BY <1>3 DEF Respond, Points, Inside, Through
  <2>2. /\ MutexHeldInside'
        /\ at' \in [Clients -> Points] /\ holder' \in Clients \cup {NoOne}
        /\ at'[c] = "idle" /\ \A d \in Clients \ {c} : at'[d] = at[d]
    BY <1>3, <2>1, MutexStep DEF Respond
  <2>3. Shaped(NoRequest)
    BY DEF Shaped, NoRequest, Decodes
  <2>4. ServerTypes'
    BY <1>3, <2>2, <2>3 DEF Respond, ServerInv, ServerTypes
  <2>5. AtPoint(c)'
    BY <2>2 DEF AtPoint
  <2>6. AllMachines(sessions)' /\ AllMachines(before)'
    BY <1>3 DEF Respond, ServerInv, AllMachines
  <2>7. \A d \in Clients \ {c} : request'[d] = request[d]
    BY <1>3 DEF Respond, ServerInv, ServerTypes
  <2> QED BY <1>3, <2>2, <2>4, <2>5, <2>6, <2>7, Preserved DEF Respond
<1>4. CASE Write(c)
  <2>1. /\ at[c] = "write" /\ Go(c, "unlock") /\ at[c] \in Inside
        /\ "unlock" \in Inside /\ "unlock" \in Points
        /\ UNCHANGED <<sessions, holder, request, answer, left, before>>
    BY <1>4 DEF Write, Points, Inside, Through
  <2>2. /\ MutexHeldInside'
        /\ at' \in [Clients -> Points] /\ holder' \in Clients \cup {NoOne}
        /\ at'[c] = "unlock" /\ \A d \in Clients \ {c} : at'[d] = at[d]
    BY <2>1, MutexStep
  <2>3. ServerTypes'
    BY <2>1, <2>2 DEF ServerInv, ServerTypes
  <2>4. AtPoint(c)'
    BY <2>2 DEF AtPoint
  <2>5. AllMachines(sessions)' /\ AllMachines(before)'
    BY <2>1 DEF ServerInv, AllMachines
  <2> QED BY <2>1, <2>2, <2>3, <2>4, <2>5, Preserved
<1> QED BY <1>1, <1>2, <1>3, <1>4 DEF Deliver

LEMMA ReadNewInv ==
  ASSUME ServerInv, NEW c \in Clients, ReadNew(c)
  PROVE  ServerInv'
<1>1. /\ at[c] = "body" /\ at[c] \notin Inside
      /\ UNCHANGED <<sessions, holder, request, left, before>>
  BY DEF ReadNew, Inside, Through
<1>2. PICK p \in {"reply", "lock"} :
        /\ Go(c, p) /\ DOMAIN answer' = Clients
        /\ p = "lock" => Accepted(request[c], Refused)
  BY DEF ReadNew, Conclude, ServerInv, ServerTypes
<1>3. p \in Points /\ p \notin Inside
  BY DEF Points, Inside, Through
<1>4. /\ MutexHeldInside'
      /\ at' \in [Clients -> Points] /\ holder' \in Clients \cup {NoOne}
      /\ at'[c] = p /\ \A d \in Clients \ {c} : at'[d] = at[d]
  BY <1>1, <1>2, <1>3, MutexStep
<1>5. ServerTypes'
  BY <1>1, <1>2, <1>4 DEF ServerInv, ServerTypes
<1>6. AtPoint(c)'
  BY <1>1, <1>2, <1>4 DEF AtPoint, Accepted, Decodes, Value
<1>7. AllMachines(sessions)' /\ AllMachines(before)'
  BY <1>1 DEF ServerInv, AllMachines
<1> QED BY <1>1, <1>4, <1>5, <1>6, <1>7, Preserved

\* A step within the mutex, from what it does to the table and to c.
LEMMA InsideInv ==
  ASSUME ServerInv, NEW c \in Clients, at[c] \in Inside,
         NEW p \in Inside, Go(c, p),
         UNCHANGED <<holder, request, before>>,
         DOMAIN answer' = Clients, left' \in Int,
         sessions' = [id \in DOMAIN sessions' |-> sessions'[id]],
         AllMachines(sessions)',
         at'[c] = p => AtPoint(c)'
  PROVE  ServerInv'
<1>1. p \in Points
  BY DEF Points
<1>2. /\ MutexHeldInside'
      /\ at' \in [Clients -> Points] /\ holder' \in Clients \cup {NoOne}
      /\ at'[c] = p /\ \A d \in Clients \ {c} : at'[d] = at[d]
  BY <1>1, MutexStep
<1>3. ServerTypes'
  BY <1>2 DEF ServerInv, ServerTypes
<1>4. AllMachines(before)'
  BY DEF ServerInv, AllMachines
<1>5. \A d \in Clients \ {c} : at[d] \notin Inside
  BY Alone
<1> QED BY <1>2, <1>3, <1>4, <1>5, Preserved

\* Of a handler that is through there is no more to say.
LEMMA FinishInv ==
  ASSUME ServerInv, NEW c \in Clients, at[c] \in Inside,
         NEW reply, Finish(c, reply) \/ Leave(c, reply),
         UNCHANGED <<holder, request, before>>, left' \in Int,
         sessions' = [id \in DOMAIN sessions' |-> sessions'[id]],
         AllMachines(sessions)'
  PROVE  ServerInv'
<1>1. PICK p \in Through : Conclude(c, p, reply)
  BY DEF Finish, Leave, Through
<1>2. Go(c, p) /\ DOMAIN answer' = Clients /\ p \in Inside
  BY <1>1 DEF Conclude, ServerInv, ServerTypes, Inside, Through
<1>3. at'[c] = p => AtPoint(c)'
  BY DEF AtPoint, Through
<1> QED BY <1>2, <1>3, InsideInv

\* Putting a machine back.
LEMMA PutTable ==
  ASSUME ServerInv, NEW c \in Clients, NEW m \in Machine, Put(c, m)
  PROVE  /\ sessions' = [id \in DOMAIN sessions' |-> sessions'[id]]
         /\ DOMAIN sessions' = DOMAIN sessions
         /\ AllMachines(sessions)'
         /\ request[c].id \in DOMAIN sessions => sessions'[request[c].id] = m
BY DEF Put, ServerInv, ServerTypes, AllMachines

LEMMA SameTable ==
  ASSUME ServerInv, UNCHANGED sessions
  PROVE  /\ sessions' = [id \in DOMAIN sessions' |-> sessions'[id]]
         /\ AllMachines(sessions)'
BY DEF ServerInv, ServerTypes, AllMachines

LEMMA LookupInv ==
  ASSUME ServerInv, NEW c \in Clients,
         CreateSession(c) \/ NotFound(c) \/ GetSession(c)
  PROVE  ServerInv'
<1>1. at[c] = "lookup" /\ at[c] \in Inside /\ UNCHANGED <<holder, request, left, before>>
  BY DEF CreateSession, NotFound, GetSession, Inside, Through
<1>2. left' \in Int
  BY <1>1 DEF ServerInv, ServerTypes
<1>3. CASE CreateSession(c)
  <2> DEFINE id == generateId(sessions)
  <2>1. PICK m \in CreateVm(Value(request[c])) :
          sessions' = [i \in DOMAIN sessions \cup {id} |-> IF i = id THEN m ELSE sessions[i]]
    BY <1>3 DEF CreateSession
  <2>2. Leave(c, [status |-> "ok", id |-> id])
    BY <1>3 DEF CreateSession
  <2>3. Accepted(request[c], Refused) /\ request[c].op = "new"
    BY <1>1, <1>3 DEF CreateSession, ServerInv, AtPoint
  <2>4. Value(request[c]) \in Configs
    BY <2>3 DEF ServerInv, ServerTypes, Shaped
  <2>5. m \in Machine
    BY <2>1, <2>4, CreatedMachine
  <2> HIDE DEF id
  <2>6. sessions' = [i \in DOMAIN sessions' |-> sessions'[i]] /\ AllMachines(sessions)'
    BY <2>1, <2>5 DEF AllMachines, ServerInv
  <2> QED BY <1>1, <1>2, <2>2, <2>6, FinishInv
<1>4. CASE NotFound(c)
  BY <1>1, <1>2, <1>4, SameTable, FinishInv DEF NotFound
<1>5. CASE GetSession(c)
  BY <1>1, <1>2, <1>5, SameTable, FinishInv DEF GetSession
<1> QED BY <1>3, <1>4, <1>5

LEMMA EnterInv ==
  ASSUME ServerInv, NEW c \in Clients, EnterHandler(c)
  PROVE  ServerInv'
<1>1. /\ at[c] = "lookup" /\ at[c] \in Inside /\ request[c].id \in DOMAIN sessions
      /\ UNCHANGED <<sessions, holder, request, before>> /\ sessions = before
  BY DEF EnterHandler, Found, Inside, Through, ServerInv, AtPoint
<1>2. /\ left \in Int /\ DOMAIN answer = Clients
      /\ Shaped(request[c])
      /\ sessions = [id \in DOMAIN sessions |-> sessions[id]]
  BY DEF ServerInv, ServerTypes
<1>3. CASE /\ request[c].op \in {"load_program", "update_config"} /\ Go(c, "read")
           /\ UNCHANGED <<answer, left>>
  <2>1. at'[c] = "read" => AtPoint(c)'
    BY <1>1, <1>3 DEF AtPoint
  <2>2. "read" \in Inside
    BY DEF Inside, Through
  <2> QED BY <1>1, <1>2, <1>3, <2>1, <2>2, SameTable, InsideInv
<1>4. CASE /\ request[c].op = "step" /\ Decodes(request[c])
           /\ Go(c, "loop") /\ left' = Value(request[c]) /\ UNCHANGED answer
  <2> DEFINE req == request[c]
  <2>1. left' \in Int
    BY <1>2, <1>4 DEF Shaped
  <2>2. sessions = [before EXCEPT ![req.id] = sessions[req.id]]
    BY <1>1, <1>2
  <2>3. SameStep(before[req.id], Value(req), sessions[req.id], left)'
    BY <1>1, <1>4 DEF SameStep, Value
  <2>4. at'[c] = "loop" => AtPoint(c)'
    BY <1>1, <1>4, <2>2, <2>3 DEF AtPoint, Decodes
  <2>5. "loop" \in Inside
    BY DEF Inside, Through
  <2> QED BY <1>1, <1>2, <1>4, <2>1, <2>4, <2>5, SameTable, InsideInv
<1>5. CASE /\ request[c].op = "step" /\ ~Decodes(request[c])
           /\ Finish(c, Say("bad_request")) /\ UNCHANGED left
  BY <1>1, <1>2, <1>5, SameTable, FinishInv
<1> QED BY <1>3, <1>4, <1>5 DEF EnterHandler

LEMMA ReadInv ==
  ASSUME ServerInv, NEW c \in Clients, ReadLoad(c) \/ ReadUpdate(c)
  PROVE  ServerInv'
<1> DEFINE req == request[c]
           m == sessions[req.id]
<1>1. /\ at[c] = "read" /\ at[c] \in Inside
      /\ UNCHANGED <<holder, request, left, before>>
      /\ req.id \in DOMAIN before /\ sessions = before
      /\ left \in Int /\ DOMAIN answer = Clients /\ Shaped(req) /\ m \in Machine
  BY DEF ReadLoad, ReadUpdate, Inside, Through, ServerInv, ServerTypes, AtPoint, AllMachines
<1>2. CASE /\ ReadLoad(c) /\ Decodes(req)
           /\ \E m2 \in Reset(Session(c), Session(c).config) : Put(c, m2)
           /\ Go(c, "parse") /\ UNCHANGED answer
  <2>1. PICK m2 \in Reset(m, m.config) : Put(c, m2)
    BY <1>2 DEF Session
  <2>2. m2 \in Machine
    <3>1. m.config \in Configs
      BY <1>1 DEF Machine
    <3> QED BY <1>1, <2>1, <3>1, ResetMachine
  <2>3. at'[c] = "parse" => AtPoint(c)'
    <3>1. sessions' = [before EXCEPT ![req.id] = m2]
      BY <1>1, <2>1 DEF Put
    <3>2. sessions'[req.id] = m2 /\ sessions' = [before EXCEPT ![req.id] = sessions'[req.id]]
      BY <1>1, <3>1
    <3>3. m2 \in Reset(before[req.id], before[req.id].config)
      BY <1>1, <2>1
    <3>4. m2 \in Reset(before[req.id], before[req.id].config)'
      BY <1>1, <3>3 DEF Reset, Begun
    <3>5. req.op = "load_program" /\ Decodes(req)
      BY <1>2 DEF ReadLoad
    <3> QED BY <1>1, <3>2, <3>4, <3>5 DEF AtPoint, Decodes
  <2>4. "parse" \in Inside
    BY DEF Inside, Through
  <2> QED BY <1>1, <1>2, <2>1, <2>2, <2>3, <2>4, PutTable, InsideInv
<1>3. CASE Finish(c, Say("bad_request")) /\ UNCHANGED sessions
  BY <1>1, <1>3, SameTable, FinishInv
<1>4. CASE /\ ReadUpdate(c) /\ Accepted(req, Refused)
           /\ \E m2 \in Reset(Session(c), Value(req)) : Put(c, m2)
           /\ Finish(c, Say("ok"))
  <2>1. PICK m2 \in Reset(m, Value(req)) : Put(c, m2)
    BY <1>4 DEF Session
  <2>2. m2 \in Machine
    <3>1. Value(req) \in Configs
      BY <1>1, <1>4 DEF Shaped, ReadUpdate
    <3> QED BY <1>1, <2>1, <3>1, ResetMachine
  <2> QED BY <1>1, <1>4, <2>1, <2>2, PutTable, FinishInv
<1> QED BY <1>2, <1>3, <1>4 DEF ReadLoad, ReadUpdate

LEMMA ParseInv ==
  ASSUME ServerInv, NEW c \in Clients, ParseProgram(c)
  PROVE  ServerInv'
<1> DEFINE req == request[c]
           m == sessions[req.id]
<1>1. /\ at[c] = "parse" /\ at[c] \in Inside
      /\ UNCHANGED <<holder, request, left, before>>
      /\ req.id \in DOMAIN sessions
      /\ left \in Int /\ m \in Machine
  BY DEF ParseProgram, Inside, Through, ServerInv, ServerTypes, AtPoint, AllMachines
<1>2. CASE /\ Finish(c, Say("bad_request")) \/ Leave(c, Say("aborted"))
           /\ UNCHANGED sessions
  BY <1>1, <1>2, SameTable, FinishInv
<1>3. CASE /\ Value(req) \in Programs
           /\ \E m2 \in SetProgram(Session(c), Value(req)) : Put(c, m2)
           /\ Finish(c, Say("ok"))
  <2>1. PICK m2 \in SetProgram(m, Value(req)) : Put(c, m2)
    BY <1>3 DEF Session
  <2>2. m2 \in Machine
    BY <1>1, <1>3, <2>1, ResetMachine
  <2> QED BY <1>1, <1>3, <2>1, <2>2, PutTable, FinishInv
<1> QED BY <1>2, <1>3 DEF ParseProgram

\* In the loop.
LEMMA LoopFacts ==
  ASSUME ServerInv, NEW c \in Clients, at[c] = "loop"
  PROVE  /\ at[c] \in Inside
         /\ request[c].op = "step" /\ Decodes(request[c])
         /\ request[c].id \in DOMAIN sessions /\ request[c].id \in DOMAIN before
         /\ Session(c) \in Machine /\ left \in Int /\ Value(request[c]) \in Int
         /\ sessions = [before EXCEPT ![request[c].id] = Session(c)]
         /\ SameStep(before[request[c].id], Value(request[c]), Session(c), left)
<1>1. /\ request[c].op = "step" /\ Decodes(request[c]) /\ Shaped(request[c])
      /\ request[c].id \in DOMAIN before /\ left \in Int
      /\ sessions = [before EXCEPT ![request[c].id] = Session(c)]
      /\ SameStep(before[request[c].id], Value(request[c]), Session(c), left)
  BY DEF ServerInv, ServerTypes, AtPoint, Session
<1>2. request[c].id \in DOMAIN sessions
  BY <1>1
<1>3. Session(c) \in Machine
  BY <1>2 DEF ServerInv, AllMachines, Session
<1> QED BY <1>1, <1>2, <1>3 DEF Inside, Through, Shaped

LEMMA StepInv ==
  ASSUME ServerInv, NEW c \in Clients,
         StepCycle(c) \/ StepPanic(c) \/ StepDone(c)
  PROVE  ServerInv'
<1>1. CASE StepCycle(c)
  <2> DEFINE id == request[c].id
             n  == Value(request[c])
             m  == Session(c)
             m2 == ExecuteCycle(m)
             i2 == IF left > 0 THEN left - 1 ELSE left
  <2>1. /\ at[c] = "loop" /\ GoesOn(m, left) /\ ~Panics(m)
        /\ Put(c, m2) /\ left' = i2
        /\ UNCHANGED <<holder, at, request, answer, before>>
    BY <1>1 DEF StepCycle
  <2>2. /\ at[c] \in Inside
        /\ request[c].op = "step" /\ Decodes(request[c])
        /\ id \in DOMAIN sessions /\ id \in DOMAIN before
        /\ m \in Machine /\ left \in Int
        /\ sessions = [before EXCEPT ![id] = m]
        /\ SameStep(before[id], n, m, left)
    BY <2>1, LoopFacts
  <2>3. m2 \in Machine /\ i2 \in Int /\ SameStep(m, left, m2, i2)
    BY <2>1, <2>2, OneCycle
  <2>4. SameStep(before[id], n, m2, i2)
    BY <2>2, <2>3 DEF SameStep
  <2> HIDE DEF m2, i2
  <2>5. /\ sessions' = [k \in DOMAIN sessions' |-> sessions'[k]]
        /\ AllMachines(sessions)' /\ sessions'[id] = m2
    BY <2>1, <2>2, <2>3, PutTable
  <2>6. sessions' = [before EXCEPT ![id] = m2]
    BY <2>1, <2>2 DEF Put
  <2>7. SameStep(before[id], n, sessions[id], left)'
    BY <2>1, <2>4, <2>5 DEF SameStep, Value
  <2>8. AtPoint(c)'
    BY <2>1, <2>2, <2>5, <2>6, <2>7 DEF AtPoint, Decodes
  <2>9. Go(c, "loop") /\ "loop" \in Inside /\ DOMAIN answer' = Clients
    BY <2>1 DEF Go, ServerInv, ServerTypes, Inside, Through
  <2> QED BY <2>1, <2>2, <2>3, <2>5, <2>8, <2>9, InsideInv
<1>2. CASE StepPanic(c)
  <2>1. /\ at[c] = "loop" /\ Leave(c, Say("aborted"))
        /\ UNCHANGED <<holder, request, left, before>>
    BY <1>2 DEF StepPanic, Panicking
  <2>2. PICK m \in Panicked(Session(c)) : Put(c, m)
    BY <1>2 DEF StepPanic
  <2>3. at[c] \in Inside /\ left \in Int /\ m \in Machine
    BY <2>1, <2>2, LoopFacts, ResetMachine
  <2> QED BY <2>1, <2>2, <2>3, PutTable, FinishInv
<1>3. CASE StepDone(c)
  <2>1. /\ at[c] = "loop" /\ \E reply : Finish(c, reply)
        /\ UNCHANGED <<sessions, holder, request, before>> /\ left' = 0
    BY <1>3 DEF StepDone
  <2>2. at[c] \in Inside
    BY <2>1, LoopFacts
  <2> QED BY <2>1, <2>2, SameTable, FinishInv
<1> QED BY <1>1, <1>2, <1>3

LEMMA NextInv ==
  ASSUME ServerInv, [ServerNext]_serverVars
  PROVE  ServerInv'
<1>1. CASE UNCHANGED serverVars
  <2>1. ServerTypes' /\ MutexHeldInside' /\ AllMachines(sessions)' /\ AllMachines(before)'
    BY <1>1 DEF serverVars, ServerInv, ServerTypes, MutexHeldInside, AllMachines
  <2>2. \A d \in Clients : AtPoint(d)'
    BY <1>1, OthersStay DEF serverVars
  <2> QED BY <2>1, <2>2 DEF ServerInv
<1>2. ASSUME NEW c \in Clients,
             Send(c) \/ Receive(c) \/ Lock(c) \/ Handle(c) \/ Deliver(c)
      PROVE  ServerInv'
  BY <1>2, SendInv, MutexInv, ReadNewInv, LookupInv, EnterInv, ReadInv, ParseInv, StepInv
  DEF Receive, Handle, Deliver
<1> QED BY <1>1, <1>2 DEF ServerNext

LEMMA InvTheorem == ServerSpec => []ServerInv
<1>1. ServerInit => ServerInv
  BY InitInv
<1>2. ServerInv /\ [ServerNext]_serverVars => ServerInv'
  BY NextInv
<1> QED BY <1>1, <1>2, PTL DEF ServerSpec

\* Whatever the clients ask for, and however a request ends: a handler is
\* between Lock and Unlock exactly as long as it holds mu.
THEOREM MutexTheorem == ServerSpec => []MutexHeldInside
<1>1. ServerInv => MutexHeldInside
  BY DEF ServerInv
<1> QED BY <1>1, InvTheorem, PTL

----------------------------------------------------------------------------
(* The table has room for every session that is being created.             *)

\* The clients that have a session coming: their request will be accepted,
\* and has not yet been.
Awaiting == {c \in Creating : at[c] \in {"body", "lock", "lookup"}}

Room == /\ IsFiniteSet(Creating)
        /\ Cardinality(DOMAIN sessions) + Cardinality(Awaiting) <= MaxSessions

CountedTable(t) == \E k \in 0 .. MaxSessions : DOMAIN t = 1 .. k

TableInv ==
  /\ CountedTable(sessions) /\ Table(before)
  /\ \A c \in Clients : request[c] \in Requests(Ids \cup {NoSession})
  /\ answer \in [Clients -> Answers]
  /\ Room

\* A table that is counted and holds machines is a table.
LEMMA TableOfMachines ==
  ASSUME ServerInv, CountedTable(sessions)
  PROVE  Table(sessions)
<1>1. PICK k \in 0 .. MaxSessions : DOMAIN sessions = 1 .. k
  BY DEF CountedTable
<1>2. sessions = [id \in 1 .. k |-> sessions[id]]
  BY <1>1 DEF ServerInv, ServerTypes
<1>3. \A id \in 1 .. k : sessions[id] \in Machine
  BY <1>1 DEF ServerInv, AllMachines
<1> QED BY <1>2, <1>3 DEF Table

LEMMA EmptyTable == Table(<< >>) /\ CountedTable(<< >>)
<1>1. << >> \in [1 .. 0 -> Machine] /\ DOMAIN << >> = 1 .. 0
  OBVIOUS
<1>2. 0 \in 0 .. MaxSessions
  BY TableAssumption
<1> QED BY <1>1, <1>2 DEF Table, CountedTable

LEMMA CountedSize ==
  ASSUME NEW t, NEW k \in Nat, DOMAIN t = 1 .. k
  PROVE  IsFiniteSet(DOMAIN t) /\ Cardinality(DOMAIN t) = k
BY FS_Interval

\* Where no session is begun and none is added, there is room as before.
LEMMA RoomStays ==
  ASSUME Room, CountedTable(sessions), NEW c \in Clients,
         DOMAIN sessions' = DOMAIN sessions,
         \A d \in Clients \ {c} : at'[d] = at[d] /\ request'[d] = request[d],
         request'[c] \in {request[c], NoRequest},
         at'[c] \in {"body", "lock", "lookup"} => at[c] \in {"body", "lock", "lookup"}
  PROVE  Room'
<1>1. Creating' \subseteq Creating
  BY DEF Creating, NoRequest, Accepted, Decodes, Value
<1>2. Awaiting' \subseteq Awaiting
  <2>1. Creating' \subseteq Clients
    BY DEF Creating
  <2> QED BY <1>1, <2>1 DEF Awaiting
<1>3. IsFiniteSet(Awaiting)
  BY FS_Subset DEF Room, Awaiting
<1>4. /\ IsFiniteSet(Creating') /\ Cardinality(Awaiting') <= Cardinality(Awaiting)
      /\ Cardinality(Awaiting') \in Nat /\ Cardinality(Awaiting) \in Nat
  BY <1>1, <1>2, <1>3, FS_Subset, FS_CardinalityType DEF Room
<1>5. PICK k \in 0 .. MaxSessions : DOMAIN sessions = 1 .. k
  BY DEF CountedTable
<1>6. k \in Nat /\ Cardinality(DOMAIN sessions) = k /\ Cardinality(DOMAIN sessions)' = k
  BY <1>5, CountedSize
<1>7. k + Cardinality(Awaiting) <= MaxSessions
  BY <1>6 DEF Room
<1>8. k + Cardinality(Awaiting') <= MaxSessions
  BY <1>4, <1>6, <1>7, TableAssumption
<1> QED BY <1>4, <1>6, <1>8 DEF Room

\* A new session is asked for only while there is room for it.
LEMMA RoomSend ==
  ASSUME ServerInv, TableInv, NEW c \in Clients, Send(c)
  PROVE  Room' /\ \A d \in Clients : request'[d] \in Requests(Ids \cup {NoSession})
<1>1. PICK req \in Requests(DOMAIN sessions \cup {NoSession}) :
        /\ Full => req.op # "new" \/ ~Accepted(req, Refused)
        /\ request' = [request EXCEPT ![c] = req]
  BY DEF Send
<1>2. /\ UNCHANGED sessions /\ at[c] = "idle"
      /\ \A d \in Clients \ {c} : at'[d] = at[d]
  BY DEF Send, Go, ServerInv, ServerTypes
<1>3. /\ request'[c] = req /\ \A d \in Clients \ {c} : request'[d] = request[d]
  BY <1>1 DEF ServerInv, ServerTypes
<1>4. PICK k \in 0 .. MaxSessions : DOMAIN sessions = 1 .. k
  BY DEF TableInv, CountedTable
<1>5. /\ k \in Nat /\ Cardinality(DOMAIN sessions) = k
      /\ IsFiniteSet(Creating) /\ IsFiniteSet(Awaiting)
      /\ Cardinality(Creating) \in Nat /\ Cardinality(Awaiting) \in Nat
      /\ k + Cardinality(Awaiting) <= MaxSessions
  BY <1>4, CountedSize, FS_Subset, FS_CardinalityType DEF TableInv, Room, Awaiting
<1>7. \A d \in Clients : request'[d] \in Requests(Ids \cup {NoSession})
  <2>1. DOMAIN sessions \subseteq Ids
    BY <1>4, TableAssumption DEF Ids
  <2>2. req \in Requests(Ids \cup {NoSession})
    BY <2>1 DEF Requests, NewRequests, GetRequests, LoadRequests, UpdateRequests, StepRequests
  <2> QED BY <2>2, <1>3 DEF TableInv
<1>6. CASE req.op # "new" \/ ~Accepted(req, Refused)
  <2>1. Creating' \subseteq Creating /\ Awaiting' \subseteq Awaiting
    BY <1>2, <1>3, <1>6 DEF Creating, Awaiting, Accepted, Decodes, Value
  <2>2. /\ IsFiniteSet(Creating') /\ Cardinality(Awaiting') <= Cardinality(Awaiting)
        /\ Cardinality(Awaiting') \in Nat
    BY <2>1, <1>5, FS_Subset, FS_CardinalityType
  <2>3. k + Cardinality(Awaiting') <= MaxSessions
    BY <2>2, <1>5, TableAssumption
  <2> QED BY <2>2, <2>3, <1>2, <1>5, <1>7 DEF Room
<1>8. CASE ~Full
  <2>1. Awaiting' \subseteq Creating \cup {c} /\ Creating' \subseteq Creating \cup {c}
    BY <1>2, <1>3 DEF Creating, Awaiting, Accepted, Decodes, Value
  <2>2. /\ IsFiniteSet(Creating \cup {c})
        /\ Cardinality(Creating \cup {c}) <= Cardinality(Creating) + 1
        /\ Cardinality(Creating \cup {c}) \in Nat
    <3>1. /\ IsFiniteSet(Creating \cup {c})
          /\ Cardinality(Creating \cup {c}) \in {Cardinality(Creating), Cardinality(Creating) + 1}
      BY <1>5, FS_AddElement
    <3> QED BY <3>1, <1>5
  <2>3. /\ IsFiniteSet(Creating') /\ IsFiniteSet(Awaiting')
        /\ Cardinality(Awaiting') <= Cardinality(Creating \cup {c})
        /\ Cardinality(Awaiting') \in Nat
    BY <2>1, <2>2, FS_Subset, FS_CardinalityType
  <2>4. k + Cardinality(Creating) < MaxSessions
    BY <1>5, <1>8, TableAssumption DEF Full
  <2>5. k + Cardinality(Awaiting') <= MaxSessions
    BY <2>2, <2>3, <2>4, <1>5, TableAssumption
  <2> QED BY <2>3, <2>5, <1>2, <1>5, <1>7 DEF Room
<1> QED BY <1>1, <1>6, <1>7, <1>8

\* The id of a new session is the next one, and the table has it.
LEMMA RoomCreate ==
  ASSUME ServerInv, TableInv, NEW c \in Clients, CreateSession(c)
  PROVE  /\ Room' /\ CountedTable(sessions)'
         /\ answer' \in [Clients -> Answers]
<1>1. /\ at[c] = "lookup" /\ request[c].op = "new" /\ Accepted(request[c], Refused)
      /\ UNCHANGED request
  BY DEF CreateSession, ServerInv, AtPoint
<1>2. c \in Awaiting
  BY <1>1 DEF Awaiting, Creating
<1>3. PICK k \in 0 .. MaxSessions : DOMAIN sessions = 1 .. k
  BY DEF TableInv, CountedTable
<1>4. /\ k \in Nat /\ Cardinality(DOMAIN sessions) = k
      /\ IsFiniteSet(Creating) /\ IsFiniteSet(Awaiting)
      /\ Cardinality(Awaiting) \in Nat
      /\ k + Cardinality(Awaiting) <= MaxSessions
  BY <1>3, CountedSize, FS_Subset, FS_CardinalityType DEF TableInv, Room, Awaiting
<1>5. /\ IsFiniteSet(Awaiting \ {c})
      /\ Cardinality(Awaiting \ {c}) = Cardinality(Awaiting) - 1
      /\ Cardinality(Awaiting \ {c}) \in Nat
  BY <1>2, <1>4, FS_RemoveElement, FS_CardinalityType
<1>6. k + 1 \in Ids
  BY <1>4, <1>5, TableAssumption DEF Ids
<1>7. generateId(sessions) = k + 1
  <2>1. DOMAIN sessions = 1 .. (k + 1) - 1
    BY <1>3
  <2>2. \A id \in Ids : DOMAIN sessions = 1 .. id - 1 => id = k + 1
    <3> SUFFICES ASSUME NEW id \in Ids, 1 .. k = 1 .. id - 1 PROVE id = k + 1
      BY <1>3
    <3>1. id \in Nat \ {0} /\ id - 1 \in Nat
      BY TableAssumption DEF Ids
    <3>2. \A n \in Nat : Cardinality(1 .. n) = n
      BY FS_Interval
    <3>3. Cardinality(1 .. k) = k /\ Cardinality(1 .. id - 1) = id - 1
      BY <3>1, <3>2, <1>4
    <3> QED BY <3>1, <3>3, <1>4
  <2> QED BY <2>1, <2>2, <1>6 DEF generateId
<1>8. DOMAIN sessions' = 1 .. k + 1
  <2>1. DOMAIN sessions' = DOMAIN sessions \cup {k + 1}
    BY <1>7 DEF CreateSession
  <2> QED BY <2>1, <1>3, <1>4
<1>9. /\ at'[c] = "unlock" /\ \A d \in Clients \ {c} : at'[d] = at[d]
      /\ answer' = [answer EXCEPT ![c] = [status |-> "ok", id |-> k + 1]]
  BY <1>7 DEF CreateSession, Leave, Conclude, Go, ServerInv, ServerTypes
<1>10. CountedTable(sessions)'
  BY <1>6, <1>8, TableAssumption DEF CountedTable, Ids
<1>11. answer' \in [Clients -> Answers]
  BY <1>6, <1>9 DEF TableInv, Answers, Statuses
<1>12. Room'
  <2>1. Creating' = Creating /\ Awaiting' \subseteq Awaiting \ {c}
    BY <1>1, <1>9 DEF Creating, Awaiting, Accepted, Decodes, Value
  <2>2. /\ Cardinality(Awaiting') <= Cardinality(Awaiting \ {c})
        /\ Cardinality(Awaiting') \in Nat
    BY <2>1, <1>5, FS_Subset, FS_CardinalityType
  <2>3. Cardinality(DOMAIN sessions') = k + 1
    BY <1>4, <1>8, CountedSize
  <2> QED BY <2>1, <2>2, <2>3, <1>4, <1>5, TableAssumption DEF Room
<1> QED BY <1>10, <1>11, <1>12

\* What the other steps of a client leave alone.
OtherStep(c) == \/ Receive(c) \/ Lock(c) \/ Unlock(c) \/ Deliver(c)
                \/ NotFound(c) \/ GetSession(c) \/ EnterHandler(c)
                \/ ParseProgram(c) \/ StepCycle(c) \/ StepPanic(c) \/ StepDone(c)

LEMMA OtherKeeps ==
  ASSUME ServerInv, TableInv, NEW c \in Clients, OtherStep(c)
  PROVE  /\ DOMAIN sessions' = DOMAIN sessions
         /\ before' \in {before, sessions, << >>}
         /\ \E reply \in Answers : answer' \in {answer, [answer EXCEPT ![c] = reply]}
         /\ \A d \in Clients \ {c} : at'[d] = at[d] /\ request'[d] = request[d]
         /\ request'[c] \in {request[c], NoRequest}
         /\ at'[c] \in {"body", "lock", "lookup"} => at[c] \in {"body", "lock", "lookup"}
<1>1. \A s \in Statuses : Say(s) \in Answers
  BY DEF Say, Answers
<1>2. {"ok", "error", "bad_request", "not_found", "aborted"} \subseteq Statuses
  BY DEF Statuses
<1>3. DOMAIN at = Clients /\ DOMAIN request = Clients
  BY DEF ServerInv, ServerTypes
<1>4. CASE ReadNew(c)
  BY <1>1, <1>2, <1>3, <1>4 DEF ReadNew, Conclude, Go
<1>5. CASE ReadLoad(c)
  BY <1>1, <1>2, <1>3, <1>5 DEF ReadLoad, Put, Go, Finish, Leave, Conclude
<1>6. CASE ReadUpdate(c)
  BY <1>1, <1>2, <1>3, <1>6 DEF ReadUpdate, Put, Go, Finish, Leave, Conclude
<1>7. CASE Lock(c)
  BY <1>1, <1>2, <1>3, <1>7 DEF Lock, Go
<1>8. CASE Unlock(c)
  BY <1>1, <1>2, <1>3, <1>8 DEF Unlock, Go
<1>9. CASE Deliver(c)
  BY <1>1, <1>2, <1>3, <1>9 DEF Deliver, Write, Respond, Go
<1>10. CASE NotFound(c) \/ GetSession(c)
  BY <1>1, <1>2, <1>3, <1>10 DEF NotFound, GetSession, Go, Finish, Conclude
<1>11. CASE EnterHandler(c)
  BY <1>1, <1>2, <1>3, <1>11 DEF EnterHandler, Go, Finish, Conclude
<1>12. CASE ParseProgram(c)
  BY <1>1, <1>2, <1>3, <1>12 DEF ParseProgram, Put, Go, Finish, Leave, Conclude
<1>13. CASE StepCycle(c)
  BY <1>1, <1>2, <1>3, <1>13 DEF StepCycle, Put
<1>14. CASE StepPanic(c)
  BY <1>1, <1>2, <1>3, <1>14 DEF StepPanic, Panicking, Put, Go, Leave, Conclude
<1>15. CASE StepDone(c)
  BY <1>1, <1>2, <1>3, <1>15 DEF StepDone, Go, Finish, Conclude
<1> QED BY <1>4, <1>5, <1>6, <1>7, <1>8, <1>9, <1>10, <1>11, <1>12, <1>13, <1>14, <1>15
        DEF OtherStep, Receive

LEMMA TableNext ==
  ASSUME ServerInv, TableInv, ServerInv', [ServerNext]_serverVars
  PROVE  TableInv'
<1>1. CASE UNCHANGED serverVars
  <2>1. Room'
    BY <1>1 DEF serverVars, TableInv, Room, Creating, Awaiting
  <2> QED BY <1>1, <2>1 DEF serverVars, TableInv, CountedTable, Table
<1>2. ASSUME NEW c \in Clients, Send(c) PROVE TableInv'
  <2>1. UNCHANGED <<sessions, before, answer>>
    BY <1>2 DEF Send
  <2> QED BY <1>2, <2>1, RoomSend DEF TableInv, CountedTable, Table
<1>3. ASSUME NEW c \in Clients, CreateSession(c) PROVE TableInv'
  <2>1. UNCHANGED <<before, request>>
    BY <1>3 DEF CreateSession
  <2> QED BY <1>3, <2>1, RoomCreate DEF TableInv, Table
<1>4. ASSUME NEW c \in Clients, OtherStep(c) PROVE TableInv'
  <2>1. Room'
    BY <1>4, OtherKeeps, RoomStays DEF TableInv
  <2>2. CountedTable(sessions)'
    BY <1>4, OtherKeeps DEF TableInv, CountedTable
  <2>3. Table(before)'
    <3>1. Table(before) /\ Table(sessions) /\ Table(<< >>)
      BY TableOfMachines, EmptyTable DEF TableInv
    <3>2. before' \in {before, sessions, << >>}
      BY <1>4, OtherKeeps
    <3> QED BY <3>1, <3>2 DEF Table
  <2>4. \A d \in Clients : request'[d] \in Requests(Ids \cup {NoSession})
    <3>1. NoRequest \in Requests(Ids \cup {NoSession})
      BY DEF NoRequest, Requests, GetRequests
    <3> QED BY <3>1, <1>4, OtherKeeps DEF TableInv
  <2>5. answer' \in [Clients -> Answers]
    BY <1>4, OtherKeeps DEF TableInv
  <2> QED BY <2>1, <2>2, <2>3, <2>4, <2>5 DEF TableInv
<1> QED BY <1>1, <1>2, <1>3, <1>4 DEF ServerNext, Receive, Handle, OtherStep

LEMMA TableInit == ServerInit => TableInv
<1> SUFFICES ASSUME ServerInit PROVE TableInv
  OBVIOUS
<1>1. CountedTable(sessions) /\ Table(before)
  BY EmptyTable DEF ServerInit
<1>2. NoRequest \in Requests(Ids \cup {NoSession}) /\ Say("ok") \in Answers
  BY DEF NoRequest, Requests, GetRequests, Say, Answers, Statuses
<1>3. Room
  <2>1. Creating = {} /\ Awaiting = {}
    BY DEF ServerInit, Creating, Awaiting, NoRequest
  <2>2. Cardinality(DOMAIN sessions) = 0
    <3>1. DOMAIN sessions = {}
      BY DEF ServerInit
    <3> QED BY <3>1, FS_EmptySet
  <2> QED BY <2>1, <2>2, FS_EmptySet, TableAssumption DEF Room
<1> QED BY <1>1, <1>2, <1>3 DEF ServerInit, TableInv

\* However many clients there are and whatever they ask for: the table has the
\* ids 1 to k and a machine for each, never more than it has room for, no
\* machine runs past its end, and every request and answer is well formed.
THEOREM ServerTypesCorrect == ServerSpec => []ServerTypeOK
<1>1. ServerInit => TableInv
  BY TableInit
<1>2. ServerInv /\ TableInv /\ [ServerNext]_serverVars /\ ServerInv' => TableInv'
  BY TableNext
<1>3. ServerInv /\ TableInv => ServerTypeOK
  BY TableOfMachines
  DEF ServerTypeOK, TableInv, ServerInv, ServerTypes, AllMachines
<1> QED BY <1>1, <1>2, <1>3, InvTheorem, PTL DEF ServerSpec

----------------------------------------------------------------------------
(* Every step is a step of the service, or none.                           *)

Calls == [c \in Clients |-> CallOf(c)]

\* The constant operators of the service are those of the server.
LEMMA SameOperators ==
  /\ \A req : /\ Abstract!Decodes(req) <=> Decodes(req)
              /\ Abstract!Value(req) = Value(req)
  /\ \A req, bad : Abstract!Accepted(req, bad) <=> Accepted(req, bad)
  /\ \A m : Abstract!Panicked(m) = Panicked(m)
  /\ \A m, x : /\ Abstract!Reset(m, x) = Reset(m, x)
               /\ Abstract!SetProgram(m, x) = SetProgram(m, x)
  /\ \A x : /\ Abstract!Say(x) = Say(x)
            /\ Abstract!CreateVm(x) = CreateVm(x)
            /\ Abstract!generateId(x) = generateId(x)
            /\ Abstract!Requests(x) = Requests(x)
  /\ Abstract!NoSession = NoSession
<1>1. /\ \A req : /\ Abstract!Decodes(req) <=> Decodes(req)
                  /\ Abstract!Value(req) = Value(req)
      /\ \A req, bad : Abstract!Accepted(req, bad) <=> Accepted(req, bad)
  BY DEF Abstract!Decodes, Decodes, Abstract!Value, Value, Abstract!Accepted, Accepted
<1>2. /\ \A m : Abstract!Panicked(m) = Panicked(m)
      /\ \A m, x : /\ Abstract!Reset(m, x) = Reset(m, x)
                   /\ Abstract!SetProgram(m, x) = SetProgram(m, x)
  BY DEF Abstract!Panicked, Panicked, Abstract!Reset, Reset,
         Abstract!SetProgram, SetProgram, Abstract!Begun, Begun, Abstract!Facing, Facing
<1>3. \A x : /\ Abstract!Say(x) = Say(x)
             /\ Abstract!CreateVm(x) = CreateVm(x)
             /\ Abstract!generateId(x) = generateId(x)
  BY DEF Abstract!Say, Say, Abstract!NoSession, NoSession, Abstract!CreateVm, CreateVm,
         Abstract!Begun, Begun, Abstract!Facing, Facing,
         Abstract!generateId, generateId, Abstract!Ids, Ids
<1>4. \A x : Abstract!Requests(x) = Requests(x)
  BY DEF Abstract!Requests, Requests, Abstract!NewRequests, NewRequests,
         Abstract!GetRequests, GetRequests, Abstract!LoadRequests, LoadRequests,
         Abstract!UpdateRequests, UpdateRequests, Abstract!StepRequests, StepRequests,
         Abstract!NoSession, NoSession
<1>5. Abstract!NoSession = NoSession
  BY DEF Abstract!NoSession, NoSession
<1> QED BY <1>1, <1>2, <1>3, <1>4, <1>5

\* The calls change where c does something.
LEMMA CallsUpdate ==
  ASSUME NEW c \in Clients,
         \A d \in Clients \ {c} :
           at'[d] = at[d] /\ request'[d] = request[d] /\ answer'[d] = answer[d]
  PROVE  Calls' = [Calls EXCEPT ![c] = CallOf(c)']
<1>1. \A d \in Clients \ {c} : CallOf(d)' = CallOf(d)
  BY DEF CallOf
<1> QED BY <1>1 DEF Calls

LEMMA CallsKept ==
  ASSUME NEW c \in Clients,
         \A d \in Clients \ {c} :
           at'[d] = at[d] /\ request'[d] = request[d] /\ answer'[d] = answer[d],
         CallOf(c)' = CallOf(c)
  PROVE  Calls' = Calls
BY CallsUpdate DEF Calls

\* What Go and Finish do to the handlers.
LEMMA GoEffect ==
  ASSUME ServerInv, NEW c \in Clients, NEW p, Go(c, p)
  PROVE  at'[c] = p /\ \A d \in Clients \ {c} : at'[d] = at[d]
BY DEF ServerInv, ServerTypes, Go

LEMMA FinishEffect ==
  ASSUME ServerInv, NEW c \in Clients, NEW reply, Finish(c, reply) \/ Leave(c, reply),
         request' = request
  PROVE  /\ at'[c] \in Through
         /\ Calls' = [Calls EXCEPT ![c] =
                        [state |-> "served", req |-> request[c], answer |-> reply]]
<1>1. /\ at'[c] \in Through /\ answer'[c] = reply
      /\ \A d \in Clients \ {c} : at'[d] = at[d] /\ answer'[d] = answer[d]
  BY DEF Finish, Leave, Conclude, Go, Through, ServerInv, ServerTypes
<1>2. CallOf(c)' = [state |-> "served", req |-> request[c], answer |-> reply]
  BY <1>1 DEF CallOf, Through
<1> QED BY <1>1, <1>2, CallsUpdate

\* A handler inside the mutex hides what it has done until it is through.
LEMMA CommittedInside ==
  ASSUME ServerInv, NEW c \in Clients, at[c] \in Inside \ Through
  PROVE  Committed = before /\ Calls[c] = [state |-> "calling", req |-> request[c]]
BY Alone DEF Committed, Calls, CallOf, Inside, Through

LEMMA CommittedAfter ==
  ASSUME ServerInv, NEW c \in Clients, at[c] \in Inside, holder' = holder
  PROVE  /\ at'[c] \in Through => Committed' = sessions'
         /\ at'[c] \notin Through => Committed' = before'
BY Alone DEF Committed, Through

\* The end of a handler is the answer of the service.
LEMMA FinishReplies ==
  ASSUME ServerInv, NEW c \in Clients, at[c] \in Inside \ Through,
         NEW reply, Finish(c, reply) \/ Leave(c, reply), UNCHANGED <<holder, request>>
  PROVE  /\ Abstract!Reply(c, reply) /\ Committed = before /\ Committed' = sessions'
         /\ Calls[c] = [state |-> "calling", req |-> request[c]]
<1>1. /\ at'[c] \in Through
      /\ Calls' = [Calls EXCEPT ![c] =
                     [state |-> "served", req |-> request[c], answer |-> reply]]
  BY FinishEffect
<1>2. /\ Committed = before
      /\ Calls[c] = [state |-> "calling", req |-> request[c]]
  BY CommittedInside
<1>3. Committed' = sessions'
  BY <1>1, CommittedAfter
<1>4. Abstract!Reply(c, reply) <=>
        Calls' = [Calls EXCEPT ![c] =
                    [state |-> "served", req |-> Calls[c].req, answer |-> reply]]
  BY DEF Abstract!Reply, Abstract!Served, Calls
<1> QED BY <1>1, <1>2, <1>3, <1>4

LEMMA LookupSim ==
  ASSUME ServerInv, NEW c \in Clients,
         CreateSession(c) \/ NotFound(c) \/ GetSession(c)
  PROVE  Abstract!Serve(c)
<1> DEFINE req == request[c]
<1>1. /\ at[c] = "lookup" /\ at[c] \in Inside \ Through
      /\ UNCHANGED <<holder, request>> /\ sessions = before
      /\ req.op = "new" => Accepted(req, Refused)
  BY DEF CreateSession, NotFound, GetSession, Inside, Through, ServerInv, AtPoint
<1>2. CASE CreateSession(c)
  <2> DEFINE id == generateId(sessions)
             reply == [status |-> "ok", id |-> id]
  <2>1. Leave(c, reply) /\ req.op = "new"
    BY <1>2 DEF CreateSession
  <2>2. \E m \in CreateVm(Value(req)) :
          sessions' = [i \in DOMAIN sessions \cup {id} |-> IF i = id THEN m ELSE sessions[i]]
    BY <1>2 DEF CreateSession
  <2>3. /\ Abstract!Reply(c, reply) /\ Committed = before /\ Committed' = sessions'
        /\ Calls[c] = [state |-> "calling", req |-> req]
    BY <1>1, <2>1, FinishReplies
  <2>4. Abstract!ServeNew(c, req)
    BY <1>1, <2>1, <2>2, <2>3, SameOperators DEF Abstract!ServeNew
  <2> QED BY <2>1, <2>3, <2>4 DEF Abstract!Serve, Calls
<1>3. CASE NotFound(c)
  <2>1. Finish(c, Say("not_found")) /\ req.op # "new" /\ req.id \notin DOMAIN sessions
        /\ UNCHANGED sessions
    BY <1>3 DEF NotFound, Found
  <2>2. /\ Abstract!Reply(c, Say("not_found")) /\ Committed = before
        /\ Committed' = sessions' /\ Calls[c] = [state |-> "calling", req |-> req]
    BY <1>1, <2>1, FinishReplies
  <2> QED BY <1>1, <2>1, <2>2, SameOperators DEF Abstract!Serve, Abstract!Knows, Calls
<1>4. CASE GetSession(c)
  <2>1. Finish(c, Say("ok")) /\ req.op = "get" /\ req.id \in DOMAIN sessions
        /\ UNCHANGED sessions
    BY <1>4 DEF GetSession, Found
  <2>2. /\ Abstract!Reply(c, Say("ok")) /\ Committed = before
        /\ Committed' = sessions' /\ Calls[c] = [state |-> "calling", req |-> req]
    BY <1>1, <2>1, FinishReplies
  <2> QED BY <1>1, <2>1, <2>2, SameOperators DEF Abstract!Serve, Abstract!Knows, Calls
<1> QED BY <1>2, <1>3, <1>4

LEMMA ReadSim ==
  ASSUME ServerInv, NEW c \in Clients, ReadUpdate(c)
  PROVE  Abstract!Serve(c)
<1> DEFINE req == request[c]
<1>1. /\ at[c] = "read" /\ at[c] \in Inside \ Through
      /\ req.op = "update_config"
      /\ UNCHANGED <<holder, request>> /\ sessions = before
      /\ req.id \in DOMAIN before
  BY DEF ReadUpdate, Inside, Through, ServerInv, AtPoint
<1>2. CASE ~Accepted(req, Refused) /\ Finish(c, Say("bad_request")) /\ UNCHANGED sessions
  <2>1. /\ Abstract!Reply(c, Say("bad_request")) /\ Committed = before
        /\ Committed' = sessions' /\ Calls[c] = [state |-> "calling", req |-> req]
    BY <1>1, <1>2, FinishReplies
  <2>2. Abstract!ServeUpdate(c, req)
    BY <1>1, <1>2, <2>1, SameOperators DEF Abstract!ServeUpdate
  <2> QED BY <1>1, <2>1, <2>2 DEF Abstract!Serve, Abstract!Knows, Calls
<1>3. CASE /\ Accepted(req, Refused)
           /\ \E m \in Reset(Session(c), Value(req)) : Put(c, m)
           /\ Finish(c, Say("ok"))
  <2>1. /\ Abstract!Reply(c, Say("ok")) /\ Committed = before
        /\ Committed' = sessions' /\ Calls[c] = [state |-> "calling", req |-> req]
    BY <1>1, <1>3, FinishReplies
  <2>2. \E m \in Reset(Committed[req.id], Value(req)) :
          Committed' = [Committed EXCEPT ![req.id] = m]
    BY <1>1, <1>3, <2>1 DEF Put, Session
  <2>3. Abstract!ServeUpdate(c, req)
    BY <1>3, <2>1, <2>2, SameOperators DEF Abstract!ServeUpdate, Abstract!Store
  <2> QED BY <1>1, <2>1, <2>3 DEF Abstract!Serve, Abstract!Knows, Calls
<1> QED BY <1>2, <1>3 DEF ReadUpdate

LEMMA ParseSim ==
  ASSUME ServerInv, NEW c \in Clients, ParseProgram(c)
  PROVE  Abstract!Serve(c)
<1> DEFINE req == request[c]
           m   == before[req.id]
           m2  == sessions[req.id]
<1>1. /\ at[c] = "parse" /\ at[c] \in Inside \ Through
      /\ req.op = "load_program" /\ Decodes(req)
      /\ UNCHANGED <<holder, request>>
      /\ req.id \in DOMAIN before
      /\ sessions = [before EXCEPT ![req.id] = m2]
      /\ m2 \in Reset(m, m.config)
  BY DEF ParseProgram, Inside, Through, ServerInv, AtPoint
<1> HIDE DEF m2
<1>2. ASSUME NEW reply, NEW m3, Finish(c, reply) \/ Leave(c, reply),
             sessions' = [before EXCEPT ![req.id] = m3],
             \/ Value(req) = Unparsable /\ m3 = m2 /\ reply = Say("bad_request")
             \/ Value(req) = Crashing /\ m3 = m2 /\ reply = Say("aborted")
             \/ /\ Value(req) \in Programs /\ m3 \in SetProgram(m2, Value(req))
                /\ reply = Say("ok")
      PROVE  Abstract!Serve(c)
  <2>1. /\ Abstract!Reply(c, reply) /\ Committed = before
        /\ Committed' = sessions' /\ Calls[c] = [state |-> "calling", req |-> req]
    BY <1>1, <1>2, FinishReplies
  <2>2. Committed' = [Committed EXCEPT ![req.id] = m3]
    BY <1>2, <2>1
  <2>3. m2 \in Abstract!Reset(Committed[req.id], Committed[req.id].config)
    BY <1>1, <2>1, SameOperators
  <2>4. Abstract!ServeLoad(c, req)
    BY <1>1, <1>2, <2>1, <2>2, <2>3, SameOperators DEF Abstract!ServeLoad, Abstract!Store
  <2> QED BY <1>1, <2>1, <2>4 DEF Abstract!Serve, Abstract!Knows, Calls
<1>3. CASE Value(req) = Unparsable /\ Finish(c, Say("bad_request")) /\ UNCHANGED sessions
  BY <1>1, <1>2, <1>3
<1>4. CASE Value(req) = Crashing /\ Leave(c, Say("aborted")) /\ UNCHANGED sessions
  BY <1>1, <1>2, <1>4
<1>5. CASE /\ Value(req) \in Programs
           /\ \E m3 \in SetProgram(Session(c), Value(req)) : Put(c, m3)
           /\ Finish(c, Say("ok"))
  <2>1. PICK m3 \in SetProgram(m2, Value(req)) : Put(c, m3)
    BY <1>5 DEF Session, m2
  <2>2. sessions' = [before EXCEPT ![req.id] = m3]
    BY <1>1, <2>1 DEF Put
  <2> QED BY <1>2, <1>5, <2>1, <2>2
<1> QED BY <1>3, <1>4, <1>5 DEF ParseProgram

LEMMA StepSim ==
  ASSUME ServerInv, NEW c \in Clients, StepPanic(c) \/ StepDone(c)
  PROVE  Abstract!Serve(c)
<1> DEFINE req == request[c]
           n   == Value(req)
           m   == before[req.id]
<1>1. /\ at[c] = "loop" /\ at[c] \in Inside \ Through
      /\ req.op = "step" /\ Decodes(req) /\ req.id \in DOMAIN before
      /\ Session(c) \in Machine /\ left \in Int
      /\ sessions = [before EXCEPT ![req.id] = Session(c)]
      /\ SameStep(m, n, Session(c), left)
      /\ UNCHANGED <<holder, request>>
  BY LoopFacts DEF StepPanic, Panicking, StepDone, Through
<1>2. ASSUME NEW reply, NEW m2, Finish(c, reply) \/ Leave(c, reply),
             sessions' = [before EXCEPT ![req.id] = m2],
             Abstract!Stepped(m, n) = Session(c),
             \/ /\ Abstract!Aborts(m, n) /\ m2 \in Panicked(Session(c))
                /\ reply = Say("aborted")
             \/ /\ ~Abstract!Aborts(m, n) /\ ~Abstract!Diverges(m, n) /\ m2 = Session(c)
                /\ reply = Say(IF Session(c).error THEN "error" ELSE "ok")
      PROVE  Abstract!Serve(c)
  <2>1. /\ Abstract!Reply(c, reply) /\ Committed = before
        /\ Committed' = sessions' /\ Calls[c] = [state |-> "calling", req |-> req]
    BY <1>1, <1>2, FinishReplies
  <2>2. Committed' = [Committed EXCEPT ![req.id] = m2] /\ Committed[req.id] = m
    BY <1>2, <2>1
  <2>3. Abstract!StepAnswer(m, n) = Say(IF Session(c).error THEN "error" ELSE "ok")
    BY <1>2, SameOperators DEF Abstract!StepAnswer
  <2>4. Abstract!Decodes(req) /\ Abstract!Value(req) = n
    BY <1>1, SameOperators
  <2>5. CASE Abstract!Aborts(m, n)
    <3>1. m2 \in Abstract!Panicked(Abstract!Stepped(m, n)) /\ reply = Abstract!Say("aborted")
      BY <1>2, <2>5, SameOperators
    <3>2. Abstract!ServeStep(c, req)
      BY <2>1, <2>2, <2>4, <2>5, <3>1 DEF Abstract!ServeStep, Abstract!Store
    <3> QED BY <1>1, <2>1, <3>2 DEF Abstract!Serve, Abstract!Knows, Calls
  <2>6. CASE ~Abstract!Aborts(m, n)
    <3>1. /\ ~Abstract!Diverges(m, n) /\ m2 = Abstract!Stepped(m, n)
          /\ reply = Abstract!StepAnswer(m, n)
      BY <1>2, <2>3, <2>6
    <3>2. Abstract!ServeStep(c, req)
      BY <2>1, <2>2, <2>4, <2>6, <3>1 DEF Abstract!ServeStep, Abstract!Store
    <3> QED BY <1>1, <2>1, <3>2 DEF Abstract!Serve, Abstract!Knows, Calls
  <2> QED BY <2>5, <2>6
<1>3. CASE StepPanic(c)
  <2>1. PICK m2 \in Panicked(Session(c)) : Put(c, m2)
    BY <1>3 DEF StepPanic
  <2>2. sessions' = [before EXCEPT ![req.id] = m2]
    BY <1>1, <2>1 DEF Put
  <2>3. Abstract!Stepped(m, n) = Session(c) /\ Abstract!Aborts(m, n)
    BY <1>1, <1>3, LoopPanic DEF StepPanic, Panicking, SameStep
  <2>4. Leave(c, Say("aborted"))
    BY <1>3 DEF StepPanic
  <2> QED BY <1>2, <2>1, <2>2, <2>3, <2>4
<1>4. CASE StepDone(c)
  <2>1. /\ Abstract!Stepped(m, n) = Session(c)
        /\ ~Abstract!Aborts(m, n) /\ ~Abstract!Diverges(m, n)
    BY <1>1, <1>4, LoopEnd DEF StepDone, SameStep
  <2>2. /\ Finish(c, Say(IF Session(c).error THEN "error" ELSE "ok"))
        /\ sessions' = [before EXCEPT ![req.id] = Session(c)]
    BY <1>1, <1>4 DEF StepDone
  <2> QED BY <1>2, <2>1, <2>2
<1> QED BY <1>3, <1>4

\* The table of the service has the sessions of the server.
LEMMA CommittedDomain == ServerInv => DOMAIN Committed = DOMAIN sessions
<1> SUFFICES ASSUME ServerInv PROVE DOMAIN Committed = DOMAIN sessions
  OBVIOUS
<1>1. CASE holder # NoOne /\ at[holder] \notin Through
  <2>1. holder \in Clients /\ at[holder] \in Inside /\ AtPoint(holder)
    BY <1>1 DEF ServerInv, ServerTypes, MutexHeldInside
  <2>2. DOMAIN sessions = DOMAIN before
    BY <1>1, <2>1 DEF AtPoint, Inside, Through
  <2> QED BY <1>1, <2>2 DEF Committed
<1>2. CASE ~(holder # NoOne /\ at[holder] \notin Through)
  BY <1>2 DEF Committed
<1> QED BY <1>1, <1>2

\* Nothing that is done outside of the mutex touches the table.
LEMMA CommittedOutside ==
  ASSUME ServerInv, NEW c \in Clients, at[c] \notin Inside,
         \A d \in Clients \ {c} : at'[d] = at[d],
         UNCHANGED <<sessions, holder, before>>
  PROVE  Committed' = Committed
<1>1. holder # c /\ (holder = NoOne \/ holder \in Clients \ {c})
  BY DEF ServerInv, ServerTypes, MutexHeldInside
<1>2. holder # NoOne => at'[holder] = at[holder]
  BY <1>1
<1> QED BY <1>1, <1>2 DEF Committed

LEMMA ClientSim ==
  ASSUME ServerInv, NEW c \in Clients, Send(c) \/ Respond(c)
  PROVE  Abstract!Call(c) \/ Abstract!Return(c)
<1>1. /\ at[c] \notin Inside /\ DOMAIN at = Clients
      /\ DOMAIN request = Clients /\ DOMAIN answer = Clients
      /\ UNCHANGED <<sessions, holder, before>>
  BY DEF Send, Respond, Inside, Through, ServerInv, ServerTypes
<1>2. CASE Send(c)
  <2>1. PICK req \in Requests(DOMAIN sessions \cup {NoSession}) :
          /\ request' = [request EXCEPT ![c] = req]
          /\ at' = [at EXCEPT ![c] = IF req.op = "new" THEN "body" ELSE "lock"]
    BY <1>2 DEF Send, Go
  <2>2. at[c] = "idle" /\ answer' = answer
    BY <1>2 DEF Send
  <2>3. /\ request'[c] = req /\ at'[c] \in {"body", "lock"}
        /\ \A d \in Clients \ {c} :
             at'[d] = at[d] /\ request'[d] = request[d] /\ answer'[d] = answer[d]
    BY <1>1, <2>1, <2>2
  <2>4. Committed' = Committed
    BY <1>1, <2>3, CommittedOutside
  <2>5. CallOf(c) = [state |-> "quiet"] /\ CallOf(c)' = [state |-> "calling", req |-> req]
    BY <2>2, <2>3 DEF CallOf, Through
  <2>6. Calls[c].state = "quiet"
        /\ Calls' = [Calls EXCEPT ![c] = [state |-> "calling", req |-> req]]
    BY <2>3, <2>5, CallsUpdate DEF Calls
  <2>7. req \in Abstract!Requests(DOMAIN Committed \cup {Abstract!NoSession})
    BY CommittedDomain, SameOperators
  <2> QED BY <2>4, <2>6, <2>7 DEF Abstract!Call, Abstract!Calling, Calls
<1>3. CASE Respond(c)
  <2>1. /\ at[c] = "reply" /\ at' = [at EXCEPT ![c] = "idle"]
        /\ request' = [request EXCEPT ![c] = NoRequest]
        /\ answer' = [answer EXCEPT ![c] = Say("ok")]
    BY <1>3 DEF Respond, Go
  <2>2. /\ at'[c] = "idle"
        /\ \A d \in Clients \ {c} :
             at'[d] = at[d] /\ request'[d] = request[d] /\ answer'[d] = answer[d]
    BY <1>1, <2>1
  <2>3. Committed' = Committed
    BY <1>1, <2>2, CommittedOutside
  <2>4. Calls[c].state = "served"
    BY <2>1 DEF Calls, CallOf
  <2>5. CallOf(c)' = [state |-> "quiet"]
    BY <2>2 DEF CallOf, Through
  <2>6. Calls' = [Calls EXCEPT ![c] = [state |-> "quiet"]]
    BY <2>2, <2>5, CallsUpdate
  <2> QED BY <2>3, <2>4, <2>6 DEF Abstract!Return, Abstract!Quiet, Calls
<1> QED BY <1>2, <1>3

LEMMA MutexSim ==
  ASSUME ServerInv, NEW c \in Clients, Lock(c) \/ Write(c) \/ Unlock(c)
  PROVE  Committed' = Committed /\ Calls' = Calls
<1>1. /\ DOMAIN at = Clients /\ UNCHANGED <<sessions, request, answer>>
      /\ c # NoOne
  BY NoOneAssumption DEF Lock, Write, Unlock, ServerInv, ServerTypes
<1>2. CASE Lock(c)
  <2>1. /\ at[c] = "lock" /\ at'[c] = "lookup" /\ holder = NoOne /\ holder' = c
        /\ before' = sessions /\ \A d \in Clients \ {c} : at'[d] = at[d]
    BY <1>1, <1>2 DEF Lock, Go
  <2>2. CallOf(c)' = CallOf(c)
    BY <1>1, <2>1 DEF CallOf, Through
  <2>3. Committed' = Committed
    BY <1>1, <2>1 DEF Committed, Through
  <2> QED BY <1>1, <2>1, <2>2, <2>3, CallsKept
<1>3. CASE Unlock(c)
  <2>1. /\ at[c] = "unlock" /\ at'[c] = "reply" /\ holder' = NoOne
        /\ \A d \in Clients \ {c} : at'[d] = at[d]
    BY <1>1, <1>3 DEF Unlock, Go
  <2>2. holder = c
    BY <2>1 DEF ServerInv, MutexHeldInside, Inside, Through
  <2>3. CallOf(c)' = CallOf(c)
    BY <1>1, <2>1 DEF CallOf, Through
  <2>4. Committed' = Committed
    BY <1>1, <2>1, <2>2 DEF Committed, Through
  <2> QED BY <1>1, <2>1, <2>3, <2>4, CallsKept
<1>4. CASE Write(c)
  <2>1. /\ at[c] = "write" /\ at'[c] = "unlock" /\ UNCHANGED holder
        /\ \A d \in Clients \ {c} : at'[d] = at[d]
    BY <1>1, <1>4 DEF Write, Go
  <2>2. holder = c
    BY <2>1 DEF ServerInv, MutexHeldInside, Inside, Through
  <2>3. CallOf(c)' = CallOf(c)
    BY <1>1, <2>1 DEF CallOf, Through
  <2>4. Committed' = Committed
    BY <1>1, <2>1, <2>2 DEF Committed, Through
  <2> QED BY <1>1, <2>1, <2>3, <2>4, CallsKept
<1> QED BY <1>2, <1>3, <1>4

LEMMA ReadNewSim ==
  ASSUME ServerInv, NEW c \in Clients, ReadNew(c)
  PROVE  Abstract!Serve(c) \/ (Committed' = Committed /\ Calls' = Calls)
<1> DEFINE req == request[c]
<1>1. /\ at[c] = "body" /\ at[c] \notin Inside /\ req.op = "new"
      /\ DOMAIN at = Clients /\ DOMAIN answer = Clients
      /\ UNCHANGED <<sessions, holder, request, before>>
  BY DEF ReadNew, Inside, Through, ServerInv, ServerTypes, AtPoint
<1>2. Calls[c] = [state |-> "calling", req |-> req]
  BY <1>1 DEF Calls, CallOf, Through
<1>3. ASSUME NEW reply, Conclude(c, "reply", reply)
      PROVE  Abstract!Reply(c, reply) /\ Committed' = Committed
  <2>1. /\ at'[c] = "reply" /\ answer'[c] = reply
        /\ \A d \in Clients \ {c} : at'[d] = at[d] /\ answer'[d] = answer[d]
    BY <1>1, <1>3 DEF Conclude, Go
  <2>2. CallOf(c)' = [state |-> "served", req |-> req, answer |-> reply]
    BY <1>1, <2>1 DEF CallOf
  <2>3. Calls' = [Calls EXCEPT ![c] =
                    [state |-> "served", req |-> Calls[c].req, answer |-> reply]]
    BY <1>1, <1>2, <2>1, <2>2, CallsUpdate
  <2>4. Committed' = Committed
    BY <1>1, <2>1, CommittedOutside
  <2> QED BY <2>3, <2>4 DEF Abstract!Reply, Abstract!Served, Calls
<1>4. CASE ~Decodes(req) /\ Conclude(c, "reply", Say("bad_request"))
  <2>1. Abstract!Reply(c, Say("bad_request")) /\ Committed' = Committed
    BY <1>3, <1>4
  <2>2. Abstract!ServeNew(c, req)
    BY <1>4, <2>1, SameOperators DEF Abstract!ServeNew
  <2> QED BY <1>1, <1>2, <2>2 DEF Abstract!Serve, Calls
<1>5. CASE /\ Decodes(req) /\ Value(req) = Refused
           /\ Conclude(c, "reply", Say("aborted"))
  <2>1. Abstract!Reply(c, Say("aborted")) /\ Committed' = Committed
    BY <1>3, <1>5
  <2>2. Abstract!ServeNew(c, req)
    BY <1>5, <2>1, SameOperators DEF Abstract!ServeNew
  <2> QED BY <1>1, <1>2, <2>2 DEF Abstract!Serve, Calls
<1>6. CASE Go(c, "lock") /\ UNCHANGED answer
  <2>1. at'[c] = "lock" /\ \A d \in Clients \ {c} : at'[d] = at[d]
    BY <1>1, <1>6 DEF Go
  <2>2. CallOf(c)' = CallOf(c)
    BY <1>1, <1>6, <2>1 DEF CallOf
  <2> QED BY <1>1, <1>6, <2>1, <2>2, CommittedOutside, CallsKept
<1> QED BY <1>4, <1>5, <1>6 DEF ReadNew

\* A handler that moves on inside of the mutex shows nothing of it.
LEMMA InsideSim ==
  ASSUME ServerInv, NEW c \in Clients, NEW p \in Inside \ Through,
         at[c] \in Inside \ Through,
         at' = [at EXCEPT ![c] = p], UNCHANGED <<holder, request, answer, before>>
  PROVE  Committed' = Committed /\ Calls' = Calls
<1>1. at'[c] = p /\ \A d \in Clients \ {c} : at'[d] = at[d]
  BY DEF ServerInv, ServerTypes
<1>2. Committed = before /\ Committed' = before'
  BY <1>1, CommittedInside, CommittedAfter
<1>3. CallOf(c)' = CallOf(c)
  BY <1>1 DEF CallOf, Inside, Through
<1> QED BY <1>1, <1>2, <1>3, CallsKept

LEMMA EnterSim ==
  ASSUME ServerInv, NEW c \in Clients, EnterHandler(c)
  PROVE  Abstract!Serve(c) \/ (Committed' = Committed /\ Calls' = Calls)
<1> DEFINE req == request[c]
<1>1. /\ at[c] = "lookup" /\ at[c] \in Inside \ Through
      /\ sessions = before /\ req.id \in DOMAIN before
      /\ UNCHANGED <<sessions, holder, request, before>>
  BY DEF EnterHandler, Found, Inside, Through, ServerInv, AtPoint
<1>2. CASE \E p \in {"read", "loop"} : Go(c, p) /\ UNCHANGED answer
  <2>1. {"read", "loop"} \subseteq Inside \ Through
    BY DEF Inside, Through
  <2> QED BY <1>1, <1>2, <2>1, InsideSim DEF Go
<1>3. CASE req.op = "step" /\ ~Decodes(req) /\ Finish(c, Say("bad_request"))
  <2>1. /\ Abstract!Reply(c, Say("bad_request")) /\ Committed = before
        /\ Committed' = sessions' /\ Calls[c] = [state |-> "calling", req |-> req]
    BY <1>1, <1>3, FinishReplies
  <2>2. Abstract!ServeStep(c, req)
    BY <1>1, <1>3, <2>1, SameOperators DEF Abstract!ServeStep
  <2> QED BY <1>1, <1>3, <2>1, <2>2 DEF Abstract!Serve, Abstract!Knows, Calls
<1> QED BY <1>2, <1>3 DEF EnterHandler

LEMMA LoadSim ==
  ASSUME ServerInv, NEW c \in Clients, ReadLoad(c)
  PROVE  Abstract!Serve(c) \/ (Committed' = Committed /\ Calls' = Calls)
<1> DEFINE req == request[c]
<1>1. /\ at[c] = "read" /\ at[c] \in Inside \ Through
      /\ req.op = "load_program"
      /\ sessions = before /\ req.id \in DOMAIN before
      /\ UNCHANGED <<holder, request, before>>
  BY DEF ReadLoad, Inside, Through, ServerInv, AtPoint
<1>2. CASE Go(c, "parse") /\ UNCHANGED answer
  <2>1. "parse" \in Inside \ Through
    BY DEF Inside, Through
  <2> QED BY <1>1, <1>2, <2>1, InsideSim DEF Go
<1>3. CASE ~Decodes(req) /\ Finish(c, Say("bad_request")) /\ UNCHANGED sessions
  <2>1. /\ Abstract!Reply(c, Say("bad_request")) /\ Committed = before
        /\ Committed' = sessions' /\ Calls[c] = [state |-> "calling", req |-> req]
    BY <1>1, <1>3, FinishReplies
  <2>2. Abstract!ServeLoad(c, req)
    BY <1>1, <1>3, <2>1, SameOperators DEF Abstract!ServeLoad
  <2> QED BY <1>1, <1>3, <2>1, <2>2 DEF Abstract!Serve, Abstract!Knows, Calls
<1> QED BY <1>2, <1>3 DEF ReadLoad

LEMMA CycleSim ==
  ASSUME ServerInv, NEW c \in Clients, StepCycle(c)
  PROVE  Committed' = Committed /\ Calls' = Calls
<1>1. /\ at[c] = "loop" /\ at' = [at EXCEPT ![c] = "loop"]
      /\ "loop" \in Inside \ Through
      /\ UNCHANGED <<holder, request, answer, before>>
  BY DEF StepCycle, Inside, Through, ServerInv, ServerTypes
<1> QED BY <1>1, InsideSim

LEMMA NextSim ==
  ASSUME ServerInv, [ServerNext]_serverVars
  PROVE  [Abstract!Next]_<<Committed, Calls>>
<1>1. CASE UNCHANGED serverVars
  <2>1. Committed' = Committed
    BY <1>1 DEF serverVars, Committed
  <2>2. Calls' = Calls
    BY <1>1 DEF serverVars, Calls, CallOf
  <2> QED BY <2>1, <2>2
<1>2. ASSUME NEW c \in Clients,
             Send(c) \/ Receive(c) \/ Lock(c) \/ Handle(c) \/ Deliver(c)
      PROVE  \/ Abstract!Call(c) \/ Abstract!Serve(c) \/ Abstract!Return(c)
             \/ Committed' = Committed /\ Calls' = Calls
  BY <1>2, ClientSim, MutexSim, ReadNewSim, LookupSim, EnterSim, LoadSim, ReadSim,
     ParseSim, CycleSim, StepSim DEF Receive, Handle, Deliver
<1>3. ASSUME NEW c \in Clients,
             Abstract!Call(c) \/ Abstract!Serve(c) \/ Abstract!Return(c)
      PROVE  Abstract!Next
  BY <1>3 DEF Abstract!Next
<1> QED BY <1>1, <1>2, <1>3 DEF ServerNext

\* For any clients, programs, runs and settings: seen from outside, the
\* handlers of the server, the locking, the loop of step, the reset in two
\* parts and the panics are the service that does each request in one go.
THEOREM ServerRefinesService == ServerSpec => ServesAtomically
<1>1. ServerInit => Abstract!Init
  <2> SUFFICES ASSUME ServerInit PROVE Abstract!Init
    OBVIOUS
  <2>1. Committed = << >>
    BY DEF ServerInit, Committed
  <2>2. \A c \in Clients : CallOf(c) = [state |-> "quiet"]
    BY DEF ServerInit, CallOf, Through
  <2> QED BY <2>1, <2>2 DEF Abstract!Init, Abstract!Quiet, Calls
<1>2. ServerInv /\ [ServerNext]_serverVars => [Abstract!Next]_<<Committed, Calls>>
  BY NextSim
<1> QED BY <1>1, <1>2, InvTheorem, PTL DEF ServerSpec, ServesAtomically, Abstract!Spec, Calls
=============================================================================
