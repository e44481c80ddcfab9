-------------------------- MODULE PredictorProofs --------------------------
(***************************************************************************)
(* The properties of Predictor hold for every buffer size, counter width,  *)
(* set of branches and set of targets.  Each slot and the history of its   *)
(* last call stay in step (InStep); everything else follows from that.     *)
(***************************************************************************)
EXTENDS Predictor, MachineLemmas

\* The slot holds what the last call that used it left there.
InStepAt(i) ==
  IF resolved[i].pc = -1
  THEN ~PredictionBuffer[i].valid /\ resolved[i].streak = 0
  ELSE /\ resolved[i].pc \in Pcs /\ BpIndex(resolved[i].pc) = i
       /\ PredictionBuffer[i].valid
       /\ PredictionBuffer[i].tag = BpTag(resolved[i].pc)
       /\ PredictionBuffer[i].target = resolved[i].target

InStep == \A i \in Slots : InStepAt(i)

TrainedAt(i) ==
  LET last == resolved[i]
      counter == PredictionBuffer[i].counter
  IN  last.streak > 0 =>
        IF last.outcome
        THEN counter >= last.streak \/ counter = max_counter
        ELSE counter + last.streak <= max_counter \/ counter = 0

IInv == TypeOK /\ InStep /\ TrainedByStreak

LEMMA MaxCounterType == TypeOK => max_counter \in Nat
BY PredictorAssumption DEF TypeOK, max_counter

\* Two branches of one slot have different tags.
LEMMA TagsDiffer ==
  ASSUME NEW p \in Nat, NEW q \in Nat, BpIndex(p) = BpIndex(q), BpTag(p) = BpTag(q)
  PROVE  p = q
BY BpIndexType

\* The history record of the call, field by field.
LEMMA ResolvedType ==
  ASSUME TypeOK, NEW pc \in Pcs, NEW target \in Targets, NEW outcome \in BOOLEAN,
         Update(pc, target, outcome)
  PROVE  LET i == BpIndex(pc)
             old == resolved[i]
         IN  /\ \A j \in Slots \ {i} : resolved'[j] = resolved[j]
             /\ resolved'[i].pc = pc /\ resolved'[i].target = target
             /\ resolved'[i].outcome = outcome
             /\ resolved'[i].streak = IF old.pc # pc \/ old.outcome # outcome THEN 1
                                      ELSE IF old.streak < MAX_STREAK
                                      THEN old.streak + 1 ELSE old.streak
             /\ resolved' \in [Slots -> [pc: Int, target: Nat, outcome: BOOLEAN,
                                         streak: 0 .. MAX_STREAK + 1]]
<1> DEFINE i == BpIndex(pc)
           old == resolved[i]
           k == IF old.pc # pc \/ old.outcome # outcome THEN 1
                ELSE IF old.streak < MAX_STREAK THEN old.streak + 1 ELSE old.streak
           new == [pc |-> pc, target |-> target, outcome |-> outcome, streak |-> k]
<1>1. i \in Slots /\ pc \in Int /\ target \in Nat
  BY BpIndexType, PredictorAssumption
<1>2. old \in [pc: Int, target: Nat, outcome: BOOLEAN, streak: 0 .. MAX_STREAK + 1]
  BY <1>1 DEF TypeOK
<1>3. k \in 0 .. MAX_STREAK + 1
  <2>1. old.streak \in 0 .. MAX_STREAK + 1
    BY <1>2
  <2> HIDE DEF old
  <2> QED BY <2>1, PredictorAssumption
<1>4. resolved' = [resolved EXCEPT ![i] = new]
  BY DEF Update
<1> HIDE DEF k
<1>5. new \in [pc: Int, target: Nat, outcome: BOOLEAN, streak: 0 .. MAX_STREAK + 1]
  BY <1>1, <1>3
<1>6. new.pc = pc /\ new.target = target /\ new.outcome = outcome /\ new.streak = k
  OBVIOUS
<1> HIDE DEF new
<1> QED BY <1>1, <1>4, <1>5, <1>6 DEF TypeOK, k

----------------------------------------------------------------------------

LEMMA InitIInv == Init => IInv
<1> SUFFICES ASSUME Init PROVE IInv
  OBVIOUS
<1>1. n_bit \in NBits /\ max_counter \in Nat
  BY PredictorAssumption DEF Init, max_counter
<1>2. \A i \in Slots : /\ PredictionBuffer[i] = EmptyEntry
                       /\ resolved[i] = Unresolved
  BY DEF Init, EmptyBuffer
<1>3. TypeOK
  <2>1. resolved \in [Slots -> [pc: Int, target: Nat, outcome: BOOLEAN,
                                streak: 0 .. MAX_STREAK + 1]]
    BY PredictorAssumption DEF Init, Unresolved
  <2>2. PredictionBuffer \in [Slots -> Bp_Entry]
    BY EmptyBufferType DEF Init
  <2>3. \A i \in Slots : PredictionBuffer[i].counter <= max_counter
    BY <1>1, <1>2 DEF EmptyEntry
  <2> QED BY <1>1, <2>1, <2>2, <2>3 DEF TypeOK
<1>4. InStep /\ TrainedByStreak
  BY <1>2 DEF InStep, InStepAt, TrainedByStreak, EmptyEntry, Unresolved
<1> QED BY <1>3, <1>4 DEF IInv

\* A call moves slot and history together.
LEMMA UpdateIInv ==
  ASSUME IInv, NEW pc \in Pcs, NEW target \in Targets, NEW outcome \in BOOLEAN,
         Update(pc, target, outcome)
  PROVE  IInv'
<1> DEFINE i == BpIndex(pc)
           e == PredictionBuffer[i]
           claimed == Claimed(e, pc)
<1>0. /\ TypeOK /\ InStep /\ TrainedByStreak /\ max_counter \in Nat
      /\ max_counter' = max_counter
  BY MaxCounterType DEF IInv, Update, max_counter
<1>1. pc \in Nat /\ target \in Nat /\ i \in Slots
  BY BpIndexType, PredictorAssumption
<1>2. /\ PredictionBuffer' \in [Slots -> Bp_Entry]
      /\ \A j \in Slots \ {i} : PredictionBuffer'[j] = PredictionBuffer[j]
      /\ PredictionBuffer'[i].valid = TRUE
      /\ PredictionBuffer'[i].tag = BpTag(pc)
      /\ PredictionBuffer'[i].target = target
      /\ PredictionBuffer'[i].counter = Moved(claimed.counter, max_counter, outcome)
  <2> DEFINE f == UpdatedEntry(PredictionBuffer, max_counter, pc, target, outcome)
  <2>1. PredictionBuffer \in [Slots -> Bp_Entry]
    BY <1>0 DEF TypeOK
  <2>2. PredictionBuffer' = [PredictionBuffer EXCEPT ![i] = f]
    BY <1>0, <1>1, <2>1, UpdateType DEF Update
  <2>3. f \in Bp_Entry /\ f.valid = TRUE /\ f.tag = BpTag(pc)
    BY <1>0, <1>1, <2>1, UpdatedEntryType
  <2>4. /\ f.target = target
        /\ f.counter = Moved(claimed.counter, max_counter, outcome)
    <3>1. claimed \in Bp_Entry
      BY <1>1, <2>1, ClaimedType
    <3>2. f = [claimed EXCEPT !.counter = Moved(claimed.counter, max_counter, outcome),
                              !.target = target]
      BY DEF UpdatedEntry
    <3> HIDE DEF f, claimed
    <3> QED BY <3>1, <3>2 DEF Bp_Entry
  <2> HIDE DEF f, claimed
  <2> QED BY <1>1, <2>1, <2>2, <2>3, <2>4
<1>3. /\ \A j \in Slots \ {i} : resolved'[j] = resolved[j]
      /\ resolved'[i].pc = pc /\ resolved'[i].target = target
      /\ resolved'[i].outcome = outcome
      /\ resolved'[i].streak = IF resolved[i].pc # pc \/ resolved[i].outcome # outcome
                               THEN 1
                               ELSE IF resolved[i].streak < MAX_STREAK
                               THEN resolved[i].streak + 1 ELSE resolved[i].streak
      /\ resolved' \in [Slots -> [pc: Int, target: Nat, outcome: BOOLEAN,
                                  streak: 0 .. MAX_STREAK + 1]]
  BY <1>0, ResolvedType
<1>4. e.counter \in 0 .. max_counter
  BY <1>0, <1>1 DEF TypeOK, Bp_Entry
<1>5. claimed.counter \in 0 .. max_counter
  <2>1. e \in Bp_Entry
    BY <1>0, <1>1 DEF TypeOK
  <2>2. claimed.counter \in {0, e.counter}
    BY <1>1, <2>1, ClaimedType
  <2> QED BY <1>0, <1>4, <2>2
<1>6. TypeOK'
  <2>1. \A j \in Slots : PredictionBuffer'[j].counter <= max_counter
    <3>1. ASSUME NEW j \in Slots \ {i}
          PROVE  PredictionBuffer'[j].counter <= max_counter
      BY <1>0, <1>2 DEF TypeOK
    <3>2. PredictionBuffer'[i].counter \in 0 .. max_counter
      <4> HIDE DEF claimed
      <4> QED BY <1>0, <1>2, <1>5, MovedRange
    <3> QED BY <1>0, <3>1, <3>2
  <2> QED BY <1>0, <1>2, <1>3, <2>1 DEF TypeOK, Update
<1>7. InStep'
  BY <1>0, <1>1, <1>2, <1>3, PredictorAssumption DEF InStep, InStepAt
<1>8. TrainedByStreak'
  <2>1. ASSUME NEW j \in Slots \ {i} PROVE TrainedAt(j)'
    BY <1>0, <1>2, <1>3, <2>1 DEF TrainedAt, TrainedByStreak
  <2>2. TrainedAt(i)'
    <3>1. TrainedAt(i) /\ InStepAt(i)
      BY <1>0, <1>1 DEF TrainedByStreak, TrainedAt, InStep
    <3>2. resolved[i].streak \in Nat /\ resolved[i].outcome \in BOOLEAN
      BY <1>0, <1>1, PredictorAssumption DEF TypeOK
    <3>3. CASE resolved[i].pc # pc \/ resolved[i].outcome # outcome
      <4>1. resolved'[i].streak = 1 /\ resolved'[i].outcome = outcome
        BY <1>3, <3>3
      <4>2. IF outcome THEN \/ PredictionBuffer'[i].counter >= 1
                            \/ PredictionBuffer'[i].counter = max_counter
            ELSE \/ PredictionBuffer'[i].counter + 1 <= max_counter
                 \/ PredictionBuffer'[i].counter = 0
        BY <1>0, <1>2, <1>5 DEF Moved
      <4> QED BY <1>0, <4>1, <4>2 DEF TrainedAt
    <3>4. CASE resolved[i].pc = pc /\ resolved[i].outcome = outcome
      <4>1. claimed = e
        BY <1>1, <3>1, <3>4 DEF Claimed, InStepAt
      <4>2. /\ resolved'[i].streak <= resolved[i].streak + 1
            /\ resolved'[i].streak \in Nat /\ resolved'[i].outcome = outcome
        BY <1>3, <3>2, <3>4
      <4>3. resolved[i].streak > 0 \/ resolved'[i].streak <= 1
        BY <3>2, <4>2
      <4>4. /\ PredictionBuffer'[i].counter = Moved(e.counter, max_counter, outcome)
            /\ resolved[i].streak > 0 =>
                 IF outcome
                 THEN e.counter >= resolved[i].streak \/ e.counter = max_counter
                 ELSE e.counter + resolved[i].streak <= max_counter \/ e.counter = 0
        BY <1>2, <3>1, <3>4, <4>1 DEF TrainedAt
      <4>5. resolved'[i].streak > 0 =>
              IF outcome
              THEN \/ PredictionBuffer'[i].counter >= resolved'[i].streak
                   \/ PredictionBuffer'[i].counter = max_counter
              ELSE \/ PredictionBuffer'[i].counter + resolved'[i].streak <= max_counter
                   \/ PredictionBuffer'[i].counter = 0
        BY <1>0, <1>4, <3>2, <4>2, <4>3, <4>4 DEF Moved
      <4> QED BY <1>0, <4>2, <4>5 DEF TrainedAt
    <3> QED BY <3>3, <3>4
  <2> QED BY <2>1, <2>2 DEF TrainedAt, TrainedByStreak
<1> QED BY <1>6, <1>7, <1>8 DEF IInv

LEMMA ResetIInv ==
  ASSUME NEW nbit \in NBits, Reset(nbit)
  PROVE  IInv'
<1>1. n_bit' \in NBits /\ max_counter' \in Nat
  BY PredictorAssumption DEF Reset, max_counter
<1>2. \A i \in Slots : /\ PredictionBuffer'[i] = EmptyEntry
                       /\ resolved'[i] = Unresolved
  BY DEF Reset, EmptyBuffer
<1>3. TypeOK'
  <2>1. resolved' \in [Slots -> [pc: Int, target: Nat, outcome: BOOLEAN,
                                 streak: 0 .. MAX_STREAK + 1]]
    BY PredictorAssumption DEF Reset, Unresolved
  <2>2. PredictionBuffer' \in [Slots -> Bp_Entry]
    BY EmptyBufferType DEF Reset
  <2>3. \A i \in Slots : PredictionBuffer'[i].counter <= max_counter'
    BY <1>1, <1>2 DEF EmptyEntry
  <2> QED BY <1>1, <2>1, <2>2, <2>3 DEF TypeOK
<1>4. InStep' /\ TrainedByStreak'
  BY <1>2 DEF InStep, InStepAt, TrainedByStreak, EmptyEntry, Unresolved
<1> QED BY <1>3, <1>4 DEF IInv

LEMMA StutterIInv == ASSUME IInv, UNCHANGED vars PROVE IInv'
BY DEF IInv, vars, TypeOK, InStep, InStepAt, TrainedByStreak, max_counter

LEMMA InductiveInvariant == Spec => []IInv
<1>1. Init => IInv
  BY InitIInv
<1>2. IInv /\ [Next]_vars => IInv'
  <2> SUFFICES ASSUME IInv, [Next]_vars PROVE IInv'
    OBVIOUS
  <2>1. ASSUME NEW pc \in Pcs, NEW target \in Targets, NEW outcome \in BOOLEAN,
               Update(pc, target, outcome)
        PROVE  IInv'
    BY <2>1, UpdateIInv
  <2>2. ASSUME NEW nbit \in NBits, Reset(nbit) PROVE IInv'
    BY <2>2, ResetIInv
  <2>3. CASE UNCHANGED vars
    BY <2>3, StutterIInv
  <2> QED BY <2>1, <2>2, <2>3 DEF Next
<1> QED BY <1>1, <1>2, PTL DEF Spec

----------------------------------------------------------------------------

\* Counters saturate: none leaves the range of the configured width, for any
\* buffer size and any width (predictor.go:74-92).
THEOREM TypeCorrect == Spec => []TypeOK
<1>1. IInv => TypeOK
  BY DEF IInv
<1> QED BY <1>1, InductiveInvariant, PTL

\* A lookup hits exactly for the branch that used the slot last and returns
\* the target it resolved to: aliasing branches never mix up their targets.
THEOREM TargetsAreNotMixed == Spec => []TargetOfLastResolution
<1>1. IInv => TargetOfLastResolution
  <2> SUFFICES ASSUME IInv, NEW pc \in Pcs
               PROVE  getTarget(PredictionBuffer, pc) =
                        IF resolved[BpIndex(pc)].pc = pc
                        THEN [target |-> resolved[BpIndex(pc)].target, valid |-> TRUE]
                        ELSE [target |-> 0, valid |-> FALSE]
    BY DEF TargetOfLastResolution
  <2> DEFINE i == BpIndex(pc)
             last == resolved[i]
  <2>1. pc \in Nat /\ i \in Slots
    BY BpIndexType, PredictorAssumption
  <2>2. InStepAt(i)
    BY <2>1 DEF IInv, InStep
  <2>3. CASE last.pc = pc
    <3>1. last.pc # -1
      BY <2>1, <2>3
    <3>2. Hit(PredictionBuffer, pc) /\ PredictionBuffer[i].target = last.target
      BY <2>2, <2>3, <3>1 DEF InStepAt, Hit
    <3> QED BY <2>3, <3>2 DEF getTarget
  <2>4. CASE last.pc # pc
    <3>1. last.pc # -1 => last.pc \in Nat /\ BpTag(last.pc) # BpTag(pc)
      BY <2>1, <2>2, <2>4, TagsDiffer, PredictorAssumption DEF InStepAt
    <3>2. ~Hit(PredictionBuffer, pc)
      BY <2>2, <3>1 DEF InStepAt, Hit
    <3> QED BY <2>4, <3>2 DEF getTarget
  <2> QED BY <2>3, <2>4
<1> QED BY <1>1, InductiveInvariant, PTL

\* A branch that keeps its slot trains it: after k equal outcomes the counter
\* is k steps, or all the way, towards them.
THEOREM PredictorLearns == Spec => []TrainedByStreak
<1>1. IInv => TrainedByStreak
  BY DEF IInv
<1> QED BY <1>1, InductiveInvariant, PTL

\* When update answers "correct", following the prediction was right: no
\* wrong path is ever kept as long as the entry is the one fetch has read.
THEOREM CorrectMeansRight == Spec => []UpdateSound
<1>1. IInv => UpdateSound
  <2> SUFFICES ASSUME IInv, NEW pc \in Pcs, NEW target \in Targets,
                      NEW outcome \in BOOLEAN,
                      UpdateCorrect(PredictionBuffer, max_counter, pc, target, outcome)
               PROVE  LET p == predict(PredictionBuffer, max_counter, pc) IN
                      p.taken = outcome /\ (outcome => p.target = target)
    BY DEF UpdateSound, CorrectIsRight
  <2> DEFINE e == PredictionBuffer[BpIndex(pc)]
             t == Threshold(max_counter)
  <2>1. e \in Bp_Entry /\ max_counter \in Nat
    BY BpIndexType, MaxCounterType, PredictorAssumption DEF IInv, TypeOK
  <2>2. t \in Nat /\ t > 0
    BY <2>1 DEF Threshold
  <2>3. CASE Hit(PredictionBuffer, pc)
    <3>1. Claimed(e, pc) = e
      BY <2>3 DEF Hit, Claimed
    <3> QED BY <2>3, <3>1 DEF UpdateCorrect, predict
  <2>4. CASE ~Hit(PredictionBuffer, pc)
    <3>1. Claimed(e, pc).counter = 0
      BY <2>1, <2>4 DEF Hit, Claimed, Bp_Entry
    <3>2. outcome = FALSE
      <4> HIDE DEF t
      <4> QED BY <2>2, <3>1 DEF UpdateCorrect, t
    <3> QED BY <2>4, <3>2 DEF predict
  <2> QED BY <2>3, <2>4
<1> QED BY <1>1, InductiveInvariant, PTL
\* With two bits or more, one outcome against a saturated counter does not
\* turn the prediction: a loop is mispredicted once per exit.
THEOREM OneOutcomeIsNotEnough == Spec => Hysteresis
<1> DEFINE Keeps(pc) ==
       LET before == PredictionBuffer[BpIndex(pc)]
       IN  Hit(PredictionBuffer, pc) /\ Hit(PredictionBuffer', pc)
           /\ before.counter \in {0, max_counter} /\ max_counter >= 3
           => predict(PredictionBuffer', max_counter', pc).taken
                = predict(PredictionBuffer, max_counter, pc).taken
<1>1. ASSUME IInv, [Next]_vars, NEW pc \in Pcs PROVE Keeps(pc)
  <2> DEFINE i == BpIndex(pc)
             e == PredictionBuffer[i]
             f == PredictionBuffer'[i]
  <2>0. pc \in Nat /\ i \in Slots /\ e \in Bp_Entry /\ max_counter \in Nat
    BY <1>1, BpIndexType, MaxCounterType, PredictorAssumption DEF IInv, TypeOK
  <2>1. ASSUME NEW p \in Pcs, NEW target \in Targets, NEW outcome \in BOOLEAN,
               Update(p, target, outcome)
        PROVE  Keeps(pc)
    <3>0. /\ p \in Nat /\ BpIndex(p) \in Slots /\ target \in Nat
          /\ PredictionBuffer \in [Slots -> Bp_Entry]
          /\ max_counter' = max_counter
      BY <1>1, <2>1, BpIndexType, PredictorAssumption DEF IInv, TypeOK, Update, max_counter
    <3> DEFINE g == UpdatedEntry(PredictionBuffer, max_counter, p, target, outcome)
    <3>1. PredictionBuffer' = [PredictionBuffer EXCEPT ![BpIndex(p)] = g]
      BY <2>0, <2>1, <3>0, UpdateType DEF Update
    <3>2. g \in Bp_Entry /\ g.tag = BpTag(p)
      <4>1. p \in Nat /\ target \in Nat /\ max_counter \in Nat
        BY <2>0, <3>0
      <4>2. PredictionBuffer \in [Slots -> Bp_Entry]
        BY <3>0
      <4>3. g \in Bp_Entry /\ g.valid = TRUE /\ g.tag = BpTag(p)
        BY <4>1, <4>2, UpdatedEntryType
      <4> QED BY <4>3
    <3>3. CASE BpIndex(p) # i
      <4>1. f = e
        BY <3>0, <3>1, <3>3
      <4> QED BY <3>0, <4>1 DEF predict, Hit
    <3>4. CASE BpIndex(p) = i /\ p # pc
      <4>1. f = g /\ BpTag(p) # BpTag(pc)
        <5> HIDE DEF g
        <5> QED BY <2>0, <3>0, <3>1, <3>4, TagsDiffer
      <4>2. ~Hit(PredictionBuffer', pc)
        BY <3>2, <4>1 DEF Hit
      <4> QED BY <4>2
    <3>5. CASE p = pc
      <4>1. f = g
        <5> HIDE DEF g
        <5> QED BY <2>0, <3>0, <3>1, <3>5
      <4> SUFFICES ASSUME Hit(PredictionBuffer, pc), Hit(PredictionBuffer', pc),
                          e.counter \in {0, max_counter}, max_counter >= 3
                   PROVE  predict(PredictionBuffer', max_counter', pc).taken
                            = predict(PredictionBuffer, max_counter, pc).taken
        OBVIOUS
      <4>2. g = [e EXCEPT !.counter = Moved(e.counter, max_counter, outcome),
                          !.target = target]
        BY <3>5 DEF UpdatedEntry, Claimed, Hit
      <4>3. f.counter = Moved(e.counter, max_counter, outcome)
        <5> HIDE DEF e, f, g
        <5> QED BY <2>0, <4>1, <4>2 DEF Bp_Entry
      <4>4. (f.counter >= Threshold(max_counter)) = (e.counter >= Threshold(max_counter))
        <5>1. Threshold(max_counter) \in Nat /\ Threshold(max_counter) >= 2
              /\ Threshold(max_counter) < max_counter
          BY <2>0 DEF Threshold
        <5> HIDE DEF e, f
        <5> QED BY <2>0, <4>3, <5>1 DEF Moved
      <4> QED BY <3>0, <4>4 DEF predict
    <3> QED BY <3>3, <3>4, <3>5
  <2>2. ASSUME NEW nbit \in NBits, Reset(nbit) PROVE Keeps(pc)
    <3>1. ~Hit(PredictionBuffer', pc)
      BY <2>0, <2>2 DEF Reset, EmptyBuffer, EmptyEntry, Hit
    <3> QED BY <3>1
  <2>3. CASE UNCHANGED vars
    BY <2>3 DEF vars, predict, max_counter
  <2> HIDE DEF Keeps
  <2> QED BY <1>1, <2>1, <2>2, <2>3 DEF Next
<1>2. IInv /\ [Next]_vars => [\A pc \in Pcs : Keeps(pc)]_vars
  <2> HIDE DEF Keeps
  <2> QED BY <1>1
<1> QED BY <1>2, InductiveInvariant, PTL DEF Spec, Hysteresis
=============================================================================
