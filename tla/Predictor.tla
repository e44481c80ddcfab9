----------------------------- MODULE Predictor -----------------------------
(***************************************************************************)
(* The branch predictor driven by an arbitrary sequence of calls.  The     *)
(* pipeline calls update once for every conditional branch that executes   *)
(* and for every indirect jump that was not predicted right, and Reset     *)
(* when a session loads a program or changes its configuration.            *)
(*                                                                         *)
(* The history variable resolved records, for each slot, the last call     *)
(* that used it; it does not exist in the code and no action depends on it.*)
(***************************************************************************)
EXTENDS BranchPredictor

CONSTANTS Pcs,        \* addresses of branch instructions
          Targets,    \* addresses they jump to
          NBits,      \* counter widths a client may configure
          MAX_STREAK  \* bound on the length of a recorded streak

ASSUME PredictorAssumption ==
  /\ Pcs \subseteq Nat /\ Targets \subseteq Nat
  /\ NBits \subseteq Nat /\ NBits # {}
  /\ \A n \in NBits : MaxCounter(n) \in Nat
  /\ MAX_STREAK \in Nat

VARIABLES PredictionBuffer, n_bit, resolved

vars == <<PredictionBuffer, n_bit, resolved>>

max_counter == MaxCounter(n_bit)

Unresolved == [pc |-> -1, target |-> 0, outcome |-> FALSE, streak |-> 0]

Init ==
  /\ n_bit \in NBits
  /\ PredictionBuffer = EmptyBuffer
  /\ resolved = [i \in Slots |-> Unresolved]

\* A branch resolves: update(pc, target, outcome).
Update(pc, target, outcome) ==
  /\ PredictionBuffer' =
       update(PredictionBuffer, max_counter, pc, target, outcome)
  /\ resolved' =
       [resolved EXCEPT ![BpIndex(pc)] =
          [pc |-> pc, target |-> target, outcome |-> outcome,
           streak |-> IF @.pc # pc \/ @.outcome # outcome THEN 1
                      ELSE IF @.streak < MAX_STREAK THEN @.streak + 1
                      ELSE @.streak]]
  /\ UNCHANGED n_bit

Reset(nbit) ==
  /\ PredictionBuffer' = EmptyBuffer
  /\ n_bit' = nbit
  /\ resolved' = [i \in Slots |-> Unresolved]

Next ==
  \/ \E pc \in Pcs, target \in Targets, outcome \in BOOLEAN :
        Update(pc, target, outcome)
  \/ \E nbit \in NBits : Reset(nbit)

Spec == Init /\ [][Next]_vars

----------------------------------------------------------------------------
(* Invariants.                                                             *)

\* Counters stay within the configured width: they saturate, they never wrap.
TypeOK ==
  /\ n_bit \in NBits
  /\ PredictionBuffer \in [Slots -> Bp_Entry]
  /\ \A i \in Slots : PredictionBuffer[i].counter <= max_counter
  /\ resolved \in [Slots -> [pc: Int, target: Nat, outcome: BOOLEAN,
                             streak: 0 .. MAX_STREAK + 1]]

\* Two branches that share a slot never see each other's target: a lookup
\* hits exactly for the branch that used the slot last, and returns the
\* target that branch resolved to (predict, getTarget and the tag logic of
\* update, predictor.go:36-79).
TargetOfLastResolution ==
  \A pc \in Pcs :
    LET last == resolved[BpIndex(pc)] IN
    getTarget(PredictionBuffer, pc) =
      IF last.pc = pc THEN [target |-> last.target, valid |-> TRUE]
      ELSE [target |-> 0, valid |-> FALSE]

\* Training: a branch that keeps the slot and goes the same way k times has
\* moved the counter at least k steps (or to the end), so that the predictor
\* follows any branch that settles (update, predictor.go:74-92).
TrainedByStreak ==
  \A i \in Slots :
    LET last == resolved[i]
        counter == PredictionBuffer[i].counter
    IN  last.streak > 0 =>
          IF last.outcome
          THEN counter >= last.streak \/ counter = max_counter
          ELSE counter + last.streak <= max_counter \/ counter = 0

\* update reports "correct" only if the outcome is the one predict would
\* have announced just before, and a taken branch went where predict would
\* have sent it: a wrong path is never taken for a right one as long as the
\* entry does not change between fetch and execute (predictor.go:82-97).
CorrectIsRight(pc, target, outcome) ==
  UpdateCorrect(PredictionBuffer, max_counter, pc, target, outcome) =>
    LET p == predict(PredictionBuffer, max_counter, pc) IN
    p.taken = outcome /\ (outcome => p.target = target)

UpdateSound ==
  \A pc \in Pcs, target \in Targets, outcome \in BOOLEAN :
    CorrectIsRight(pc, target, outcome)

\* The comment on update (predictor.go:67) claims the converse too: "returns
\* if the prediction was correct or not".
UpdateExact ==
  \A pc \in Pcs, target \in Targets, outcome \in BOOLEAN :
    LET p == predict(PredictionBuffer, max_counter, pc) IN
    (p.taken = outcome /\ (outcome => p.target = target)) =>
      UpdateCorrect(PredictionBuffer, max_counter, pc, target, outcome)

\* Hysteresis: with at least two bits, one outcome against a saturated
\* counter does not change the prediction for that branch.  The pipeline
\* relies on it to mispredict a loop once per exit, not twice.
Hysteresis ==
  [][\A pc \in Pcs :
       LET before == PredictionBuffer[BpIndex(pc)]
       IN  Hit(PredictionBuffer, pc) /\ Hit(PredictionBuffer', pc)
           /\ before.counter \in {0, max_counter} /\ max_counter >= 3
           => predict(PredictionBuffer', max_counter', pc).taken
                = predict(PredictionBuffer, max_counter, pc).taken]_vars
=============================================================================
