-------------------------- MODULE BranchPredictor --------------------------
(***************************************************************************)
(* The branch predictor of vm/predictor.go: a direct-mapped buffer of      *)
(* n-bit saturating counters and branch targets, as operators on the       *)
(* buffer.  The Predictor module runs it on its own, Pipeline uses it from *)
(* the fetch and execute stages.                                           *)
(***************************************************************************)
EXTENDS Integers

CONSTANTS BP_BUFFER_SIZE,  \* 32 in the program: 1 << BP_INDEX_BIT_NUM
          COUNTER_MOD      \* values of a uint32 counter: 2^32 in the program

ASSUME BpSizeAssumption == /\ BP_BUFFER_SIZE \in Nat /\ BP_BUFFER_SIZE > 0
                           /\ COUNTER_MOD \in Nat /\ COUNTER_MOD > 1

Slots == 0 .. BP_BUFFER_SIZE - 1

\* The low bits of the address select the slot, the others are the tag.
BpIndex(pc) == pc % BP_BUFFER_SIZE
BpTag(pc)   == pc - BpIndex(pc)

Bp_Entry == [tag: Nat, counter: Nat, target: Nat, valid: BOOLEAN]
EmptyEntry == [tag |-> 0, counter |-> 0, target |-> 0, valid |-> FALSE]
EmptyBuffer == [i \in Slots |-> EmptyEntry]

\* uint32(1<<n_bit) - 1: the shift is done in 32 bits, so that n_bit = 32
\* and more give the largest counter.
MaxCounter(n_bit) == ((2^n_bit % COUNTER_MOD) - 1) % COUNTER_MOD

\* Definitions introduced as a slip are not used here: each is a mistake that
\* the definition after it could plausibly contain, and the README lists the
\* property that notices it.

\* A slip: the threshold is one too high.
ThresholdHigh(max) == (max \div 2) + 2

\* A counter predicts "taken" from this value on.
Threshold(max) == (max \div 2) + 1

\* A slip: the tag is not compared.
HitNoTag(buff, pc) == buff[BpIndex(pc)].valid

Hit(buff, pc) ==
  LET entry == buff[BpIndex(pc)] IN entry.valid /\ entry.tag = BpTag(pc)

\* The prediction and the predicted target; a miss predicts "not taken".
predict(buff, max, pc) ==
  LET entry == buff[BpIndex(pc)] IN
  IF Hit(buff, pc)
  THEN [taken |-> entry.counter >= Threshold(max), target |-> entry.target]
  ELSE [taken |-> FALSE, target |-> 0]

getTarget(buff, pc) ==
  IF Hit(buff, pc)
  THEN [target |-> buff[BpIndex(pc)].target, valid |-> TRUE]
  ELSE [target |-> 0, valid |-> FALSE]

\* update() in three steps: the entry is claimed for pc, the counter moves
\* towards the outcome, the target is replaced.
Claimed(entry, pc) ==
  IF entry.valid /\ entry.tag = BpTag(pc) THEN entry
  ELSE [entry EXCEPT !.tag = BpTag(pc), !.counter = 0, !.valid = TRUE]

\* Slips: no saturation, and saturation one step early.
MovedUnbounded(counter, max, outcome) ==
  IF outcome THEN counter + 1 ELSE IF counter > 0 THEN counter - 1 ELSE counter
MovedShort(counter, max, outcome) ==
  CASE outcome /\ counter < max - 1 -> counter + 1
    [] ~outcome /\ counter > 0      -> counter - 1
    [] OTHER                        -> counter

Moved(counter, max, outcome) ==
  CASE outcome /\ counter < max -> counter + 1
    [] ~outcome /\ counter > 0  -> counter - 1
    [] OTHER                    -> counter

\* The buffer after an update.
update(buff, max, pc, target, outcome) ==
  LET entry == Claimed(buff[BpIndex(pc)], pc) IN
  [buff EXCEPT ![BpIndex(pc)] =
     [entry EXCEPT !.counter = Moved(entry.counter, max, outcome),
                   !.target  = target]]

\* A slip: the direction is compared, the target is not.
DirectionCorrect(buff, max, pc, target, outcome) ==
  (Claimed(buff[BpIndex(pc)], pc).counter >= Threshold(max)) = outcome

\* The value returned by update: was the prediction correct?
UpdateCorrect(buff, max, pc, target, outcome) ==
  LET entry == Claimed(buff[BpIndex(pc)], pc) IN
  /\ (entry.counter >= Threshold(max)) = outcome
  /\ entry.target = target
=============================================================================
