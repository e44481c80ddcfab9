---------------------------- MODULE MCPredictor ----------------------------
(* The predictor on three branches, two of which share a slot, widths up   *)
(* to 3 bits and a width at which 1<<n wraps to zero (counters mod 8).     *)
EXTENDS Predictor

MCPcs     == {4, 8, 20}    \* 4 and 20 fall in the same slot of 16
MCTargets == {0, 4, 12}
MCNBits   == {0, 1, 2, 3}

=============================================================================
