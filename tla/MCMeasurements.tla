---------------------------- MODULE MCMeasurements ----------------------------
(* Model checking of Measurements: a device of any kind, interchangeable       *)
(* workers.                                                                    *)
EXTENDS Measurements, TLC

Symmetry == Permutations(Workers)
==============================================================================
