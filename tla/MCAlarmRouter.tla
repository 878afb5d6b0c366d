----------------------------- MODULE MCAlarmRouter -----------------------------
(* Two detectors, readings of no, the lowest and the highest level, short channels. *)
EXTENDS AlarmRouter, TLC

\* 5 is forwarded but grades as level 0; 12 and 60 grade as 1 and 3.
MCConcentration == {5, 12, 60}

Symmetry == Permutations(Device)
===============================================================================
