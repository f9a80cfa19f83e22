--------------------------- MODULE MCSynthesisFlow ---------------------------
(* Small instances of SynthesisFlow for TLC. *)
EXTENDS SynthesisFlow, TLC

CONSTANTS c1, c2, c3

(* Three compositions, so that two can be dispatched against a limit of  *)
(* one while a third is pending.                                         *)
MCComps == {c1, c2, c3}
(* Two compositions for the liveness runs, which cannot use symmetry.    *)
MCComps2 == {c1, c2}

(* The compositions are interchangeable (safety runs only).            *)
MCSymmetry == Permutations(MCComps)
=============================================================================
