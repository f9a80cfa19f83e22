------------------------------ MODULE MCWatchdog ------------------------------
(* Small instances of Watchdog for TLC. *)
EXTENDS Watchdog, TLC

CONSTANTS c1, c2

(* Two compositions: one can be stuck while the other's events keep       *)
(* enqueueing the watchdog.                                                *)
MCComps == {c1, c2}
MCComps1 == {c1}

(* The compositions are interchangeable (safety runs only).               *)
MCSymmetry == Permutations(MCComps)
=============================================================================
