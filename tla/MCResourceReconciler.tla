------------------------ MODULE MCResourceReconciler ------------------------
(* Small instances of ResourceReconciler for TLC. *)
EXTENDS ResourceReconciler, TLC

CONSTANTS a, b, c

(* Three resources in readiness groups 0, 1 and 1 (ordering_test.go uses *)
(* groups 0, 2 and 4: only their order matters).                         *)
MCRes == {a, b, c}
MCGroup == (a :> 0) @@ (b :> 1) @@ (c :> 1)
=============================================================================
