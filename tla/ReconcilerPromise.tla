--------------------------- MODULE ReconcilerPromise ---------------------------
(***************************************************************************)
(* What the reconciliation loop of one synthesis promises about the        *)
(* downstream objects and the slice status on the server, with no cache,   *)
(* stream, buffer or workqueue.  The reconciler creates or updates a       *)
(* resource only once every resource of a lower readiness group has had a  *)
(* Ready time on the server; it removes only resources marked Deleted; it  *)
(* records a status only as Reconciled, and for a resource not marked      *)
(* Deleted only once that resource has passed the same gate.  Someone else *)
(* may change or delete downstream objects, a bounded number of times.     *)
(* ResourceReconciler instantiates this module under the identity mapping. *)
(***************************************************************************)
EXTENDS Naturals

CONSTANTS Res, Group, DeletedRes, Deletable, MaxRV, MaxTime, MaxEdits, Nil

VARIABLES
    down,      \* down[r]: the downstream object of r, or Nil
    status,    \* status[r]: ResourceState of r in its slice, or Nil
    edits,     \* external changes made so far
    readySeen  \* resources whose status has had a Ready time

vars == <<down, status, edits, readySeen>>

Object == [rv: 1..MaxRV, synced: BOOLEAN]
State == [reconciled: BOOLEAN, ready: 0..MaxTime, deleted: BOOLEAN]
Lower(r) == {d \in Res : Group[d] < Group[r]}

(* The readiness gate, as a fact about the server's history.              *)
GatePassed(r) == Lower(r) \subseteq readySeen

Init ==
    /\ down = [r \in Res |-> Nil]
    /\ status = [r \in Res |-> Nil]
    /\ edits = 0
    /\ readySeen = {}

(* The reconciler creates or updates the object of a resource it keeps.  *)
Write(r) ==
    /\ r \notin DeletedRes
    /\ GatePassed(r)
    /\ \E o \in Object : down' = [down EXCEPT ![r] = o]
    /\ UNCHANGED <<status, edits, readySeen>>

(* The reconciler deletes the object of a resource marked Deleted.        *)
Remove(r) ==
    /\ r \in DeletedRes
    /\ down' = [down EXCEPT ![r] = Nil]
    /\ UNCHANGED <<status, edits, readySeen>>

(* A Reconciled state of r reaches its slice on the server.               *)
RecordStatus(r) ==
    /\ r \notin DeletedRes => GatePassed(r)
    /\ \E s \in State :
          /\ s.reconciled
          /\ status' = [status EXCEPT ![r] = s]
          /\ readySeen' = IF s.ready # 0 THEN readySeen \cup {r} ELSE readySeen
    /\ UNCHANGED <<down, edits>>

(* Someone else changes the object of r, or deletes it when allowed to.   *)
External(r) ==
    /\ edits < MaxEdits
    /\ edits' = edits + 1
    /\ \E o \in Object \cup {Nil} :
          /\ o = Nil /\ down[r] # Nil => r \in Deletable
          /\ down' = [down EXCEPT ![r] = o]
    /\ UNCHANGED <<status, readySeen>>

Next == \E r \in Res : Write(r) \/ Remove(r) \/ RecordStatus(r) \/ External(r)

Spec == Init /\ [][Next]_vars
================================================================================
