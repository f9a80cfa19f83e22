-------------------------- MODULE ResourceReconciler --------------------------
(***************************************************************************)
(* The per-resource reconciliation loop of eno (Controller.Reconcile, in   *)
(* src/internal/controllers/reconciliation/ordering_test.go from line      *)
(* 144), for the resources of one synthesis of one Composition.            *)
(*                                                                         *)
(* The downstream cluster is read and written live.  The ResourceSlice     *)
(* status of each resource is read from the manager's informer cache,      *)
(* which applies the slice watch stream in order and may lag; it is        *)
(* written asynchronously through the status write buffer.  The            *)
(* reconstitution cache remembers, per resource, the last observed         *)
(* downstream resourceVersion.  The write buffer and the reconstitution    *)
(* cache are not under src/: they are modelled from spec.md 4.A and 4.B.   *)
(***************************************************************************)
EXTENDS Naturals, Sequences, FiniteSets

CONSTANTS
    Res,          \* the resources of the synthesis
    Group,        \* Group[r]: eno.azure.io/readiness-group of r
    DeletedRes,   \* resources whose desired state is marked Deleted
    PatchRes,     \* resources given as a JSON patch (resource.Patch != nil)
    NoUpdateRes,  \* resources with DisableUpdates
    CheckedRes,   \* resources with readiness checks
    Deletable,    \* resources someone else may delete downstream
    Orphan,       \* the composition's deletion-strategy is "orphan"
    MaxRV,        \* bound on downstream resourceVersions
    MaxTime,      \* bound on the clock that stamps Ready
    MaxEdits,     \* bound on external changes of downstream objects
    MaxLag,       \* bound on slice watch events not yet in the cache
    Nil           \* an absent value (nil status, nil pointer)

ASSUME GroupAssumption == Group \in [Res -> Nat]
ASSUME ResSetsAssumption ==
    /\ DeletedRes \subseteq Res /\ PatchRes \subseteq Res
    /\ NoUpdateRes \subseteq Res /\ CheckedRes \subseteq Res
    /\ Deletable \subseteq Res
ASSUME OrphanAssumption == Orphan \in BOOLEAN
ASSUME BoundsAssumption ==
    /\ MaxRV \in Nat \ {0} /\ MaxTime \in Nat \ {0}
    /\ MaxEdits \in Nat /\ MaxLag \in Nat \ {0}

VARIABLES
    down,      \* down[r]: the downstream object of r, or Nil
    healthy,   \* healthy[r]: the readiness checks of r pass on it
    lastSeen,  \* lastSeen[r]: observed resourceVersion, 0 for ""
    status,    \* status[r]: ResourceState of r in its slice on the server
    events,    \* slice watch events not yet applied to the cache
    scache,    \* scache[r]: ResourceState of r in the informer cache
    buffer,    \* buffer[r]: the pending StatusPatchFn of r, or Nil
    queued,    \* the resources in the reconciler's workqueue
    now,       \* the clock (time.Now) used for Ready timestamps
    edits,     \* external changes made so far
    readySeen  \* history: resources whose server status has had a Ready

vars == <<down, healthy, lastSeen, status, events, scache, buffer, queued,
          now, edits, readySeen>>

(* A downstream object: its resourceVersion and whether it matches the    *)
(* desired state (so that the merge patch computed for it is empty).      *)
Object == [rv: 1..MaxRV, synced: BOOLEAN]

(* ResourceState; ready = 0 stands for a nil Ready timestamp.             *)
State == [reconciled: BOOLEAN, ready: 0..MaxTime, deleted: BOOLEAN]

(* The arguments of patchResourceState, the function held by the buffer. *)
PatchFn == [deleted: BOOLEAN, ready: 0..MaxTime]

ASSUME NilAssumption == Nil \notin Object \cup State \cup PatchFn

(* nil is no object, whatever its resourceVersion: the bound MaxRV caps  *)
(* the versions the reconciler writes, not what an object could be.      *)
ASSUME NilNotObject == Nil \notin [rv: Nat, synced: BOOLEAN]

(* The resources of strictly lower readiness groups (RangeDesc).          *)
Lower(r) == {d \in Res : Group[d] < Group[r]}

(* A ResourceState that records a Ready time / Reconciled.               *)
HasReady(s) == s # Nil /\ s.ready # 0
IsReconciled(s) == s # Nil /\ s.reconciled

-----------------------------------------------------------------------------
(* getCurrent, lines 500-527.  A resource seen before (and not Deleted)   *)
(* is first read as metadata: a NotFound error is returned with           *)
(* hasChanged = FALSE, and a matching resourceVersion makes current nil   *)
(* and hasChanged FALSE.  Otherwise the full object is read: NotFound     *)
(* gives current nil and hasChanged TRUE.  Reconcile ignores NotFound     *)
(* (line 300).  The result is <<current, hasChanged>>.                    *)
HotPath(r) == lastSeen[r] # 0 /\ r \notin DeletedRes

(* Mutant of GetCurrent: a NotFound on the full read is returned with    *)
(* hasChanged = false, like the metadata read's NotFound (line 524).      *)
GetCurrentNotFoundUnchanged(r) ==
    IF HotPath(r) /\ (down[r] = Nil \/ down[r].rv = lastSeen[r])
      THEN <<Nil, FALSE>>
      ELSE <<down[r], down[r] # Nil>>

GetCurrent(r) ==
    IF HotPath(r) /\ (down[r] = Nil \/ down[r].rv = lastSeen[r])
      THEN <<Nil, FALSE>>
      ELSE <<down[r], TRUE>>

(* Lines 313-322: the Ready time of r.  A Ready time already in the      *)
(* cached slice is reused; otherwise the readiness checks are evaluated   *)
(* on current (no checks: ready now).                                     *)
EvalReady(r, current) ==
    IF ~HasReady(scache[r])
      THEN IF r \notin CheckedRes \/ (current # Nil /\ healthy[r])
             THEN now ELSE 0
      ELSE scache[r].ready

(* Lines 324-339: the readiness-group gate.  A resource that is neither   *)
(* Reconciled (in the cached slice) nor Deleted waits until every         *)
(* resource of a lower group has a Ready time in the cached slice.        *)
(* Mutant of GateBlocks: a lower resource only needs a status entry, the *)
(* "status.Ready == nil" half of line 333 is dropped.                    *)
GateBlocksOnMissingStatus(r) ==
    /\ ~IsReconciled(scache[r])
    /\ r \notin DeletedRes
    /\ \E d \in Lower(r) : scache[d] = Nil

GateBlocks(r) ==
    /\ ~IsReconciled(scache[r])
    /\ r \notin DeletedRes
    /\ \E d \in Lower(r) : ~HasReady(scache[d])

(* buildPatch and mungePatch, lines 452-550: a JSON patch is sent when    *)
(* NeedsToBePatched, a three-way merge patch when desired and current     *)
(* differ; a merge patch that only carries resourceVersion is empty.      *)
PatchNonEmpty(current) == ~current.synced

(* reconcileResource, lines 375-450, as the downstream object it leaves   *)
(* and whether it modified anything: <<object, modified>>.                *)
ReconcileResource(r, current) ==
    IF r \in DeletedRes
      THEN IF current = Nil \/ Orphan THEN <<current, FALSE>>
           ELSE <<Nil, TRUE>>
    ELSE IF current = Nil
      THEN IF r \in PatchRes THEN <<Nil, FALSE>>
           ELSE <<[rv |-> 1, synced |-> TRUE], TRUE>>
    ELSE IF r \in NoUpdateRes \/ ~PatchNonEmpty(current)
      THEN <<current, FALSE>>
    ELSE <<[rv |-> current.rv + 1, synced |-> TRUE], TRUE>>

-----------------------------------------------------------------------------
(* Controller.Reconcile, lines 224-373, for the dequeued resource r.      *)

(* Lines 324-339: blocked by a lower readiness group; no requeue.         *)
ReconcileBlocked(r) ==
    /\ r \in queued
    /\ GateBlocks(r)
    /\ queued' = queued \ {r}
    /\ UNCHANGED <<down, healthy, lastSeen, status, events, scache, buffer,
                   now, edits, readySeen>>

(* Lines 341-356: the resource has changed; the cached resourceVersion is *)
(* invalidated first and reconcileResource modifies the object: requeue.  *)
ReconcileModified(r) ==
    LET cu == GetCurrent(r)
        rr == ReconcileResource(r, cu[1])
    IN /\ r \in queued
       /\ ~GateBlocks(r)
       /\ cu[2] /\ rr[2]
       /\ rr[1] # Nil => rr[1].rv <= MaxRV
       /\ down' = [down EXCEPT ![r] = rr[1]]
       /\ lastSeen' = [lastSeen EXCEPT ![r] = 0]
       /\ UNCHANGED <<healthy, status, events, scache, buffer, queued,
                      now, edits, readySeen>>

(* Lines 345-349: reconcileResource returns an error (a failed create,   *)
(* delete or patch) after the cached resourceVersion was invalidated; the *)
(* item stays queued and is retried with backoff.                         *)
ReconcileFailed(r) ==
    LET cu == GetCurrent(r)
    IN /\ r \in queued
       /\ ~GateBlocks(r)
       /\ cu[2] /\ ReconcileResource(r, cu[1])[2]
       /\ lastSeen' = [lastSeen EXCEPT ![r] = 0]
       /\ UNCHANGED <<down, healthy, status, events, scache, buffer, queued,
                      now, edits, readySeen>>

(* Mutant of ReconcileSettled: the readiness-group gate is checked only  *)
(* on the way to reconcileResource, so a resource that needs no write     *)
(* hands its status to the buffer while the gate would still block it.   *)
ReconcileSettledUngated(r) ==
    LET cu == GetCurrent(r)
        current == cu[1]
        ready == EvalReady(r, current)
    IN /\ r \in queued
       /\ ~(cu[2] /\ ReconcileResource(r, current)[2])
       /\ lastSeen' = [lastSeen EXCEPT ![r] =
                          IF current # Nil THEN current.rv
                          ELSE IF cu[2] THEN 0 ELSE lastSeen[r]]
       /\ buffer' = [buffer EXCEPT ![r] =
                        [deleted |-> current = Nil, ready |-> ready]]
       /\ queued' = IF ready = 0 THEN queued ELSE queued \ {r}
       /\ UNCHANGED <<down, healthy, status, events, scache, now, edits, readySeen>>

(* Lines 357-372: nothing was modified.  The observed resourceVersion is  *)
(* recorded, the status {Deleted: current == nil, Ready, Reconciled} is   *)
(* handed to the write buffer, and r is requeued while it is not ready.   *)
ReconcileSettled(r) ==
    LET cu == GetCurrent(r)
        current == cu[1]
        ready == EvalReady(r, current)
    IN /\ r \in queued
       /\ ~GateBlocks(r)
       /\ ~(cu[2] /\ ReconcileResource(r, current)[2])
       /\ lastSeen' = [lastSeen EXCEPT ![r] =
                          IF current # Nil THEN current.rv
                          ELSE IF cu[2] THEN 0 ELSE lastSeen[r]]
       /\ buffer' = [buffer EXCEPT ![r] =
                        [deleted |-> current = Nil, ready |-> ready]]
       /\ queued' = IF ready = 0 THEN queued ELSE queued \ {r}
       /\ UNCHANGED <<down, healthy, status, events, scache, now, edits, readySeen>>

-----------------------------------------------------------------------------
(* The status write buffer (spec.md 4.B): the pending function of r is    *)
(* applied to the state on the server; patchResourceState (lines         *)
(* 552-563) returns nil, and nothing is written, when the state already   *)
(* equals {Deleted, Ready, Reconciled: true}.                             *)
(* Mutant of PatchResourceState: Reconciled: true is left out of the     *)
(* returned ResourceState (line 560).                                     *)
PatchResourceStateNoReconciled(fn, rs) ==
    IF rs # Nil /\ rs.deleted = fn.deleted /\ rs.reconciled
          /\ rs.ready = fn.ready
      THEN Nil
      ELSE [ready |-> fn.ready, deleted |-> fn.deleted]

PatchResourceState(fn, rs) ==
    IF rs # Nil /\ rs.deleted = fn.deleted /\ rs.reconciled
          /\ rs.ready = fn.ready
      THEN Nil
      ELSE [reconciled |-> TRUE, ready |-> fn.ready, deleted |-> fn.deleted]

FlushStatus(r) ==
    LET new == PatchResourceState(buffer[r], status[r])
    IN /\ buffer[r] # Nil
       /\ buffer' = [buffer EXCEPT ![r] = Nil]
       /\ IF new = Nil
            THEN UNCHANGED <<status, events>>
            ELSE /\ Len(events) < MaxLag
                 /\ status' = [status EXCEPT ![r] = new]
                 /\ events' = Append(events, [res |-> r, state |-> new])
       /\ readySeen' = IF new # Nil /\ new.ready # 0
                          THEN readySeen \cup {r} ELSE readySeen
       /\ UNCHANGED <<down, healthy, lastSeen, scache, queued, now, edits>>

(* The slice informer applies the next event; the reconstitution cache   *)
(* then enqueues the resources of the synthesis (spec.md 4.A, 4.H).      *)
SliceSync ==
    /\ events # << >>
    /\ scache' = [scache EXCEPT ![Head(events).res] = Head(events).state]
    /\ events' = Tail(events)
    /\ queued' = Res
    /\ UNCHANGED <<down, healthy, lastSeen, status, buffer, now, edits, readySeen>>

-----------------------------------------------------------------------------
(* The environment.                                                       *)

(* Time passes. *)
Tick ==
    /\ now < MaxTime
    /\ now' = now + 1
    /\ UNCHANGED <<down, healthy, lastSeen, status, events, scache, buffer,
                   queued, edits, readySeen>>

(* Someone else edits the downstream object of r. *)
ExternalEdit(r) ==
    /\ edits < MaxEdits
    /\ down[r] # Nil /\ down[r].rv < MaxRV
    /\ down' = [down EXCEPT ![r] = [rv |-> down[r].rv + 1, synced |-> FALSE]]
    /\ edits' = edits + 1
    /\ UNCHANGED <<healthy, lastSeen, status, events, scache, buffer, queued, now, readySeen>>

(* Someone else deletes the downstream object of r. *)
ExternalDelete(r) ==
    /\ r \in Deletable
    /\ edits < MaxEdits
    /\ down[r] # Nil
    /\ down' = [down EXCEPT ![r] = Nil]
    /\ edits' = edits + 1
    /\ UNCHANGED <<healthy, lastSeen, status, events, scache, buffer, queued, now, readySeen>>

(* The readiness checks of r start or stop passing.  The status change  *)
(* they observe is a write of the object, which bumps its resourceVersion.*)
ToggleHealth(r) ==
    /\ r \in CheckedRes
    /\ edits < MaxEdits
    /\ ~(down[r] # Nil /\ down[r].rv >= MaxRV)
    /\ healthy' = [healthy EXCEPT ![r] = ~healthy[r]]
    /\ down' = IF down[r] = Nil THEN down
               ELSE [down EXCEPT ![r] = [rv |-> down[r].rv + 1,
                                          synced |-> down[r].synced]]
    /\ edits' = edits + 1
    /\ UNCHANGED <<lastSeen, status, events, scache, buffer, queued, now, readySeen>>

-----------------------------------------------------------------------------
(* The synthesis has just been written: no downstream objects, no status, *)
(* every resource enqueued by the cache fill.                             *)
Init ==
    /\ down = [r \in Res |-> Nil]
    /\ healthy \in {h \in [Res -> BOOLEAN] : \A r \in Res \ CheckedRes : h[r]}
    /\ lastSeen = [r \in Res |-> 0]
    /\ status = [r \in Res |-> Nil]
    /\ events = << >>
    /\ scache = [r \in Res |-> Nil]
    /\ buffer = [r \in Res |-> Nil]
    /\ queued = Res
    /\ now = 1
    /\ edits = 0
    /\ readySeen = {}

(* A Reconcile that returns without an error from the API server. *)
ReconcileOK(r) == ReconcileBlocked(r) \/ ReconcileModified(r) \/ ReconcileSettled(r)

Reconcile(r) == ReconcileOK(r) \/ ReconcileFailed(r)

Next ==
    \/ \E r \in Res : Reconcile(r) \/ FlushStatus(r)
    \/ SliceSync
    \/ Tick
    \/ \E r \in Res : ExternalEdit(r) \/ ExternalDelete(r) \/ ToggleHealth(r)

(* The workers, the buffer and the informer keep running, and the API    *)
(* server's errors are transient: a queued resource is eventually          *)
(* reconciled without one (the workqueue retries it with backoff).        *)
Fairness ==
    /\ \A r \in Res : WF_vars(ReconcileOK(r)) /\ WF_vars(FlushStatus(r))
    /\ WF_vars(SliceSync)

Spec == Init /\ [][Next]_vars /\ Fairness

-----------------------------------------------------------------------------
(* Every variable has its type.                                           *)
TypeOK ==
    /\ down \in [Res -> Object \cup {Nil}]
    /\ healthy \in [Res -> BOOLEAN]
    /\ lastSeen \in [Res -> 0..MaxRV]
    /\ status \in [Res -> State \cup {Nil}]
    /\ events \in Seq([res: Res, state: State])
    /\ scache \in [Res -> State \cup {Nil}]
    /\ buffer \in [Res -> PatchFn \cup {Nil}]
    /\ queued \subseteq Res
    /\ now \in 1..MaxTime
    /\ edits \in 0..MaxEdits
    /\ readySeen \subseteq Res

(* A step of the reconciler (not of someone else) that creates or updates *)
(* the downstream object of r.                                            *)
Written(r) == edits' = edits /\ down'[r] # Nil /\ down'[r] # down[r]

(* spec.md 8.4 (and the ascending resourceVersions ordering_test.go lines *)
(* 103-122 assert): the reconciler creates or updates a resource only     *)
(* while every resource of a strictly lower readiness group has a Ready   *)
(* time in its slice status on the server.                                *)
ReadinessOrder ==
    [][\A r \in Res : Written(r) =>
          \A d \in Lower(r) : HasReady(status[d])]_vars

(* What the gate of lines 324-339 guarantees although it reads a lagging *)
(* cache: the reconciler creates or updates a resource only after every   *)
(* resource of a strictly lower readiness group has had a Ready time in   *)
(* its slice status on the server (the cache never shows a Ready that was *)
(* not written there).                                                    *)
WrittenAfterLowerReady ==
    \A r \in Res : Written(r) => Lower(r) \subseteq readySeen

ReadinessOrderOnce == [][WrittenAfterLowerReady]_vars

(* spec.md 8.6: a Ready time, once in the slice status, stays as it is.   *)
ReadyStable ==
    [][\A r \in Res : HasReady(status[r])
          => HasReady(status'[r]) /\ status'[r].ready = status[r].ready]_vars

(* spec.md 4.H step 9: the Deleted flag written to the slice status says  *)
(* that the downstream object is gone.                                    *)
StatusDeletedMeansAbsent ==
    \A r \in Res : status[r] # Nil /\ status[r].deleted => down[r] = Nil

(* The resources the reconciler keeps present downstream.                 *)
Managed == Res \ (DeletedRes \cup PatchRes)

(* spec.md 7 (NotFound on the read of current is the create path) and    *)
(* 4.H: when the readiness checks eventually pass for good, every managed *)
(* resource is eventually present downstream, and stays so, whatever was  *)
(* deleted or edited by someone else before.                              *)
Converges ==
    (<>[](\A r \in CheckedRes : healthy[r]))
        => <>[](\A r \in Managed : down[r] # Nil)


(* ReconcilerPromise under the identity mapping.                          *)
Promise == INSTANCE ReconcilerPromise

(* What the reconciler promises (ReconcilerPromise): downstream writes    *)
(* wait for the lower readiness groups to have been Ready on the server   *)
(* (lines 324-356), only resources marked Deleted are removed (lines      *)
(* 383-397), and the status the buffer writes is always Reconciled and,   *)
(* for a resource kept downstream, written only after it passed the gate  *)
(* (lines 357-365 and patchResourceState, lines 552-563).                 *)
PromiseRefinement == Promise!Spec
=============================================================================
