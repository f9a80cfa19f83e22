---------------------- MODULE ResourceReconcilerProofs ----------------------
(***************************************************************************)
(* Proofs about ResourceReconciler that hold for every value of the        *)
(* constants: the type invariant, and the readiness-group order that the   *)
(* gate of Controller.Reconcile guarantees although it reads a lagging    *)
(* slice cache, and that the loop implements ReconcilerPromise.           *)
(***************************************************************************)
EXTENDS ResourceReconciler, SequenceTheorems, TLAPS

(* The value getCurrent returns as current is an object or Nil.          *)
LEMMA GetCurrentType ==
    ASSUME TypeOK, NEW r \in Res
    PROVE  GetCurrent(r)[1] \in Object \cup {Nil} /\ GetCurrent(r)[2] \in BOOLEAN
BY DEF GetCurrent, TypeOK

(* reconcileResource leaves an object or Nil, once the new resourceVersion *)
(* is within the bound.                                                   *)
LEMMA ReconcileResourceType ==
    ASSUME NEW r \in Res, NEW cur \in Object \cup {Nil},
           ReconcileResource(r, cur)[1] # Nil
              => ReconcileResource(r, cur)[1].rv <= MaxRV
    PROVE  ReconcileResource(r, cur)[1] \in Object \cup {Nil}
           /\ ReconcileResource(r, cur)[2] \in BOOLEAN
<1>1. 1 <= MaxRV
  BY BoundsAssumption
<1>2. QED
  BY <1>1, BoundsAssumption DEF ReconcileResource, Object, PatchNonEmpty

(* The Ready time Reconcile computes is a clock value or 0 (nil).         *)
LEMMA EvalReadyType ==
    ASSUME TypeOK, NEW r \in Res, NEW cur \in Object \cup {Nil}
    PROVE  EvalReady(r, cur) \in 0..MaxTime
BY BoundsAssumption DEF EvalReady, HasReady, TypeOK, State

(* The resourceVersion Reconcile records after a settled pass.           *)
LEMMA ObservedVersionType ==
    ASSUME TypeOK, NEW r \in Res, NEW cur \in Object \cup {Nil}, NEW ch \in BOOLEAN
    PROVE  (IF cur # Nil THEN cur.rv ELSE IF ch THEN 0 ELSE lastSeen[r]) \in 0..MaxRV
BY BoundsAssumption DEF TypeOK, Object

(* patchResourceState returns a ResourceState or nil.                      *)
LEMMA PatchResourceStateType ==
    ASSUME NEW fn \in PatchFn, NEW rs \in State \cup {Nil}
    PROVE  PatchResourceState(fn, rs) \in State \cup {Nil}
BY DEF PatchResourceState, PatchFn, State

(* The type invariant holds initially and is kept by every step.          *)
LEMMA TypeInit == Init => TypeOK
<1> SUFFICES ASSUME Init PROVE TypeOK
  OBVIOUS
<1>1. events \in Seq([res: Res, state: State])
  BY EmptySeq DEF Init
<1>2. 1 \in 1..MaxTime /\ 0 \in 0..MaxRV /\ 0 \in 0..MaxEdits
  BY BoundsAssumption
<1>3. healthy \in [Res -> BOOLEAN]
  BY DEF Init
<1>4. QED
  BY <1>1, <1>2, <1>3 DEF Init, TypeOK
LEMMA TypeStep == TypeOK /\ [Next]_vars => TypeOK'
<1> SUFFICES ASSUME TypeOK, [Next]_vars PROVE TypeOK'
  OBVIOUS
<1> USE BoundsAssumption
<1>1. ASSUME NEW r \in Res, ReconcileBlocked(r) PROVE TypeOK'
  BY <1>1 DEF ReconcileBlocked, TypeOK
<1>2. ASSUME NEW r \in Res, ReconcileModified(r) PROVE TypeOK'
  <2> DEFINE cu == GetCurrent(r)
             rr == ReconcileResource(r, cu[1])
  <2>1. cu[1] \in Object \cup {Nil}
    BY GetCurrentType
  <2>2. rr[1] \in Object \cup {Nil}
    BY <1>2, <2>1, ReconcileResourceType DEF ReconcileModified
  <2>3. down' = [down EXCEPT ![r] = rr[1]] /\ lastSeen' = [lastSeen EXCEPT ![r] = 0]
    BY <1>2 DEF ReconcileModified
  <2>4. QED
    BY <1>2, <2>2, <2>3 DEF ReconcileModified, TypeOK
<1>3. ASSUME NEW r \in Res, ReconcileFailed(r) PROVE TypeOK'
  BY <1>3 DEF ReconcileFailed, TypeOK
<1>4. ASSUME NEW r \in Res, ReconcileSettled(r) PROVE TypeOK'
  <2> DEFINE cu == GetCurrent(r)
             current == cu[1]
             ready == EvalReady(r, current)
  <2>1. current \in Object \cup {Nil} /\ cu[2] \in BOOLEAN
    BY GetCurrentType
  <2>2. ready \in 0..MaxTime
    BY <2>1, EvalReadyType
  <2>3. [deleted |-> current = Nil, ready |-> ready] \in PatchFn
    BY <2>2 DEF PatchFn
  <2>4. (IF current # Nil THEN current.rv
         ELSE IF cu[2] THEN 0 ELSE lastSeen[r]) \in 0..MaxRV
    BY <2>1, ObservedVersionType
  <2>5. QED
    BY <1>4, <2>3, <2>4 DEF ReconcileSettled, TypeOK
<1>5. ASSUME NEW r \in Res, FlushStatus(r) PROVE TypeOK'
  <2> DEFINE new == PatchResourceState(buffer[r], status[r])
  <2>1. buffer[r] \in PatchFn /\ status[r] \in State \cup {Nil}
    BY <1>5 DEF FlushStatus, TypeOK
  <2>2. new \in State \cup {Nil}
    BY <2>1, PatchResourceStateType
  <2>3. CASE new = Nil
    BY <1>5, <2>3 DEF FlushStatus, TypeOK
  <2>4. CASE new # Nil
    <3>1. new \in State
      BY <2>2, <2>4
    <3>2. [res |-> r, state |-> new] \in [res: Res, state: State]
      BY <3>1
    <3>3. events' = Append(events, [res |-> r, state |-> new])
      BY <1>5, <2>4 DEF FlushStatus
    <3>5. events' \in Seq([res: Res, state: State])
      BY <3>2, <3>3, AppendProperties DEF TypeOK
    <3>4. QED
      BY <1>5, <2>4, <3>1, <3>5 DEF FlushStatus, TypeOK
  <2>5. QED
    BY <2>3, <2>4
<1>6. CASE SliceSync
  <2>1. Head(events) \in [res: Res, state: State]
        /\ Tail(events) \in Seq([res: Res, state: State])
    BY <1>6, HeadTailProperties DEF SliceSync, TypeOK
  <2>2. QED
    BY <1>6, <2>1 DEF SliceSync, TypeOK
<1>7. CASE Tick
  BY <1>7 DEF Tick, TypeOK
<1>8. ASSUME NEW r \in Res, ExternalEdit(r) PROVE TypeOK'
  BY <1>8 DEF ExternalEdit, TypeOK, Object
<1>9. ASSUME NEW r \in Res, ExternalDelete(r) PROVE TypeOK'
  BY <1>9 DEF ExternalDelete, TypeOK
<1>10. ASSUME NEW r \in Res, ToggleHealth(r) PROVE TypeOK'
  <2>1. CASE down[r] = Nil
    BY <1>10, <2>1 DEF ToggleHealth, TypeOK
  <2>2. CASE down[r] # Nil
    <3>1. down[r] \in Object /\ down[r].rv < MaxRV
      <4>1. down[r] \in Object
        BY <2>2 DEF TypeOK
      <4>2. ~(down[r] # Nil /\ down[r].rv >= MaxRV)
        BY <1>10 DEF ToggleHealth
      <4>3. QED
        BY <2>2, <4>1, <4>2 DEF Object
    <3>2. [rv |-> down[r].rv + 1, synced |-> down[r].synced] \in Object
      BY <3>1 DEF Object
    <3>3. QED
      BY <1>10, <2>2, <3>2 DEF ToggleHealth, TypeOK
  <2>3. QED
    BY <2>1, <2>2
<1>11. CASE UNCHANGED vars
  BY <1>11 DEF vars, TypeOK
<1>12. QED
  BY <1>1, <1>2, <1>3, <1>4, <1>5, <1>6, <1>7, <1>8, <1>9, <1>10, <1>11
     DEF Next, Reconcile, ReconcileOK

(* Every reachable state is well typed.                                   *)
THEOREM TypeCorrect == Spec => []TypeOK
BY TypeInit, TypeStep, PTL DEF Spec
-----------------------------------------------------------------------------
(* The inductive invariant behind ReadinessOrderOnce.  The gate reads the  *)
(* slice cache, so the invariant says what the cache, the watch stream and *)
(* the write buffer can hold: a Ready only for a resource whose server    *)
(* status has had one, and a Reconciled state, an event or a pending      *)
(* status write only for a resource that has passed the gate.             *)
GatePassed(r) == Lower(r) \subseteq readySeen

ReadyRecorded ==
    /\ \A r \in Res : HasReady(scache[r]) => r \in readySeen
    /\ \A i \in 1..Len(events) :
          HasReady(events[i].state) => events[i].res \in readySeen

ReconciledAfterGate ==
    \A r \in Res \ DeletedRes :
       /\ IsReconciled(scache[r]) => GatePassed(r)
       /\ buffer[r] # Nil => GatePassed(r)
       /\ \A i \in 1..Len(events) : events[i].res = r => GatePassed(r)

IInv == TypeOK /\ ReadyRecorded /\ ReconciledAfterGate

(* A resource the gate lets through, and that is not Deleted, has its     *)
(* lower readiness groups in readySeen.                                   *)
LEMMA GateOpen ==
    ASSUME IInv, NEW r \in Res \ DeletedRes, ~GateBlocks(r)
    PROVE  GatePassed(r)
<1>1. CASE IsReconciled(scache[r])
  BY <1>1 DEF IInv, ReconciledAfterGate
<1>2. CASE ~IsReconciled(scache[r])
  <2>1. \A d \in Lower(r) : HasReady(scache[d])
    BY <1>2 DEF GateBlocks
  <2>2. QED
    BY <2>1 DEF IInv, ReadyRecorded, GatePassed, Lower
<1>3. QED
  BY <1>1, <1>2

(* reconcileResource only deletes a resource marked Deleted.              *)
LEMMA DeletedOnlyDeletes ==
    ASSUME NEW r \in DeletedRes, NEW cur, ReconcileResource(r, cur)[2]
    PROVE  ReconcileResource(r, cur)[1] = Nil
BY DEF ReconcileResource

LEMMA IInvInit == Init => IInv
<1> SUFFICES ASSUME Init PROVE IInv
  OBVIOUS
<1>1. TypeOK
  BY TypeInit
<1>2. ReadyRecorded /\ ReconciledAfterGate
  BY DEF Init, ReadyRecorded, ReconciledAfterGate, HasReady, IsReconciled
<1>3. QED
  BY <1>1, <1>2 DEF IInv
(* A step that leaves the cache, the stream, the buffer and readySeen     *)
(* alone keeps the invariant's non-type conjuncts.                        *)
LEMMA FrameKeepsIInv ==
    ASSUME ReadyRecorded, ReconciledAfterGate,
           UNCHANGED <<scache, events, buffer, readySeen>>
    PROVE  ReadyRecorded' /\ ReconciledAfterGate'
BY DEF ReadyRecorded, ReconciledAfterGate, GatePassed

(* The settled branch hands a status write to the buffer only for a       *)
(* resource that passed the gate.                                         *)
LEMMA SettledKeepsIInv ==
    ASSUME IInv, NEW r \in Res, ReconcileSettled(r)
    PROVE  ReadyRecorded' /\ ReconciledAfterGate'
<1>1. UNCHANGED <<scache, events, readySeen>>
  BY DEF ReconcileSettled
<1>2. ReadyRecorded'
  BY <1>1 DEF IInv, ReadyRecorded
<1>3. r \notin DeletedRes => GatePassed(r)
  <2>1. ~GateBlocks(r)
    BY DEF ReconcileSettled
  <2>2. QED
    BY <2>1, GateOpen
<1>4. \E fn : buffer' = [buffer EXCEPT ![r] = fn]
  BY DEF ReconcileSettled
<1>5. ReconciledAfterGate'
  BY <1>1, <1>3, <1>4 DEF IInv, ReconciledAfterGate, GatePassed, TypeOK
<1>6. QED
  BY <1>2, <1>5

(* The buffer writes a state to the server and publishes it: an event     *)
(* with a Ready goes with r entering readySeen, and r had passed the gate *)
(* when its write was buffered.                                           *)
LEMMA FlushKeepsIInv ==
    ASSUME IInv, NEW r \in Res, FlushStatus(r)
    PROVE  ReadyRecorded' /\ ReconciledAfterGate'
<1> DEFINE new == PatchResourceState(buffer[r], status[r])
<1>1. buffer[r] # Nil /\ buffer' = [buffer EXCEPT ![r] = Nil] /\ scache' = scache
  BY DEF FlushStatus
<1>2. readySeen \subseteq readySeen'
  BY DEF FlushStatus
<1>3. r \notin DeletedRes => GatePassed(r)
  BY <1>1 DEF IInv, ReconciledAfterGate
<1>4. CASE new = Nil
  <2>1. UNCHANGED <<events, readySeen>>
    BY <1>4 DEF FlushStatus
  <2>2. QED
    BY <1>1, <2>1 DEF IInv, TypeOK, ReadyRecorded, ReconciledAfterGate, GatePassed
<1>5. CASE new # Nil
  <2> DEFINE e == [res |-> r, state |-> new]
  <2>1. events' = Append(events, e)
    BY <1>5 DEF FlushStatus
  <2>2. HasReady(new) => r \in readySeen'
    BY <1>5 DEF FlushStatus, HasReady
  <2>3. events \in Seq([res: Res, state: State])
    BY DEF IInv, TypeOK
  <2>4. /\ Len(events') = Len(events) + 1
        /\ \A i \in 1..Len(events) : events'[i] = events[i]
        /\ events'[Len(events) + 1] = e
    BY <2>1, <2>3, AppendProperties
  <2>5. \A i \in 1..Len(events') : i \in 1..Len(events) \/ i = Len(events) + 1
    BY <2>3, <2>4
  <2>6. ReadyRecorded'
    <3>1. \A q \in Res : HasReady(scache'[q]) => q \in readySeen'
      BY <1>1, <1>2 DEF IInv, ReadyRecorded
    <3>2. \A i \in 1..Len(events) :
             HasReady(events'[i].state) => events'[i].res \in readySeen'
      BY <1>2, <2>4 DEF IInv, ReadyRecorded
    <3>3. HasReady(e.state) => e.res \in readySeen'
      BY <2>2
    <3>4. \A i \in 1..Len(events') :
             HasReady(events'[i].state) => events'[i].res \in readySeen'
      <4>1. TAKE i \in 1..Len(events')
      <4>2. CASE i \in 1..Len(events)
        BY <3>2, <4>2
      <4>3. CASE i = Len(events) + 1
        <5>1. events'[i] = e
          BY <2>4, <4>3
        <5>2. QED
          BY <3>3, <5>1
      <4>4. QED
        BY <2>5, <4>2, <4>3
    <3>5. QED
      BY <3>1, <3>4 DEF ReadyRecorded
  <2>7. ReconciledAfterGate'
    <3>1. \A q \in Res \ DeletedRes : GatePassed(q) => GatePassed(q)'
      BY <1>2 DEF GatePassed
    <3>2. \A q \in Res \ DeletedRes : IsReconciled(scache'[q]) => GatePassed(q)'
      BY <1>1, <3>1 DEF IInv, ReconciledAfterGate
    <3>3. \A q \in Res \ DeletedRes : buffer'[q] # Nil => GatePassed(q)'
      BY <1>1, <3>1 DEF IInv, ReconciledAfterGate, TypeOK
    <3>4. \A q \in Res \ DeletedRes : \A i \in 1..Len(events) :
             events'[i].res = q => GatePassed(q)'
      BY <2>4, <3>1 DEF IInv, ReconciledAfterGate
    <3>5. \A q \in Res \ DeletedRes : e.res = q => GatePassed(q)'
      BY <1>3, <3>1
    <3>6. \A q \in Res \ DeletedRes : \A i \in 1..Len(events') :
             events'[i].res = q => GatePassed(q)'
      <4>1. SUFFICES ASSUME NEW q \in Res \ DeletedRes, NEW i \in 1..Len(events'),
                            events'[i].res = q
                     PROVE  GatePassed(q)'
        OBVIOUS
      <4>2. CASE i \in 1..Len(events)
        BY <3>4, <4>1, <4>2
      <4>3. CASE i = Len(events) + 1
        <5>1. events'[i] = e
          BY <2>4, <4>3
        <5>2. QED
          BY <3>5, <4>1, <5>1
      <4>4. QED
        BY <2>5, <4>2, <4>3
    <3>7. QED
      BY <3>2, <3>3, <3>6 DEF ReconciledAfterGate
  <2>8. QED
    BY <2>6, <2>7
<1>6. QED
  BY <1>4, <1>5

(* The informer applies the oldest event to the cache: what the cache     *)
(* gains, the stream had.                                                 *)
LEMMA SyncKeepsIInv ==
    ASSUME IInv, SliceSync
    PROVE  ReadyRecorded' /\ ReconciledAfterGate'
<1> DEFINE h == Head(events)
<1>1. events \in Seq([res: Res, state: State]) /\ events # << >>
  BY DEF IInv, TypeOK, SliceSync
<1>2. scache' = [scache EXCEPT ![h.res] = h.state] /\ events' = Tail(events)
      /\ UNCHANGED <<buffer, readySeen>>
  BY DEF SliceSync
<1>3. h = events[1] /\ Len(events) >= 1
  BY <1>1, EmptySeq, HeadTailProperties
<1>4. Len(events') = Len(events) - 1
      /\ \A i \in 1..Len(events') : events'[i] = events[i + 1]
  BY <1>1, <1>2, HeadTailProperties
<1>5. h \in [res: Res, state: State]
  BY <1>1, HeadTailProperties
<1>6. HasReady(h.state) => h.res \in readySeen
  BY <1>3 DEF IInv, ReadyRecorded
<1>7. h.res \notin DeletedRes => GatePassed(h.res)
  <2>1. 1 \in 1..Len(events)
    BY <1>3
  <2>2. QED
    BY <1>3, <1>5, <2>1 DEF IInv, ReconciledAfterGate
<1>8. ReadyRecorded'
  BY <1>2, <1>4, <1>5, <1>6 DEF IInv, ReadyRecorded, TypeOK
<1>9. ReconciledAfterGate'
  BY <1>2, <1>4, <1>5, <1>7 DEF IInv, ReconciledAfterGate, GatePassed, TypeOK
<1>10. QED
  BY <1>8, <1>9
LEMMA IInvStep == IInv /\ [Next]_vars => IInv'
<1> SUFFICES ASSUME IInv, [Next]_vars PROVE IInv'
  OBVIOUS
<1>1. TypeOK'
  BY TypeStep DEF IInv
<1>2. ReadyRecorded /\ ReconciledAfterGate
  BY DEF IInv
<1>3. ASSUME NEW r \in Res,
             ReconcileBlocked(r) \/ ReconcileModified(r) \/ ReconcileFailed(r)
      PROVE  ReadyRecorded' /\ ReconciledAfterGate'
  <2>1. UNCHANGED <<scache, events, buffer, readySeen>>
    BY <1>3 DEF ReconcileBlocked, ReconcileModified, ReconcileFailed
  <2>2. QED
    BY <1>2, <2>1, FrameKeepsIInv
<1>4. ASSUME NEW r \in Res, ReconcileSettled(r)
      PROVE  ReadyRecorded' /\ ReconciledAfterGate'
  BY <1>4, SettledKeepsIInv
<1>5. ASSUME NEW r \in Res, FlushStatus(r)
      PROVE  ReadyRecorded' /\ ReconciledAfterGate'
  BY <1>5, FlushKeepsIInv
<1>6. CASE SliceSync
  BY <1>1, <1>6, SyncKeepsIInv DEF IInv
<1>7. ASSUME NEW r \in Res, ExternalEdit(r) \/ ExternalDelete(r) \/ ToggleHealth(r)
      PROVE  ReadyRecorded' /\ ReconciledAfterGate'
  <2>1. UNCHANGED <<scache, events, buffer, readySeen>>
    BY <1>7 DEF ExternalEdit, ExternalDelete, ToggleHealth
  <2>2. QED
    BY <1>2, <2>1, FrameKeepsIInv
<1>8. CASE Tick \/ UNCHANGED vars
  <2>1. UNCHANGED <<scache, events, buffer, readySeen>>
    BY <1>8 DEF Tick, vars
  <2>2. QED
    BY <1>1, <1>2, <2>1, FrameKeepsIInv DEF IInv
<1>9. QED
  BY <1>1, <1>3, <1>4, <1>5, <1>6, <1>7, <1>8 DEF Next, Reconcile, ReconcileOK, IInv

(* The invariant holds in every reachable state.                          *)
THEOREM IInvHolds == Spec => []IInv
BY IInvInit, IInvStep, PTL DEF Spec

(* Only ReconcileModified writes a downstream object without counting as  *)
(* an external change, and it does so after the gate let it through.      *)
LEMMA OrderStep == IInv /\ [Next]_vars => [WrittenAfterLowerReady]_vars
<1> SUFFICES ASSUME IInv, [Next]_vars, NEW r \in Res, Written(r)
             PROVE  Lower(r) \subseteq readySeen
  BY DEF WrittenAfterLowerReady
<1>1. edits' = edits /\ down'[r] # Nil /\ down'[r] # down[r]
  BY DEF Written
<1>2. ASSUME NEW q \in Res, ReconcileModified(q) PROVE Lower(r) \subseteq readySeen
  <2> DEFINE cu == GetCurrent(q)
             rr == ReconcileResource(q, cu[1])
  <2>1. down' = [down EXCEPT ![q] = rr[1]] /\ rr[2] /\ ~GateBlocks(q)
    BY <1>2 DEF ReconcileModified
  <2>2. r = q /\ rr[1] # Nil
    BY <1>1, <2>1 DEF IInv, TypeOK
  <2>3. q \notin DeletedRes
    BY <2>1, <2>2, DeletedOnlyDeletes
  <2>4. QED
    BY <2>1, <2>2, <2>3, GateOpen DEF GatePassed
<1>3. ASSUME NEW q \in Res,
             \/ ReconcileBlocked(q) \/ ReconcileFailed(q) \/ ReconcileSettled(q)
             \/ FlushStatus(q)
      PROVE  FALSE
  BY <1>1, <1>3 DEF ReconcileBlocked, ReconcileFailed, ReconcileSettled, FlushStatus
<1>4. ASSUME NEW q \in Res, ExternalEdit(q) \/ ExternalDelete(q) \/ ToggleHealth(q)
      PROVE  FALSE
  BY <1>1, <1>4, BoundsAssumption DEF ExternalEdit, ExternalDelete, ToggleHealth, IInv, TypeOK
<1>5. CASE SliceSync \/ Tick \/ UNCHANGED vars
  BY <1>1, <1>5 DEF SliceSync, Tick, vars
<1>6. QED
  BY <1>2, <1>3, <1>4, <1>5 DEF Next, Reconcile, ReconcileOK

(* The readiness-group order the gate of Controller.Reconcile (lines      *)
(* 324-339) guarantees, for any resources, groups, bounds and cache lag: *)
(* a resource is created or updated only after every resource of a lower  *)
(* group has had a Ready time in its slice status on the server.          *)
THEOREM ReadinessOrderOnceHolds == Spec => ReadinessOrderOnce
BY IInvHolds, OrderStep, PTL DEF Spec, ReadinessOrderOnce
-----------------------------------------------------------------------------
(* ResourceReconciler implements ReconcilerPromise.                       *)

(* Every object the reconciler or someone else leaves downstream is an    *)
(* Object of the abstract module, and Nil is the same.                    *)
LEMMA PromiseInit == Init => Promise!Init
BY DEF Init, Promise!Init

(* A step of reconcileResource that modifies r is an abstract Write of a  *)
(* resource kept downstream, or a Remove of one marked Deleted.           *)
LEMMA ModifiedStep ==
    ASSUME IInv, NEW r \in Res, ReconcileModified(r)
    PROVE  Promise!Write(r) \/ Promise!Remove(r)
<1> DEFINE cu == GetCurrent(r)
           rr == ReconcileResource(r, cu[1])
<1>1. /\ down' = [down EXCEPT ![r] = rr[1]]
      /\ rr[2] /\ ~GateBlocks(r)
      /\ rr[1] # Nil => rr[1].rv <= MaxRV
      /\ UNCHANGED <<status, edits, readySeen>>
  BY DEF ReconcileModified
<1>2. rr[1] \in Object \cup {Nil}
  BY <1>1, GetCurrentType, ReconcileResourceType DEF IInv
<1>3. CASE r \in DeletedRes
  <2>1. rr[1] = Nil
    BY <1>1, <1>3, DeletedOnlyDeletes
  <2>2. QED
    BY <1>1, <1>3, <2>1 DEF Promise!Remove
<1>4. CASE r \notin DeletedRes
  <2>1. rr[1] # Nil
    <3>1. cu[1] \in Object \cup {Nil}
      BY GetCurrentType DEF IInv
    <3>2. rr[1] \in [rv: Nat, synced: BOOLEAN]
      BY <1>1, <1>4, <3>1, BoundsAssumption DEF ReconcileResource, Object
    <3>3. QED
      BY <3>2, NilNotObject
  <2>2. GatePassed(r)
    BY <1>1, <1>4, GateOpen
  <2>3. QED
    BY <1>1, <1>2, <1>4, <2>1, <2>2 DEF Promise!Write, Promise!GatePassed,
       GatePassed, Promise!Lower, Lower, Promise!Object, Object
<1>5. QED
  BY <1>3, <1>4

(* A status write that reaches the server is an abstract RecordStatus:    *)
(* it is Reconciled, and the pending write it comes from was buffered     *)
(* after the gate.                                                        *)
LEMMA FlushStep ==
    ASSUME IInv, NEW r \in Res, FlushStatus(r)
    PROVE  Promise!RecordStatus(r) \/ UNCHANGED Promise!vars
<1> DEFINE new == PatchResourceState(buffer[r], status[r])
<1>1. buffer[r] # Nil /\ UNCHANGED <<down, edits>>
  BY DEF FlushStatus
<1>2. CASE new = Nil
  BY <1>1, <1>2 DEF FlushStatus, Promise!vars
<1>3. CASE new # Nil
  <2>1. new \in State
    BY <1>1, <1>3, PatchResourceStateType DEF IInv, TypeOK
  <2>2. new.reconciled
    BY <1>3 DEF PatchResourceState
  <2>3. /\ status' = [status EXCEPT ![r] = new]
        /\ readySeen' = IF new.ready # 0 THEN readySeen \cup {r} ELSE readySeen
    BY <1>3 DEF FlushStatus
  <2>4. r \notin DeletedRes => GatePassed(r)
    BY <1>1 DEF IInv, ReconciledAfterGate
  <2>5. QED
    BY <1>1, <2>1, <2>2, <2>3, <2>4 DEF Promise!RecordStatus, Promise!State,
       State, Promise!GatePassed, GatePassed, Promise!Lower, Lower
<1>4. QED
  BY <1>2, <1>3

(* Changes made by someone else are abstract External steps.              *)
LEMMA ExternalStep ==
    ASSUME TypeOK, NEW r \in Res,
           ExternalEdit(r) \/ ExternalDelete(r) \/ ToggleHealth(r)
    PROVE  Promise!External(r)
<1>1. /\ edits < MaxEdits /\ edits' = edits + 1
      /\ UNCHANGED <<status, readySeen>>
  BY DEF ExternalEdit, ExternalDelete, ToggleHealth
<1>2. SUFFICES \E o \in Object \cup {Nil} :
                  /\ o = Nil /\ down[r] # Nil => r \in Deletable
                  /\ down' = [down EXCEPT ![r] = o]
  BY <1>1 DEF Promise!External, Promise!Object, Object
<1>3. ASSUME down[r] # Nil, down[r].rv < MaxRV, NEW sy \in BOOLEAN
      PROVE  [rv |-> down[r].rv + 1, synced |-> sy] \in Object
  <2>1. down[r] \in Object
    BY <1>3, NilAssumption DEF TypeOK
  <2>2. down[r].rv + 1 \in 1..MaxRV
    BY <1>3, <2>1, BoundsAssumption DEF Object
  <2>3. QED
    BY <1>3, <2>2 DEF Object
<1>4. CASE ExternalEdit(r)
  <2> DEFINE o == [rv |-> down[r].rv + 1, synced |-> FALSE]
  <2>1. down[r] # Nil /\ down[r].rv < MaxRV
    BY <1>4 DEF ExternalEdit
  <2>2. o \in Object
    BY <1>3, <2>1
  <2> USE <2>2
  <2>3. WITNESS o \in Object \cup {Nil}
  <2>4. QED
    BY <1>4, <2>2, NilAssumption DEF ExternalEdit
<1>5. CASE ExternalDelete(r)
  BY <1>5 DEF ExternalDelete
<1>6. CASE ToggleHealth(r) /\ down[r] = Nil
  <2>1. down' = [down EXCEPT ![r] = Nil]
    BY <1>6 DEF ToggleHealth, TypeOK
  <2>2. QED
    BY <1>6, <2>1
<1>7. CASE ToggleHealth(r) /\ down[r] # Nil
  <2> DEFINE o == [rv |-> down[r].rv + 1, synced |-> down[r].synced]
  <2>1. down[r] \in Object
    BY <1>7, NilAssumption DEF TypeOK
  <2>2. down[r].rv < MaxRV /\ down[r].synced \in BOOLEAN
    BY <1>7, <2>1, BoundsAssumption DEF ToggleHealth, Object
  <2>3. o \in Object
    BY <1>3, <1>7, <2>2
  <2> USE <2>3
  <2>4. WITNESS o \in Object \cup {Nil}
  <2>5. QED
    BY <1>7, <2>3, NilAssumption DEF ToggleHealth
<1>8. QED
  BY <1>4, <1>5, <1>6, <1>7

(* Every step of the reconciler, the buffer, the informer and the         *)
(* environment is a step of ReconcilerPromise or leaves its variables     *)
(* alone.                                                                 *)
LEMMA PromiseStep == IInv /\ [Next]_vars => [Promise!Next]_Promise!vars
<1> SUFFICES ASSUME IInv, [Next]_vars PROVE [Promise!Next]_Promise!vars
  OBVIOUS
<1>1. ASSUME NEW r \in Res, ReconcileModified(r) PROVE Promise!Next
  BY <1>1, ModifiedStep DEF Promise!Next
<1>2. ASSUME NEW r \in Res, FlushStatus(r) PROVE [Promise!Next]_Promise!vars
  BY <1>2, FlushStep DEF Promise!Next
<1>3. ASSUME NEW r \in Res, ExternalEdit(r) \/ ExternalDelete(r) \/ ToggleHealth(r)
      PROVE  Promise!Next
  BY <1>3, ExternalStep DEF Promise!Next, IInv
<1>4. ASSUME NEW r \in Res,
             ReconcileBlocked(r) \/ ReconcileFailed(r) \/ ReconcileSettled(r)
      PROVE  UNCHANGED Promise!vars
  BY <1>4 DEF ReconcileBlocked, ReconcileFailed, ReconcileSettled, Promise!vars
<1>5. CASE SliceSync \/ Tick \/ UNCHANGED vars
  BY <1>5 DEF SliceSync, Tick, vars, Promise!vars
<1>6. QED
  BY <1>1, <1>2, <1>3, <1>4, <1>5 DEF Next, Reconcile, ReconcileOK

(* The reconciliation loop keeps the promises of ReconcilerPromise for   *)
(* any resources, readiness groups, bounds and cache lag: downstream      *)
(* writes and status writes wait for the gate of lines 324-339 on the     *)
(* server's history, only resources marked Deleted are removed, and every *)
(* status written is Reconciled.                                          *)
THEOREM PromiseHolds == Spec => PromiseRefinement
<1>1. Init => Promise!Init
  BY PromiseInit
<1>2. [][Next]_vars /\ []IInv => [][Promise!Next]_Promise!vars
  BY PromiseStep, PTL
<1>3. QED
  BY <1>1, <1>2, IInvHolds, PTL DEF Spec, PromiseRefinement, Promise!Spec
=============================================================================
