------------------------- MODULE SynthesisFlowProofs -------------------------
(***************************************************************************)
(* Proofs about SynthesisFlow that hold for every value of the constants.  *)
(***************************************************************************)
EXTENDS SynthesisFlow, SequenceTheorems, TLAPS

(* A status write keeps the watch stream a sequence of events.            *)
LEMMA PublishType ==
    ASSUME NEW c \in Comps, NEW s \in Slot, events \in Seq(Event),
           Publish(c, s)
    PROVE  events' \in Seq(Event)
<1>1. [comp |-> c, cur |-> s] \in Event
  BY DEF Event
<1>2. QED
  BY <1>1, AppendProperties DEF Publish

(* A slot that is not Nil is a synthesis record.                          *)
LEMMA SlotIsSynthesis ==
    ASSUME NEW s \in Slot, s # Nil
    PROVE  s \in Synthesis
BY Zenon DEF Slot

(* The field updates of the status writers keep a synthesis a synthesis.  *)
LEMMA SynthesisUpdate ==
    ASSUME NEW s \in Synthesis, NEW n \in Nat, NEW b \in BOOLEAN
    PROVE  /\ [s EXCEPT !.uuid = n] \in Synthesis
           /\ [s EXCEPT !.synthesized = TRUE] \in Synthesis
           /\ [s EXCEPT !.attempts = n, !.failed = b] \in Synthesis
BY DEF Synthesis

(* The type invariant holds initially and is kept by every step.          *)
LEMMA TypeInit == Init => TypeOK
<1> SUFFICES ASSUME Init PROVE TypeOK
  OBVIOUS
<1>1. events \in Seq(Event)
  BY EmptySeq DEF Init
<1>2. 1 \in 1..MaxGen
  BY MaxGenAssumption
<1>3. Nil \in Slot
  BY DEF Slot
<1>4. cur \in [Comps -> Slot] /\ prev \in [Comps -> Slot] /\ cache \in [Comps -> Slot]
  BY <1>3 DEF Init
<1>5. gen \in [Comps -> 1..MaxGen]
  BY <1>2, MaxGenAssumption DEF Init
<1>6. nextUUID \in Nat \ {0}
  BY DEF Init
<1>7. queued \in BOOLEAN
  BY Zenon DEF Init
<1>8. QED
  BY <1>1, <1>4, <1>5, <1>6, <1>7 DEF TypeOK

LEMMA TypeStep == TypeOK /\ [Next]_vars => TypeOK'
<1> SUFFICES ASSUME TypeOK, [Next]_vars PROVE TypeOK'
  OBVIOUS
<1> USE DEF TypeOK
<1>1. CASE LimitReached
  BY <1>1 DEF LimitReached
<1>2. CASE NothingPending
  BY <1>2 DEF NothingPending
<1>3. ASSUME NEW c \in Comps, Dispatch(c) PROVE TypeOK'
  <2>1. CASE PatchTestHolds(c)
    <3>1. cur[c] \in Synthesis
      BY <2>1, SlotIsSynthesis DEF PatchTestHolds
    <3>2. [cur[c] EXCEPT !.uuid = nextUUID] \in Slot
      BY <3>1, SynthesisUpdate DEF Slot
    <3>3. cur' \in [Comps -> Slot]
      BY <1>3, <2>1, <3>2 DEF Dispatch
    <3>4. events' \in Seq(Event)
      BY <1>3, <2>1, <3>3, PublishType DEF Dispatch
    <3>5. QED
      BY <1>3, <2>1, <3>3, <3>4 DEF Dispatch
  <2>2. CASE ~PatchTestHolds(c)
    BY <1>3, <2>2 DEF Dispatch
  <2>3. QED
    BY <2>1, <2>2
<1>4. CASE CacheSync
  <2>1. Head(events) \in Event /\ Tail(events) \in Seq(Event)
    BY <1>4, HeadTailProperties DEF CacheSync
  <2>2. QED
    BY <1>4, <2>1 DEF CacheSync, Event
<1>5. ASSUME NEW c \in Comps, UpdateComposition(c) PROVE TypeOK'
  BY <1>5, MaxGenAssumption DEF UpdateComposition
<1>6. ASSUME NEW c \in Comps, RequestSynthesis(c) PROVE TypeOK'
  <2> DEFINE new == [uuid |-> 0, gen |-> gen[c], synthesized |-> FALSE,
                     attempts |-> 0, failed |-> FALSE]
  <2>1. new \in Slot
    BY DEF Slot, Synthesis
  <2>2. cur' = [cur EXCEPT ![c] = new] /\ Publish(c, new)
    BY <1>6 DEF RequestSynthesis
  <2>3. prev' \in [Comps -> Slot]
    BY <1>6 DEF RequestSynthesis
  <2>4. QED
    BY <1>6, <2>1, <2>2, <2>3, PublishType DEF RequestSynthesis
<1>7. ASSUME NEW c \in Comps, PodSucceeded(c) PROVE TypeOK'
  <2>1. cur[c] \in Synthesis
    BY <1>7, SlotIsSynthesis DEF PodSucceeded, IsActive
  <2>2. [cur[c] EXCEPT !.synthesized = TRUE] \in Slot
    BY <2>1, SynthesisUpdate DEF Slot
  <2>3. cur' \in [Comps -> Slot]
    BY <1>7, <2>2 DEF PodSucceeded
  <2>4. QED
    BY <1>7, <2>3, PublishType DEF PodSucceeded
<1>8. ASSUME NEW c \in Comps, PodFailed(c) PROVE TypeOK'
  <2>1. cur[c] \in Synthesis
    BY <1>8, SlotIsSynthesis DEF PodFailed, IsActive
  <2>2. [cur[c] EXCEPT !.attempts = cur[c].attempts + 1,
                                !.failed = (cur[c].attempts + 1 > MaxRestarts)] \in Slot
    <3>1. cur[c].attempts + 1 \in Nat
      BY <2>1 DEF Synthesis
    <3>2. (cur[c].attempts + 1 > MaxRestarts) \in BOOLEAN
      OBVIOUS
    <3>3. QED
      BY <2>1, <3>1, <3>2, SynthesisUpdate DEF Slot
  <2>3. cur' \in [Comps -> Slot]
    BY <1>8, <2>2 DEF PodFailed
  <2>4. QED
    BY <1>8, <2>3, PublishType DEF PodFailed
<1>9. CASE UNCHANGED vars
  BY <1>9 DEF vars
<1>10. QED
  BY <1>1, <1>2, <1>3, <1>4, <1>5, <1>6, <1>7, <1>8, <1>9
     DEF Next, LimiterReconcile

(* Every reachable state is well typed.                                   *)
THEOREM TypeCorrect == Spec => []TypeOK
BY TypeInit, TypeStep, PTL DEF Spec

-----------------------------------------------------------------------------
(* The refinement of the abstract slot lifecycle.  The "test" op of the    *)
(* limiter's patch only checks that the uuid is empty; that the slot is    *)
(* then also not synthesized, hence pending, is an invariant of the        *)
(* writers: a slot is authored with an empty uuid and not synthesized,    *)
(* and only a slot with a uuid can be synthesized.                         *)
PendingFresh ==
    \A c \in Comps : cur[c] # Nil /\ cur[c].uuid = 0 => ~cur[c].synthesized

RInv == TypeOK /\ PendingFresh

LEMMA RInvInit == Init => RInv
BY TypeInit DEF Init, RInv, PendingFresh

LEMMA PendingFreshStep == TypeOK /\ PendingFresh /\ [Next]_vars => PendingFresh'
<1> SUFFICES ASSUME TypeOK, PendingFresh, [Next]_vars PROVE PendingFresh'
  OBVIOUS
<1>1. CASE cur' = cur
  BY <1>1 DEF PendingFresh
<1>2. ASSUME NEW c \in Comps, Dispatch(c), PatchTestHolds(c) PROVE PendingFresh'
  <2>1. cur[c] \in Synthesis
    BY <1>2, SlotIsSynthesis DEF PatchTestHolds, TypeOK
  <2>2. cur' = [cur EXCEPT ![c].uuid = nextUUID] /\ nextUUID # 0
    BY <1>2 DEF Dispatch, TypeOK
  <2>3. QED
    BY <2>1, <2>2 DEF PendingFresh, TypeOK
<1>3. ASSUME NEW c \in Comps, RequestSynthesis(c) PROVE PendingFresh'
  BY <1>3 DEF RequestSynthesis, PendingFresh, TypeOK
<1>4. ASSUME NEW c \in Comps, PodSucceeded(c) PROVE PendingFresh'
  <2>1. cur[c] \in Synthesis
    BY <1>4, SlotIsSynthesis DEF PodSucceeded, IsActive, TypeOK
  <2>2. QED
    BY <1>4, <2>1 DEF PodSucceeded, IsActive, PendingFresh, TypeOK
<1>5. ASSUME NEW c \in Comps, PodFailed(c) PROVE PendingFresh'
  <2>1. cur[c] \in Synthesis
    BY <1>5, SlotIsSynthesis DEF PodFailed, IsActive, TypeOK
  <2>2. QED
    BY <1>5, <2>1 DEF PodFailed, IsActive, PendingFresh, TypeOK
<1>6. QED
  <2>1. ASSUME NEW c \in Comps, Dispatch(c), ~PatchTestHolds(c) PROVE cur' = cur
    BY <2>1 DEF Dispatch
  <2>2. QED
    BY <1>1, <1>2, <1>3, <1>4, <1>5, <2>1
       DEF Next, LimiterReconcile, LimitReached, NothingPending, CacheSync,
           UpdateComposition, vars

LEMMA RInvStep == RInv /\ [Next]_vars => RInv'
BY TypeStep, PendingFreshStep DEF RInv

(* Every step of the dispatch loop is a step of the abstract slot          *)
(* lifecycle on the server's slots, or leaves them unchanged.              *)
LEMMA RefinementStep == RInv /\ [Next]_vars => [Slots!Next]_Slots!vars
<1> SUFFICES ASSUME RInv, [Next]_vars PROVE [Slots!Next]_Slots!vars
  OBVIOUS
<1>1. CASE UNCHANGED <<cur, prev, gen, nextUUID>>
  BY <1>1 DEF Slots!vars
<1>2. ASSUME NEW c \in Comps, Dispatch(c), PatchTestHolds(c) PROVE Slots!Dispatch(c)
  <2>1. cur[c] \in Synthesis
    BY <1>2, SlotIsSynthesis DEF PatchTestHolds, RInv, TypeOK
  <2>2. Slots!Pending(c)
    BY <1>2, <2>1 DEF PatchTestHolds, RInv, PendingFresh, Slots!Pending
  <2>3. QED
    BY <1>2, <2>2 DEF Dispatch, Slots!Dispatch
<1>3. ASSUME NEW c \in Comps, UpdateComposition(c) PROVE Slots!Update(c)
  BY <1>3 DEF UpdateComposition, Slots!Update
<1>4. ASSUME NEW c \in Comps, RequestSynthesis(c) PROVE Slots!Author(c)
  BY <1>4 DEF RequestSynthesis, SynthesisDue, Slots!Author
<1>5. ASSUME NEW c \in Comps, PodSucceeded(c) PROVE Slots!Succeed(c)
  BY <1>5 DEF PodSucceeded, IsActive, Slots!Succeed, Slots!Running
<1>6. ASSUME NEW c \in Comps, PodFailed(c) PROVE Slots!Fail(c)
  BY <1>6 DEF PodFailed, IsActive, Slots!Fail, Slots!Running
<1>7. ASSUME NEW c \in Comps, Dispatch(c), ~PatchTestHolds(c)
      PROVE  UNCHANGED <<cur, prev, gen, nextUUID>>
  BY <1>7 DEF Dispatch
<1>8. QED
  BY <1>1, <1>2, <1>3, <1>4, <1>5, <1>6, <1>7
     DEF Next, LimiterReconcile, LimitReached, NothingPending, CacheSync,
         vars, Slots!Next

(* The dispatch loop implements the abstract slot lifecycle: whatever its *)
(* stale cache shows, the limiter only dispatches slots that are pending  *)
(* on the server, each with a fresh uuid.                                  *)
THEOREM Refinement == Spec => SlotsRefinement
<1>1. Init => Slots!Init
  BY DEF Init, Slots!Init
<1>2. Spec => []RInv
  BY RInvInit, RInvStep, PTL DEF Spec
<1>3. QED
  BY <1>1, <1>2, RefinementStep, PTL DEF Spec, SlotsRefinement, Slots!Spec

=============================================================================
