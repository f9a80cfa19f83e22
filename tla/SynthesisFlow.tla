---------------------------- MODULE SynthesisFlow ----------------------------
(***************************************************************************)
(* The synthesis dispatch loop of eno.                                     *)
(*                                                                         *)
(* The API server holds, per Composition, the CurrentSynthesis and         *)
(* PreviousSynthesis status slots.  The synthesis concurrency limiter      *)
(* (src/internal/controllers/flowcontrol/synthesis.go) never reads the     *)
(* API server directly: it lists Compositions from the manager's informer  *)
(* cache, which applies the watch stream of Composition events in order   *)
(* and may lag behind the server.  Its one work item is enqueued by every  *)
(* Composition event (manager.SingleEventHandler) and by its own requeues. *)
(*                                                                         *)
(* The writers of the pending slot and of the Synthesized / Failed fields  *)
(* (composition and rollout controllers, pod lifecycle controller) are     *)
(* not under src/; they are modelled from spec.md sections 4.D, 4.E, 4.G.  *)
(***************************************************************************)
EXTENDS Naturals, Sequences, FiniteSets

CONSTANTS
    Comps,        \* the Compositions of the fleet
    Limit,        \* synthesisConcurrencyLimiter.limit
    MaxRestarts,  \* Config.MaxRestarts of the pod lifecycle controller
    MaxGen,       \* bound on Composition generations (user spec updates)
    Nil,          \* an absent synthesis slot (a nil *Synthesis)
    MaxLag        \* bound on watch events not yet applied to the cache

ASSUME LimitAssumption == Limit \in Nat \ {0}
ASSUME MaxRestartsAssumption == MaxRestarts \in Nat
ASSUME MaxGenAssumption == MaxGen \in Nat \ {0}
ASSUME MaxLagAssumption == MaxLag \in Nat \ {0}

VARIABLES
    cur,       \* cur[c]: Status.CurrentSynthesis of c on the API server
    prev,      \* prev[c]: Status.PreviousSynthesis of c on the API server
    gen,       \* gen[c]: metadata.generation of c
    events,    \* the Composition watch stream not yet applied to the cache
    cache,     \* cache[c]: CurrentSynthesis of c as the informer cache has it
    queued,    \* the limiter's single work item is in its workqueue
    nextUUID   \* source of fresh values for uuid.NewString()

vars == <<cur, prev, gen, events, cache, queued, nextUUID>>

(* A synthesis slot.  uuid = 0 stands for the empty string.               *)
Synthesis == [uuid: Nat, gen: 1..MaxGen, synthesized: BOOLEAN,
              attempts: Nat, failed: BOOLEAN]

Slot == Synthesis \cup {Nil}

ASSUME NilAssumption == Nil \notin Synthesis

Event == [comp: Comps, cur: Slot]

(* The classification of synthesis.go lines 50-58, applied to one slot.   *)
IsPending(s) == s # Nil /\ ~s.synthesized /\ s.uuid = 0
IsActive(s)  == s # Nil /\ ~s.synthesized /\ s.uuid # 0

(* A status write of composition c, published on the watch stream.  The  *)
(* bound MaxLag on the informer's lag keeps the model finite: a write     *)
(* waits until the informer has caught up to fewer than MaxLag events.    *)
CanPublish == Len(events) < MaxLag

Publish(c, s) == events' = Append(events, [comp |-> c, cur |-> s])

-----------------------------------------------------------------------------
(* Synthesis concurrency limiter: Reconcile, synthesis.go lines 37-94.     *)

(* The pending compositions and the active count of lines 46-59, computed *)
(* from the informer cache.                                               *)
pending == {c \in Comps : IsPending(cache[c])}

(* Mutant of active: synthesized compositions are not skipped (line 51).  *)
activeCountingSynthesized ==
    Cardinality({c \in Comps : cache[c] # Nil /\ cache[c].uuid # 0})

active  == Cardinality({c \in Comps : IsActive(cache[c])})

(* Lines 63-66: the limit is reached; no requeue.                         *)
LimitReached ==
    /\ queued
    /\ active >= Limit
    /\ queued' = FALSE
    /\ UNCHANGED <<cur, prev, gen, events, cache, nextUUID>>

(* Lines 68-70: nothing to dispatch; no requeue.                          *)
NothingPending ==
    /\ queued
    /\ active < Limit
    /\ pending = {}
    /\ queued' = FALSE
    /\ UNCHANGED <<cur, prev, gen, events, cache, nextUUID>>

(* The JSON patch of lines 78-82 applies iff its "test" op holds on the   *)
(* server: the current slot exists and its uuid is still empty.           *)
(* Mutant of PatchTestHolds: the "test" op checks the wrong path, that    *)
(* the slot is not synthesized.                                            *)
PatchTestOnSynthesized(c) == cur[c] # Nil /\ ~cur[c].synthesized

PatchTestHolds(c) == cur[c] # Nil /\ cur[c].uuid = 0

(* Lines 71-93: the randomly chosen pending composition c is patched.     *)
(* On success the uuid is written and the item requeued after cooldown;   *)
(* when the test op fails the patch returns an error and the item is      *)
(* requeued with backoff.  Either way the item is queued again.           *)
Dispatch(c) ==
    /\ queued
    /\ active < Limit
    /\ c \in pending
    /\ CanPublish
    /\ IF PatchTestHolds(c)
         THEN /\ cur' = [cur EXCEPT ![c].uuid = nextUUID]
              /\ nextUUID' = nextUUID + 1
              /\ Publish(c, cur'[c])
         ELSE UNCHANGED <<cur, nextUUID, events>>
    /\ queued' = TRUE
    /\ UNCHANGED <<prev, gen, cache>>

-----------------------------------------------------------------------------
(* The informer: the next watch event is applied to the cache, and the     *)
(* event handler enqueues the limiter's work item (lines 26-28).           *)
CacheSync ==
    /\ events # << >>
    /\ cache' = [cache EXCEPT ![Head(events).comp] = Head(events).cur]
    /\ events' = Tail(events)
    /\ queued' = TRUE
    /\ UNCHANGED <<cur, prev, gen, nextUUID>>

-----------------------------------------------------------------------------
(* Writers of the Composition that are not under src/ (spec.md 4.D-4.G).   *)

(* A user updates the Composition spec: its generation is bumped.  The    *)
(* watch event of this write leaves the cached CurrentSynthesis as it is; *)
(* the reconcile it triggers is one any later event triggers too, so it   *)
(* is not put on the stream.                                              *)
UpdateComposition(c) ==
    /\ gen[c] < MaxGen
    /\ gen' = [gen EXCEPT ![c] = gen[c] + 1]
    /\ UNCHANGED <<cur, prev, events, cache, queued, nextUUID>>

(* A new synthesis is due: a pending slot (empty uuid) is authored.  When *)
(* the current slot was synthesized it moves to the previous slot in the  *)
(* same status update (slot swap); a failed slot is superseded.           *)
SynthesisDue(c) ==
    \/ cur[c] = Nil
    \/ /\ cur[c] # Nil
       /\ cur[c].synthesized \/ cur[c].failed
       /\ cur[c].gen < gen[c]

(* Mutant of RequestSynthesis: the new slot observes the generation after *)
(* the current one (an off-by-one in ObservedCompositionGeneration).      *)
RequestSynthesisNextGen(c) ==
    /\ CanPublish
    /\ SynthesisDue(c)
    /\ LET new == [uuid |-> 0, gen |-> gen[c] + 1, synthesized |-> FALSE,
                   attempts |-> 0, failed |-> FALSE]
       IN /\ cur' = [cur EXCEPT ![c] = new]
          /\ prev' = IF cur[c] # Nil /\ cur[c].synthesized
                       THEN [prev EXCEPT ![c] = cur[c]]
                       ELSE prev
          /\ Publish(c, new)
    /\ UNCHANGED <<gen, cache, queued, nextUUID>>

RequestSynthesis(c) ==
    /\ CanPublish
    /\ SynthesisDue(c)
    /\ LET new == [uuid |-> 0, gen |-> gen[c], synthesized |-> FALSE,
                   attempts |-> 0, failed |-> FALSE]
       IN /\ cur' = [cur EXCEPT ![c] = new]
          /\ prev' = IF cur[c] # Nil /\ cur[c].synthesized
                       THEN [prev EXCEPT ![c] = cur[c]]
                       ELSE prev
          /\ Publish(c, new)
    /\ UNCHANGED <<gen, cache, queued, nextUUID>>

(* The synthesizer pod of an active, not failed synthesis succeeds: its   *)
(* output is captured and Synthesized is set.                             *)
PodSucceeded(c) ==
    /\ CanPublish
    /\ IsActive(cur[c]) /\ ~cur[c].failed
    /\ cur' = [cur EXCEPT ![c].synthesized = TRUE]
    /\ Publish(c, cur'[c])
    /\ UNCHANGED <<prev, gen, cache, queued, nextUUID>>

(* The pod fails or exceeds its deadline: Attempts is incremented, and    *)
(* past MaxRestarts the synthesis is marked Failed and abandoned.         *)
PodFailed(c) ==
    /\ CanPublish
    /\ IsActive(cur[c]) /\ ~cur[c].failed
    /\ LET n == cur[c].attempts + 1
       IN cur' = [cur EXCEPT ![c].attempts = n,
                             ![c].failed = (n > MaxRestarts)]
    /\ Publish(c, cur'[c])
    /\ UNCHANGED <<prev, gen, cache, queued, nextUUID>>

-----------------------------------------------------------------------------
Init ==
    /\ cur = [c \in Comps |-> Nil]
    /\ prev = [c \in Comps |-> Nil]
    /\ gen = [c \in Comps |-> 1]
    /\ events = << >>
    /\ cache = [c \in Comps |-> Nil]
    /\ queued = FALSE
    /\ nextUUID = 1

(* One Reconcile of the limiter. *)
LimiterReconcile == LimitReached \/ NothingPending \/ \E c \in Comps : Dispatch(c)

Next ==
    \/ LimiterReconcile
    \/ CacheSync
    \/ \E c \in Comps :
          \/ UpdateComposition(c)
          \/ RequestSynthesis(c)
          \/ PodSucceeded(c)
          \/ PodFailed(c)

(* The informer and the limiter's worker keep running; every attempt of a *)
(* pod ends (success, failure or the synthesis Timeout).  The limiter's   *)
(* choice among pending compositions is uniformly random (line 71), so a  *)
(* composition offered to it infinitely often is chosen with probability  *)
(* one: strong fairness of Dispatch(c).                                   *)
Fairness ==
    /\ WF_vars(CacheSync)
    /\ WF_vars(LimiterReconcile)
    /\ \A c \in Comps : SF_vars(Dispatch(c))
    /\ \A c \in Comps : WF_vars(PodSucceeded(c) \/ PodFailed(c))

Spec == Init /\ [][Next]_vars /\ Fairness

-----------------------------------------------------------------------------
(* Every variable has its type.                                            *)
TypeOK ==
    /\ cur \in [Comps -> Slot]
    /\ prev \in [Comps -> Slot]
    /\ gen \in [Comps -> 1..MaxGen]
    /\ events \in Seq(Event)
    /\ cache \in [Comps -> Slot]
    /\ queued \in BOOLEAN
    /\ nextUUID \in Nat \ {0}

(* Compositions whose CurrentSynthesis on the server is pending / active.  *)
Pending(c) == IsPending(cur[c])
Active(c)  == IsActive(cur[c])

(* Syntheses that exhausted MaxRestarts but, lacking Synthesized, are     *)
(* still counted as active by the limiter.                                *)
TerminallyFailed == {c \in Comps : Active(c) /\ cur[c].failed}

(* spec.md 8.1: the number of active syntheses on the server never        *)
(* exceeds the concurrency limit.  The limiter counts them in its cache.  *)
ConcurrencyLimit == Cardinality({c \in Comps : Active(c)}) <= Limit

(* A pending composition is eventually dispatched, unless at some point   *)
(* every slot of the limit is held by a terminally failed synthesis (the  *)
(* limiter counts those as active, synthesis.go lines 51-58).             *)
DispatchProgress ==
    \A c \in Comps : Pending(c) ~> (Active(c) \/ Cardinality(TerminallyFailed) >= Limit)

(* The dispatch loop, seen on the API server, implements the abstract    *)
(* slot lifecycle: the limiter's test-and-set patch, acting on a stale     *)
(* cache, only ever gives a uuid to a slot that is really pending, and    *)
(* the cache, the stream and the queue add no other server transitions.   *)
Slots == INSTANCE SynthesisSlots

SlotsRefinement == Slots!Spec

(* spec.md 4.D: picking at random avoids stalls from permanently failing  *)
(* compositions, so every pending composition is eventually dispatched.   *)
PendingEventuallyDispatched == \A c \in Comps : Pending(c) ~> Active(c)

=============================================================================
