------------------------------- MODULE Watchdog -------------------------------
(***************************************************************************)
(* The watchdog controller of eno (src/internal/controllers/watchdog/     *)
(* controller.go).  It lists Compositions from the manager's informer     *)
(* cache and sets six gauges counting the compositions that have been in  *)
(* a stuck state for longer than a threshold.  Its one work item is       *)
(* enqueued by every Composition event (manager.SingleEventHandler); its  *)
(* Reconcile never asks to be requeued, so between events only the        *)
(* informer's periodic resync, which redelivers every cached object,      *)
(* enqueues it.                                                            *)
(*                                                                         *)
(* The writers of the synthesis lifecycle fields the watchdog reads       *)
(* (Initialized, Synthesized, Failed, Reconciled, Ready and the slot      *)
(* swap) are not under src/ and are modelled from spec.md sections 3,     *)
(* 4.E and 4.F.  A gauge is kept as the set of compositions it counts;    *)
(* the metric's value is the set's cardinality.                            *)
(***************************************************************************)
EXTENDS Naturals, Sequences, FiniteSets

CONSTANTS
    Comps,          \* the Compositions of the fleet
    Nil,            \* a nil pointer: an absent slot or timestamp
    Threshold,      \* watchdogController.threshold, in clock ticks
    MaxTime,        \* bound on the clock
    MaxSyntheses,   \* bound on the syntheses of one composition
    MaxSynEdits,    \* bound on changes of the Synthesizers and inputs
    MaxLag          \* bound on watch events not yet applied to the cache

ASSUME WatchdogBounds ==
    /\ Threshold \in Nat /\ MaxTime \in Nat /\ MaxSyntheses \in Nat
    /\ MaxSynEdits \in Nat /\ MaxLag \in Nat \ {0}

VARIABLES
    comp,      \* comp[c]: composition c on the API server, or Nil
    syn,       \* syn[c]: what a Get of c's Synthesizer yields
    events,    \* the Composition watch stream not yet applied to the cache
    cache,     \* cache[c]: composition c as the informer cache has it
    queued,    \* the watchdog's single work item is in its workqueue
    gauge,     \* gauge[g]: the compositions gauge g counted when last set
    now,       \* the wall clock
    nsyn,      \* nsyn[c]: syntheses started for c (bounded by MaxSyntheses)
    nedits     \* changes of Synthesizers and inputs (bounded by MaxSynEdits)

vars == <<comp, syn, events, cache, queued, gauge, now, nsyn, nedits>>

Time == 0..MaxTime

(* A synthesis slot, reduced to the fields the watchdog reads.             *)
Synthesis == [initialized: Time \cup {Nil}, synthesized: BOOLEAN,
              failed: BOOLEAN, reconciled: Time \cup {Nil}, ready: BOOLEAN]

Composition == [created: Time, cur: Synthesis \cup {Nil},
                prev: Synthesis \cup {Nil}]

(* The outcome of a Get of the composition's Synthesizer: found or not    *)
(* (any error), and the results of comp.InputsExist(syn) and of           *)
(* comp.InputsOutOfLockstep(syn).                                          *)
SynView == [found: BOOLEAN, inputsExist: BOOLEAN, outOfLockstep: BOOLEAN]

(* A Synthesizer that is found, with every input present and in lockstep. *)
InLockstep == [found |-> TRUE, inputsExist |-> TRUE, outOfLockstep |-> FALSE]

Gauges == {"waitingOnInputs", "inputsNotInLockstep",
           "pendingInitialReconciliation", "stuckReconciling",
           "pendingReadiness", "terminalErrors"}

(* The six gauges, each as the set of compositions it counts.             *)
GaugeValues ==
    [waitingOnInputs: SUBSET Comps, inputsNotInLockstep: SUBSET Comps,
     pendingInitialReconciliation: SUBSET Comps, stuckReconciling: SUBSET Comps,
     pendingReadiness: SUBSET Comps, terminalErrors: SUBSET Comps]

ASSUME NilAssumption == Nil \notin Synthesis \cup Time

-----------------------------------------------------------------------------
(* The predicates of controller.go, applied to a listed composition k of  *)
(* name c at the current time.  time.Since(t) > threshold is Past(t).      *)
Past(t) == now - t > Threshold

synthesisHasReconciled(s) == s # Nil /\ s.reconciled # Nil
synthesisIsReady(s)       == s # Nil /\ s.ready

(* Lines 75-99: on a Get error both helpers return true.                  *)
getInputsExist(c)   == ~syn[c].found \/ syn[c].inputsExist
getNotInLockstep(c) == ~syn[c].found \/ syn[c].outOfLockstep

waitingOnInputs(k, c) == ~getInputsExist(c) /\ Past(k.created)

notInLockstep(k, c) == getNotInLockstep(c) /\ Past(k.created)

pendingInitialReconciliation(k) ==
    /\ ~synthesisHasReconciled(k.cur)
    /\ ~synthesisHasReconciled(k.prev)
    /\ Past(k.created)

pendingReconciliation(k) ==
    /\ k.cur # Nil
    /\ k.cur.initialized # Nil
    /\ ~synthesisHasReconciled(k.cur)
    /\ Past(k.cur.initialized)

timeSinceReconcilePastThreshold(k) ==
    k.cur # Nil /\ k.cur.reconciled # Nil /\ Past(k.cur.reconciled)

pendingReadiness(k) ==
    /\ ~synthesisIsReady(k.cur)
    /\ ~synthesisIsReady(k.prev)
    /\ timeSinceReconcilePastThreshold(k)

inTerminalError(k) == k.cur # Nil /\ ~k.cur.synthesized /\ k.cur.failed

(* Lines 32-70: the loop over the listed compositions and the six gauge    *)
(* Set calls, on a view v of the compositions.                             *)
Counted(v) ==
    LET listed == {c \in Comps : v[c] # Nil} IN
    [waitingOnInputs |-> {c \in listed : waitingOnInputs(v[c], c)},
     inputsNotInLockstep |-> {c \in listed : notInLockstep(v[c], c)},
     pendingInitialReconciliation |->
        {c \in listed : pendingInitialReconciliation(v[c])},
     stuckReconciling |-> {c \in listed : pendingReconciliation(v[c])},
     pendingReadiness |-> {c \in listed : pendingReadiness(v[c])},
     terminalErrors |-> {c \in listed : inTerminalError(v[c])}]

(* Reconcile, lines 31-73, with a successful List of the cache.  A failed *)
(* List returns the error and the item is retried with backoff, changing  *)
(* nothing: it is a stutter.                                               *)
Reconcile ==
    /\ queued
    /\ gauge' = Counted(cache)
    /\ queued' = FALSE
    /\ UNCHANGED <<comp, syn, events, cache, now, nsyn, nedits>>

(* Mutant of CacheSync: the event handler does not enqueue the watchdog.  *)
CacheSyncNoEnqueue ==
    /\ events # << >>
    /\ cache' = [cache EXCEPT ![Head(events).comp] = Head(events).obj]
    /\ events' = Tail(events)
    /\ UNCHANGED <<comp, syn, gauge, queued, now, nsyn, nedits>>

(* Lines 21-29: the Composition informer applies the next watch event and *)
(* SingleEventHandler enqueues the work item.                              *)
CacheSync ==
    /\ events # << >>
    /\ cache' = [cache EXCEPT ![Head(events).comp] = Head(events).obj]
    /\ events' = Tail(events)
    /\ queued' = TRUE
    /\ UNCHANGED <<comp, syn, gauge, now, nsyn, nedits>>

(* The informer's periodic resync redelivers the cached compositions as   *)
(* update events, which enqueue the work item.                             *)
Resync ==
    /\ ~queued
    /\ queued' = TRUE
    /\ UNCHANGED <<comp, syn, events, cache, gauge, now, nsyn, nedits>>
-----------------------------------------------------------------------------
(* Writers of the Composition that are not under src/ (spec.md 3, 4.E,    *)
(* 4.F).  Every write is published on the watch stream; MaxLag bounds the *)
(* informer's lag by a guard on the writers.                               *)
Write(c, k) ==
    /\ Len(events) < MaxLag
    /\ comp' = [comp EXCEPT ![c] = k]
    /\ events' = Append(events, [comp |-> c, obj |-> k])

(* A synthesis slot with the given fields.                                 *)
Slot(i, sy, f, r, rd) ==
    [initialized |-> i, synthesized |-> sy, failed |-> f, reconciled |-> r,
     ready |-> rd]

(* Current slot of c replaced by s, the previous slot kept.               *)
WriteCur(c, s) == Write(c, [created |-> comp[c].created, cur |-> s,
                            prev |-> comp[c].prev])

(* A user creates composition c.                                           *)
CreateComposition(c) ==
    /\ comp[c] = Nil
    /\ Write(c, [created |-> now, cur |-> Nil, prev |-> Nil])
    /\ UNCHANGED <<syn, cache, queued, gauge, now, nsyn, nedits>>

(* A new synthesis is due (first one, or the current one finished or       *)
(* failed): a fresh CurrentSynthesis is installed, and a synthesized       *)
(* current slot moves to PreviousSynthesis in the same update (slot swap). *)
NewSynthesis(c) ==
    /\ comp[c] # Nil
    /\ nsyn[c] < MaxSyntheses
    /\ LET k == comp[c] IN
       /\ ~(k.cur # Nil /\ ~k.cur.synthesized /\ ~k.cur.failed)
       /\ Write(c, [created |-> k.created,
                    cur |-> Slot(Nil, FALSE, FALSE, Nil, FALSE),
                    prev |-> IF k.cur # Nil /\ k.cur.synthesized
                               THEN k.cur ELSE k.prev])
    /\ nsyn' = [nsyn EXCEPT ![c] = nsyn[c] + 1]
    /\ UNCHANGED <<syn, cache, queued, gauge, now, nedits>>

(* The synthesis is dispatched and its pod created: Initialized is set.    *)
Initialize(c) ==
    /\ comp[c] # Nil /\ comp[c].cur # Nil
    /\ comp[c].cur.initialized = Nil
    /\ LET s == comp[c].cur IN
       WriteCur(c, Slot(now, s.synthesized, s.failed, s.reconciled, s.ready))
    /\ UNCHANGED <<syn, cache, queued, gauge, now, nsyn, nedits>>

(* The pod of an initialized synthesis ends: its output is captured        *)
(* (Synthesized), or its last attempt past MaxRestarts fails (Failed).     *)
SynthesisEnds(c) ==
    /\ comp[c] # Nil /\ comp[c].cur # Nil
    /\ comp[c].cur.initialized # Nil
    /\ ~comp[c].cur.synthesized /\ ~comp[c].cur.failed
    /\ \E ok \in BOOLEAN :
          LET s == comp[c].cur IN
          WriteCur(c, Slot(s.initialized, ok, ~ok, s.reconciled, s.ready))
    /\ UNCHANGED <<syn, cache, queued, gauge, now, nsyn, nedits>>

(* The status controller sees every resource of the synthesized current    *)
(* slot Reconciled, and later every resource Ready.                        *)
Reconciled(c) ==
    /\ comp[c] # Nil /\ comp[c].cur # Nil
    /\ comp[c].cur.synthesized /\ comp[c].cur.reconciled = Nil
    /\ LET s == comp[c].cur IN
       WriteCur(c, Slot(s.initialized, s.synthesized, s.failed, now, s.ready))
    /\ UNCHANGED <<syn, cache, queued, gauge, now, nsyn, nedits>>

Ready(c) ==
    /\ comp[c] # Nil /\ comp[c].cur # Nil
    /\ comp[c].cur.reconciled # Nil /\ ~comp[c].cur.ready
    /\ LET s == comp[c].cur IN
       WriteCur(c, Slot(s.initialized, s.synthesized, s.failed, s.reconciled, TRUE))
    /\ UNCHANGED <<syn, cache, queued, gauge, now, nsyn, nedits>>

(* c's Synthesizer is created, deleted or edited, or its inputs change.    *)
(* The watchdog does not watch Synthesizers: no event is delivered.        *)
SynthesizerChange(c) ==
    /\ nedits < MaxSynEdits
    /\ \E v \in SynView \ {syn[c]} : syn' = [syn EXCEPT ![c] = v]
    /\ nedits' = nedits + 1
    /\ UNCHANGED <<comp, events, cache, queued, gauge, now, nsyn>>

(* Wall-clock time passes.                                                 *)
Tick ==
    /\ now < MaxTime
    /\ now' = now + 1
    /\ UNCHANGED <<comp, syn, events, cache, queued, gauge, nsyn, nedits>>

-----------------------------------------------------------------------------
Init ==
    /\ comp = [c \in Comps |-> Nil]
    /\ syn = [c \in Comps |-> InLockstep]
    /\ events = << >>
    /\ cache = [c \in Comps |-> Nil]
    /\ queued = FALSE
    /\ gauge = [waitingOnInputs |-> {}, inputsNotInLockstep |-> {},
               pendingInitialReconciliation |-> {}, stuckReconciling |-> {},
               pendingReadiness |-> {}, terminalErrors |-> {}]
    /\ now = 0
    /\ nsyn = [c \in Comps |-> 0]
    /\ nedits = 0

Next ==
    \/ Reconcile
    \/ CacheSync
    \/ Resync
    \/ Tick
    \/ \E c \in Comps :
          \/ CreateComposition(c)
          \/ NewSynthesis(c)
          \/ Initialize(c)
          \/ SynthesisEnds(c)
          \/ Reconciled(c)
          \/ Ready(c)
          \/ SynthesizerChange(c)

(* The informer and the watchdog's worker keep running, and the informer  *)
(* resyncs periodically.  The writers and the clock need no fairness: the *)
(* properties are about what the watchdog reports of whatever they do.    *)
Fairness == WF_vars(CacheSync) /\ WF_vars(Reconcile) /\ WF_vars(Resync)

Spec == Init /\ [][Next]_vars /\ Fairness

(* The same system when the informer never resyncs: the watchdog is then  *)
(* enqueued by Composition events only.                                    *)
EventDrivenSpec ==
    Init /\ [][Next]_vars /\ WF_vars(CacheSync) /\ WF_vars(Reconcile)

-----------------------------------------------------------------------------
(* Every variable has its type.                                            *)
TypeOK ==
    /\ comp \in [Comps -> Composition \cup {Nil}]
    /\ syn \in [Comps -> SynView]
    /\ events \in Seq([comp: Comps, obj: Composition])
    /\ cache \in [Comps -> Composition \cup {Nil}]
    /\ queued \in BOOLEAN
    /\ gauge \in GaugeValues
    /\ now \in Time
    /\ nsyn \in [Comps -> 0..MaxSyntheses]
    /\ nedits \in 0..MaxSynEdits

(* What each gauge is documented to count, read on the API server now.     *)
Truth(g, k, c) ==
    CASE g = "waitingOnInputs" -> waitingOnInputs(k, c)
      [] g = "inputsNotInLockstep" -> notInLockstep(k, c)
      [] g = "pendingInitialReconciliation" -> pendingInitialReconciliation(k)
      [] g = "stuckReconciling" -> pendingReconciliation(k)
      [] g = "pendingReadiness" -> pendingReadiness(k)
      [] g = "terminalErrors" -> inTerminalError(k)

Accurate ==
    \A g \in Gauges : gauge[g] = {c \in Comps : comp[c] # Nil /\ Truth(g, comp[c], c)}

(* The gauges converge on the server's truth: once the fleet, the          *)
(* Synthesizers and the clock stop changing, every gauge eventually counts *)
(* exactly the compositions in its state, and keeps doing so, although    *)
(* the watchdog reads a lagging cache, is not enqueued by Synthesizer      *)
(* changes or by the passing of time, and never requeues itself.           *)
GaugesConverge == <>[]Accurate

(* Whenever the informer has caught up and the watchdog's item is not    *)
(* queued, the terminal-error gauge counts exactly the compositions whose *)
(* current synthesis is in terminal error on the server.  The gauge reads *)
(* neither the clock nor the Synthesizers, so every change it depends on  *)
(* reaches the cache as a Composition event, and every event enqueues the *)
(* watchdog (SingleEventHandler, line 23).                                 *)
IdleTerminalExact ==
    events = << >> /\ ~queued =>
       gauge["terminalErrors"] =
          {c \in Comps : comp[c] # Nil /\ inTerminalError(comp[c])}

(* The comment of getNotInLockstep (lines 94-96) presumes, like that of    *)
(* getInputsExist, that a composition whose Synthesizer cannot be read is  *)
(* not reported: the lockstep gauge counts only compositions whose         *)
(* Synthesizer was found.                                                   *)
LockstepNeedsSynthesizer ==
    \A c \in gauge["inputsNotInLockstep"] : syn[c].found
=============================================================================
