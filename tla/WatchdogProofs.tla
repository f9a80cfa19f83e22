---------------------------- MODULE WatchdogProofs ----------------------------
(***************************************************************************)
(* Proofs about Watchdog that hold for every value of the constants: the  *)
(* type invariant, and that an idle, caught-up watchdog reports exactly    *)
(* the compositions in terminal error.  The latter rests on CacheLags: the *)
(* informer cache is the server state delayed by the watch stream.        *)
(***************************************************************************)
EXTENDS Watchdog, SequenceTheorems, TLAPS

USE WatchdogBounds

(* A slot built from well-typed fields is a Synthesis.                    *)
LEMMA SlotType ==
    ASSUME NEW i \in Time \cup {Nil}, NEW sy \in BOOLEAN, NEW f \in BOOLEAN,
           NEW r \in Time \cup {Nil}, NEW rd \in BOOLEAN
    PROVE  Slot(i, sy, f, r, rd) \in Synthesis
BY DEF Slot, Synthesis

(* A write of a well-typed composition keeps the server state and the     *)
(* watch stream well typed.                                                *)
LEMMA WriteType ==
    ASSUME TypeOK, NEW c \in Comps, NEW k \in Composition, Write(c, k)
    PROVE  /\ comp' \in [Comps -> Composition \cup {Nil}]
           /\ events' \in Seq([comp: Comps, obj: Composition])
<1>1. [comp |-> c, obj |-> k] \in [comp: Comps, obj: Composition]
  OBVIOUS
<1>2. QED
  BY <1>1, AppendProperties DEF Write, TypeOK

(* A write of the current slot of an existing composition is a write of a *)
(* well-typed composition.                                                 *)
LEMMA WriteCurType ==
    ASSUME TypeOK, NEW c \in Comps, comp[c] # Nil, NEW s \in Synthesis
    PROVE  [created |-> comp[c].created, cur |-> s, prev |-> comp[c].prev]
              \in Composition
BY DEF TypeOK, Composition

(* A writer's step keeps the type invariant.                              *)
LEMMA WriterType ==
    ASSUME TypeOK, NEW c \in Comps, NEW k \in Composition, Write(c, k),
           nsyn' \in [Comps -> 0..MaxSyntheses],
           UNCHANGED <<syn, cache, queued, gauge, now, nedits>>
    PROVE  TypeOK'
<1>1. comp' \in [Comps -> Composition \cup {Nil}]
      /\ events' \in Seq([comp: Comps, obj: Composition])
  BY WriteType
<1>2. QED
  BY <1>1 DEF TypeOK

LEMMA TypeInit == Init => TypeOK
<1> SUFFICES ASSUME Init PROVE TypeOK
  OBVIOUS
<1>1. events \in Seq([comp: Comps, obj: Composition])
  BY EmptySeq DEF Init
<1>2. syn \in [Comps -> SynView]
  BY DEF Init, InLockstep, SynView
<1>3. gauge \in GaugeValues
  BY DEF Init, GaugeValues
<1>4. comp \in [Comps -> Composition \cup {Nil}]
      /\ cache \in [Comps -> Composition \cup {Nil}]
  BY DEF Init
<1>5. now \in Time /\ nsyn \in [Comps -> 0..MaxSyntheses] /\ nedits \in 0..MaxSynEdits
  BY DEF Init, Time
<1>6. QED
  BY <1>1, <1>2, <1>3, <1>4, <1>5 DEF Init, TypeOK

LEMMA TypeStep == TypeOK /\ [Next]_vars => TypeOK'
<1> SUFFICES ASSUME TypeOK, [Next]_vars PROVE TypeOK'
  OBVIOUS
<1>1. CASE Reconcile
  BY <1>1 DEF Reconcile, Counted, TypeOK, GaugeValues
<1>2. CASE CacheSync
  <2>1. Head(events) \in [comp: Comps, obj: Composition]
        /\ Tail(events) \in Seq([comp: Comps, obj: Composition])
    BY <1>2, HeadTailProperties DEF CacheSync, TypeOK
  <2>2. QED
    BY <1>2, <2>1 DEF CacheSync, TypeOK
<1>3. CASE Resync
  BY <1>3 DEF Resync, TypeOK
<1>4. CASE Tick
  BY <1>4 DEF Tick, TypeOK, Time
<1>5. ASSUME NEW c \in Comps, CreateComposition(c) PROVE TypeOK'
  <2>1. [created |-> now, cur |-> Nil, prev |-> Nil] \in Composition
    BY DEF TypeOK, Composition
  <2>2. QED
    BY <1>5, <2>1, WriterType DEF CreateComposition, TypeOK
<1>6. ASSUME NEW c \in Comps, NewSynthesis(c) PROVE TypeOK'
  <2> DEFINE k == comp[c]
             K == [created |-> k.created,
                   cur |-> Slot(Nil, FALSE, FALSE, Nil, FALSE),
                   prev |-> IF k.cur # Nil /\ k.cur.synthesized THEN k.cur ELSE k.prev]
  <2>1. k \in Composition
    BY <1>6 DEF NewSynthesis, TypeOK
  <2>2. Slot(Nil, FALSE, FALSE, Nil, FALSE) \in Synthesis
    BY SlotType
  <2>3. K \in Composition
    BY <2>1, <2>2 DEF Composition
  <2>4. Write(c, K)
    BY <1>6 DEF NewSynthesis
  <2>5. nsyn' \in [Comps -> 0..MaxSyntheses]
    BY <1>6 DEF NewSynthesis, TypeOK
  <2>6. QED
    BY <1>6, <2>3, <2>4, <2>5, WriterType DEF NewSynthesis
<1>7. ASSUME NEW c \in Comps, NEW s \in Synthesis, comp[c] # Nil,
             WriteCur(c, s), UNCHANGED <<syn, cache, queued, gauge, now, nsyn, nedits>>
      PROVE  TypeOK'
  BY <1>7, WriteCurType, WriterType DEF WriteCur, TypeOK
<1>8. ASSUME NEW c \in Comps, Initialize(c) PROVE TypeOK'
  <2> DEFINE s == comp[c].cur
  <2>1. s \in Synthesis /\ now \in Time
    BY <1>8 DEF Initialize, TypeOK, Composition
  <2>2. Slot(now, s.synthesized, s.failed, s.reconciled, s.ready) \in Synthesis
    BY <2>1 DEF Slot, Synthesis
  <2>3. QED
    BY <1>8, <2>2, <1>7 DEF Initialize
<1>9. ASSUME NEW c \in Comps, SynthesisEnds(c) PROVE TypeOK'
  <2> DEFINE s == comp[c].cur
  <2>1. s \in Synthesis
    BY <1>9 DEF SynthesisEnds, TypeOK, Composition
  <2>2. PICK ok \in BOOLEAN :
          WriteCur(c, Slot(s.initialized, ok, ~ok, s.reconciled, s.ready))
    BY <1>9 DEF SynthesisEnds
  <2>3. Slot(s.initialized, ok, ~ok, s.reconciled, s.ready) \in Synthesis
    BY <2>1 DEF Slot, Synthesis
  <2>4. QED
    BY <1>9, <2>2, <2>3, <1>7 DEF SynthesisEnds
<1>10. ASSUME NEW c \in Comps, Reconciled(c) PROVE TypeOK'
  <2> DEFINE s == comp[c].cur
  <2>1. s \in Synthesis /\ now \in Time
    BY <1>10 DEF Reconciled, TypeOK, Composition
  <2>2. Slot(s.initialized, s.synthesized, s.failed, now, s.ready) \in Synthesis
    BY <2>1 DEF Slot, Synthesis
  <2>3. QED
    BY <1>10, <2>2, <1>7 DEF Reconciled
<1>11. ASSUME NEW c \in Comps, Ready(c) PROVE TypeOK'
  <2> DEFINE s == comp[c].cur
  <2>1. s \in Synthesis
    BY <1>11 DEF Ready, TypeOK, Composition
  <2>2. Slot(s.initialized, s.synthesized, s.failed, s.reconciled, TRUE) \in Synthesis
    BY <2>1 DEF Slot, Synthesis
  <2>3. QED
    BY <1>11, <2>2, <1>7 DEF Ready
<1>12. ASSUME NEW c \in Comps, SynthesizerChange(c) PROVE TypeOK'
  BY <1>12 DEF SynthesizerChange, TypeOK
<1>13. CASE UNCHANGED vars
  BY <1>13 DEF vars, TypeOK
<1>14. QED
  BY <1>1, <1>2, <1>3, <1>4, <1>5, <1>6, <1>8, <1>9, <1>10, <1>11, <1>12, <1>13
     DEF Next

(* Every reachable state is well typed.                                   *)
THEOREM TypeCorrect == Spec => []TypeOK
BY TypeInit, TypeStep, PTL DEF Spec

-----------------------------------------------------------------------------
(* The informer's cache is the server state delayed by the watch stream:  *)
(* the last pending event of a composition carries its server state, and *)
(* a composition with no pending event is cached as it is on the server.  *)
CacheLags ==
    \A c \in Comps :
       /\ (\A i \in 1..Len(events) : events[i].comp # c) => cache[c] = comp[c]
       /\ \A i \in 1..Len(events) :
             (/\ events[i].comp = c
              /\ \A j \in i+1..Len(events) : events[j].comp # c)
                => events[i].obj = comp[c]

(* CacheLags is inductive together with the type invariant.  A write      *)
(* appends the new state of its composition as that composition's last   *)
(* pending event; the informer consumes the first event, which is the     *)
(* last one of its composition exactly when the cache then agrees with    *)
(* the server.                                                             *)
IInv == TypeOK /\ CacheLags

LEMMA LagsWrite ==
    ASSUME TypeOK, CacheLags, NEW c \in Comps, NEW k \in Composition,
           Write(c, k), UNCHANGED cache
    PROVE  CacheLags'
<1> DEFINE n == Len(events)
           e == [comp |-> c, obj |-> k]
<1>1. /\ events \in Seq([comp: Comps, obj: Composition])
      /\ events' = Append(events, e)
      /\ comp' = [comp EXCEPT ![c] = k]
      /\ comp \in [Comps -> Composition \cup {Nil}]
  BY DEF Write, TypeOK
<1>2. /\ Len(events') = n + 1
      /\ events'[n + 1] = e
      /\ \A i \in 1..n : events'[i] = events[i]
  BY <1>1, AppendProperties
<1> SUFFICES ASSUME NEW d \in Comps
             PROVE  /\ (\A i \in 1..Len(events') : events'[i].comp # d)
                          => cache'[d] = comp'[d]
                    /\ \A i \in 1..Len(events') :
                          (/\ events'[i].comp = d
                           /\ \A j \in i+1..Len(events') : events'[j].comp # d)
                             => events'[i].obj = comp'[d]
  BY DEF CacheLags
<1>3. CASE d = c
  <2>1. (\A i \in 1..Len(events') : events'[i].comp # d) => cache'[d] = comp'[d]
    BY <1>2, <1>3
  <2>2. ASSUME NEW i \in 1..Len(events'), events'[i].comp = d,
               \A j \in i+1..Len(events') : events'[j].comp # d
        PROVE  events'[i].obj = comp'[d]
    <3>1. i = n + 1
      BY <1>2, <1>3, <2>2
    <3>2. QED
      BY <1>1, <1>2, <1>3, <3>1
  <2>3. QED
    BY <2>1, <2>2
<1>4. CASE d # c
  <2>1. comp'[d] = comp[d] /\ cache'[d] = cache[d]
    BY <1>1, <1>4
  <2>2. (\A i \in 1..Len(events') : events'[i].comp # d) => cache'[d] = comp'[d]
    BY <1>2, <2>1 DEF CacheLags
  <2>3. ASSUME NEW i \in 1..Len(events'), events'[i].comp = d,
               \A j \in i+1..Len(events') : events'[j].comp # d
        PROVE  events'[i].obj = comp'[d]
    <3>1. i \in 1..n
      BY <1>2, <1>4, <2>3
    <3>2. events[i].comp = d /\ \A j \in i+1..n : events[j].comp # d
      BY <1>2, <2>3, <3>1
    <3>3. QED
      BY <1>2, <2>1, <3>1, <3>2 DEF CacheLags
  <2>4. QED
    BY <2>2, <2>3
<1>5. QED
  BY <1>3, <1>4

LEMMA LagsSync ==
    ASSUME TypeOK, CacheLags, CacheSync
    PROVE  CacheLags'
<1> DEFINE n == Len(events)
           h == Head(events)
<1>1. /\ events \in Seq([comp: Comps, obj: Composition])
      /\ events # << >>
      /\ events' = Tail(events)
      /\ cache' = [cache EXCEPT ![h.comp] = h.obj]
      /\ comp' = comp
      /\ cache \in [Comps -> Composition \cup {Nil}]
  BY DEF CacheSync, TypeOK
<1>2. /\ n \in Nat /\ n >= 1
      /\ h = events[1]
      /\ h.comp \in Comps
      /\ Len(events') = n - 1
      /\ \A i \in 1..n-1 : events'[i] = events[i + 1]
  <2> DEFINE E == [comp: Comps, obj: Composition]
  <2>1. n \in Nat \ {0}
    BY <1>1, EmptySeq
  <2>2. h \in E
    BY <1>1, HeadTailProperties
  <2>5. h = events[1]
    OBVIOUS
  <2>3. Len(Tail(events)) = n - 1
        /\ \A i \in 1..Len(Tail(events)) : Tail(events)[i] = events[i + 1]
    BY <1>1, HeadTailProperties
  <2>4. QED
    BY <1>1, <2>1, <2>2, <2>3, <2>5
<1> SUFFICES ASSUME NEW d \in Comps
             PROVE  /\ (\A i \in 1..Len(events') : events'[i].comp # d)
                          => cache'[d] = comp'[d]
                    /\ \A i \in 1..Len(events') :
                          (/\ events'[i].comp = d
                           /\ \A j \in i+1..Len(events') : events'[j].comp # d)
                             => events'[i].obj = comp'[d]
  BY DEF CacheLags
<1>3. ASSUME \A i \in 1..Len(events') : events'[i].comp # d
      PROVE  cache'[d] = comp'[d]
  <2>1. \A j \in 2..n : events[j].comp # d
    <3>1. SUFFICES ASSUME NEW j \in 2..n PROVE events[j].comp # d
      OBVIOUS
    <3>2. j - 1 \in 1..Len(events') /\ events'[j - 1] = events[j]
      BY <1>2
    <3>3. QED
      BY <1>3, <3>2
  <2>2. CASE h.comp = d
    <3>1. events[1].obj = comp[d]
      BY <1>2, <2>1, <2>2 DEF CacheLags
    <3>2. QED
      BY <1>1, <1>2, <2>2, <3>1
  <2>3. CASE h.comp # d
    <3>1. \A i \in 1..n : events[i].comp # d
      BY <1>2, <2>1, <2>3
    <3>2. QED
      BY <1>1, <2>3, <3>1 DEF CacheLags
  <2>4. QED
    BY <2>2, <2>3
<1>4. ASSUME NEW i \in 1..Len(events'), events'[i].comp = d,
             \A j \in i+1..Len(events') : events'[j].comp # d
      PROVE  events'[i].obj = comp'[d]
  <2>1. i + 1 \in 1..n /\ events[i + 1].comp = d
    BY <1>2, <1>4
  <2>2. \A j \in (i + 1)+1..n : events[j].comp # d
    <3>1. SUFFICES ASSUME NEW j \in (i + 1)+1..n PROVE events[j].comp # d
      OBVIOUS
    <3>2. j - 1 \in i+1..Len(events') /\ events'[j - 1] = events[j]
      BY <1>2
    <3>3. QED
      BY <1>4, <3>2
  <2>3. events[i + 1].obj = comp[d]
    BY <2>1, <2>2 DEF CacheLags
  <2>4. QED
    BY <1>1, <1>2, <2>3
<1>5. QED
  BY <1>3, <1>4

LEMMA IInvInit == Init => IInv
<1> SUFFICES ASSUME Init PROVE IInv
  OBVIOUS
<1>1. TypeOK
  BY TypeInit
<1>2. CacheLags
  BY DEF Init, CacheLags
<1>3. QED
  BY <1>1, <1>2 DEF IInv

LEMMA IInvStep == IInv /\ [Next]_vars => IInv'
<1> SUFFICES ASSUME IInv, [Next]_vars PROVE IInv'
  OBVIOUS
<1>1. TypeOK /\ CacheLags /\ TypeOK'
  BY TypeStep DEF IInv
<1>2. ASSUME UNCHANGED <<comp, events, cache>> PROVE CacheLags'
  BY <1>1, <1>2 DEF CacheLags
<1>3. ASSUME NEW c \in Comps, NEW k \in Composition, Write(c, k), UNCHANGED cache
      PROVE  CacheLags'
  BY <1>1, <1>3, LagsWrite
<1>4. ASSUME NEW c \in Comps, NEW s \in Synthesis, comp[c] # Nil,
             WriteCur(c, s), UNCHANGED cache
      PROVE  CacheLags'
  BY <1>1, <1>4, <1>3, WriteCurType DEF WriteCur
<1>5. CacheLags'
  <2>1. CASE CacheSync
    BY <1>1, <2>1, LagsSync
  <2>2. CASE Reconcile \/ Resync \/ Tick
    BY <1>2, <2>2 DEF Reconcile, Resync, Tick
  <2>3. ASSUME NEW c \in Comps, SynthesizerChange(c) PROVE CacheLags'
    BY <1>2, <2>3 DEF SynthesizerChange
  <2>4. ASSUME NEW c \in Comps, CreateComposition(c) PROVE CacheLags'
    <3>1. [created |-> now, cur |-> Nil, prev |-> Nil] \in Composition
      BY <1>1 DEF TypeOK, Composition
    <3>2. QED
      BY <1>3, <2>4, <3>1 DEF CreateComposition
  <2>5. ASSUME NEW c \in Comps, NewSynthesis(c) PROVE CacheLags'
    <3> DEFINE k == comp[c]
               K == [created |-> k.created,
                     cur |-> Slot(Nil, FALSE, FALSE, Nil, FALSE),
                     prev |-> IF k.cur # Nil /\ k.cur.synthesized THEN k.cur ELSE k.prev]
    <3>1. K \in Composition
      BY <1>1, <2>5 DEF NewSynthesis, TypeOK, Composition, Slot, Synthesis
    <3>2. Write(c, K) /\ UNCHANGED cache
      BY <2>5 DEF NewSynthesis
    <3>3. QED
      BY <1>3, <3>1, <3>2
  <2>6. ASSUME NEW c \in Comps, Initialize(c) PROVE CacheLags'
    <3> DEFINE s == comp[c].cur
    <3>1. Slot(now, s.synthesized, s.failed, s.reconciled, s.ready) \in Synthesis
      BY <1>1, <2>6 DEF Initialize, TypeOK, Composition, Slot, Synthesis, Time
    <3>2. QED
      BY <1>4, <2>6, <3>1 DEF Initialize
  <2>7. ASSUME NEW c \in Comps, SynthesisEnds(c) PROVE CacheLags'
    <3> DEFINE s == comp[c].cur
    <3>1. PICK ok \in BOOLEAN :
            WriteCur(c, Slot(s.initialized, ok, ~ok, s.reconciled, s.ready))
      BY <2>7 DEF SynthesisEnds
    <3>2. Slot(s.initialized, ok, ~ok, s.reconciled, s.ready) \in Synthesis
      BY <1>1, <2>7 DEF SynthesisEnds, TypeOK, Composition, Slot, Synthesis
    <3>3. QED
      BY <1>4, <2>7, <3>1, <3>2 DEF SynthesisEnds
  <2>8. ASSUME NEW c \in Comps, Reconciled(c) PROVE CacheLags'
    <3> DEFINE s == comp[c].cur
    <3>1. Slot(s.initialized, s.synthesized, s.failed, now, s.ready) \in Synthesis
      BY <1>1, <2>8 DEF Reconciled, TypeOK, Composition, Slot, Synthesis
    <3>2. QED
      BY <1>4, <2>8, <3>1 DEF Reconciled
  <2>9. ASSUME NEW c \in Comps, Ready(c) PROVE CacheLags'
    <3> DEFINE s == comp[c].cur
    <3>1. Slot(s.initialized, s.synthesized, s.failed, s.reconciled, TRUE) \in Synthesis
      BY <1>1, <2>9 DEF Ready, TypeOK, Composition, Slot, Synthesis
    <3>2. QED
      BY <1>4, <2>9, <3>1 DEF Ready
  <2>10. QED
    BY <1>2, <2>1, <2>2, <2>3, <2>4, <2>5, <2>6, <2>7, <2>8, <2>9 DEF Next, vars
<1>6. QED
  BY <1>1, <1>5 DEF IInv

-----------------------------------------------------------------------------
(* The terminal-error gauge is exact once the watchdog is idle and caught  *)
(* up.  Every change of the cache enqueues the watchdog, and a Reconcile   *)
(* recomputes the gauge from the cache; nothing the gauge reads changes    *)
(* otherwise.  So an idle watchdog's gauge agrees with its cache, and a    *)
(* caught-up cache with the server (CacheLags).                            *)
TerminalOf(v) == {c \in Comps : v[c] # Nil /\ inTerminalError(v[c])}

QueueCovers == ~queued => gauge["terminalErrors"] = TerminalOf(cache)

LEMMA CoversInit == Init => QueueCovers
BY DEF Init, QueueCovers, TerminalOf

LEMMA CoversStep == QueueCovers /\ [Next]_vars => QueueCovers'
<1> SUFFICES ASSUME QueueCovers, [Next]_vars PROVE QueueCovers'
  OBVIOUS
<1>1. ASSUME UNCHANGED <<cache, gauge, queued>> PROVE QueueCovers'
  BY <1>1 DEF QueueCovers, TerminalOf
<1>2. CASE Reconcile
  <2>1. gauge'["terminalErrors"] = TerminalOf(cache) /\ cache' = cache
    BY <1>2 DEF Reconcile, Counted, TerminalOf
  <2>2. QED
    BY <2>1 DEF QueueCovers
<1>3. CASE CacheSync \/ Resync
  BY <1>3 DEF CacheSync, Resync, QueueCovers
<1>4. QED
  BY <1>1, <1>2, <1>3
     DEF Next, vars, Tick, CreateComposition, NewSynthesis, Initialize,
         SynthesisEnds, Reconciled, Ready, SynthesizerChange, Write, WriteCur

(* An idle, caught-up watchdog reports exactly the compositions in         *)
(* terminal error, for every number of compositions and every lag.        *)
THEOREM IdleTerminalExactHolds == Spec => []IdleTerminalExact
<1>1. Spec => [](IInv /\ QueueCovers)
  BY IInvInit, IInvStep, CoversInit, CoversStep, PTL DEF Spec
<1>2. IInv /\ QueueCovers => IdleTerminalExact
  <2> SUFFICES ASSUME IInv, QueueCovers, events = << >>, ~queued
               PROVE  gauge["terminalErrors"] =
                        {c \in Comps : comp[c] # Nil /\ inTerminalError(comp[c])}
    BY DEF IdleTerminalExact
  <2>1. \A c \in Comps : cache[c] = comp[c]
    BY DEF IInv, CacheLags
  <2>2. QED
    BY <2>1 DEF QueueCovers, TerminalOf
<1>3. QED
  BY <1>1, <1>2, PTL
=============================================================================
