---------------------------- MODULE SynthesisSlots ----------------------------
(***************************************************************************)
(* What the Composition status slots promise (spec.md 3 and 4.D-4.G),     *)
(* with no informer cache and no work queue: a CurrentSynthesis is        *)
(* authored pending, gets a fresh uuid only while it is pending, then is  *)
(* synthesized or fails after MaxRestarts attempts; a synthesized current *)
(* slot moves to PreviousSynthesis when the next one is authored.         *)
(* SynthesisFlow implements this specification.                           *)
(***************************************************************************)
EXTENDS Naturals

CONSTANTS Comps, MaxRestarts, MaxGen, Nil

VARIABLES cur, prev, gen, nextUUID

vars == <<cur, prev, gen, nextUUID>>

Synthesis == [uuid: Nat, gen: 1..MaxGen, synthesized: BOOLEAN,
              attempts: Nat, failed: BOOLEAN]

Pending(c) == cur[c] # Nil /\ ~cur[c].synthesized /\ cur[c].uuid = 0
Running(c) == cur[c] # Nil /\ ~cur[c].synthesized /\ cur[c].uuid # 0
                /\ ~cur[c].failed

(* A pending synthesis is dispatched: it gets a uuid never used before.   *)
Dispatch(c) ==
    /\ Pending(c)
    /\ cur' = [cur EXCEPT ![c].uuid = nextUUID]
    /\ nextUUID' = nextUUID + 1
    /\ UNCHANGED <<prev, gen>>

(* The user updates the Composition.                                        *)
Update(c) ==
    /\ gen[c] < MaxGen
    /\ gen' = [gen EXCEPT ![c] = gen[c] + 1]
    /\ UNCHANGED <<cur, prev, nextUUID>>

(* A new pending synthesis of the current generation replaces a missing, *)
(* finished or failed one behind the generation; a synthesized one moves  *)
(* to the previous slot.                                                   *)
Author(c) ==
    /\ \/ cur[c] = Nil
       \/ cur[c] # Nil /\ (cur[c].synthesized \/ cur[c].failed)
                       /\ cur[c].gen < gen[c]
    /\ cur' = [cur EXCEPT ![c] = [uuid |-> 0, gen |-> gen[c],
                                  synthesized |-> FALSE, attempts |-> 0,
                                  failed |-> FALSE]]
    /\ prev' = IF cur[c] # Nil /\ cur[c].synthesized
                 THEN [prev EXCEPT ![c] = cur[c]] ELSE prev
    /\ UNCHANGED <<gen, nextUUID>>

(* A running synthesis succeeds, or an attempt of it fails.               *)
Succeed(c) ==
    /\ Running(c)
    /\ cur' = [cur EXCEPT ![c].synthesized = TRUE]
    /\ UNCHANGED <<prev, gen, nextUUID>>

Fail(c) ==
    /\ Running(c)
    /\ cur' = [cur EXCEPT ![c].attempts = cur[c].attempts + 1,
                          ![c].failed = (cur[c].attempts + 1 > MaxRestarts)]
    /\ UNCHANGED <<prev, gen, nextUUID>>

Init ==
    /\ cur = [c \in Comps |-> Nil]
    /\ prev = [c \in Comps |-> Nil]
    /\ gen = [c \in Comps |-> 1]
    /\ nextUUID = 1

Next == \E c \in Comps : Dispatch(c) \/ Update(c) \/ Author(c) \/ Succeed(c) \/ Fail(c)

Spec == Init /\ [][Next]_vars

=============================================================================
