------------------------------ MODULE Residency ------------------------------
(***************************************************************************)
(* Which models a context keeps resident over a long sequence of loads,    *)
(* reloads, generations and unloads, as its one caller sees it: every call *)
(* of loadModel (engine/src/context.cpp) runs evictionOrder                *)
(* (engine/src/governor.hpp) to its end.  Threads, requests and the marker *)
(* are EngineContext's; here the walk of evictionOrder is kept step by     *)
(* step and compared with what it is for.                                  *)
(***************************************************************************)
EXTENDS Governor, Sequences, SequencesExt

CONSTANTS
  RuntimeMb,   \* the runtime_mb a catalog entry may declare
  MaxClock     \* bound: loads

ASSUME ResidencyAssumption == RuntimeMb \subseteq Nat /\ MaxClock \in Nat

VARIABLES
  resident, bytes, lastUsed, clock,   \* governor_
  recency      \* the resident models, least recently used first; no call reads it

governor == <<resident, bytes, lastUsed, clock>>
vars == <<governor, recency>>

Init ==
  /\ resident = {}
  /\ bytes = [m \in Models |-> 0]
  /\ lastUsed = [m \in Models |-> 0]
  /\ clock = 0
  /\ recency = <<>>

-----------------------------------------------------------------------------
(* evictionOrder as the code walks it.                                     *)

(* Mutant: most recently noted first. *)
NewestFirst(S) ==
  CHOOSE walk \in SetToSeqs(S) :
    \A i, j \in DOMAIN walk : i < j => lastUsed[walk[i]] > lastUsed[walk[j]]

(* The candidates, sorted. *)
ByAge(S) ==
  CHOOSE walk \in SetToSeqs(S) :
    \A i, j \in DOMAIN walk : i < j => lastUsed[walk[i]] < lastUsed[walk[j]]

(* Whether `incoming` fits once the first n of `candidates` are freed. *)
FitsAfter(n, candidates, incoming) ==
  LET freed == ToSet(SubSeq(candidates, 1, n)) IN
  FitsWithout(freed, ToSet(candidates), bytes, incoming)

(* Mutant: the walk stops one victim early. *)
StopsEarly(candidates, incoming) ==
  (CHOOSE n \in 0 .. Len(candidates) :
     /\ FitsAfter(n, candidates, incoming)
     /\ \A i \in 0 .. n - 1 : ~FitsAfter(i, candidates, incoming)) - 1

(* Mutant: one more than needed goes. *)
StopsLate(candidates, incoming) ==
  LET n == StopsEarly(candidates, incoming) + 2
  IN  IF n > Len(candidates) THEN Len(candidates) ELSE n

(* Where the loop over the candidates breaks. *)
StopsAt(candidates, incoming) ==
  CHOOSE n \in 0 .. Len(candidates) :
    /\ FitsAfter(n, candidates, incoming)
    /\ \A i \in 0 .. n - 1 : ~FitsAfter(i, candidates, incoming)

EvictionOrder(incoming, keep) ==
  LET candidates == ByAge(Others(resident, keep)) IN
  IF \/ Budget = 0
     \/ FitsAfter(0, candidates, incoming)
     \/ ~FitsAfter(Len(candidates), candidates, incoming)
  THEN <<>>
  ELSE SubSeq(candidates, 1, StopsAt(candidates, incoming))

-----------------------------------------------------------------------------
(* The calls.                                                              *)

(* ++clock_ in noteLoaded. *)
Tick == clock + 1

(* The models used, with those of `gone` gone. *)
RecencyWithout(gone) == SelectSeq(recency, LAMBDA m : m \notin gone)

(* loadModel, once the backend has the object: make room, install, note. *)
Load(m, mb) ==
  /\ clock < MaxClock
  /\ LET dropped == ToSet(EvictionOrder(Charge(mb), m)) IN
       /\ resident' = (resident \ dropped) \cup {m}
       /\ bytes' = [n \in Models |->
            CASE n = m -> Charge(mb) [] n \in dropped -> 0 [] OTHER -> bytes[n]]
       /\ lastUsed' = [n \in Models |->
            CASE n = m -> Tick [] n \in dropped -> 0 [] OTHER -> lastUsed[n]]
       /\ recency' = Append(RecencyWithout(dropped \cup {m}), m)
  /\ clock' = Tick

(* A request is served on m.  The context tells the governor nothing of    *)
(* it: noteUsed, which would move lastUsed, has no caller but a test.      *)
Generate(m) ==
  /\ m \in resident
  /\ recency' = Append(RecencyWithout({m}), m)
  /\ UNCHANGED governor

Unload(m) ==
  /\ m \in resident
  /\ resident' = resident \ {m}
  /\ bytes' = [bytes EXCEPT ![m] = 0]
  /\ lastUsed' = [lastUsed EXCEPT ![m] = 0]
  /\ recency' = RecencyWithout({m})
  /\ UNCHANGED clock

Next ==
  \/ \E m \in Models, mb \in RuntimeMb : Load(m, mb)
  \/ \E m \in Models : Generate(m) \/ Unload(m)

Spec == Init /\ [][Next]_vars

-----------------------------------------------------------------------------
(* Properties.  Amounts are added here as numbers, not as words.           *)

Total(S, amounts) == MapThenSumSet(LAMBDA m : amounts[m], S)

(* What a load drops besides the object it replaces. *)
Dropped == resident \ resident'

Loads(m) == clock' = clock + 1 /\ lastUsed'[m] = clock'

(* A load that could fit at all leaves the context within its budget,      *)
(* whatever was resident before, an over-budget model included.            *)
EvictionSuffices ==
  [][\A m \in Models :
       Budget # 0 /\ Loads(m) /\ bytes'[m] <= Budget
         => Total(resident', bytes') <= Budget]_vars

(* A load drops nothing it could have kept: without the last of the        *)
(* victims the load did not fit (evictionOrder's break); and a load that   *)
(* cannot fit costs nobody its place (governor.hpp:143-148).               *)
EvictsNoMore ==
  [][\A m \in Models : Loads(m) =>
       /\ \A v \in Dropped :
            (\A w \in Dropped : lastUsed[w] <= lastUsed[v])
              => Total(resident', bytes') + bytes[v] > Budget
       /\ bytes'[m] > Budget => Dropped = {}]_vars

(* What goes was used less recently than everything that stays             *)
(* (governor.hpp:16-18).  It fails: lastUsed is the load, not the use.     *)
LeastRecentlyUsedGoFirst ==
  [][\A m \in Models : Loads(m) =>
       \A i, j \in DOMAIN recency :
         /\ recency[i] \in Dropped
         /\ recency[j] \notin Dropped \cup {m}
         => i < j]_vars

(* The walk of evictionOrder names exactly the victims EngineContext drops, *)
(* for every load that could come next.                                     *)
WalkIsVictims ==
  \A m \in Models, mb \in RuntimeMb :
    ToSet(EvictionOrder(Charge(mb), m))
      = EvictionVictims(resident, bytes, lastUsed, Charge(mb), m)
=============================================================================
