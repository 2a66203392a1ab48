------------------------------ MODULE Governor ------------------------------
(***************************************************************************)
(* The residency half of engine/src/governor.hpp: which models are         *)
(* resident, what each is charged, when each was last noted, and which to  *)
(* evict so that an incoming model fits the budget.                        *)
(*                                                                         *)
(* The class keeps std::map<id, {bytes, lastUsed}>.  Here it is the set    *)
(* `resident` with two functions over it, and the methods are operators on *)
(* those values, so that the context (EngineContext) and the sequential    *)
(* residency model (Residency) use one definition of each.                 *)
(*                                                                         *)
(* Amounts are uint64 in the code.  A charge is a whole number of MiB, so  *)
(* one unit here is one MiB and WordSize stands for 2^64 / 2^20; Budget is *)
(* max_runtime_bytes rounded down to the same unit, which changes no       *)
(* comparison, because every total compared with it is whole.              *)
(***************************************************************************)
EXTENDS Integers, FiniteSets, FiniteSetsExt

CONSTANTS
  Models,    \* the model ids a catalog names
  Budget,    \* limits.max_runtime_bytes; 0 is unbounded
  WordSize   \* the number of values of the accounting word

ASSUME GovernorAssumption ==
  /\ IsFiniteSet(Models)
  /\ WordSize \in Nat \ {0}
  /\ Budget \in 0 .. WordSize - 1

Word == 0 .. WordSize - 1

Plus(a, b)  == (a + b) % WordSize
Minus(a, b) == (a - b) % WordSize

(* residentBytes(), over any set of models: the total as the word holds it. *)
SumBytes(S, bytes) == MapThenSumSet(LAMBDA m : bytes[m], S) % WordSize

(* Mutant: the declared amount is kept signed. *)
ChargeSigned(runtimeMb) == runtimeMb

(* static_cast<uint64_t>(runtime_mb): a negative declaration wraps round. *)
Charge(runtimeMb) == runtimeMb % WordSize

-----------------------------------------------------------------------------
(* evictionOrder(incomingBytes, keepId).  The model being loaded is left   *)
(* out of both the total and the candidates: a reload replaces its own     *)
(* charge.                                                                 *)

Others(resident, keep) == resident \ {keep}

OlderThan(m, S, lastUsed) == {e \in S : lastUsed[e] < lastUsed[m]}

(* Whether `incoming` fits once the models of `freed` are gone. *)
FitsWithout(freed, S, bytes, incoming) ==
  Plus(Minus(SumBytes(S, bytes), SumBytes(freed, bytes)), incoming) <= Budget

(* The victims, as a set: the code walks the candidates from the oldest    *)
(* and stops at the first point where the rest fits.  They are dropped in  *)
(* that same order.                                                        *)
EvictionVictims(resident, bytes, lastUsed, incoming, keep) ==
  LET S == Others(resident, keep) IN
  {m \in S :
     /\ Budget # 0
     /\ ~FitsWithout({}, S, bytes, incoming)
     /\ FitsWithout(S, S, bytes, incoming)
     /\ \A e \in OlderThan(m, S, lastUsed) \cup {m} :
          ~FitsWithout(OlderThan(e, S, lastUsed), S, bytes, incoming)}

(* The first of the victims still to drop: the least lastUsed. *)
Oldest(S, lastUsed) == CHOOSE m \in S : \A e \in S : lastUsed[m] <= lastUsed[e]
=============================================================================
