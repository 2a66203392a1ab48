------------------------------- MODULE Emitter -------------------------------
(***************************************************************************)
(* What a backend promises the core about one request it serves            *)
(* (engine/src/backend.hpp, struct Emitter and Backend::serve), whatever   *)
(* its engine: while it serves it emits blocks; at most once it reports    *)
(* how the request ended, and then it only returns.  The process may die   *)
(* under it.                                                               *)
(***************************************************************************)
EXTENDS Naturals

VARIABLES
  serving,   \* "no", "yes", or "lost" when the process died
  emitted,   \* blocks and resync points emitted for this request
  ending     \* what was reported: "nothing", "failed" or "finished"

emitterVars == <<serving, emitted, ending>>

EmitterInit == serving = "no" /\ emitted = 0 /\ ending = "nothing"

Begin ==
  /\ serving = "no" /\ serving' = "yes"
  /\ UNCHANGED <<emitted, ending>>

(* One out.block or out.sync, or several between two polls for a cancel. *)
EmitBlock ==
  /\ serving = "yes" /\ ending = "nothing"
  /\ emitted' \in Nat /\ emitted' > emitted
  /\ UNCHANGED <<serving, ending>>

ReportEnd ==
  /\ serving = "yes" /\ ending = "nothing"
  /\ ending' \in {"failed", "finished"}
  /\ UNCHANGED <<serving, emitted>>

(* serve returns, or the process dies: the next one starts afresh. *)
Return ==
  /\ serving \in {"yes", "lost"} /\ serving' = "no"
  /\ emitted' = 0 /\ ending' = "nothing"

Lose ==
  /\ serving = "yes" /\ serving' = "lost"
  /\ UNCHANGED <<emitted, ending>>

EmitterNext == Begin \/ EmitBlock \/ ReportEnd \/ Return \/ Lose

EmitterSpec == EmitterInit /\ [][EmitterNext]_emitterVars
=============================================================================
