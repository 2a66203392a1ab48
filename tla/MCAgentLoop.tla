---------------------------- MODULE MCAgentLoop ----------------------------
(* Model-checking instances of AgentLoop. *)
EXTENDS AgentLoop, TLC

CONSTANTS k1, k2

TwoKeys == {k1, k2}
OneKey  == {k1}

(* A request whose turns group two calls beside one of single calls. *)
PairAndSingle == [k \in Keys |-> IF k = k1 THEN 2 ELSE 1]
=============================================================================
