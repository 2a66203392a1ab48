---------------------------- MODULE RequestStream ----------------------------
(***************************************************************************)
(* What a context promises its consumers (engine/include/despia_ai.h),     *)
(* with no queue, thread or model: requests are accepted, generate one at  *)
(* a time and are never preempted, each settles at most once with nothing  *)
(* generated afterwards, and the end of the context drops the rest.        *)
(***************************************************************************)
EXTENDS Naturals

CONSTANT Ids   \* the requests that may be accepted

VARIABLES
  status,    \* where each request is in its life
  told,      \* tokens each request has been told
  running    \* the request whose tokens are flowing, or Nobody

streamVars == <<status, told, running>>

Nobody == 0

StreamTypeOK ==
  /\ status \in [Ids -> {"new", "live", "settled", "retired", "dropped"}]
  /\ told \in [Ids -> Nat]
  /\ running \in Ids \cup {Nobody}

StreamInit ==
  /\ status = [r \in Ids |-> "new"]
  /\ told = [r \in Ids |-> 0]
  /\ running = Nobody

Accept(r) ==
  /\ status[r] = "new"
  /\ status' = [status EXCEPT ![r] = "live"]
  /\ UNCHANGED <<told, running>>

Token(r) ==
  /\ status[r] = "live" /\ running \in {Nobody, r}
  /\ told' = [told EXCEPT ![r] = @ + 1]
  /\ running' = r
  /\ UNCHANGED status

Settle(r) ==
  /\ status[r] = "live" /\ running \in {Nobody, r}
  /\ status' = [status EXCEPT ![r] = "settled"]
  /\ running' = Nobody
  /\ UNCHANGED told

(* cancel and sync stop finding a request only once it has settled. *)
Retire(r) ==
  /\ status[r] = "settled"
  /\ status' = [status EXCEPT ![r] = "retired"]
  /\ UNCHANGED <<told, running>>

(* The context is closed, or its process dies. *)
Drop ==
  /\ status' = [r \in Ids |-> IF status[r] = "live" THEN "dropped" ELSE status[r]]
  /\ running' = Nobody
  /\ UNCHANGED told

StreamNext ==
  \/ \E r \in Ids : Accept(r) \/ Token(r) \/ Settle(r) \/ Retire(r)
  \/ Drop

StreamSpec == StreamInit /\ [][StreamNext]_streamVars
=============================================================================
