------------------------------ MODULE MockServe ------------------------------
(***************************************************************************)
(* The mock backend (mock/mock_backend.cpp): a model is a list of turns,   *)
(* each a script of events it replays.  The two forms of a script are kept *)
(* (turns, which move on with each request, and everyTurn, which does not) *)
(* and every event a script may hold, the text of a block left out.        *)
(***************************************************************************)
EXTENDS BackendSeam

CONSTANTS
  Scripts,    \* the turns a script may be made of: sequences of MockEvents
  MaxTurns    \* bound: turns of one model

ASSUME MockAssumption == MaxTurns \in Nat

MockEvents == {"token", "thinking", "tool", "block", "sync", "pause", "error",
               "complete", "unknown"}

(* What a script's event emits, if it emits. *)
Shown(event) ==
  CASE event \in {"token", "thinking", "tool", "block"} -> <<[type |-> event]>>
    [] event = "sync" -> <<[type |-> "sync"]>>
    [] OTHER -> <<>>

LoadMock ==
  Empty /\ \E turns \in BoundedSeq(Scripts, MaxTurns), repeats \in BOOLEAN :
    /\ repeats => Len(turns) = 1
    /\ Opened([engine |-> "mock", turns |-> turns, repeatLast |-> repeats, turnIndex |-> 0])

MockFrame(script) == [at |-> "step", script |-> script, next |-> 1]

(* A model with no turns returns at once; past its last turn a model       *)
(* repeats it.  The bound keeps turnIndex from growing without an effect.  *)
ServeMock ==
  \/ /\ Waiting("mock") /\ model.turns = <<>>
     /\ Begin("mock", [kind |-> "mock"], MockFrame(<<>>))
     /\ UNCHANGED model
  \/ /\ Waiting("mock") /\ model.turns # <<>>
     /\ LET index == IF model.repeatLast THEN 0 ELSE model.turnIndex
            turn  == model.turns[Min({index + 1, Len(model.turns)})]
        IN  Begin("mock", [kind |-> "mock"], MockFrame(turn))
     /\ model' = [model EXCEPT !.turnIndex = IF model.repeatLast THEN @
                                             ELSE Min({@ + 1, MaxTurns})]

ScriptEnds ==
  /\ At("mock", "step") /\ frame.next > Len(frame.script)
  /\ ReturnsSilently

AtEvent == At("mock", "step") /\ frame.next <= Len(frame.script)
Event   == frame.script[frame.next]

(* The poll before each event. *)
MockHearsCancel == AtEvent /\ Cancelled /\ ReturnsSilently

(* Mutant: an error does not end the turn. *)
PlayError ==
  \/ /\ AtEvent /\ ~Cancelled /\ Event \notin {"pause", "error", "complete"}
     /\ Emits(Shown(Event), [frame EXCEPT !.next = @ + 1])
  \/ /\ AtEvent /\ ~Cancelled /\ Event = "error"
     /\ report' = Append(report, [is |-> "failed", why |-> "engine_failed"])
     /\ frame' = [frame EXCEPT !.next = @ + 1]
     /\ UNCHANGED <<model, request, phase, sent, cancelAt>>

PlayEvent ==
  /\ AtEvent /\ ~Cancelled /\ Event \notin {"pause", "error", "complete"}
  /\ Emits(Shown(Event), [frame EXCEPT !.next = @ + 1])

(* The request stays in flight until the caller cancels it. *)
PauseMock ==
  /\ AtEvent /\ ~Cancelled /\ Event = "pause"
  /\ Moves([frame EXCEPT !.at = "paused"])

(* Mutant: the pause sleeps and looks again, but not for a cancel. *)
PausedForever == At("mock", "paused") /\ Moves(frame)

PausedHearsCancel == At("mock", "paused") /\ Cancelled /\ ReturnsSilently

FailMock     == AtEvent /\ ~Cancelled /\ Event = "error" /\ Fails("engine_failed")
CompleteMock == AtEvent /\ ~Cancelled /\ Event = "complete" /\ Finishes("scripted")

MockNext ==
  \/ LoadMock \/ ServeMock \/ ScriptEnds \/ MockHearsCancel \/ PlayEvent
  \/ PauseMock \/ PausedHearsCancel \/ FailMock \/ CompleteMock
=============================================================================
