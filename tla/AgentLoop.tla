------------------------------ MODULE AgentLoop ------------------------------
(***************************************************************************)
(* The host's agentic loop (bindings/ts/src/host.ts over engine.ts):       *)
(* completions whose turns call tools, tools that wait for an approval or  *)
(* a deadline, cancel, resync and the clock.                               *)
(*                                                                         *)
(* The host is one synchronous thread.  A call from outside starts when    *)
(* the call stack is empty and everything it causes runs before the next   *)
(* one, but inside one another: a turn's terminal event dispatches tools   *)
(* from within the engine's callback, and the last tool's answer starts    *)
(* the next turn from within that.  So the stack is state, and what runs   *)
(* after a nested call returns is a step of its own.                       *)
(*                                                                         *)
(* A tool is abstracted to how the host treats it, the content of messages *)
(* and snapshots is left out, and so is the registry of tools.             *)
(***************************************************************************)
EXTENDS Naturals, Sequences, SequencesExt, FiniteSets

CONSTANTS
  Keys,       \* the labels of the requests
  DepthCap,   \* TOOL_DEPTH_CAP
  MaxCalls,   \* bound: tool calls a model asks for in one turn, per label
  Pauses      \* whether a turn may stop mid-stream until it is resumed

NoKey == "no key"

ASSUME LoopAssumption ==
  DepthCap \in Nat /\ MaxCalls \in [Keys -> Nat] /\ Pauses \in BOOLEAN /\ NoKey \notin Keys

(* read: answered at once, refused and unknown names included; write:      *)
(* mutates under approval "auto"; hang: never answers by itself; prompt:   *)
(* mutates and asks first.                                                 *)
Kinds == {"read", "write", "hang", "prompt"}
Mutates(kind) == kind \in {"write", "prompt"}

(* A parked tool is timed when the clock can make it due. *)
Park == [key : Keys, call : Nat, why : {"approval", "deadline"}, timed : BOOLEAN]

VARIABLES
  stack,      \* the synchronous call stack, its top last
  ridOf,      \* label -> request id, 0 when the label is unknown
  ridSeq,     \* the host's own counter of ids
  owner,      \* the engine's requests in order: owner[id] is the label
  live,       \* the engine's requests that have not ended
  loops,      \* labels whose loop is registered
  calls,      \* tool calls of the label's current turn
  depth,      \* tool rounds the label has used
  next,       \* first call of the turn not yet in a group
  waiting,    \* calls of the current group without an answer
  parked,     \* the parked tools, oldest first
  due,        \* parked tools this tick has still to time out
  (* what can be seen from outside *)
  asked, cancelled,  \* labels used, labels cancelled
  finals,     \* terminal events per label
  errs,       \* errors and refusals per label
  late,       \* labels with an event after a terminal one
  strays      \* labels that ran a tool or a turn after their cancel

idVars   == <<ridOf, ridSeq, owner, live>>
turnVars == <<calls, depth, next, waiting>>
seenVars == <<finals, errs, late>>
vars == <<stack, idVars, loops, turnVars, parked, due, asked, cancelled, seenVars, strays>>

Frame(at, key, id) == [at |-> at, key |-> key, id |-> id]
Frames == [at : {"turn", "request", "resumed", "groups", "call", "return", "tick"},
           key : Keys \cup {NoKey}, id : Nat]

Init ==
  /\ stack = <<>>
  /\ ridOf = [k \in Keys |-> 0] /\ ridSeq = 0
  /\ owner = <<>> /\ live = {}
  /\ loops = {} /\ asked = {} /\ cancelled = {}
  /\ calls = [k \in Keys |-> <<>>] /\ depth = [k \in Keys |-> 0]
  /\ next = [k \in Keys |-> 1] /\ waiting = [k \in Keys |-> {}]
  /\ parked = <<>> /\ due = {}
  /\ finals = [k \in Keys |-> 0] /\ errs = [k \in Keys |-> 0] /\ late = {}
  /\ strays = {}

-----------------------------------------------------------------------------
Idle == stack = <<>>
Top  == Last(stack)
Running(at) == stack # <<>> /\ Top.at = at

IsLate(k) == IF finals[k] + errs[k] > 0 THEN late \cup {k} ELSE late
IsStray(k) == IF k \in cancelled THEN strays \cup {k} ELSE strays

EmitFinal(k) ==
  /\ finals' = [finals EXCEPT ![k] = @ + 1]
  /\ late' = IsLate(k)
  /\ loops' = loops \ {k}
  /\ UNCHANGED errs

EmitError(k) ==
  /\ errs' = [errs EXCEPT ![k] = @ + 1]
  /\ late' = IsLate(k)
  /\ loops' = loops \ {k}
  /\ UNCHANGED finals

(* Mutant: a mutating call does not end its group. *)
GroupOfAll(k) == next[k] .. Len(calls[k])

(* The calls of the group that starts at next[k]: a mutating call alone,   *)
(* or the reading calls up to the next mutating one.                       *)
GroupOf(k) ==
  LET first == next[k] IN
    IF Mutates(calls[k][first]) THEN {first}
    ELSE {i \in first .. Len(calls[k]) :
            \A j \in first .. i : ~Mutates(calls[k][j])}

(* Mutant: a result is recorded and `done` is not called. *)
AnsweredNotDone(k, i, rest) ==
  /\ waiting' = [waiting EXCEPT ![k] = @ \ {i}]
  /\ late' = IsLate(k)
  /\ stack' = rest

(* answer and done: the result joins the turn's, and the last one of a     *)
(* group runs the next group from right here.                              *)
Answered(k, i, rest) ==
  /\ waiting' = [waiting EXCEPT ![k] = @ \ {i}]
  /\ late' = IsLate(k)
  /\ stack' = IF waiting[k] \ {i} = {} THEN Append(rest, Frame("groups", k, 0)) ELSE rest

-----------------------------------------------------------------------------
(* Calls from outside that start work.                                     *)

(* completion, embed or a provider call that reaches the engine: the label *)
(* first gets an id of the host's own counter.                             *)
Completion(k) ==
  /\ Idle /\ k \notin asked
  /\ asked' = asked \cup {k}
  /\ ridSeq' = ridSeq + 1 /\ ridOf' = [ridOf EXCEPT ![k] = ridSeq + 1]
  /\ loops' = loops \cup {k}
  /\ stack' = <<Frame("turn", k, 0)>>
  /\ UNCHANGED <<owner, live, turnVars, parked, due, cancelled, seenVars, strays>>

(* One answered above the engine, after the id was handed out: a typed     *)
(* absence, or the app's own remote, which answers in the same call.       *)
AnsweredAbove(k) ==
  /\ Idle /\ k \notin asked
  /\ asked' = asked \cup {k}
  /\ ridSeq' = ridSeq + 1 /\ ridOf' = [ridOf EXCEPT ![k] = ridSeq + 1]
  /\ EmitError(k) \/ EmitFinal(k)
  /\ UNCHANGED <<stack, owner, live, turnVars, parked, due, cancelled, strays>>

-----------------------------------------------------------------------------
(* A turn: the engine's script runs inside engine.request or resume.       *)

InEngine == Running("request") \/ Running("resumed")

(* What is left of the stack when the engine's frame is done: request's    *)
(* return value is still to be stored, resume has none.                    *)
Unwound ==
  IF Top.at = "request" THEN Append(Front(stack), Frame("return", Top.key, Top.id))
  ELSE Front(stack)

StartTurn ==
  /\ Running("turn")
  /\ owner' = Append(owner, Top.key)
  /\ live' = live \cup {Len(owner) + 1}
  /\ strays' = IsStray(Top.key)
  /\ stack' = Append(Front(stack), Frame("request", Top.key, Len(owner) + 1))
  /\ UNCHANGED <<ridOf, ridSeq, loops, turnVars, parked, due, asked, cancelled,
                 seenVars>>

EmitToken ==
  /\ InEngine
  /\ late' = IsLate(Top.key)
  /\ UNCHANGED <<stack, idVars, loops, turnVars, parked, due, asked, cancelled,
                 finals, errs, strays>>

CollectTool(kind) ==
  /\ InEngine /\ Len(calls[Top.key]) < MaxCalls[Top.key]
  /\ calls' = [calls EXCEPT ![Top.key] = Append(@, kind)]
  /\ UNCHANGED <<stack, idVars, loops, depth, next, waiting, parked, due, asked,
                 cancelled, seenVars, strays>>

(* The script stops mid-stream, the request stays live.  Once per turn.    *)
Pause ==
  /\ Running("request") /\ Pauses
  /\ stack' = Unwound
  /\ UNCHANGED <<idVars, loops, turnVars, parked, due, asked, cancelled, seenVars, strays>>

(* The calls a turn collected are its own; what is not run goes with it. *)
ForgetCalls(k) == calls' = [calls EXCEPT ![k] = <<>>]

EngineFails ==
  /\ InEngine
  /\ live' = live \ {Top.id}
  /\ EmitError(Top.key)
  /\ ForgetCalls(Top.key)
  /\ stack' = Unwound
  /\ UNCHANGED <<ridOf, ridSeq, owner, depth, next, waiting, parked, due, asked,
                 cancelled, strays>>

(* The terminal event's `finish`, with no tool left to run. *)
TurnAnswers ==
  /\ InEngine /\ calls[Top.key] = <<>>
  /\ live' = live \ {Top.id}
  /\ EmitFinal(Top.key)
  /\ stack' = Unwound
  /\ UNCHANGED <<ridOf, ridSeq, owner, turnVars, parked, due, asked, cancelled, strays>>

(* Mutant: the cap stops the error report, not the loop. *)
TooDeepGoesOn ==
  /\ InEngine /\ calls[Top.key] # <<>> /\ depth[Top.key] >= DepthCap
  /\ live' = live \ {Top.id}
  /\ EmitError(Top.key)
  /\ stack' = Append(Unwound, Frame("groups", Top.key, 0))
  /\ UNCHANGED <<ridOf, ridSeq, owner, turnVars, parked, due, asked, cancelled, strays>>

TooDeep ==
  /\ InEngine /\ calls[Top.key] # <<>> /\ depth[Top.key] >= DepthCap
  /\ live' = live \ {Top.id}
  /\ EmitError(Top.key)
  /\ ForgetCalls(Top.key)
  /\ stack' = Unwound
  /\ UNCHANGED <<ridOf, ridSeq, owner, depth, next, waiting, parked, due, asked,
                 cancelled, strays>>

(* Mutant: the engine forgets its request after the terminal event. *)
DispatchBeforeDelete ==
  /\ InEngine /\ calls[Top.key] # <<>> /\ depth[Top.key] < DepthCap
  /\ depth' = [depth EXCEPT ![Top.key] = @ + 1]
  /\ stack' = Append(Unwound, Frame("groups", Top.key, 0))
  /\ UNCHANGED <<idVars, loops, calls, next, waiting, parked, due, asked,
                 cancelled, seenVars, strays>>

DispatchTools ==
  /\ InEngine /\ calls[Top.key] # <<>> /\ depth[Top.key] < DepthCap
  /\ live' = live \ {Top.id}
  /\ depth' = [depth EXCEPT ![Top.key] = @ + 1]
  /\ stack' = Append(Unwound, Frame("groups", Top.key, 0))
  /\ UNCHANGED <<ridOf, ridSeq, owner, loops, calls, next, waiting, parked, due, asked,
                 cancelled, seenVars, strays>>

(* engine.request returns: the label now names the id it returned. *)
Return ==
  /\ Running("return")
  /\ ridOf' = [ridOf EXCEPT ![Top.key] = Top.id]
  /\ stack' = Front(stack)
  /\ UNCHANGED <<ridSeq, owner, live, loops, turnVars, parked, due, asked,
                 cancelled, seenVars, strays>>

-----------------------------------------------------------------------------
(* The tools of a turn.                                                    *)

(* runGroup: the next group, or the next turn when none is left. *)
RunGroup ==
  /\ Running("groups")
  /\ LET k == Top.key IN
       IF next[k] > Len(calls[k])
       THEN /\ stack' = Append(Front(stack), Frame("turn", k, 0))
            /\ next' = [next EXCEPT ![k] = 1]
            /\ ForgetCalls(k)
            /\ UNCHANGED waiting
       ELSE /\ stack' = Append(Front(stack), Frame("call", k, next[k]))
            /\ waiting' = [waiting EXCEPT ![k] = GroupOf(k)]
            /\ next' = [next EXCEPT ![k] = Max(GroupOf(k)) + 1]
            /\ UNCHANGED calls
  /\ UNCHANGED <<idVars, loops, depth, parked, due, asked, cancelled, seenVars, strays>>

(* The group's loop after this call; nothing follows its last one. *)
NextCall ==
  IF Top.id + 1 = next[Top.key] THEN Front(stack)
  ELSE Append(Front(stack), Frame("call", Top.key, Top.id + 1))

RunTool ==
  /\ Running("call") /\ calls[Top.key][Top.id] \in {"read", "write"}
  /\ Answered(Top.key, Top.id, NextCall)
  /\ strays' = IsStray(Top.key)
  /\ UNCHANGED <<idVars, loops, calls, depth, next, parked, due, asked, cancelled,
                 finals, errs>>

(* A hung tool has the default deadline if it declares none; an approval   *)
(* whose tool declares no approval_timeout_ms is never due.                *)
ParkTool ==
  /\ Running("call") /\ calls[Top.key][Top.id] \in {"hang", "prompt"}
  /\ \E timed \in BOOLEAN :
       /\ calls[Top.key][Top.id] = "hang" => timed
       /\ parked' = Append(parked,
            [key |-> Top.key, call |-> Top.id, timed |-> timed,
             why |-> IF calls[Top.key][Top.id] = "hang" THEN "deadline" ELSE "approval"])
  /\ late' = IsLate(Top.key)
  /\ stack' = NextCall
  /\ UNCHANGED <<idVars, loops, turnVars, due, asked, cancelled, finals, errs, strays>>

Approvals == {i \in DOMAIN parked : parked[i].why = "approval"}

(* The i-th parked tool runs, fails, or hangs and waits for its deadline. *)
Approve(i) ==
  /\ Idle /\ i \in Approvals
  /\ LET p == parked[i] IN
       /\ strays' = IsStray(p.key)
       /\ \/ /\ Answered(p.key, p.call, <<>>)
             /\ parked' = RemoveAt(parked, i)
          \/ /\ parked' = Append(RemoveAt(parked, i), [p EXCEPT !.why = "deadline", !.timed = TRUE])
             /\ late' = IsLate(p.key)
             /\ UNCHANGED <<stack, waiting>>
  /\ UNCHANGED <<idVars, loops, calls, depth, next, due, asked, cancelled, finals, errs>>

(* Mutant: a denied call is dropped instead of answered. *)
DenyDrops(i) ==
  /\ Idle /\ i \in Approvals
  /\ parked' = RemoveAt(parked, i)
  /\ UNCHANGED <<stack, idVars, loops, turnVars, due, asked, cancelled, seenVars, strays>>

Deny(i) ==
  /\ Idle /\ i \in Approvals
  /\ parked' = RemoveAt(parked, i)
  /\ Answered(parked[i].key, parked[i].call, <<>>)
  /\ UNCHANGED <<idVars, loops, calls, depth, next, due, asked, cancelled,
                 finals, errs, strays>>

(* tick moves the clock.  How long the timeouts are is the app's choice,   *)
(* so any timed tools may be due; one parked during the tick is not.       *)
Tick(ripe) ==
  /\ Idle /\ ripe # {} /\ ripe \subseteq ToSet(parked)
  /\ \A p \in ripe : p.timed
  /\ due' = ripe
  /\ stack' = <<Frame("tick", NoKey, 0)>>
  /\ UNCHANGED <<idVars, loops, turnVars, parked, asked, cancelled, seenVars, strays>>

FirstDue == SelectInSeq(parked, LAMBDA p : p \in due)

TimeOut ==
  /\ Running("tick") /\ due # {}
  /\ LET p == parked[FirstDue] IN
       /\ due' = due \ {p}
       /\ parked' = RemoveAt(parked, FirstDue)
       /\ Answered(p.key, p.call, stack)
  /\ UNCHANGED <<idVars, loops, calls, depth, next, asked, cancelled, finals, errs, strays>>

TickReturns ==
  /\ Running("tick") /\ due = {}
  /\ stack' = Front(stack)
  /\ UNCHANGED <<idVars, loops, turnVars, parked, due, asked, cancelled, seenVars, strays>>

-----------------------------------------------------------------------------
(* Cancel and resync, through the id the label names.                      *)

(* The label whose live request the engine settles as cancelled, which is  *)
(* not always the one asked for.                                           *)
Hit(k) == IF ridOf[k] \in live THEN {owner[ridOf[k]]} ELSE {}

(* The label asked for settles as well if nothing ever settled it. *)
Settled(k) == Hit(k) \cup (IF finals[k] = 0 THEN {k} ELSE {})

Cancel(k) ==
  /\ Idle /\ ridOf[k] # 0
  /\ cancelled' = cancelled \cup {k}
  /\ live' = live \ {ridOf[k]}
  /\ loops' = loops \ ({k} \cup Settled(k))
  /\ calls' = [j \in Keys |-> IF j \in Hit(k) THEN <<>> ELSE calls[j]]
  /\ finals' = [j \in Keys |-> IF j \in Settled(k) THEN finals[j] + 1 ELSE finals[j]]
  /\ late' = late \cup {j \in Settled(k) : finals[j] + errs[j] > 0}
  /\ UNCHANGED <<stack, ridOf, ridSeq, owner, depth, next, waiting, parked, due,
                 asked, errs, strays>>

(* resync emits a snapshot and lets a stopped script go on. *)
Resync(k) ==
  /\ Idle /\ ridOf[k] \in live
  /\ LET id == ridOf[k] IN
       /\ late' = IsLate(owner[id])
       /\ stack' = <<Frame("resumed", owner[id], id)>>
  /\ UNCHANGED <<idVars, loops, turnVars, parked, due, asked, cancelled, finals,
                 errs, strays>>

-----------------------------------------------------------------------------
(* The next step of what is on the stack. *)
Run ==
  \/ StartTurn \/ EmitToken \/ (\E kind \in Kinds : CollectTool(kind)) \/ Pause
  \/ EngineFails \/ TurnAnswers \/ TooDeep \/ DispatchTools \/ Return
  \/ RunGroup \/ RunTool \/ ParkTool \/ TimeOut \/ TickReturns

Ask == \E k \in Keys : Completion(k) \/ AnsweredAbove(k) \/ Cancel(k) \/ Resync(k)

Next ==
  \/ Run \/ Ask
  \/ \E i \in DOMAIN parked : Approve(i) \/ Deny(i)
  \/ \E ripe \in SUBSET ToSet(parked) : Tick(ripe)

(* The thread runs what was called, and the app's clock goes on until each *)
(* label's timed tools are due.  Nobody has to answer an approval.         *)
Fairness ==
  /\ WF_vars(Run)
  /\ \A k \in Keys : WF_vars(\E p \in ToSet(parked) : p.key = k /\ Tick({p}))

Spec == Init /\ [][Next]_vars /\ Fairness

-----------------------------------------------------------------------------
(* Properties.                                                             *)

Turns(k) == {id \in DOMAIN owner : owner[id] = k}

(* A label's engine turns are no more than the cap allows and never        *)
(* overlap, and while one is live no tool of the label waits: nothing is   *)
(* held while an approval is parked (host.ts:982, 1175-1178, engine.ts     *)
(* #settle).                                                               *)
TurnsDoNotOverlap ==
  /\ \A k \in Keys : Cardinality(Turns(k)) <= DepthCap + 1
  /\ \A a, b \in live : a # b => owner[a] # owner[b]
  /\ \A id \in live : waiting[owner[id]] = {}
  /\ \A i \in DOMAIN parked : Turns(parked[i].key) \cap live = {}

(* Reading calls of one turn may wait together, a mutating one is alone    *)
(* with its loop (host.ts #groups).                                        *)
MutatingRunsAlone ==
  \A k \in Keys : \A i \in waiting[k] : Mutates(calls[k][i]) => waiting[k] = {i}

(* Between calls from outside the calls without an answer are exactly the  *)
(* parked ones, each parked once: none is lost, none is answered twice.    *)
UnansweredIsParked ==
  Idle => /\ \A k \in Keys :
               waiting[k] = {p.call : p \in {q \in ToSet(parked) : q.key = k}}
          /\ \A i, j \in DOMAIN parked :
               i # j => <<parked[i].key, parked[i].call>> # <<parked[j].key, parked[j].call>>

(* A loop that nobody cancelled is never stranded: between calls from      *)
(* outside it waits for a parked tool or in a turn of the engine, and once *)
(* it is over it has had exactly one terminal event or error, the last.    *)
LoopIsHeldOrSettled ==
  Idle => \A k \in asked \ cancelled :
    IF k \in loops
    THEN \/ \E p \in ToSet(parked) : p.key = k
         \/ Turns(k) \cap live # {}
    ELSE finals[k] + errs[k] = 1 /\ k \notin late

Unanswered(k) == \E p \in ToSet(parked) : p.key = k /\ p.why = "approval"
Untimed(k)    == \E p \in ToSet(parked) : p.key = k /\ ~p.timed

(* Every loop comes to its end, unless its turn stays stopped mid-stream   *)
(* or nobody answers an approval that is never due.                        *)
EveryLoopEnds ==
  \A k \in Keys : k \in loops ~>
    k \notin loops \/ (Idle /\ (Turns(k) \cap live # {} \/ Untimed(k)))

(* "An unanswered prompt resolves instead of hanging forever"              *)
(* (docs/tools-and-loop.md:47-48), unless its loop is cancelled.  It fails *)
(* where the tool declares no approval_timeout_ms.                         *)
EveryApprovalResolves ==
  \A k \in Keys : k \in loops /\ Unanswered(k) ~> k \notin loops \/ ~Unanswered(k)

(* "Cancellation is loop-wide": after a cancel no turn starts and no tool  *)
(* is dispatched (conformance/ai/loop/loop.json:63).                       *)
CancelledDispatchesNothing == strays = {}
=============================================================================
