------------------------------ MODULE SinkLedger ------------------------------
(***************************************************************************)
(* The JNI layer's ownership of listeners (bindings/jni/despia_ai_jni.cpp):*)
(* the ledger of sinks shared by every context of the process, and the     *)
(* attachment of each engine worker to the JVM.                            *)
(*                                                                         *)
(* Each driver is a Java thread that opens, uses and closes one context at *)
(* a time; its context has its own worker.  The contexts behave as         *)
(* RequestStream promises: a worker serves accepted requests one at a      *)
(* time, each settles once, and a close drops the ones still waiting.  A   *)
(* context is known to the ledger only by its address, and the address     *)
(* returns to the allocator when the context is deleted, which is before   *)
(* the sweep that names it.                                                *)
(***************************************************************************)
EXTENDS Integers, FiniteSets

CONSTANTS
  Drivers,       \* Java threads
  Addresses,     \* where a Context may be allocated
  MaxTokens      \* bound: requests entered in the ledger

Tokens == 1 .. MaxTokens
None   == 0
NoCtx  == "no context"
Nobody == "nobody"

ASSUME LedgerAssumption ==
  /\ IsFiniteSet(Drivers) /\ IsFiniteSet(Addresses)
  /\ MaxTokens \in Nat
  /\ NoCtx \notin Addresses /\ Nobody \notin Drivers

VARIABLES
  pc,          \* what each driver is doing
  ctx,         \* the address of the context it drives
  entered,     \* the token it has entered and not yet submitted
  sinks,       \* g_sinks: token -> address of the context, for the live ones
  nextToken,   \* g_nextSinkToken
  listenerRefs,   \* g_listenerRefs
  ref,         \* what became of each token's global reference
  owner,       \* which driver's request a token stands for
  life,        \* the request's life in the engine
  serving,     \* the request each driver's worker has taken
  call,        \* the delivery each worker is in
  attached,    \* t_attachedHere of each worker
  missed,      \* events of accepted requests that found no sink
  stranded,    \* requests whose terminal event found no JNIEnv
  taken        \* requests whose sink the sweep of another driver removed

ledgerVars == <<sinks, nextToken, listenerRefs, ref>>
engineVars == <<life, serving>>
vars == <<pc, ctx, entered, ledgerVars, owner, engineVars, call, attached,
          missed, stranded, taken>>

NoCall == [token |-> None, final |-> FALSE, bound |-> FALSE]

Init ==
  /\ pc = [d \in Drivers |-> "idle"] /\ ctx = [d \in Drivers |-> NoCtx]
  /\ entered = [d \in Drivers |-> None]
  /\ sinks = [t \in Tokens |-> NoCtx] /\ nextToken = 1 /\ listenerRefs = 0
  /\ ref = [t \in Tokens |-> "none"] /\ owner = [t \in Tokens |-> Nobody]
  /\ life = [t \in Tokens |-> "new"] /\ serving = [d \in Drivers |-> None]
  /\ call = [d \in Drivers |-> NoCall] /\ attached = [d \in Drivers |-> FALSE]
  /\ missed = {} /\ stranded = {} /\ taken = {}

LiveSinks == {t \in Tokens : sinks[t] # NoCtx}

-----------------------------------------------------------------------------
(* The ledger.                                                             *)

(* Mutant: the reference is deleted, the entry stays. *)
RetireKeepsEntry(tokens) ==
  LET gone == tokens \cap LiveSinks IN
  /\ UNCHANGED sinks
  /\ listenerRefs' = listenerRefs - Cardinality(gone)
  /\ ref' = [t \in Tokens |-> IF t \in gone THEN "deleted" ELSE ref[t]]

(* retire and sweepContext: the entries leave the ledger under its lock,   *)
(* and then nobody else can reach their references; a token that has left  *)
(* already is not there to leave.                                          *)
Retire(tokens) ==
  LET gone == tokens \cap LiveSinks IN
  /\ sinks' = [t \in Tokens |-> IF t \in gone THEN NoCtx ELSE sinks[t]]
  /\ listenerRefs' = listenerRefs - Cardinality(gone)
  /\ ref' = [t \in Tokens |-> IF t \in gone THEN "deleted" ELSE ref[t]]

-----------------------------------------------------------------------------
(* A driver's calls.                                                       *)

(* A context that has been deleted gives its address back, swept or not. *)
InUse == {ctx[d] : d \in {e \in Drivers : pc[e] # "sweep"}}

Open(d) ==
  /\ pc[d] = "idle"
  /\ \E a \in Addresses \ InUse : ctx' = [ctx EXCEPT ![d] = a]
  /\ pc' = [pc EXCEPT ![d] = "open"]
  /\ UNCHANGED <<entered, ledgerVars, owner, engineVars, call, attached,
                 missed, stranded, taken>>

(* request, up to the call of the engine: the sink goes in first. *)
Enter(d) ==
  /\ pc[d] = "open" /\ nextToken <= MaxTokens
  /\ pc' = [pc EXCEPT ![d] = "entered"]
  /\ entered' = [entered EXCEPT ![d] = nextToken]
  /\ owner' = [owner EXCEPT ![nextToken] = d]
  /\ sinks' = [sinks EXCEPT ![nextToken] = ctx[d]]
  /\ ref' = [ref EXCEPT ![nextToken] = "held"]
  /\ listenerRefs' = listenerRefs + 1
  /\ nextToken' = nextToken + 1
  /\ UNCHANGED <<ctx, engineVars, call, attached,
                 missed, stranded, taken>>

(* despia_ai_request accepts; its worker may run before this call returns. *)
Accepted(d) ==
  /\ pc[d] = "entered" /\ life[entered[d]] = "new"
  /\ life' = [life EXCEPT ![entered[d]] = "live"]
  /\ UNCHANGED <<pc, ctx, entered, ledgerVars, owner, serving, call, attached,
                 missed, stranded, taken>>

Returns(d) ==
  /\ pc[d] = "entered" /\ life[entered[d]] # "new"
  /\ pc' = [pc EXCEPT ![d] = "open"]
  /\ entered' = [entered EXCEPT ![d] = None]
  /\ UNCHANGED <<ctx, ledgerVars, owner, engineVars, call, attached,
                 missed, stranded, taken>>

(* Mutant: a refused request's sink is left for the sweep. *)
RefusedKeeps(d) ==
  /\ pc[d] = "entered" /\ life[entered[d]] = "new"
  /\ life' = [life EXCEPT ![entered[d]] = "refused"]
  /\ pc' = [pc EXCEPT ![d] = "open"]
  /\ entered' = [entered EXCEPT ![d] = None]
  /\ UNCHANGED <<ctx, ledgerVars, owner, serving, call, attached,
                 missed, stranded, taken>>

(* A negative return: no event will ever come. *)
Refused(d) ==
  /\ pc[d] = "entered" /\ life[entered[d]] = "new"
  /\ life' = [life EXCEPT ![entered[d]] = "refused"]
  /\ Retire({entered[d]})
  /\ pc' = [pc EXCEPT ![d] = "open"]
  /\ entered' = [entered EXCEPT ![d] = None]
  /\ UNCHANGED <<ctx, nextToken, owner, serving, call, attached,
                 missed, stranded, taken>>

(* despia_ai_close: what waits is dropped, what runs is cancelled. *)
Close(d) ==
  /\ pc[d] = "open"
  /\ pc' = [pc EXCEPT ![d] = "closing"]
  /\ life' = [t \in Tokens |->
       IF life[t] = "live" /\ owner[t] = d /\ serving[d] # t THEN "dropped" ELSE life[t]]
  /\ UNCHANGED <<ctx, entered, ledgerVars, owner, serving, call, attached,
                 missed, stranded, taken>>

(* Mutant: the sweep does not wait for the worker. *)
JoinedEarly(d) ==
  /\ pc[d] = "closing"
  /\ pc' = [pc EXCEPT ![d] = "sweep"]
  /\ UNCHANGED <<ctx, entered, ledgerVars, owner, engineVars, call, attached,
                 missed, stranded, taken>>

(* The worker is joined and the context deleted. *)
Joined(d) ==
  /\ pc[d] = "closing" /\ serving[d] = None
  /\ pc' = [pc EXCEPT ![d] = "sweep"]
  /\ UNCHANGED <<ctx, entered, ledgerVars, owner, engineVars, call, attached,
                 missed, stranded, taken>>

(* Mutant: the sweep is forgotten. *)
NoSweep(d) ==
  /\ pc[d] = "sweep"
  /\ pc' = [pc EXCEPT ![d] = "idle"]
  /\ ctx' = [ctx EXCEPT ![d] = NoCtx]
  /\ UNCHANGED <<entered, ledgerVars, owner, engineVars, call, attached,
                 missed, stranded, taken>>

(* sweepContext knows the entries by the address alone: it takes those of  *)
(* a new context that has been given this address with the old one's.      *)
Sweep(d) ==
  /\ pc[d] = "sweep"
  /\ Retire({t \in Tokens : sinks[t] = ctx[d]})
  /\ taken' = taken \cup {t \in LiveSinks : sinks[t] = ctx[d] /\ owner[t] # d}
  /\ pc' = [pc EXCEPT ![d] = "idle"]
  /\ ctx' = [ctx EXCEPT ![d] = NoCtx]
  /\ UNCHANGED <<entered, nextToken, owner, engineVars, call, attached, missed, stranded>>

-----------------------------------------------------------------------------
(* A context's worker and deliver.                                         *)

Take(d, t) ==
  /\ serving[d] = None /\ life[t] = "live" /\ owner[t] = d
  /\ serving' = [serving EXCEPT ![d] = t]
  /\ UNCHANGED <<pc, ctx, entered, ledgerVars, owner, life, call, attached,
                 missed, stranded, taken>>

(* The engine emits an event and deliver looks its sink up. *)
Emit(d, final) ==
  /\ serving[d] # None /\ call[d] = NoCall /\ life[serving[d]] = "live"
  /\ life' = [life EXCEPT ![serving[d]] = IF final THEN "settled" ELSE @]
  /\ IF sinks[serving[d]] = NoCtx
     THEN missed' = missed \cup {serving[d]} /\ UNCHANGED call
     ELSE /\ call' = [call EXCEPT ![d] =
                        [token |-> serving[d], final |-> final, bound |-> FALSE]]
          /\ UNCHANGED missed
  /\ UNCHANGED <<pc, ctx, entered, ledgerVars, owner, serving, attached, stranded, taken>>

(* envForCurrentThread. *)
Attach(d) ==
  /\ call[d] # NoCall /\ ~call[d].bound
  /\ attached' = [attached EXCEPT ![d] = TRUE]
  /\ call' = [call EXCEPT ![d].bound = TRUE]
  /\ UNCHANGED <<pc, ctx, entered, ledgerVars, owner, engineVars, missed, stranded, taken>>

(* The JVM refuses the thread: nothing is called and nothing retired. *)
AttachFails(d) ==
  /\ call[d] # NoCall /\ ~call[d].bound /\ ~attached[d]
  /\ stranded' = IF call[d].final THEN stranded \cup {call[d].token} ELSE stranded
  /\ call' = [call EXCEPT ![d] = NoCall]
  /\ UNCHANGED <<pc, ctx, entered, ledgerVars, owner, engineVars, attached, missed, taken>>

(* Mutant: every event retires its sink. *)
DeliveredRetires(d) ==
  /\ call[d].bound
  /\ Retire({call[d].token})
  /\ attached' = [attached EXCEPT ![d] = FALSE]
  /\ call' = [call EXCEPT ![d] = NoCall]
  /\ UNCHANGED <<pc, ctx, entered, nextToken, owner, engineVars, missed, stranded, taken>>

(* onEvent has returned, or no payload could be made for it. *)
Delivered(d) ==
  /\ call[d].bound
  /\ IF call[d].final
     THEN /\ Retire({call[d].token})
          /\ attached' = [attached EXCEPT ![d] = FALSE]
     ELSE UNCHANGED <<sinks, listenerRefs, ref, attached>>
  /\ call' = [call EXCEPT ![d] = NoCall]
  /\ UNCHANGED <<pc, ctx, entered, nextToken, owner, engineVars, missed, stranded, taken>>

(* The worker is done with a settled request. *)
Done(d) ==
  /\ serving[d] # None /\ life[serving[d]] = "settled" /\ call[d] = NoCall
  /\ serving' = [serving EXCEPT ![d] = None]
  /\ UNCHANGED <<pc, ctx, entered, ledgerVars, owner, life, call, attached,
                 missed, stranded, taken>>

Driver(d) ==
  \/ Open(d) \/ Enter(d) \/ Accepted(d) \/ Returns(d) \/ Refused(d)
  \/ Close(d) \/ Joined(d) \/ Sweep(d)

WorkerOf(d) ==
  \/ \E t \in Tokens : Take(d, t)
  \/ Emit(d, FALSE) \/ Emit(d, TRUE)
  \/ Attach(d) \/ AttachFails(d) \/ Delivered(d) \/ Done(d)

Next == \E d \in Drivers : Driver(d) \/ WorkerOf(d)

Spec == Init /\ [][Next]_vars

-----------------------------------------------------------------------------
(* A listener is released only when no delivery can still be calling it    *)
(* (deliver copies the reference out of the ledger and calls it unlocked). *)
(* This is what the ledger's comment says of the sweep; it fails, for the  *)
(* sweep runs when the address it names may be another context's.          *)
CalledListenerIsHeld ==
  \A d \in Drivers : call[d] # NoCall => ref[call[d].token] = "held"

(* Nothing but such a sweep deletes a reference that is being called: not  *)
(* a refusal, another delivery, or the sweep of the driver's own context.  *)
HeldUnlessTaken ==
  \A d \in Drivers :
    call[d] # NoCall /\ call[d].token \notin taken => ref[call[d].token] = "held"

(* No event of an accepted request is lost, unless another's sweep took    *)
(* its sink: the sink stays until the terminal event, although the worker  *)
(* may run before request returns.                                         *)
MissedOnlyIfTaken == missed \subseteq taken

(* A sink and its reference are released together, and the two counters    *)
(* that are kept apart agree (despia_ai_jni.cpp:85-88).                    *)
LedgerBalances ==
  /\ listenerRefs = Cardinality(LiveSinks)
  /\ LiveSinks = {t \in Tokens : ref[t] = "held"}

(* Only unfinished requests hold a listener: one that was refused, or      *)
(* settled on a thread the JVM let in, has given it back.                  *)
OnlyUnfinishedHold ==
  \A t \in LiveSinks :
    \/ life[t] \in {"new", "live"} \/ t \in stranded
    \/ life[t] = "settled" /\ call[owner[t]].token = t
    \/ life[t] = "dropped" /\ pc[owner[t]] \in {"closing", "sweep"}

(* A driver that has closed its context holds nothing: no sink in the      *)
(* ledger, not even one that never settled or settled unseen; and its      *)
(* worker was not still attached to the JVM when it was joined, unless it  *)
(* lost an event and with it the place that detaches it.                   *)
ClosedHoldsNothing ==
  /\ \A t \in LiveSinks : pc[owner[t]] # "idle"
  /\ \A d \in Drivers :
       pc[d] = "sweep" /\ attached[d] => \E t \in missed : owner[t] = d
=============================================================================
