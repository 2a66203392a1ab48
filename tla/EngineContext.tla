---------------------------- MODULE EngineContext ----------------------------
(***************************************************************************)
(* One engine context (engine/src/context.cpp): the caller's thread, which *)
(* loads and unloads models, submits, cancels, asks for resyncs and        *)
(* closes; the worker thread, which serves the queue and calls the         *)
(* consumer's callback; and the crash marker both of them write.           *)
(*                                                                         *)
(* A step is what runs between two points where the other thread can get   *)
(* in: a locked section, one file operation, one call of the backend, one  *)
(* call of the callback.                                                   *)
(*                                                                         *)
(* A block is abstracted to its position in its request's output, and a    *)
(* snapshot to the number of blocks it holds.                              *)
(***************************************************************************)
EXTENDS Governor, Sequences, SequencesExt

CONSTANTS
  MaxRequests,   \* bound: requests one behaviour submits
  MaxLoads,      \* bound: models the backend opens
  MaxSteps,      \* bound: blocks and resync points one generation offers
  Touched,       \* bound: requests the consumer cancels or resyncs
  RuntimeMb,     \* the runtime_mb a catalog entry may declare
  CallerWaits,   \* what the caller waits for before it loads or unloads
  Pauses         \* whether a backend may wait for a cancel (the mock's "pause")

ASSUME ContextAssumption ==
  /\ MaxRequests \in Nat /\ MaxLoads \in Nat /\ MaxSteps \in Nat
  /\ Touched \subseteq Nat /\ RuntimeMb \subseteq Int
  /\ CallerWaits \in {"nothing", "terminal", "retired"}
  /\ Pauses \in BOOLEAN

Requests == 1 .. MaxRequests
None     == 0                \* no request, no model object
NoModel  == "no model"       \* a model name that names nothing
NoMarker == [model |-> NoModel, phase |-> "none", open |-> {}]
NoLoad   == [model |-> NoModel, object |-> None, charge |-> 0]
Gap      == -1               \* a consumer that was handed a wrong position

VARIABLES
  phase,         \* the context: open, closing, closed; or the process crashed
  cpc,           \* where the caller's thread is
  loading,       \* the load in progress: its model, object and charge
  victims,       \* models this load has still to evict
  models,        \* models_: id -> the loaded object, None when not loaded
  nextObject,    \* distinguishes one loaded object from the next
  resident, bytes, lastUsed, clock,   \* governor_
  marker,        \* despia-ai-quarantine.json, and which threads have it open
  nextRequestId, modelOf, interactive,   \* requests accepted so far
  queue, inflight,                       \* queue_, inflight_
  cancelled,     \* PendingRequest::cancelled, and which thread set it last
  syncRequested, \* requests whose syncRequested flag is set
  seq,           \* PendingRequest::seq, also the length of its snapshot
  wpc, cur,      \* where the worker is, and with which request
  served,        \* the object serveOne's raw pointer points to
  failed,        \* serveOne's `failed`
  steps,         \* blocks and resync points this generation has offered
  cb,            \* TRUE while the worker is inside the consumer's callback
  (* what the consumer has been told *)
  view,          \* the blocks it holds after applying every event in order
  finals,        \* terminal events per request
  tail,          \* tokens delivered after the request was cancelled
  culprit        \* the model whose backend code took the process down

governorVars == <<resident, bytes, lastUsed, clock>>
modelVars    == <<loading, victims, models, nextObject, resident, bytes, lastUsed, clock>>
requestVars  == <<nextRequestId, modelOf, interactive, queue, inflight>>
flagVars     == <<cancelled, syncRequested>>
workVars     == <<seq, served, failed, steps>>
toldVars     == <<view, finals, tail>>
vars == <<phase, cpc, modelVars, marker, requestVars, flagVars, wpc, cur,
          workVars, cb, toldVars, culprit>>

Submitted == 1 .. nextRequestId - 1
Loaded    == {m \in Models : models[m] # None}

ThreadTypes ==
  /\ phase \in {"open", "closing", "closed", "crashed"}
  /\ cpc \in {"idle", "mark", "load", "evict", "refused", "installed", "join", "gone"}
  /\ wpc \in {"idle", "lookup", "check", "mark", "serve", "paused", "block",
              "sync", "posted", "clear", "finish", "erase", "exited"}
  /\ cur \in Requests \cup {None}
  /\ cb \in BOOLEAN

ModelTypes ==
  /\ loading \in [model : Models \cup {NoModel}, object : Nat, charge : Word]
  /\ victims \subseteq Models
  /\ models \in [Models -> Nat]
  /\ nextObject \in Nat \ {0}
  /\ resident \subseteq Models
  /\ bytes \in [Models -> Word]
  /\ lastUsed \in [Models -> Nat]
  /\ clock \in Nat

MarkerTypes ==
  /\ marker \in [model : Models \cup {NoModel},
                 phase : {"none", "empty", "load", "generate", "garbled"},
                 open : SUBSET {"caller", "worker"}]
  /\ culprit \in Models \cup {NoModel}

RequestTypes ==
  /\ nextRequestId \in 1 .. MaxRequests + 1
  /\ modelOf \in [Requests -> Models \cup {NoModel}]
  /\ interactive \subseteq Requests
  /\ queue \in Seq(Requests)
  /\ inflight \subseteq Requests
  /\ cancelled \in [Requests -> {"no", "caller", "callback"}]
  /\ syncRequested \subseteq Requests

WorkTypes ==
  /\ seq \in [Requests -> Nat]
  /\ served \in Nat
  /\ failed \in BOOLEAN
  /\ steps \in 0 .. MaxSteps

ToldTypes ==
  /\ view \in [Requests -> Int]
  /\ finals \in [Requests -> Nat]
  /\ tail \in [Requests -> Nat]

TypeOK ==
  ThreadTypes /\ ModelTypes /\ MarkerTypes /\ RequestTypes /\ WorkTypes /\ ToldTypes

(* Context::open: the governor is armed (Budget) before the worker exists, *)
(* and the state directory holds no marker of an earlier process.          *)
Init ==
  /\ phase = "open" /\ cpc = "idle"
  /\ loading = NoLoad
  /\ victims = {}
  /\ models = [m \in Models |-> None] /\ nextObject = 1
  /\ resident = {} /\ clock = 0
  /\ bytes = [m \in Models |-> 0] /\ lastUsed = [m \in Models |-> 0]
  /\ marker = NoMarker
  /\ nextRequestId = 1 /\ interactive = {}
  /\ modelOf = [r \in Requests |-> NoModel]
  /\ queue = <<>> /\ inflight = {}
  /\ cancelled = [r \in Requests |-> "no"] /\ syncRequested = {}
  /\ seq = [r \in Requests |-> 0]
  /\ wpc = "idle" /\ cur = None /\ served = None
  /\ failed = FALSE /\ steps = 0 /\ cb = FALSE
  /\ view = [r \in Requests |-> 0]
  /\ finals = [r \in Requests |-> 0]
  /\ tail = [r \in Requests |-> 0]
  /\ culprit = NoModel

-----------------------------------------------------------------------------
(* What the consumer hears.  The view is that of a consumer that appends   *)
(* the delta of a token and replaces its copy with every snapshot.         *)

TellToken(r, position) ==
  /\ view' = [view EXCEPT ![r] = IF @ = position THEN @ + 1 ELSE Gap]
  /\ tail' = [tail EXCEPT ![r] = IF cancelled[r] = "no" THEN @ ELSE @ + 1]
  /\ cb' = TRUE
  /\ UNCHANGED finals

TellSync(r) ==
  /\ view' = [view EXCEPT ![r] = seq[r]]
  /\ cb' = TRUE
  /\ UNCHANGED <<finals, tail>>

TellFinal(r) ==
  /\ view' = [view EXCEPT ![r] = seq[r]]
  /\ finals' = [finals EXCEPT ![r] = @ + 1]
  /\ cb' = TRUE
  /\ UNCHANGED tail

-----------------------------------------------------------------------------
(* The caller's thread: loading and unloading.                             *)

CallerFree == phase = "open" /\ cpc = "idle"

(* A discipline of the caller, not of the engine: "terminal" is a caller   *)
(* that waits for every terminal event, "retired" one that also waits      *)
(* until cancel finds no request left.                                     *)
MayReconfigure ==
  /\ CallerWaits = "terminal" => \A r \in Submitted : finals[r] > 0
  /\ CallerWaits = "retired"  => inflight = {}

(* writeQuarantineMarker opens the file, which truncates it, and writes it *)
(* afterwards, under no lock.                                              *)
OpenMarker(thread) ==
  marker' = [model |-> NoModel, phase |-> "empty", open |-> marker.open \cup {thread}]

(* A text over one the other thread has written meanwhile may leave an end *)
(* of that one standing.                                                   *)
MarkerTexts(m, what) ==
  {[model |-> m, phase |-> what]}
    \cup IF marker.phase = "empty" THEN {} ELSE {[model |-> NoModel, phase |-> "garbled"]}

(* Mutant: only loads are marked. *)
MarkLoadsOnly(thread, m, what) ==
  IF what = "load" /\ thread \in marker.open
  THEN marker' = [model |-> m, phase |-> what, open |-> marker.open \ {thread}]
  ELSE UNCHANGED marker

(* A file the other thread has removed since takes the text with it. *)
WriteMarker(thread, m, what) ==
  \/ thread \notin marker.open /\ UNCHANGED marker
  \/ /\ thread \in marker.open
     /\ \E text \in MarkerTexts(m, what) :
          marker' = [model |-> text.model, phase |-> text.phase, open |-> marker.open \ {thread}]

ClearMarker == marker' = NoMarker

(* loadModel up to the opened marker.  A refusal before that point         *)
(* (fields, backend id, preflight) returns with nothing changed.           *)
LoadModel(m) ==
  /\ CallerFree /\ MayReconfigure /\ nextObject <= MaxLoads
  /\ OpenMarker("caller")
  /\ cpc' = "mark"
  /\ loading' = [model |-> m, object |-> None, charge |-> 0]
  /\ UNCHANGED <<phase, victims, models, nextObject, governorVars, requestVars,
                 flagVars, wpc, cur, workVars, cb, toldVars, culprit>>

(* The marker is written, and the backend called. *)
MarkLoad ==
  /\ phase = "open" /\ cpc = "mark"
  /\ WriteMarker("caller", loading.model, "load")
  /\ cpc' = "load"
  /\ UNCHANGED <<phase, modelVars, requestVars, flagVars, wpc, cur, workVars, cb,
                 toldVars, culprit>>

(* backend->load answers null. *)
BackendRefuses ==
  /\ phase = "open" /\ cpc = "load"
  /\ cpc' = "refused"
  /\ UNCHANGED <<phase, modelVars, marker, requestVars, flagVars, wpc, cur,
                 workVars, cb, toldVars, culprit>>

(* backend->load returns the object, and only now is room made for it. *)
BackendLoads(mb) ==
  /\ phase = "open" /\ cpc = "load"
  /\ cpc' = "evict"
  /\ loading' = [loading EXCEPT !.object = nextObject, !.charge = Charge(mb)]
  /\ nextObject' = nextObject + 1
  /\ victims' = EvictionVictims(resident, bytes, lastUsed, Charge(mb), loading.model)
  /\ UNCHANGED <<phase, models, governorVars, marker, requestVars, flagVars,
                 wpc, cur, workVars, cb, toldVars, culprit>>

(* Mutant: noteUnloaded is forgotten. *)
UnloadKeepsBooks(m) ==
  /\ models' = [models EXCEPT ![m] = None]
  /\ UNCHANGED <<resident, bytes, lastUsed, nextObject, clock>>

(* unloadModel's locked section: the object is freed here and now. *)
Unload(m) ==
  /\ models' = [models EXCEPT ![m] = None]
  /\ resident' = resident \ {m}
  /\ bytes' = [bytes EXCEPT ![m] = 0]
  /\ lastUsed' = [lastUsed EXCEPT ![m] = 0]
  /\ UNCHANGED <<nextObject, clock>>

EvictNext ==
  /\ phase = "open" /\ cpc = "evict" /\ victims # {}
  /\ LET v == Oldest(victims, lastUsed) IN
       /\ Unload(v)
       /\ victims' = victims \ {v}
  /\ UNCHANGED <<phase, cpc, loading, marker, requestVars, flagVars, wpc, cur,
                 workVars, cb, toldVars, culprit>>

(* The locked install, which destroys an older object of the same id, and  *)
(* noteLoaded; only the caller's thread touches the governor.              *)
Install ==
  /\ phase = "open" /\ cpc = "evict" /\ victims = {}
  /\ LET m == loading.model IN
       /\ models' = [models EXCEPT ![m] = loading.object]
       /\ resident' = resident \cup {m}
       /\ bytes' = [bytes EXCEPT ![m] = loading.charge]
       /\ clock' = clock + 1
       /\ lastUsed' = [lastUsed EXCEPT ![m] = clock + 1]
  /\ cpc' = "installed"
  /\ UNCHANGED <<phase, loading, victims, nextObject, marker, requestVars,
                 flagVars, wpc, cur, workVars, cb, toldVars, culprit>>

(* Mutant: a refused load leaves its marker behind. *)
LoadReturnsMarked ==
  /\ phase = "open" /\ cpc \in {"refused", "installed"}
  /\ IF cpc = "installed" THEN ClearMarker ELSE UNCHANGED marker
  /\ cpc' = "idle"
  /\ loading' = NoLoad
  /\ UNCHANGED <<phase, victims, models, nextObject, governorVars, requestVars,
                 flagVars, wpc, cur, workVars, cb, toldVars, culprit>>

LoadReturns ==
  /\ phase = "open" /\ cpc \in {"refused", "installed"}
  /\ ClearMarker
  /\ cpc' = "idle"
  /\ loading' = NoLoad
  /\ UNCHANGED <<phase, victims, models, nextObject, governorVars, requestVars,
                 flagVars, wpc, cur, workVars, cb, toldVars, culprit>>

UnloadModel(m) ==
  /\ CallerFree /\ MayReconfigure /\ models[m] # None
  /\ Unload(m)
  /\ UNCHANGED <<phase, cpc, loading, victims, marker, requestVars, flagVars,
                 wpc, cur, workVars, cb, toldVars, culprit>>

-----------------------------------------------------------------------------
(* The caller's thread: requests.                                          *)

(* The first place in the queue not held by an interactive request. *)
FirstBehindInteractive(q) ==
  CHOOSE k \in 1 .. Len(q) + 1 :
    /\ \A i \in 1 .. k - 1 : q[i] \in interactive
    /\ k = Len(q) + 1 \/ q[k] \notin interactive

(* Mutant: an interactive request goes to the very front. *)
EnqueueFront(r, isInteractive) ==
  IF isInteractive THEN <<r>> \o queue ELSE Append(queue, r)

(* Priority is a position in the queue. *)
Enqueue(r, isInteractive) ==
  IF isInteractive THEN InsertAt(queue, FirstBehindInteractive(queue), r)
  ELSE Append(queue, r)

Submit(m, isInteractive) ==
  /\ CallerFree /\ models[m] # None /\ nextRequestId <= MaxRequests
  /\ nextRequestId' = nextRequestId + 1
  /\ modelOf' = [modelOf EXCEPT ![nextRequestId] = m]
  /\ interactive' = IF isInteractive THEN interactive \cup {nextRequestId} ELSE interactive
  /\ queue' = Enqueue(nextRequestId, isInteractive)
  /\ inflight' = inflight \cup {nextRequestId}
  /\ UNCHANGED <<phase, cpc, modelVars, marker, flagVars, wpc, cur, workVars,
                 cb, toldVars, culprit>>

Cancel(r) ==
  /\ CallerFree /\ r \in inflight \cap Touched
  /\ cancelled' = [cancelled EXCEPT ![r] = IF @ = "no" THEN "caller" ELSE @]
  /\ UNCHANGED <<phase, cpc, modelVars, marker, requestVars, syncRequested,
                 wpc, cur, workVars, cb, toldVars, culprit>>

(* syncNow on the caller's thread leaves a flag for the worker. *)
SyncNow(r) ==
  /\ CallerFree /\ r \in inflight \cap Touched
  /\ syncRequested' = syncRequested \cup {r}
  /\ UNCHANGED <<phase, cpc, modelVars, marker, requestVars, cancelled, wpc,
                 cur, workVars, cb, toldVars, culprit>>

(* Mutant: the waiting requests go, the running one is not cancelled. *)
CloseWithoutCancel ==
  /\ CallerFree
  /\ phase' = "closing" /\ cpc' = "join"
  /\ queue' = <<>>
  /\ UNCHANGED <<modelVars, marker, nextRequestId, modelOf, interactive, inflight,
                 flagVars, wpc, cur, workVars, cb, toldVars, culprit>>

(* ~Context up to the join: cancel what is in flight, drop what waits. *)
Close ==
  /\ CallerFree
  /\ phase' = "closing" /\ cpc' = "join"
  /\ cancelled' = [r \in Requests |->
                     IF r \in inflight /\ cancelled[r] = "no" THEN "caller"
                     ELSE cancelled[r]]
  /\ queue' = <<>>
  /\ UNCHANGED <<modelVars, marker, nextRequestId, modelOf, interactive, inflight,
                 syncRequested, wpc, cur, workVars, cb, toldVars, culprit>>

(* Mutant: the worker is detached instead of joined. *)
Detach ==
  /\ phase = "closing"
  /\ phase' = "closed" /\ cpc' = "gone"
  /\ models' = [m \in Models |-> None]
  /\ resident' = {}
  /\ bytes' = [m \in Models |-> 0] /\ lastUsed' = [m \in Models |-> 0]
  /\ UNCHANGED <<loading, victims, nextObject, clock, marker, requestVars, flagVars,
                 wpc, cur, workVars, cb, toldVars, culprit>>

(* The join returns and the members are destroyed. *)
Join ==
  /\ phase = "closing" /\ wpc = "exited"
  /\ phase' = "closed" /\ cpc' = "gone"
  /\ models' = [m \in Models |-> None]
  /\ resident' = {}
  /\ bytes' = [m \in Models |-> 0] /\ lastUsed' = [m \in Models |-> 0]
  /\ UNCHANGED <<loading, victims, nextObject, clock, marker, requestVars, flagVars,
                 wpc, cur, workVars, cb, toldVars, culprit>>

-----------------------------------------------------------------------------
(* The worker's thread.                                                    *)

(* The worker runs until it exits; nothing but a crash takes it away. *)
At(place) == phase # "crashed" /\ ~cb /\ wpc = place

(* Mutant: the request leaves inflight_ with the queue. *)
TakeErases ==
  /\ At("idle") /\ queue # <<>>
  /\ cur' = Head(queue)
  /\ queue' = Tail(queue)
  /\ inflight' = inflight \ {Head(queue)}
  /\ wpc' = "lookup"
  /\ UNCHANGED <<phase, cpc, modelVars, marker, nextRequestId, modelOf,
                 interactive, flagVars, workVars, cb, toldVars, culprit>>

Take ==
  /\ At("idle") /\ queue # <<>>
  /\ cur' = Head(queue)
  /\ queue' = Tail(queue)
  /\ wpc' = "lookup"
  /\ UNCHANGED <<phase, cpc, modelVars, marker, nextRequestId, modelOf,
                 interactive, inflight, flagVars, workVars, cb, toldVars, culprit>>

WorkerExits ==
  /\ At("idle") /\ phase = "closing" /\ queue = <<>>
  /\ wpc' = "exited"
  /\ UNCHANGED <<phase, cpc, modelVars, marker, requestVars, flagVars, cur,
                 workVars, cb, toldVars, culprit>>

(* serveOne's locked lookup.  The pointer it takes outlives the lock. *)
Lookup ==
  /\ At("lookup") /\ models[modelOf[cur]] # None
  /\ served' = models[modelOf[cur]]
  /\ wpc' = "check"
  /\ UNCHANGED <<phase, cpc, modelVars, marker, requestVars, flagVars, cur, seq,
                 failed, steps, cb, toldVars, culprit>>

ModelGone ==
  /\ At("lookup") /\ models[modelOf[cur]] = None
  /\ TellFinal(cur)
  /\ wpc' = "erase"
  /\ UNCHANGED <<phase, cpc, modelVars, marker, requestVars, flagVars, cur,
                 workVars, culprit>>

(* Mutant: a request cancelled while it waited is skipped silently. *)
CancelledSilently ==
  /\ At("check") /\ cancelled[cur] # "no"
  /\ wpc' = "erase"
  /\ UNCHANGED <<phase, cpc, modelVars, marker, requestVars, flagVars, cur,
                 workVars, cb, toldVars, culprit>>

CancelledEarly ==
  /\ At("check") /\ cancelled[cur] # "no"
  /\ TellFinal(cur)
  /\ wpc' = "erase"
  /\ UNCHANGED <<phase, cpc, modelVars, marker, requestVars, flagVars, cur,
                 workVars, culprit>>

StartServing ==
  /\ At("check") /\ cancelled[cur] = "no"
  /\ OpenMarker("worker")
  /\ wpc' = "mark"
  /\ UNCHANGED <<phase, cpc, modelVars, requestVars, flagVars, cur, workVars,
                 cb, toldVars, culprit>>

MarkGenerate ==
  /\ At("mark")
  /\ WriteMarker("worker", modelOf[cur], "generate")
  /\ wpc' = "serve"
  /\ UNCHANGED <<phase, cpc, modelVars, requestVars, flagVars, cur, workVars,
                 cb, toldVars, culprit>>

(* Mutant: the emitter does not look at the cancel flag. *)
OfferUnchecked(what) ==
  /\ At("serve") /\ steps < MaxSteps
  /\ steps' = steps + 1
  /\ wpc' = what
  /\ UNCHANGED <<phase, cpc, modelVars, marker, requestVars, flagVars, cur, seq,
                 served, failed, cb, toldVars, culprit>>

(* The backend calls out.block or out.sync, which first look at the cancel *)
(* flag; on a cancelled request they return having done nothing.           *)
Offer(what) ==
  /\ At("serve") /\ steps < MaxSteps /\ cancelled[cur] = "no"
  /\ steps' = steps + 1
  /\ wpc' = what
  /\ UNCHANGED <<phase, cpc, modelVars, marker, requestVars, flagVars, cur, seq,
                 served, failed, cb, toldVars, culprit>>

(* Mutant: the token carries the count instead of the position. *)
EmitBlockCount ==
  /\ At("block")
  /\ seq' = [seq EXCEPT ![cur] = @ + 1]
  /\ TellToken(cur, seq'[cur])
  /\ wpc' = "posted"
  /\ UNCHANGED <<phase, cpc, modelVars, marker, requestVars, flagVars, cur,
                 served, failed, steps, culprit>>

(* The block joins the snapshot before the consumer hears of it. *)
EmitBlock ==
  /\ At("block")
  /\ seq' = [seq EXCEPT ![cur] = @ + 1]
  /\ TellToken(cur, seq[cur])
  /\ wpc' = "posted"
  /\ UNCHANGED <<phase, cpc, modelVars, marker, requestVars, flagVars, cur,
                 served, failed, steps, culprit>>

(* syncRequested.exchange(false), once the token's callback has returned. *)
PostBlock ==
  /\ At("posted")
  /\ IF cur \in syncRequested THEN TellSync(cur) ELSE UNCHANGED <<cb, toldVars>>
  /\ syncRequested' = syncRequested \ {cur}
  /\ wpc' = "serve"
  /\ UNCHANGED <<phase, cpc, modelVars, marker, requestVars, cancelled, cur,
                 workVars, culprit>>

OfferSync ==
  /\ At("sync")
  /\ TellSync(cur)
  /\ wpc' = "serve"
  /\ UNCHANGED <<phase, cpc, modelVars, marker, requestVars, flagVars, cur,
                 workVars, culprit>>

(* out.fail: the terminal event goes out from inside the backend, which    *)
(* then returns.                                                           *)
Fail ==
  /\ At("serve")
  /\ failed' = TRUE
  /\ TellFinal(cur)
  /\ wpc' = "clear"
  /\ UNCHANGED <<phase, cpc, modelVars, marker, requestVars, flagVars, cur, seq,
                 served, steps, culprit>>

(* The mock's "pause" spins until the request is cancelled. *)
Pause ==
  /\ At("serve") /\ Pauses
  /\ wpc' = "paused"
  /\ UNCHANGED <<phase, cpc, modelVars, marker, requestVars, flagVars, cur,
                 workVars, cb, toldVars, culprit>>

BackendReturns ==
  /\ \/ At("serve")
     \/ At("paused") /\ cancelled[cur] # "no"
  /\ wpc' = "clear"
  /\ UNCHANGED <<phase, cpc, modelVars, marker, requestVars, flagVars, cur,
                 workVars, cb, toldVars, culprit>>

(* Mutant: serveOne forgets that the backend failed. *)
ClearForgetsFailure ==
  /\ At("clear")
  /\ ClearMarker
  /\ wpc' = "finish"
  /\ UNCHANGED <<phase, cpc, modelVars, requestVars, flagVars, cur, workVars,
                 cb, toldVars, culprit>>

ClearAfterServe ==
  /\ At("clear")
  /\ ClearMarker
  /\ wpc' = IF failed THEN "erase" ELSE "finish"
  /\ UNCHANGED <<phase, cpc, modelVars, requestVars, flagVars, cur, workVars,
                 cb, toldVars, culprit>>

Finish ==
  /\ At("finish")
  /\ TellFinal(cur)
  /\ wpc' = "erase"
  /\ UNCHANGED <<phase, cpc, modelVars, marker, requestVars, flagVars, cur,
                 workVars, culprit>>

(* workerLoop, after serveOne: only now does cancel stop finding it. *)
Erase ==
  /\ At("erase")
  /\ inflight' = inflight \ {cur}
  /\ cur' = None /\ served' = None /\ failed' = FALSE /\ steps' = 0
  /\ wpc' = "idle"
  /\ UNCHANGED <<phase, cpc, modelVars, marker, nextRequestId, modelOf,
                 interactive, queue, flagVars, seq, cb, toldVars, culprit>>

-----------------------------------------------------------------------------
(* Inside the callback, on the worker's thread: cancel and sync are legal, *)
(* on any request in flight, and sync emits at once.                       *)

CallbackCancels(r) ==
  /\ phase # "crashed" /\ cb /\ r \in inflight \cap Touched
  /\ cancelled' = [cancelled EXCEPT ![r] = "callback"]
  /\ UNCHANGED <<phase, cpc, modelVars, marker, requestVars, syncRequested, wpc,
                 cur, workVars, cb, toldVars, culprit>>

CallbackSyncs(r) ==
  /\ phase # "crashed" /\ cb /\ r \in inflight \cap Touched
  /\ TellSync(r)
  /\ UNCHANGED <<phase, cpc, modelVars, marker, requestVars, flagVars, wpc, cur,
                 workVars, culprit>>

CallbackReturns ==
  /\ phase # "crashed" /\ cb
  /\ cb' = FALSE
  /\ UNCHANGED <<phase, cpc, modelVars, marker, requestVars, flagVars, wpc, cur,
                 workVars, toldVars, culprit>>

-----------------------------------------------------------------------------
(* Backend code takes the process down; the marker stays as it is.         *)

Serving == wpc \in {"serve", "paused", "block", "sync", "posted"}

InBackend(m) ==
  \/ cpc = "load" /\ loading.model = m
  \/ Serving /\ ~cb /\ modelOf[cur] = m

Crash(m) ==
  /\ phase # "crashed" /\ InBackend(m)
  /\ phase' = "crashed" /\ culprit' = m
  /\ UNCHANGED <<cpc, modelVars, marker, requestVars, flagVars, wpc, cur,
                 workVars, cb, toldVars>>

(* A closed context and a dead process do nothing more. *)
Over == phase \in {"closed", "crashed"} /\ UNCHANGED vars

CallerContinues ==
  \/ MarkLoad \/ BackendRefuses \/ (\E mb \in RuntimeMb : BackendLoads(mb))
  \/ EvictNext \/ Install \/ LoadReturns \/ Join

CallerCalls ==
  \/ \E m \in Models : LoadModel(m) \/ UnloadModel(m)
  \/ \E m \in Models, p \in BOOLEAN : Submit(m, p)
  \/ \E r \in Requests : Cancel(r) \/ SyncNow(r)
  \/ Close

Worker ==
  \/ Take \/ WorkerExits \/ Lookup \/ ModelGone \/ CancelledEarly \/ StartServing
  \/ MarkGenerate
  \/ Offer("block") \/ Offer("sync") \/ EmitBlock \/ PostBlock \/ OfferSync
  \/ Fail \/ Pause \/ BackendReturns \/ ClearAfterServe \/ Finish \/ Erase

Callback ==
  \/ \E r \in Requests : CallbackCancels(r) \/ CallbackSyncs(r)
  \/ CallbackReturns

Next ==
  \/ CallerContinues \/ CallerCalls \/ Worker \/ Callback
  \/ \E m \in Models : Crash(m)
  \/ Over

(* The operating system runs both threads, a backend's load and serve come *)
(* back, and the contract forbids a callback that blocks.  Nothing obliges *)
(* the caller to make a call or a callback to use its two rights.          *)
Fairness ==
  /\ WF_vars(CallerContinues)
  /\ WF_vars(Worker)
  /\ WF_vars(CallbackReturns)

Spec == Init /\ [][Next]_vars /\ Fairness

-----------------------------------------------------------------------------
(* Safety: the request's life.                                             *)

(* What cancel and sync find is exactly the unfinished work: while the     *)
(* context is open a request is in inflight_ if and only if it waits in    *)
(* the queue or is the one being served (workerLoop, submit).              *)
InflightIsUnfinishedWork ==
  /\ cur # None => cur \in inflight
  /\ phase = "open" => inflight = ToSet(queue) \cup ({cur} \ {None})
  /\ \A i, j \in DOMAIN queue : i # j => queue[i] # queue[j]
  /\ \A i \in DOMAIN queue : queue[i] # cur

(* A request gets at most one terminal event, over every way serveOne can  *)
(* end, and one that cancel no longer finds has had it.                    *)
SettledExactlyOnce ==
  \A r \in Requests :
    /\ finals[r] <= 1
    /\ r \in Submitted /\ r \notin inflight => finals[r] = 1

(* Priority is a position: every waiting interactive request is ahead of   *)
(* every waiting background one, and each class is in submission order     *)
(* (submit).                                                               *)
QueueOrder ==
  \A i, j \in DOMAIN queue : i < j =>
    \/ queue[i] \in interactive /\ queue[j] \notin interactive
    \/ /\ queue[i] \in interactive <=> queue[j] \in interactive
       /\ queue[i] < queue[j]

(* A consumer that appends every token and takes every snapshot whole      *)
(* holds exactly the engine's blocks, whichever thread asked for the       *)
(* resyncs and whenever (out.block's accumulate-first order, syncNow).     *)
ViewIsExact == \A r \in Requests : view[r] = seq[r]

(* A cancel from the caller's thread lets at most the one token through    *)
(* that had already passed its check of the flag.                          *)
CancelStopsStream == \A r \in Requests : tail[r] <= 1

(* A cancel from inside the callback is the last word: the request's       *)
(* stream never grows again.                                               *)
CallbackCancelIsImmediate ==
  [][\A r \in Requests : cancelled[r] = "callback" => seq'[r] = seq[r]]_vars

(* despia_ai_close joins the worker, so nothing is told after it returns.  *)
SilentAfterClose ==
  [][phase = "closed" => UNCHANGED <<view, finals, tail, cb>>]_vars

-----------------------------------------------------------------------------
(* Safety: models, the governor's books and the marker.                    *)

(* Between two calls the governor has on its books exactly the models the  *)
(* context holds, so an eviction can neither miss nor invent one.          *)
BooksMatchModels == cpc \in {"idle", "join"} => resident = Loaded

(* A request is served "against a loaded model", from beginning to end     *)
(* (backend.hpp:73-75): the object a generation runs on stays installed    *)
(* until serve returns, and no reload, eviction or unload frees it.        *)
RunningModelStays == Serving => models[modelOf[cur]] = served

(* A marker on disk names a load or a generation now in progress: none     *)
(* outlives what it names, in whatever order two threads open, write and   *)
(* remove it.  One without a text is about to be written, and one whose    *)
(* text is two texts stands for a load and a generation at once.           *)
MarkerIsInProgress ==
  /\ "caller" \in marker.open => cpc = "mark"
  /\ "worker" \in marker.open => wpc = "mark"
  /\ marker.phase = "none" => marker.open = {}
  /\ marker.phase = "empty" => marker.open # {}
  /\ marker.phase \in {"load", "garbled"} => cpc \in {"load", "evict", "refused", "installed"}
  /\ marker.phase \in {"generate", "garbled"} => Serving \/ wpc = "clear"
  /\ marker.phase = "load" => marker.model = loading.model
  /\ marker.phase = "generate" => marker.model = modelOf[cur]

(* A model whose backend code takes the process down is the one the marker *)
(* names (docs/abi.md, The crash-quarantine marker).                       *)
MarkerNamesCulprit == phase = "crashed" => marker.model = culprit

-----------------------------------------------------------------------------
(* Liveness.                                                               *)

Ended == phase \in {"closing", "closed", "crashed"}

(* Every accepted request gets its terminal event unless the context goes  *)
(* away first: no order of the queue, cancels or unloads strands one.  A   *)
(* backend that waits for a cancel nobody asks for is the one exception.   *)
EveryRequestSettles ==
  \A r \in Requests :
    r \in inflight ~>
      \/ finals[r] = 1 \/ Ended
      \/ wpc = "paused" /\ cancelled[cur] = "no"

(* despia_ai_close returns, even on a generation that only a cancel ends.  *)
CloseReturns == phase = "closing" ~> phase \in {"closed", "crashed"}

-----------------------------------------------------------------------------
(* The context implements RequestStream.                                   *)

Gone == phase \in {"closed", "crashed"}

Stage(r) ==
  CASE r \notin Submitted -> "new"
    [] r \in Submitted /\ finals[r] = 0 ->
         IF Gone THEN "dropped" ELSE "live"
    [] r \in Submitted /\ finals[r] # 0 ->
         IF r \in inflight THEN "settled" ELSE "retired"

(* The request whose tokens are flowing. *)
Flowing ==
  IF ~Gone /\ cur # None /\ seq[cur] > 0 /\ finals[cur] = 0 THEN cur ELSE None

Stream == INSTANCE RequestStream WITH
  Ids     <- Requests,
  status  <- [r \in Requests |-> Stage(r)],
  told    <- seq,
  running <- Flowing

(* Generation is serial and never preempted, tokens stop at the terminal   *)
(* event, and a request is forgotten only after it (RequestStream).        *)
ImplementsStream == Stream!StreamSpec
=============================================================================
