----------------------------- MODULE BackendSeam -----------------------------
(***************************************************************************)
(* The seam between the context's worker and the backend that serves       *)
(* (engine/src/backend.hpp and Context::serveOne, engine/src/context.cpp): *)
(* the loaded model, the request, what the backend has emitted and         *)
(* reported, and the caller's cancel, which may land between any two of    *)
(* its steps.  A backend's module says what its steps do.                  *)
(***************************************************************************)
EXTENDS Integers, Sequences, SequencesExt, FiniteSetsExt

CONSTANTS
  IntMax   \* static_cast<int32_t> keeps -(IntMax + 1) .. IntMax

ASSUME SeamAssumption == IntMax \in Nat

VARIABLES
  model,     \* the loaded model, a record with its `engine`
  request,   \* the request being served, or the last one
  phase,     \* "idle", "serving" or, when the process is gone, "dead"
  sent,      \* blocks and resync points this serve has emitted, in order
  report,    \* what it has told out.fail and out.finish, in order
  cancelAt,  \* how much had been sent when cancelled() turned true
  frame      \* the locals of the running serve; `at` is where it stands

seamVars == <<model, request, phase, sent, report, cancelAt, frame>>

NotLoaded  == [engine |-> "none"]
NoRequest  == [kind |-> "none"]
NoFrame    == [at |-> "none"]
Uncancelled == -1

Cancelled == cancelAt # Uncancelled

(* static_cast<int32_t> of an int64_t. *)
Int32(n) == ((n + IntMax + 1) % (2 * (IntMax + 1))) - (IntMax + 1)

SeamInit ==
  /\ model = NotLoaded /\ request = NoRequest
  /\ phase = "idle" /\ frame = NoFrame
  /\ sent = <<>> /\ report = <<>> /\ cancelAt = Uncancelled

Idle ==
  /\ phase' = "idle" /\ request' = NoRequest /\ frame' = NoFrame
  /\ sent' = <<>> /\ report' = <<>> /\ cancelAt' = Uncancelled

(* Backend::load gives the core a model. *)
Empty == phase = "idle" /\ model = NotLoaded

Opened(m) ==
  /\ Empty /\ model' = m
  /\ UNCHANGED <<request, phase, sent, report, cancelAt, frame>>

(* The core let the model go, unloaded or evicted. *)
Released ==
  /\ phase = "idle" /\ model # NotLoaded /\ model' = NotLoaded
  /\ UNCHANGED <<request, phase, sent, report, cancelAt, frame>>

(* The worker calls serve; `first` is the frame it starts with. *)
Waiting(engine) == phase = "idle" /\ model.engine = engine

Begin(engine, r, first) ==
  /\ Waiting(engine)
  /\ phase' = "serving" /\ request' = r /\ frame' = first
  /\ sent' = <<>> /\ report' = <<>> /\ cancelAt' = Uncancelled

At(engine, place) == phase = "serving" /\ model.engine = engine /\ frame.at = place

(* A step that only moves the locals. *)
Moves(next) ==
  /\ frame' = next
  /\ UNCHANGED <<model, request, phase, sent, report, cancelAt>>

(* out.block or out.sync. *)
Emits(blocks, next) ==
  /\ sent' = sent \o blocks /\ frame' = next
  /\ UNCHANGED <<model, request, phase, report, cancelAt>>

(* A final call, if any, and serve has only to return. *)
Ends(end) ==
  /\ report' = report \o end /\ frame' = [frame EXCEPT !.at = "return"]
  /\ UNCHANGED <<model, request, phase, sent, cancelAt>>

Fails(code)     == Ends(<<[is |-> "failed", why |-> code]>>)
Finishes(why)   == Ends(<<[is |-> "finished", why |-> why]>>)
ReturnsSilently == Ends(<<>>)

(* serve is back in serveOne, which settles the request. *)
Returned ==
  /\ phase = "serving" /\ frame.at = "return"
  /\ Idle /\ UNCHANGED model

(* The caller cancels; the flag is never taken back. *)
Cancel ==
  /\ phase = "serving" /\ ~Cancelled
  /\ cancelAt' = Len(sent)
  /\ UNCHANGED <<model, request, phase, sent, report, frame>>

(* An assertion, an exception nothing catches, or no more stack. *)
Dies ==
  /\ phase' = "dead"
  /\ UNCHANGED <<model, request, sent, report, cancelAt, frame>>

(* The host starts the application again. *)
Relaunch ==
  /\ phase = "dead" /\ Idle /\ model' = NotLoaded
=============================================================================
