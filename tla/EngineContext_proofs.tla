------------------------ MODULE EngineContext_proofs ------------------------
(* Theorems about EngineContext, for every number of models, requests,     *)
(* loads and blocks and every discipline of the caller: first its queue    *)
(* and requests; then what the consumer hears, that the context implements *)
(* RequestStream, the order of the queue, cancels from the callback, the   *)
(* crash marker, the governor's books, and what a context owes a caller    *)
(* that loads and unloads only while cancel finds no request of its own.   *)
EXTENDS EngineContext, SequenceTheorems, FiniteSetTheorems, WellFoundedInduction,
        TLAPS

-----------------------------------------------------------------------------
(* The queue.                                                              *)

(* Every non-empty set of naturals has a least element: the intervals that *)
(* end in its members are well-founded under strict inclusion.             *)
LEMMA LeastElement ==
  ASSUME NEW T \in SUBSET Nat, T # {}
  PROVE  \E k \in T : \A i \in T : k <= i
<1> DEFINE Intervals == {0 .. k : k \in T}
<1>1. Intervals \subseteq FiniteSubsetsOf(Nat) /\ Intervals # {}
  <2>1. \A k \in T : IsFiniteSet(0 .. k)
    BY FS_Interval
  <2>2. \A k \in T : 0 .. k \in SUBSET Nat
    OBVIOUS
  <2> QED
    BY <2>1, <2>2 DEF FiniteSubsetsOf
<1>2. PICK I \in Intervals : \A J \in Intervals : <<J, I>> \notin StrictSubsetOrdering(Nat)
  BY <1>1, FS_StrictSubsetOrderingWellFounded, WFMin
<1>3. PICK k \in T : I = 0 .. k
  OBVIOUS
<1>4. ASSUME NEW i \in T, i < k
      PROVE  FALSE
  <2>1. 0 .. i \subseteq 0 .. k /\ k \in 0 .. k /\ k \notin 0 .. i
    BY <1>4
  <2>2. 0 .. i \in SUBSET Nat /\ 0 .. k \in SUBSET Nat /\ 0 .. i # 0 .. k
    BY <2>1
  <2>3. <<0 .. i, I>> \in StrictSubsetOrdering(Nat)
    BY <1>3, <2>1, <2>2, Zenon DEF StrictSubsetOrdering
  <2> QED
    BY <1>2, <2>3
<1> QED
  BY <1>4

(* The place an interactive request takes lies in the queue or just behind *)
(* it, everything before it is interactive and it holds no interactive one. *)
LEMMA PlaceFound ==
  ASSUME NEW S, NEW q \in Seq(S)
  PROVE  LET k == FirstBehindInteractive(q) IN
           /\ k \in 1 .. Len(q) + 1
           /\ \A i \in 1 .. k - 1 : q[i] \in interactive
           /\ k = Len(q) + 1 \/ q[k] \notin interactive
<1> DEFINE Stops == {k \in 1 .. Len(q) + 1 : k = Len(q) + 1 \/ q[k] \notin interactive}
<1>1. Len(q) + 1 \in Stops /\ Stops \in SUBSET Nat
  BY LenProperties
<1>2. PICK k \in Stops : \A i \in Stops : k <= i
  BY <1>1, LeastElement
<1>3. \A i \in 1 .. k - 1 : q[i] \in interactive
  BY <1>2, LenProperties
<1> QED
  BY <1>2, <1>3 DEF FirstBehindInteractive

(* t is q with r put in at place k. *)
InsertedAt(t, q, r, k) ==
  \A i \in 1 .. Len(q) + 1 :
    t[i] = IF i < k THEN q[i] ELSE IF i = k THEN r ELSE q[i - 1]

(* Where Enqueue puts a request. *)
PlaceOf(p) == IF p THEN FirstBehindInteractive(queue) ELSE Len(queue) + 1

(* Enqueue puts the request in at one place and moves the rest behind it.  *)
LEMMA EnqueueInserts ==
  ASSUME NEW S, queue \in Seq(S), NEW r \in S, NEW p \in BOOLEAN
  PROVE  /\ Enqueue(r, p) \in Seq(S)
         /\ Len(Enqueue(r, p)) = Len(queue) + 1
         /\ PlaceOf(p) \in 1 .. Len(queue) + 1
         /\ InsertedAt(Enqueue(r, p), queue, r, PlaceOf(p))
<1> DEFINE k == FirstBehindInteractive(queue)
           front == SubSeq(queue, 1, k - 1)
           back  == SubSeq(queue, k, Len(queue))
<1>1. k \in 1 .. Len(queue) + 1 /\ Len(queue) \in Nat
  BY PlaceFound, LenProperties
<1> HIDE DEF k
<1>2. /\ front \in Seq(S) /\ Len(front) = k - 1
      /\ \A i \in 1 .. k - 1 : front[i] = queue[i]
  BY <1>1, LenProperties, SubSeqProperties
<1>3. /\ back \in Seq(S) /\ Len(back) = Len(queue) - k + 1
      /\ \A i \in 1 .. Len(queue) - k + 1 : back[i] = queue[k + i - 1]
  BY <1>1, LenProperties, SubSeqProperties
<1>4. CASE p
  <2> HIDE DEF front, back
  <2>1. /\ front \o <<r>> \in Seq(S) /\ Len(front \o <<r>>) = k
        /\ \A i \in 1 .. k : (front \o <<r>>)[i] = IF i < k THEN front[i] ELSE r
    BY <1>1, <1>2, ConcatProperties
  <2>2. Enqueue(r, p) = (front \o <<r>>) \o back
    BY <1>4 DEF Enqueue, InsertAt, front, back, k
  <2>3. /\ Enqueue(r, p) \in Seq(S) /\ Len(Enqueue(r, p)) = Len(queue) + 1
        /\ \A i \in 1 .. Len(queue) + 1 :
             Enqueue(r, p)[i] = IF i <= k THEN (front \o <<r>>)[i] ELSE back[i - k]
    <3>1. Len(back) = Len(queue) - k + 1
      BY ONLY <1>3
    <3>2. Len(front \o <<r>>) = k
      BY ONLY <2>1
    <3>3. k \in Int /\ Len(queue) \in Int
      BY ONLY <1>1
    <3>4. Len(front \o <<r>>) + Len(back) = Len(queue) + 1
      BY ONLY <3>1, <3>2, <3>3
    <3> QED
      BY <1>3, <2>1, <2>2, <3>4, ConcatProperties
  <2>4. InsertedAt(Enqueue(r, p), queue, r, k)
    <3>1. \A i \in 1 .. Len(queue) + 1 :
            Enqueue(r, p)[i] = IF i < k THEN queue[i] ELSE IF i = k THEN r ELSE queue[i - 1]
      BY <1>1, <1>2, <1>3, <2>1, <2>3
    <3> QED
      BY <3>1 DEF InsertedAt
  <2>5. PlaceOf(p) = k
    BY <1>4 DEF PlaceOf, k
  <2> QED
    BY <1>1, <2>3, <2>4, <2>5
<1>5. CASE ~p
  <2>1. /\ Enqueue(r, p) \in Seq(S) /\ Len(Enqueue(r, p)) = Len(queue) + 1
        /\ \A i \in 1 .. Len(queue) : Enqueue(r, p)[i] = queue[i]
        /\ Enqueue(r, p)[Len(queue) + 1] = r
    <3>1. Enqueue(r, p) = Append(queue, r)
      BY <1>5 DEF Enqueue
    <3> QED
      BY <1>1, <3>1, AppendProperties
  <2>2. InsertedAt(Enqueue(r, p), queue, r, Len(queue) + 1)
    BY <1>1, <2>1 DEF InsertedAt
  <2>3. PlaceOf(p) = Len(queue) + 1 /\ Len(queue) + 1 \in 1 .. Len(queue) + 1
    BY <1>1, <1>5 DEF PlaceOf
  <2> QED
    BY <2>1, <2>2, <2>3
<1> QED
  BY <1>4, <1>5

-----------------------------------------------------------------------------
(* Types.                                                                  *)

LEMMA ChargeTyped == \A mb \in RuntimeMb : Charge(mb) \in Word
  BY GovernorAssumption, ContextAssumption DEF Charge, Word

(* What makes TypeOK inductive: the worker away from its wait has a        *)
(* request, every request the engine holds was submitted, and what was     *)
(* submitted names a model (workerLoop, submit).                           *)
AcceptedWork ==
  /\ wpc \in {"idle", "exited"} <=> cur = None
  /\ cur # None => cur \in Submitted
  /\ queue \in Seq(Submitted)
  /\ inflight \subseteq Submitted
  /\ \A r \in Submitted : modelOf[r] \in Models

(* A load in progress loads a model of the catalog (loadModel).            *)
LoadNamesModel == cpc \in {"mark", "load", "evict"} => loading.model \in Models

TypeInv == TypeOK /\ AcceptedWork /\ LoadNamesModel

LEMMA KeptTypes ==
  ASSUME TypeInv
  PROVE  /\ UNCHANGED <<phase, cpc, wpc, cur, cb>> => ThreadTypes'
         /\ UNCHANGED modelVars => ModelTypes'
         /\ UNCHANGED <<marker, culprit>> => MarkerTypes'
         /\ UNCHANGED <<requestVars, flagVars>> => RequestTypes'
         /\ UNCHANGED workVars => WorkTypes'
         /\ UNCHANGED toldVars => ToldTypes'
         /\ UNCHANGED <<cpc, modelVars>> => LoadNamesModel'
<1> USE DEF TypeInv, TypeOK
<1>1. UNCHANGED <<phase, cpc, wpc, cur, cb>> => ThreadTypes'
  BY DEF ThreadTypes, Requests
<1>2. UNCHANGED modelVars => ModelTypes'
  BY DEF modelVars, ModelTypes
<1>3. UNCHANGED <<marker, culprit>> => MarkerTypes'
  BY DEF MarkerTypes
<1>4. UNCHANGED <<requestVars, flagVars>> => RequestTypes'
  BY DEF requestVars, flagVars, RequestTypes
<1>5. UNCHANGED workVars => WorkTypes'
  BY DEF workVars, WorkTypes
<1>6. UNCHANGED toldVars => ToldTypes'
  BY DEF toldVars, ToldTypes
<1>7. UNCHANGED <<cpc, modelVars>> => LoadNamesModel'
  BY DEF modelVars, LoadNamesModel
<1> QED
  BY <1>1, <1>2, <1>3, <1>4, <1>5, <1>6, <1>7

(* What the consumer is told leaves its view well-typed. *)
LEMMA TellTyped ==
  ASSUME ToldTypes, WorkTypes, NEW r \in Requests
  PROVE  /\ TellToken(r, seq[r]) => ToldTypes'
         /\ (seq' = seq /\ TellSync(r)) => ToldTypes'
         /\ (seq' = seq /\ TellFinal(r)) => ToldTypes'
<1> USE DEF ToldTypes, WorkTypes
<1>1. TellToken(r, seq[r]) => ToldTypes'
  BY DEF TellToken, Gap
<1>2. (seq' = seq /\ TellSync(r)) => ToldTypes'
  BY DEF TellSync
<1>3. (seq' = seq /\ TellFinal(r)) => ToldTypes'
  BY DEF TellFinal
<1> QED
  BY <1>1, <1>2, <1>3

LEMMA UnloadTyped ==
  ASSUME ModelTypes, NEW m \in Models, Unload(m),
         loading' = loading, victims' \subseteq victims
  PROVE  ModelTypes'
BY GovernorAssumption DEF ModelTypes, Unload, Word, None

(* The next victim is one of the victims. *)
LEMMA OldestFound ==
  ASSUME ModelTypes, victims # {}
  PROVE  Oldest(victims, lastUsed) \in victims
<1> DEFINE Ages == {lastUsed[m] : m \in victims}
<1>1. Ages \in SUBSET Nat /\ Ages # {}
  BY DEF ModelTypes
<1>2. PICK age \in Ages : \A i \in Ages : age <= i
  BY <1>1, LeastElement
<1> QED
  BY <1>2 DEF Oldest

LEMMA CurrentRequest ==
  ASSUME TypeInv, wpc \notin {"idle", "exited"}
  PROVE  cur \in Requests /\ cur \in Submitted /\ modelOf[cur] \in Models
BY DEF TypeInv, TypeOK, ThreadTypes, AcceptedWork

(* The accepted work changes only where a request is submitted, taken or   *)
(* erased, and where the queue is dropped.                                 *)
LEMMA KeptWork ==
  ASSUME TypeInv, wpc' \in {"idle", "exited"} <=> cur = None,
         cur' = cur, UNCHANGED requestVars
  PROVE  AcceptedWork'
BY DEF TypeInv, AcceptedWork, requestVars, Submitted

(* Opening, writing and removing the marker. *)
LEMMA MarkerOpened ==
  ASSUME MarkerTypes, NEW thread \in {"caller", "worker"}, OpenMarker(thread), culprit' = culprit
  PROVE  MarkerTypes'
BY DEF MarkerTypes, OpenMarker

LEMMA MarkerWritten ==
  ASSUME MarkerTypes, NEW thread, NEW m \in Models, NEW what \in {"load", "generate"},
         WriteMarker(thread, m, what), culprit' = culprit
  PROVE  MarkerTypes'
<1>1. CASE UNCHANGED marker
  BY <1>1 DEF MarkerTypes
<1>2. CASE \E text \in MarkerTexts(m, what) :
             marker' = [model |-> text.model, phase |-> text.phase, open |-> marker.open \ {thread}]
  BY <1>2 DEF MarkerTypes, MarkerTexts
<1> QED
  BY <1>1, <1>2 DEF WriteMarker

LEMMA TypeStep == TypeInv /\ [Next]_vars => TypeInv'
<1> SUFFICES ASSUME TypeInv, [Next]_vars  PROVE TypeInv'
  OBVIOUS
<1> USE DEF TypeInv, TypeOK
<1>1. CASE BackendRefuses
  <2>1. ThreadTypes'
    BY <1>1 DEF BackendRefuses, ThreadTypes
  <2> QED
    BY <1>1, <2>1, KeptTypes, KeptWork DEF BackendRefuses, AcceptedWork, LoadNamesModel, modelVars
<1>1a. CASE MarkLoad
  <2>1. ThreadTypes'
    BY <1>1a DEF MarkLoad, ThreadTypes
  <2>2. MarkerTypes'
    BY <1>1a, MarkerWritten DEF MarkLoad, LoadNamesModel
  <2> QED
    BY <1>1a, <2>1, <2>2, KeptTypes, KeptWork DEF MarkLoad, AcceptedWork, LoadNamesModel, modelVars
<1>2. ASSUME NEW mb \in RuntimeMb, BackendLoads(mb)
      PROVE  TypeInv'
  <2>1. ThreadTypes'
    BY <1>2 DEF BackendLoads, ThreadTypes
  <2>2. victims' \subseteq Models
    BY <1>2 DEF BackendLoads, ModelTypes, EvictionVictims, Others
  <2>3. loading' \in [model : Models \cup {NoModel}, object : Nat, charge : Word]
    BY <1>2, ChargeTyped DEF BackendLoads, ModelTypes
  <2>4. ModelTypes'
    BY <1>2, <2>2, <2>3 DEF BackendLoads, ModelTypes, governorVars
  <2> QED
    BY <1>2, <2>1, <2>4, KeptTypes, KeptWork DEF BackendLoads, AcceptedWork, LoadNamesModel
<1>3. CASE EvictNext
  <2>1. Oldest(victims, lastUsed) \in Models
    BY <1>3, OldestFound DEF EvictNext, ModelTypes
  <2>2. ModelTypes'
    BY <1>3, <2>1, UnloadTyped DEF EvictNext
  <2> QED
    BY <1>3, <2>2, KeptTypes, KeptWork DEF EvictNext, AcceptedWork, LoadNamesModel
<1>4. CASE Install
  <2>1. ThreadTypes'
    BY <1>4 DEF Install, ThreadTypes
  <2>2. resident' \subseteq Models /\ models' \in [Models -> Nat]
    <3>1. loading.object \in Nat /\ models \in [Models -> Nat]
      BY DEF ModelTypes
    <3>2. models' = [models EXCEPT ![loading.model] = loading.object]
      BY <1>4 DEF Install
    <3>3. models' \in [Models -> Nat]
      BY <3>1, <3>2
    <3> QED
      BY <1>4, <3>3 DEF Install, ModelTypes, LoadNamesModel
  <2>3. bytes' \in [Models -> Word]
    <3>1. loading.charge \in Word
      BY DEF ModelTypes
    <3> QED
      BY <1>4, <3>1 DEF Install, ModelTypes
  <2>4. clock' \in Nat /\ lastUsed' \in [Models -> Nat]
    <3>1. clock' \in Nat /\ lastUsed \in [Models -> Nat]
      BY <1>4 DEF Install, ModelTypes
    <3>2. lastUsed' = [lastUsed EXCEPT ![loading.model] = clock']
      BY <1>4 DEF Install
    <3> QED
      BY <3>1, <3>2
  <2>5. ModelTypes'
    BY <1>4, <2>2, <2>3, <2>4 DEF Install, ModelTypes
  <2> QED
    BY <1>4, <2>1, <2>5, KeptTypes, KeptWork DEF Install, AcceptedWork, LoadNamesModel
<1>5. CASE LoadReturns
  <2>1. ThreadTypes'
    BY <1>5 DEF LoadReturns, ThreadTypes
  <2>2. ModelTypes'
    BY <1>5, GovernorAssumption
       DEF LoadReturns, ModelTypes, NoLoad, None, Word, governorVars
  <2>3. MarkerTypes'
    BY <1>5 DEF LoadReturns, MarkerTypes, ClearMarker, NoMarker
  <2> QED
    BY <1>5, <2>1, <2>2, <2>3, KeptTypes, KeptWork DEF LoadReturns, AcceptedWork, LoadNamesModel
<1>6. CASE Join
  <2>1. ThreadTypes'
    BY <1>6 DEF Join, ThreadTypes
  <2>2. ModelTypes'
    BY <1>6, GovernorAssumption DEF Join, ModelTypes, None, Word
  <2> QED
    BY <1>6, <2>1, <2>2, KeptTypes, KeptWork DEF Join, AcceptedWork, LoadNamesModel
<1>7. ASSUME NEW m \in Models, LoadModel(m)
      PROVE  TypeInv'
  <2>1. ThreadTypes'
    BY <1>7 DEF LoadModel, ThreadTypes
  <2>2. ModelTypes'
    BY <1>7, GovernorAssumption DEF LoadModel, ModelTypes, None, Word, governorVars
  <2>3. MarkerTypes'
    BY <1>7, MarkerOpened DEF LoadModel
  <2> QED
    BY <1>7, <2>1, <2>2, <2>3, KeptTypes, KeptWork DEF LoadModel, AcceptedWork, LoadNamesModel
<1>8. ASSUME NEW m \in Models, UnloadModel(m)
      PROVE  TypeInv'
  <2>1. ModelTypes'
    BY <1>8, UnloadTyped DEF UnloadModel
  <2> QED
    BY <1>8, <2>1, KeptTypes, KeptWork DEF UnloadModel, AcceptedWork, LoadNamesModel
<1>9. ASSUME NEW m \in Models, NEW p \in BOOLEAN, Submit(m, p)
      PROVE  TypeInv'
  <2>1. /\ nextRequestId \in Requests /\ Submitted' = Submitted \cup {nextRequestId}
        /\ nextRequestId' \in 1 .. MaxRequests + 1
    BY <1>9, ContextAssumption DEF Submit, RequestTypes, Requests, Submitted
  <2>2. queue' \in Seq(Requests)
    BY <1>9, <2>1, EnqueueInserts DEF Submit, RequestTypes
  <2>3. queue \in Seq(Submitted')
    BY <2>1, SeqMonotonic DEF AcceptedWork
  <2>4. queue' \in Seq(Submitted')
    BY <1>9, <2>1, <2>3, EnqueueInserts DEF Submit
  <2>5. RequestTypes'
    BY <1>9, <2>1, <2>2 DEF Submit, RequestTypes, flagVars
  <2>6. \A r \in Submitted' : modelOf'[r] \in Models
    BY <1>9, <2>1 DEF Submit, AcceptedWork, RequestTypes
  <2>7. AcceptedWork'
    BY <1>9, <2>1, <2>4, <2>6 DEF Submit, AcceptedWork
  <2> QED
    BY <1>9, <2>5, <2>7, KeptTypes DEF Submit
<1>10. ASSUME NEW r \in Requests, Cancel(r)
       PROVE  TypeInv'
  <2>1. RequestTypes'
    BY <1>10 DEF Cancel, RequestTypes, requestVars
  <2> QED
    BY <1>10, <2>1, KeptTypes, KeptWork DEF Cancel, AcceptedWork
<1>11. ASSUME NEW r \in Requests, SyncNow(r)
       PROVE  TypeInv'
  <2>1. RequestTypes'
    BY <1>11 DEF SyncNow, RequestTypes, requestVars
  <2> QED
    BY <1>11, <2>1, KeptTypes, KeptWork DEF SyncNow, AcceptedWork
<1>12. CASE Close
  <2>1. ThreadTypes'
    BY <1>12 DEF Close, ThreadTypes
  <2>2. RequestTypes'
    BY <1>12, EmptySeq DEF Close, RequestTypes
  <2>3. AcceptedWork'
    BY <1>12, EmptySeq DEF Close, AcceptedWork, Submitted
  <2> QED
    BY <1>12, <2>1, <2>2, <2>3, KeptTypes DEF Close, LoadNamesModel, modelVars
<1>13. CASE Take
  <2>1. /\ Head(queue) \in Requests /\ Tail(queue) \in Seq(Requests)
        /\ Head(queue) \in Submitted /\ Tail(queue) \in Seq(Submitted)
        /\ Head(queue) # None
    <3>1. Head(queue) \in Requests /\ Tail(queue) \in Seq(Requests)
      BY <1>13, HeadTailProperties DEF Take, RequestTypes
    <3>2. Head(queue) \in Submitted /\ Tail(queue) \in Seq(Submitted)
      BY <1>13, HeadTailProperties DEF Take, AcceptedWork
    <3> QED
      BY <3>1, <3>2 DEF Requests, None
  <2>2. ThreadTypes'
    BY <1>13, <2>1 DEF Take, ThreadTypes
  <2>3. RequestTypes'
    BY <1>13, <2>1 DEF Take, RequestTypes, flagVars
  <2>4. AcceptedWork'
    BY <1>13, <2>1 DEF Take, AcceptedWork, Submitted
  <2> QED
    BY <1>13, <2>2, <2>3, <2>4, KeptTypes DEF Take
<1>14. CASE WorkerExits
  <2>1. ThreadTypes'
    BY <1>14 DEF WorkerExits, ThreadTypes
  <2> QED
    BY <1>14, <2>1, KeptTypes, KeptWork DEF WorkerExits, AcceptedWork, At
<1>15. CASE Lookup
  <2>1. ThreadTypes'
    BY <1>15 DEF Lookup, ThreadTypes
  <2>2. WorkTypes'
    BY <1>15, CurrentRequest DEF Lookup, At, WorkTypes, ModelTypes
  <2> QED
    BY <1>15, <2>1, <2>2, KeptTypes, KeptWork DEF Lookup, AcceptedWork, At
<1>16. CASE ModelGone
  <2>1. ThreadTypes'
    BY <1>16 DEF ModelGone, ThreadTypes, TellFinal
  <2>2. ToldTypes'
    BY <1>16, CurrentRequest, TellTyped DEF ModelGone, At, workVars
  <2> QED
    BY <1>16, <2>1, <2>2, KeptTypes, KeptWork DEF ModelGone, AcceptedWork, At
<1>17. CASE CancelledEarly
  <2>1. ThreadTypes'
    BY <1>17 DEF CancelledEarly, ThreadTypes, TellFinal
  <2>2. ToldTypes'
    BY <1>17, CurrentRequest, TellTyped DEF CancelledEarly, At, workVars
  <2> QED
    BY <1>17, <2>1, <2>2, KeptTypes, KeptWork DEF CancelledEarly, AcceptedWork, At
<1>18. CASE StartServing
  <2>1. ThreadTypes'
    BY <1>18 DEF StartServing, ThreadTypes
  <2>2. MarkerTypes'
    BY <1>18, MarkerOpened DEF StartServing
  <2> QED
    BY <1>18, <2>1, <2>2, KeptTypes, KeptWork DEF StartServing, AcceptedWork, At
<1>18a. CASE MarkGenerate
  <2>1. ThreadTypes'
    BY <1>18a DEF MarkGenerate, ThreadTypes
  <2>2. MarkerTypes'
    BY <1>18a, CurrentRequest, MarkerWritten DEF MarkGenerate, At
  <2> QED
    BY <1>18a, <2>1, <2>2, KeptTypes, KeptWork DEF MarkGenerate, AcceptedWork, At
<1>19. ASSUME NEW what \in {"block", "sync"}, Offer(what)
       PROVE  TypeInv'
  <2>1. ThreadTypes'
    BY <1>19 DEF Offer, ThreadTypes
  <2>2. WorkTypes'
    BY <1>19, ContextAssumption DEF Offer, WorkTypes
  <2> QED
    BY <1>19, <2>1, <2>2, KeptTypes, KeptWork DEF Offer, AcceptedWork, At
<1>20. CASE EmitBlock
  <2>1. ThreadTypes'
    BY <1>20 DEF EmitBlock, ThreadTypes, TellToken
  <2>2. WorkTypes'
    <3>1. seq' \in [Requests -> Nat]
      <4>1. cur \in Requests /\ seq[cur] + 1 \in Nat
        BY <1>20, CurrentRequest DEF EmitBlock, At, WorkTypes
      <4> QED
        BY <1>20, <4>1 DEF EmitBlock, WorkTypes
    <3> QED
      BY <1>20, <3>1 DEF EmitBlock, WorkTypes
  <2>3. ToldTypes'
    BY <1>20, CurrentRequest, TellTyped DEF EmitBlock, At
  <2> QED
    BY <1>20, <2>1, <2>2, <2>3, KeptTypes, KeptWork DEF EmitBlock, AcceptedWork, At
<1>21. CASE PostBlock
  <2>1. ThreadTypes'
    BY <1>21 DEF PostBlock, ThreadTypes, TellSync
  <2>2. RequestTypes'
    BY <1>21 DEF PostBlock, RequestTypes, requestVars
  <2>3. ToldTypes'
    BY <1>21, CurrentRequest, TellTyped, KeptTypes DEF PostBlock, At, workVars
  <2> QED
    BY <1>21, <2>1, <2>2, <2>3, KeptTypes, KeptWork DEF PostBlock, AcceptedWork, At
<1>22. CASE OfferSync
  <2>1. ThreadTypes'
    BY <1>22 DEF OfferSync, ThreadTypes, TellSync
  <2>2. ToldTypes'
    BY <1>22, CurrentRequest, TellTyped DEF OfferSync, At, workVars
  <2> QED
    BY <1>22, <2>1, <2>2, KeptTypes, KeptWork DEF OfferSync, AcceptedWork, At
<1>23. CASE Fail
  <2>1. ThreadTypes'
    BY <1>23 DEF Fail, ThreadTypes, TellFinal
  <2>2. WorkTypes'
    BY <1>23 DEF Fail, WorkTypes
  <2>3. ToldTypes'
    BY <1>23, CurrentRequest, TellTyped DEF Fail, At
  <2> QED
    BY <1>23, <2>1, <2>2, <2>3, KeptTypes, KeptWork DEF Fail, AcceptedWork, At
<1>24. CASE Pause
  <2>1. ThreadTypes'
    BY <1>24 DEF Pause, ThreadTypes
  <2> QED
    BY <1>24, <2>1, KeptTypes, KeptWork DEF Pause, AcceptedWork, At
<1>25. CASE BackendReturns
  <2>1. ThreadTypes'
    BY <1>25 DEF BackendReturns, ThreadTypes
  <2> QED
    BY <1>25, <2>1, KeptTypes, KeptWork DEF BackendReturns, AcceptedWork, At
<1>26. CASE ClearAfterServe
  <2>1. ThreadTypes'
    BY <1>26 DEF ClearAfterServe, ThreadTypes
  <2>2. MarkerTypes'
    BY <1>26 DEF ClearAfterServe, MarkerTypes, ClearMarker, NoMarker
  <2> QED
    BY <1>26, <2>1, <2>2, KeptTypes, KeptWork DEF ClearAfterServe, AcceptedWork, At
<1>27. CASE Finish
  <2>1. ThreadTypes'
    BY <1>27 DEF Finish, ThreadTypes, TellFinal
  <2>2. ToldTypes'
    BY <1>27, CurrentRequest, TellTyped DEF Finish, At, workVars
  <2> QED
    BY <1>27, <2>1, <2>2, KeptTypes, KeptWork DEF Finish, AcceptedWork, At
<1>28. CASE Erase
  <2>1. ThreadTypes'
    BY <1>28 DEF Erase, ThreadTypes
  <2>2. RequestTypes'
    BY <1>28 DEF Erase, RequestTypes, flagVars
  <2>3. WorkTypes'
    <3>1. failed' \in BOOLEAN
      BY <1>28 DEF Erase
    <3> QED
      BY <1>28, <3>1, ContextAssumption DEF Erase, WorkTypes, None
  <2>4. AcceptedWork'
    BY <1>28 DEF Erase, AcceptedWork, Submitted
  <2> QED
    BY <1>28, <2>1, <2>2, <2>3, <2>4, KeptTypes DEF Erase
<1>29. ASSUME NEW r \in Requests, CallbackCancels(r)
       PROVE  TypeInv'
  <2>1. RequestTypes'
    BY <1>29 DEF CallbackCancels, RequestTypes, requestVars
  <2> QED
    BY <1>29, <2>1, KeptTypes, KeptWork DEF CallbackCancels, AcceptedWork
<1>30. ASSUME NEW r \in Requests, CallbackSyncs(r)
       PROVE  TypeInv'
  <2>1. ThreadTypes'
    BY <1>30 DEF CallbackSyncs, ThreadTypes, TellSync
  <2>2. ToldTypes'
    BY <1>30, TellTyped DEF CallbackSyncs, workVars
  <2> QED
    BY <1>30, <2>1, <2>2, KeptTypes, KeptWork DEF CallbackSyncs, AcceptedWork
<1>31. CASE CallbackReturns
  <2>1. ThreadTypes'
    BY <1>31 DEF CallbackReturns, ThreadTypes
  <2> QED
    BY <1>31, <2>1, KeptTypes, KeptWork DEF CallbackReturns, AcceptedWork
<1>32. ASSUME NEW m \in Models, Crash(m)
       PROVE  TypeInv'
  <2>1. ThreadTypes'
    BY <1>32 DEF Crash, ThreadTypes
  <2>2. MarkerTypes'
    BY <1>32 DEF Crash, MarkerTypes
  <2> QED
    BY <1>32, <2>1, <2>2, KeptTypes, KeptWork DEF Crash, AcceptedWork
<1>33. CASE Over \/ UNCHANGED vars
  BY <1>33, KeptTypes, KeptWork DEF Over, vars, AcceptedWork
<1> QED
  BY <1>1, <1>2, <1>3, <1>4, <1>5, <1>6, <1>7, <1>8, <1>9, <1>10, <1>11, <1>12,
     <1>13, <1>14, <1>15, <1>16, <1>17, <1>18, <1>19, <1>20, <1>21, <1>22, <1>23,
     <1>24, <1>25, <1>26, <1>27, <1>28, <1>29, <1>30, <1>31, <1>32, <1>33,
     <1>1a, <1>18a
     DEF Next, CallerContinues, CallerCalls, Worker, Callback

LEMMA TypeInit == Init => TypeInv
<1> SUFFICES ASSUME Init  PROVE TypeInv
  OBVIOUS
<1> USE ContextAssumption, GovernorAssumption DEF Init
<1>1. ThreadTypes
  BY DEF ThreadTypes, None
<1>2. ModelTypes
  BY DEF ModelTypes, NoLoad, None, Word
<1>3. MarkerTypes
  BY DEF MarkerTypes, NoMarker
<1>4. RequestTypes
  BY EmptySeq DEF RequestTypes
<1>5. WorkTypes
  <2>1. failed \in BOOLEAN
    OBVIOUS
  <2> QED
    BY <2>1 DEF WorkTypes, None
<1>6. ToldTypes
  BY DEF ToldTypes
<1>7. AcceptedWork /\ LoadNamesModel
  BY EmptySeq DEF AcceptedWork, Submitted, LoadNamesModel
<1> QED
  BY <1>1, <1>2, <1>3, <1>4, <1>5, <1>6, <1>7 DEF TypeInv, TypeOK

(* Every variable of the context keeps its type, whatever the caller, the  *)
(* worker and the callback do (Context, PendingRequest, Governor::Entry).  *)
THEOREM TypeCorrect == Spec => []TypeOK
<1>1. Spec => []TypeInv
  BY TypeInit, TypeStep, PTL DEF Spec
<1>2. TypeInv => TypeOK
  BY DEF TypeInv
<1> QED
  BY <1>1, <1>2, PTL

-----------------------------------------------------------------------------
(* Requests: unfinished work and terminal events.                          *)

(* The current request has had its terminal event: serveOne is past the    *)
(* emit of it, or the backend's fail emitted it.                           *)
PastTerminal == wpc = "erase" \/ (wpc = "clear" /\ failed)

(* What makes the two request invariants inductive: no request is told its *)
(* end before its turn, and the current one exactly once on every path.    *)
Settling ==
  /\ \A r \in Requests \ Submitted : finals[r] = 0
  /\ \A i \in DOMAIN queue : finals[queue[i]] = 0 /\ queue[i] \in inflight
  /\ cur # None => finals[cur] = IF PastTerminal THEN 1 ELSE 0
  /\ failed => wpc \in {"clear", "erase"}

WorkInv == TypeInv /\ InflightIsUnfinishedWork /\ SettledExactlyOnce /\ Settling

(* A step that touches no request and tells no end keeps the invariant.    *)
LEMMA KeptSettling ==
  ASSUME WorkInv, TypeInv', UNCHANGED <<requestVars, cur, finals>>,
         phase' = "open" => phase = "open",
         PastTerminal' <=> PastTerminal,
         failed' => wpc' \in {"clear", "erase"}
  PROVE  WorkInv'
<1>1. UNCHANGED <<nextRequestId, queue, inflight>> /\ Submitted' = Submitted
  BY DEF requestVars, Submitted
<1>2. InflightIsUnfinishedWork'
  BY <1>1 DEF WorkInv, InflightIsUnfinishedWork
<1>3. SettledExactlyOnce'
  BY <1>1 DEF WorkInv, SettledExactlyOnce
<1>4. Settling'
  BY <1>1 DEF WorkInv, Settling
<1> QED
  BY <1>2, <1>3, <1>4 DEF WorkInv

(* A step that tells the current request its end keeps the invariant.      *)
LEMMA SettleOnce ==
  ASSUME WorkInv, TypeInv', UNCHANGED <<phase, requestVars, cur>>,
         wpc \notin {"idle", "exited"}, ~PastTerminal, TellFinal(cur),
         PastTerminal', failed' => wpc' \in {"clear", "erase"}
  PROVE  WorkInv'
<1>1. UNCHANGED <<nextRequestId, queue, inflight>> /\ Submitted' = Submitted
  BY DEF requestVars, Submitted
<1>2. /\ cur \in Requests /\ cur # None /\ finals \in [Requests -> Nat]
      /\ finals' = [finals EXCEPT ![cur] = @ + 1]
      /\ finals[cur] = 0 /\ cur \in Submitted
  BY CurrentRequest DEF WorkInv, TypeInv, TypeOK, ToldTypes, TellFinal, Settling,
                        AcceptedWork
<1>3. finals'[cur] = 1 /\ \A r \in Requests : r # cur => finals'[r] = finals[r]
  BY <1>2
<1>4. InflightIsUnfinishedWork'
  BY <1>1 DEF WorkInv, InflightIsUnfinishedWork
<1>5. SettledExactlyOnce'
  BY <1>1, <1>2, <1>3 DEF WorkInv, SettledExactlyOnce
<1>6. \A i \in DOMAIN queue : queue[i] \in Requests /\ queue[i] # cur
  BY ElementOfSeq DEF WorkInv, InflightIsUnfinishedWork, TypeInv, TypeOK, RequestTypes
<1>7. Settling'
  BY <1>1, <1>2, <1>3, <1>6 DEF WorkInv, Settling
<1> QED
  BY <1>4, <1>5, <1>7 DEF WorkInv

LEMMA WorkStep == WorkInv /\ [Next]_vars => WorkInv'
<1> SUFFICES ASSUME WorkInv, [Next]_vars  PROVE WorkInv'
  OBVIOUS
<1>t. TypeInv'
  BY TypeStep DEF WorkInv
<1> USE <1>t DEF PastTerminal
<1>1. CASE MarkLoad \/ BackendRefuses
  BY <1>1, KeptSettling DEF MarkLoad, BackendRefuses, workVars, toldVars, WorkInv, Settling
<1>2. ASSUME NEW mb \in RuntimeMb, BackendLoads(mb)
      PROVE  WorkInv'
  BY <1>2, KeptSettling DEF BackendLoads, workVars, toldVars, WorkInv, Settling
<1>3. CASE EvictNext \/ Install \/ LoadReturns
  BY <1>3, KeptSettling
     DEF EvictNext, Install, LoadReturns, workVars, toldVars, WorkInv, Settling
<1>4. CASE Join
  BY <1>4, KeptSettling DEF Join, workVars, toldVars, WorkInv, Settling
<1>5. ASSUME NEW m \in Models, LoadModel(m) \/ UnloadModel(m)
      PROVE  WorkInv'
  BY <1>5, KeptSettling DEF LoadModel, UnloadModel, workVars, toldVars, WorkInv, Settling
<1>6. ASSUME NEW m \in Models, NEW p \in BOOLEAN, Submit(m, p)
      PROVE  WorkInv'
  <2> DEFINE n == nextRequestId
  <2>1. /\ n \in Requests /\ n \notin Submitted /\ n # None
        /\ Submitted' = Submitted \cup {n}
        /\ inflight' = inflight \cup {n}
        /\ queue \in Seq(Requests) /\ queue' = Enqueue(n, p)
        /\ UNCHANGED <<phase, wpc, cur, failed, finals>> /\ phase = "open"
    BY <1>6, ContextAssumption
       DEF Submit, CallerFree, WorkInv, TypeInv, TypeOK, RequestTypes, Requests,
           Submitted, None, workVars, toldVars
  <2>2. /\ \A i \in DOMAIN queue : queue[i] \in Submitted
        /\ inflight \subseteq Submitted
        /\ cur # None => cur \in Submitted
    BY ElementOfSeq, LenProperties DEF WorkInv, TypeInv, AcceptedWork
  <2>3. /\ queue' \in Seq(Requests) /\ Len(queue') = Len(queue) + 1
        /\ DOMAIN queue = 1 .. Len(queue) /\ DOMAIN queue' = 1 .. Len(queue) + 1
        /\ Len(queue) \in Nat
    BY <2>1, EnqueueInserts, LenProperties
  <2>4. PICK k \in 1 .. Len(queue) + 1 : InsertedAt(queue', queue, n, k)
    BY <2>1, EnqueueInserts
  <2> USE DEF InsertedAt
  <2> HIDE DEF n
  <2>5. /\ \A i \in DOMAIN queue' :
             queue'[i] = n \/ \E j \in DOMAIN queue : queue'[i] = queue[j]
        /\ \A j \in DOMAIN queue : \E i \in DOMAIN queue' : queue'[i] = queue[j]
        /\ \E i \in DOMAIN queue' : queue'[i] = n
    <3>1. \A i \in DOMAIN queue' :
            queue'[i] = n \/ \E j \in DOMAIN queue : queue'[i] = queue[j]
      BY <2>3, <2>4
    <3>2. ASSUME NEW j \in DOMAIN queue
          PROVE  \E i \in DOMAIN queue' : queue'[i] = queue[j]
      <4>1. CASE j < k
        BY <2>3, <2>4, <4>1
      <4>2. CASE j >= k
        <5>1. j + 1 \in DOMAIN queue' /\ queue'[j + 1] = queue[j]
          BY <2>3, <2>4, <4>2
        <5> QED
          BY <5>1
      <4> QED
        BY <2>3, <4>1, <4>2
    <3>3. k \in DOMAIN queue' /\ queue'[k] = n
      BY <2>3, <2>4
    <3> QED
      BY <3>1, <3>2, <3>3
  <2>6. \A i, j \in DOMAIN queue' : i # j => queue'[i] # queue'[j]
    <3>1. \A i, j \in DOMAIN queue : i # j => queue[i] # queue[j]
      BY DEF WorkInv, InflightIsUnfinishedWork
    <3>2. \A i \in DOMAIN queue : queue[i] # n
      BY <2>1, <2>2
    <3> SUFFICES ASSUME NEW i \in 1 .. Len(queue) + 1, NEW j \in 1 .. Len(queue) + 1, i < j
                 PROVE  queue'[i] # queue'[j]
      BY <2>3
    <3>3. CASE j < k
      BY <2>3, <2>4, <3>1, <3>3
    <3>4. CASE j = k
      BY <2>3, <2>4, <3>2, <3>4
    <3>5. CASE j > k /\ i < k
      BY <2>3, <2>4, <3>1, <3>5
    <3>6. CASE j > k /\ i = k
      BY <2>3, <2>4, <3>2, <3>6
    <3>7. CASE i > k
      <4>1. i - 1 \in DOMAIN queue /\ j - 1 \in DOMAIN queue /\ i - 1 # j - 1
        BY <2>3, <3>7
      <4>2. queue'[i] = queue[i - 1] /\ queue'[j] = queue[j - 1]
        BY <2>3, <2>4, <3>7
      <4> QED
        BY <3>1, <4>1, <4>2
    <3> QED
      BY <2>3, <3>3, <3>4, <3>5, <3>6, <3>7
  <2>7. InflightIsUnfinishedWork'
    <3>1. ToSet(queue') = ToSet(queue) \cup {n}
      BY <2>5 DEF ToSet
    <3>2. inflight = ToSet(queue) \cup ({cur} \ {None})
      BY <2>1 DEF WorkInv, InflightIsUnfinishedWork
    <3>3. \A i \in DOMAIN queue' : queue'[i] # cur
      BY <2>1, <2>2, <2>5, ContextAssumption
         DEF WorkInv, InflightIsUnfinishedWork, Requests, None
    <3> QED
      BY <2>1, <2>2, <2>6, <3>1, <3>2, <3>3 DEF WorkInv, InflightIsUnfinishedWork
  <2>8. SettledExactlyOnce'
    BY <2>1 DEF WorkInv, SettledExactlyOnce
  <2>9. Settling'
    BY <2>1, <2>2, <2>5 DEF WorkInv, Settling
  <2> QED
    BY <2>7, <2>8, <2>9 DEF WorkInv
<1>7. ASSUME NEW r \in Requests, Cancel(r) \/ SyncNow(r)
      PROVE  WorkInv'
  BY <1>7, KeptSettling DEF Cancel, SyncNow, workVars, toldVars, WorkInv, Settling
<1>8. CASE Close
  <2>1. /\ queue' = <<>> /\ phase' # "open" /\ Submitted' = Submitted
        /\ UNCHANGED <<wpc, cur, inflight, failed, finals>>
    BY <1>8 DEF Close, workVars, toldVars, Submitted
  <2>2. DOMAIN queue' = {}
    BY <2>1
  <2> QED
    BY <2>1, <2>2
       DEF WorkInv, InflightIsUnfinishedWork, SettledExactlyOnce, Settling
<1>9. CASE Take
  <2>1. /\ queue \in Seq(Requests) /\ queue # <<>> /\ cur = None
        /\ cur' = Head(queue) /\ queue' = Tail(queue) /\ wpc' = "lookup" /\ wpc = "idle"
        /\ UNCHANGED <<phase, inflight, failed, finals>> /\ Submitted' = Submitted
    BY <1>9 DEF Take, At, WorkInv, TypeInv, TypeOK, RequestTypes, AcceptedWork,
                workVars, toldVars, Submitted
  <2>2. /\ Len(queue) \in Nat \ {0} /\ DOMAIN queue = 1 .. Len(queue)
        /\ cur' = queue[1] /\ 1 \in DOMAIN queue
        /\ DOMAIN queue' = 1 .. Len(queue) - 1
        /\ \A i \in DOMAIN queue' : i + 1 \in DOMAIN queue /\ queue'[i] = queue[i + 1]
    BY <2>1, HeadTailProperties, LenProperties, EmptySeq
  <2>3. /\ \A i, j \in DOMAIN queue : i # j => queue[i] # queue[j]
        /\ \A i \in DOMAIN queue : queue[i] \in Requests /\ queue[i] # None
    BY <2>1, ElementOfSeq, LenProperties
       DEF WorkInv, InflightIsUnfinishedWork, Requests, None
  <2>4. InflightIsUnfinishedWork'
    <3>1. ToSet(queue) = ToSet(queue') \cup {cur'}
      <4>1. \A i \in DOMAIN queue : i = 1 \/ i - 1 \in DOMAIN queue'
        BY <2>2
      <4>2. \A i \in DOMAIN queue : i = 1 \/ queue[i] = queue'[i - 1]
        BY <2>2, <4>1
      <4> QED
        BY <2>2, <4>1, <4>2 DEF ToSet
    <3>2. phase = "open" => inflight = ToSet(queue)
      BY <2>1 DEF WorkInv, InflightIsUnfinishedWork
    <3>3. cur' \in inflight /\ cur' # None
      BY <2>2, <2>3 DEF WorkInv, Settling
    <3>4. \A i, j \in DOMAIN queue' : i # j => queue'[i] # queue'[j]
      BY <2>2, <2>3
    <3>5. \A i \in DOMAIN queue' : queue'[i] # cur'
      BY <2>2, <2>3
    <3> QED
      BY <2>1, <3>1, <3>2, <3>3, <3>4, <3>5 DEF InflightIsUnfinishedWork
  <2>5. SettledExactlyOnce'
    BY <2>1 DEF WorkInv, SettledExactlyOnce
  <2>6. Settling'
    BY <2>1, <2>2 DEF WorkInv, Settling
  <2> QED
    BY <2>4, <2>5, <2>6 DEF WorkInv
<1>10. CASE WorkerExits \/ Lookup \/ StartServing \/ MarkGenerate
  BY <1>10, KeptSettling
     DEF WorkerExits, Lookup, StartServing, MarkGenerate, At, workVars, toldVars, WorkInv, Settling
<1>11. CASE ModelGone \/ CancelledEarly \/ Finish
  BY <1>11, SettleOnce DEF ModelGone, CancelledEarly, Finish, At, workVars
<1>12. ASSUME NEW what \in {"block", "sync"}, Offer(what)
       PROVE  WorkInv'
  BY <1>12, KeptSettling DEF Offer, At, toldVars, WorkInv, Settling
<1>13. CASE EmitBlock
  BY <1>13, KeptSettling DEF EmitBlock, TellToken, At, WorkInv, Settling
<1>14. CASE PostBlock \/ OfferSync
  BY <1>14, KeptSettling
     DEF PostBlock, OfferSync, TellSync, At, workVars, toldVars, WorkInv, Settling
<1>15. CASE Fail
  BY <1>15, SettleOnce DEF Fail, At
<1>16. CASE Pause
  BY <1>16, KeptSettling DEF Pause, At, workVars, toldVars, WorkInv, Settling
<1>17. CASE BackendReturns
  BY <1>17, KeptSettling DEF BackendReturns, At, workVars, toldVars, WorkInv, Settling
<1>18. CASE ClearAfterServe
  BY <1>18, KeptSettling DEF ClearAfterServe, At, workVars, toldVars, WorkInv, Settling
<1>19. CASE Erase
  <2>1. /\ wpc = "erase" /\ cur \in Requests /\ cur # None /\ finals[cur] = 1
        /\ inflight' = inflight \ {cur} /\ cur' = None /\ ~failed' /\ wpc' = "idle"
        /\ UNCHANGED <<phase, queue, finals>> /\ Submitted' = Submitted
    <3>1. wpc = "erase" /\ cur \in Requests /\ cur # None
      BY <1>19, CurrentRequest DEF Erase, At, WorkInv, TypeInv, AcceptedWork
    <3>2. finals[cur] = 1
      BY <3>1 DEF WorkInv, Settling
    <3>3. ~failed'
      BY <1>19 DEF Erase
    <3> QED
      BY <1>19, <3>1, <3>2, <3>3 DEF Erase, toldVars, Submitted
  <2>2. \A i \in DOMAIN queue : queue[i] # cur /\ queue[i] # None
    <3>1. \A i \in DOMAIN queue : queue[i] \in Requests
      BY ElementOfSeq, LenProperties DEF WorkInv, TypeInv, TypeOK, RequestTypes
    <3> QED
      BY <3>1 DEF WorkInv, InflightIsUnfinishedWork, Requests, None
  <2>3. cur \notin ToSet(queue)
    BY <2>2 DEF ToSet
  <2>4. InflightIsUnfinishedWork'
    BY <2>1, <2>2, <2>3 DEF WorkInv, InflightIsUnfinishedWork
  <2>5. SettledExactlyOnce'
    BY <2>1 DEF WorkInv, SettledExactlyOnce
  <2>6. Settling'
    BY <2>1, <2>2 DEF WorkInv, Settling
  <2> QED
    BY <2>4, <2>5, <2>6 DEF WorkInv
<1>20. ASSUME NEW r \in Requests, CallbackCancels(r) \/ CallbackSyncs(r)
       PROVE  WorkInv'
  BY <1>20, KeptSettling
     DEF CallbackCancels, CallbackSyncs, TellSync, workVars, toldVars, WorkInv, Settling
<1>21. CASE CallbackReturns
  BY <1>21, KeptSettling DEF CallbackReturns, workVars, toldVars, WorkInv, Settling
<1>22. ASSUME NEW m \in Models, Crash(m)
       PROVE  WorkInv'
  BY <1>22, KeptSettling DEF Crash, workVars, toldVars, WorkInv, Settling
<1>23. CASE Over \/ UNCHANGED vars
  BY <1>23, KeptSettling DEF Over, vars, workVars, toldVars, WorkInv, Settling
<1> QED
  BY <1>1, <1>2, <1>3, <1>4, <1>5, <1>6, <1>7, <1>8, <1>9, <1>10, <1>11, <1>12,
     <1>13, <1>14, <1>15, <1>16, <1>17, <1>18, <1>19, <1>20, <1>21, <1>22, <1>23
     DEF Next, CallerContinues, CallerCalls, Worker, Callback

LEMMA WorkInit == Init => WorkInv
<1> SUFFICES ASSUME Init  PROVE WorkInv
  OBVIOUS
<1>1. TypeInv
  BY TypeInit
<1>2. queue = <<>> /\ DOMAIN queue = {} /\ cur = None /\ inflight = {}
  BY DEF Init
<1>3. InflightIsUnfinishedWork
  BY <1>2 DEF InflightIsUnfinishedWork, ToSet
<1>4. SettledExactlyOnce
  BY DEF SettledExactlyOnce, Init, Submitted
<1>5. Settling
  BY <1>2 DEF Settling, Init
<1> QED
  BY <1>1, <1>3, <1>4, <1>5 DEF WorkInv

LEMMA WorkAlways == Spec => []WorkInv
BY WorkInit, WorkStep, PTL DEF Spec

(* What cancel and sync find is exactly the unfinished work, whichever of  *)
(* the two threads ran last (submit, workerLoop, ~Context).                *)
THEOREM InflightCorrect == Spec => []InflightIsUnfinishedWork
<1>1. WorkInv => InflightIsUnfinishedWork
  BY DEF WorkInv
<1> QED
  BY <1>1, WorkAlways, PTL

(* No path through serveOne tells a request its end twice, and none that   *)
(* cancel no longer finds was left untold.                                 *)
THEOREM SettledOnce == Spec => []SettledExactlyOnce
<1>1. WorkInv => SettledExactlyOnce
  BY DEF WorkInv
<1> QED
  BY <1>1, WorkAlways, PTL

-----------------------------------------------------------------------------
(* The view.                                                               *)

(* Everything the consumer hears is a token of the current request, a      *)
(* snapshot or a terminal event.                                           *)
LEMMA Heard ==
  ASSUME TypeInv, [Next]_vars
  PROVE  \/ UNCHANGED <<seq, toldVars>>
         \/ EmitBlock /\ cur \in Requests
         \/ seq' = seq /\ \E r \in Requests : TellSync(r) \/ TellFinal(r)
<1> USE DEF workVars
<1>1. CASE CallerContinues
  BY <1>1 DEF CallerContinues, MarkLoad, BackendRefuses, BackendLoads, EvictNext, Install,
              LoadReturns, Join
<1>2. CASE CallerCalls
  BY <1>2 DEF CallerCalls, LoadModel, UnloadModel, Submit, Cancel, SyncNow, Close
<1>3. CASE Take \/ WorkerExits \/ Lookup \/ StartServing \/ MarkGenerate \/ Pause \/ BackendReturns
           \/ ClearAfterServe \/ Erase
  BY <1>3 DEF Take, WorkerExits, Lookup, StartServing, MarkGenerate, Pause, BackendReturns,
              ClearAfterServe, Erase
<1>4. ASSUME NEW what \in {"block", "sync"}, Offer(what)
      PROVE  UNCHANGED <<seq, toldVars>>
  BY <1>4 DEF Offer
<1>5. CASE ModelGone \/ CancelledEarly \/ Fail \/ Finish \/ OfferSync
  BY <1>5, CurrentRequest DEF ModelGone, CancelledEarly, Fail, Finish, OfferSync, At
<1>6. CASE PostBlock
  BY <1>6, CurrentRequest DEF PostBlock, At
<1>7. CASE EmitBlock
  BY <1>7, CurrentRequest DEF EmitBlock, At
<1>8. CASE Callback
  BY <1>8 DEF Callback, CallbackCancels, CallbackSyncs, CallbackReturns
<1>9. CASE (\E m \in Models : Crash(m)) \/ Over \/ UNCHANGED vars
  BY <1>9 DEF Crash, Over, vars
<1> QED
  BY <1>1, <1>2, <1>3, <1>4, <1>5, <1>6, <1>7, <1>8, <1>9 DEF Next, Worker

(* A consumer that appends tokens and takes snapshots whole never drifts   *)
(* from the engine's own copy (out.block, syncNow, serveOne).              *)
THEOREM ViewCorrect == Spec => []ViewIsExact
<1> DEFINE Inv == TypeInv /\ ViewIsExact
<1>1. Init => Inv
  BY TypeInit DEF Init, ViewIsExact
<1>2. ASSUME Inv, [Next]_vars
      PROVE  Inv'
  <2>1. TypeInv'
    BY <1>2, TypeStep
  <2>2. /\ seq \in [Requests -> Nat] /\ view \in [Requests -> Int]
        /\ \A r \in Requests : view[r] = seq[r]
    BY <1>2 DEF TypeInv, TypeOK, WorkTypes, ToldTypes, ViewIsExact
  <2>3. CASE UNCHANGED <<seq, toldVars>>
    <3>1. seq' = seq /\ view' = view
      BY <2>3 DEF toldVars
    <3> QED
      BY <2>1, <2>2, <3>1 DEF ViewIsExact
  <2>4. CASE EmitBlock /\ cur \in Requests
    <3>1. /\ seq' = [seq EXCEPT ![cur] = @ + 1]
          /\ view' = [view EXCEPT ![cur] = IF @ = seq[cur] THEN @ + 1 ELSE Gap]
      BY <2>4 DEF EmitBlock, TellToken
    <3>2. seq'[cur] = view'[cur]
      <4>1. seq[cur] = view[cur] /\ seq[cur] \in Nat
        BY <2>2, <2>4
      <4>2. view'[cur] = view[cur] + 1
        BY <2>2, <2>4, <3>1, <4>1
      <4>3. seq'[cur] = seq[cur] + 1
        BY <2>2, <2>4, <3>1
      <4> QED
        BY <4>1, <4>2, <4>3
    <3>3. \A r \in Requests : r # cur => seq'[r] = seq[r] /\ view'[r] = view[r]
      BY <2>2, <3>1
    <3> QED
      BY <2>1, <2>2, <3>2, <3>3 DEF ViewIsExact
  <2>5. ASSUME NEW r \in Requests, TellSync(r) \/ TellFinal(r), seq' = seq
        PROVE  ViewIsExact'
    BY <2>2, <2>5 DEF TellSync, TellFinal, ViewIsExact
  <2> QED
    BY <1>2, <2>1, <2>3, <2>4, <2>5, Heard
<1> QED
  BY <1>1, <1>2, PTL DEF Spec

-----------------------------------------------------------------------------
(* Cancellation.                                                           *)

(* Cancellation is never taken back. *)
LEMMA StaysCancelled ==
  ASSUME TypeInv, [Next]_vars, NEW r \in Requests, cancelled[r] # "no"
  PROVE  cancelled'[r] # "no"
<1>0. cancelled \in [Requests -> {"no", "caller", "callback"}]
  BY DEF TypeInv, TypeOK, RequestTypes
<1>1. CASE \E x \in Requests : Cancel(x)
  BY <1>0, <1>1 DEF Cancel
<1>2. CASE Close
  BY <1>0, <1>2 DEF Close
<1>3. CASE \E x \in Requests : CallbackCancels(x)
  BY <1>0, <1>3 DEF CallbackCancels
<1>4. CASE UNCHANGED cancelled
  BY <1>4
<1>5. CASE CallerContinues
  BY <1>5 DEF CallerContinues, MarkLoad, BackendRefuses, BackendLoads, EvictNext, Install,
              LoadReturns, Join, flagVars
<1>6. ASSUME NEW m \in Models,
             LoadModel(m) \/ UnloadModel(m) \/ (\E p \in BOOLEAN : Submit(m, p)) \/ Crash(m)
      PROVE  UNCHANGED cancelled
  BY <1>6 DEF LoadModel, UnloadModel, Submit, Crash, flagVars
<1>7. ASSUME NEW x \in Requests, SyncNow(x) \/ CallbackSyncs(x)
      PROVE  UNCHANGED cancelled
  BY <1>7 DEF SyncNow, CallbackSyncs, flagVars
<1>8. CASE Take \/ WorkerExits \/ Lookup \/ ModelGone \/ CancelledEarly \/ StartServing
           \/ MarkGenerate \/ EmitBlock \/ PostBlock \/ OfferSync
  BY <1>8 DEF Take, WorkerExits, Lookup, ModelGone, CancelledEarly, StartServing, MarkGenerate,
              EmitBlock, PostBlock, OfferSync, flagVars
<1>9. CASE Fail \/ Pause \/ BackendReturns \/ ClearAfterServe \/ Finish \/ Erase
           \/ CallbackReturns \/ Offer("block") \/ Offer("sync")
  BY <1>9 DEF Fail, Pause, BackendReturns, ClearAfterServe, Finish, Erase,
              CallbackReturns, Offer, flagVars
<1>10. CASE Over \/ UNCHANGED vars
  BY <1>10 DEF Over, vars, flagVars
<1> QED
  BY <1>1, <1>2, <1>3, <1>4, <1>5, <1>6, <1>7, <1>8, <1>9, <1>10
     DEF Next, CallerCalls, Worker, Callback

(* The worker comes to emit a block only from out.block's check of the flag. *)
LEMMA BlockIsOffered ==
  ASSUME TypeInv, [Next]_vars
  PROVE  wpc' # "block" \/ Offer("block") \/ (wpc = "block" /\ cur' = cur)
<1>1. CASE CallerContinues
  BY <1>1 DEF CallerContinues, MarkLoad, BackendRefuses, BackendLoads, EvictNext, Install,
              LoadReturns, Join
<1>2. CASE CallerCalls
  BY <1>2 DEF CallerCalls, LoadModel, UnloadModel, Submit, Cancel, SyncNow, Close
<1>3. CASE Take \/ WorkerExits \/ Lookup \/ ModelGone \/ CancelledEarly \/ StartServing
           \/ MarkGenerate \/ EmitBlock \/ PostBlock \/ OfferSync
  BY <1>3 DEF Take, WorkerExits, Lookup, ModelGone, CancelledEarly, StartServing, MarkGenerate,
              EmitBlock, PostBlock, OfferSync
<1>4. CASE Fail \/ Pause \/ BackendReturns \/ ClearAfterServe \/ Finish \/ Erase
           \/ Offer("sync")
  BY <1>4 DEF Fail, Pause, BackendReturns, ClearAfterServe, Finish, Erase, Offer
<1>5. CASE Callback \/ (\E m \in Models : Crash(m)) \/ Over \/ UNCHANGED vars
  BY <1>5 DEF Callback, CallbackCancels, CallbackSyncs, CallbackReturns, Crash, Over, vars
<1> QED
  BY <1>1, <1>2, <1>3, <1>4, <1>5 DEF Next, Worker

(* No token is delivered after a cancel that has not happened, and the     *)
(* block that has passed its check of the flag is the first one after it.  *)
TailStart ==
  /\ \A r \in Requests : cancelled[r] = "no" => tail[r] = 0
  /\ wpc = "block" => tail[cur] = 0

(* A cancel from the caller's thread lets at most one more token through,  *)
(* the one past its check (out.block, Context::cancel).                    *)
THEOREM CancelStops == Spec => []CancelStopsStream
<1> DEFINE Inv == TypeInv /\ CancelStopsStream /\ TailStart
<1>1. Init => Inv
  <2> SUFFICES ASSUME Init  PROVE Inv
    OBVIOUS
  <2>1. \A r \in Requests : tail[r] = 0
    BY DEF Init
  <2>2. wpc # "block"
    BY DEF Init
  <2> QED
    BY <2>1, <2>2, TypeInit DEF CancelStopsStream, TailStart
<1>2. ASSUME Inv, [Next]_vars
      PROVE  Inv'
  <2>1. TypeInv'
    BY <1>2, TypeStep
  <2>2. tail \in [Requests -> Nat]
    BY <1>2 DEF TypeInv, TypeOK, ToldTypes
  <2>3. \A r \in Requests : cancelled[r] # "no" => cancelled'[r] # "no"
    BY <1>2, StaysCancelled
  <2>4. CASE tail' = tail
    <3>1. CancelStopsStream'
      BY <1>2, <2>4 DEF CancelStopsStream
    <3>2. wpc' = "block" => tail'[cur'] = 0
      <4>1. CASE Offer("block")
        <5>1. cancelled[cur] = "no" /\ cur' = cur /\ cur \in Requests
          BY <1>2, <4>1, CurrentRequest DEF Offer, At
        <5> QED
          BY <1>2, <2>4, <5>1 DEF TailStart
      <4>2. CASE wpc = "block" /\ cur' = cur
        BY <1>2, <2>4, <4>2 DEF TailStart
      <4>3. \/ wpc' # "block" \/ Offer("block") \/ (wpc = "block" /\ cur' = cur)
        BY <1>2, BlockIsOffered
      <4> QED
        BY <4>1, <4>2, <4>3
    <3>3. \A r \in Requests : cancelled'[r] = "no" => tail'[r] = 0
      BY <1>2, <2>3, <2>4 DEF TailStart
    <3> QED
      BY <2>1, <3>1, <3>2, <3>3 DEF TailStart
  <2>5. CASE EmitBlock /\ cur \in Requests
    <3>1. /\ tail' = [tail EXCEPT ![cur] = IF cancelled[cur] = "no" THEN @ ELSE @ + 1]
          /\ wpc = "block" /\ wpc' = "posted" /\ cancelled' = cancelled
      BY <2>5 DEF EmitBlock, TellToken, At, flagVars
    <3>2. tail[cur] = 0
      BY <1>2, <3>1 DEF TailStart
    <3>3. tail'[cur] = (IF cancelled[cur] = "no" THEN 0 ELSE 1)
      BY <2>2, <2>5, <3>1, <3>2
    <3>4. \A r \in Requests : r # cur => tail'[r] = tail[r]
      BY <2>2, <3>1
    <3> QED
      BY <1>2, <2>1, <3>1, <3>3, <3>4 DEF CancelStopsStream, TailStart
  <2>6. tail' = tail \/ (EmitBlock /\ cur \in Requests)
    BY <1>2, Heard DEF toldVars, TellSync, TellFinal
  <2> QED
    BY <2>4, <2>5, <2>6
<1>3. Inv => CancelStopsStream
  OBVIOUS
<1> QED
  BY <1>1, <1>2, <1>3, PTL DEF Spec

-----------------------------------------------------------------------------
(* Silence.                                                                *)

(* A context is closed only once its worker has exited, and the worker     *)
(* never waits or exits inside the callback (~Context, workerLoop).        *)
Quiet ==
  /\ phase = "closed" => wpc = "exited"
  /\ wpc \in {"idle", "exited"} => ~cb

LEMMA QuietStep ==
  ASSUME Quiet, [Next]_vars
  PROVE  Quiet'
<1>1. CASE CallerContinues \/ CallerCalls
  <2>1. UNCHANGED <<wpc, cb>> /\ (phase' = "closed" => phase = "closed" \/ wpc = "exited")
    BY <1>1 DEF CallerContinues, MarkLoad, BackendRefuses, BackendLoads, EvictNext, Install,
                LoadReturns, Join, CallerCalls, LoadModel, UnloadModel, Submit, Cancel,
                SyncNow, Close
  <2> QED
    BY <2>1 DEF Quiet
<1>2. CASE Take \/ Lookup \/ ModelGone \/ CancelledEarly \/ StartServing
           \/ MarkGenerate \/ Offer("block") \/ Offer("sync") \/ EmitBlock \/ PostBlock \/ OfferSync
           \/ Fail \/ Pause \/ BackendReturns \/ ClearAfterServe \/ Finish
  <2>1. phase' = phase /\ wpc # "exited" /\ wpc' \notin {"idle", "exited"}
    BY <1>2 DEF Take, Lookup, ModelGone, CancelledEarly, StartServing, MarkGenerate, Offer, EmitBlock,
                PostBlock, OfferSync, Fail, Pause, BackendReturns, ClearAfterServe,
                Finish, At
  <2> QED
    BY <2>1 DEF Quiet
<1>3. CASE WorkerExits \/ Erase
  <2>1. phase' = phase /\ wpc # "exited" /\ cb' = cb
    BY <1>3 DEF WorkerExits, Erase, At
  <2>2. ~cb
    BY <1>3 DEF WorkerExits, Erase, At
  <2> QED
    BY <2>1, <2>2 DEF Quiet
<1>4. CASE Callback
  <2>1. UNCHANGED <<phase, wpc>>
    BY <1>4 DEF Callback, CallbackCancels, CallbackSyncs, CallbackReturns
  <2>2. cb
    BY <1>4 DEF Callback, CallbackCancels, CallbackSyncs, CallbackReturns
  <2> QED
    BY <2>1, <2>2 DEF Quiet
<1>5. CASE (\E m \in Models : Crash(m)) \/ Over \/ UNCHANGED vars
  <2>1. UNCHANGED <<wpc, cb>> /\ (phase' = "closed" => phase = "closed")
    BY <1>5 DEF Crash, Over, vars
  <2> QED
    BY <2>1 DEF Quiet
<1> QED
  BY <1>1, <1>2, <1>3, <1>4, <1>5 DEF Next, Worker

(* Closing joins the worker, so a closed context tells nobody anything.    *)
THEOREM ClosedIsSilent == Spec => SilentAfterClose
<1>1. Init => Quiet
  BY DEF Init, Quiet
<1>2. Quiet /\ [Next]_vars => Quiet'
  BY QuietStep
<1>3. ASSUME Quiet, [Next]_vars, phase = "closed"
      PROVE  UNCHANGED <<view, finals, tail, cb>>
  <2> USE <1>3 DEF Quiet
  <2>1. ~CallerContinues /\ ~CallerCalls
    BY DEF CallerContinues, MarkLoad, BackendRefuses, BackendLoads, EvictNext, Install, LoadReturns,
           Join, CallerCalls, LoadModel, UnloadModel, Submit, Cancel, SyncNow, Close, CallerFree
  <2>2. ~Worker
    BY DEF Worker, Take, WorkerExits, Lookup, ModelGone, CancelledEarly, StartServing, MarkGenerate, Offer,
           EmitBlock, PostBlock, OfferSync, Fail, Pause, BackendReturns, ClearAfterServe,
           Finish, Erase, At
  <2>3. ~Callback
    BY DEF Callback, CallbackCancels, CallbackSyncs, CallbackReturns
  <2>4. (\E m \in Models : Crash(m)) => UNCHANGED <<view, finals, tail, cb>>
    BY DEF Crash, toldVars
  <2>5. Over \/ UNCHANGED vars => UNCHANGED <<view, finals, tail, cb>>
    BY DEF Over, vars, toldVars
  <2> QED
    BY <2>1, <2>2, <2>3, <2>4, <2>5 DEF Next
<1> QED
  BY <1>1, <1>2, <1>3, PTL DEF Spec, SilentAfterClose

-----------------------------------------------------------------------------
(* The refinement.                                                         *)

(* Nothing flows before a request is taken. *)
SeqStart ==
  /\ \A r \in Requests \ Submitted : seq[r] = 0
  /\ \A i \in DOMAIN queue : seq[queue[i]] = 0

StreamInv == WorkInv /\ SeqStart /\ Quiet

LEMMA EnqueueHolds ==
  ASSUME queue \in Seq(Requests), NEW r \in Requests, NEW p \in BOOLEAN
  PROVE  \A i \in DOMAIN Enqueue(r, p) :
           Enqueue(r, p)[i] = r \/ \E j \in DOMAIN queue : Enqueue(r, p)[i] = queue[j]
<1>1. PICK k \in 1 .. Len(queue) + 1 : InsertedAt(Enqueue(r, p), queue, r, k)
  BY EnqueueInserts
<1>2. /\ DOMAIN queue = 1 .. Len(queue) /\ Len(queue) \in Nat
      /\ DOMAIN Enqueue(r, p) = 1 .. Len(queue) + 1
  BY EnqueueInserts, LenProperties
<1> QED
  BY <1>1, <1>2 DEF InsertedAt

(* Four steps touch the queue or a request's output. *)
LEMMA QueueChanges ==
  ASSUME [Next]_vars
  PROVE  \/ EmitBlock \/ (\E m \in Models, p \in BOOLEAN : Submit(m, p)) \/ Take \/ Close
         \/ UNCHANGED <<nextRequestId, interactive, queue, seq>>
<1> USE DEF workVars, requestVars
<1>1. CASE CallerContinues
  BY <1>1 DEF CallerContinues, MarkLoad, BackendRefuses, BackendLoads, EvictNext, Install,
              LoadReturns, Join
<1>2. CASE CallerCalls
  BY <1>2 DEF CallerCalls, LoadModel, UnloadModel, Cancel, SyncNow
<1>3. CASE WorkerExits \/ Lookup \/ ModelGone \/ CancelledEarly \/ StartServing
           \/ MarkGenerate \/ PostBlock \/ OfferSync \/ Offer("block") \/ Offer("sync")
  BY <1>3 DEF WorkerExits, Lookup, ModelGone, CancelledEarly, StartServing, MarkGenerate, PostBlock,
              OfferSync, Offer
<1>4. CASE Fail \/ Pause \/ BackendReturns \/ ClearAfterServe \/ Finish \/ Erase
  BY <1>4 DEF Fail, Pause, BackendReturns, ClearAfterServe, Finish, Erase
<1>5. CASE Callback \/ (\E m \in Models : Crash(m)) \/ Over \/ UNCHANGED vars
  BY <1>5 DEF Callback, CallbackCancels, CallbackSyncs, CallbackReturns, Crash, Over, vars
<1> QED
  BY <1>1, <1>2, <1>3, <1>4, <1>5 DEF Next, Worker

LEMMA SeqStartStep ==
  ASSUME StreamInv, [Next]_vars
  PROVE  SeqStart'
<1>1. seq \in [Requests -> Nat] /\ queue \in Seq(Requests) /\ queue \in Seq(Submitted)
  BY DEF StreamInv, WorkInv, TypeInv, TypeOK, WorkTypes, RequestTypes, AcceptedWork
<1>2. CASE EmitBlock
  <2>1. /\ cur \in Requests /\ cur \in Submitted
        /\ \A i \in DOMAIN queue : queue[i] # cur /\ queue[i] \in Requests
    BY <1>1, <1>2, CurrentRequest, ElementOfSeq, LenProperties
       DEF EmitBlock, At, StreamInv, WorkInv, InflightIsUnfinishedWork
  <2>2. seq' = [seq EXCEPT ![cur] = @ + 1] /\ queue' = queue /\ Submitted' = Submitted
    BY <1>2 DEF EmitBlock, requestVars, Submitted
  <2>3. \A r \in Requests : r # cur => seq'[r] = seq[r]
    BY <1>1, <2>2
  <2> QED
    BY <2>1, <2>2, <2>3 DEF StreamInv, SeqStart
<1>3. ASSUME NEW m \in Models, NEW p \in BOOLEAN, Submit(m, p)
      PROVE  SeqStart'
  <2>1. /\ Submitted' = Submitted \cup {nextRequestId} /\ seq' = seq
        /\ queue' = Enqueue(nextRequestId, p) /\ nextRequestId \in Requests
        /\ nextRequestId \notin Submitted
    BY <1>3, ContextAssumption
       DEF Submit, Submitted, StreamInv, WorkInv, TypeInv, TypeOK, RequestTypes,
           Requests, workVars
  <2>2. seq[nextRequestId] = 0
    BY <2>1 DEF StreamInv, SeqStart
  <2>3. \A i \in DOMAIN queue' :
          queue'[i] = nextRequestId \/ \E j \in DOMAIN queue : queue'[i] = queue[j]
    BY <1>1, <2>1, EnqueueHolds
  <2> QED
    BY <2>1, <2>2, <2>3 DEF StreamInv, SeqStart
<1>4. CASE Take
  <2>1. /\ queue # <<>> /\ queue' = Tail(queue) /\ seq' = seq /\ Submitted' = Submitted
    BY <1>4 DEF Take, Submitted, workVars
  <2>2. \A i \in DOMAIN queue' : i + 1 \in DOMAIN queue /\ queue'[i] = queue[i + 1]
    BY <1>1, <2>1, HeadTailProperties, LenProperties, EmptySeq
  <2> QED
    BY <2>1, <2>2 DEF StreamInv, SeqStart
<1>5. CASE Close
  BY <1>5 DEF Close, StreamInv, SeqStart, Submitted, workVars
<1>6. CASE UNCHANGED <<nextRequestId, queue, seq>>
  BY <1>6 DEF StreamInv, SeqStart, Submitted
<1>7. \/ EmitBlock \/ (\E m \in Models, p \in BOOLEAN : Submit(m, p)) \/ Take \/ Close
      \/ UNCHANGED <<nextRequestId, queue, seq>>
  BY QueueChanges
<1> QED
  BY <1>2, <1>3, <1>4, <1>5, <1>6, <1>7

LEMMA StageIs ==
  ASSUME NEW r \in Requests
  PROVE  /\ r \notin Submitted => Stage(r) = "new"
         /\ r \in Submitted /\ finals[r] = 0 /\ ~Gone => Stage(r) = "live"
         /\ r \in Submitted /\ finals[r] = 0 /\ Gone => Stage(r) = "dropped"
         /\ r \in Submitted /\ finals[r] # 0 /\ r \in inflight => Stage(r) = "settled"
         /\ r \in Submitted /\ finals[r] # 0 /\ r \notin inflight => Stage(r) = "retired"
BY DEF Stage, Gone

(* A step that leaves the requests' life alone is a stutter. *)
LEMMA Stutter ==
  ASSUME UNCHANGED <<nextRequestId, inflight, finals, seq>>, Gone' <=> Gone,
         Flowing' = Flowing
  PROVE  UNCHANGED Stream!streamVars
<1>1. \A r \in Requests : Stage(r)' = Stage(r)
  BY DEF Stage, Gone, Submitted
<1> QED
  BY <1>1 DEF Stream!streamVars

LEMMA FlowKept ==
  ASSUME UNCHANGED <<cur, seq, finals>>, Gone' <=> Gone
  PROVE  Flowing' = Flowing
BY DEF Flowing

(* The steps that are not stutters of RequestStream. *)
LEMMA Visible ==
  ASSUME [Next]_vars
  PROVE  \/ \E m \in Models, p \in BOOLEAN : Submit(m, p)
         \/ Take \/ EmitBlock
         \/ ModelGone \/ CancelledEarly \/ Fail \/ Finish
         \/ Erase \/ Join \/ \E m \in Models : Crash(m)
         \/ /\ UNCHANGED <<cur, seq, finals, nextRequestId, inflight>>
            /\ Gone' <=> Gone
<1> USE DEF workVars, requestVars, toldVars, Gone
<1>1. CASE CallerContinues
  BY <1>1 DEF CallerContinues, MarkLoad, BackendRefuses, BackendLoads, EvictNext, Install,
              LoadReturns
<1>2. CASE CallerCalls
  BY <1>2 DEF CallerCalls, LoadModel, UnloadModel, Cancel, SyncNow, Close, CallerFree
<1>3. CASE WorkerExits \/ Lookup \/ StartServing \/ MarkGenerate \/ PostBlock \/ OfferSync
           \/ Offer("block") \/ Offer("sync") \/ Pause \/ BackendReturns \/ ClearAfterServe
  BY <1>3 DEF WorkerExits, Lookup, StartServing, MarkGenerate, PostBlock, OfferSync, Offer, Pause,
              BackendReturns, ClearAfterServe, TellSync
<1>4. CASE Callback
  BY <1>4 DEF Callback, CallbackCancels, CallbackSyncs, CallbackReturns, TellSync
<1>5. CASE Over \/ UNCHANGED vars
  BY <1>5 DEF Over, vars
<1> QED
  BY <1>1, <1>2, <1>3, <1>4, <1>5 DEF Next, Worker

(* Every step of the context is a step of RequestStream or a stutter. *)
LEMMA StreamStep ==
  ASSUME StreamInv, StreamInv', [Next]_vars
  PROVE  [Stream!StreamNext]_(Stream!streamVars)
<1>0. /\ finals \in [Requests -> Nat] /\ seq \in [Requests -> Nat]
      /\ inflight \subseteq Requests
      /\ cur # None => cur \in Requests /\ cur \in Submitted
      /\ None \notin Requests
  BY DEF StreamInv, WorkInv, TypeInv, TypeOK, ToldTypes, WorkTypes, RequestTypes,
         ThreadTypes, AcceptedWork, Requests, None
<1>1. ASSUME NEW m \in Models, NEW p \in BOOLEAN, Submit(m, p)
      PROVE  Stream!StreamNext
  <2>1. nextRequestId \in Requests
    BY <1>1 DEF Submit, StreamInv, WorkInv, TypeInv, TypeOK, RequestTypes, Requests
  <2>2. PICK n \in Requests : n = nextRequestId
    BY <2>1
  <2>3. /\ n \notin Submitted /\ Submitted' = Submitted \cup {n}
        /\ inflight' = inflight \cup {n}
        /\ UNCHANGED <<phase, finals, seq, cur>> /\ ~Gone
    BY <1>1, <2>2
       DEF Submit, CallerFree, Gone, Submitted, Requests, workVars, toldVars
  <2>4. finals[n] = 0
    BY <2>2, <2>3 DEF StreamInv, WorkInv, Settling
  <2>5. Stage(n) = "new" /\ Stage(n)' = "live"
    BY <2>3, <2>4 DEF Stage, Gone
  <2>6. \A r \in Requests : r # n => Stage(r)' = Stage(r)
    BY <2>3 DEF Stage, Gone
  <2>7. Flowing' = Flowing
    BY <2>3, FlowKept DEF Gone
  <2>8. Stream!Accept(n)
    BY <2>3, <2>5, <2>6, <2>7 DEF Stream!Accept
  <2> QED
    BY <2>8 DEF Stream!StreamNext
<1>2. CASE Take
  <2>1. /\ UNCHANGED <<phase, nextRequestId, inflight, finals, seq>>
        /\ cur = None /\ cur' = Head(queue) /\ queue # <<>>
    BY <1>2 DEF Take, At, StreamInv, WorkInv, TypeInv, AcceptedWork, workVars, toldVars
  <2>2. seq[cur'] = 0
    <3>1. 1 \in DOMAIN queue /\ Head(queue) = queue[1]
      BY <2>1, EmptySeq, LenProperties, HeadTailProperties
         DEF StreamInv, WorkInv, TypeInv, AcceptedWork
    <3> QED
      BY <2>1, <3>1 DEF StreamInv, SeqStart
  <2>3. Flowing = None /\ Flowing' = None
    BY <2>1, <2>2 DEF Flowing
  <2> QED
    BY <2>1, <2>3, Stutter DEF Gone
<1>3. CASE EmitBlock
  <2>1. /\ cur \in Requests /\ cur \in Submitted /\ cur # None
        /\ seq' = [seq EXCEPT ![cur] = @ + 1]
        /\ UNCHANGED <<phase, nextRequestId, inflight, finals, cur>>
        /\ ~Gone /\ wpc = "block"
    BY <1>3, <1>0, CurrentRequest
       DEF EmitBlock, At, Quiet, Gone, TellToken, StreamInv, WorkInv, requestVars
  <2>2. finals[cur] = 0
    BY <2>1 DEF StreamInv, WorkInv, Settling, PastTerminal
  <2>3. \A r \in Requests : Stage(r)' = Stage(r)
    BY <2>1 DEF Stage, Submitted
  <2>4. Stage(cur) = "live"
    BY <2>1, <2>2, StageIs
  <2>5. Flowing \in {None, cur} /\ Flowing' = cur
    <3>1. seq'[cur] > 0
      BY <1>0, <2>1
    <3> QED
      BY <2>1, <2>2, <3>1 DEF Flowing, Gone
  <2> QED
    BY <2>1, <2>3, <2>4, <2>5 DEF Stream!Token, Stream!StreamNext, Stream!Nobody, None
<1>4. CASE ModelGone \/ CancelledEarly \/ Fail \/ Finish
  <2>1. /\ cur \in Requests /\ cur \in Submitted /\ cur # None
        /\ finals' = [finals EXCEPT ![cur] = @ + 1]
        /\ UNCHANGED <<phase, nextRequestId, inflight, seq, cur>>
        /\ ~Gone /\ wpc \in {"lookup", "check", "serve", "finish"}
    BY <1>4, <1>0, CurrentRequest
       DEF ModelGone, CancelledEarly, Fail, Finish, At, Quiet, Gone, TellFinal,
           StreamInv, WorkInv, requestVars, workVars
  <2>2. finals[cur] = 0 /\ cur \in inflight
    BY <2>1 DEF StreamInv, WorkInv, Settling, PastTerminal, InflightIsUnfinishedWork
  <2>3. finals'[cur] = 1 /\ \A r \in Requests : r # cur => finals'[r] = finals[r]
    BY <1>0, <2>1, <2>2
  <2>4. Stage(cur) = "live" /\ Stage(cur)' = "settled"
    BY <2>1, <2>2, <2>3 DEF Stage, Submitted, Gone
  <2>5. \A r \in Requests : r # cur => Stage(r)' = Stage(r)
    BY <2>1, <2>3 DEF Stage, Submitted
  <2>6. Flowing \in {None, cur} /\ Flowing' = None
    BY <2>1, <2>3 DEF Flowing
  <2> QED
    BY <2>1, <2>4, <2>5, <2>6 DEF Stream!Settle, Stream!StreamNext, Stream!Nobody, None
<1>5. CASE Erase
  <2>1. PICK c \in Requests : c = cur
    BY <1>5, CurrentRequest DEF Erase, At, StreamInv, WorkInv
  <2>2. /\ c \in Submitted /\ c # None /\ cur' = None
        /\ inflight' = inflight \ {c} /\ wpc = "erase"
        /\ UNCHANGED <<phase, nextRequestId, finals, seq>>
    BY <1>0, <1>5, <2>1 DEF Erase, At, toldVars
  <2>3. finals[c] = 1 /\ c \in inflight
    BY <2>1, <2>2 DEF StreamInv, WorkInv, Settling, PastTerminal, InflightIsUnfinishedWork
  <2>4. Stage(c) = "settled" /\ Stage(c)' = "retired"
    BY <2>2, <2>3 DEF Stage, Submitted
  <2>5. \A r \in Requests : r # c => Stage(r)' = Stage(r)
    BY <2>2 DEF Stage, Submitted
  <2>6. Flowing = None /\ Flowing' = None
    BY <2>1, <2>2, <2>3 DEF Flowing
  <2> QED
    BY <2>2, <2>4, <2>5, <2>6 DEF Stream!Retire, Stream!StreamNext
<1>6. CASE Join \/ \E m \in Models : Crash(m)
  <2>1. /\ UNCHANGED <<nextRequestId, finals, seq, inflight, cur>>
        /\ Gone'
    BY <1>6 DEF Join, Crash, Gone, requestVars, workVars, toldVars
  <2>2. \A r \in Requests :
          Stage(r)' = IF Stage(r) = "live" THEN "dropped" ELSE Stage(r)
    BY <2>1 DEF Stage, Submitted, Gone
  <2>3. Flowing' = None
    BY <2>1 DEF Flowing
  <2> QED
    BY <2>1, <2>2, <2>3 DEF Stream!Drop, Stream!StreamNext, Stream!Nobody, None
<1>7. CASE /\ UNCHANGED <<cur, seq, finals, nextRequestId, inflight>>
           /\ Gone' <=> Gone
  BY <1>7, FlowKept, Stutter
<1> QED
  BY <1>1, <1>2, <1>3, <1>4, <1>5, <1>6, <1>7, Visible

LEMMA StreamStart ==
  ASSUME Init
  PROVE  StreamInv /\ Stream!StreamInit
<1>1. /\ Submitted = {} /\ queue = <<>> /\ cur = None
      /\ \A r \in Requests : seq[r] = 0
  BY DEF Init, Submitted
<1>2. StreamInv
  BY <1>1, WorkInit DEF StreamInv, SeqStart, Quiet, Init
<1>3. \A r \in Requests : Stage(r) = "new"
  BY <1>1, StageIs
<1>4. Flowing = None
  BY <1>1 DEF Flowing
<1>5. seq = [r \in Requests |-> 0]
  BY DEF Init
<1> QED
  BY <1>2, <1>3, <1>4, <1>5 DEF Stream!StreamInit, Stream!Nobody, None

(* The context implements RequestStream: generation is serial and never    *)
(* preempted, nothing is generated after a request settles, and a request  *)
(* is forgotten only once it has (despia_ai.h, submit, workerLoop).        *)
THEOREM StreamImplemented == Spec => ImplementsStream
<1>1. StreamInv /\ [Next]_vars => StreamInv'
  BY SeqStartStep, WorkStep, QuietStep DEF StreamInv
<1>2. Spec => []StreamInv
  BY <1>1, StreamStart, PTL DEF Spec
<1>3. StreamInv /\ StreamInv' /\ [Next]_vars => [Stream!StreamNext]_(Stream!streamVars)
  BY StreamStep
<1>4. Init => Stream!StreamInit
  BY StreamStart
<1> QED
  BY <1>2, <1>3, <1>4, PTL DEF Spec, ImplementsStream, Stream!StreamSpec

-----------------------------------------------------------------------------
(* The queue.                                                              *)

(* a may wait ahead of b, when the interactive requests are those of I.    *)
MayLead(a, b, I) ==
  \/ a \in I /\ b \notin I
  \/ (a \in I <=> b \in I) /\ a < b

(* A request submitted now goes behind every waiting one it may not pass.  *)
LEMMA SubmitKeepsOrder ==
  ASSUME TypeInv, interactive \subseteq Submitted, QueueOrder,
         NEW m \in Models, NEW p \in BOOLEAN, Submit(m, p)
  PROVE  QueueOrder'
<1> DEFINE n == nextRequestId
           k == PlaceOf(p)
<1>1. /\ n \in Requests /\ n \in Nat /\ n \notin interactive
      /\ queue \in Seq(Requests) /\ queue \in Seq(Submitted) /\ Len(queue) \in Nat
      /\ DOMAIN queue = 1 .. Len(queue)
  BY LenProperties DEF Submit, TypeInv, TypeOK, RequestTypes, AcceptedWork, Submitted, Requests
<1>2. /\ queue' = Enqueue(n, p)
      /\ interactive' = IF p THEN interactive \cup {n} ELSE interactive
  BY DEF Submit
<1>3. /\ queue' \in Seq(Requests) /\ Len(queue') = Len(queue) + 1
      /\ k \in 1 .. Len(queue) + 1
      /\ InsertedAt(queue', queue, n, k)
  BY <1>1, <1>2, EnqueueInserts
<1>4. /\ \A i \in 1 .. k - 1 : p => queue[i] \in interactive
      /\ k # Len(queue) + 1 => p /\ queue[k] \notin interactive
  BY <1>1, PlaceFound DEF PlaceOf
<1> HIDE DEF k
<1>5. \A i \in DOMAIN queue :
        /\ queue[i] \in Nat /\ queue[i] < n
        /\ queue[i] \in interactive' <=> queue[i] \in interactive
  <2>1. \A i \in DOMAIN queue : queue[i] \in Submitted
    BY <1>1, ElementOfSeq
  <2> QED
    BY <1>1, <1>2, <2>1 DEF Submitted
<1>6. n \in interactive' <=> p
  BY <1>1, <1>2
<1>7. \A i, j \in DOMAIN queue : i < j => MayLead(queue[i], queue[j], interactive)
  BY DEF QueueOrder, MayLead
<1>8. \A j \in k .. Len(queue) : p /\ queue[j] \notin interactive
  <2> SUFFICES ASSUME NEW j \in k .. Len(queue)
               PROVE  p /\ queue[j] \notin interactive
    OBVIOUS
  <2>1. p /\ queue[k] \notin interactive
    BY <1>1, <1>3, <1>4
  <2>2. CASE k < j
    BY <1>1, <1>3, <1>7, <2>1, <2>2 DEF MayLead
  <2> QED
    BY <1>1, <1>3, <2>1, <2>2
<1>9. ASSUME NEW i \in 1 .. Len(queue) + 1, NEW j \in 1 .. Len(queue) + 1, i < j
      PROVE  MayLead(queue'[i], queue'[j], interactive')
  <2>1. \A x \in 1 .. Len(queue) + 1 :
          queue'[x] = IF x < k THEN queue[x] ELSE IF x = k THEN n ELSE queue[x - 1]
    BY <1>3 DEF InsertedAt
  <2>2. CASE j < k
    <3>1. queue'[i] = queue[i] /\ queue'[j] = queue[j] /\ i \in DOMAIN queue /\ j \in DOMAIN queue
      BY <1>1, <1>3, <1>9, <2>1, <2>2
    <3> QED
      BY <1>5, <1>7, <1>9, <3>1 DEF MayLead
  <2>3. CASE j = k
    <3>1. queue'[i] = queue[i] /\ queue'[j] = n /\ i \in DOMAIN queue /\ i \in 1 .. k - 1
      BY <1>1, <1>3, <1>9, <2>1, <2>3
    <3> QED
      BY <1>4, <1>5, <1>6, <3>1 DEF MayLead
  <2>4. CASE i = k
    <3>1. queue'[i] = n /\ queue'[j] = queue[j - 1]
      BY <1>1, <1>3, <1>9, <2>1, <2>4
    <3>2. j - 1 \in DOMAIN queue /\ j - 1 \in k .. Len(queue)
      BY <1>1, <1>3, <1>9, <2>4
    <3> QED
      BY <1>5, <1>6, <1>8, <3>1, <3>2 DEF MayLead
  <2>5. CASE i < k /\ k < j
    <3>1. queue'[i] = queue[i] /\ queue'[j] = queue[j - 1]
      BY <1>1, <1>3, <1>9, <2>1, <2>5
    <3>2. i \in DOMAIN queue /\ j - 1 \in DOMAIN queue /\ i < j - 1
      BY <1>1, <1>3, <1>9, <2>5
    <3> QED
      BY <1>5, <1>7, <3>1, <3>2 DEF MayLead
  <2>6. CASE k < i
    <3>1. queue'[i] = queue[i - 1] /\ queue'[j] = queue[j - 1]
      BY <1>1, <1>3, <1>9, <2>1, <2>6
    <3>2. i - 1 \in DOMAIN queue /\ j - 1 \in DOMAIN queue /\ i - 1 < j - 1
      BY <1>1, <1>3, <1>9, <2>6
    <3> QED
      BY <1>5, <1>7, <3>1, <3>2 DEF MayLead
  <2> QED
    BY <1>1, <1>3, <1>9, <2>2, <2>3, <2>4, <2>5, <2>6
<1>10. DOMAIN queue' = 1 .. Len(queue) + 1
  BY <1>3, LenProperties
<1> QED
  BY <1>9, <1>10 DEF QueueOrder, MayLead

(* Taking the head leaves the order of the rest. *)
LEMMA TakeKeepsOrder ==
  ASSUME TypeInv, QueueOrder, Take
  PROVE  QueueOrder'
<1>1. queue \in Seq(Requests) /\ queue # <<>> /\ queue' = Tail(queue) /\ interactive' = interactive
  BY DEF TypeInv, TypeOK, RequestTypes, Take
<1>2. /\ Len(queue) \in Nat \ {0} /\ DOMAIN queue = 1 .. Len(queue)
      /\ Len(queue') = Len(queue) - 1 /\ DOMAIN queue' = 1 .. Len(queue) - 1
      /\ \A i \in 1 .. Len(queue) - 1 : queue'[i] = queue[i + 1]
  BY <1>1, HeadTailProperties, LenProperties, EmptySeq
<1>3. ASSUME NEW i \in DOMAIN queue', NEW j \in DOMAIN queue', i < j
      PROVE  MayLead(queue'[i], queue'[j], interactive')
  <2>1. i + 1 \in DOMAIN queue /\ j + 1 \in DOMAIN queue /\ i + 1 < j + 1
    BY <1>2, <1>3
  <2>2. queue'[i] = queue[i + 1] /\ queue'[j] = queue[j + 1]
    BY <1>2, <1>3
  <2> QED
    BY <1>1, <2>1, <2>2 DEF QueueOrder, MayLead
<1> QED
  BY <1>3 DEF QueueOrder, MayLead

(* Priority is a position: interactive requests wait ahead of background   *)
(* ones, and each kind in the order of submission (submit, workerLoop).    *)
THEOREM QueueOrdered == Spec => []QueueOrder
<1> DEFINE Inv == TypeInv /\ interactive \subseteq Submitted /\ QueueOrder
<1>1. Init => Inv
  <2> SUFFICES ASSUME Init PROVE Inv
    OBVIOUS
  <2>1. interactive = {} /\ queue = <<>> /\ DOMAIN queue = {}
    BY DEF Init
  <2> QED
    BY <2>1, TypeInit DEF QueueOrder
<1>2. ASSUME Inv, [Next]_vars
      PROVE  Inv'
  <2>1. TypeInv'
    BY <1>2, TypeStep
  <2>2. ASSUME NEW m \in Models, NEW p \in BOOLEAN, Submit(m, p)
        PROVE  Inv'
    <3>1. nextRequestId \in Nat /\ Submitted' = Submitted \cup {nextRequestId}
      BY <1>2, <2>2 DEF Submit, Submitted, TypeInv, TypeOK, RequestTypes
    <3>2. (interactive \subseteq Submitted)'
      BY <1>2, <2>2, <3>1 DEF Submit
    <3> QED
      BY <1>2, <2>1, <2>2, <3>2, SubmitKeepsOrder
  <2>3. CASE Take
    BY <1>2, <2>1, <2>3, TakeKeepsOrder DEF Take, Submitted
  <2>4. CASE Close
    <3>1. queue' = <<>> /\ DOMAIN queue' = {} /\ UNCHANGED <<nextRequestId, interactive>>
      BY <2>4 DEF Close
    <3> QED
      BY <1>2, <2>1, <3>1 DEF QueueOrder, Submitted
  <2>5. CASE EmitBlock
    BY <1>2, <2>1, <2>5 DEF EmitBlock, requestVars, QueueOrder, Submitted
  <2>6. CASE UNCHANGED <<nextRequestId, interactive, queue, seq>>
    BY <1>2, <2>1, <2>6 DEF QueueOrder, Submitted
  <2> QED
    BY <1>2, <2>2, <2>3, <2>4, <2>5, <2>6, QueueChanges
<1> QED
  BY <1>1, <1>2, PTL DEF Spec

-----------------------------------------------------------------------------
(* Cancels from the callback.                                              *)

(* The worker about to emit a block is outside the callback, and its       *)
(* request has not been cancelled from there.                              *)
BlockHeeds == wpc = "block" => ~cb /\ cancelled[cur] # "callback"

LEMMA BlockHeedsStep ==
  ASSUME TypeInv, BlockHeeds, [Next]_vars
  PROVE  BlockHeeds'
<1>1. CASE Offer("block")
  <2>1. ~cb /\ cancelled[cur] = "no" /\ UNCHANGED <<cb, cancelled, cur>>
    BY <1>1 DEF Offer, At, flagVars
  <2> QED
    BY <2>1 DEF BlockHeeds
<1>2. CASE wpc = "block" /\ wpc' = "block" /\ cur' = cur
  <2>1. cur \in Requests /\ cancelled \in [Requests -> {"no", "caller", "callback"}] /\ ~cb
    BY <1>2, CurrentRequest DEF TypeInv, TypeOK, RequestTypes, BlockHeeds
  <2>2. CASE CallerContinues
    BY <1>2, <2>2 DEF CallerContinues, MarkLoad, BackendRefuses, BackendLoads, EvictNext, Install,
                LoadReturns, Join, flagVars, BlockHeeds
  <2>3. ASSUME NEW m \in Models,
               LoadModel(m) \/ UnloadModel(m) \/ (\E p \in BOOLEAN : Submit(m, p)) \/ Crash(m)
        PROVE  BlockHeeds'
    BY <1>2, <2>3 DEF LoadModel, UnloadModel, Submit, Crash, flagVars, BlockHeeds
  <2>4. ASSUME NEW r \in Requests, Cancel(r) \/ SyncNow(r)
        PROVE  BlockHeeds'
    BY <1>2, <2>1, <2>4 DEF Cancel, SyncNow, BlockHeeds
  <2>5. CASE Close
    BY <1>2, <2>1, <2>5 DEF Close, BlockHeeds
  <2>6. CASE Callback
    BY <2>1, <2>6 DEF Callback, CallbackCancels, CallbackSyncs, CallbackReturns
  <2>7. CASE Take \/ WorkerExits \/ Lookup \/ ModelGone \/ CancelledEarly \/ StartServing
             \/ MarkGenerate \/ Offer("block") \/ Offer("sync") \/ EmitBlock \/ PostBlock \/ OfferSync
    BY <1>2, <2>7 DEF Take, WorkerExits, Lookup, ModelGone, CancelledEarly, StartServing, MarkGenerate,
                Offer, EmitBlock, PostBlock, OfferSync, At
  <2>8. CASE Fail \/ Pause \/ BackendReturns \/ ClearAfterServe \/ Finish \/ Erase
    BY <1>2, <2>8 DEF Fail, Pause, BackendReturns, ClearAfterServe, Finish, Erase, At
  <2>9. CASE Over \/ UNCHANGED vars
    BY <1>2, <2>9 DEF Over, vars, flagVars, BlockHeeds
  <2> QED
    BY <2>2, <2>3, <2>4, <2>5, <2>6, <2>7, <2>8, <2>9 DEF Next, CallerCalls, Worker
<1>3. CASE wpc' # "block"
  BY <1>3 DEF BlockHeeds
<1> QED
  BY <1>1, <1>2, <1>3, BlockIsOffered

(* A cancel from inside the callback is the last word: no block follows it *)
(* (Context::cancel, out.block).                                           *)
THEOREM CallbackCancelHolds == Spec => CallbackCancelIsImmediate
<1> DEFINE Inv == TypeInv /\ BlockHeeds
           Held == \A r \in Requests : cancelled[r] = "callback" => seq'[r] = seq[r]
<1>1. Init => Inv
  BY TypeInit DEF Init, BlockHeeds
<1>2. Inv /\ [Next]_vars => Inv'
  BY TypeStep, BlockHeedsStep
<1>3. Inv /\ [Next]_vars => [Held]_vars
  <2> SUFFICES ASSUME Inv, [Next]_vars PROVE Held
    OBVIOUS
  <2>1. CASE EmitBlock
    <3>1. /\ cancelled[cur] # "callback" /\ seq \in [Requests -> Nat]
          /\ seq' = [seq EXCEPT ![cur] = @ + 1]
      BY <2>1 DEF EmitBlock, At, BlockHeeds, TypeInv, TypeOK, WorkTypes
    <3> QED
      BY <3>1
  <2>2. CASE \E m \in Models, p \in BOOLEAN : Submit(m, p)
    BY <2>2 DEF Submit, workVars
  <2>3. CASE Take \/ Close
    BY <2>3 DEF Take, Close, workVars
  <2>4. CASE UNCHANGED <<nextRequestId, interactive, queue, seq>>
    BY <2>4
  <2> QED
    BY <2>1, <2>2, <2>3, <2>4, QueueChanges
<1> QED
  BY <1>1, <1>2, <1>3, PTL DEF Spec, CallbackCancelIsImmediate

-----------------------------------------------------------------------------
(* The marker.                                                             *)

(* A context that closes is at its join (~Context). *)
Closing == phase = "closing" => cpc = "join"

LEMMA ClosingStep ==
  ASSUME Closing, [Next]_vars
  PROVE  Closing'
<1>1. CASE CallerContinues
  BY <1>1 DEF Closing, CallerContinues, MarkLoad, BackendRefuses, BackendLoads, EvictNext, Install,
              LoadReturns, Join
<1>2. CASE CallerCalls
  BY <1>2 DEF Closing, CallerCalls, CallerFree, LoadModel, UnloadModel, Submit, Cancel,
              SyncNow, Close
<1>3. CASE UNCHANGED <<phase, cpc>>
  BY <1>3 DEF Closing
<1>4. CASE Take \/ WorkerExits \/ Lookup \/ ModelGone \/ CancelledEarly \/ StartServing
           \/ MarkGenerate \/ Offer("block") \/ Offer("sync") \/ EmitBlock \/ PostBlock \/ OfferSync
  BY <1>3, <1>4 DEF Take, WorkerExits, Lookup, ModelGone, CancelledEarly, StartServing, MarkGenerate,
              Offer, EmitBlock, PostBlock, OfferSync
<1>5. CASE Fail \/ Pause \/ BackendReturns \/ ClearAfterServe \/ Finish \/ Erase
  BY <1>3, <1>5 DEF Fail, Pause, BackendReturns, ClearAfterServe, Finish, Erase
<1>6. CASE Callback \/ Over \/ UNCHANGED vars
  BY <1>3, <1>6 DEF Callback, CallbackCancels, CallbackSyncs, CallbackReturns, Over, vars
<1>7. CASE \E m \in Models : Crash(m)
  BY <1>7 DEF Closing, Crash
<1> QED
  BY <1>1, <1>2, <1>4, <1>5, <1>6, <1>7 DEF Next, Worker

MarkerInv == TypeInv /\ Closing /\ MarkerIsInProgress

(* What a step leaves alone keeps the marker's meaning. *)
LEMMA KeptMarker ==
  ASSUME MarkerIsInProgress, UNCHANGED <<marker, modelOf, cur, loading>>,
         cpc \in {"load", "evict", "refused", "installed"}
           => cpc' \in {"load", "evict", "refused", "installed"},
         Serving \/ wpc = "clear" => Serving' \/ wpc' = "clear",
         cpc = "mark" => cpc' = "mark", wpc = "mark" => wpc' = "mark"
  PROVE  MarkerIsInProgress'
BY DEF MarkerIsInProgress

LEMMA NothingIsMarked ==
  ASSUME ClearMarker
  PROVE  MarkerIsInProgress'
BY DEF ClearMarker, NoMarker, MarkerIsInProgress

(* What a thread leaves when it has opened the file, and when it has       *)
(* written it.                                                             *)
LEMMA MarkerOpens ==
  ASSUME NEW thread, OpenMarker(thread)
  PROVE  marker'.phase = "empty" /\ marker'.open = marker.open \cup {thread}
BY DEF OpenMarker

LEMMA MarkerSays ==
  ASSUME MarkerTypes, MarkerIsInProgress, NEW thread, NEW m, NEW what, what # "none",
         WriteMarker(thread, m, what)
  PROVE  /\ thread \notin marker'.open /\ marker'.open \subseteq marker.open
         /\ \/ marker' = marker
            \/ marker'.phase = what /\ marker'.model = m
            \/ marker'.phase = "garbled" /\ marker.phase \in {"load", "generate", "garbled"}
<1>1. CASE UNCHANGED marker /\ thread \notin marker.open
  BY <1>1
<1>2. CASE /\ thread \in marker.open
           /\ \E text \in MarkerTexts(m, what) :
                marker' = [model |-> text.model, phase |-> text.phase,
                           open |-> marker.open \ {thread}]
  <2>1. marker.phase \in {"empty", "load", "generate", "garbled"}
    BY <1>2 DEF MarkerTypes, MarkerIsInProgress
  <2> QED
    BY <1>2, <2>1 DEF MarkerTexts
<1> QED
  BY <1>1, <1>2 DEF WriteMarker

LEMMA CallerKeepsMarker ==
  ASSUME MarkerInv, CallerContinues \/ CallerCalls
  PROVE  MarkerIsInProgress'
<1> USE DEF MarkerInv, modelVars, requestVars
<1>1. CASE BackendRefuses
  BY <1>1, KeptMarker DEF BackendRefuses, Serving
<1>2. ASSUME NEW mb \in RuntimeMb, BackendLoads(mb)
      PROVE  MarkerIsInProgress'
  <2>1. /\ UNCHANGED <<marker, modelOf, cur, wpc>> /\ loading'.model = loading.model
        /\ cpc' = "evict"
    BY <1>2 DEF BackendLoads, TypeInv, TypeOK, ModelTypes
  <2> QED
    BY <1>2, <2>1 DEF BackendLoads, MarkerIsInProgress, Serving
<1>3. CASE EvictNext
  BY <1>3, KeptMarker DEF EvictNext, Serving
<1>4. CASE Install
  BY <1>4, KeptMarker DEF Install, Serving
<1>5. CASE LoadReturns
  BY <1>5, NothingIsMarked DEF LoadReturns
<1>6. CASE Join
  BY <1>6, KeptMarker DEF Join, Closing, Serving
<1>7. ASSUME NEW m \in Models, LoadModel(m)
      PROVE  MarkerIsInProgress'
  <2>1. /\ cpc = "idle" /\ cpc' = "mark" /\ UNCHANGED <<wpc, cur, modelOf>>
        /\ marker'.open = marker.open \cup {"caller"} /\ marker'.phase = "empty"
    BY <1>7, MarkerOpens DEF LoadModel, CallerFree
  <2> QED
    BY <2>1 DEF MarkerIsInProgress, Serving
<1>7a. CASE MarkLoad
  <2>1. /\ cpc = "mark" /\ cpc' = "load" /\ UNCHANGED <<wpc, cur, modelOf, loading>>
        /\ WriteMarker("caller", loading.model, "load")
    BY <1>7a DEF MarkLoad
  <2>2. /\ "caller" \notin marker'.open /\ marker'.open \subseteq marker.open
        /\ \/ marker' = marker
           \/ marker'.phase = "load" /\ marker'.model = loading.model
           \/ marker'.phase = "garbled" /\ marker.phase \in {"load", "generate", "garbled"}
    BY <2>1, MarkerSays DEF TypeInv, TypeOK
  <2> QED
    BY <2>1, <2>2 DEF MarkerIsInProgress, Serving
<1>8. ASSUME NEW m \in Models, UnloadModel(m)
      PROVE  MarkerIsInProgress'
  BY <1>8, KeptMarker DEF UnloadModel, Serving
<1>9. ASSUME NEW m \in Models, NEW p \in BOOLEAN, Submit(m, p)
      PROVE  MarkerIsInProgress'
  <2>1. /\ UNCHANGED <<marker, cpc, loading, wpc, cur>>
        /\ modelOf' = [modelOf EXCEPT ![nextRequestId] = m]
    BY <1>9 DEF Submit
  <2>2. Serving \/ wpc = "clear" => modelOf'[cur] = modelOf[cur]
    <3> SUFFICES ASSUME Serving \/ wpc = "clear"  PROVE modelOf'[cur] = modelOf[cur]
      OBVIOUS
    <3>1. cur \in Requests /\ cur # nextRequestId
      BY CurrentRequest DEF Serving, Submitted, TypeInv, TypeOK, RequestTypes
    <3> QED
      BY <2>1, <3>1 DEF TypeInv, TypeOK, RequestTypes
  <2> QED
    BY <2>1, <2>2 DEF MarkerIsInProgress, Serving
<1>10. ASSUME NEW r \in Requests, Cancel(r) \/ SyncNow(r)
       PROVE  MarkerIsInProgress'
  BY <1>10, KeptMarker DEF Cancel, SyncNow, Serving
<1>11. CASE Close
  BY <1>11, KeptMarker DEF Close, CallerFree, Serving
<1> QED
  BY <1>1, <1>2, <1>3, <1>4, <1>5, <1>6, <1>7, <1>7a, <1>8, <1>9, <1>10, <1>11
     DEF CallerContinues, CallerCalls

LEMMA WorkerKeepsMarker ==
  ASSUME MarkerInv, Worker
  PROVE  MarkerIsInProgress'
<1> USE DEF MarkerInv, modelVars, requestVars
<1>1. CASE Take \/ WorkerExits \/ Lookup \/ ModelGone \/ CancelledEarly \/ Finish \/ Erase
  <2>1. ~(Serving \/ wpc = "clear") /\ wpc # "mark" /\ UNCHANGED <<marker, cpc, loading>>
    BY <1>1 DEF Take, WorkerExits, Lookup, ModelGone, CancelledEarly, Finish, Erase,
                At, Serving
  <2> QED
    BY <2>1 DEF MarkerIsInProgress
<1>2. CASE StartServing
  <2>1. /\ wpc = "check" /\ wpc' = "mark" /\ UNCHANGED <<cpc, loading, cur, modelOf>>
        /\ marker'.open = marker.open \cup {"worker"} /\ marker'.phase = "empty"
    BY <1>2, MarkerOpens DEF StartServing, At
  <2> QED
    BY <2>1 DEF MarkerIsInProgress
<1>2a. CASE MarkGenerate
  <2>1. /\ wpc = "mark" /\ wpc' = "serve" /\ UNCHANGED <<cpc, loading, cur, modelOf>>
        /\ WriteMarker("worker", modelOf[cur], "generate")
    BY <1>2a DEF MarkGenerate, At
  <2>2. /\ "worker" \notin marker'.open /\ marker'.open \subseteq marker.open
        /\ \/ marker' = marker
           \/ marker'.phase = "generate" /\ marker'.model = modelOf[cur]
           \/ marker'.phase = "garbled" /\ marker.phase \in {"load", "generate", "garbled"}
    BY <2>1, MarkerSays DEF TypeInv, TypeOK
  <2> QED
    BY <2>1, <2>2 DEF MarkerIsInProgress, Serving
<1>3. ASSUME NEW what \in {"block", "sync"}, Offer(what)
      PROVE  MarkerIsInProgress'
  BY <1>3, KeptMarker DEF Offer, At, Serving
<1>4. CASE EmitBlock \/ PostBlock \/ OfferSync \/ Fail \/ Pause \/ BackendReturns
  BY <1>4, KeptMarker DEF EmitBlock, PostBlock, OfferSync, Fail, Pause, BackendReturns, At, Serving
<1>5. CASE ClearAfterServe
  BY <1>5, NothingIsMarked DEF ClearAfterServe
<1> QED
  BY <1>1, <1>2, <1>2a, <1>3, <1>4, <1>5 DEF Worker

(* Whatever the two threads do, a marker on disk names a load or a         *)
(* generation that has begun and not ended (writeMarker, clearMarker).     *)
THEOREM MarkerInProgress == Spec => []MarkerIsInProgress
<1>1. Init => MarkerInv
  BY TypeInit DEF Init, MarkerInv, Closing, MarkerIsInProgress, NoMarker
<1>2. ASSUME MarkerInv, [Next]_vars
      PROVE  MarkerInv'
  <2>1. TypeInv'
    BY <1>2, TypeStep DEF MarkerInv
  <2>2. Closing'
    BY <1>2, ClosingStep DEF MarkerInv
  <2>3. CASE CallerContinues \/ CallerCalls
    BY <1>2, <2>1, <2>2, <2>3, CallerKeepsMarker DEF MarkerInv
  <2>4. CASE Worker
    BY <1>2, <2>1, <2>2, <2>4, WorkerKeepsMarker DEF MarkerInv
  <2>5. CASE Callback \/ (\E m \in Models : Crash(m)) \/ Over \/ UNCHANGED vars
    <3>1. UNCHANGED <<marker, modelOf, cur, loading, cpc, wpc>>
      BY <2>5 DEF Callback, CallbackCancels, CallbackSyncs, CallbackReturns, Crash, Over,
                  vars, modelVars, requestVars
    <3> QED
      BY <1>2, <2>1, <2>2, <3>1, KeptMarker DEF MarkerInv, Serving
  <2> QED
    BY <1>2, <2>3, <2>4, <2>5 DEF Next
<1> QED
  BY <1>1, <1>2, PTL DEF Spec, MarkerInv

-----------------------------------------------------------------------------
(* The governor's books.                                                   *)

(* A load that makes room has an object to install (loadModel).            *)
ObjectMade == cpc = "evict" => loading.object # None

BooksInv == TypeInv /\ ObjectMade /\ resident = Loaded

LEMMA UnloadNotesIt ==
  ASSUME BooksInv, NEW m \in Models, Unload(m)
  PROVE  resident' = Loaded'
<1>1. /\ models \in [Models -> Nat] /\ models' = [models EXCEPT ![m] = None]
      /\ resident' = resident \ {m}
  BY DEF BooksInv, TypeInv, TypeOK, ModelTypes, Unload
<1>2. Loaded' = Loaded \ {m}
  BY <1>1 DEF Loaded
<1> QED
  BY <1>1, <1>2 DEF BooksInv

LEMMA BooksStep ==
  ASSUME BooksInv, [Next]_vars
  PROVE  ObjectMade' /\ resident' = Loaded'
<1> USE DEF BooksInv
<1>1. CASE UNCHANGED <<models, resident>> /\ (UNCHANGED <<cpc, loading>> \/ cpc' # "evict")
  BY <1>1 DEF ObjectMade, Loaded
<1>2. ASSUME NEW mb \in RuntimeMb, BackendLoads(mb)
      PROVE  ObjectMade' /\ resident' = Loaded'
  <2>1. nextObject # None /\ loading'.object = nextObject
    BY <1>2 DEF BackendLoads, TypeInv, TypeOK, ModelTypes, None
  <2> QED
    BY <1>2, <2>1 DEF BackendLoads, ObjectMade, Loaded, governorVars
<1>3. CASE EvictNext
  <2>1. PICK v \in Models : Unload(v)
    BY <1>3, OldestFound DEF EvictNext, TypeInv, TypeOK, ModelTypes
  <2> QED
    BY <1>3, <2>1, UnloadNotesIt DEF EvictNext, ObjectMade
<1>4. CASE Install
  <2>1. loading.model \in Models /\ loading.object # None /\ models \in [Models -> Nat]
    BY <1>4 DEF Install, ObjectMade, TypeInv, TypeOK, ModelTypes, LoadNamesModel
  <2>2. /\ models' = [models EXCEPT ![loading.model] = loading.object]
        /\ resident' = resident \cup {loading.model} /\ cpc' = "installed"
    BY <1>4 DEF Install
  <2>3. Loaded' = Loaded \cup {loading.model}
    BY <2>1, <2>2 DEF Loaded
  <2> QED
    BY <2>2, <2>3 DEF ObjectMade
<1>5. CASE Join
  BY <1>5 DEF Join, ObjectMade, Loaded
<1>6. ASSUME NEW m \in Models, UnloadModel(m)
      PROVE  ObjectMade' /\ resident' = Loaded'
  BY <1>6, UnloadNotesIt DEF UnloadModel, ObjectMade
<1>7. CASE MarkLoad \/ BackendRefuses \/ LoadReturns
  BY <1>1, <1>7 DEF MarkLoad, BackendRefuses, LoadReturns, modelVars, governorVars
<1>8. ASSUME NEW m \in Models,
             LoadModel(m) \/ (\E p \in BOOLEAN : Submit(m, p)) \/ Crash(m)
      PROVE  ObjectMade' /\ resident' = Loaded'
  BY <1>1, <1>8 DEF LoadModel, Submit, Crash, modelVars, governorVars
<1>9. ASSUME NEW r \in Requests, Cancel(r) \/ SyncNow(r)
      PROVE  ObjectMade' /\ resident' = Loaded'
  BY <1>1, <1>9 DEF Cancel, SyncNow, modelVars
<1>10. CASE Close
  BY <1>1, <1>10 DEF Close, modelVars
<1>11. CASE Take \/ WorkerExits \/ Lookup \/ ModelGone \/ CancelledEarly \/ StartServing
            \/ MarkGenerate \/ Offer("block") \/ Offer("sync") \/ EmitBlock \/ PostBlock \/ OfferSync
  BY <1>1, <1>11 DEF Take, WorkerExits, Lookup, ModelGone, CancelledEarly, StartServing, MarkGenerate,
              Offer, EmitBlock, PostBlock, OfferSync, modelVars
<1>12. CASE Fail \/ Pause \/ BackendReturns \/ ClearAfterServe \/ Finish \/ Erase
  BY <1>1, <1>12 DEF Fail, Pause, BackendReturns, ClearAfterServe, Finish, Erase, modelVars
<1>13. CASE Callback \/ Over \/ UNCHANGED vars
  BY <1>1, <1>13 DEF Callback, CallbackCancels, CallbackSyncs, CallbackReturns, Over, vars,
              modelVars
<1> QED
  BY <1>2, <1>3, <1>4, <1>5, <1>6, <1>7, <1>8, <1>9, <1>10, <1>11, <1>12, <1>13
     DEF Next, CallerContinues, CallerCalls, Worker

(* The governor charges exactly the models the context holds, over every   *)
(* load, reload, eviction and unload (loadModel, unloadModel).             *)
THEOREM BooksMatch == Spec => []BooksMatchModels
<1>1. Init => BooksInv
  BY TypeInit DEF Init, BooksInv, ObjectMade, Loaded
<1>2. ASSUME BooksInv, [Next]_vars
      PROVE  BooksInv'
  BY <1>2, BooksStep, TypeStep DEF BooksInv
<1>3. BooksInv => BooksMatchModels
  BY DEF BooksInv, BooksMatchModels
<1> QED
  BY <1>1, <1>2, <1>3, PTL DEF Spec

-----------------------------------------------------------------------------
(* A caller that loads and unloads only while cancel finds no request of   *)
(* its own: the model that runs stays, and a crash leaves the right name.  *)
(* For any other caller neither holds.                                     *)

LoadPlaces == {"mark", "load", "evict", "refused", "installed"}

(* The worker holds a model pointer it may still use (serveOne). *)
Pointing == wpc \in {"check", "mark"} \/ Serving

LEMMA PointerStep ==
  ASSUME TypeInv, [Next]_vars, Pointing'
  PROVE  \/ Lookup
         \/ Pointing /\ cur' = cur /\ served' = served /\ modelOf'[cur] = modelOf[cur]
<1> USE DEF Pointing, Serving, requestVars, workVars
<1>1. CASE CallerContinues
  BY <1>1 DEF CallerContinues, MarkLoad, BackendRefuses, BackendLoads, EvictNext, Install,
              LoadReturns, Join
<1>2. ASSUME NEW m \in Models, NEW p \in BOOLEAN, Submit(m, p)
      PROVE  Pointing /\ cur' = cur /\ served' = served /\ modelOf'[cur] = modelOf[cur]
  <2>1. /\ Pointing /\ cur' = cur /\ served' = served
        /\ modelOf' = [modelOf EXCEPT ![nextRequestId] = m]
    BY <1>2 DEF Submit
  <2>2. cur \in Requests /\ cur # nextRequestId
    BY <2>1, CurrentRequest DEF Submitted, TypeInv, TypeOK, RequestTypes
  <2> QED
    BY <2>1, <2>2 DEF TypeInv, TypeOK, RequestTypes
<1>3. ASSUME NEW m \in Models, LoadModel(m) \/ UnloadModel(m) \/ Crash(m)
      PROVE  Pointing /\ cur' = cur /\ served' = served /\ modelOf'[cur] = modelOf[cur]
  BY <1>3 DEF LoadModel, UnloadModel, Crash
<1>4. ASSUME NEW r \in Requests, Cancel(r) \/ SyncNow(r)
      PROVE  Pointing /\ cur' = cur /\ served' = served /\ modelOf'[cur] = modelOf[cur]
  BY <1>4 DEF Cancel, SyncNow
<1>5. CASE Close
  BY <1>5 DEF Close
<1>6. CASE Take \/ WorkerExits \/ ModelGone \/ CancelledEarly \/ StartServing
           \/ MarkGenerate \/ Offer("block") \/ Offer("sync") \/ EmitBlock \/ PostBlock \/ OfferSync
  BY <1>6 DEF Take, WorkerExits, ModelGone, CancelledEarly, StartServing, MarkGenerate, Offer,
              EmitBlock, PostBlock, OfferSync, At
<1>7. CASE Fail \/ Pause \/ BackendReturns \/ ClearAfterServe \/ Finish \/ Erase
  BY <1>7 DEF Fail, Pause, BackendReturns, ClearAfterServe, Finish, Erase, At
<1>8. CASE Callback \/ Over \/ UNCHANGED vars
  BY <1>8 DEF Callback, CallbackCancels, CallbackSyncs, CallbackReturns, Over, vars
<1> QED
  BY <1>1, <1>2, <1>3, <1>4, <1>5, <1>6, <1>7, <1>8 DEF Next, CallerCalls, Worker

(* Serving begins with MarkGenerate. *)
LEMMA ServingBegins ==
  ASSUME [Next]_vars, Serving', ~MarkGenerate
  PROVE  Serving
<1> USE DEF Serving
<1>1. CASE CallerContinues
  BY <1>1 DEF CallerContinues, MarkLoad, BackendRefuses, BackendLoads, EvictNext, Install,
              LoadReturns, Join
<1>2. CASE CallerCalls
  BY <1>2 DEF CallerCalls, LoadModel, UnloadModel, Submit, Cancel, SyncNow, Close
<1>3. CASE Take \/ WorkerExits \/ Lookup \/ ModelGone \/ CancelledEarly
           \/ StartServing \/ Offer("block") \/ Offer("sync") \/ EmitBlock \/ PostBlock \/ OfferSync
  BY <1>3 DEF Take, WorkerExits, Lookup, ModelGone, CancelledEarly, StartServing, Offer, EmitBlock,
              PostBlock, OfferSync, At
<1>4. CASE Fail \/ Pause \/ BackendReturns \/ ClearAfterServe \/ Finish \/ Erase
  BY <1>4 DEF Fail, Pause, BackendReturns, ClearAfterServe, Finish, Erase, At
<1>5. CASE Callback \/ (\E m \in Models : Crash(m)) \/ Over \/ UNCHANGED vars
  BY <1>5 DEF Callback, CallbackCancels, CallbackSyncs, CallbackReturns, Crash, Over, vars
<1> QED
  BY <1>1, <1>2, <1>3, <1>4, <1>5 DEF Next, Worker

(* The worker opens the marker in StartServing only. *)
LEMMA MarkingBegins ==
  ASSUME [Next]_vars, wpc' = "mark", ~StartServing
  PROVE  wpc = "mark"
<1>1. CASE CallerContinues
  BY <1>1 DEF CallerContinues, MarkLoad, BackendRefuses, BackendLoads, EvictNext, Install,
              LoadReturns, Join
<1>2. CASE CallerCalls
  BY <1>2 DEF CallerCalls, LoadModel, UnloadModel, Submit, Cancel, SyncNow, Close
<1>3. CASE Take \/ WorkerExits \/ Lookup \/ ModelGone \/ CancelledEarly \/ MarkGenerate
           \/ Offer("block") \/ Offer("sync") \/ EmitBlock \/ PostBlock \/ OfferSync
  BY <1>3 DEF Take, WorkerExits, Lookup, ModelGone, CancelledEarly, MarkGenerate, Offer,
              EmitBlock, PostBlock, OfferSync
<1>4. CASE Fail \/ Pause \/ BackendReturns \/ ClearAfterServe \/ Finish \/ Erase
  BY <1>4 DEF Fail, Pause, BackendReturns, ClearAfterServe, Finish, Erase
<1>5. CASE Callback \/ (\E m \in Models : Crash(m)) \/ Over \/ UNCHANGED vars
  BY <1>5 DEF Callback, CallbackCancels, CallbackSyncs, CallbackReturns, Crash, Over, vars
<1> QED
  BY <1>1, <1>2, <1>3, <1>4, <1>5 DEF Next, Worker

(* Only the caller's thread changes the models. *)
LEMMA ModelsChange ==
  ASSUME [Next]_vars
  PROVE  \/ EvictNext \/ Install \/ Join \/ (\E m \in Models : UnloadModel(m))
         \/ UNCHANGED models
<1> USE DEF modelVars
<1>1. CASE CallerContinues
  BY <1>1 DEF CallerContinues, MarkLoad, BackendRefuses, BackendLoads, LoadReturns
<1>2. CASE CallerCalls
  BY <1>2 DEF CallerCalls, LoadModel, Submit, Cancel, SyncNow, Close
<1>3. CASE Take \/ WorkerExits \/ Lookup \/ ModelGone \/ CancelledEarly \/ StartServing
           \/ MarkGenerate \/ Offer("block") \/ Offer("sync") \/ EmitBlock \/ PostBlock \/ OfferSync
  BY <1>3 DEF Take, WorkerExits, Lookup, ModelGone, CancelledEarly, StartServing, MarkGenerate, Offer,
              EmitBlock, PostBlock, OfferSync
<1>4. CASE Fail \/ Pause \/ BackendReturns \/ ClearAfterServe \/ Finish \/ Erase
  BY <1>4 DEF Fail, Pause, BackendReturns, ClearAfterServe, Finish, Erase
<1>5. CASE Callback \/ (\E m \in Models : Crash(m)) \/ Over \/ UNCHANGED vars
  BY <1>5 DEF Callback, CallbackCancels, CallbackSyncs, CallbackReturns, Crash, Over, vars
<1> QED
  BY <1>1, <1>2, <1>3, <1>4, <1>5 DEF Next, Worker

(* Who writes the marker. *)
LEMMA MarkerChange ==
  ASSUME [Next]_vars
  PROVE  \/ (\E m \in Models : LoadModel(m)) \/ MarkLoad \/ LoadReturns
         \/ StartServing \/ MarkGenerate \/ ClearAfterServe
         \/ UNCHANGED marker
<1>1. CASE CallerContinues
  BY <1>1 DEF CallerContinues, BackendRefuses, BackendLoads, EvictNext, Install, Join
<1>2. CASE CallerCalls
  BY <1>2 DEF CallerCalls, UnloadModel, Submit, Cancel, SyncNow, Close
<1>3. CASE Take \/ WorkerExits \/ Lookup \/ ModelGone \/ CancelledEarly
           \/ Offer("block") \/ Offer("sync") \/ EmitBlock \/ PostBlock \/ OfferSync
  BY <1>3 DEF Take, WorkerExits, Lookup, ModelGone, CancelledEarly, Offer, EmitBlock,
              PostBlock, OfferSync
<1>4. CASE Fail \/ Pause \/ BackendReturns \/ Finish \/ Erase
  BY <1>4 DEF Fail, Pause, BackendReturns, Finish, Erase
<1>5. CASE Callback \/ (\E m \in Models : Crash(m)) \/ Over \/ UNCHANGED vars
  BY <1>5 DEF Callback, CallbackCancels, CallbackSyncs, CallbackReturns, Crash, Over, vars
<1> QED
  BY <1>1, <1>2, <1>3, <1>4, <1>5 DEF Next, Worker

(* A load begins with LoadModel and submits nothing while it lasts, and    *)
(* only a crash takes the process down.                                    *)
LEMMA LoadStep ==
  ASSUME [Next]_vars
  PROVE  /\ \/ cpc' \notin LoadPlaces
            \/ \E m \in Models : LoadModel(m)
            \/ /\ cpc \in LoadPlaces /\ inflight' \subseteq inflight
               /\ cpc' = "load" => MarkLoad \/ UNCHANGED <<cpc, loading>>
               /\ cpc' = "mark" => cpc = "mark"
         /\ \/ phase' # "crashed"
            \/ \E m \in Models : Crash(m)
            \/ phase = "crashed" /\ UNCHANGED <<marker, culprit>>
<1> USE DEF LoadPlaces, requestVars, modelVars
<1>1a. CASE MarkLoad
  BY <1>1a DEF MarkLoad
<1>1. CASE CallerContinues
  BY <1>1, <1>1a DEF CallerContinues, BackendRefuses, BackendLoads, EvictNext, Install,
              LoadReturns, Join
<1>2. CASE CallerCalls
  BY <1>2 DEF CallerCalls, CallerFree, UnloadModel, Submit, Cancel, SyncNow, Close, LoadModel
<1>3. CASE Take \/ WorkerExits \/ Lookup \/ ModelGone \/ CancelledEarly \/ StartServing
           \/ MarkGenerate \/ Offer("block") \/ Offer("sync") \/ EmitBlock \/ PostBlock \/ OfferSync
  BY <1>3 DEF Take, WorkerExits, Lookup, ModelGone, CancelledEarly, StartServing, MarkGenerate, Offer,
              EmitBlock, PostBlock, OfferSync, At
<1>4. CASE Fail \/ Pause \/ BackendReturns \/ ClearAfterServe \/ Finish \/ Erase
  BY <1>4 DEF Fail, Pause, BackendReturns, ClearAfterServe, Finish, Erase, At
<1>5. CASE Callback
  BY <1>5 DEF Callback, CallbackCancels, CallbackSyncs, CallbackReturns
<1>6. CASE Over \/ UNCHANGED vars
  BY <1>6 DEF Over, vars
<1>7. CASE \E m \in Models : Crash(m)
  BY <1>7 DEF Crash
<1> QED
  BY <1>1, <1>2, <1>3, <1>4, <1>5, <1>6, <1>7 DEF Next, Worker

-----------------------------------------------------------------------------
(* While a load lasts nothing is in flight; while a pointer is held it     *)
(* points to the installed object; the marker names what backend code runs *)
(* (loadModel, serveOne).                                                  *)
LoadsAlone    == cpc \in LoadPlaces => inflight = {}
PointsToModel == Pointing => models[modelOf[cur]] = served
MarkedRight   == /\ cpc = "mark" => marker.phase = "empty" /\ "caller" \in marker.open
                 /\ wpc = "mark" => marker.phase = "empty" /\ "worker" \in marker.open
                 /\ cpc = "load" => marker.model = loading.model
                 /\ Serving => marker.model = modelOf[cur]

(* The text that is written over an empty file is the one that stays. *)
LEMMA WritesItsText ==
  ASSUME NEW thread, NEW m, NEW what, WriteMarker(thread, m, what),
         marker.phase = "empty", thread \in marker.open
  PROVE  marker'.model = m
BY DEF WriteMarker, MarkerTexts

RetiredInv == WorkInv /\ LoadsAlone /\ PointsToModel /\ MarkedRight /\ MarkerNamesCulprit

(* With a request in the worker's hands something is in flight. *)
LEMMA WorkIsInFlight ==
  ASSUME WorkInv, wpc \notin {"idle", "exited"}
  PROVE  inflight # {} /\ cur \in Requests
BY CurrentRequest DEF WorkInv, InflightIsUnfinishedWork, None, Requests

LEMMA RetiredStep ==
  ASSUME CallerWaits = "retired", RetiredInv, [Next]_vars
  PROVE  RetiredInv'
<1> USE DEF RetiredInv
<1>1. WorkInv'
  BY WorkStep
<1>2. TypeInv
  BY DEF WorkInv
<1>3. ASSUME wpc \notin {"idle", "exited"}
      PROVE  /\ inflight # {} /\ cpc \notin LoadPlaces
             /\ \A m \in Models : ~LoadModel(m) /\ ~UnloadModel(m)
             /\ ~EvictNext /\ ~Install /\ ~Join /\ ~LoadReturns
  BY <1>3, WorkIsInFlight
     DEF LoadsAlone, LoadPlaces, LoadModel, UnloadModel, MayReconfigure, EvictNext,
         Install, Join, LoadReturns
<1>4. LoadsAlone'
  <2>1. ASSUME NEW m \in Models, LoadModel(m)
        PROVE  inflight' = {}
    BY <2>1 DEF LoadModel, MayReconfigure, requestVars
  <2> QED
    BY <2>1, LoadStep DEF LoadsAlone
<1>5. PointsToModel'
  <2> SUFFICES ASSUME Pointing'  PROVE models'[modelOf'[cur']] = served'
    BY DEF PointsToModel
  <2>1. CASE Lookup
    BY <2>1 DEF Lookup, modelVars, requestVars
  <2>2. CASE Pointing /\ cur' = cur /\ served' = served /\ modelOf'[cur] = modelOf[cur]
    <3>1. models' = models
      BY <1>3, <2>2, ModelsChange DEF Pointing, Serving
    <3> QED
      BY <2>2, <3>1 DEF PointsToModel
  <2> QED
    BY <1>2, <2>1, <2>2, PointerStep
<1>6. MarkedRight'
  <2>1. cpc' = "load" => marker'.model = loading'.model
    <3> SUFFICES ASSUME cpc' = "load"  PROVE marker'.model = loading'.model
      OBVIOUS
    <3>1. ASSUME NEW m \in Models, LoadModel(m)
          PROVE  FALSE
      BY <3>1 DEF LoadModel
    <3>2. CASE UNCHANGED <<cpc, loading>>
      <4>1. /\ cpc = "load" /\ ~LoadReturns /\ ~MarkLoad
            /\ ~StartServing /\ ~MarkGenerate /\ ~ClearAfterServe
        BY <1>3, <3>2 DEF LoadReturns, MarkLoad, StartServing, MarkGenerate, ClearAfterServe, At,
                          LoadPlaces
      <4> QED
        BY <3>1, <3>2, <4>1, MarkerChange DEF MarkedRight
    <3>3. CASE MarkLoad
      BY <3>3, WritesItsText DEF MarkLoad, MarkedRight, modelVars
    <3> QED
      BY <3>1, <3>2, <3>3, LoadStep DEF LoadPlaces
  <2>2. cpc' = "mark" => marker'.phase = "empty" /\ "caller" \in marker'.open
    <3> SUFFICES ASSUME cpc' = "mark"  PROVE marker'.phase = "empty" /\ "caller" \in marker'.open
      OBVIOUS
    <3>1. ASSUME NEW m \in Models, LoadModel(m)
          PROVE  marker'.phase = "empty" /\ "caller" \in marker'.open
      BY <3>1, MarkerOpens DEF LoadModel
    <3>2. CASE cpc = "mark"
      <4>1. /\ ~LoadReturns /\ ~MarkLoad
            /\ ~StartServing /\ ~MarkGenerate /\ ~ClearAfterServe
        BY <1>3, <3>2 DEF LoadReturns, MarkLoad, StartServing, MarkGenerate, ClearAfterServe, At,
                          LoadPlaces
      <4> QED
        BY <3>1, <3>2, <4>1, MarkerChange DEF MarkedRight
    <3> QED
      BY <3>1, <3>2, LoadStep DEF LoadPlaces
  <2>3. wpc' = "mark" => marker'.phase = "empty" /\ "worker" \in marker'.open
    <3> SUFFICES ASSUME wpc' = "mark"  PROVE marker'.phase = "empty" /\ "worker" \in marker'.open
      OBVIOUS
    <3>1. CASE StartServing
      BY <3>1, MarkerOpens DEF StartServing
    <3>2. CASE ~StartServing
      <4>1. wpc = "mark"
        BY <3>2, MarkingBegins
      <4>2. ~MarkGenerate /\ ~ClearAfterServe /\ ~MarkLoad
        BY <1>3, <4>1 DEF MarkGenerate, ClearAfterServe, MarkLoad, At, LoadPlaces
      <4>3. marker' = marker
        BY <1>3, <3>2, <4>1, <4>2, MarkerChange
      <4> QED
        BY <4>1, <4>3 DEF MarkedRight
    <3> QED
      BY <3>1, <3>2
  <2>4. Serving' => marker'.model = modelOf'[cur']
    <3> SUFFICES ASSUME Serving'  PROVE marker'.model = modelOf'[cur']
      OBVIOUS
    <3>1. CASE MarkGenerate
      <4>1. wpc = "mark" /\ WriteMarker("worker", modelOf[cur], "generate")
            /\ UNCHANGED <<modelOf, cur>>
        BY <3>1 DEF MarkGenerate, At, requestVars
      <4> QED
        BY <4>1, WritesItsText DEF MarkedRight
    <3>2. CASE Lookup
      BY <3>2 DEF Lookup, Serving
    <3>3. CASE Pointing /\ cur' = cur /\ modelOf'[cur] = modelOf[cur] /\ ~MarkGenerate
      <4>1. Serving
        BY <3>3, ServingBegins
      <4>2. ~ClearAfterServe /\ ~StartServing /\ ~MarkLoad
        BY <1>3, <4>1 DEF ClearAfterServe, StartServing, MarkLoad, At, Serving, LoadPlaces
      <4>3. marker' = marker
        BY <1>3, <3>3, <4>1, <4>2, MarkerChange DEF Serving
      <4> QED
        BY <3>3, <4>1, <4>3 DEF MarkedRight
    <3> QED
      BY <1>2, <3>1, <3>2, <3>3, PointerStep DEF Pointing
  <2> QED
    BY <2>1, <2>2, <2>3, <2>4 DEF MarkedRight
<1>7. MarkerNamesCulprit'
  <2>1. ASSUME NEW m \in Models, Crash(m)
        PROVE  MarkerNamesCulprit'
    BY <2>1 DEF Crash, InBackend, MarkedRight, MarkerNamesCulprit
  <2> QED
    BY <2>1, LoadStep DEF MarkerNamesCulprit
<1> QED
  BY <1>1, <1>4, <1>5, <1>6, <1>7

LEMMA RetiredInit == Init => RetiredInv
<1> SUFFICES ASSUME Init  PROVE RetiredInv
  OBVIOUS
<1>1. WorkInv
  BY WorkInit
<1>2. cpc = "idle" /\ wpc = "idle" /\ phase = "open"
  BY DEF Init
<1> QED
  BY <1>1, <1>2 DEF RetiredInv, LoadsAlone, LoadPlaces, PointsToModel, Pointing, Serving,
                    MarkedRight, MarkerNamesCulprit

(* A caller that loads and unloads only while cancel finds no request      *)
(* never takes the object of a running generation away (serveOne's         *)
(* unlocked pointer).                                                      *)
THEOREM RunningModelKept ==
  ASSUME CallerWaits = "retired"
  PROVE  Spec => []RunningModelStays
<1>1. RetiredInv /\ [Next]_vars => RetiredInv'
  BY RetiredStep
<1>2. RetiredInv => RunningModelStays
  BY DEF RetiredInv, PointsToModel, Pointing, RunningModelStays
<1> QED
  BY <1>1, <1>2, RetiredInit, PTL DEF Spec

(* For the same caller a crash inside backend code leaves a marker that    *)
(* names the model whose code it was (writeMarker, clearMarker).           *)
THEOREM MarkerNamesTheCulprit ==
  ASSUME CallerWaits = "retired"
  PROVE  Spec => []MarkerNamesCulprit
<1>1. RetiredInv /\ [Next]_vars => RetiredInv'
  BY RetiredStep
<1>2. RetiredInv => MarkerNamesCulprit
  BY DEF RetiredInv
<1> QED
  BY <1>1, <1>2, RetiredInit, PTL DEF Spec
=============================================================================
