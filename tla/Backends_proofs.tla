--------------------------- MODULE Backends_proofs ---------------------------
(* Theorems about Backends, for every set of models, requests, scripts,    *)
(* recordings, packs and texts.                                            *)
EXTENDS Backends, FiniteSetTheorems, WellFoundedInduction, TLAPS

-----------------------------------------------------------------------------
(* What the steps of a backend look like from the core.                    *)

IsSequence(s) == \E S : s \in Seq(S)

Running == phase = "serving" /\ frame.at # "return"

(* The core opens a model or lets it go. *)
SeesModel ==
  /\ phase = "idle" /\ "engine" \in DOMAIN model'
  /\ UNCHANGED <<phase, request, sent, report, cancelAt, frame>>

SeesServe ==
  /\ phase = "idle" /\ phase' = "serving"
  /\ "engine" \in DOMAIN model' /\ "at" \in DOMAIN frame'
  /\ model'.engine = model.engine
  /\ sent' = <<>> /\ report' = <<>> /\ cancelAt' = Uncancelled

(* Nothing, or blocks. *)
SeesBlocks ==
  /\ Running
  /\ "engine" \in DOMAIN model' /\ "at" \in DOMAIN frame'
  /\ model'.engine = model.engine
  /\ \E blocks : IsSequence(blocks) /\ sent' = sent \o blocks
  /\ UNCHANGED <<request, phase, report, cancelAt>>

SeesEnd ==
  /\ Running
  /\ frame' = [frame EXCEPT !.at = "return"]
  /\ \/ report' = report
     \/ \E why : report' = report \o <<[is |-> "failed", why |-> why]>>
     \/ \E why : report' = report \o <<[is |-> "finished", why |-> why]>>
  /\ UNCHANGED <<model, request, phase, sent, cancelAt>>

SeesDeath == Running /\ Dies

SeamStep == SeesModel \/ SeesServe \/ SeesBlocks \/ SeesEnd \/ SeesDeath

(* Where the seam is: nothing is pending between two requests, an end is   *)
(* reported once, and then serve only returns.                             *)
SeamInv ==
  /\ phase \in {"idle", "serving", "dead"}
  /\ "engine" \in DOMAIN model /\ "at" \in DOMAIN frame
  /\ IsSequence(sent)
  /\ phase = "idle" => sent = <<>> /\ report = <<>> /\ cancelAt = Uncancelled
  /\ phase = "dead" => report = <<>>
  /\ \/ report = <<>>
     \/ frame.at = "return" /\ \E why : report = <<[is |-> "failed", why |-> why]>>
     \/ frame.at = "return" /\ \E why : report = <<[is |-> "finished", why |-> why]>>

LEMMA SentGrows ==
  ASSUME NEW s, NEW blocks, IsSequence(s), IsSequence(blocks)
  PROVE  /\ IsSequence(s \o blocks)
         /\ Len(s) \in Nat /\ Len(blocks) \in Nat
         /\ Len(s \o blocks) = Len(s) + Len(blocks)
<1>1. PICK S : s \in Seq(S)
  BY DEF IsSequence
<1>2. PICK T : blocks \in Seq(T)
  BY DEF IsSequence
<1>3. s \in Seq(S \cup T) /\ blocks \in Seq(S \cup T)
  BY <1>1, <1>2
<1>4. s \o blocks \in Seq(S \cup T) /\ Len(s \o blocks) = Len(s) + Len(blocks)
  BY <1>3
<1> QED
  BY <1>3, <1>4 DEF IsSequence

LEMMA ShortSequences ==
  IsSequence(<<>>) /\ \A x : IsSequence(<<x>>)
<1>1. <<>> \in Seq({})
  OBVIOUS
<1>2. ASSUME NEW x PROVE <<x>> \in Seq({x})
  OBVIOUS
<1> QED
  BY <1>1, <1>2 DEF IsSequence

(* A step that only moves the locals emits no blocks. *)
LEMMA MovesAreSeen ==
  ASSUME SeamInv, Running, NEW next, Moves(next), "at" \in DOMAIN next
  PROVE  SeamStep
<1>1. sent \o <<>> = sent
  BY DEF SeamInv, IsSequence
<1> QED
  BY <1>1, ShortSequences DEF Moves, SeamStep, SeesBlocks, SeamInv

LEMMA EmitsAreSeen ==
  ASSUME SeamInv, Running, NEW next, NEW blocks, Emits(blocks, next),
         IsSequence(blocks), "at" \in DOMAIN next
  PROVE  SeamStep
BY DEF Emits, SeamStep, SeesBlocks, SeamInv

LEMMA EndsAreSeen ==
  ASSUME SeamInv, Running,
         ReturnsSilently \/ (\E code : Fails(code)) \/ (\E why : Finishes(why))
  PROVE  SeamStep
<1>1. CASE ReturnsSilently
  <2>1. report \o <<>> = report
    BY DEF SeamInv, Running
  <2> QED
    BY <1>1, <2>1 DEF ReturnsSilently, Ends, SeamStep, SeesEnd
<1>2. CASE \E code : Fails(code)
  BY <1>2 DEF Fails, Ends, SeamStep, SeesEnd
<1>3. CASE \E why : Finishes(why)
  BY <1>3 DEF Finishes, Ends, SeamStep, SeesEnd
<1> QED
  BY <1>1, <1>2, <1>3

LEMMA OpensAreSeen ==
  ASSUME NEW m, Opened(m), "engine" \in DOMAIN m
  PROVE  SeamStep
BY DEF Opened, Empty, SeamStep, SeesModel

LEMMA BeginsAreSeen ==
  ASSUME NEW engine, NEW r, NEW first, Begin(engine, r, first), "at" \in DOMAIN first,
         "engine" \in DOMAIN model', model'.engine = model.engine
  PROVE  SeamStep
BY DEF Begin, Waiting, SeamStep, SeesServe

-----------------------------------------------------------------------------
(* Every step of every backend is one of these.                            *)

LEMMA MockIsSeen ==
  ASSUME SeamInv, MockNext
  PROVE  SeamStep
<1>1. CASE LoadMock
  BY <1>1, OpensAreSeen DEF LoadMock
<1>2. CASE ServeMock
  <2>1. "engine" \in DOMAIN model' /\ model'.engine = model.engine
    BY <1>2 DEF ServeMock, SeamInv
  <2>2. PICK script : Begin("mock", [kind |-> "mock"], MockFrame(script))
    BY <1>2 DEF ServeMock
  <2>3. "at" \in DOMAIN MockFrame(script)
    BY DEF MockFrame
  <2> QED
    BY <2>1, <2>2, <2>3, BeginsAreSeen
<1>3. CASE ScriptEnds \/ MockHearsCancel \/ PausedHearsCancel
  BY <1>3, EndsAreSeen DEF ScriptEnds, MockHearsCancel, PausedHearsCancel, AtEvent, At, Running
<1>4. CASE PlayEvent
  <2>1. IsSequence(Shown(Event))
    <3>1. Shown(Event) = <<>> \/ \E block : Shown(Event) = <<block>>
      BY DEF Shown
    <3> QED
      BY <3>1, ShortSequences
  <2>2. Running /\ "at" \in DOMAIN [frame EXCEPT !.next = @ + 1]
    BY <1>4 DEF PlayEvent, AtEvent, At, Running, SeamInv
  <2>3. Emits(Shown(Event), [frame EXCEPT !.next = @ + 1])
    BY <1>4 DEF PlayEvent
  <2> QED
    BY <2>1, <2>2, <2>3, EmitsAreSeen
<1>5. CASE PauseMock
  <2>1. Running /\ "at" \in DOMAIN [frame EXCEPT !.at = "paused"]
    BY <1>5 DEF PauseMock, AtEvent, At, Running, SeamInv
  <2> QED
    BY <1>5, <2>1, MovesAreSeen DEF PauseMock
<1>6. CASE FailMock \/ CompleteMock
  BY <1>6, EndsAreSeen DEF FailMock, CompleteMock, AtEvent, At, Running
<1> QED
  BY <1>1, <1>2, <1>3, <1>4, <1>5, <1>6 DEF MockNext

LEMMA G2pIsSeen ==
  ASSUME SeamInv, G2pNext
  PROVE  SeamStep
<1>1. CASE LoadPack
  BY <1>1, OpensAreSeen DEF LoadPack
<1>2. CASE ServeG2p
  <2>1. "engine" \in DOMAIN model' /\ model'.engine = model.engine
    BY <1>2 DEF ServeG2p, SeamInv
  <2>2. PICK r, result :
          Begin("g2p", r, [at |-> "checks", next |-> 0, taken |-> 0, result |-> result])
    BY <1>2 DEF ServeG2p
  <2> QED
    BY <2>1, <2>2, BeginsAreSeen
<1>3. CASE CheckG2p
  <2>1. Running /\ "at" \in DOMAIN [frame EXCEPT !.at = "sentence"]
    BY <1>3 DEF CheckG2p, At, Running, SeamInv
  <2> QED
    BY <1>3, <2>1, MovesAreSeen, EndsAreSeen DEF CheckG2p
<1>7. CASE StackRunsOut
  BY <1>7 DEF StackRunsOut, At, Running, SeamStep, SeesDeath
<1>8. CASE PollSentence
  <2>1. Running /\ "at" \in DOMAIN [frame EXCEPT !.at = "block"]
    BY <1>8 DEF PollSentence, At, Running, SeamInv
  <2> QED
    BY <1>8, <2>1, MovesAreSeen DEF PollSentence
<1>4. CASE SentenceBlock
  <2>1. PICK block, n :
          Emits(<<block>>, [frame EXCEPT !.at = "sentence", !.next = @ + 1, !.taken = @ + n])
    BY <1>4, Zenon DEF SentenceBlock
  <2>2. Running /\ "at" \in DOMAIN [frame EXCEPT !.at = "sentence", !.next = @ + 1, !.taken = @ + n]
    BY <1>4 DEF SentenceBlock, At, Running, SeamInv
  <2> QED
    BY <2>1, <2>2, ShortSequences, EmitsAreSeen
<1>5. CASE StopsSpeaking \/ FinishG2p
  BY <1>5, EndsAreSeen DEF StopsSpeaking, FinishG2p, At, Running
<1>6. CASE ClosingBlocks
  <2>1. PICK left, rest :
          Emits((IF Untaken = <<>> THEN <<>> ELSE <<left>>)
                  \o (IF frame.result.trailing = <<>> THEN <<>> ELSE <<rest>>),
                [frame EXCEPT !.at = "finish"])
    BY <1>6, Zenon DEF ClosingBlocks
  <2>2. Running /\ "at" \in DOMAIN [frame EXCEPT !.at = "finish"]
    BY <1>6 DEF ClosingBlocks, At, Running, SeamInv
  <2>3. IsSequence((IF Untaken = <<>> THEN <<>> ELSE <<left>>)
                     \o (IF frame.result.trailing = <<>> THEN <<>> ELSE <<rest>>))
    BY ShortSequences, SentGrows
  <2> QED
    BY <2>1, <2>2, <2>3, EmitsAreSeen
<1> QED
  BY <1>1, <1>2, <1>3, <1>4, <1>5, <1>6, <1>7, <1>8 DEF G2pNext

(* What one step of onNewSegment makes of the next new segment. *)
NextNew  == model.results - frame.new
NewText  == IF NextNew < frame.emitted THEN <<>> ELSE <<NextNew>>
NewFrame ==
  [frame EXCEPT !.at = IF frame.new = 1 THEN "decoded" ELSE "callback", !.new = @ - 1,
                !.text = @ \o NewText, !.emitted = IF NewText = <<>> THEN @ ELSE NextNew + 1]
NewBlocks ==
  IF request.kind = "listen" /\ NewText # <<>> THEN <<[type |-> "text", segments |-> NewText]>>
  ELSE <<>>

LEMMA NewSegmentIs ==
  ASSUME SeamInv, OnNewSegment
  PROVE  /\ phase = "serving" /\ model.engine = "whisper" /\ frame.at = "callback"
         /\ Emits(NewBlocks, NewFrame) /\ IsSequence(NewBlocks) /\ Len(NewBlocks) <= 1
         /\ request.kind # "listen" => NewBlocks = <<>>
         /\ DOMAIN NewFrame = DOMAIN frame
         /\ NewFrame.at = IF frame.new = 1 THEN "decoded" ELSE "callback"
<1>1. Emits(NewBlocks, NewFrame)
  BY DEF OnNewSegment, NewBlocks, NewFrame, NewText, NextNew
<1>2. NewBlocks = <<>> \/ \E x : NewBlocks = <<x>>
  BY DEF NewBlocks
<1>3. DOMAIN NewFrame = DOMAIN frame
      /\ NewFrame.at = IF frame.new = 1 THEN "decoded" ELSE "callback"
  BY DEF NewFrame, SeamInv
<1> QED
  BY <1>1, <1>2, <1>3, ShortSequences DEF OnNewSegment, At, NewBlocks

LEMMA WhisperIsSeen ==
  ASSUME SeamInv, WhisperNext
  PROVE  SeamStep
<1> DEFINE WithResults(next) ==
      /\ frame' = next
      /\ UNCHANGED <<request, phase, sent, report, cancelAt>>
      /\ "engine" \in DOMAIN model' /\ model'.engine = model.engine
<1>1. ASSUME NEW next, WithResults(next), Running, "at" \in DOMAIN next
      PROVE  SeamStep
  <2>1. sent \o <<>> = sent
    BY DEF SeamInv, IsSequence
  <2> QED
    BY <1>1, <2>1, ShortSequences DEF SeamStep, SeesBlocks
<1>2. CASE LoadWhisper
  BY <1>2, OpensAreSeen DEF LoadWhisper
<1>3. CASE ServeWhisper
  <2>1. "engine" \in DOMAIN model' /\ model'.engine = model.engine
    BY <1>3 DEF ServeWhisper, SeamInv
  <2>2. PICK r, pcm : Begin("whisper", r, WhisperFrame(pcm))
    BY <1>3 DEF ServeWhisper
  <2>3. "at" \in DOMAIN WhisperFrame(pcm)
    BY DEF WhisperFrame
  <2> QED
    BY <2>1, <2>2, <2>3, BeginsAreSeen
<1>4. CASE RefuseAudio \/ FullFails \/ WhisperHearsCancel \/ FinishWhisper
  BY <1>4, EndsAreSeen DEF RefuseAudio, FullFails, WhisperHearsCancel, FinishWhisper, At, Running
<1>5. CASE AnswerVad
  <2>1. PICK block : Emits(<<block>>, [frame EXCEPT !.at = "finish"])
    BY <1>5 DEF AnswerVad
  <2>2. Running /\ "at" \in DOMAIN [frame EXCEPT !.at = "finish"]
    BY <1>5 DEF AnswerVad, At, Running, SeamInv
  <2> QED
    BY <2>1, <2>2, ShortSequences, EmitsAreSeen
<1>6. CASE CallWhisper
  <2>1. PICK place : WithResults([frame EXCEPT !.at = place])
    BY <1>6 DEF CallWhisper, SeamInv
  <2>2. Running /\ "at" \in DOMAIN [frame EXCEPT !.at = place]
    BY <1>6 DEF CallWhisper, At, Running, SeamInv
  <2> QED
    BY <1>1, <2>1, <2>2
<1>7. CASE FindSegments
  <2>1. PICK n : WithResults([frame EXCEPT !.at = "callback", !.left = @ - n, !.new = n])
    BY <1>7 DEF FindSegments, SeamInv
  <2>2. Running /\ "at" \in DOMAIN [frame EXCEPT !.at = "callback", !.left = @ - n, !.new = n]
    BY <1>7 DEF FindSegments, At, Running, SeamInv
  <2> QED
    BY <1>1, <2>1, <2>2
<1>8. CASE OnNewSegment
  <2>1. /\ Emits(NewBlocks, NewFrame) /\ IsSequence(NewBlocks) /\ DOMAIN NewFrame = DOMAIN frame
        /\ phase = "serving" /\ frame.at = "callback"
    BY <1>8, NewSegmentIs
  <2>2. Running /\ "at" \in DOMAIN NewFrame
    BY <2>1 DEF Running, SeamInv
  <2> QED
    BY <2>1, <2>2, EmitsAreSeen
<1>9. CASE DecodeWindow \/ NextWindow \/ FullReturns
  <2>1. PICK next : Moves(next) /\ "at" \in DOMAIN next
    <3>1. CASE DecodeWindow
      <4> DEFINE next == [frame EXCEPT !.at = "decoded", !.left = PerWindow, !.read = "audio"]
      <4>1. Moves(next) /\ "at" \in DOMAIN next
        BY <3>1 DEF DecodeWindow, SeamInv
      <4> HIDE DEF next
      <4> QED
        BY <4>1
    <3>2. CASE NextWindow
      <4> DEFINE next == [frame EXCEPT !.at = "window", !.left = 0]
      <4>1. Moves(next) /\ "at" \in DOMAIN next
        BY <3>2 DEF NextWindow, SeamInv
      <4> HIDE DEF next
      <4> QED
        BY <4>1
    <3>3. CASE FullReturns
      <4> DEFINE next == [frame EXCEPT !.at = "full returned",
                             !.read = IF frame.at = "detect" THEN "language" ELSE @]
      <4>1. Moves(next) /\ "at" \in DOMAIN next
        BY <3>3 DEF FullReturns, SeamInv
      <4> HIDE DEF next
      <4> QED
        BY <4>1
    <3> QED
      BY <1>9, <3>1, <3>2, <3>3
  <2>2. Running
    BY <1>9 DEF DecodeWindow, NextWindow, FullReturns, At, Running
  <2> QED
    BY <2>1, <2>2, MovesAreSeen
<1>10. CASE AnswerWhisper
  <2>1. PICK blocks : /\ Emits(blocks, [frame EXCEPT !.at = "finish"])
                      /\ blocks = <<>> \/ \E block : blocks = <<block>>
    BY <1>10 DEF AnswerWhisper
  <2>2. Running /\ "at" \in DOMAIN [frame EXCEPT !.at = "finish"]
    BY <1>10 DEF AnswerWhisper, At, Running, SeamInv
  <2>3. IsSequence(blocks)
    BY <2>1, ShortSequences
  <2> QED
    BY <2>1, <2>2, <2>3, EmitsAreSeen
<1> QED
  BY <1>2, <1>3, <1>4, <1>5, <1>6, <1>7, <1>8, <1>9, <1>10 DEF WhisperNext

LEMMA GgufIsSeen ==
  ASSUME SeamInv, GgufNext
  PROVE  SeamStep
<1>1. ASSUME NEW n, NEW next, Decoded(n, next), Running, "at" \in DOMAIN next
      PROVE  SeamStep
  <2>1. sent \o <<>> = sent
    BY DEF SeamInv, IsSequence
  <2>2. "engine" \in DOMAIN model' /\ model'.engine = model.engine
    BY <1>1 DEF Decoded, SeamInv
  <2> QED
    BY <1>1, <2>1, <2>2, ShortSequences DEF Decoded, SeamStep, SeesBlocks
<1>2. CASE LoadGguf
  BY <1>2, OpensAreSeen DEF LoadGguf
<1>3. CASE ServeGguf
  <2>1. "engine" \in DOMAIN model' /\ model'.engine = model.engine
    BY <1>3 DEF ServeGguf, SeamInv
  <2>2. PICK r : Begin("gguf", r, GgufFrame)
    BY <1>3 DEF ServeGguf
  <2>3. "at" \in DOMAIN GgufFrame
    BY DEF GgufFrame
  <2> QED
    BY <2>1, <2>2, <2>3, BeginsAreSeen
<1>4. CASE RefuseGguf \/ IngestFails \/ FinishGguf
  BY <1>4, EndsAreSeen DEF RefuseGguf, IngestFails, FinishGguf, Ready, At, Running
<1>5. CASE IngestAborts \/ AcceptThrows
  BY <1>5 DEF IngestAborts, AcceptThrows, Ready, At, Running, SeamStep, SeesDeath
<1>6. CASE IngestPrompt
  <2> DEFINE next == [frame EXCEPT !.at = "loop", !.budget = BudgetOf(request),
                                   !.sampler = Sampler(request.schema)]
  <2>1. Decoded(request.tokens, next) /\ Running /\ "at" \in DOMAIN next
    BY <1>6 DEF IngestPrompt, Ready, At, Running, SeamInv
  <2> HIDE DEF next
  <2> QED
    BY <1>1, <2>1
<1>7. CASE EmbedInput
  <2> DEFINE next == [frame EXCEPT !.at = "vector"]
  <2>1. Decoded(request.tokens, next) /\ Running /\ "at" \in DOMAIN next
    BY <1>7 DEF EmbedInput, Ready, At, Running, SeamInv
  <2> HIDE DEF next
  <2> QED
    BY <1>1, <2>1
<1>8. CASE AnswerVector
  <2>1. Running /\ "at" \in DOMAIN [frame EXCEPT !.at = "finish"]
    BY <1>8 DEF AnswerVector, At, Running, SeamInv
  <2> QED
    BY <1>8, <2>1, ShortSequences, EmitsAreSeen, EndsAreSeen DEF AnswerVector
<1>9. ASSUME NEW place, At("gguf", place), place # "return",
             NEW next, Moves(next), "at" \in DOMAIN next
      PROVE  SeamStep
  BY <1>9, MovesAreSeen DEF At, Running
<1>10. CASE PollGguf
  <2> DEFINE next == IF frame.generated >= frame.budget THEN [frame EXCEPT !.at = "flush"]
                     ELSE IF Cancelled THEN [frame EXCEPT !.at = "flush", !.reason = "cancelled"]
                     ELSE [frame EXCEPT !.at = "sample"]
  <2>1. At("gguf", "loop") /\ Moves(next) /\ "at" \in DOMAIN next
    BY <1>10 DEF PollGguf, SeamInv
  <2> HIDE DEF next
  <2> QED
    BY <1>9, <2>1
<1>11. CASE SampleEnd
  <2> DEFINE next == [frame EXCEPT !.at = "flush"]
  <2>1. At("gguf", "sample") /\ Moves(next) /\ "at" \in DOMAIN next
    BY <1>11 DEF SampleEnd, SeamInv
  <2> HIDE DEF next
  <2> QED
    BY <1>9, <2>1
<1>12. CASE SamplePiece
  <2> DEFINE next(piece) == [frame EXCEPT !.at = "accept", !.picked = piece,
                                          !.sampler = Takes(@, piece)]
  <2>1. PICK piece : At("gguf", "sample") /\ Moves(next(piece)) /\ "at" \in DOMAIN next(piece)
    BY <1>12 DEF SamplePiece, SeamInv
  <2> HIDE DEF next
  <2> QED
    BY <1>9, <2>1
<1>13. CASE AcceptPiece
  <2> DEFINE next == [frame EXCEPT !.at = "emit", !.sampler = Takes(@, frame.picked),
                                   !.carry = @ \o frame.picked,
                                   !.pieces = Append(@, frame.picked),
                                   !.produced = @ \o frame.picked]
  <2>1. At("gguf", "accept") /\ Moves(next) /\ "at" \in DOMAIN next
    BY <1>13 DEF AcceptPiece, SeamInv
  <2> HIDE DEF next
  <2> QED
    BY <1>9, <2>1
<1>14. CASE EmitWhole
  <2>1. PICK blocks, whole :
          /\ Emits(blocks, [frame EXCEPT !.at = "decode", !.generated = @ + 1,
                                         !.carry = SubSeq(@, whole + 1, Len(@))])
          /\ blocks = <<>> \/ \E block : blocks = <<block>>
    BY <1>14 DEF EmitWhole
  <2>2. /\ Running
        /\ "at" \in DOMAIN [frame EXCEPT !.at = "decode", !.generated = @ + 1,
                                         !.carry = SubSeq(@, whole + 1, Len(@))]
    BY <1>14 DEF EmitWhole, At, Running, SeamInv
  <2>3. IsSequence(blocks)
    BY <2>1, ShortSequences
  <2> QED
    BY <2>1, <2>2, <2>3, EmitsAreSeen
<1>15. CASE DecodeToken
  <2>1. CASE Decoded(1, [frame EXCEPT !.at = "loop"])
    <3>1. Running /\ "at" \in DOMAIN [frame EXCEPT !.at = "loop"]
      BY <1>15 DEF DecodeToken, At, Running, SeamInv
    <3> QED
      BY <1>1, <2>1, <3>1
  <2>2. CASE Moves([frame EXCEPT !.at = "flush", !.reason = "decode_error"])
    <3>1. /\ At("gguf", "decode")
          /\ "at" \in DOMAIN [frame EXCEPT !.at = "flush", !.reason = "decode_error"]
      BY <1>15 DEF DecodeToken, SeamInv
    <3> QED
      BY <1>9, <2>2, <3>1
  <2> QED
    BY <1>15, <2>1, <2>2 DEF DecodeToken
<1>16. CASE FlushCarry
  <2>1. PICK blocks, reason :
          /\ Emits(blocks, [frame EXCEPT !.at = "finish", !.carry = <<>>, !.reason = reason])
          /\ blocks = <<>> \/ \E block : blocks = <<block>>
    BY <1>16 DEF FlushCarry
  <2>2. /\ Running
        /\ "at" \in DOMAIN [frame EXCEPT !.at = "finish", !.carry = <<>>, !.reason = reason]
    BY <1>16 DEF FlushCarry, At, Running, SeamInv
  <2>3. IsSequence(blocks)
    BY <2>1, ShortSequences
  <2> QED
    BY <2>1, <2>2, <2>3, EmitsAreSeen
<1> QED
  BY <1>2, <1>3, <1>4, <1>5, <1>6, <1>7, <1>8, <1>10, <1>11, <1>12, <1>13, <1>14,
     <1>15, <1>16 DEF GgufNext

-----------------------------------------------------------------------------
(* The contract.                                                           *)

LEMMA EveryStepIsSeen ==
  ASSUME SeamInv, Next
  PROVE  SeamStep \/ Cancel \/ Returned \/ Released \/ Relaunch
BY GgufIsSeen, WhisperIsSeen, G2pIsSeen, MockIsSeen DEF Next

LEMMA SeamInvHolds ==
  ASSUME SeamInv, [Next]_vars
  PROVE  SeamInv'
<1>1. CASE SeesModel
  BY <1>1 DEF SeesModel, SeamInv, IsSequence
<1>2. CASE SeesServe
  <2>1. IsSequence(sent')
    BY <1>2, ShortSequences DEF SeesServe
  <2> QED
    BY <1>2, <2>1 DEF SeesServe, SeamInv, IsSequence
<1>3. CASE SeesBlocks
  <2>1. IsSequence(sent')
    BY <1>3, SentGrows DEF SeesBlocks, SeamInv
  <2>2. report = <<>> /\ report' = <<>> /\ phase' = "serving"
    BY <1>3 DEF SeesBlocks, SeamInv, Running
  <2> QED
    BY <1>3, <2>1, <2>2 DEF SeesBlocks, SeamInv, IsSequence
<1>4. CASE SeesEnd
  <2>1. report = <<>> /\ phase' = "serving"
    BY <1>4 DEF SeesEnd, SeamInv, Running
  <2>2. \A x : <<>> \o <<x>> = <<x>>
    OBVIOUS
  <2>3. "at" \in DOMAIN frame' /\ frame'.at = "return"
    BY <1>4 DEF SeesEnd, SeamInv
  <2>4. \/ report' = <<>>
        \/ \E why : report' = <<[is |-> "failed", why |-> why]>>
        \/ \E why : report' = <<[is |-> "finished", why |-> why]>>
    BY <1>4, <2>1, <2>2 DEF SeesEnd
  <2> QED
    BY <1>4, <2>1, <2>3, <2>4 DEF SeesEnd, SeamInv, IsSequence
<1>5. CASE SeesDeath
  BY <1>5 DEF SeesDeath, Dies, Running, SeamInv, IsSequence
<1>6. CASE Cancel
  BY <1>6 DEF Cancel, SeamInv, IsSequence
<1>7. CASE Returned
  <2>1. IsSequence(sent')
    BY <1>7, ShortSequences DEF Returned, Idle
  <2> QED
    BY <1>7, <2>1 DEF Returned, Idle, NoFrame, SeamInv, IsSequence
<1>8. CASE Released
  BY <1>8 DEF Released, NotLoaded, SeamInv, IsSequence
<1>9. CASE Relaunch
  <2>1. IsSequence(sent')
    BY <1>9, ShortSequences DEF Relaunch, Idle
  <2> QED
    BY <1>9, <2>1 DEF Relaunch, Idle, NoFrame, NotLoaded, SeamInv, IsSequence
<1>10. CASE UNCHANGED vars
  BY <1>10 DEF vars, seamVars, SeamInv, IsSequence
<1> QED
  BY <1>1, <1>2, <1>3, <1>4, <1>5, <1>6, <1>7, <1>8, <1>9, <1>10, EveryStepIsSeen DEF SeamStep

THEOREM SeamInvariant == Spec => []SeamInv
<1>1. SeamInit => SeamInv
  BY ShortSequences DEF SeamInit, NotLoaded, NoFrame, SeamInv
<1>2. SeamInv /\ [Next]_vars => SeamInv'
  BY SeamInvHolds
<1> QED
  BY <1>1, <1>2, PTL DEF Spec

LEMMA StepKeepsContract ==
  ASSUME SeamInv, SeamInv', [Next]_vars
  PROVE  [Contract!EmitterNext]_Contract!emitterVars
<1> USE DEF Contract!EmitterNext, Contract!emitterVars, Contract!Begin, Contract!EmitBlock,
            Contract!ReportEnd, Contract!Return, Contract!Lose
<1>1. CASE SeesModel
  BY <1>1 DEF SeesModel
<1>2. CASE SeesServe
  <2>1. Len(sent) = 0 /\ Len(sent') = 0 /\ report = <<>> /\ report' = <<>>
    BY <1>2 DEF SeesServe, SeamInv
  <2> QED
    BY <1>2, <2>1 DEF SeesServe
<1>3. CASE SeesBlocks
  <2>1. PICK blocks : IsSequence(blocks) /\ sent' = sent \o blocks
    BY <1>3 DEF SeesBlocks
  <2>2. /\ Len(sent) \in Nat /\ Len(blocks) \in Nat
        /\ Len(sent') = Len(sent) + Len(blocks)
    BY <2>1, SentGrows DEF SeamInv
  <2>3. report = <<>> /\ report' = <<>> /\ phase = "serving" /\ phase' = "serving"
    BY <1>3 DEF SeesBlocks, SeamInv, Running
  <2>4. CASE Len(blocks) = 0
    BY <2>2, <2>3, <2>4
  <2>5. CASE Len(blocks) > 0
    BY <2>2, <2>3, <2>5
  <2> QED
    BY <2>2, <2>4, <2>5
<1>4. CASE SeesEnd
  <2>1. report = <<>> /\ phase = "serving" /\ phase' = "serving" /\ sent' = sent
    BY <1>4 DEF SeesEnd, SeamInv, Running
  <2>2. CASE report' = <<>>
    BY <2>1, <2>2
  <2>3. ASSUME NEW end, report' = <<end>>, end.is \in {"failed", "finished"}
        PROVE  Contract!ReportEnd
    <3>1. report' # <<>> /\ report'[Len(report')].is = end.is
      BY <2>3
    <3> QED
      BY <2>1, <2>3, <3>1
  <2>4. CASE \E why : report' = <<[is |-> "failed", why |-> why]>>
    BY <2>3, <2>4
  <2>5. CASE \E why : report' = <<[is |-> "finished", why |-> why]>>
    BY <2>3, <2>5
  <2> QED
    BY <2>2, <2>4, <2>5 DEF SeamInv
<1>5. CASE SeesDeath
  <2>1. report = <<>> /\ report' = <<>> /\ sent' = sent /\ phase = "serving" /\ phase' = "dead"
    BY <1>5 DEF SeesDeath, Dies, Running, SeamInv
  <2> QED
    BY <2>1
<1>6. CASE Cancel
  BY <1>6 DEF Cancel
<1>7. CASE Returned \/ Relaunch
  <2>1. phase \in {"serving", "dead"} /\ phase' = "idle" /\ Len(sent') = 0 /\ report' = <<>>
    BY <1>7 DEF Returned, Relaunch, Idle
  <2> QED
    BY <2>1
<1>8. CASE Released
  BY <1>8 DEF Released
<1>9. CASE UNCHANGED vars
  BY <1>9 DEF vars, seamVars
<1> QED
  BY <1>1, <1>2, <1>3, <1>4, <1>5, <1>6, <1>7, <1>8, <1>9, EveryStepIsSeen DEF SeamStep

(* Whatever the models, requests, scripts, recordings, packs and texts,    *)
(* every backend keeps the contract of backend.hpp: it emits only while it *)
(* serves and has reported no end, it reports one end at most, and then it *)
(* only returns.                                                           *)
THEOREM BackendsImplementEmitter == Spec => ImplementsEmitter
<1>1. SeamInit => Contract!EmitterInit
  BY DEF SeamInit, Contract!EmitterInit
<1>2. SeamInv /\ SeamInv' /\ [Next]_vars => [Contract!EmitterNext]_Contract!emitterVars
  BY StepKeepsContract
<1> QED
  BY <1>1, <1>2, SeamInvariant, PTL DEF Spec, ImplementsEmitter, Contract!EmitterSpec

-----------------------------------------------------------------------------
(* Cancelling.                                                             *)

(* How many blocks a cancelled backend may have emitted since, at a place  *)
(* of its serve.                                                           *)
Slack(engine, at) ==
  CASE engine = "gguf" /\ at \in {"decode", "loop", "flush"} -> 1
    [] engine = "gguf" /\ at \in {"finish", "return"}        -> 2
    [] engine = "g2p" /\ at = "sentence"                     -> 1
    [] engine = "g2p" /\ at \in {"finish", "return"}         -> 2
    [] engine = "whisper" /\ at \in {"finish", "return"}     -> 1
    [] OTHER                                                 -> 0

Streams == model.engine = "whisper" /\ request.kind = "listen"

(* The bound of CancelIsHeard, place by place, and where a process dies.   *)
HearInv ==
  /\ phase = "serving" => model.engine \in {"gguf", "g2p", "whisper", "mock"}
  /\ phase = "dead" => /\ model.engine \in {"gguf", "g2p"}
                       /\ frame.at \in {"checks", "accept"}
  /\ Cancelled => cancelAt \in Nat
  /\ Cancelled /\ ~Streams => Len(sent) <= cancelAt + Slack(model.engine, frame.at)

(* No token is left over when every sentence has had its block.            *)
NothingLeft ==
  At("g2p", "sentence") /\ frame.next = Len(frame.result.sentences) => Untaken = <<>>

LEMMA SlackNat == \A engine, at : Slack(engine, at) \in 0 .. 2
BY DEF Slack

(* A step of a serve that emits n blocks keeps the bound when the place it *)
(* leads to allows for them.                                               *)
LEMMA HeardOn ==
  ASSUME SeamInv, HearInv, phase = "serving", phase' = "serving",
         model'.engine = model.engine, UNCHANGED <<request, cancelAt>>,
         NEW n \in Nat, Len(sent') = Len(sent) + n,
         \/ ~Cancelled \/ Streams
         \/ n + Slack(model.engine, frame.at) <= Slack(model.engine, frame'.at)
  PROVE  HearInv'
<1>1. Len(sent) \in Nat
  BY SentGrows DEF SeamInv
<1>2. Cancelled' = Cancelled /\ Streams' = Streams
  BY DEF Cancelled, Streams
<1>3. Slack(model.engine, frame.at) \in Nat /\ Slack(model.engine, frame'.at) \in Nat
  BY SlackNat
<1> QED
  BY <1>1, <1>2, <1>3 DEF HearInv

LEMMA HeardMoves ==
  ASSUME SeamInv, HearInv, NEW next, Moves(next), phase = "serving",
         ~Cancelled \/ Slack(model.engine, frame.at) <= Slack(model.engine, next.at)
  PROVE  HearInv'
<1>1. Len(sent) \in Nat /\ Slack(model.engine, frame.at) \in Nat
  BY SentGrows, SlackNat DEF SeamInv
<1>2. /\ model' = model /\ request' = request /\ phase' = phase /\ sent' = sent
      /\ cancelAt' = cancelAt /\ frame' = next
  BY DEF Moves
<1>3. Len(sent') = Len(sent) + 0
  BY <1>1, <1>2
<1>4. ~Cancelled \/ 0 + Slack(model.engine, frame.at) <= Slack(model.engine, frame'.at)
  BY <1>1, <1>2
<1> QED
  BY <1>2, <1>3, <1>4, HeardOn

LEMMA HeardEmits ==
  ASSUME SeamInv, HearInv, NEW next, NEW blocks, IsSequence(blocks), Emits(blocks, next),
         phase = "serving",
         \/ ~Cancelled \/ Streams
         \/ Len(blocks) + Slack(model.engine, frame.at) <= Slack(model.engine, next.at)
  PROVE  HearInv'
<1>1. Len(blocks) \in Nat /\ Len(sent') = Len(sent) + Len(blocks)
  BY SentGrows DEF SeamInv, Emits
<1>2. /\ model' = model /\ request' = request /\ phase' = phase
      /\ cancelAt' = cancelAt /\ frame' = next
  BY DEF Emits
<1> QED
  BY <1>1, <1>2, HeardOn

(* Where serve only returns, the bound is as wide as anywhere before. *)
LEMMA HeardEnds ==
  ASSUME SeamInv, HearInv, phase = "serving",
         ReturnsSilently \/ (\E code : Fails(code)) \/ (\E why : Finishes(why))
  PROVE  HearInv'
<1>1. /\ model' = model /\ request' = request /\ phase' = phase /\ sent' = sent
      /\ cancelAt' = cancelAt /\ frame' = [frame EXCEPT !.at = "return"]
  BY DEF ReturnsSilently, Fails, Finishes, Ends
<1>2. frame'.at = "return"
  BY <1>1 DEF SeamInv
<1>3. Slack(model.engine, frame.at) <= Slack(model.engine, "return")
  BY DEF Slack
<1>4. Len(sent) \in Nat /\ Slack(model.engine, frame.at) \in Nat
  BY SentGrows, SlackNat DEF SeamInv
<1>5. /\ Len(sent') = Len(sent) + 0
      /\ 0 + Slack(model.engine, frame.at) <= Slack(model.engine, frame'.at)
  BY <1>1, <1>2, <1>3, <1>4
<1> QED
  BY <1>1, <1>5, HeardOn

LEMMA HeardOpens ==
  ASSUME NEW m, Opened(m), SeamInv
  PROVE  HearInv'
BY DEF Opened, Empty, HearInv, SeamInv, Cancelled

LEMMA HeardBegins ==
  ASSUME NEW engine \in {"gguf", "g2p", "whisper", "mock"}, NEW r, NEW first,
         Begin(engine, r, first), model'.engine = model.engine
  PROVE  HearInv'
BY DEF Begin, Waiting, HearInv, Cancelled

LEMMA MockHears ==
  ASSUME SeamInv, HearInv, MockNext
  PROVE  HearInv'
<1> USE DEF AtEvent, At
<1>1. CASE LoadMock
  BY <1>1, HeardOpens DEF LoadMock
<1>2. CASE ServeMock
  <2>1. model'.engine = model.engine
    BY <1>2 DEF ServeMock, SeamInv
  <2>2. PICK script : Begin("mock", [kind |-> "mock"], MockFrame(script))
    BY <1>2 DEF ServeMock
  <2> QED
    BY <2>1, <2>2, HeardBegins
<1>3. CASE ScriptEnds \/ MockHearsCancel \/ PausedHearsCancel \/ FailMock \/ CompleteMock
  BY <1>3, HeardEnds
     DEF ScriptEnds, MockHearsCancel, PausedHearsCancel, FailMock, CompleteMock
<1>4. CASE PlayEvent
  <2>1. IsSequence(Shown(Event))
    <3>1. Shown(Event) = <<>> \/ \E block : Shown(Event) = <<block>>
      BY DEF Shown
    <3> QED
      BY <3>1, ShortSequences
  <2> QED
    BY <1>4, <2>1, HeardEmits DEF PlayEvent
<1>5. CASE PauseMock
  BY <1>5, HeardMoves DEF PauseMock
<1> QED
  BY <1>1, <1>2, <1>3, <1>4, <1>5 DEF MockNext

LEMMA G2pHears ==
  ASSUME SeamInv, HearInv, NothingLeft, G2pNext
  PROVE  HearInv'
<1> USE DEF At
<1>1. CASE LoadPack
  BY <1>1, HeardOpens DEF LoadPack
<1>2. CASE ServeG2p
  <2>1. model'.engine = model.engine
    BY <1>2 DEF ServeG2p
  <2>2. PICK r, result :
          Begin("g2p", r, [at |-> "checks", next |-> 0, taken |-> 0, result |-> result])
    BY <1>2 DEF ServeG2p
  <2> QED
    BY <2>1, <2>2, HeardBegins
<1>3. CASE CheckG2p
  <2>1. CASE Moves([frame EXCEPT !.at = "sentence"])
    <3>1. [frame EXCEPT !.at = "sentence"].at = "sentence"
      BY DEF SeamInv
    <3>2. Slack(model.engine, frame.at) <= Slack(model.engine, "sentence")
      BY <1>3 DEF CheckG2p, Slack
    <3> QED
      BY <1>3, <2>1, <3>1, <3>2, HeardMoves DEF CheckG2p
  <2> QED
    BY <1>3, <2>1, HeardEnds DEF CheckG2p
<1>7. CASE StackRunsOut
  BY <1>7 DEF StackRunsOut, Dies, HearInv, Cancelled, Streams
<1>8. CASE PollSentence
  BY <1>8, HeardMoves DEF PollSentence
<1>4. CASE SentenceBlock
  <2>1. PICK block, n :
          Emits(<<block>>, [frame EXCEPT !.at = "sentence", !.next = @ + 1, !.taken = @ + n])
    BY <1>4, Zenon DEF SentenceBlock
  <2> DEFINE next == [frame EXCEPT !.at = "sentence", !.next = @ + 1, !.taken = @ + n]
  <2>2. next.at = "sentence"
    BY DEF SeamInv
  <2>3. Slack(model.engine, frame.at) = 0 /\ Slack(model.engine, "sentence") = 1
    BY <1>4 DEF SentenceBlock, Slack
  <2>4. IsSequence(<<block>>) /\ Len(<<block>>) = 1
    BY ShortSequences
  <2>5. Len(<<block>>) + Slack(model.engine, frame.at) <= Slack(model.engine, next.at)
    BY <2>2, <2>3, <2>4
  <2>6. Emits(<<block>>, next) /\ phase = "serving"
    BY <1>4, <2>1 DEF SentenceBlock
  <2> HIDE DEF next
  <2> QED
    BY <2>4, <2>5, <2>6, HeardEmits
<1>5. CASE StopsSpeaking \/ FinishG2p
  BY <1>5, HeardEnds DEF StopsSpeaking, FinishG2p
<1>6. CASE ClosingBlocks
  <2>0. Untaken = <<>>
    BY <1>6 DEF ClosingBlocks, NothingLeft
  <2>1. PICK left, rest :
          Emits((IF Untaken = <<>> THEN <<>> ELSE <<left>>)
                  \o (IF frame.result.trailing = <<>> THEN <<>> ELSE <<rest>>),
                [frame EXCEPT !.at = "finish"])
    BY <1>6, Zenon DEF ClosingBlocks
  <2> DEFINE one == IF Untaken = <<>> THEN <<>> ELSE <<left>>
             two == IF frame.result.trailing = <<>> THEN <<>> ELSE <<rest>>
  <2>2. IsSequence(one) /\ IsSequence(two) /\ Len(one) = 0 /\ Len(two) <= 1
    BY <2>0, ShortSequences
  <2>3. Emits(one \o two, [frame EXCEPT !.at = "finish"])
    BY <2>1
  <2>4. [frame EXCEPT !.at = "finish"].at = "finish"
    BY DEF SeamInv
  <2>5. Slack(model.engine, frame.at) = 1 /\ Slack(model.engine, "finish") = 2
    BY <1>6 DEF ClosingBlocks, Slack
  <2> HIDE DEF one, two
  <2>6. IsSequence(one \o two) /\ Len(one \o two) <= 1
    BY <2>2, SentGrows
  <2>7. Len(one \o two) + Slack(model.engine, frame.at)
          <= Slack(model.engine, [frame EXCEPT !.at = "finish"].at)
    BY <2>2, <2>4, <2>5, <2>6, SentGrows
  <2> QED
    BY <1>6, <2>3, <2>6, <2>7, HeardEmits DEF ClosingBlocks
<1> QED
  BY <1>1, <1>2, <1>3, <1>4, <1>5, <1>6, <1>7, <1>8 DEF G2pNext

LEMMA WhisperHears ==
  ASSUME SeamInv, HearInv, WhisperNext
  PROVE  HearInv'
<1> USE DEF At
<1>1. Len(sent) \in Nat
  BY SentGrows DEF SeamInv
<1>2. ASSUME phase = "serving", model.engine = "whisper", frame.at \in {"audio", "decoded"},
             model'.engine = model.engine,
             UNCHANGED <<request, phase, sent, report, cancelAt>>
      PROVE  HearInv'
  <2>1. Slack(model.engine, frame.at) = 0 /\ Slack(model.engine, frame'.at) \in Nat
    BY <1>2, SlackNat DEF Slack
  <2>2. Len(sent') = Len(sent) + 0
    BY <1>1, <1>2
  <2>3. 0 + Slack(model.engine, frame.at) <= Slack(model.engine, frame'.at)
    BY <2>1
  <2> QED
    BY <1>2, <2>2, <2>3, HeardOn
<1>3. CASE LoadWhisper
  BY <1>3, HeardOpens DEF LoadWhisper
<1>4. CASE ServeWhisper
  <2>1. model'.engine = model.engine
    BY <1>4 DEF ServeWhisper
  <2>2. PICK r, pcm : Begin("whisper", r, WhisperFrame(pcm))
    BY <1>4 DEF ServeWhisper
  <2> QED
    BY <2>1, <2>2, HeardBegins
<1>5. CASE RefuseAudio \/ FullFails \/ WhisperHearsCancel \/ FinishWhisper
  BY <1>5, HeardEnds DEF RefuseAudio, FullFails, WhisperHearsCancel, FinishWhisper
<1>6. CASE AnswerVad
  <2>1. PICK block : Emits(<<block>>, [frame EXCEPT !.at = "finish"])
    BY <1>6 DEF AnswerVad
  <2>2. [frame EXCEPT !.at = "finish"].at = "finish"
    BY DEF SeamInv
  <2>3. Slack(model.engine, frame.at) = 0 /\ Slack(model.engine, "finish") = 1
    BY <1>6 DEF AnswerVad, Slack
  <2>4. IsSequence(<<block>>) /\ Len(<<block>>) = 1
    BY ShortSequences
  <2>5. Len(<<block>>) + Slack(model.engine, frame.at)
          <= Slack(model.engine, [frame EXCEPT !.at = "finish"].at)
    BY <2>2, <2>3, <2>4
  <2> QED
    BY <1>6, <2>1, <2>4, <2>5, HeardEmits DEF AnswerVad
<1>7. CASE CallWhisper \/ FindSegments
  <2>1. model'.engine = model.engine
    BY <1>7 DEF CallWhisper, FindSegments, SeamInv
  <2> QED
    BY <1>2, <1>7, <2>1 DEF CallWhisper, FindSegments
<1>8. CASE OnNewSegment
  <2>1. /\ phase = "serving" /\ model.engine = "whisper" /\ frame.at = "callback"
        /\ Emits(NewBlocks, NewFrame) /\ IsSequence(NewBlocks)
        /\ request.kind # "listen" => NewBlocks = <<>>
    BY <1>8, NewSegmentIs
  <2>2. CASE request.kind = "listen"
    BY <2>1, <2>2, HeardEmits DEF Streams
  <2>3. CASE request.kind # "listen"
    <3>1. Slack(model.engine, frame.at) = 0 /\ Slack(model.engine, NewFrame.at) \in Nat
      BY <2>1, SlackNat DEF Slack
    <3>2. Len(NewBlocks) = 0
      BY <2>1, <2>3
    <3> QED
      BY <2>1, <3>1, <3>2, HeardEmits
  <2> QED
    BY <2>2, <2>3
<1>9. CASE DecodeWindow \/ NextWindow \/ FullReturns
  <2>1. PICK next : Moves(next)
    BY <1>9, Zenon DEF DecodeWindow, NextWindow, FullReturns
  <2>2. /\ phase = "serving" /\ model.engine = "whisper"
        /\ frame.at \in {"window", "decoded", "detect"}
    BY <1>9 DEF DecodeWindow, NextWindow, FullReturns
  <2>3. Slack(model.engine, frame.at) = 0 /\ Slack(model.engine, next.at) \in Nat
    BY <2>2, SlackNat DEF Slack
  <2> QED
    BY <2>1, <2>2, <2>3, HeardMoves
<1>10. CASE AnswerWhisper
  <2>1. PICK blocks : /\ Emits(blocks, [frame EXCEPT !.at = "finish"])
                      /\ blocks = <<>> \/ \E block : blocks = <<block>>
    BY <1>10 DEF AnswerWhisper
  <2>2. IsSequence(blocks)
    BY <2>1, ShortSequences
  <2> QED
    BY <1>10, <2>1, <2>2, HeardEmits DEF AnswerWhisper
<1> QED
  BY <1>3, <1>4, <1>5, <1>6, <1>7, <1>8, <1>9, <1>10 DEF WhisperNext

LEMMA GgufHears ==
  ASSUME SeamInv, HearInv, GgufNext
  PROVE  HearInv'
<1> USE DEF At
<1>1. Len(sent) \in Nat
  BY SentGrows DEF SeamInv
<1>2. ASSUME NEW from, NEW to, At("gguf", from),
             frame'.at = to, model'.engine = model.engine,
             UNCHANGED <<request, phase, sent, report, cancelAt>>,
             ~Cancelled \/ Slack("gguf", from) <= Slack("gguf", to)
      PROVE  HearInv'
  <2>1. Slack("gguf", from) \in Nat /\ Slack("gguf", to) \in Nat
    BY SlackNat
  <2>2. Len(sent') = Len(sent) + 0
    BY <1>1, <1>2
  <2>3. \/ ~Cancelled
        \/ 0 + Slack(model.engine, frame.at) <= Slack(model.engine, frame'.at)
    BY <1>2, <2>1
  <2> QED
    BY <1>2, <2>2, <2>3, HeardOn
<1>3. ASSUME NEW from, NEW to, At("gguf", from), NEW blocks, NEW next,
             blocks = <<>> \/ (\E block : blocks = <<block>>),
             Emits(blocks, next), next.at = to,
             1 + Slack("gguf", from) <= Slack("gguf", to)
      PROVE  HearInv'
  <2>1. IsSequence(blocks) /\ Len(blocks) \in 0 .. 1
    BY <1>3, ShortSequences
  <2>2. Slack("gguf", from) \in Nat /\ Slack("gguf", to) \in Nat
    BY SlackNat
  <2>3. Len(blocks) + Slack("gguf", from) <= Slack("gguf", to)
    <3> DEFINE a == Slack("gguf", from)
               b == Slack("gguf", to)
               n == Len(blocks)
    <3>1. a \in Nat /\ b \in Nat /\ n \in 0 .. 1 /\ 1 + a <= b
      BY <1>3, <2>1, <2>2
    <3> HIDE DEF a, b, n
    <3>2. n + a <= b
      BY <3>1
    <3> QED
      BY <3>2 DEF a, b, n
  <2> QED
    BY <1>3, <2>1, <2>3, HeardEmits
<1>4. CASE LoadGguf
  BY <1>4, HeardOpens DEF LoadGguf
<1>5. CASE ServeGguf
  <2>1. model'.engine = model.engine
    BY <1>5 DEF ServeGguf, SeamInv
  <2>2. PICK r : Begin("gguf", r, GgufFrame)
    BY <1>5 DEF ServeGguf
  <2> QED
    BY <2>1, <2>2, HeardBegins
<1>6. CASE RefuseGguf \/ IngestFails \/ FinishGguf
  BY <1>6, HeardEnds DEF RefuseGguf, IngestFails, FinishGguf, Ready
<1>7. CASE IngestAborts \/ AcceptThrows
  <2>1. /\ model' = model /\ request' = request /\ sent' = sent /\ cancelAt' = cancelAt
        /\ frame' = frame /\ phase' = "dead" /\ model.engine = "gguf"
        /\ frame.at \in {"checks", "accept"}
    BY <1>7 DEF IngestAborts, AcceptThrows, Ready, Dies
  <2> QED
    BY <2>1 DEF HearInv, Streams, Cancelled
<1>8. CASE IngestPrompt \/ EmbedInput
  <2>1. At("gguf", "checks") /\ model'.engine = model.engine
    BY <1>8 DEF IngestPrompt, EmbedInput, Ready, Decoded, SeamInv
  <2>2. UNCHANGED <<request, phase, sent, report, cancelAt>>
    BY <1>8 DEF IngestPrompt, EmbedInput, Decoded
  <2>3. frame'.at \in {"loop", "vector"}
    BY <1>8 DEF IngestPrompt, EmbedInput, Decoded, SeamInv
  <2>4. \A to \in {"loop", "vector"} : Slack("gguf", "checks") <= Slack("gguf", to)
    BY DEF Slack
  <2> QED
    BY <1>2, <2>1, <2>2, <2>3, <2>4
<1>9. CASE AnswerVector
  <2>1. CASE Emits(<<[type |-> "embedding"]>>, [frame EXCEPT !.at = "finish"])
    <3>1. [frame EXCEPT !.at = "finish"].at = "finish"
      BY DEF SeamInv
    <3>2. 1 + Slack("gguf", "vector") <= Slack("gguf", "finish")
      BY DEF Slack
    <3> QED
      BY <1>3, <1>9, <2>1, <3>1, <3>2 DEF AnswerVector
  <2> QED
    BY <1>9, <2>1, HeardEnds DEF AnswerVector
<1>10. CASE PollGguf
  <2>1. At("gguf", "loop") /\ model'.engine = model.engine
    BY <1>10 DEF PollGguf, Moves
  <2>2. UNCHANGED <<request, phase, sent, report, cancelAt>>
    BY <1>10 DEF PollGguf, Moves
  <2>3. frame'.at = "flush" \/ (~Cancelled /\ frame'.at = "sample")
    BY <1>10 DEF PollGguf, Moves, SeamInv
  <2>4. Slack("gguf", "loop") <= Slack("gguf", "flush")
    BY DEF Slack
  <2> QED
    BY <1>2, <2>1, <2>2, <2>3, <2>4
<1>11. CASE SampleEnd \/ SamplePiece \/ AcceptPiece
  <2>1. PICK from \in {"sample", "accept"} : At("gguf", from)
    BY <1>11 DEF SampleEnd, SamplePiece, AcceptPiece
  <2>2. model'.engine = model.engine /\ UNCHANGED <<request, phase, sent, report, cancelAt>>
    BY <1>11 DEF SampleEnd, SamplePiece, AcceptPiece, Moves
  <2>3. Slack("gguf", from) = 0 /\ Slack("gguf", frame'.at) \in Nat
    BY SlackNat DEF Slack
  <2> QED
    BY <1>2, <2>1, <2>2, <2>3
<1>12. CASE EmitWhole
  <2>1. PICK blocks, whole :
          /\ Emits(blocks, [frame EXCEPT !.at = "decode", !.generated = @ + 1,
                                         !.carry = SubSeq(@, whole + 1, Len(@))])
          /\ blocks = <<>> \/ \E block : blocks = <<block>>
    BY <1>12 DEF EmitWhole
  <2>2. [frame EXCEPT !.at = "decode", !.generated = @ + 1,
                      !.carry = SubSeq(@, whole + 1, Len(@))].at = "decode"
    BY DEF SeamInv
  <2>3. 1 + Slack("gguf", "emit") <= Slack("gguf", "decode")
    BY DEF Slack
  <2> QED
    BY <1>3, <1>12, <2>1, <2>2, <2>3 DEF EmitWhole
<1>13. CASE DecodeToken
  <2>1. At("gguf", "decode") /\ model'.engine = model.engine
    BY <1>13 DEF DecodeToken, Decoded, Moves, SeamInv
  <2>2. UNCHANGED <<request, phase, sent, report, cancelAt>>
    BY <1>13 DEF DecodeToken, Decoded, Moves
  <2>3. frame'.at \in {"loop", "flush"}
    BY <1>13 DEF DecodeToken, Decoded, Moves, SeamInv
  <2>4. \A to \in {"loop", "flush"} : Slack("gguf", "decode") <= Slack("gguf", to)
    BY DEF Slack
  <2> QED
    BY <1>2, <2>1, <2>2, <2>3, <2>4
<1>14. CASE FlushCarry
  <2>1. PICK blocks, reason :
          /\ Emits(blocks, [frame EXCEPT !.at = "finish", !.carry = <<>>, !.reason = reason])
          /\ blocks = <<>> \/ \E block : blocks = <<block>>
    BY <1>14 DEF FlushCarry
  <2>2. [frame EXCEPT !.at = "finish", !.carry = <<>>, !.reason = reason].at = "finish"
    BY DEF SeamInv
  <2>3. 1 + Slack("gguf", "flush") <= Slack("gguf", "finish")
    BY DEF Slack
  <2> QED
    BY <1>3, <1>14, <2>1, <2>2, <2>3 DEF FlushCarry
<1> QED
  BY <1>4, <1>5, <1>6, <1>7, <1>8, <1>9, <1>10, <1>11, <1>12, <1>13, <1>14 DEF GgufNext

LEMMA HearInvHolds ==
  ASSUME SeamInv, HearInv, NothingLeft, [Next]_vars
  PROVE  HearInv'
<1>1. CASE Cancel
  <2>1. Len(sent) \in Nat /\ Slack(model.engine, frame.at) \in Nat
    BY SentGrows, SlackNat DEF SeamInv
  <2> QED
    BY <1>1, <2>1 DEF Cancel, HearInv, Cancelled
<1>2. CASE Returned \/ Relaunch
  BY <1>2 DEF Returned, Relaunch, Idle, HearInv, Cancelled
<1>3. CASE Released
  BY <1>3 DEF Released, HearInv, SeamInv, Cancelled
<1>4. CASE UNCHANGED vars
  BY <1>4 DEF vars, seamVars, HearInv, Cancelled, Streams
<1> QED
  BY <1>1, <1>2, <1>3, <1>4, GgufHears, WhisperHears, G2pHears, MockHears DEF Next

-----------------------------------------------------------------------------
(* Flattening what has been sent.                                          *)

(* Induction over the naturals, for a set: the intervals that end in the   *)
(* numbers left out are well-founded under strict inclusion.               *)
LEMMA NumbersFollow ==
  ASSUME NEW Good, 0 \in Good, \A n \in Nat : n \in Good => n + 1 \in Good
  PROVE  Nat \subseteq Good
<1> DEFINE Bad == {k \in Nat : k \notin Good}
           Intervals == {0 .. k : k \in Bad}
<1> SUFFICES ASSUME Bad # {} PROVE FALSE
  OBVIOUS
<1>1. Intervals \subseteq FiniteSubsetsOf(Nat) /\ Intervals # {}
  <2>1. \A k \in Bad : IsFiniteSet(0 .. k) /\ 0 .. k \in SUBSET Nat
    BY FS_Interval
  <2> QED
    BY <2>1 DEF FiniteSubsetsOf
<1>2. PICK I \in Intervals : \A J \in Intervals : <<J, I>> \notin StrictSubsetOrdering(Nat)
  <2> HIDE DEF Intervals
  <2> QED
    BY <1>1, FS_StrictSubsetOrderingWellFounded, WFMin
<1>3. PICK k \in Bad : I = 0 .. k
  OBVIOUS
<1>4. k # 0 /\ k - 1 \in Nat
  BY <1>3
<1>5. k - 1 \in Bad
  <2>1. k - 1 \in Good => (k - 1) + 1 \in Good
    BY <1>4
  <2>2. (k - 1) + 1 = k /\ k \notin Good
    BY <1>3
  <2> QED
    BY <1>4, <2>1, <2>2
<1>6. 0 .. k - 1 \subseteq 0 .. k /\ 0 .. k - 1 # 0 .. k /\ 0 .. k - 1 \in SUBSET Nat
  BY <1>3, <1>4
<1>7. 0 .. k - 1 \in Intervals /\ 0 .. k \in SUBSET Nat
  BY <1>5
<1>8. <<0 .. k - 1, I>> \in StrictSubsetOrdering(Nat)
  BY <1>3, <1>6, <1>7, Zenon DEF StrictSubsetOrdering
<1> QED
  BY <1>2, <1>7, <1>8

-----------------------------------------------------------------------------
(* Flattening.  FlattenSeq(s) applies the function that joins the first i  *)
(* members of s.                                                           *)

Joins(g, s, n) == g = [i \in 1 .. n |-> IF i = 1 THEN s[i] ELSE g[i - 1] \o s[i]]

LEMMA FlattenIsApplied ==
  ASSUME NEW s, Len(s) # 0
  PROVE  FlattenSeq(s) = (CHOOSE g : Joins(g, s, Len(s)))[Len(s)]
BY DEF FlattenSeq, Joins

LEMMA JoinsAt ==
  ASSUME NEW s, NEW n \in Nat, NEW g, Joins(g, s, n), NEW i \in 1 .. n
  PROVE  g[i] = IF i = 1 THEN s[i] ELSE g[i - 1] \o s[i]
BY DEF Joins

LEMMA JoinsExists ==
  ASSUME NEW s, NEW n \in Nat
  PROVE  Joins(CHOOSE g : Joins(g, s, n), s, n)
<1> DEFINE Good == {k \in Nat : \E g : Joins(g, s, k)}
<1>1. 0 \in Good
  <2>1. Joins([i \in 1 .. 0 |-> <<>>], s, 0)
    BY DEF Joins
  <2> QED
    BY <2>1
<1>2. ASSUME NEW k \in Nat, k \in Good
      PROVE  k + 1 \in Good
  <2>1. PICK g : Joins(g, s, k)
    BY <1>2
  <2> DEFINE h == [i \in 1 .. k + 1 |-> IF i = 1 THEN s[i] ELSE g[i - 1] \o s[i]]
  <2>2. \A i \in 1 .. k : h[i] = g[i]
    BY <2>1, JoinsAt
  <2>3. h = [i \in 1 .. k + 1 |-> IF i = 1 THEN s[i] ELSE h[i - 1] \o s[i]]
    <3>1. \A i \in 1 .. k + 1 : i # 1 => i - 1 \in 1 .. k
      OBVIOUS
    <3>2. \A i \in 1 .. k + 1 : i # 1 => h[i - 1] = g[i - 1]
      BY <2>2, <3>1
    <3> QED
      BY <3>2
  <2>4. Joins(h, s, k + 1)
    <3> HIDE DEF h
    <3> QED
      BY <2>3 DEF Joins
  <2> QED
    BY <2>4
<1>3. Nat \subseteq Good
  <2> HIDE DEF Good
  <2> QED
    BY <1>1, <1>2, NumbersFollow
<1>4. \E g : Joins(g, s, n)
  BY <1>3
<1> QED
  BY <1>4

(* Where two sequences begin alike, so do their joins. *)
LEMMA JoinsAgree ==
  ASSUME NEW s, NEW t, NEW m \in Nat, NEW n \in Nat, NEW g, NEW h,
         Joins(g, s, m), Joins(h, t, n),
         NEW k \in Nat, k <= m, k <= n, \A i \in 1 .. k : s[i] = t[i]
  PROVE  \A i \in 1 .. k : g[i] = h[i]
<1> DEFINE Good == {i \in Nat : i \in 1 .. k => g[i] = h[i]}
<1>1. 0 \in Good
  OBVIOUS
<1>2. ASSUME NEW i \in Nat, i \in Good
      PROVE  i + 1 \in Good
  <2> SUFFICES ASSUME i + 1 \in 1 .. k PROVE g[i + 1] = h[i + 1]
    OBVIOUS
  <2>1. /\ g[i + 1] = IF i + 1 = 1 THEN s[i + 1] ELSE g[(i + 1) - 1] \o s[i + 1]
        /\ h[i + 1] = IF i + 1 = 1 THEN t[i + 1] ELSE h[(i + 1) - 1] \o t[i + 1]
    <3> DEFINE j == i + 1
    <3>1. j \in 1 .. m /\ j \in 1 .. n
      OBVIOUS
    <3> HIDE DEF j, Good
    <3>2. g[j] = IF j = 1 THEN s[j] ELSE g[j - 1] \o s[j]
      BY <3>1, Zenon DEF Joins
    <3>3. h[j] = IF j = 1 THEN t[j] ELSE h[j - 1] \o t[j]
      BY <3>1, Zenon DEF Joins
    <3> QED
      BY <3>2, <3>3 DEF j
  <2>2. (i + 1) - 1 = i /\ (i # 0 => i \in 1 .. k)
    OBVIOUS
  <2> QED
    BY <1>2, <2>1, <2>2
<1>3. Nat \subseteq Good
  <2> HIDE DEF Good
  <2> QED
    BY <1>1, <1>2, NumbersFollow
<1> QED
  BY <1>3

LEMMA FlattenShort ==
  /\ FlattenSeq(<<>>) = <<>>
  /\ \A x : FlattenSeq(<<x>>) = x
<1>1. FlattenSeq(<<>>) = <<>>
  BY DEF FlattenSeq
<1>2. ASSUME NEW x PROVE FlattenSeq(<<x>>) = x
  <2> DEFINE one == <<x>>
             g == CHOOSE g : Joins(g, one, 1)
  <2>1. Len(one) = 1 /\ Len(one) # 0 /\ one[1] = x
    OBVIOUS
  <2> HIDE DEF one
  <2>2. FlattenSeq(one) = (CHOOSE f : Joins(f, one, Len(one)))[Len(one)]
    BY <2>1, FlattenIsApplied
  <2>3. FlattenSeq(one) = g[1]
    BY <2>1, <2>2
  <2>4. Joins(g, one, 1)
    BY JoinsExists
  <2> HIDE DEF g
  <2>5. g[1] = one[1]
    BY <2>4, JoinsAt
  <2> QED
    BY <2>1, <2>3, <2>5 DEF one
<1> QED
  BY <1>1, <1>2

LEMMA FlattenAppends ==
  ASSUME NEW s, IsSequence(s), NEW x, IsSequence(x)
  PROVE  FlattenSeq(s \o <<x>>) = FlattenSeq(s) \o x
<1> DEFINE n == Len(s)
           t == s \o <<x>>
<1>1. PICK S : s \in Seq(S)
  BY DEF IsSequence
<1>2. n \in Nat /\ Len(t) = n + 1 /\ t[n + 1] = x /\ \A i \in 1 .. n : t[i] = s[i]
  BY <1>1
<1>3. CASE n = 0
  <2>1. s = <<>> /\ t = <<x>>
    BY <1>1, <1>3
  <2>2. <<>> \o x = x
    BY DEF IsSequence
  <2> QED
    BY <2>1, <2>2, FlattenShort
<1>4. CASE n # 0
  <2> DEFINE g == CHOOSE g : Joins(g, s, n)
             h == CHOOSE h : Joins(h, t, n + 1)
  <2> HIDE DEF t, n
  <2>1. Joins(g, s, n) /\ Joins(h, t, n + 1)
    BY <1>2, JoinsExists
  <2>2. FlattenSeq(s) = g[n] /\ FlattenSeq(t) = h[n + 1]
    BY <1>2, <1>4, FlattenIsApplied DEF n
  <2> HIDE DEF g, h
  <2>3. h[n + 1] = h[n] \o x
    <3>1. n + 1 \in 1 .. n + 1 /\ n + 1 # 1 /\ (n + 1) - 1 = n
      BY <1>2, <1>4
    <3>2. h[n + 1] = IF n + 1 = 1 THEN t[n + 1] ELSE h[(n + 1) - 1] \o t[n + 1]
      <4> DEFINE m == n + 1
      <4>1. m \in Nat /\ m \in 1 .. m /\ Joins(h, t, m)
        BY <1>2, <2>1
      <4> HIDE DEF m
      <4>2. h[m] = IF m = 1 THEN t[m] ELSE h[m - 1] \o t[m]
        BY <4>1, JoinsAt
      <4> QED
        BY <4>2 DEF m
    <3> QED
      BY <1>2, <3>1, <3>2
  <2>4. g[n] = h[n]
    <3>1. n \in 1 .. n
      BY <1>2, <1>4
    <3> QED
      BY <1>2, <2>1, <3>1, JoinsAgree
  <2> QED
    BY <2>2, <2>3, <2>4 DEF t
<1> QED
  BY <1>3, <1>4

LEMMA AppendsIsSequence ==
  ASSUME NEW s, IsSequence(s), NEW x
  PROVE  /\ IsSequence(s \o <<x>>) /\ Len(s) \in Nat /\ Len(s \o <<x>>) = Len(s) + 1
         /\ DOMAIN s = 1 .. Len(s) /\ DOMAIN (s \o <<x>>) = 1 .. Len(s) + 1
         /\ \A k \in 1 .. Len(s) : (s \o <<x>>)[k] = s[k]
         /\ (s \o <<x>>)[Len(s) + 1] = x
<1>1. PICK S : s \in Seq(S)
  BY DEF IsSequence
<1>2. IsSequence(s \o <<x>>)
  BY ShortSequences, SentGrows
<1>3. s \in Seq(S \cup {x}) /\ <<x>> \in Seq(S \cup {x})
  BY <1>1
<1> QED
  BY <1>1, <1>2, <1>3

LEMMA SameSequence ==
  ASSUME NEW f, NEW h, IsSequence(f), IsSequence(h), Len(f) = Len(h),
         \A k \in 1 .. Len(f) : f[k] = h[k]
  PROVE  f = h
<1>1. \A s : IsSequence(s) => s = [k \in 1 .. Len(s) |-> s[k]]
  <2> SUFFICES ASSUME NEW s, NEW S, s \in Seq(S) PROVE s = [k \in 1 .. Len(s) |-> s[k]]
    BY DEF IsSequence
  <2>1. DOMAIN s = 1 .. Len(s) /\ s = [k \in DOMAIN s |-> s[k]]
    OBVIOUS
  <2> QED
    BY <2>1
<1> QED
  BY <1>1

(* A field of the blocks, once one more block has been sent. *)
Fields(blocks, field) == [k \in DOMAIN blocks |-> blocks[k][field]]

LEMMA FieldsIsSequence ==
  ASSUME NEW s, IsSequence(s), NEW field
  PROVE  IsSequence(Fields(s, field)) /\ Len(Fields(s, field)) = Len(s)
<1> DEFINE S == {s[k][field] : k \in DOMAIN s}
<1>1. DOMAIN s = 1 .. Len(s) /\ Len(s) \in Nat
  BY DEF IsSequence
<1>2. Fields(s, field) \in [1 .. Len(s) -> S]
  BY <1>1 DEF Fields
<1> HIDE DEF S
<1>3. Fields(s, field) \in Seq(S) /\ Len(Fields(s, field)) = Len(s)
  BY <1>1, <1>2
<1> QED
  BY <1>3, Zenon DEF IsSequence

LEMMA FieldsAppend ==
  ASSUME NEW s, IsSequence(s), NEW x, NEW field
  PROVE  Fields(s \o <<x>>, field) = Fields(s, field) \o <<x[field]>>
<1> DEFINE n == Len(s)
           t == s \o <<x>>
           y == x[field]
           f == Fields(s, field)
           g == Fields(t, field)
           h == f \o <<y>>
<1>1. /\ n \in Nat /\ IsSequence(t) /\ Len(t) = n + 1
      /\ DOMAIN s = 1 .. n /\ DOMAIN t = 1 .. n + 1 /\ t[n + 1] = x
      /\ \A k \in 1 .. n : t[k] = s[k]
  BY AppendsIsSequence
<1>2. IsSequence(f) /\ Len(f) = n
  BY FieldsIsSequence
<1> HIDE DEF n, t
<1>3. IsSequence(g) /\ Len(g) = n + 1
  BY <1>1, FieldsIsSequence
<1>4. /\ \A k \in 1 .. n + 1 : g[k] = t[k][field]
      /\ \A k \in 1 .. n : f[k] = s[k][field]
  BY <1>1 DEF Fields
<1> HIDE DEF f, g, y
<1>5. /\ IsSequence(h) /\ Len(h) = n + 1
      /\ h[n + 1] = y /\ \A k \in 1 .. n : h[k] = f[k]
  <2>1. IsSequence(f) /\ Len(f) = n
    BY <1>2
  <2>2. /\ IsSequence(h) /\ Len(h) = Len(f) + 1 /\ h[Len(f) + 1] = y
        /\ \A k \in 1 .. Len(f) : h[k] = f[k]
    <3>1. IsSequence(h) /\ Len(h) = Len(f) + 1
      BY <2>1, AppendsIsSequence
    <3>2. h[Len(f) + 1] = y
      BY <2>1, AppendsIsSequence
    <3>3. \A k \in 1 .. Len(f) : h[k] = f[k]
      BY <2>1, AppendsIsSequence
    <3> QED
      BY <3>1, <3>2, <3>3
  <2> QED
    BY <2>1, <2>2
<1> HIDE DEF h
<1>6. \A k \in 1 .. n + 1 : g[k] = h[k]
  BY <1>1, <1>4, <1>5 DEF y
<1>7. g = h
  BY <1>3, <1>5, <1>6, SameSequence
<1> QED
  BY <1>7 DEF f, g, h, t, y

LEMMA FieldsFlatten ==
  ASSUME NEW s, IsSequence(s), NEW x, NEW field, IsSequence(x[field])
  PROVE  FlattenSeq(Fields(s \o <<x>>, field)) = FlattenSeq(Fields(s, field)) \o x[field]
<1> DEFINE f == Fields(s, field)
           y == x[field]
<1>1. IsSequence(f)
  BY FieldsIsSequence
<1>2. Fields(s \o <<x>>, field) = f \o <<y>>
  BY FieldsAppend
<1> HIDE DEF f, y
<1>3. IsSequence(y)
  BY DEF y
<1>4. FlattenSeq(f \o <<y>>) = FlattenSeq(f) \o y
  BY <1>1, <1>3, FlattenAppends
<1> QED
  BY <1>2, <1>4 DEF f, y

LEMMA NothingSent == \A field : FlattenSeq(Fields(<<>>, field)) = <<>>
<1>1. \A field : Fields(<<>>, field) = <<>>
  BY DEF Fields
<1> QED
  BY <1>1, FlattenShort

LEMMA JoinedIs ==
  ASSUME NEW S, NEW s \in Seq(S), NEW t \in Seq(S)
  PROVE  /\ s \o t \in Seq(S) /\ Len(s \o t) = Len(s) + Len(t)
         /\ Len(s) \in Nat /\ Len(t) \in Nat
         /\ \A i \in 1 .. Len(s) : (s \o t)[i] = s[i]
         /\ \A i \in 1 .. Len(t) : (s \o t)[Len(s) + i] = t[i]
OBVIOUS

LEMMA JoinsAssociate ==
  ASSUME NEW S, NEW s \in Seq(S), NEW t \in Seq(S), NEW u \in Seq(S)
  PROVE  (s \o t) \o u = s \o (t \o u) /\ (s \o t) \o u \in Seq(S)
<1> DEFINE st == s \o t
           tu == t \o u
           l == st \o u
           r == s \o tu
           a == Len(s)
           b == Len(t)
           c == Len(u)
<1>1. a \in Nat /\ b \in Nat /\ c \in Nat
  OBVIOUS
<1>2. /\ st \in Seq(S) /\ Len(st) = a + b
      /\ \A i \in 1 .. a : st[i] = s[i]
      /\ \A i \in 1 .. b : st[a + i] = t[i]
  BY JoinedIs
<1>3. /\ tu \in Seq(S) /\ Len(tu) = b + c
      /\ \A i \in 1 .. b : tu[i] = t[i]
      /\ \A i \in 1 .. c : tu[b + i] = u[i]
  BY JoinedIs
<1> HIDE DEF st, tu
<1>4. /\ l \in Seq(S) /\ Len(l) = Len(st) + Len(u)
      /\ \A i \in 1 .. Len(st) : l[i] = st[i]
      /\ \A i \in 1 .. Len(u) : l[Len(st) + i] = u[i]
  <2>1. st \in Seq(S)
    BY <1>2
  <2> QED
    BY <2>1, JoinedIs
<1>5. /\ r \in Seq(S) /\ Len(r) = Len(s) + Len(tu)
      /\ \A i \in 1 .. Len(s) : r[i] = s[i]
      /\ \A i \in 1 .. Len(tu) : r[Len(s) + i] = tu[i]
  <2>1. tu \in Seq(S)
    BY <1>3
  <2> QED
    BY <2>1, JoinedIs
<1> HIDE DEF l, r, a, b, c
<1>6. /\ Len(l) = (a + b) + c /\ \A i \in 1 .. a + b : l[i] = st[i]
      /\ \A i \in 1 .. c : l[(a + b) + i] = u[i]
  BY <1>2, <1>4 DEF c
<1>7. /\ Len(r) = a + (b + c) /\ \A i \in 1 .. a : r[i] = s[i]
      /\ \A i \in 1 .. b + c : r[a + i] = tu[i]
  BY <1>3, <1>5 DEF a
<1>8. \A i \in 1 .. (a + b) + c : l[i] = r[i]
  <2> SUFFICES ASSUME NEW i \in 1 .. (a + b) + c PROVE l[i] = r[i]
    OBVIOUS
  <2>1. CASE i \in 1 .. a
    <3>1. i \in 1 .. a + b
      BY <1>1, <2>1
    <3> QED
      BY <1>2, <1>6, <1>7, <2>1, <3>1
  <2>2. CASE i \in a + 1 .. a + b
    <3> DEFINE k == i - a
    <3>1. k \in 1 .. b /\ k \in 1 .. b + c /\ a + k = i /\ i \in 1 .. a + b
      BY <1>1, <2>2
    <3> HIDE DEF k
    <3>2. l[a + k] = st[a + k] /\ r[a + k] = tu[k]
      BY <1>6, <1>7, <3>1
    <3>3. st[a + k] = t[k] /\ tu[k] = t[k]
      BY <1>2, <1>3, <3>1
    <3> QED
      BY <3>1, <3>2, <3>3
  <2>3. CASE i > a + b
    <3> DEFINE k == i - (a + b)
    <3>1. k \in 1 .. c /\ b + k \in 1 .. b + c /\ (a + b) + k = i /\ a + (b + k) = i
      BY <1>1, <2>3
    <3> HIDE DEF k
    <3>2. l[(a + b) + k] = u[k] /\ r[a + (b + k)] = tu[b + k] /\ tu[b + k] = u[k]
      BY <1>3, <1>6, <1>7, <3>1
    <3> QED
      BY <3>1, <3>2
  <2> QED
    BY <1>1, <2>1, <2>2, <2>3
<1>9. Len(l) = Len(r) /\ Len(l) = (a + b) + c
  BY <1>1, <1>6, <1>7
<1>10. l = r
  BY <1>4, <1>5, <1>8, <1>9, SameSequence DEF IsSequence
<1> QED
  BY <1>4, <1>10 DEF l, r, st, tu

(* The greatest of a set of numbers. *)
LEMMA MaxOf ==
  ASSUME NEW n \in Nat, NEW S, S \subseteq 0 .. n, S # {}
  PROVE  Max(S) \in S /\ \A y \in S : Max(S) >= y
<1> DEFINE Good == {k \in Nat : \A T \in SUBSET (0 .. k) :
                      T # {} => \E x \in T : \A y \in T : x >= y}
<1>1. 0 \in Good
  <2> SUFFICES ASSUME NEW T \in SUBSET (0 .. 0), T # {}
               PROVE  \E x \in T : \A y \in T : x >= y
    OBVIOUS
  <2>1. PICK x \in T : TRUE
    OBVIOUS
  <2>2. \A y \in T : y = 0
    OBVIOUS
  <2> QED
    BY <2>1, <2>2
<1>2. ASSUME NEW k \in Nat, k \in Good
      PROVE  k + 1 \in Good
  <2> SUFFICES ASSUME NEW T \in SUBSET (0 .. k + 1), T # {}
               PROVE  \E x \in T : \A y \in T : x >= y
    OBVIOUS
  <2>1. CASE k + 1 \in T
    BY <2>1
  <2>2. CASE k + 1 \notin T
    <3>1. T \in SUBSET (0 .. k)
      BY <2>2
    <3> QED
      BY <1>2, <3>1
  <2> QED
    BY <2>1, <2>2
<1>3. n \in Good
  <2> HIDE DEF Good
  <2> QED
    BY <1>1, <1>2, NumbersFollow
<1>4. \E x \in S : \A y \in S : x >= y
  BY <1>3
<1> QED
  BY <1>4, Zenon DEF Max

-----------------------------------------------------------------------------
(* Whose step it is.                                                       *)

(* A step inside serve keeps the model's engine. *)
LEMMA ServingKeepsEngine ==
  ASSUME SeamInv, SeamStep, phase = "serving"
  PROVE  model'.engine = model.engine
BY DEF SeamStep, SeesModel, SeesServe, SeesBlocks, SeesEnd, SeesDeath, Dies

LEMMA EachHasItsModel ==
  ASSUME SeamInv
  PROVE  /\ GgufNext => model'.engine = "gguf"
         /\ G2pNext => model'.engine = "g2p"
         /\ MockNext => model'.engine = "mock"
         /\ WhisperNext => model'.engine = "whisper"
<1>1. ASSUME GgufNext PROVE model'.engine = "gguf"
  <2>1. CASE LoadGguf
    BY <2>1 DEF LoadGguf, Opened
  <2>2. CASE ServeGguf
    BY <2>2 DEF ServeGguf, Waiting, SeamInv
  <2>3. CASE ~LoadGguf /\ ~ServeGguf
    <3>1. phase = "serving" /\ model.engine = "gguf"
      BY <1>1, <2>3
         DEF GgufNext, At, Ready, RefuseGguf, IngestPrompt, EmbedInput, IngestAborts, IngestFails,
             AnswerVector, PollGguf, SampleEnd, SamplePiece, AcceptPiece, AcceptThrows,
             EmitWhole, DecodeToken, FlushCarry, FinishGguf
    <3> QED
      BY <1>1, <3>1, GgufIsSeen, ServingKeepsEngine
  <2> QED
    BY <2>1, <2>2, <2>3
<1>2. ASSUME G2pNext PROVE model'.engine = "g2p"
  <2>1. CASE LoadPack
    BY <2>1 DEF LoadPack, Opened
  <2>2. CASE ServeG2p
    BY <2>2 DEF ServeG2p, Waiting
  <2>3. CASE ~LoadPack /\ ~ServeG2p
    <3>1. phase = "serving" /\ model.engine = "g2p"
      BY <1>2, <2>3
         DEF G2pNext, At, StackRunsOut, CheckG2p, PollSentence, SentenceBlock, StopsSpeaking,
             ClosingBlocks, FinishG2p
    <3> QED
      BY <1>2, <3>1, G2pIsSeen, ServingKeepsEngine
  <2> QED
    BY <2>1, <2>2, <2>3
<1>3. ASSUME MockNext PROVE model'.engine = "mock"
  <2>1. CASE LoadMock
    BY <2>1 DEF LoadMock, Opened
  <2>2. CASE ServeMock
    BY <2>2 DEF ServeMock, Waiting, SeamInv
  <2>3. CASE ~LoadMock /\ ~ServeMock
    <3>1. phase = "serving" /\ model.engine = "mock"
      BY <1>3, <2>3
         DEF MockNext, At, AtEvent, ScriptEnds, MockHearsCancel, PlayEvent, PauseMock,
             PausedHearsCancel, FailMock, CompleteMock
    <3> QED
      BY <1>3, <3>1, MockIsSeen, ServingKeepsEngine
  <2> QED
    BY <2>1, <2>2, <2>3
<1>4. ASSUME WhisperNext PROVE model'.engine = "whisper"
  <2>1. CASE LoadWhisper
    BY <2>1 DEF LoadWhisper, Opened
  <2>2. CASE ServeWhisper
    BY <2>2 DEF ServeWhisper, Waiting
  <2>3. CASE ~LoadWhisper /\ ~ServeWhisper
    <3>1. phase = "serving" /\ model.engine = "whisper"
      BY <1>4, <2>3
         DEF WhisperNext, At, RefuseAudio, AnswerVad, CallWhisper, DecodeWindow, FindSegments,
             OnNewSegment, NextWindow, FullReturns, FullFails, WhisperHearsCancel, AnswerWhisper, FinishWhisper
    <3> QED
      BY <1>4, <3>1, WhisperIsSeen, ServingKeepsEngine
  <2> QED
    BY <2>1, <2>2, <2>3
<1> QED
  BY <1>1, <1>2, <1>3, <1>4

-----------------------------------------------------------------------------
(* Cancelling a live transcript.                                           *)

(* After a cancel at most what is left of the decoded window is sent.      *)
LiveInv ==
  Serving("whisper") =>
    /\ {"left", "new"} \subseteq DOMAIN frame
    /\ frame.left \in Nat /\ frame.new \in Nat /\ frame.left + frame.new <= PerWindow
    /\ frame.at = "callback" <=> frame.new > 0
    /\ Cancelled => cancelAt \in Nat
    /\ Cancelled /\ request.kind = "listen" =>
         Len(sent) + frame.left + frame.new <= cancelAt + PerWindow

LEMMA NotLive ==
  ASSUME phase' # "serving" \/ model'.engine # "whisper"
  PROVE  LiveInv'
BY DEF LiveInv, Serving

LEMMA LiveEnds ==
  ASSUME SeamInv, LiveInv, Serving("whisper"), frame.at # "callback",
         ReturnsSilently \/ (\E code : Fails(code)) \/ (\E why : Finishes(why))
  PROVE  LiveInv'
<1>1. /\ UNCHANGED <<model, request, phase, sent, cancelAt>>
      /\ frame' = [frame EXCEPT !.at = "return"]
  BY DEF ReturnsSilently, Fails, Finishes, Ends
<1>2. /\ frame'.at = "return" /\ DOMAIN frame' = DOMAIN frame
      /\ frame'.left = frame.left /\ frame'.new = frame.new
  BY <1>1 DEF SeamInv, LiveInv
<1> QED
  BY <1>1, <1>2 DEF LiveInv, Serving, Cancelled

(* A step that leaves what the window holds as it is, and sends nothing of *)
(* a live transcript.                                                      *)
LEMMA LiveMoves ==
  ASSUME LiveInv, Serving("whisper"), frame.at # "callback",
         UNCHANGED <<request, phase, cancelAt>>, model'.engine = model.engine,
         DOMAIN frame' = DOMAIN frame, frame'.left \in {frame.left, 0}, frame'.new = frame.new,
         frame'.at # "callback", request.kind = "listen" => sent' = sent, Len(sent) \in Nat
  PROVE  LiveInv'
BY WhisperAssumption DEF LiveInv, Serving, Cancelled

LEMMA WhisperStaysLive ==
  ASSUME SeamInv, LiveInv, WhisperNext
  PROVE  LiveInv'
<1> USE DEF At
<1>0. Len(sent) \in Nat /\ "at" \in DOMAIN frame /\ PerWindow \in Nat
  BY SentGrows, WhisperAssumption DEF SeamInv
<1>1. CASE LoadWhisper
  BY <1>1, NotLive DEF LoadWhisper, Opened, Empty
<1>2. CASE ServeWhisper
  <2>1. PICK r, pcm : Begin("whisper", r, WhisperFrame(pcm))
    BY <1>2 DEF ServeWhisper
  <2> QED
    BY <1>0, <2>1 DEF Begin, WhisperFrame, LiveInv, Cancelled
<1>3. CASE RefuseAudio \/ FullFails \/ WhisperHearsCancel \/ FinishWhisper
  <2>1. Serving("whisper") /\ frame.at # "callback"
    BY <1>3 DEF RefuseAudio, FullFails, WhisperHearsCancel, FinishWhisper, Serving
  <2> QED
    BY <1>3, <2>1, LiveEnds DEF RefuseAudio, FullFails, WhisperHearsCancel, FinishWhisper
<1>4. CASE AnswerVad
  <2>1. /\ Serving("whisper") /\ request.kind = "vad" /\ frame.at = "audio"
        /\ UNCHANGED <<model, request, phase, cancelAt>>
        /\ frame' = [frame EXCEPT !.at = "finish"]
    BY <1>4 DEF AnswerVad, Emits, Serving
  <2> QED
    BY <1>0, <2>1, LiveMoves DEF LiveInv
<1>5. CASE CallWhisper
  <2>1. /\ Serving("whisper") /\ frame.at = "audio"
        /\ UNCHANGED <<request, phase, sent, cancelAt>> /\ model'.engine = model.engine
        /\ \E place \in {"detect", "window"} : frame' = [frame EXCEPT !.at = place]
    BY <1>5 DEF CallWhisper, Serving, SeamInv
  <2> QED
    BY <1>0, <2>1, LiveMoves DEF LiveInv
<1>6. CASE DecodeWindow
  <2>1. /\ Serving("whisper") /\ frame.at = "window" /\ ~Cancelled
        /\ UNCHANGED <<model, request, phase, sent, cancelAt>>
        /\ frame' = [frame EXCEPT !.at = "decoded", !.left = PerWindow, !.read = "audio"]
    BY <1>6 DEF DecodeWindow, Moves, Serving
  <2>2. /\ DOMAIN frame' = DOMAIN frame /\ frame'.at = "decoded" /\ frame'.left = PerWindow
        /\ frame'.new = frame.new
    BY <1>0, <2>1 DEF LiveInv
  <2>3. frame.new = 0
    BY <2>1 DEF LiveInv
  <2> QED
    BY <1>0, <2>1, <2>2, <2>3 DEF LiveInv, Serving, Cancelled
<1>7. CASE FindSegments
  <2>1. PICK n \in 1 .. frame.left :
          /\ frame' = [frame EXCEPT !.at = "callback", !.left = @ - n, !.new = n]
          /\ model' = [model EXCEPT !.results = @ + n]
    BY <1>7 DEF FindSegments
  <2>2. /\ Serving("whisper") /\ frame.at = "decoded"
        /\ UNCHANGED <<request, phase, sent, cancelAt>> /\ model'.engine = model.engine
    BY <1>7, <2>1 DEF FindSegments, Serving, SeamInv
  <2>3. frame.left \in Nat /\ frame.new = 0 /\ {"left", "new"} \subseteq DOMAIN frame
    BY <2>2 DEF LiveInv
  <2>4. /\ DOMAIN frame' = DOMAIN frame /\ frame'.at = "callback"
        /\ frame'.left = frame.left - n /\ frame'.new = n
    BY <1>0, <2>1, <2>3
  <2>5. frame'.left \in Nat /\ frame'.new \in Nat /\ n > 0 /\ n \in Nat
        /\ frame'.left + frame'.new = frame.left + frame.new
    BY <2>3, <2>4
  <2> QED
    BY <1>0, <2>2, <2>3, <2>4, <2>5 DEF LiveInv, Serving, Cancelled
<1>8. CASE OnNewSegment
  <2>1. /\ Serving("whisper") /\ frame.at = "callback"
        /\ Emits(NewBlocks, NewFrame) /\ IsSequence(NewBlocks) /\ Len(NewBlocks) <= 1
    BY <1>8, NewSegmentIs DEF Serving
  <2>2. Len(NewBlocks) \in Nat /\ Len(sent') = Len(sent) + Len(NewBlocks)
        /\ UNCHANGED <<model, request, phase, cancelAt>> /\ frame' = NewFrame
    BY <2>1, SentGrows DEF Emits, SeamInv
  <2>3. frame.new \in Nat \ {0} /\ frame.left \in Nat /\ {"left", "new"} \subseteq DOMAIN frame
    BY <2>1 DEF LiveInv
  <2>4. /\ DOMAIN NewFrame = DOMAIN frame /\ NewFrame.left = frame.left
        /\ NewFrame.new = frame.new - 1
        /\ NewFrame.at = IF frame.new = 1 THEN "decoded" ELSE "callback"
    BY <1>0, <2>3 DEF NewFrame
  <2> QED
    BY <1>0, <2>1, <2>2, <2>3, <2>4 DEF LiveInv, Serving, Cancelled
<1>9. CASE NextWindow
  <2>1. /\ Serving("whisper") /\ frame.at = "decoded"
        /\ UNCHANGED <<model, request, phase, sent, cancelAt>>
        /\ frame' = [frame EXCEPT !.at = "window", !.left = 0]
    BY <1>9 DEF NextWindow, Moves, Serving
  <2> QED
    BY <1>0, <2>1, LiveMoves DEF LiveInv
<1>10. CASE FullReturns
  <2>1. /\ Serving("whisper") /\ frame.at \in {"window", "detect"}
        /\ UNCHANGED <<model, request, phase, sent, cancelAt>>
        /\ frame' = [frame EXCEPT !.at = "full returned",
                        !.read = IF frame.at = "detect" THEN "language" ELSE @]
    BY <1>10 DEF FullReturns, Moves, Serving
  <2>2. /\ DOMAIN frame' = DOMAIN frame /\ frame'.at = "full returned"
        /\ frame'.left = frame.left /\ frame'.new = frame.new
    BY <1>0, <2>1 DEF LiveInv
  <2> QED
    BY <1>0, <2>1, <2>2, LiveMoves
<1>11. CASE AnswerWhisper
  <2>1. PICK blocks : /\ Emits(blocks, [frame EXCEPT !.at = "finish"])
                      /\ request.kind = "listen" => blocks = <<>>
    BY <1>11 DEF AnswerWhisper
  <2>2. /\ Serving("whisper") /\ frame.at = "full returned"
        /\ UNCHANGED <<model, request, phase, cancelAt>>
        /\ frame' = [frame EXCEPT !.at = "finish"]
    BY <1>11, <2>1 DEF AnswerWhisper, Emits, Serving
  <2>3. request.kind = "listen" => sent' = sent
    BY <2>1 DEF Emits, SeamInv, IsSequence
  <2> QED
    BY <1>0, <2>2, <2>3, LiveMoves DEF LiveInv
<1> QED
  BY <1>1, <1>2, <1>3, <1>4, <1>5, <1>6, <1>7, <1>8, <1>9, <1>10, <1>11 DEF WhisperNext

LEMMA LiveInvHolds ==
  ASSUME SeamInv, LiveInv, [Next]_vars
  PROVE  LiveInv'
<1>1. CASE GgufNext \/ G2pNext \/ MockNext
  BY <1>1, EachHasItsModel, NotLive
<1>2. CASE WhisperNext
  BY <1>2, WhisperStaysLive
<1>3. CASE Cancel
  <2>1. Len(sent) \in Nat /\ UNCHANGED <<model, request, phase, sent, frame>> /\ cancelAt' = Len(sent)
    BY <1>3, SentGrows DEF Cancel, SeamInv
  <2> QED
    BY <2>1, WhisperAssumption DEF LiveInv, Serving, Cancelled
<1>4. CASE Returned
  BY <1>4, NotLive DEF Returned, Idle
<1>5. CASE Released
  BY <1>5, NotLive DEF Released, NotLoaded
<1>6. CASE Relaunch
  BY <1>6, NotLive DEF Relaunch, Idle, NotLoaded
<1>7. CASE UNCHANGED vars
  BY <1>7 DEF vars, seamVars, LiveInv, Serving, Cancelled
<1> QED
  BY <1>1, <1>2, <1>3, <1>4, <1>5, <1>6, <1>7 DEF Next

(* A cancelled live transcript sends no more than the window holds, however *)
(* many segments whisper_full hands over at once.                          *)
THEOREM LiveInvariant == Spec => []LiveInv
<1>1. SeamInit => LiveInv
  BY DEF SeamInit, LiveInv, Serving
<1>2. SeamInv /\ LiveInv /\ [Next]_vars => LiveInv'
  BY LiveInvHolds
<1> QED
  BY <1>1, <1>2, SeamInvariant, PTL DEF Spec
=============================================================================
