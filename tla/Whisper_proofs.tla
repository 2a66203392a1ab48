--------------------------- MODULE Whisper_proofs ---------------------------
(* Theorems about what the whisper backend reads and sends, for every      *)
(* recording, file, window and transcript.                                 *)
EXTENDS Backends_proofs

-----------------------------------------------------------------------------
(* whisper: the transcript is every segment once.                          *)

Transcribes == request.kind \in {"listen", "transcribe"}

UpTo(n) == [k \in 1 .. n |-> k - 1]

(* What StreamState holds against the results of the context, and what has *)
(* been sent of it.                                                        *)
TextIs(n) == frame.text = UpTo(n) /\ frame.emitted = n

SentIs(n) == IF request.kind = "listen" THEN Heard = UpTo(n) ELSE sent = <<>>

TranscriptInv ==
  /\ model.engine = "whisper" => "results" \in DOMAIN model /\ model.results \in Nat
  /\ Serving("whisper") =>
       /\ {"at", "text", "emitted", "read", "left", "new"} \subseteq DOMAIN frame
       /\ frame.at \in {"audio", "detect", "window", "decoded", "callback", "full returned",
                        "finish", "return"}
  /\ Serving("whisper") /\ Transcribes =>
       /\ frame.at = "audio" => TextIs(0) /\ SentIs(0)
       /\ frame.at = "detect" => TextIs(0) /\ SentIs(0) /\ model.results = 0
       /\ frame.at \in {"window", "decoded", "full returned"} =>
            TextIs(model.results) /\ SentIs(model.results)
       /\ frame.at = "callback" =>
            /\ frame.new \in Nat \ {0} /\ NextNew \in Nat
            /\ TextIs(NextNew) /\ SentIs(NextNew)
       /\ frame.at = "finish" => Heard = UpTo(model.results)

LEMMA UpToGrows ==
  /\ UpTo(0) = <<>>
  /\ \A n \in Nat : UpTo(n) \in Seq(Int) /\ UpTo(n + 1) = UpTo(n) \o <<n>>
<1>1. UpTo(0) = <<>>
  BY DEF UpTo
<1>2. ASSUME NEW n \in Nat PROVE UpTo(n) \in Seq(Int) /\ UpTo(n + 1) = UpTo(n) \o <<n>>
  <2>1. UpTo(n) \in Seq(Int) /\ Len(UpTo(n)) = n
    BY DEF UpTo
  <2>2. UpTo(n + 1) \in Seq(Int) /\ Len(UpTo(n + 1)) = n + 1
    BY DEF UpTo
  <2>3. UpTo(n) \o <<n>> \in Seq(Int) /\ Len(UpTo(n) \o <<n>>) = n + 1
    BY <2>1
  <2>4. \A k \in 1 .. n + 1 : UpTo(n + 1)[k] = (UpTo(n) \o <<n>>)[k]
    <3>1. \A k \in 1 .. n + 1 : UpTo(n + 1)[k] = k - 1
      BY DEF UpTo
    <3>2. \A k \in 1 .. n : UpTo(n)[k] = k - 1
      BY DEF UpTo
    <3> QED
      BY <2>1, <3>1, <3>2
  <2> DEFINE f == UpTo(n + 1)
             h == UpTo(n) \o <<n>>
  <2> HIDE DEF f, h
  <2>5. f = h
    <3>1. f \in Seq(Int) /\ h \in Seq(Int) /\ Len(f) = Len(h) /\ Len(f) = n + 1
      BY <2>2, <2>3 DEF f, h
    <3>2. \A k \in 1 .. Len(f) : f[k] = h[k]
      BY <2>4, <3>1 DEF f, h
    <3> QED
      BY <3>1, <3>2, SameSequence DEF IsSequence
  <2> QED
    BY <2>1, <2>5 DEF f, h
<1> QED
  BY <1>1, <1>2

LEMMA HeardGrows ==
  ASSUME SeamInv, NEW block, sent' = sent \o <<block>>, IsSequence(block.segments)
  PROVE  Heard' = Heard \o block.segments
<1>1. Heard = FlattenSeq(Fields(sent, "segments"))
  BY DEF Heard, Fields
<1>2. Heard' = FlattenSeq(Fields(sent', "segments"))
  BY DEF Heard, Fields
<1> QED
  BY <1>1, <1>2, FieldsFlatten DEF SeamInv

LEMMA HeardNothing == sent = <<>> => Heard = <<>>
BY NothingSent DEF Heard, Fields


(* The invariant does not mention what these steps change. *)
LEMMA NotTranscribing ==
  ASSUME model'.engine = "whisper" => "results" \in DOMAIN model' /\ model'.results \in Nat,
         phase' # "serving" \/ model'.engine # "whisper"
  PROVE  TranscriptInv'
BY DEF TranscriptInv, Serving

LEMMA TranscriptEnds ==
  ASSUME SeamInv, TranscriptInv, Serving("whisper"), NEW end, Ends(end)
  PROVE  TranscriptInv'
BY DEF SeamInv, TranscriptInv, Serving, Ends

LEMMA WhisperKeepsTranscript ==
  ASSUME SeamInv, TranscriptInv, WhisperNext
  PROVE  TranscriptInv'
<1> USE DEF At
<1>0. UpTo(0) = <<>> /\ FlattenSeq(<<>>) = <<>>
  BY UpToGrows, FlattenShort
<1>1. CASE LoadWhisper
  BY <1>1, NotTranscribing DEF LoadWhisper, Opened, Empty
<1>2. CASE ServeWhisper
  <2>1. PICK r, pcm : Begin("whisper", r, WhisperFrame(pcm)) /\ UNCHANGED model
    BY <1>2 DEF ServeWhisper
  <2>2. /\ {"at", "text", "emitted", "read", "left", "new"} \subseteq DOMAIN frame'
        /\ frame'.at = "audio" /\ frame'.text = <<>> /\ frame'.emitted = 0 /\ sent' = <<>>
    BY <2>1 DEF Begin, WhisperFrame
  <2>3. model.engine = "whisper"
    BY <2>1 DEF Begin, Waiting
  <2>4. Heard' = <<>>
    BY <2>2, HeardNothing, FlattenShort DEF Heard
  <2> QED
    BY <1>0, <2>1, <2>2, <2>3, <2>4 DEF TranscriptInv, TextIs, SentIs, Serving
<1>3. CASE RefuseAudio \/ FullFails \/ WhisperHearsCancel \/ FinishWhisper
  <2>1. Serving("whisper") /\ \E end : Ends(end)
    BY <1>3 DEF RefuseAudio, FullFails, WhisperHearsCancel, FinishWhisper, Serving,
                Fails, Finishes, ReturnsSilently
  <2> QED
    BY <2>1, TranscriptEnds
<1>4. CASE AnswerVad
  <2>1. /\ Serving("whisper") /\ request.kind = "vad" /\ UNCHANGED <<model, request, phase>>
        /\ frame' = [frame EXCEPT !.at = "finish"]
    BY <1>4 DEF AnswerVad, Emits, Serving
  <2> QED
    BY <2>1 DEF TranscriptInv, Serving, Transcribes
<1>5. CASE CallWhisper
  <2>1. /\ Serving("whisper") /\ frame.at = "audio"
        /\ model' = [model EXCEPT !.results = 0] /\ UNCHANGED <<request, phase, sent>>
        /\ \E place \in {"detect", "window"} : frame' = [frame EXCEPT !.at = place]
    BY <1>5 DEF CallWhisper, Serving
  <2>2. Heard' = Heard
    BY <2>1 DEF Heard
  <2> QED
    BY <2>1, <2>2 DEF SeamInv, TranscriptInv, TextIs, SentIs, Serving, Transcribes
<1>6. CASE FindSegments
  <2>1. PICK n \in 1 .. frame.left :
          /\ model' = [model EXCEPT !.results = @ + n]
          /\ frame' = [frame EXCEPT !.at = "callback", !.left = @ - n, !.new = n]
    BY <1>6 DEF FindSegments
  <2>2. Serving("whisper") /\ frame.at = "decoded" /\ UNCHANGED <<request, phase, sent>>
    BY <1>6 DEF FindSegments, Serving
  <2>3. Heard' = Heard
    BY <2>2 DEF Heard
  <2>4. model.results \in Nat /\ "results" \in DOMAIN model
        /\ {"at", "text", "emitted", "read", "left", "new"} \subseteq DOMAIN frame
    BY <2>2 DEF TranscriptInv, Serving
  <2>5. model'.results = model.results + n /\ model'.engine = model.engine
        /\ "results" \in DOMAIN model'
    BY <2>1, <2>4 DEF SeamInv
  <2>6. /\ frame'.at = "callback" /\ frame'.new = n /\ DOMAIN frame' = DOMAIN frame
        /\ frame'.text = frame.text /\ frame'.emitted = frame.emitted
    BY <2>1, <2>4
  <2>7. n \in Nat \ {0} /\ model'.results \in Nat
    BY <2>4, <2>5
  <2>8. NextNew' = model.results
    BY <2>4, <2>5, <2>6, <2>7 DEF NextNew
  <2>9. ASSUME Transcribes
        PROVE  TextIs(NextNew)' /\ SentIs(NextNew)'
    <3>1. TextIs(model.results) /\ SentIs(model.results)
      BY <2>2, <2>9 DEF TranscriptInv, Serving
    <3> QED
      BY <2>2, <2>3, <2>6, <2>8, <3>1 DEF TextIs, SentIs
  <2> QED
    BY <2>2, <2>4, <2>5, <2>6, <2>7, <2>8, <2>9 DEF TranscriptInv, Serving, Transcribes
<1>7. CASE OnNewSegment
  <2> DEFINE n == NextNew
  <2>1. /\ Serving("whisper") /\ frame.at = "callback" /\ UNCHANGED <<model, request, phase>>
        /\ frame' = NewFrame /\ sent' = sent \o NewBlocks
    BY <1>7, NewSegmentIs DEF Emits, Serving
  <2>2. /\ {"at", "text", "emitted", "read", "left", "new"} \subseteq DOMAIN frame'
        /\ frame'.at = (IF frame.new = 1 THEN "decoded" ELSE "callback")
        /\ frame'.new = frame.new - 1 /\ frame'.text = frame.text \o NewText
        /\ frame'.emitted = IF NewText = <<>> THEN frame.emitted ELSE n + 1
    BY <2>1 DEF TranscriptInv, NewFrame
  <2>3. ASSUME Transcribes
        PROVE  /\ n \in Nat /\ frame.new \in Nat \ {0} /\ n = model.results - frame.new
               /\ model.results \in Nat
               /\ frame'.text = UpTo(n + 1) /\ frame'.emitted = n + 1
               /\ IF request.kind = "listen" THEN Heard' = UpTo(n + 1) ELSE sent' = <<>>
    <3>1. /\ n \in Nat /\ TextIs(n) /\ SentIs(n) /\ frame.new \in Nat \ {0}
          /\ model.results \in Nat /\ n = model.results - frame.new
      BY <2>1, <2>3 DEF TranscriptInv, Serving, NextNew
    <3> HIDE DEF n
    <3>2. NewText = <<n>>
      BY <3>1 DEF NewText, TextIs, n
    <3>3. frame'.text = UpTo(n + 1) /\ frame'.emitted = n + 1
      BY <2>2, <3>1, <3>2, UpToGrows DEF TextIs
    <3>4. CASE request.kind = "listen"
      <4> DEFINE block == [type |-> "text", segments |-> <<n>>]
      <4>1. sent' = sent \o <<block>>
        BY <2>1, <3>2, <3>4 DEF NewBlocks
      <4>2. Heard' = Heard \o <<n>>
        <5>1. block.segments = <<n>> /\ IsSequence(<<n>>)
          BY ShortSequences
        <5> HIDE DEF block
        <5> QED
          BY <4>1, <5>1, HeardGrows
      <4>3. Heard' = UpTo(n + 1)
        BY <3>1, <3>4, <4>2, UpToGrows DEF SentIs
      <4> QED
        BY <3>1, <3>3, <3>4, <4>3
    <3>5. CASE request.kind # "listen"
      <4>1. sent' = <<>>
        BY <2>1, <3>1, <3>5 DEF NewBlocks, SentIs
      <4> QED
        BY <3>1, <3>3, <3>5, <4>1
    <3> QED
      BY <3>4, <3>5
  <2> HIDE DEF n
  <2>4. CASE frame.new = 1
    <3>1. frame'.at = "decoded"
      BY <2>2, <2>4
    <3>2. ASSUME Transcribes
          PROVE  TextIs(model.results)' /\ SentIs(model.results)'
      <4>1. model'.results = n + 1
        BY <2>1, <2>3, <2>4, <3>2
      <4> QED
        BY <2>1, <2>3, <3>2, <4>1 DEF TextIs, SentIs
    <3> QED
      BY <2>1, <2>2, <3>1, <3>2 DEF TranscriptInv, Serving, Transcribes
  <2>5. CASE frame.new # 1
    <3>1. frame'.at = "callback"
      BY <2>2, <2>5
    <3>2. ASSUME Transcribes
          PROVE  /\ frame'.new \in Nat \ {0} /\ NextNew' \in Nat
                 /\ TextIs(NextNew)' /\ SentIs(NextNew)'
      <4>1. frame'.new \in Nat \ {0}
        BY <2>2, <2>3, <2>5, <3>2
      <4>2. NextNew' = n + 1
        BY <2>1, <2>2, <2>3, <3>2 DEF NextNew
      <4> QED
        BY <2>1, <2>3, <3>2, <4>1, <4>2 DEF TextIs, SentIs
    <3> QED
      BY <2>1, <2>2, <3>1, <3>2 DEF TranscriptInv, Serving, Transcribes
  <2> QED
    BY <2>4, <2>5
<1>8. CASE FullReturns
  <2>1. /\ Serving("whisper") /\ frame.at \in {"detect", "window"}
        /\ UNCHANGED <<model, request, phase, sent>>
        /\ \E read : frame' = [frame EXCEPT !.at = "full returned", !.read = read]
    BY <1>8 DEF FullReturns, Moves, Serving
  <2>2. Heard' = Heard
    BY <2>1 DEF Heard
  <2> QED
    BY <2>1, <2>2 DEF TranscriptInv, TextIs, SentIs, Serving, Transcribes
<1>9. CASE AnswerWhisper
  <2>1. /\ Serving("whisper") /\ frame.at = "full returned"
        /\ UNCHANGED <<model, request, phase>> /\ frame' = [frame EXCEPT !.at = "finish"]
    BY <1>9 DEF AnswerWhisper, Emits, Serving
  <2> SUFFICES ASSUME Transcribes PROVE Heard' = UpTo(model.results)
    BY <2>1 DEF TranscriptInv, Serving, Transcribes
  <2>2. TextIs(model.results) /\ SentIs(model.results) /\ model.results \in Nat
    BY <2>1 DEF TranscriptInv, Serving
  <2>3. CASE request.kind = "listen"
    <3>1. sent' = sent \o <<>>
      BY <1>9, <2>3 DEF AnswerWhisper, Emits
    <3>2. sent' = sent
      BY <3>1 DEF SeamInv, IsSequence
    <3> QED
      BY <2>2, <2>3, <3>2 DEF SentIs, Heard, NextNew
  <2>4. CASE request.kind = "transcribe"
    <3> DEFINE block == [type |-> "text", segments |-> frame.text]
    <3>1. sent' = sent \o <<block>> /\ sent = <<>>
      BY <1>9, <2>2, <2>4 DEF AnswerWhisper, Emits, SentIs
    <3>2. frame.text = UpTo(model.results) /\ UpTo(model.results) \in Seq(Int)
      BY <2>2, UpToGrows DEF TextIs
    <3>3. Heard' = Heard \o frame.text
      BY <3>1, <3>2, HeardGrows DEF IsSequence
    <3> QED
      BY <3>1, <3>2, <3>3, HeardNothing
  <2> QED
    BY <2>3, <2>4 DEF Transcribes
<1>10. CASE DecodeWindow \/ NextWindow
  <2>1. /\ Serving("whisper") /\ UNCHANGED <<model, request, phase, sent>>
        /\ frame.at \in {"window", "decoded"} /\ frame'.at \in {"window", "decoded"}
        /\ DOMAIN frame' = DOMAIN frame
        /\ frame'.text = frame.text /\ frame'.emitted = frame.emitted
    BY <1>10 DEF DecodeWindow, NextWindow, Moves, Serving, TranscriptInv
  <2>2. Heard' = Heard
    BY <2>1 DEF Heard
  <2> QED
    BY <2>1, <2>2 DEF TranscriptInv, TextIs, SentIs, Serving, Transcribes
<1> QED
  BY <1>1, <1>2, <1>3, <1>4, <1>5, <1>6, <1>7, <1>8, <1>9, <1>10 DEF WhisperNext

LEMMA TranscriptInvHolds ==
  ASSUME SeamInv, TranscriptInv, [Next]_vars
  PROVE  TranscriptInv'
<1>1. CASE GgufNext \/ G2pNext \/ MockNext
  <2>1. model'.engine # "whisper"
    BY <1>1, EachHasItsModel
  <2> QED
    BY <2>1, NotTranscribing
<1>2. CASE WhisperNext
  BY <1>2, WhisperKeepsTranscript
<1>3. CASE Cancel
  <2>1. UNCHANGED <<model, request, phase, sent, frame>>
    BY <1>3 DEF Cancel
  <2> QED
    BY <2>1 DEF TranscriptInv, Serving, Transcribes, TextIs, SentIs, Heard, NextNew
<1>4. CASE Returned
  BY <1>4, NotTranscribing DEF Returned, Idle, TranscriptInv
<1>5. CASE Released
  BY <1>5, NotTranscribing DEF Released, NotLoaded
<1>6. CASE Relaunch
  BY <1>6, NotTranscribing DEF Relaunch, Idle, NotLoaded
<1>7. CASE UNCHANGED vars
  BY <1>7 DEF vars, seamVars, TranscriptInv, Serving, Transcribes, TextIs, SentIs, Heard, NextNew
<1> QED
  BY <1>1, <1>2, <1>3, <1>4, <1>5, <1>6, <1>7 DEF Next

(* A transcript is every segment whisper found, once and in order, live or *)
(* whole, however often its callback runs and whatever was left in the     *)
(* context by the call before.                                             *)
THEOREM TranscriptsAreWhole == Spec => []SegmentsOnce
<1>1. SeamInit => TranscriptInv
  BY DEF SeamInit, NotLoaded, TranscriptInv, Serving
<1>2. SeamInv /\ TranscriptInv /\ [Next]_vars => TranscriptInv'
  BY TranscriptInvHolds
<1>3. TranscriptInv => SegmentsOnce
  <2> SUFFICES ASSUME TranscriptInv, Serving("whisper"), Transcribes
               PROVE  /\ frame.at \in {"window", "decoded", "full returned"} =>
                           frame.text = UpTo(model.results)
                      /\ frame.at \in {"window", "decoded", "finish"}
                           /\ (request.kind = "listen" \/ frame.at = "finish")
                         => Heard = UpTo(model.results)
    BY DEF SegmentsOnce, UpTo, Transcribes
  <2> QED
    BY DEF TranscriptInv, TextIs, SentIs
<1> QED
  BY <1>1, <1>2, <1>3, SeamInvariant, PTL DEF Spec

-----------------------------------------------------------------------------
(* whisper: the audio a request carries.                                   *)

LEMMA MinOf ==
  ASSUME NEW a \in Int, NEW b \in Int
  PROVE  Min({a, b}) = IF a <= b THEN a ELSE b
<1> DEFINE c == IF a <= b THEN a ELSE b
           m == CHOOSE x \in {a, b} : \A y \in {a, b} : x <= y
<1>1. c \in {a, b} /\ \A y \in {a, b} : c <= y
  OBVIOUS
<1>2. m \in {a, b} /\ \A y \in {a, b} : m <= y
  <2>1. \E x \in {a, b} : \A y \in {a, b} : x <= y
    BY <1>1
  <2> QED
    BY <2>1
<1>3. Min({a, b}) = m
  BY DEF Min
<1> HIDE DEF m
<1> QED
  BY <1>2, <1>3

(* The walk over the chunks, the last k + 1 positions of it. *)
FileWalks(g, file, k) ==
  g = [pos \in (file.length + 1) - k .. file.length + 1 |->
         IF pos + 8 > file.length THEN {}
         ELSE {pos} \cup (IF NextChunk(file, pos) <= file.length
                          THEN g[NextChunk(file, pos)] ELSE {})]

GoodFile(file) ==
  /\ file.length \in Nat /\ (file.riff => file.length >= 12)
  /\ \A p \in DOMAIN file.chunks : HeaderFields(file.chunks[p])

LEMMA ChunkSizeIs ==
  ASSUME NEW file, GoodFile(file), NEW pos \in Int, pos + 8 <= file.length
  PROVE  /\ ChunkSize(file, pos) \in Nat /\ pos + 8 + ChunkSize(file, pos) <= file.length
         /\ NextChunk(file, pos) \in Int /\ NextChunk(file, pos) > pos
         /\ HeaderFields(HeaderAt(file, pos))
<1> DEFINE d == HeaderAt(file, pos).declared
           c == ChunkSize(file, pos)
<1>1. HeaderFields(HeaderAt(file, pos))
  BY DEF GoodFile, HeaderAt, NoChunk, HeaderFields
<1>2. d \in Nat /\ file.length - (pos + 8) \in Nat
  <2>1. file.length \in Nat
    BY DEF GoodFile
  <2>2. d \in Nat
    BY <1>1 DEF HeaderFields
  <2> HIDE DEF d
  <2> QED
    BY <2>1, <2>2
<1>3. c = IF d <= file.length - (pos + 8) THEN d ELSE file.length - (pos + 8)
  BY <1>2, MinOf DEF ChunkSize
<1>4. NextChunk(file, pos) = pos + 8 + c + (c % 2)
  BY DEF NextChunk
<1> HIDE DEF c, d
<1>5. c \in Nat /\ pos + 8 + c <= file.length
  BY <1>2, <1>3 DEF GoodFile
<1>6. c % 2 \in 0 .. 1
  BY <1>5
<1>7. NextChunk(file, pos) \in Int /\ NextChunk(file, pos) > pos
  BY <1>4, <1>5, <1>6
<1> QED
  BY <1>1, <1>5, <1>7 DEF c

LEMMA FileWalksAt ==
  ASSUME NEW file, NEW k, NEW g, FileWalks(g, file, k),
         NEW pos \in (file.length + 1) - k .. file.length + 1
  PROVE  g[pos] = IF pos + 8 > file.length THEN {}
                  ELSE {pos} \cup (IF NextChunk(file, pos) <= file.length
                                   THEN g[NextChunk(file, pos)] ELSE {})
<1> DEFINE D == (file.length + 1) - k .. file.length + 1
           e(p) == IF p + 8 > file.length THEN {}
                   ELSE {p} \cup (IF NextChunk(file, p) <= file.length
                                  THEN g[NextChunk(file, p)] ELSE {})
<1>1. g = [p \in D |-> e(p)]
  BY Zenon DEF FileWalks
<1> HIDE DEF e
<1>2. g[pos] = e(pos)
  BY <1>1
<1> QED
  BY <1>2 DEF e

LEMMA FileWalksExists ==
  ASSUME NEW file, GoodFile(file), NEW n \in Nat
  PROVE  \E g : FileWalks(g, file, n)
<1> DEFINE m == file.length + 1
           Good == {k \in Nat : \E g : FileWalks(g, file, k)}
<1>0. file.length \in Nat
  BY DEF GoodFile
<1>1. 0 \in Good
  <2> DEFINE g == [pos \in m - 0 .. m |-> {}]
  <2>1. \A pos \in m - 0 .. m : pos + 8 > file.length
    BY <1>0
  <2>2. FileWalks(g, file, 0)
    BY <2>1 DEF FileWalks
  <2> QED
    BY <2>2
<1>2. ASSUME NEW k \in Nat, k \in Good
      PROVE  k + 1 \in Good
  <2>1. PICK g : FileWalks(g, file, k)
    BY <1>2
  <2> DEFINE D == m - (k + 1) .. m
             h == [pos \in D |-> IF pos + 8 > file.length THEN {}
                                 ELSE {pos} \cup (IF NextChunk(file, pos) <= file.length
                                                  THEN g[NextChunk(file, pos)] ELSE {})]
  <2>2. \A pos \in m - k .. m : pos \in D /\ h[pos] = g[pos]
    <3> SUFFICES ASSUME NEW pos \in m - k .. m PROVE pos \in D /\ h[pos] = g[pos]
      OBVIOUS
    <3>1. pos \in D
      BY <1>0
    <3>2. g[pos] = IF pos + 8 > file.length THEN {}
                   ELSE {pos} \cup (IF NextChunk(file, pos) <= file.length
                                    THEN g[NextChunk(file, pos)] ELSE {})
      BY <2>1, FileWalksAt
    <3> HIDE DEF D
    <3> QED
      BY <3>1, <3>2
  <2>3. \A pos \in D : ~(pos + 8 > file.length) /\ NextChunk(file, pos) <= file.length
                         => NextChunk(file, pos) \in m - k .. m
    BY <1>0, ChunkSizeIs
  <2> HIDE DEF D
  <2>4. \A pos \in D : ~(pos + 8 > file.length) /\ NextChunk(file, pos) <= file.length
                         => g[NextChunk(file, pos)] = h[NextChunk(file, pos)]
    <3> HIDE DEF h
    <3> QED
      BY <2>2, <2>3
  <2>5. h = [pos \in D |-> IF pos + 8 > file.length THEN {}
                           ELSE {pos} \cup (IF NextChunk(file, pos) <= file.length
                                            THEN h[NextChunk(file, pos)] ELSE {})]
    BY <2>4
  <2>6. FileWalks(h, file, k + 1)
    <3> HIDE DEF h
    <3> QED
      BY <2>5 DEF FileWalks, D
  <2> QED
    BY <2>6
<1> HIDE DEF Good
<1>3. n \in Good
  BY <1>1, <1>2, NumbersFollow
<1> QED
  BY <1>3 DEF Good

(* Every chunk the walk visits has its header in the file. *)
LEMMA VisitedInside ==
  ASSUME NEW file, GoodFile(file)
  PROVE  \A p \in Visited(file) : p \in Nat /\ p >= 12 /\ p + 8 <= file.length
<1> SUFFICES ASSUME file.riff
             PROVE  \A p \in Visited(file) : p \in Nat /\ p >= 12 /\ p + 8 <= file.length
  BY DEF Visited
<1> DEFINE n == file.length
           k == n - 11
           g == CHOOSE g : FileWalks(g, file, k)
<1>1. n \in Nat /\ n >= 12 /\ k \in Nat /\ (n + 1) - k = 12
  BY DEF GoodFile
<1>2. FileWalks(g, file, k)
  <2>1. \E f : FileWalks(f, file, k)
    <3> HIDE DEF k
    <3> QED
      BY <1>1, FileWalksExists
  <2> QED
    BY <2>1
<1>3. Visited(file) = g[12]
  BY <1>1 DEF Visited, FileWalks
<1> HIDE DEF g
<1>4. \A p \in 12 .. n + 1 :
        g[p] = IF p + 8 > file.length THEN {}
               ELSE {p} \cup (IF NextChunk(file, p) <= file.length
                              THEN g[NextChunk(file, p)] ELSE {})
  <2> HIDE DEF k
  <2>1. \A p \in 12 .. n + 1 : p \in (file.length + 1) - k .. file.length + 1
    BY <1>1
  <2> QED
    BY <1>2, <2>1, FileWalksAt
<1> HIDE DEF k
<1> DEFINE Inside == {p \in Nat : p >= 12 /\ p + 8 <= n}
           Good == {j \in Nat : \A p \in 12 .. n + 1 : (n + 1) - p <= j => g[p] \subseteq Inside}
<1>5. 0 \in Good
  <2>1. \A p \in 12 .. n + 1 : (n + 1) - p <= 0 => p + 8 > file.length
    BY <1>1
  <2> QED
    BY <1>4, <2>1
<1>6. ASSUME NEW j \in Nat, j \in Good
      PROVE  j + 1 \in Good
  <2> SUFFICES ASSUME NEW p \in 12 .. n + 1, (n + 1) - p <= j + 1
               PROVE  g[p] \subseteq Inside
    OBVIOUS
  <2>1. CASE p + 8 > n
    BY <1>4, <2>1
  <2>2. CASE ~(p + 8 > n)
    <3> DEFINE next == NextChunk(file, p)
    <3>1. p \in Inside /\ next \in Int /\ next > p
      BY <1>1, <2>2, ChunkSizeIs
    <3>2. next <= n => next \in 12 .. n + 1 /\ (n + 1) - next <= j
      BY <1>1, <3>1
    <3>3. next <= n => g[next] \subseteq Inside
      BY <1>6, <3>2
    <3>4. g[p] = {p} \cup (IF next <= n THEN g[next] ELSE {})
      BY <1>4, <2>2
    <3> QED
      BY <3>1, <3>3, <3>4
  <2> QED
    BY <2>1, <2>2
<1>7. n + 1 \in Good
  <2> HIDE DEF Good
  <2>1. n + 1 \in Nat
    BY <1>1
  <2> QED
    BY <1>5, <1>6, <2>1, NumbersFollow
<1>8. 12 \in 12 .. n + 1 /\ (n + 1) - 12 <= n + 1
  BY <1>1
<1>9. g[12] \subseteq Inside
  BY <1>7, <1>8
<1> QED
  BY <1>3, <1>9

LEMMA LastChunkIs ==
  ASSUME NEW file, GoodFile(file), NEW id, LastChunk(file, id) # 0
  PROVE  /\ LastChunk(file, id) \in Visited(file)
         /\ HeaderAt(file, LastChunk(file, id)).id = id
<1> DEFINE found == {p \in Visited(file) : /\ HeaderAt(file, p).id = id
                                           /\ id = "fmt " => ChunkSize(file, p) >= 16}
<1>1. found # {} /\ LastChunk(file, id) = Max(found)
  BY DEF LastChunk
<1>2. found \subseteq 0 .. file.length /\ file.length \in Nat
  <2>1. file.length \in Nat
    BY DEF GoodFile
  <2>2. \A p \in found : p \in Nat /\ p + 8 <= file.length
    BY VisitedInside
  <2> HIDE DEF found
  <2> QED
    BY <2>1, <2>2
<1>3. Max(found) \in found
  <2> HIDE DEF found
  <2> QED
    BY <1>1, <1>2, MaxOf
<1> QED
  BY <1>1, <1>3

LEMMA DecodedIs ==
  ASSUME NEW file, GoodFile(file), DecodeWav(file).ok
  PROVE  /\ DecodeWav(file).samples \in Nat /\ DecodeWav(file).rate \in Nat
         /\ DecodeWav(file).channels \in Nat
<1> DEFINE fmtAt  == LastChunk(file, "fmt ")
           dataAt == LastChunk(file, "data")
           fmt    == HeaderAt(file, fmtAt)
<1>1. /\ fmtAt # 0 /\ dataAt # 0 /\ SampleBytes(fmt) # 0
      /\ DecodeWav(file) = [ok |-> TRUE, rate |-> fmt.rate, channels |-> fmt.channels,
                            samples |-> ChunkSize(file, dataAt) \div SampleBytes(fmt)]
  BY DEF DecodeWav, Unreadable
<1>2. /\ fmtAt \in Nat /\ fmtAt + 8 <= file.length /\ fmt.id = "fmt "
      /\ dataAt \in Nat /\ dataAt + 8 <= file.length
  <2>1. fmtAt \in Visited(file) /\ fmt.id = "fmt " /\ dataAt \in Visited(file)
    BY <1>1, LastChunkIs
  <2>2. \A p \in Visited(file) : p \in Nat /\ p + 8 <= file.length
    BY VisitedInside
  <2>3. fmtAt \in Nat /\ fmtAt + 8 <= file.length
    BY <2>1, <2>2
  <2>4. dataAt \in Nat /\ dataAt + 8 <= file.length
    BY <2>1, <2>2
  <2> HIDE DEF fmtAt, dataAt, fmt
  <2> QED
    BY <2>1, <2>3, <2>4, Zenon
<1>3. fmt.rate \in Nat /\ fmt.channels \in Nat /\ ChunkSize(file, dataAt) \in Nat
  <2>1. \A p \in Nat : p + 8 <= file.length =>
          ChunkSize(file, p) \in Nat /\ HeaderFields(HeaderAt(file, p))
    BY ChunkSizeIs
  <2>2. HeaderFields(fmt) /\ ChunkSize(file, dataAt) \in Nat
    BY <1>2, <2>1, Zenon
  <2> HIDE DEF fmt, fmtAt, dataAt
  <2> QED
    BY <1>2, <2>2 DEF HeaderFields
<1>4. SampleBytes(fmt) \in {1, 2, 4}
  <2>1. 8 \div 8 = 1 /\ 16 \div 8 = 2 /\ 32 \div 8 = 4
    OBVIOUS
  <2>2. SampleBytes(fmt) # 0
    BY <1>1
  <2> HIDE DEF fmt
  <2>3. \/ SampleBytes(fmt) = 4
        \/ fmt.bits \in {8, 16, 32} /\ SampleBytes(fmt) = fmt.bits \div 8
    BY <2>2 DEF SampleBytes
  <2> QED
    BY <2>1, <2>3
<1> HIDE DEF fmtAt, dataAt, fmt
<1>5. ChunkSize(file, dataAt) \div SampleBytes(fmt) \in Nat
  BY <1>3, <1>4
<1> QED
  BY <1>1, <1>3, <1>5

GoodPcm(pcm) == pcm.samples \in Nat /\ pcm.rate \in Int /\ pcm.channels \in Int

LEMMA AudioIsGood ==
  ASSUME NEW r \in Recordings
  PROVE  GoodPcm(AudioOf(r)) /\ (r.source = "file" => GoodFile(r.file))
<1>1. RecordingFields(r)
  BY WhisperAssumption
<1>2. r.source = "file" => GoodFile(r.file)
  BY <1>1 DEF RecordingFields, GoodFile
<1>3. CASE r.source = "samples"
  BY <1>1, <1>3, <1>2 DEF AudioOf, RecordingFields, GoodPcm
<1>4. CASE r.source = "file" /\ DecodeWav(r.file).ok
  BY <1>2, <1>4, DecodedIs DEF AudioOf, GoodPcm
<1>5. CASE r.source = "file" /\ ~DecodeWav(r.file).ok
  <2>1. DecodeWav(r.file) = Unreadable
    BY <1>5 DEF DecodeWav
  <2> QED
    BY <1>2, <1>5, <2>1 DEF AudioOf, GoodPcm, Unreadable
<1>6. CASE r.source \notin {"samples", "file"}
  BY <1>6 DEF AudioOf, GoodPcm, Unreadable
<1> QED
  BY <1>3, <1>4, <1>5, <1>6

LEMMA DivisionIs ==
  ASSUME NEW n \in Int, NEW d \in Nat \ {0}
  PROVE  /\ n \div d \in Int /\ d * (n \div d) <= n /\ n < d * (n \div d) + d
         /\ (n >= 0 => n \div d \in Nat)
<1>1. n = d * (n \div d) + (n % d) /\ n % d \in 0 .. d - 1
  OBVIOUS
<1>2. n \div d \in Int /\ d * (n \div d) \in Int
  OBVIOUS
<1>3. n >= 0 => n \div d >= 0
  OBVIOUS
<1> QED
  BY <1>1, <1>2, <1>3

LEMMA ModelInputIs ==
  ASSUME NEW pcm, GoodPcm(pcm)
  PROVE  MonoLength(pcm) \in Nat /\ ModelInputLength(pcm) \in Nat
<1> DEFINE m == MonoLength(pcm)
<1>1. m \in Nat
  BY DEF GoodPcm, MonoLength
<1> HIDE DEF m
<1>2. ~AsIs(pcm) => (m * Rate) \div pcm.rate \in Nat
  <2> SUFFICES ASSUME ~AsIs(pcm) PROVE (m * Rate) \div pcm.rate \in Nat
    OBVIOUS
  <2>1. pcm.rate \in Nat \ {0}
    BY DEF AsIs, GoodPcm
  <2>2. m * Rate \in Nat
    BY <1>1, WhisperAssumption
  <2> QED
    BY <2>1, <2>2, DivisionIs
<1> QED
  BY <1>1, <1>2 DEF ModelInputLength, m

(* Every output of the resampler is interpolated between two samples that  *)
(* are there.                                                              *)
LEMMA NeighboursInside ==
  ASSUME NEW pcm, GoodPcm(pcm), ~AsIs(pcm), NEW i \in 0 .. ModelInputLength(pcm) - 1
  PROVE  Neighbours(pcm, i) \subseteq 0 .. MonoLength(pcm) - 1
<1> DEFINE m == MonoLength(pcm)
           n == ModelInputLength(pcm)
           r == pcm.rate
           left == (i * r) \div Rate
<1>1. m \in Nat /\ n \in Nat /\ r \in Nat \ {0} /\ Rate \in Nat \ {0} /\ i \in Nat /\ i + 1 <= n
  BY ModelInputIs, WhisperAssumption DEF AsIs, GoodPcm
<1>2. n = (m * Rate) \div r
  BY DEF ModelInputLength
<1> HIDE DEF m, n, r
<1>3. r * n <= m * Rate
  <2>1. m * Rate \in Int
    BY <1>1
  <2> QED
    BY <1>1, <1>2, <2>1, DivisionIs
<1>4. i * r < m * Rate
  <2>1. r * (i + 1) <= r * n
    BY <1>1
  <2>2. r * (i + 1) = i * r + r
    BY <1>1
  <2>3. i * r \in Int /\ r * n \in Int /\ m * Rate \in Int
    BY <1>1
  <2> QED
    BY <1>1, <1>3, <2>1, <2>2, <2>3
<1>5. left \in Nat /\ Rate * left <= i * r
  <2>1. i * r \in Int /\ i * r >= 0
    BY <1>1
  <2> QED
    BY <1>1, <2>1, DivisionIs
<1> HIDE DEF left
<1>6. left < m
  <2>1. Rate * left < m * Rate
    <3>1. Rate * left \in Int /\ i * r \in Int /\ m * Rate \in Int
      BY <1>1, <1>5
    <3> QED
      BY <1>4, <1>5, <3>1
  <2>2. ~(left >= m)
    <3> SUFFICES ASSUME left >= m PROVE FALSE
      OBVIOUS
    <3>1. Rate * left >= Rate * m
      BY <1>1, <1>5
    <3>2. Rate * m = m * Rate /\ Rate * left \in Int /\ m * Rate \in Int
      BY <1>1, <1>5
    <3> QED
      BY <2>1, <3>1, <3>2
  <2> QED
    BY <1>1, <1>5, <2>2
<1>7. Neighbours(pcm, i) = {left, IF left + 1 < m THEN left + 1 ELSE left}
  BY DEF Neighbours, left, r, m
<1>8. {left, IF left + 1 < m THEN left + 1 ELSE left} \subseteq 0 .. m - 1
  BY <1>1, <1>5, <1>6
<1> QED
  BY <1>7, <1>8 DEF m

-----------------------------------------------------------------------------
(* whisper: the walk of serveVad over the windows.                         *)

VadStep(loud, w, walk, i) ==
  CASE Voiced(loud, i, w) /\ walk.from = Outside -> [walk EXCEPT !.from = i]
    [] ~Voiced(loud, i, w) /\ walk.from # Outside ->
         [from |-> Outside, spans |-> Append(walk.spans, <<walk.from, i>>)]
    [] OTHER -> walk

Silent == [from |-> Outside, spans |-> <<>>]

(* The function WalkWindows applies: over a set of windows, the last taken *)
(* last.                                                                   *)
Walked(g, loud, w, at, s) ==
  IF s = {} THEN Silent ELSE VadStep(loud, w, g[s \ {Max(s)}], at[Max(s)])

WalksFrom(g, loud, w, at, k) == g = [s \in SUBSET (1 .. k) |-> Walked(g, loud, w, at, s)]

LEMMA WalkedAt ==
  ASSUME NEW loud, NEW w, NEW at, NEW k, NEW g, WalksFrom(g, loud, w, at, k),
         NEW s \in SUBSET (1 .. k)
  PROVE  g[s] = Walked(g, loud, w, at, s)
BY DEF WalksFrom

LEMMA LastOf ==
  ASSUME NEW k \in Nat, NEW s \in SUBSET (1 .. k + 1), s # {}
  PROVE  s \ {Max(s)} \in SUBSET (1 .. k)
<1>1. s \subseteq 0 .. k + 1
  OBVIOUS
<1>2. Max(s) \in s
  <2>1. k + 1 \in Nat
    OBVIOUS
  <2> QED
    BY <1>1, <2>1, MaxOf
<1>3. CASE k + 1 \in s
  <2>1. \A x \in s : (\A y \in s : x >= y) => x = k + 1
    BY <1>3
  <2>2. \E x \in s : \A y \in s : x >= y
    BY <1>3
  <2>3. Max(s) = k + 1
    <3> DEFINE m == CHOOSE x \in s : \A y \in s : x >= y
    <3>1. m \in s /\ \A y \in s : m >= y
      BY <2>2, Zenon
    <3>2. Max(s) = m
      BY DEF Max
    <3> HIDE DEF m
    <3> QED
      BY <2>1, <3>1, <3>2
  <2>4. \A y \in s : y # k + 1 => y \in 1 .. k
    OBVIOUS
  <2> DEFINE m == Max(s)
  <2>5. m = k + 1
    BY <2>3
  <2> HIDE DEF m
  <2>6. s \ {m} \subseteq 1 .. k
    BY <2>4, <2>5
  <2> QED
    BY <2>6 DEF m
<1>4. CASE k + 1 \notin s
  <2>1. \A y \in s : y \in 1 .. k
    BY <1>4
  <2> DEFINE m == Max(s)
  <2> HIDE DEF m
  <2>2. s \ {m} \subseteq 1 .. k
    BY <2>1
  <2> QED
    BY <2>2 DEF m
<1> QED
  BY <1>3, <1>4

LEMMA ScansExists ==
  ASSUME NEW loud, NEW w, NEW at, NEW n \in Nat
  PROVE  \E g : WalksFrom(g, loud, w, at, n)
<1> DEFINE Good == {k \in Nat : \E g : WalksFrom(g, loud, w, at, k)}
<1>1. 0 \in Good
  <2> DEFINE g == [s \in SUBSET (1 .. 0) |-> Silent]
  <2>1. \A s \in SUBSET (1 .. 0) : s = {}
    OBVIOUS
  <2>2. WalksFrom(g, loud, w, at, 0)
    BY <2>1 DEF WalksFrom, Walked
  <2> QED
    BY <2>2
<1>2. ASSUME NEW k \in Nat, k \in Good
      PROVE  k + 1 \in Good
  <2>1. PICK g : WalksFrom(g, loud, w, at, k)
    BY <1>2
  <2> DEFINE h == [s \in SUBSET (1 .. k + 1) |-> Walked(g, loud, w, at, s)]
  <2>2. \A s \in SUBSET (1 .. k) : h[s] = g[s]
    <3> SUFFICES ASSUME NEW s \in SUBSET (1 .. k) PROVE h[s] = g[s]
      OBVIOUS
    <3>1. s \in SUBSET (1 .. k + 1)
      OBVIOUS
    <3>2. g[s] = Walked(g, loud, w, at, s)
      BY <2>1, WalkedAt
    <3> QED
      BY <3>1, <3>2, Zenon
  <2>3. \A s \in SUBSET (1 .. k + 1) : s # {} => g[s \ {Max(s)}] = h[s \ {Max(s)}]
    <3> HIDE DEF h
    <3> QED
      BY <2>2, LastOf
  <2>4. \A s \in SUBSET (1 .. k + 1) : Walked(g, loud, w, at, s) = Walked(h, loud, w, at, s)
    <3> HIDE DEF h
    <3> QED
      BY <2>3 DEF Walked
  <2>5. h = [s \in SUBSET (1 .. k + 1) |-> Walked(g, loud, w, at, s)]
    OBVIOUS
  <2>6. WalksFrom(h, loud, w, at, k + 1)
    <3> HIDE DEF h
    <3> QED
      BY <2>4, <2>5 DEF WalksFrom
  <2> QED
    BY <2>6
<1> HIDE DEF Good
<1>3. n \in Good
  BY <1>1, <1>2, NumbersFollow
<1> QED
  BY <1>3 DEF Good

(* WalkWindows, one window at a time. *)
LEMMA WalksOneByOne ==
  ASSUME NEW loud, NEW n \in Nat, NEW w \in Nat \ {0}
  PROVE  \E g : /\ g[0] = Silent /\ g[n \div w] = WalkWindows(loud, n, w)
                /\ \A k \in 0 .. (n \div w) - 1 : g[k + 1] = VadStep(loud, w, g[k], k * w)
<1> DEFINE m == n \div w
           at == Starts(n, w)
           f == CHOOSE f : WalksFrom(f, loud, w, at, m)
           g == [k \in 0 .. m |-> f[1 .. k]]
<1>1. m \in Nat
  BY DivisionIs
<1>2. DOMAIN at = 1 .. m /\ \A k \in 1 .. m : at[k] = (k - 1) * w
  BY DEF Starts
<1>3. WalksFrom(f, loud, w, at, m)
  <2>1. \E h : WalksFrom(h, loud, w, at, m)
    <3> HIDE DEF m, at
    <3> QED
      BY <1>1, ScansExists
  <2> QED
    BY <2>1
<1>4. WalkWindows(loud, n, w) = f[1 .. m]
  <2>1. DOMAIN Starts(n, w) = 1 .. m
    BY <1>2
  <2> HIDE DEF m
  <2> QED
    BY <2>1 DEF WalkWindows, FoldLeft, MapThenFoldSet, WalksFrom, Walked, VadStep, Silent
<1> HIDE DEF f, at, m
<1>5. \A s \in SUBSET (1 .. m) :
        f[s] = Walked(f, loud, w, at, s)
  BY <1>3, WalkedAt
<1>6. \A k \in 0 .. m : g[k] = f[1 .. k]
  OBVIOUS
<1>7. g[0] = Silent
  <2>1. 1 .. 0 = {} /\ 1 .. 0 \in SUBSET (1 .. m) /\ 0 \in 0 .. m
    BY <1>1
  <2> HIDE DEF g
  <2> QED
    BY <1>5, <1>6, <2>1 DEF Walked
<1>8. ASSUME NEW k \in 0 .. m - 1
      PROVE  g[k + 1] = VadStep(loud, w, g[k], k * w)
  <2> DEFINE s == 1 .. k + 1
  <2>1. s \in SUBSET (1 .. m) /\ s # {} /\ k \in 0 .. m /\ k + 1 \in 0 .. m /\ k \in Nat
    BY <1>1
  <2>2. Max(s) = k + 1
    <3>1. k + 1 \in s /\ \A y \in s : k + 1 >= y
      BY <2>1
    <3>2. \A x \in s : (\A y \in s : x >= y) => x = k + 1
      BY <3>1
    <3> DEFINE x == CHOOSE x \in s : \A y \in s : x >= y
    <3>3. x \in s /\ \A y \in s : x >= y
      BY <3>1, Zenon
    <3>4. Max(s) = x
      BY DEF Max
    <3> HIDE DEF x
    <3> QED
      BY <3>2, <3>3, <3>4
  <2>3. s \ {k + 1} = 1 .. k
    BY <2>1
  <2>4. at[k + 1] = k * w
    <3>1. k + 1 \in 1 .. m /\ (k + 1) - 1 = k
      BY <2>1
    <3> QED
      BY <1>2, <3>1
  <2> HIDE DEF g, s
  <2>5. f[s] = VadStep(loud, w, f[1 .. k], k * w)
    BY <1>5, <2>1, <2>2, <2>3, <2>4 DEF Walked
  <2> QED
    BY <1>6, <2>1, <2>5 DEF s
<1>9. g[m] = WalkWindows(loud, n, w)
  BY <1>1, <1>4, <1>6
<1> HIDE DEF g
<1> QED
  BY <1>7, <1>8, <1>9 DEF m

(* The windows by their number: where one starts and whether it is voiced. *)
Start(j, w) == (j - 1) * w

Loud(loud, j, w) == Voiced(loud, Start(j, w), w)

AllLoud(loud, w, a, b) == \A j \in a .. b : Loud(loud, j, w)

Opens(loud, w, a) == a > 1 => ~Loud(loud, a - 1, w)

(* The runs that a quiet window up to the k-th has closed. *)
Closed(loud, w, k) ==
  {run \in (1 .. k) \X (1 .. k) :
     /\ run[1] <= run[2] /\ run[2] < k
     /\ AllLoud(loud, w, run[1], run[2]) /\ Opens(loud, w, run[1])
     /\ ~Loud(loud, run[2] + 1, w)}

SpanOf(run, w) == <<Start(run[1], w), Start(run[2] + 1, w)>>

(* What the walk holds after k windows. *)
WalkIs(loud, w, k, walk) ==
  /\ walk = [from |-> walk.from, spans |-> walk.spans]
  /\ walk.spans \in Seq(Int \X Int)
  /\ ToSet(walk.spans) = {SpanOf(run, w) : run \in Closed(loud, w, k)}
  /\ \A i \in 1 .. Len(walk.spans) - 1 : walk.spans[i][2] < walk.spans[i + 1][1]
  /\ \/ walk.from = Outside /\ (k > 0 => ~Loud(loud, k, w))
        /\ \A i \in 1 .. Len(walk.spans) : walk.spans[i][2] < k * w
     \/ /\ \E a \in 1 .. k : /\ walk.from = Start(a, w) /\ AllLoud(loud, w, a, k)
                             /\ Opens(loud, w, a)
        /\ \A i \in 1 .. Len(walk.spans) : walk.spans[i][2] < walk.from

LEMMA Products ==
  ASSUME NEW w \in Nat \ {0}, NEW i \in Int, NEW j \in Int
  PROVE  i * w \in Int /\ (i * w < j * w <=> i < j) /\ (i + 1) * w = i * w + w
<1>1. i * w \in Int /\ j * w \in Int /\ (i + 1) * w = i * w + w
  OBVIOUS
<1>2. i < j => i * w < j * w
  OBVIOUS
<1>3. j <= i => j * w <= i * w
  OBVIOUS
<1> QED
  BY <1>1, <1>2, <1>3

LEMMA Appended ==
  ASSUME NEW S, NEW s \in Seq(S), NEW x \in S
  PROVE  /\ Append(s, x) \in Seq(S) /\ Len(Append(s, x)) = Len(s) + 1
         /\ \A i \in 1 .. Len(s) : Append(s, x)[i] = s[i]
         /\ Append(s, x)[Len(s) + 1] = x
         /\ ToSet(Append(s, x)) = ToSet(s) \cup {x}
<1> DEFINE t == Append(s, x)
<1>1. /\ t \in Seq(S) /\ Len(t) = Len(s) + 1 /\ Len(s) \in Nat
      /\ \A i \in 1 .. Len(s) : t[i] = s[i]
      /\ t[Len(s) + 1] = x /\ DOMAIN t = 1 .. Len(s) + 1 /\ DOMAIN s = 1 .. Len(s)
  OBVIOUS
<1> HIDE DEF t
<1>2. \A i \in 1 .. Len(s) + 1 : i \in 1 .. Len(s) \/ i = Len(s) + 1
  BY <1>1
<1>3. ToSet(t) = ToSet(s) \cup {x}
  BY <1>1, <1>2 DEF ToSet
<1> QED
  BY <1>1, <1>3 DEF t

LEMMA StartsOutside ==
  ASSUME NEW loud, NEW w \in Nat \ {0}
  PROVE  WalkIs(loud, w, 0, Silent)
<1>1. Silent.spans = <<>> /\ Silent.from = Outside /\ Silent = [from |-> Outside, spans |-> <<>>]
  BY DEF Silent
<1>2. Closed(loud, w, 0) = {}
  BY DEF Closed
<1>3. ToSet(<<>>) = {} /\ <<>> \in Seq(Int \X Int) /\ Len(<<>>) = 0
  BY DEF ToSet
<1> QED
  BY <1>1, <1>2, <1>3 DEF WalkIs

(* A window closes the run it is quiet after, and no other. *)
LEMMA ClosedGrows ==
  ASSUME NEW loud, NEW w \in Nat \ {0}, NEW k \in Nat
  PROVE  /\ Loud(loud, k + 1, w) \/ k = 0 \/ ~Loud(loud, k, w)
              => Closed(loud, w, k + 1) = Closed(loud, w, k)
         /\ \A a \in 1 .. k : ~Loud(loud, k + 1, w) /\ AllLoud(loud, w, a, k) /\ Opens(loud, w, a)
              => Closed(loud, w, k + 1) = Closed(loud, w, k) \cup {<<a, k>>}
<1>1. Closed(loud, w, k) \subseteq Closed(loud, w, k + 1)
  <2> SUFFICES ASSUME NEW run \in Closed(loud, w, k) PROVE run \in Closed(loud, w, k + 1)
    OBVIOUS
  <2>1. run \in (1 .. k + 1) \X (1 .. k + 1) /\ run[2] < k + 1
    BY DEF Closed
  <2> QED
    BY <2>1 DEF Closed
<1>2. ASSUME NEW run \in Closed(loud, w, k + 1), run[2] # k
      PROVE  run \in Closed(loud, w, k)
  <2>1. run \in (1 .. k) \X (1 .. k) /\ run[2] < k
    BY <1>2 DEF Closed
  <2> QED
    BY <2>1 DEF Closed
<1>3. ASSUME NEW run \in Closed(loud, w, k + 1), run[2] = k
      PROVE  /\ ~Loud(loud, k + 1, w) /\ Loud(loud, k, w) /\ k # 0
             /\ run[1] \in 1 .. k /\ AllLoud(loud, w, run[1], k) /\ Opens(loud, w, run[1])
             /\ run = <<run[1], k>>
  <2>1. run \in (1 .. k + 1) \X (1 .. k + 1) /\ run[1] <= k
    BY <1>3 DEF Closed
  <2>2. run[1] \in 1 .. k /\ k \in run[1] .. k /\ k # 0
    BY <2>1
  <2>3. run = <<run[1], k>>
    BY <1>3, <2>1
  <2>4. ~Loud(loud, k + 1, w) /\ AllLoud(loud, w, run[1], k) /\ Opens(loud, w, run[1])
    BY <1>3 DEF Closed
  <2> QED
    BY <2>2, <2>3, <2>4 DEF AllLoud
<1>4. ASSUME Loud(loud, k + 1, w) \/ k = 0 \/ ~Loud(loud, k, w)
      PROVE  Closed(loud, w, k + 1) = Closed(loud, w, k)
  BY <1>1, <1>2, <1>3, <1>4
<1>5. ASSUME NEW a \in 1 .. k, ~Loud(loud, k + 1, w), AllLoud(loud, w, a, k), Opens(loud, w, a)
      PROVE  Closed(loud, w, k + 1) = Closed(loud, w, k) \cup {<<a, k>>}
  <2>1. <<a, k>> \in Closed(loud, w, k + 1)
    <3>1. <<a, k>> \in (1 .. k + 1) \X (1 .. k + 1)
      OBVIOUS
    <3> QED
      BY <1>5, <3>1 DEF Closed
  <2>2. ASSUME NEW run \in Closed(loud, w, k + 1), run[2] = k
        PROVE  run = <<a, k>>
    <3>1. /\ run[1] \in 1 .. k /\ AllLoud(loud, w, run[1], k) /\ Opens(loud, w, run[1])
          /\ run = <<run[1], k>>
      BY <1>3, <2>2
    <3>2. ~(run[1] < a)
      <4> SUFFICES ASSUME run[1] < a PROVE FALSE
        OBVIOUS
      <4>1. a - 1 \in run[1] .. k /\ a > 1
        BY <3>1
      <4> QED
        BY <1>5, <3>1, <4>1 DEF AllLoud, Opens
    <3>3. ~(a < run[1])
      <4> SUFFICES ASSUME a < run[1] PROVE FALSE
        OBVIOUS
      <4>1. run[1] - 1 \in a .. k /\ run[1] > 1
        BY <3>1
      <4> QED
        BY <1>5, <3>1, <4>1 DEF AllLoud, Opens
    <3>4. run[1] = a
      BY <3>1, <3>2, <3>3
    <3> QED
      BY <3>1, <3>4
  <2> QED
    BY <1>1, <1>2, <2>1, <2>2
<1> QED
  BY <1>4, <1>5

LEMMA WalkSteps ==
  ASSUME NEW loud, NEW w \in Nat \ {0}, NEW k \in Nat, NEW walk, WalkIs(loud, w, k, walk)
  PROVE  WalkIs(loud, w, k + 1, VadStep(loud, w, walk, k * w))
<1> DEFINE f == walk.from
           s == walk.spans
           at == k * w
           next == VadStep(loud, w, walk, at)
           new == Append(s, <<f, at>>)
<1> SUFFICES WalkIs(loud, w, k + 1, next)
  OBVIOUS
<1>1. /\ walk = [from |-> f, spans |-> s] /\ s \in Seq(Int \X Int) /\ Len(s) \in Nat
      /\ ToSet(s) = {SpanOf(run, w) : run \in Closed(loud, w, k)}
      /\ \A i \in 1 .. Len(s) - 1 : s[i][2] < s[i + 1][1]
  BY DEF WalkIs
<1>2. \/ f = Outside /\ (k > 0 => ~Loud(loud, k, w)) /\ \A i \in 1 .. Len(s) : s[i][2] < at
      \/ /\ \E a \in 1 .. k : f = Start(a, w) /\ AllLoud(loud, w, a, k) /\ Opens(loud, w, a)
         /\ \A i \in 1 .. Len(s) : s[i][2] < f
  BY DEF WalkIs
<1>3. at \in Int /\ at >= 0 /\ Start(k + 1, w) = at /\ (k + 1) * w \in Int /\ at < (k + 1) * w
  <2>1. (k + 1) - 1 = k
    OBVIOUS
  <2>2. at \in Int /\ (k + 1) * w \in Int /\ at < (k + 1) * w
    BY Products
  <2>3. at >= 0
    OBVIOUS
  <2> QED
    BY <2>1, <2>2, <2>3 DEF Start
<1>4. Loud(loud, k + 1, w) <=> Voiced(loud, at, w)
  BY <1>3 DEF Loud
<1>5. \A a \in 1 .. k : Start(a, w) \in Int /\ Start(a, w) >= 0 /\ Start(a, w) < at
  <2> SUFFICES ASSUME NEW a \in 1 .. k
               PROVE  Start(a, w) \in Int /\ Start(a, w) >= 0 /\ Start(a, w) < at
    OBVIOUS
  <2>1. a - 1 \in Nat /\ a - 1 < k
    OBVIOUS
  <2>2. (a - 1) * w \in Int /\ (a - 1) * w >= 0 /\ (a - 1) * w < k * w
    BY <2>1, Products
  <2> QED
    BY <2>2 DEF Start
<1>6. Len(s) \in Nat /\ \A i \in 1 .. Len(s) : s[i] \in Int \X Int
  BY <1>1
<1> HIDE DEF f, s, at
<1>7. CASE Voiced(loud, at, w) /\ f = Outside
  <2>1. next = [from |-> at, spans |-> s]
    BY <1>1, <1>7 DEF VadStep, f
  <2>2. Closed(loud, w, k + 1) = Closed(loud, w, k)
    BY <1>4, <1>7, ClosedGrows
  <2>3. AllLoud(loud, w, k + 1, k + 1) /\ Opens(loud, w, k + 1)
    <3>1. (k + 1) - 1 = k /\ (k + 1 > 1 <=> k > 0)
      OBVIOUS
    <3>2. k > 0 => ~Loud(loud, k, w)
      <4>1. \A a \in 1 .. k : Start(a, w) # Outside
        BY <1>5 DEF Outside
      <4> QED
        BY <1>2, <1>7, <4>1
    <3>3. \A j \in k + 1 .. k + 1 : j = k + 1
      OBVIOUS
    <3> QED
      BY <1>4, <1>7, <3>1, <3>2, <3>3 DEF AllLoud, Opens
  <2>4. \A i \in 1 .. Len(s) : s[i][2] < at
    <3>1. \A a \in 1 .. k : Start(a, w) # Outside
      BY <1>5 DEF Outside
    <3> QED
      BY <1>2, <1>7, <3>1
  <2>5. next.from = at /\ next.spans = s /\ k + 1 \in 1 .. k + 1
    BY <2>1
  <2> HIDE DEF next
  <2>6. \E a \in 1 .. k + 1 :
          next.from = Start(a, w) /\ AllLoud(loud, w, a, k + 1) /\ Opens(loud, w, a)
    BY <1>3, <2>3, <2>5
  <2>7. next = [from |-> next.from, spans |-> next.spans]
    BY <2>1, <2>5
  <2> QED
    BY <1>1, <2>2, <2>4, <2>5, <2>6, <2>7 DEF WalkIs
<1>8. CASE ~Voiced(loud, at, w) /\ f # Outside
  <2>1. next = [from |-> Outside, spans |-> new]
    BY <1>1, <1>8 DEF VadStep, f, s
  <2>2. PICK a \in 1 .. k : f = Start(a, w) /\ AllLoud(loud, w, a, k) /\ Opens(loud, w, a)
    BY <1>2, <1>8
  <2>3. Closed(loud, w, k + 1) = Closed(loud, w, k) \cup {<<a, k>>}
    BY <1>4, <1>8, <2>2, ClosedGrows
  <2>4. SpanOf(<<a, k>>, w) = <<f, at>> /\ <<f, at>> \in Int \X Int /\ f < at
    BY <1>3, <1>5, <2>2 DEF SpanOf
  <2>5. /\ new \in Seq(Int \X Int) /\ Len(new) = Len(s) + 1
        /\ \A i \in 1 .. Len(s) : new[i] = s[i]
        /\ new[Len(s) + 1] = <<f, at>> /\ ToSet(new) = ToSet(s) \cup {<<f, at>>}
    <3> DEFINE x == <<f, at>>
               S == Int \X Int
    <3>1. s \in Seq(S) /\ x \in S
      BY <1>1, <2>4
    <3> HIDE DEF x, S
    <3>2. /\ Append(s, x) \in Seq(S) /\ Len(Append(s, x)) = Len(s) + 1
          /\ \A i \in 1 .. Len(s) : Append(s, x)[i] = s[i]
          /\ Append(s, x)[Len(s) + 1] = x
          /\ ToSet(Append(s, x)) = ToSet(s) \cup {x}
      BY <3>1, Appended
    <3> QED
      BY <3>2, Zenon DEF x, S
  <2> HIDE DEF new
  <2>6. ToSet(new) = {SpanOf(run, w) : run \in Closed(loud, w, k + 1)}
    <3> DEFINE C == Closed(loud, w, k)
    <3>1. {SpanOf(run, w) : run \in C \cup {<<a, k>>}}
            = {SpanOf(run, w) : run \in C} \cup {SpanOf(<<a, k>>, w)}
      <4> HIDE DEF C
      <4> QED
        OBVIOUS
    <3> QED
      BY <1>1, <2>3, <2>4, <2>5, <3>1
  <2>7. \A i \in 1 .. Len(s) : s[i][2] < f
    BY <1>2, <1>8
  <2>8. \A i \in 1 .. Len(new) - 1 : new[i][2] < new[i + 1][1]
    <3> SUFFICES ASSUME NEW i \in 1 .. Len(s) PROVE new[i][2] < new[i + 1][1]
      BY <1>1, <2>5
    <3>1. CASE i = Len(s)
      <4>1. new[i] = s[i] /\ new[i + 1] = <<f, at>>
        BY <2>5, <3>1
      <4> QED
        BY <2>7, <4>1
    <3>2. CASE i # Len(s)
      <4>1. i \in 1 .. Len(s) - 1 /\ i + 1 \in 1 .. Len(s)
        BY <1>6, <3>2
      <4>2. new[i] = s[i] /\ new[i + 1] = s[i + 1]
        BY <2>5, <4>1
      <4> QED
        BY <1>1, <4>1, <4>2
    <3> QED
      BY <3>1, <3>2
  <2>9. \A i \in 1 .. Len(new) : new[i][2] < (k + 1) * w
    <3> SUFFICES ASSUME NEW i \in 1 .. Len(s) + 1 PROVE new[i][2] < (k + 1) * w
      BY <2>5
    <3>1. CASE i = Len(s) + 1
      BY <1>3, <2>5, <3>1
    <3>2. CASE i # Len(s) + 1
      <4>1. i \in 1 .. Len(s)
        BY <1>1, <3>2
      <4>2. new[i] = s[i] /\ s[i][2] \in Int /\ s[i][2] < f
        BY <1>6, <2>5, <2>7, <4>1
      <4> QED
        BY <1>3, <1>5, <2>2, <2>4, <4>2
    <3> QED
      BY <3>1, <3>2
  <2>10. next.from = Outside /\ next.spans = new /\ (k + 1) > 0
    BY <2>1
  <2> HIDE DEF next
  <2>11. next = [from |-> next.from, spans |-> next.spans]
    BY <2>1, <2>10
  <2> QED
    BY <1>4, <1>8, <2>5, <2>6, <2>8, <2>9, <2>10, <2>11 DEF WalkIs
<1>9. CASE Voiced(loud, at, w) /\ f # Outside
  <2>1. next = walk
    BY <1>9 DEF VadStep, f
  <2>2. PICK a \in 1 .. k : f = Start(a, w) /\ AllLoud(loud, w, a, k) /\ Opens(loud, w, a)
    BY <1>2, <1>9
  <2>3. Closed(loud, w, k + 1) = Closed(loud, w, k)
    BY <1>4, <1>9, ClosedGrows
  <2>4. AllLoud(loud, w, a, k + 1) /\ a \in 1 .. k + 1
    <3>1. \A j \in a .. k + 1 : j \in a .. k \/ j = k + 1
      OBVIOUS
    <3> QED
      BY <1>4, <1>9, <2>2, <3>1 DEF AllLoud
  <2>5. \A i \in 1 .. Len(s) : s[i][2] < f
    BY <1>2, <1>9
  <2>6. \E b \in 1 .. k + 1 :
          f = Start(b, w) /\ AllLoud(loud, w, b, k + 1) /\ Opens(loud, w, b)
    BY <2>2, <2>4
  <2> HIDE DEF next
  <2> QED
    BY <1>1, <2>1, <2>3, <2>5, <2>6 DEF WalkIs, f, s
<1>10. CASE ~Voiced(loud, at, w) /\ f = Outside
  <2>1. next = walk
    BY <1>10 DEF VadStep, f
  <2>2. /\ k = 0 \/ ~Loud(loud, k, w)
        /\ \A i \in 1 .. Len(s) : s[i][2] < at
    <3>1. \A a \in 1 .. k : Start(a, w) # Outside
      BY <1>5 DEF Outside
    <3> QED
      BY <1>2, <1>10, <3>1
  <2>3. Closed(loud, w, k + 1) = Closed(loud, w, k)
    BY <2>2, ClosedGrows
  <2>4. \A i \in 1 .. Len(s) : s[i][2] < (k + 1) * w
    BY <1>3, <1>6, <2>2
  <2> HIDE DEF next
  <2> QED
    BY <1>1, <1>4, <1>10, <2>1, <2>3, <2>4 DEF WalkIs, f, s
<1> HIDE DEF next
<1> QED
  BY <1>7, <1>8, <1>9, <1>10 DEF next, at

LEMMA WalkEnds ==
  ASSUME NEW loud, NEW n \in Nat, NEW w \in Nat \ {0}
  PROVE  WalkIs(loud, w, n \div w, WalkWindows(loud, n, w))
<1> DEFINE m == n \div w
<1>1. m \in Nat
  BY DivisionIs
<1>2. PICK g : /\ g[0] = Silent /\ g[m] = WalkWindows(loud, n, w)
               /\ \A k \in 0 .. m - 1 : g[k + 1] = VadStep(loud, w, g[k], k * w)
  BY WalksOneByOne
<1> HIDE DEF m
<1> DEFINE Good == {k \in Nat : k <= m => WalkIs(loud, w, k, g[k])}
<1>3. 0 \in Good
  BY <1>2, StartsOutside
<1>4. ASSUME NEW k \in Nat, k \in Good
      PROVE  k + 1 \in Good
  <2> SUFFICES ASSUME k + 1 <= m PROVE WalkIs(loud, w, k + 1, g[k + 1])
    OBVIOUS
  <2>1. k \in 0 .. m - 1 /\ k <= m
    BY <1>1
  <2>2. WalkIs(loud, w, k, g[k])
    BY <1>4, <2>1
  <2>3. WalkIs(loud, w, k + 1, VadStep(loud, w, g[k], k * w))
    BY <2>2, WalkSteps
  <2> QED
    BY <1>2, <2>1, <2>3
<1>5. m \in Good
  <2> HIDE DEF Good
  <2> QED
    BY <1>1, <1>3, <1>4, NumbersFollow
<1>6. WalkIs(loud, w, m, g[m])
  BY <1>1, <1>5
<1> QED
  BY <1>2, <1>6 DEF m

LEMMA StartsAre ==
  ASSUME NEW n \in Nat, NEW w \in Nat \ {0}
  PROVE  /\ ToSet(Starts(n, w)) = {Start(j, w) : j \in 1 .. n \div w}
         /\ \A i \in Int : /\ Start(i, w) \in Int /\ Start(i, w) + w = Start(i + 1, w)
                           /\ Start(i, w) - w = Start(i - 1, w)
         /\ \A i, j \in Int : Start(i, w) <= Start(j, w) <=> i <= j
<1> DEFINE m == n \div w
<1>1. ToSet(Starts(n, w)) = {Start(j, w) : j \in 1 .. m}
  BY DEF ToSet, Starts, Start
<1>2. ASSUME NEW i \in Int
      PROVE  /\ Start(i, w) \in Int /\ Start(i, w) + w = Start(i + 1, w)
             /\ Start(i, w) - w = Start(i - 1, w)
  <2>1. (i - 1) * w \in Int /\ ((i - 1) + 1) * w = (i - 1) * w + w
    BY Products
  <2>2. (i - 1) - 1 \in Int /\ ((i - 1) - 1) * w \in Int
        /\ (((i - 1) - 1) + 1) * w = ((i - 1) - 1) * w + w
    BY Products
  <2>3. (i - 1) + 1 = (i + 1) - 1 /\ ((i - 1) - 1) + 1 = i - 1
    OBVIOUS
  <2> QED
    BY <2>1, <2>2, <2>3 DEF Start
<1>3. ASSUME NEW i \in Int, NEW j \in Int
      PROVE  Start(i, w) <= Start(j, w) <=> i <= j
  <2>1. (j - 1) * w < (i - 1) * w <=> j - 1 < i - 1
    BY Products
  <2>2. Start(i, w) \in Int /\ Start(j, w) \in Int
    BY <1>2
  <2> QED
    BY <2>1, <2>2 DEF Start
<1> QED
  BY <1>1, <1>2, <1>3

(* The longest runs among the first m windows, by the numbers of their     *)
(* first and last.                                                         *)
LongRuns(loud, w, m) ==
  {run \in (1 .. m) \X (1 .. m) :
     /\ run[1] <= run[2] /\ AllLoud(loud, w, run[1], run[2]) /\ Opens(loud, w, run[1])
     /\ run[2] < m => ~Loud(loud, run[2] + 1, w)}

LEMMA OneOpening ==
  ASSUME NEW loud, NEW w, NEW m \in Nat, NEW i \in 1 .. m, NEW j \in 1 .. m,
         AllLoud(loud, w, i, m), Opens(loud, w, i), AllLoud(loud, w, j, m), Opens(loud, w, j)
  PROVE  i = j
<1>1. \A x, y \in 1 .. m :
        AllLoud(loud, w, x, m) /\ Opens(loud, w, y) /\ AllLoud(loud, w, y, m) => ~(x < y)
  <2> SUFFICES ASSUME NEW x \in 1 .. m, NEW y \in 1 .. m, AllLoud(loud, w, x, m),
                      Opens(loud, w, y), x < y
               PROVE  FALSE
    OBVIOUS
  <2>1. y - 1 \in x .. m /\ y > 1
    OBVIOUS
  <2> QED
    BY <2>1 DEF AllLoud, Opens
<1>2. ~(i < j) /\ ~(j < i)
  BY <1>1
<1> QED
  BY <1>2

LEMMA RunsAreLong ==
  ASSUME NEW loud, NEW n \in Nat, NEW w \in Nat \ {0}
  PROVE  /\ Runs(loud, n, w) = {<<Start(run[1], w), Start(run[2], w)>> :
                                  run \in LongRuns(loud, w, n \div w)}
         /\ \A b \in 1 .. n \div w : Start(b, w) + w \in ToSet(Starts(n, w)) <=> b < n \div w
<1> DEFINE m == n \div w
           starts == ToSet(Starts(n, w))
<1>0. m \in Nat
  BY DivisionIs
<1>1. starts = {Start(j, w) : j \in 1 .. m}
  BY StartsAre
<1>2. \A i \in Int : /\ Start(i, w) \in Int /\ Start(i, w) + w = Start(i + 1, w)
                     /\ Start(i, w) - w = Start(i - 1, w)
  BY StartsAre
<1>3. \A i, j \in Int : Start(i, w) <= Start(j, w) <=> i <= j
  BY StartsAre
<1>4. \A i, j \in Int : Start(i, w) = Start(j, w) => i = j
  <2> SUFFICES ASSUME NEW i \in Int, NEW j \in Int, Start(i, w) = Start(j, w) PROVE i = j
    OBVIOUS
  <2>1. Start(i, w) <= Start(j, w) /\ Start(j, w) <= Start(i, w)
    BY <1>2
  <2>2. i <= j /\ j <= i
    BY <1>3, <2>1
  <2> QED
    BY <2>2
<1> HIDE DEF starts
<1>5. \A i \in Int : Start(i, w) \in starts <=> i \in 1 .. m
  <2> SUFFICES ASSUME NEW i \in Int PROVE Start(i, w) \in starts <=> i \in 1 .. m
    OBVIOUS
  <2>1. ASSUME Start(i, w) \in starts PROVE i \in 1 .. m
    <3>1. PICK j \in 1 .. m : Start(i, w) = Start(j, w)
      BY <1>1, <2>1
    <3> QED
      BY <1>4, <3>1
  <2>2. ASSUME i \in 1 .. m PROVE Start(i, w) \in starts
    BY <1>1, <2>2
  <2> QED
    BY <2>1, <2>2
<1>6. ASSUME NEW a \in 1 .. m, NEW b \in 1 .. m
      PROVE  <<Start(a, w), Start(b, w)>> \in Runs(loud, n, w)
               <=> <<a, b>> \in LongRuns(loud, w, m)
  <2> DEFINE run == <<Start(a, w), Start(b, w)>>
  <2>1. run \in Runs(loud, n, w) <=>
          /\ run[1] <= run[2]
          /\ \A i \in starts : run[1] <= i /\ i <= run[2] => Voiced(loud, i, w)
          /\ \A i \in starts \cap {run[1] - w, run[2] + w} : ~Voiced(loud, i, w)
    <3>1. run \in starts \X starts
      BY <1>5
    <3> HIDE DEF run
    <3> QED
      BY <3>1 DEF Runs, starts
  <2>2. run[1] = Start(a, w) /\ run[2] = Start(b, w)
    OBVIOUS
  <2> HIDE DEF run
  <2>3. run[1] <= run[2] <=> a <= b
    BY <1>3, <2>2
  <2>4. (\A i \in starts : run[1] <= i /\ i <= run[2] => Voiced(loud, i, w))
          <=> AllLoud(loud, w, a, b)
    <3>1. (\A i \in starts : run[1] <= i /\ i <= run[2] => Voiced(loud, i, w))
            <=> \A j \in 1 .. m : Start(a, w) <= Start(j, w) /\ Start(j, w) <= Start(b, w)
                                    => Voiced(loud, Start(j, w), w)
      BY <1>1, <2>2
    <3>2. \A j \in 1 .. m : /\ Start(a, w) <= Start(j, w) <=> a <= j
                            /\ Start(j, w) <= Start(b, w) <=> j <= b
      BY <1>3
    <3>3. \A j \in Int : j \in a .. b <=> j \in 1 .. m /\ a <= j /\ j <= b
      BY <1>0
    <3> QED
      BY <3>1, <3>2, <3>3 DEF AllLoud, Loud
  <2>5. (\A i \in starts \cap {run[1] - w, run[2] + w} : ~Voiced(loud, i, w))
          <=> Opens(loud, w, a) /\ (b < m => ~Loud(loud, b + 1, w))
    <3>1. run[1] - w = Start(a - 1, w) /\ run[2] + w = Start(b + 1, w)
      BY <1>2, <2>2
    <3>2. Start(a - 1, w) \in starts <=> a > 1
      <4>1. a - 1 \in Int /\ (a - 1 \in 1 .. m <=> a > 1)
        BY <1>0
      <4> QED
        BY <1>5, <4>1
    <3>3. Start(b + 1, w) \in starts <=> b < m
      <4>1. b + 1 \in Int /\ (b + 1 \in 1 .. m <=> b < m)
        BY <1>0
      <4> QED
        BY <1>5, <4>1
    <3>4. (\A i \in starts \cap {run[1] - w, run[2] + w} : ~Voiced(loud, i, w))
            <=> /\ Start(a - 1, w) \in starts => ~Voiced(loud, Start(a - 1, w), w)
                /\ Start(b + 1, w) \in starts => ~Voiced(loud, Start(b + 1, w), w)
      BY <3>1
    <3> QED
      BY <3>2, <3>3, <3>4 DEF Opens, Loud
  <2>6. <<a, b>> \in LongRuns(loud, w, m) <=>
          /\ a <= b /\ AllLoud(loud, w, a, b) /\ Opens(loud, w, a)
          /\ b < m => ~Loud(loud, b + 1, w)
    BY DEF LongRuns
  <2>7. run \in Runs(loud, n, w) <=> <<a, b>> \in LongRuns(loud, w, m)
    <3> HIDE DEF m
    <3> QED
      BY <2>1, <2>3, <2>4, <2>5, <2>6
  <2> QED
    BY <2>7 DEF run
<1>7. ASSUME NEW run \in Runs(loud, n, w)
      PROVE  \E long \in LongRuns(loud, w, m) : run = <<Start(long[1], w), Start(long[2], w)>>
  <2>1. run \in starts \X starts
    BY DEF Runs, starts
  <2>2. PICK a \in 1 .. m, b \in 1 .. m : run = <<Start(a, w), Start(b, w)>>
    BY <1>1, <2>1
  <2>3. <<a, b>> \in LongRuns(loud, w, m) /\ <<a, b>>[1] = a /\ <<a, b>>[2] = b
    BY <1>6, <2>2
  <2> QED
    BY <2>2, <2>3
<1>8. ASSUME NEW long \in LongRuns(loud, w, m)
      PROVE  <<Start(long[1], w), Start(long[2], w)>> \in Runs(loud, n, w)
  <2>1. long[1] \in 1 .. m /\ long[2] \in 1 .. m /\ long = <<long[1], long[2]>>
    BY DEF LongRuns
  <2> QED
    BY <1>6, <2>1
<1>9. Runs(loud, n, w) = {<<Start(run[1], w), Start(run[2], w)>> : run \in LongRuns(loud, w, m)}
  <2> HIDE DEF m
  <2> QED
    BY <1>7, <1>8
<1>10. \A b \in 1 .. m : Start(b, w) + w \in starts <=> b < m
  <2> SUFFICES ASSUME NEW b \in 1 .. m PROVE Start(b, w) + w \in starts <=> b < m
    OBVIOUS
  <2>1. b + 1 \in Int /\ (b + 1 \in 1 .. m <=> b < m) /\ Start(b, w) + w = Start(b + 1, w)
    BY <1>0, <1>2
  <2> QED
    BY <1>5, <2>1
<1> QED
  BY <1>9, <1>10 DEF starts

(* What the property asks of the spans, for any recording and window. *)
SpanEnd(n, w, run) == <<run[1], IF run[2] + w \in ToSet(Starts(n, w)) THEN run[2] + w ELSE n>>

LEMMA SpansAreRuns ==
  ASSUME NEW loud, NEW n \in Nat, NEW w \in Nat \ {0}
  PROVE  /\ ToSet(VadSpans(loud, n, w)) = {SpanEnd(n, w, run) : run \in Runs(loud, n, w)}
         /\ \A k \in 1 .. Len(VadSpans(loud, n, w)) - 1 :
              VadSpans(loud, n, w)[k][2] < VadSpans(loud, n, w)[k + 1][1]
<1> DEFINE m == n \div w
           walk == WalkWindows(loud, n, w)
           f == walk.from
           s == walk.spans
           spans == VadSpans(loud, n, w)
           C == Closed(loud, w, m)
           R == LongRuns(loud, w, m)
           Out(run) == <<Start(run[1], w), IF run[2] < m THEN Start(run[2] + 1, w) ELSE n>>
<1>0. m \in Nat
  BY DivisionIs
<1>1. WalkIs(loud, w, m, walk)
  BY WalkEnds
<1>2. spans = IF f = Outside THEN s ELSE Append(s, <<f, n>>)
  BY DEF VadSpans
<1> HIDE DEF m, walk, spans
<1>3. /\ s \in Seq(Int \X Int) /\ ToSet(s) = {SpanOf(run, w) : run \in C}
      /\ \A i \in 1 .. Len(s) - 1 : s[i][2] < s[i + 1][1]
  BY <1>1 DEF WalkIs
<1>4. \/ f = Outside /\ (m > 0 => ~Loud(loud, m, w))
      \/ /\ \E a \in 1 .. m : f = Start(a, w) /\ AllLoud(loud, w, a, m) /\ Opens(loud, w, a)
         /\ \A i \in 1 .. Len(s) : s[i][2] < f
  BY <1>1 DEF WalkIs
<1> HIDE DEF f, s
<1>5. C = {run \in R : run[2] < m}
  BY <1>0 DEF Closed, LongRuns
<1>6. {SpanEnd(n, w, run) : run \in Runs(loud, n, w)} = {Out(run) : run \in R}
  <2>1. Runs(loud, n, w) = {<<Start(run[1], w), Start(run[2], w)>> : run \in R}
    BY RunsAreLong DEF m
  <2>2. \A run \in R : SpanEnd(n, w, <<Start(run[1], w), Start(run[2], w)>>) = Out(run)
    <3> SUFFICES ASSUME NEW run \in R
                 PROVE  SpanEnd(n, w, <<Start(run[1], w), Start(run[2], w)>>) = Out(run)
      OBVIOUS
    <3>1. run[2] \in 1 .. m
      BY DEF LongRuns
    <3>2. Start(run[2], w) + w \in ToSet(Starts(n, w)) <=> run[2] < m
      BY <3>1, RunsAreLong DEF m
    <3>3. Start(run[2], w) + w = Start(run[2] + 1, w)
      <4>1. run[2] \in Int
        BY <3>1, <1>0
      <4> QED
        BY <4>1, StartsAre
    <3> QED
      BY <3>2, <3>3 DEF SpanEnd
  <2> HIDE DEF Out, R
  <2> QED
    BY <2>1, <2>2
<1>7. {SpanOf(run, w) : run \in C} = {Out(run) : run \in {r \in R : r[2] < m}}
  BY <1>5 DEF SpanOf
<1>8. \A run \in R : run[2] < m \/ run[2] = m
  BY <1>0 DEF LongRuns
<1>9. CASE f = Outside
  <2>1. \A a \in 1 .. m : Start(a, w) # Outside
    <3> SUFFICES ASSUME NEW a \in 1 .. m PROVE Start(a, w) >= 0
      BY DEF Outside
    <3>1. Start(1, w) <= Start(a, w) /\ Start(1, w) = 0 /\ Start(a, w) \in Int
      <4>1. Start(1, w) = 0
        BY DEF Start
      <4>2. 1 \in Int /\ a \in Int /\ 1 <= a
        BY <1>0
      <4> QED
        BY <4>1, <4>2, StartsAre
    <3> QED
      BY <3>1
  <2>2. m > 0 => ~Loud(loud, m, w)
    BY <1>4, <1>9, <2>1
  <2>3. \A run \in R : run[2] < m
    <3> SUFFICES ASSUME NEW run \in R, run[2] = m PROVE FALSE
      BY <1>8
    <3>1. run[1] \in 1 .. m /\ m > 0 /\ m \in run[1] .. m /\ AllLoud(loud, w, run[1], m)
      BY <1>0 DEF LongRuns
    <3> QED
      BY <2>2, <3>1 DEF AllLoud
  <2>4. {r \in R : r[2] < m} = R
    <3> HIDE DEF R
    <3> QED
      BY <2>3
  <2>5. spans = s
    BY <1>2, <1>9
  <2> HIDE DEF Out, R, C
  <2>6. ToSet(spans) = {SpanEnd(n, w, run) : run \in Runs(loud, n, w)}
    BY <1>3, <1>6, <1>7, <2>4, <2>5
  <2> QED
    BY <1>3, <2>5, <2>6 DEF spans
<1>10. CASE f # Outside
  <2>1. PICK a \in 1 .. m : f = Start(a, w) /\ AllLoud(loud, w, a, m) /\ Opens(loud, w, a)
    BY <1>4, <1>10
  <2>2. \A i \in 1 .. Len(s) : s[i][2] < f
    BY <1>4, <1>10
  <2>3. <<a, m>> \in R /\ Out(<<a, m>>) = <<f, n>>
    BY <1>0, <2>1 DEF LongRuns
  <2>4. \A run \in R : run[2] = m => run = <<a, m>>
    <3> SUFFICES ASSUME NEW run \in R, run[2] = m PROVE run = <<a, m>>
      OBVIOUS
    <3>1. /\ run[1] \in 1 .. m /\ AllLoud(loud, w, run[1], m) /\ Opens(loud, w, run[1])
          /\ run = <<run[1], m>>
      BY DEF LongRuns
    <3>2. run[1] = a
      BY <1>0, <2>1, <3>1, OneOpening
    <3> QED
      BY <3>1, <3>2
  <2>5. R = {r \in R : r[2] < m} \cup {<<a, m>>}
    <3> HIDE DEF R
    <3> QED
      BY <1>8, <2>3, <2>4
  <2>6. {Out(run) : run \in R} = {Out(run) : run \in {r \in R : r[2] < m}} \cup {<<f, n>>}
    <3> DEFINE L == {r \in R : r[2] < m}
    <3> HIDE DEF L, R, Out
    <3> QED
      BY <2>3, <2>5 DEF L
  <2> DEFINE x == <<f, n>>
             S == Int \X Int
  <2>7. x \in S /\ s \in Seq(S)
    <3>1. f \in Int
      BY <2>1, StartsAre
    <3> QED
      BY <1>3, <3>1
  <2>8. spans = Append(s, x) /\ x[1] = f
    BY <1>2, <1>10
  <2> HIDE DEF x, S
  <2>9. /\ Len(spans) = Len(s) + 1 /\ \A i \in 1 .. Len(s) : spans[i] = s[i]
        /\ spans[Len(s) + 1] = x /\ ToSet(spans) = ToSet(s) \cup {x} /\ Len(s) \in Nat
    BY <2>7, <2>8, Appended
  <2>10. ToSet(spans) = {SpanEnd(n, w, run) : run \in Runs(loud, n, w)}
    <3> HIDE DEF Out, R, C
    <3> QED
      BY <1>3, <1>6, <1>7, <2>6, <2>9 DEF x
  <2>11. \A k \in 1 .. Len(spans) - 1 : spans[k][2] < spans[k + 1][1]
    <3> SUFFICES ASSUME NEW k \in 1 .. Len(s) PROVE spans[k][2] < spans[k + 1][1]
      BY <2>9
    <3>1. CASE k = Len(s)
      <4>1. spans[k] = s[k] /\ spans[k + 1] = x
        BY <2>9, <3>1
      <4> QED
        BY <2>2, <2>8, <4>1
    <3>2. CASE k # Len(s)
      <4>1. k \in 1 .. Len(s) - 1 /\ k + 1 \in 1 .. Len(s)
        BY <2>9, <3>2
      <4>2. spans[k] = s[k] /\ spans[k + 1] = s[k + 1]
        BY <2>9, <4>1
      <4> QED
        BY <1>3, <4>1, <4>2
    <3> QED
      BY <3>1, <3>2
  <2> QED
    BY <2>10, <2>11 DEF spans
<1> QED
  BY <1>9, <1>10

-----------------------------------------------------------------------------
(* whisper: the audio of a serve, and the answer to a vad request.         *)

VadAnswer ==
  <<[type |-> "vad",
     spans |-> VadSpans(request.audio.loud, frame.samples, Window(request.windowMs))]>>

(* A vad request reads its audio, answers and is done. *)
AudioInv ==
  Serving("whisper") =>
    /\ {"at", "ok", "samples"} \subseteq DOMAIN frame /\ request \in WhisperRequest
    /\ frame.samples = ModelInputLength(AudioOf(request.audio))
    /\ frame.at = "audio" => sent = <<>>
    /\ request.kind = "vad" =>
         /\ frame.at \in {"audio", "finish", "return"}
         /\ frame.at = "finish" => AudioRefusal = "none" /\ sent = VadAnswer

LEMMA NotListening ==
  ASSUME phase' # "serving" \/ model'.engine # "whisper"
  PROVE  AudioInv'
BY DEF AudioInv, Serving

LEMMA AudioEnds ==
  ASSUME SeamInv, AudioInv, Serving("whisper"), NEW end, Ends(end)
  PROVE  AudioInv'
BY DEF SeamInv, AudioInv, Serving, Ends

LEMMA WindowIs ==
  ASSUME NEW windowMs \in Int
  PROVE  Window(windowMs) \in Nat
<1> DEFINE size == SizeT(windowMs)
           n == (Rate * size) % SizeRange
<1>1. size \in Nat /\ Rate \in Nat
  BY WhisperAssumption DEF SizeT
<1> HIDE DEF size
<1>2. Rate * size \in Int
  BY <1>1
<1>3. n \in Nat
  BY <1>2, WhisperAssumption
<1> HIDE DEF n
<1>4. n \div 1000 \in Nat
  BY <1>3, DivisionIs
<1> QED
  BY <1>4 DEF Window, n, size

(* A step of a serve that is not a vad request's, and leaves its answer    *)
(* alone.                                                                  *)
LEMMA AudioIsRead ==
  ASSUME AudioInv, Serving("whisper"), request.kind # "vad", UNCHANGED <<request, phase>>,
         model'.engine = "whisper", "at" \in DOMAIN frame', frame'.at # "audio",
         {"ok", "samples"} \subseteq DOMAIN frame', frame'.samples = frame.samples
  PROVE  AudioInv'
BY DEF AudioInv, Serving

LEMMA WhisperKeepsAudio ==
  ASSUME SeamInv, AudioInv, WhisperNext
  PROVE  AudioInv'
<1> USE DEF At
<1>1. CASE LoadWhisper
  BY <1>1, NotListening DEF LoadWhisper, Opened, Empty
<1>2. CASE ServeWhisper
  <2>1. PICK r \in WhisperRequest : Begin("whisper", r, WhisperFrame(AudioOf(r.audio)))
    BY <1>2 DEF ServeWhisper
  <2>2. /\ request' = r /\ sent' = <<>>
        /\ {"at", "ok", "samples"} \subseteq DOMAIN frame' /\ frame'.at = "audio"
        /\ frame'.samples = ModelInputLength(AudioOf(r.audio))
    BY <2>1 DEF Begin, WhisperFrame
  <2> QED
    BY <2>2 DEF AudioInv
<1>3. CASE RefuseAudio \/ FullFails \/ WhisperHearsCancel \/ FinishWhisper
  <2>1. Serving("whisper") /\ \E end : Ends(end)
    BY <1>3 DEF RefuseAudio, FullFails, WhisperHearsCancel, FinishWhisper, Serving,
                Fails, Finishes, ReturnsSilently
  <2> QED
    BY <2>1, AudioEnds
<1>4. CASE AnswerVad
  <2>1. /\ Serving("whisper") /\ frame.at = "audio" /\ AudioRefusal = "none"
        /\ request.kind = "vad"
        /\ sent' = sent \o VadAnswer /\ UNCHANGED <<model, request, phase>>
        /\ frame' = [frame EXCEPT !.at = "finish"]
    BY <1>4 DEF AnswerVad, Emits, Serving, VadAnswer
  <2>2. sent = <<>> /\ {"at", "ok", "samples"} \subseteq DOMAIN frame
    BY <2>1 DEF AudioInv
  <2>3. sent' = VadAnswer
    BY <2>1, <2>2 DEF VadAnswer
  <2>4. frame'.ok = frame.ok /\ frame'.samples = frame.samples
    BY <2>1, <2>2
  <2>5. VadAnswer' = VadAnswer
    BY <2>1, <2>4 DEF VadAnswer
  <2>6. AudioRefusal' = AudioRefusal
    BY <2>1, <2>4 DEF AudioRefusal
  <2> QED
    BY <2>1, <2>2, <2>3, <2>4, <2>5, <2>6 DEF AudioInv, Serving
<1>5. CASE CallWhisper
  <2>1. /\ Serving("whisper") /\ request.kind # "vad"
        /\ model' = [model EXCEPT !.results = 0] /\ UNCHANGED <<request, phase>>
        /\ \E place \in {"detect", "window"} : frame' = [frame EXCEPT !.at = place]
    BY <1>5 DEF CallWhisper, Serving
  <2> QED
    BY <2>1, AudioIsRead DEF SeamInv, AudioInv, Serving
<1>6. CASE \/ DecodeWindow \/ FindSegments \/ OnNewSegment \/ NextWindow
           \/ FullReturns \/ AnswerWhisper
  <2>0. Serving("whisper") /\ {"at", "ok", "samples"} \subseteq DOMAIN frame
    BY <1>6 DEF AudioInv, DecodeWindow, FindSegments, OnNewSegment, NextWindow, FullReturns,
                AnswerWhisper, Serving
  <2>1. /\ frame.at \notin {"audio", "finish", "return"}
        /\ UNCHANGED <<request, phase>> /\ model'.engine = model.engine
        /\ {"at", "ok", "samples"} \subseteq DOMAIN frame' /\ frame'.at # "audio"
        /\ frame'.samples = frame.samples
    <3>1. CASE DecodeWindow
      BY <2>0, <3>1 DEF DecodeWindow, Moves
    <3>2. CASE FindSegments
      BY <2>0, <3>2 DEF FindSegments, SeamInv
    <3>3. CASE OnNewSegment
      <4>1. /\ frame.at = "callback" /\ UNCHANGED <<request, phase, model>>
            /\ frame' = NewFrame
        BY <3>3, NewSegmentIs DEF Emits
      <4> QED
        BY <2>0, <4>1 DEF NewFrame
    <3>4. CASE NextWindow
      BY <2>0, <3>4 DEF NextWindow, Moves
    <3>5. CASE FullReturns
      BY <2>0, <3>5 DEF FullReturns, Moves
    <3>6. CASE AnswerWhisper
      BY <2>0, <3>6 DEF AnswerWhisper, Emits
    <3> QED
      BY <1>6, <3>1, <3>2, <3>3, <3>4, <3>5, <3>6
  <2>2. request.kind # "vad"
    BY <2>0, <2>1 DEF AudioInv
  <2> QED
    BY <2>0, <2>1, <2>2, AudioIsRead DEF Serving
<1> QED
  BY <1>1, <1>2, <1>3, <1>4, <1>5, <1>6 DEF WhisperNext

LEMMA AudioInvHolds ==
  ASSUME SeamInv, AudioInv, [Next]_vars
  PROVE  AudioInv'
<1>1. CASE GgufNext \/ G2pNext \/ MockNext
  <2>1. model'.engine # "whisper"
    BY <1>1, EachHasItsModel
  <2> QED
    BY <2>1, NotListening
<1>2. CASE WhisperNext
  BY <1>2, WhisperKeepsAudio
<1>3. CASE Cancel
  <2>1. UNCHANGED <<model, request, phase, sent, frame>>
    BY <1>3 DEF Cancel
  <2> QED
    BY <2>1 DEF AudioInv, Serving, AudioRefusal, VadAnswer
<1>4. CASE Returned
  BY <1>4, NotListening DEF Returned, Idle
<1>5. CASE Released
  BY <1>5, NotListening DEF Released, NotLoaded
<1>6. CASE Relaunch
  BY <1>6, NotListening DEF Relaunch, Idle, NotLoaded
<1>7. CASE UNCHANGED vars
  BY <1>7 DEF vars, seamVars, AudioInv, Serving, AudioRefusal, VadAnswer
<1> QED
  BY <1>1, <1>2, <1>3, <1>4, <1>5, <1>6, <1>7 DEF Next

THEOREM AudioInvariant == Spec => []AudioInv
<1>1. SeamInit => AudioInv
  BY DEF SeamInit, AudioInv, Serving
<1>2. SeamInv /\ AudioInv /\ [Next]_vars => AudioInv'
  BY AudioInvHolds
<1> QED
  BY <1>1, <1>2, SeamInvariant, PTL DEF Spec

(* No header decodeWav reads, and no sample the resampler takes, lies      *)
(* outside the recording, whatever sizes and rates the file declares.      *)
THEOREM AudioIsInBounds == Spec => []AudioStaysInside
<1>1. ASSUME AudioInv, Serving("whisper"), frame.at = "audio"
      PROVE  /\ request.audio.source = "file" =>
                  \A p \in Visited(request.audio.file) :
                    p + 8 + ChunkSize(request.audio.file, p) <= request.audio.file.length
             /\ AudioOf(request.audio).ok /\ ~AsIs(AudioOf(request.audio)) =>
                  \A i \in 0 .. frame.samples - 1 :
                    Neighbours(AudioOf(request.audio), i)
                      \subseteq 0 .. MonoLength(AudioOf(request.audio)) - 1
  <2>1. request.audio \in Recordings /\ frame.samples = ModelInputLength(AudioOf(request.audio))
    BY <1>1 DEF AudioInv, WhisperRequest
  <2>2. GoodPcm(AudioOf(request.audio))
        /\ (request.audio.source = "file" => GoodFile(request.audio.file))
    BY <2>1, AudioIsGood
  <2>3. ASSUME request.audio.source = "file", NEW p \in Visited(request.audio.file)
        PROVE  p + 8 + ChunkSize(request.audio.file, p) <= request.audio.file.length
    <3>1. p \in Int /\ p + 8 <= request.audio.file.length
      BY <2>2, <2>3, VisitedInside
    <3> QED
      BY <2>2, <2>3, <3>1, ChunkSizeIs
  <2> QED
    BY <2>1, <2>2, <2>3, NeighboursInside
<1>2. AudioInv => AudioStaysInside
  BY <1>1 DEF AudioStaysInside
<1> QED
  BY <1>2, AudioInvariant, PTL

(* A vad answer names the longest runs of voiced windows, each once and in *)
(* order, for any recording and any window the call accepts.               *)
THEOREM VadAnswersAreSpeech == Spec => []SpansAreSpeech
<1>1. ASSUME AudioInv, Serving("whisper"), request.kind = "vad", frame.at = "finish"
      PROVE  /\ ToSet(sent[1].spans) =
                  {SpanEnd(frame.samples, Window(request.windowMs), run) :
                     run \in Runs(request.audio.loud, frame.samples, Window(request.windowMs))}
             /\ \A k \in 1 .. Len(sent[1].spans) - 1 :
                  sent[1].spans[k][2] < sent[1].spans[k + 1][1]
  <2>1. /\ request.audio \in Recordings /\ frame.samples = ModelInputLength(AudioOf(request.audio))
        /\ request.windowMs \in WindowMs /\ AudioRefusal = "none" /\ sent = VadAnswer
    BY <1>1 DEF AudioInv, WhisperRequest
  <2>2. frame.samples \in Nat
    BY <2>1, AudioIsGood, ModelInputIs
  <2>3. Window(request.windowMs) \in Nat \ {0}
    <3>1. request.windowMs \in Int
      BY <2>1, WhisperAssumption
    <3>2. Window(request.windowMs) \in Nat
      BY <3>1, WindowIs
    <3>3. Window(request.windowMs) # 0
      BY <1>1, <2>1 DEF AudioRefusal
    <3> QED
      BY <3>2, <3>3
  <2>4. sent[1].spans = VadSpans(request.audio.loud, frame.samples, Window(request.windowMs))
    BY <2>1 DEF VadAnswer
  <2> DEFINE loud == request.audio.loud
             n == frame.samples
             w == Window(request.windowMs)
             spans == sent[1].spans
  <2>5. n \in Nat /\ w \in Nat \ {0} /\ spans = VadSpans(loud, n, w)
    BY <2>2, <2>3, <2>4
  <2> HIDE DEF loud, n, w, spans
  <2>6. /\ ToSet(spans) = {SpanEnd(n, w, run) : run \in Runs(loud, n, w)}
        /\ \A k \in 1 .. Len(spans) - 1 : spans[k][2] < spans[k + 1][1]
    BY <2>5, SpansAreRuns
  <2> QED
    BY <2>6 DEF loud, n, w, spans
<1>2. AudioInv => SpansAreSpeech
  BY <1>1 DEF SpansAreSpeech, SpanEnd
<1> QED
  BY <1>2, AudioInvariant, PTL
=============================================================================
