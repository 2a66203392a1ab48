---------------------------- MODULE WhisperServe ----------------------------
(***************************************************************************)
(* The whisper backend (engine/src/backends/whisper): reading the audio,   *)
(* voice activity, and a transcription, a live transcript or a language    *)
(* with whisper_full, which is modelled from the vendored library          *)
(* (vendor/whisper.cpp).                                                   *)
(*                                                                         *)
(* A sample is 0 (quiet) or 1 (loud) and a segment of a transcript is its  *)
(* number.  A WAV file is its length and the chunk headers in it by the    *)
(* position they start at; what lies elsewhere is no header.               *)
(***************************************************************************)
EXTENDS BackendSeam

CONSTANTS
  Rate,         \* 16000: the rate the model takes
  SizeRange,    \* 2^64: a size_t is a number below it
  Recordings,   \* the audio a request may carry
  WindowMs,     \* values of window_ms
  ShortAudio,   \* up to so many samples whisper_full decodes nothing
  PerWindow,    \* segments one decoded window may hold
  MaxSegments   \* bound: segments one transcription finds

(* The fields of a WAV header are unsigned; a file that says RIFF and WAVE *)
(* has the twelve bytes that say it.                                       *)
HeaderFields(chunk) ==
  chunk.declared \in Nat /\ (chunk.id = "fmt " => chunk.rate \in Nat /\ chunk.channels \in Nat)

RecordingFields(r) ==
  /\ r.source = "samples" => r.pcm \in [ok : {TRUE}, samples : Nat, rate : Int, channels : Int]
  /\ r.source = "file" => /\ r.file.length \in Nat /\ (r.file.riff => r.file.length >= 12)
                          /\ \A p \in DOMAIN r.file.chunks : HeaderFields(r.file.chunks[p])

ASSUME WhisperAssumption ==
  /\ Rate \in Nat \ {0} /\ SizeRange \in Nat \ {0}
  /\ WindowMs \subseteq Int /\ MaxSegments \in Nat
  /\ ShortAudio \in Nat /\ PerWindow \in Nat
  /\ \A r \in Recordings : RecordingFields(r)

-----------------------------------------------------------------------------
(* decodeWav: the walk over the chunks of a file.                          *)

NoChunk == [id |-> "other", declared |-> 0]

HeaderAt(file, pos) ==
  IF pos \in DOMAIN file.chunks THEN file.chunks[pos] ELSE NoChunk

(* Mutant: the declared size is believed. *)
DeclaredSize(file, pos) == HeaderAt(file, pos).declared

(* Where the walk stands after the chunk at `pos`: its size is clamped to  *)
(* what is there and chunks are word-aligned.                              *)
ChunkSize(file, pos) ==
  Min({HeaderAt(file, pos).declared, file.length - (pos + 8)})

NextChunk(file, pos) ==
  pos + 8 + ChunkSize(file, pos) + (ChunkSize(file, pos) % 2)

(* The positions the walk visits, from the last to the first. *)
Visited(file) ==
  LET from[pos \in 12 .. file.length + 1] ==
        IF pos + 8 > file.length THEN {}
        ELSE {pos} \cup (IF NextChunk(file, pos) <= file.length
                         THEN from[NextChunk(file, pos)] ELSE {})
  IN  IF file.riff THEN from[12] ELSE {}

(* The last usable chunk of each kind is the one that counts. *)
LastChunk(file, id) ==
  LET found == {p \in Visited(file) : /\ HeaderAt(file, p).id = id
                                      /\ id = "fmt " => ChunkSize(file, p) >= 16}
  IN  IF found = {} THEN 0 ELSE Max(found)

(* The bytes one sample takes, 0 for an encoding it does not read. *)
SampleBytes(fmt) ==
  IF fmt.format \in {1, 3} /\ fmt.bits \in {8, 16, 32} THEN fmt.bits \div 8 ELSE 0

Unreadable == [ok |-> FALSE, samples |-> 0, rate |-> 0, channels |-> 0]

DecodeWav(file) ==
  LET fmtAt  == LastChunk(file, "fmt ")
      dataAt == LastChunk(file, "data")
      fmt    == HeaderAt(file, fmtAt)
  IN  IF fmtAt = 0 \/ dataAt = 0 THEN Unreadable
      ELSE IF fmt.channels = 0 \/ fmt.rate = 0 \/ SampleBytes(fmt) = 0 THEN Unreadable
      ELSE [ok |-> TRUE, rate |-> fmt.rate, channels |-> fmt.channels,
            samples |-> ChunkSize(file, dataAt) \div SampleBytes(fmt)]

-----------------------------------------------------------------------------
(* toModelInput: how long what comes out is, and what it is made from.     *)

MonoLength(pcm) ==
  IF pcm.channels <= 1 THEN pcm.samples ELSE pcm.samples \div pcm.channels

AsIs(pcm) == pcm.rate = Rate \/ MonoLength(pcm) = 0 \/ pcm.rate <= 0

ModelInputLength(pcm) ==
  IF AsIs(pcm) THEN MonoLength(pcm) ELSE (MonoLength(pcm) * Rate) \div pcm.rate

(* The two samples output i is interpolated between. *)
Neighbours(pcm, i) ==
  LET left == (i * pcm.rate) \div Rate IN
  {left, IF left + 1 < MonoLength(pcm) THEN left + 1 ELSE left}

(* What loadAudio makes of a request's audio: how many samples, or why not. *)
AudioOf(recording) ==
  CASE recording.source = "samples" -> recording.pcm
    [] recording.source = "file"    -> DecodeWav(recording.file)
    [] OTHER                        -> Unreadable

-----------------------------------------------------------------------------
(* serveVad.                                                               *)

SizeT(n) == n % SizeRange

(* The window in samples; the product wraps as a size_t does. *)
Window(windowMs) == ((Rate * SizeT(windowMs)) % SizeRange) \div 1000

(* Where the whole windows of n samples start, in order. *)
Starts(n, window) == [k \in 1 .. n \div window |-> (k - 1) * window]

Voiced(loud, i, window) == loud \cap (i .. i + window - 1) # {}

(* The walk over the windows: inside speech since `from`, or outside. *)
Outside == -1

WalkWindows(loud, n, window) ==
  LET Step(walk, i) ==
        CASE Voiced(loud, i, window) /\ walk.from = Outside -> [walk EXCEPT !.from = i]
          [] ~Voiced(loud, i, window) /\ walk.from # Outside ->
               [from |-> Outside, spans |-> Append(walk.spans, <<walk.from, i>>)]
          [] OTHER -> walk
  IN  FoldLeft(Step, [from |-> Outside, spans |-> <<>>], Starts(n, window))

(* Mutant: speech that reaches the end of the audio is forgotten. *)
ClosedSpans(loud, n, window) == WalkWindows(loud, n, window).spans

VadSpans(loud, n, window) ==
  LET end == WalkWindows(loud, n, window) IN
  IF end.from = Outside THEN end.spans ELSE Append(end.spans, <<end.from, n>>)

-----------------------------------------------------------------------------
(* serve.                                                                  *)

WhisperKinds == {"vad", "transcribe", "listen", "detectLanguage"}

WhisperRequest ==
  [kind : WhisperKinds \ {"vad"}, audio : Recordings, language : {"named", "auto"},
   windowMs : {0}]
  \cup [kind : {"vad"}, audio : Recordings, language : {"auto"}, windowMs : WindowMs]

(* What loadAudio found, StreamState's `emitted` and `text`; of            *)
(* whisper_full the segments the window it decoded has left, the new ones  *)
(* onNewSegment has still to see, and what it has read; `results` are the  *)
(* segments the whisper context itself holds.                              *)
WhisperFrame(pcm) ==
  [at |-> "audio", ok |-> pcm.ok, samples |-> ModelInputLength(pcm), emitted |-> 0,
   text |-> <<>>, left |-> 0, new |-> 0, read |-> "nothing"]

LoadWhisper == Opened([engine |-> "whisper", results |-> 0])

ServeWhisper ==
  /\ Waiting("whisper")
  /\ \E r \in WhisperRequest : Begin("whisper", r, WhisperFrame(AudioOf(r.audio)))
  /\ UNCHANGED model

AudioRefusal ==
  IF ~frame.ok THEN "audio_unreadable"
  ELSE IF frame.samples = 0 THEN "empty_audio"
  ELSE IF request.kind = "vad" /\ Window(request.windowMs) = 0 THEN "bad_window"
  ELSE "none"

RefuseAudio == At("whisper", "audio") /\ AudioRefusal # "none" /\ Fails(AudioRefusal)

AnswerVad ==
  /\ At("whisper", "audio") /\ AudioRefusal = "none" /\ request.kind = "vad"
  /\ Emits(<<[type |-> "vad",
              spans |-> VadSpans(request.audio.loud, frame.samples, Window(request.windowMs))]>>,
           [frame EXCEPT !.at = "finish"])

(* wp.detect_language *)
Detects == request.kind = "detectLanguage" \/ request.language = "auto"

(* Mutant: the results of the call before are still there. *)
CallOnResults ==
  /\ At("whisper", "audio") /\ AudioRefusal = "none" /\ request.kind # "vad"
  /\ Moves([frame EXCEPT !.at = IF Detects THEN "detect" ELSE "window"])

(* whisper_full forgets the results of the call before. *)
CallWhisper ==
  /\ At("whisper", "audio") /\ AudioRefusal = "none" /\ request.kind # "vad"
  /\ model' = [model EXCEPT !.results = 0]
  /\ frame' = [frame EXCEPT !.at = IF Detects THEN "detect" ELSE "window"]
  /\ UNCHANGED <<request, phase, sent, report, cancelAt>>

(* It decodes one more window of the audio, if onAbort, polled last at the *)
(* end of that, does not stop it.                                          *)
DecodeWindow ==
  /\ At("whisper", "window") /\ frame.samples > ShortAudio /\ ~Cancelled
  /\ Moves([frame EXCEPT !.at = "decoded", !.left = PerWindow, !.read = "audio"])

(* It takes new segments from the window, without a poll, and calls        *)
(* onNewSegment with their number: one, with the parameters serve sets.    *)
FindSegments ==
  /\ At("whisper", "decoded")
  /\ \E n \in 1 .. frame.left :
       /\ model.results + n <= MaxSegments
       /\ model' = [model EXCEPT !.results = @ + n]
       /\ frame' = [frame EXCEPT !.at = "callback", !.left = @ - n, !.new = n]
  /\ UNCHANGED <<request, phase, sent, report, cancelAt>>

(* onNewSegment comes to the next of the new segments, the tail of the     *)
(* results, and sends it unless it has been.  The library's texts are      *)
(* never null.                                                             *)
OnNewSegment ==
  /\ At("whisper", "callback")
  /\ LET i    == model.results - frame.new
         new  == IF i < frame.emitted THEN <<>> ELSE <<i>>
         next == [frame EXCEPT !.at = IF frame.new = 1 THEN "decoded" ELSE "callback",
                               !.new = @ - 1, !.text = @ \o new,
                               !.emitted = IF new = <<>> THEN @ ELSE i + 1]
     IN  Emits(IF request.kind = "listen" /\ new # <<>>
               THEN <<[type |-> "text", segments |-> new]>> ELSE <<>>, next)

(* The window has no more, and the next one starts where it ended. *)
NextWindow ==
  /\ At("whisper", "decoded")
  /\ Moves([frame EXCEPT !.at = "window", !.left = 0])

(* whisper_full returns 0: at the end of the audio, at once if that is too *)
(* short, or with the language it was told to detect.                      *)
FullReturns ==
  /\ \/ At("whisper", "window") /\ (frame.read = "audio" \/ frame.samples <= ShortAudio)
     \/ At("whisper", "detect")
  /\ Moves([frame EXCEPT !.at = "full returned",
                         !.read = IF frame.at = "detect" THEN "language" ELSE @])

(* It fails, or onAbort told it to stop: neither is 0. *)
FullFails ==
  /\ At("whisper", "window") \/ At("whisper", "detect")
  /\ IF Cancelled THEN ReturnsSilently ELSE Fails("transcribe_failed")

WhisperHearsCancel == At("whisper", "full returned") /\ Cancelled /\ ReturnsSilently

(* A language, or the whole transcript; a live one has been sent. *)
AnswerWhisper ==
  /\ At("whisper", "full returned") /\ ~Cancelled
  /\ LET answer == CASE request.kind = "detectLanguage" -> <<[type |-> "language"]>>
                      [] request.kind = "listen"         -> <<>>
                      [] OTHER -> <<[type |-> "text", segments |-> frame.text]>>
     IN  Emits(answer, [frame EXCEPT !.at = "finish"])

FinishWhisper == At("whisper", "finish") /\ Finishes("stop")

WhisperNext ==
  \/ LoadWhisper \/ ServeWhisper \/ RefuseAudio \/ AnswerVad
  \/ CallWhisper \/ DecodeWindow \/ FindSegments \/ OnNewSegment \/ NextWindow
  \/ FullReturns \/ FullFails
  \/ WhisperHearsCancel \/ AnswerWhisper \/ FinishWhisper
=============================================================================
