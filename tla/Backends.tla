------------------------------- MODULE Backends -------------------------------
(***************************************************************************)
(* The backends a build registers, behind one worker: models are opened,   *)
(* requests served one after another, each by the backend of the model     *)
(* that is loaded, with cancels and the death of the process in between.   *)
(***************************************************************************)
EXTENDS GgufServe, WhisperServe, G2pServe, MockServe

vars == seamVars

Next ==
  \/ GgufNext \/ WhisperNext \/ G2pNext \/ MockNext
  \/ Cancel \/ Returned \/ Released \/ Relaunch

(* The worker inside serve keeps taking its own steps, whichever they are; *)
(* loading, serving, cancelling and relaunching are up to others.          *)
Works == phase = "serving" /\ (GgufNext \/ WhisperNext \/ G2pNext \/ MockNext \/ Returned)

Spec == SeamInit /\ [][Next]_vars /\ WF_vars(Works)

Serving(engine) == phase = "serving" /\ model.engine = engine

-----------------------------------------------------------------------------
(* The contract of the seam.                                               *)

Contract == INSTANCE Emitter WITH
  serving <- CASE phase = "idle" -> "no" [] phase = "serving" -> "yes" [] OTHER -> "lost",
  emitted <- Len(sent),
  ending  <- IF report = <<>> THEN "nothing" ELSE report[Len(report)].is

(* Every backend keeps the contract of backend.hpp: blocks only before the *)
(* end is reported, the end reported once at most, nothing after serve.    *)
ImplementsEmitter == Contract!EmitterSpec

(* A serve that has been cancelled returns (backend.hpp: a backend that    *)
(* ignores cancelled() cannot be stopped), a paused mock included.         *)
CancelEndsServe == (phase = "serving" /\ Cancelled) ~> phase # "serving"

(* How little a backend still emits once it is cancelled: the block it was *)
(* about to emit, gguf then what its carry held, g2p the text after the    *)
(* last word; a live transcript the segments of the window that was        *)
(* decoded, for onNewSegment does not ask.                                 *)
CancelIsHeard ==
  Cancelled =>
    Len(sent) <= cancelAt + (IF Serving("gguf") \/ Serving("g2p") THEN 2
                             ELSE IF Serving("whisper") /\ request.kind = "listen" THEN PerWindow
                             ELSE 1)

-----------------------------------------------------------------------------
(* gguf.                                                                   *)

Text == FlattenSeq([k \in DOMAIN sent |-> sent[k].text])

(* Bytes that are whole characters from end to end. *)
WellFormed(s) == \A i \in DOMAIN s :
  IF s[i] = "next" THEN \E j \in 1 .. i - 1 : i < j + Need(s[j]) ELSE StartsWhole(s, i)

LongestWhole(s) == Max({n \in 0 .. Len(s) : WellFormed(SubSeq(s, 1, n))})

(* What the consumer has been sent is, after every token, the longest run  *)
(* of whole characters of what the model produced, and in the end all of   *)
(* it: no byte is lost, repeated or reordered by the carry.                *)
TextIsExact ==
  Serving("gguf") /\ request.kind = "generate" =>
    /\ frame.at \in {"loop", "sample", "decode"} =>
         Text = SubSeq(frame.produced, 1, LongestWhole(frame.produced))
    /\ frame.at = "finish" => Text = frame.produced

(* A schema that compiles constrains the answer: its generation reaches an *)
(* end, and what it stops at is one of the shapes.                         *)
StructuredIsShaped ==
  model.engine = "gguf" /\ request.kind = "generate" /\ request.schema = "compiles" =>
    /\ phase # "dead"
    /\ frame.at = "finish" /\ frame.reason = "stop" => frame.pieces \in request.shape

(* A prompt the model cannot ingest is refused with a code, not a crash.   *)
PromptIsRefusedNotFatal ==
  phase = "dead" /\ request.kind = "generate" => frame.at # "checks"

-----------------------------------------------------------------------------
(* whisper.                                                                *)

Heard == FlattenSeq([k \in DOMAIN sent |-> sent[k].segments])

(* A transcript is every segment whisper found, once and in order, live or *)
(* whole.                                                                  *)
SegmentsOnce ==
  Serving("whisper") /\ request.kind \in {"listen", "transcribe"} =>
    /\ frame.at \in {"window", "decoded", "full returned"} =>
         frame.text = [k \in 1 .. model.results |-> k - 1]
    /\ frame.at \in {"window", "decoded", "finish"} /\ (request.kind = "listen" \/ frame.at = "finish") =>
         Heard = [k \in 1 .. model.results |-> k - 1]

(* A transcription that succeeds has read the audio, if that is not too    *)
(* short to be read, whether the caller named the language or left it to   *)
(* be detected.                                                            *)
TranscriptIsWhole ==
  Serving("whisper") /\ request.kind \in {"transcribe", "listen"} /\ frame.at = "finish"
    /\ frame.samples > ShortAudio => frame.read = "audio"

(* Every byte decodeWav takes for a header, a format or a sample is in the *)
(* file, and every sample the resampler reads is in the recording.         *)
AudioStaysInside ==
  Serving("whisper") /\ frame.at = "audio" =>
    /\ request.audio.source = "file" =>
         \A p \in Visited(request.audio.file) :
           p + 8 + ChunkSize(request.audio.file, p) <= request.audio.file.length
    /\ LET pcm == AudioOf(request.audio) IN
       pcm.ok /\ ~AsIs(pcm) =>
         \A i \in 0 .. frame.samples - 1 : Neighbours(pcm, i) \subseteq 0 .. MonoLength(pcm) - 1

(* A run of voiced windows, as long as it gets. *)
Runs(loud, n, w) ==
  LET starts == ToSet(Starts(n, w)) IN
  {run \in starts \X starts :
     /\ run[1] <= run[2]
     /\ \A i \in starts : run[1] <= i /\ i <= run[2] => Voiced(loud, i, w)
     /\ \A i \in starts \cap {run[1] - w, run[2] + w} : ~Voiced(loud, i, w)}

(* The spans of a vad answer are the longest runs of voiced windows, each  *)
(* once and in order; the last may reach the end of the audio.             *)
SpansAreSpeech ==
  Serving("whisper") /\ request.kind = "vad" /\ frame.at = "finish" =>
    LET w == Window(request.windowMs)
        n == frame.samples
        Span(run) == <<run[1], IF run[2] + w \in ToSet(Starts(n, w)) THEN run[2] + w ELSE n>>
        spans == sent[1].spans
    IN  /\ ToSet(spans) = {Span(run) : run \in Runs(request.audio.loud, n, w)}
        /\ \A k \in 1 .. Len(spans) - 1 : spans[k][2] < spans[k + 1][1]

-----------------------------------------------------------------------------
(* g2p.                                                                    *)

(* The reader's refusals are what makes its lookups right: in every pack   *)
(* that loads each word of the lexicon is found, at its own row, and every *)
(* walk down a tree ends at a leaf, whatever the letters around.           *)
LoadedPackIsWhole ==
  phase = "idle" /\ model.engine = "g2p" =>
    LET raw == Packs[model.pack]
        ids == 0 .. Len(raw.meta.letters) - 1
    IN  /\ \A i \in 1 .. LexRows(raw) : Lookup(raw, KeyOf(raw, i)) = i
        /\ HasLts(raw) =>
             \A a, b \in ids : \A at \in 0 .. 1 : LeafReached(raw, <<a, b>>, at) # Lost

(* What has been sent is the utterance: the tokens and the trailing text   *)
(* rebuild the input unit for unit, the phones of the blocks are those of  *)
(* the tokens and gaps in order, and nothing is refused for not tiling.    *)
BlocksTile ==
  Serving("g2p") =>
    /\ frame.at = "finish" =>
         LET result == frame.result IN
         /\ FlattenSeq([k \in DOMAIN sent |-> sent[k].tokens]) = result.tokens
         /\ Tiles(result, request.text)
         /\ FlattenSeq([k \in DOMAIN sent |-> sent[k].phones]) =
              PhonesOf(result.tokens) \o result.trailingPhones
    /\ report # <<>> => report[1].why # "internal_error"

(* An entry of the lexicon that says nothing: validateValue accepts one of *)
(* length 0 (pack.hpp:519-526).                                            *)
HasSilentEntry(raw) ==
  \E i \in 1 .. LexRows(raw) : ValueAt(raw, raw.lexi[i].value).phones = <<>>

(* With a pack whose entries all have phones, a token without phones is a  *)
(* refused one: no rung below the lexicon falls silent.  A pack with an    *)
(* empty entry may in addition answer with nothing by way of its lexicon,  *)
(* which the format's documentation and the tests say it cannot            *)
(* (docs/g2p-pack.md:41-42, g2p_test.cpp:604-609): EverySilenceIsRefused   *)
(* is that claim, and does not hold.  A sentence is deferred exactly when  *)
(* defer was asked for and a word in it was guessed.                       *)
SilenceIsMarked ==
  Serving("g2p") /\ sent # <<>> =>
    \A k \in DOMAIN sent :
      /\ \A t \in ToSet(sent[k].tokens) : t.phones = <<>> =>
           \/ t.via = "refused"
           \/ t.via \in {"lexicon", "pos"} /\ HasSilentEntry(Packs[model.pack])
      /\ sent[k].deferred <=> /\ request.fallback = "defer"
                              /\ \E t \in ToSet(sent[k].tokens) : IsGuess(t)

(* What the format's documentation and the tests say: a token without      *)
(* phones is a refused one, whatever the pack.  It does not hold.          *)
EverySilenceIsRefused ==
  Serving("g2p") =>
    \A k \in DOMAIN sent : \A t \in ToSet(sent[k].tokens) : t.phones = <<>> => t.via = "refused"

(* A pack that loads cannot make the phonemizer run for ever, and so out   *)
(* of stack: whatever it accepts it says or refuses.                       *)
PhonemizeReturns == phase = "dead" => model.engine # "g2p"

(* The words a pack has for small numbers and for scales, and a listener   *)
(* who adds up what they say.                                              *)
SmallNumbers == 0 .. 19 \cup {20, 30, 40, 50, 60, 70, 80, 90}

SmallWord(norm, n) ==
  IF n < 10 THEN Nth(norm.units, n)
  ELSE IF n < 20 THEN Nth(norm.teens, n - 10)
  ELSE Nth(norm.tens, n \div 10)

SaysSmall(norm, w) == {n \in SmallNumbers : SmallWord(norm, n) = w}
SaysScale(norm, w) == {n \in 1 .. Len(norm.scales) - 1 : norm.scales[n + 1] = w}

Thousands(n) ==
  LET power[k \in 0 .. n] == IF k = 0 THEN 1 ELSE 1000 * power[k - 1] IN power[n]

Hears(norm, h, w) ==
  IF w = norm.joiner THEN h
  ELSE IF w = norm.hundred THEN [h EXCEPT !.now = @ * 100]
  ELSE IF SaysScale(norm, w) # {}
       THEN [total |-> h.total + h.now * Thousands(Max(SaysScale(norm, w))), now |-> 0]
       ELSE [h EXCEPT !.now = @ + Max(SaysSmall(norm, w))]

(* The number a listener would write down on hearing the words. *)
HeardAs(norm, words) ==
  LET heard[n \in 0 .. Len(words)] ==
        IF n = 0 THEN [total |-> 0, now |-> 0] ELSE Hears(norm, heard[n - 1], words[n])
  IN  heard[Len(words)].total + heard[Len(words)].now

(* A pack whose number words are different words, with one for each scale  *)
(* but the first, and that leaves digits and grouping marks as they are.   *)
(* The reader asks neither of a pack.                                      *)
WordsDiffer(norm) ==
  /\ norm.joiner # norm.hundred /\ Nth(norm.scales, 0) = <<>>
  /\ \A n \in SmallNumbers :
       LET w == SmallWord(norm, n) IN
       w \notin {norm.joiner, norm.hundred} /\ SaysScale(norm, w) = {} /\ SaysSmall(norm, w) = {n}
  /\ \A n \in 1 .. Len(norm.scales) - 1 :
       LET w == norm.scales[n + 1] IN
       w \notin {norm.joiner, norm.hundred, <<>>} /\ SaysScale(norm, w) = {n}

KeepsDigits(raw) ==
  \A cp \in Digits \cup {Comma} :
    /\ \A f \in raw.meta.fold : f.key # <<cp>>
    /\ \A c \in raw.norm.currency : c.sign # cp

(* A whole number the scales reach is said so that it is heard as itself,  *)
(* whatever its leading zeros and grouping marks.                          *)
ReadsBack(raw, t) ==
  LET digits == Without(t.text, Comma) IN
  t.via = "number" /\ ToSet(digits) \subseteq Digits
    /\ Len(Trimmed(digits)) <= 3 * Len(raw.norm.scales)
    /\ WordsDiffer(raw.norm) /\ KeepsDigits(raw)
    => HeardAs(raw.norm, t.words) = ValueOf(digits)

NumbersReadBack ==
  Serving("g2p") /\ frame.at = "checks" =>
    \A t \in ToSet(frame.result.tokens) : ReadsBack(Packs[model.pack], t)
=============================================================================
