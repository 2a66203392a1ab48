# TLA+ models of the Despia AI engine and its hosts

This directory holds the formal models of this repository: TLA+ modules, the TLC
configurations that check them on small instances, and proofs of the central
properties that TLAPS checks for every value of the constants. Paths are relative
to the repository root (`engine/src/context.cpp` is `src/engine/src/context.cpp`
in `PROJECT.json`).

## 1. The system

Despia AI is an on-device inference engine. One C ABI (`engine/include/despia_ai.h`)
hides a C++ core; bindings carry it to Swift, to the JVM and Android (JNI), and to
TypeScript; above each binding a *host* holds the policy: catalog, fit, routing,
downloads, the agentic loop with its tools and approvals.

| part | source | state it keeps | operations |
|---|---|---|---|
| engine context | `engine/src/context.cpp`, `context.hpp` | loaded models, request queue, in-flight requests, snapshots, crash marker | load, unload, request, cancel, sync, close; the worker's loop |
| governor | `engine/src/governor.hpp` | charge and last use of each resident model, budget, pressure | noteLoaded, noteUnloaded, evictionOrder; threadsFor, shouldDefer, noteUsed (called by tests only) |
| backend registry | `engine/src/backend.hpp` | the backends of this build | add, find, capabilities |
| C entry points | `engine/src/api.cpp` | the last global error | one call each into the context |
| pre-flight validator | `engine/src/preflight.hpp` | none (a bounded reader) | validateGGUF |
| gguf backend | `engine/src/backends/gguf` | KV cache, sampler chain, UTF-8 carry | load, serve (generation, embedding) |
| whisper backend | `engine/src/backends/whisper` | the segments whisper holds, what was sent of them | load, serve (transcript, live, language, vad) |
| g2p backend | `engine/src/backends/g2p` | a read-only pack | load (reads the pack), serve (phonemize) |
| mock backend | `mock/` | turn index | load, serve |
| JNI layer | `bindings/jni/despia_ai_jni.cpp` | the sink ledger, attached threads | request, deliver, close |
| Swift binding | `bindings/swift/Sources/DespiaAI/DespiaAI.swift` | boxes kept for the C callback | request, deliver, close |
| Kotlin binding | `bindings/kotlin-jvm/.../Native.kt`, `Engine.kt` | extracted library cache | load library, open, request |
| hosts | `bindings/ts/src/host.ts`, `Host.swift`, `Host.kt` | catalog, downloads, sessions, turns, parked approvals, tools | completion, tool calls, approve, cancel, resync, download, MCP server |
| catalog, fit, router, delivery | `catalog`, `fit`, `router`, `delivery` in three languages | none or the ingested catalog | parse, decide, plan |
| tools | `tools/`, `conformance/` | none | build-time scripts |

How they interact: a host calls the C ABI from one thread per context. `request`
puts work on the context's queue; the context's worker takes it, calls the
backend's `serve` and hands each event to the callback the request came with,
from the worker's thread. The callback may call `cancel` and `sync` back into the
context. Both threads share the queue, the in-flight map and the models under one
mutex, the cancel and resync flags as atomics, and the crash marker as a file
without any lock.

What is hard: the raw model pointer that outlives the lock; the marker that two
threads write; flags read at one point and acted upon later; a callback that
re-enters the context; a close that joins a worker inside a backend; charges that
wrap; address reuse under the JNI ledger; approvals, timeouts and cancels that
race an answer in the hosts; a backend that sits between a library that calls back,
aborts or throws and a worker that can only wait for it; lookups in a pack that rely on
what its reader refused, and text that must be cut up without losing any of it.

What makes each part correct:

- **context**: what cancel finds is exactly the unfinished work; one terminal event
  per request; a consumer's copy equals the engine's blocks; priority is a position
  and never a preemption; a cancel stops the stream; close returns and silences; the
  marker names what is running; the running model stays; every request settles.
- **governor**: its books are the context's models; it evicts enough, never the
  model being loaded, never in vain, no more than needed; what goes is what was used least recently.
- **JNI layer**: a listener is held while it is called and given back exactly once,
  whether its request is refused, settles, or is dropped by a close; a worker leaves
  the JVM before it is joined; one context's close leaves the listeners of another alone.
- **the loop**: a request's turns never overlap; a mutating tool runs alone; no call
  is lost or answered twice; a loop waits for something or has ended; its depth is
  bounded; an approval resolves; a cancel is the end of it.
- **backends**: blocks only while serving and before the one end that is reported; a
  cancel is heard within a few blocks, in a pause too; gguf streams every byte once, in
  whole characters, and a prompt or a schema ends in an answer or a refusal and not in a
  crash; whisper sends every segment once, reads inside the file, and marks as speech what
  is; g2p loads only packs its lookups are right in and its expansions end with, says all
  of the text, marks what it could not say, and reads numbers so that they are heard as themselves.
- **bindings and algorithms** (not modelled): no call reaches a freed context, a
  sink is released once, a cached library is the build's; the decisions of fit,
  router and delivery agree with their definitions.

Every hazard, at its line, with the properties that watch it or the reason why none
does yet, is in `PROJECT.json` under `hazards`.

## 2. The modules

| module | models | form |
|---|---|---|
| `Governor` | the residency half of `governor.hpp` | operators over the charges; no state |
| `EngineContext` | one context: caller, worker, callback, marker, crash | extends `Governor`; 29 variables, 34 actions |
| `RequestStream` | what a context promises a consumer (`despia_ai.h`) | abstract specification; `EngineContext` implements it |
| `EngineContext_proofs` | | the theorems about `EngineContext`, and that it implements `RequestStream` |
| `Residency` | `loadModel`'s eviction as its single caller sees it, with the walk of `evictionOrder` | extends `Governor` |
| `SinkLedger` | the sink ledger and thread attachments of the JNI layer | several contexts, each as `RequestStream` promises |
| `AgentLoop` | the agentic loop of `host.ts` over `engine.ts` | a call stack as state |
| `Emitter` | what `backend.hpp` asks of a backend | abstract specification; `Backends` implements it |
| `BackendSeam` | the worker's side of a backend: model, request, what was emitted and reported, the cancel | state and the forms of step a backend has |
| `GgufServe`, `WhisperServe`, `G2pServe`, `MockServe` | the four backends | extend `BackendSeam`; one action per step between two polls, emissions or library calls |
| `G2pPack` | the reader of `.dspg` packs and its lookups | operators; no state |
| `Backends` | the four behind one worker | their composition, with the properties |
| `Backends_proofs`; `Gguf_proofs`, `Whisper_proofs`, `G2p_proofs` | | the theorems about `Backends`: the seam, and on top of it what three of the backends read and send |
| `Residency_proofs`, `SinkLedger_proofs`, `AgentLoop_proofs` | | the theorems about the module each is named after |
| `MC*` | constants a `.cfg` cannot write | instances |

A definition introduced as a mutant (`EnqueueFront`, `TakeErases`, ...) is not part of
any specification. It stands before the definition it spoils; putting it in that
definition's place must break the property `PROJECT.json` pairs it with, which shows
that the property depends on that code.

### EngineContext

A step is what runs between two points where the other thread can get in: one locked
section, one file operation, one call into the backend, one callback.

| code | model |
|---|---|
| `Context::open` | `Init` |
| `loadModel` | `LoadModel` (marker opened), `MarkLoad` (written), `BackendRefuses` or `BackendLoads` (the victims are chosen), `EvictNext` per victim, `Install`, `LoadReturns` (marker cleared) |
| `unloadModel` | `UnloadModel` |
| `submit` | `Submit`, with `Enqueue` |
| `cancel`, `syncNow` | `Cancel`, `SyncNow` on the caller's thread; `CallbackCancels`, `CallbackSyncs` inside a callback, where a resync is emitted at once |
| `~Context` | `Close` up to the join, `Join` |
| `workerLoop` | `Take`, `WorkerExits`, `Erase` |
| `serveOne` | `Lookup` or `ModelGone`, `CancelledEarly`, `StartServing` (marker opened), `MarkGenerate` (written), `ClearAfterServe`, `Finish` |
| the emitter's `block`, `sync`, `fail` | `Offer` (reads the cancel flag), `EmitBlock`, `PostBlock` (the deferred resync), `OfferSync`, `Fail` |
| `Backend::serve` | any sequence of offers, then a failure, a return, or the mock's `pause` until a cancel |
| a crash in backend code | `Crash(m)`, while backend code of `m` is running on either thread |

State: `models` is `models_` (an object number per id, `None` when absent, so that a
reload is a different object); `resident`, `bytes`, `lastUsed`, `clock` are `governor_`;
`queue`, `inflight`, `cancelled`, `syncRequested`, `seq` are `queue_`, `inflight_` and
the members of `PendingRequest`; `marker` is the file: the model and phase it names, `none` when it is absent, `empty`
while it is open and not yet written, `garbled` when two texts lie over each other; and
which threads have it open. `cancelled` also remembers which
thread cancelled last. `view`, `finals`, `tail` and `culprit` record what a consumer or
an operator sees and guide no step of the engine.

Abstractions: a block is its position, a snapshot its length; payloads, options and
JSON are left out. A load that is refused before it reaches the backend (fields,
backend id, preflight) changes nothing and is no step. The two atomic flags are read
and written sequentially consistently, as the default memory order gives. The marker
behaves as a POSIX file: opening it truncates it, both threads write from its start, and a
writer whose file has been removed meanwhile writes into nothing. That the file cannot be
opened at all (no state directory, a full disk) is left out.

`CallerWaits` is a discipline of the caller, not of the engine: `"nothing"` lets it
load and unload at any time, `"terminal"` only when every request has had its terminal
event, `"retired"` only when `cancel` finds no request any more. `docs/abi.md` asks
for none of them; the runs show what each buys.

### Residency and Governor

`Governor.EvictionVictims` describes the victims as a set, which the proofs and
`EngineContext` use; `Residency.EvictionOrder` walks the sorted candidates as the code
does, and `WalkIsVictims` compares the two for every load that could come next. One
unit is one MiB: charges are whole MiB, so rounding `max_runtime_bytes` down changes no
comparison. Sums are kept modulo `WordSize`, which stands for 2^64 / 2^20; a negative
`runtime_mb` wraps round in `Charge`. A generation tells the governor nothing; it is a step (`Generate`)
for the sake of `recency`, which remembers the order in which models were used.
`threadsFor` and `shouldDefer` are called by tests only and are not
modelled.

### SinkLedger

| code | model |
|---|---|
| `open`, `close` | `Open`; `Close`, `Joined`, `Sweep` (`sweepContext`) |
| `request` | `Enter` (sink first), `Accepted` or `Refused`, `Returns` |
| `deliver`, `envForCurrentThread`, `retire` | `Emit` (lookup), `Attach` or `AttachFails`, `Delivered` |
| the engine's worker | `Take`, `Emit`, `Done` |

`AttachFails` also stands for every event `deliver` returns from without calling the
listener. A context is known to the ledger only by its address, as in the code, and the
address is free again when the context has been deleted (`Joined`), which is before the
sweep that names it: `Open` takes any address no context has (`InUse`). `taken` remembers
the requests whose sinks another context's sweep removed.

### AgentLoop

The TypeScript host and its engine are synchronous, so a call runs to its end before
the next one starts, but everything it causes runs *inside* it: the terminal event of
a turn dispatches tools from within the engine's callback, and the last answer starts
the next turn from within that. `stack` is that call stack; a frame `"return"` is what
`#turn` still has to do when `engine.request` returns.

| code | model |
|---|---|
| `#completion`, `#runTurns`, `#turn` | `Completion`, `AnsweredAbove`, `StartTurn`, `Return` |
| `Engine.#run` and the callback in `#turn` | `EmitToken`, `CollectTool`, `Pause`, `EngineFails`, `TurnAnswers`, `TooDeep`, `DispatchTools` |
| `#groups`, `#dispatchTools`, `#runTool`, `#park` | `GroupOf`, `RunGroup`, `RunTool`, `ParkTool`, `Answered` |
| `approve`, `tick` | `Approve`, `Deny`, `Tick`, `TimeOut`, `TickReturns` |
| `cancel`, `resync` | `Cancel`, `Resync` |

A tool is the way the host treats it: `read` (answered at once, refused and unknown
tools included), `write` (mutating, approval `auto`), `hang` (waits for its deadline),
`prompt` (mutating, asks first); `timed` of a parked one says whether it is ever due.
Left out: contents, the transcript, the registry, the
writes that the MCP server parks, and the ids models give their calls.

### Backends

`EngineContext` lets a backend do anything its interface allows; these modules say what
each one does, behind one worker that serves one request after another. `BackendSeam`
holds what they share: the loaded model, the request, `sent` and `report` (what `out.block`,
`out.sync`, `out.fail` and `out.finish` were given), `cancelAt` (how much had been sent when
the cancel landed, which may be between any two steps), and `frame`, the locals of the
running `serve`. `Dies` is an assertion or an uncaught exception in backend code.

| code | model |
|---|---|
| `GgufBackend::load` | `LoadGguf`, `ContextLength` (64 to 32 bit conversion included) |
| its `serve`, `serveEmbedding` | `ServeGguf`, `RefuseGguf`, `IngestPrompt`, `EmbedInput`, `IngestFails`, `IngestAborts`, `AnswerVector`, then `PollGguf`, `SampleEnd`, `SamplePiece`, `AcceptPiece`, `AcceptThrows`, `EmitWhole`, `DecodeToken` round the loop, `FlushCarry`, `FinishGguf` |
| `completeUtf8Prefix` | `CompletePrefix` |
| `loadAudio`, `decodeWav`, `toMono`, `resample` | `AudioOf`, `Visited`, `LastChunk`, `DecodeWav`, `MonoLength`, `ModelInputLength`, `Neighbours` |
| `serveVad` | `AnswerVad`, `WalkWindows`, `VadSpans` |
| `WhisperBackend::serve` | `ServeWhisper`, `RefuseAudio`, `CallWhisper`, `DecodeWindow`, `FindSegments`, `OnNewSegment`, `NextWindow`, `FullReturns`, `FullFails`, `WhisperHearsCancel`, `AnswerWhisper`, `FinishWhisper` |
| `Pack::parse` and its parts | `HeaderOk`, `MetaOk`, `PhonesOk`, `LexiconOk`, `LtsOk`, `SpellerOk`, `NormOk`, `FloorOk`, `Loads` |
| the pack's lookups | `Lookup` (`Halved` per probe), `LeafReached` (`NodeAfter` per question), `LtsLetter`, `Spell`, `FoldText` |
| `Phonemizer::run` | `Scan` (`Reads` per character: gaps, words, sentences), `Pronounce` per word, `DeferredOf`, `Tiles` |
| `pronounce`, `expandNumber` | `Ladder` (lexicon, ending, trees, spelling, refusal); `Expanded` with `Cardinal`, `OrdinalWord`, `NumberWords`, whose words are pronounced in turn (`Nested`, as deep as the stack is, `StackDepth`) |
| `G2pBackend::serve` | `ServeG2p`, `CheckG2p`, `StackRunsOut`, `PollSentence`, `SentenceBlock`, `StopsSpeaking`, `ClosingBlocks`, `FinishG2p` |
| `MockBackend` | `LoadMock`, `ServeMock`, `PlayEvent`, `PauseMock`, `PausedHearsCancel`, `MockHearsCancel`, `FailMock`, `CompleteMock`, `ScriptEnds` |

Abstractions. *gguf*: a byte is ASCII, a lead of two or three bytes, or a continuation; a
token is the bytes it renders to, chosen freely where the sampler may choose; a grammar is
the set of token sequences it accepts, and the translation of a schema to one
(`gbnf.hpp`) is kept as its outcome: none, refused, one llama.cpp will not parse, or one
that compiles. Memory, files and the numbers of the sampler are left out; a failure of
`llama_decode` for any other reason may happen at every call. *whisper*: a sample is quiet
or loud, a segment its number; amplitudes, times and words are left out. `whisper_full`
decodes its audio window by window, polls the abort callback last when a window has been
decoded (`DecodeWindow`), and hands the segments of the window, `PerWindow` at most, to
`onNewSegment` one or several at a time; audio of up to `ShortAudio` samples (100 ms) it
does not decode at all. *g2p*: a text is
code points with one kind of malformed byte; JSON of the meta section is its fields. The
libraries are external and modelled from `vendor/` as the backends meet them.

Things a reader of the code may want to know, that are in the models and that no property
speaks about: one stray continuation byte holds back everything gguf produces until the
final flush (`utf8.hpp:30-47`); a grammar llama.cpp will not parse leaves the generation
unconstrained (`gguf_backend.cpp`, `buildSampler`); a folded punctuation mark is a boundary
but its pause is looked up unfolded and lost (`phonemize.hpp:289-311`); number words a pack cannot say are left out of the
number, and the guessed ones among them defer nothing (`phonemize.hpp:394-404`); `1000th`
loses its ordinal; of separators and punctuation, unlike letters, nothing checks that they
are accepted (`docs/g2p-pack.md:140-141` says it is); a negative `window_ms` is taken as a
huge one.

## 3. The runs

Every run checks deadlock except Residency's, whose bounded clock lets it stop.

| run | instance | states | what it shows |
|---|---|---|---|
| EngineStream | 3 requests, request 2 touched, 2 offers each, 1 load | 533,261 | Three requests of both priorities with two blocks each, one of them resynced and cancelled from the caller's thread and from inside callbacks, closed at any moment: the queue keeps its order, nobody is lost or settled twice, what a consumer holds is what the engine produced, and the context implements the promise. |
| EngineModels | 2 models, budget 3, charges 2 and -1, 3 loads, 2 requests, caller waits for "retired" | 642,092 | Two models that do not fit together, with wrapped charges, loaded, reloaded, evicted and unloaded by a caller that does so only while cancel finds no request: under that discipline the marker, the books and the running model are safe. |
| EngineLive | 1 model, 2 loads, 2 requests, a backend that may pause | 258,693 | Loads, reloads and unloads at any moment, requests that run, wait, or sit in a backend that only a cancel ends: every accepted request gets its terminal event and despia_ai_close returns. |
| EngineFreed | 2 models, 1 request, caller waits for nothing | counterexample | A caller that waits for nothing unloads a model while the worker is serving a request on it: the object is destroyed under the generation. |
| ResidencyLoads | 3 models, budget 4, charges 0, 1, 2, 5, 5 loads | 16,266 | Up to five loads and reloads, with generations and unloads, of three models, some of which fit only alone and some not at all: evictions are enough, never too many, never in vain, and the walk agrees with EvictionVictims. |
| LedgerTwo | 2 drivers, 2 addresses, 3 requests | 491,634 | Two threads, each with its own context, three requests in one ledger, refusals, failed attachments and closes at any moment; the allocator may hand out the address of a deleted context before its sweep. What a foreign sweep takes apart, no listener is called after its release, no event is missed, and every listener is given back. |
| LedgerReuse | the same | counterexample | The same instance against the ledger's own comment on the sweep: one thread's close deletes its context, another thread's open gets the address, and the first one's sweep releases the second's listener while its worker is about to call it. |
| BackendsServe | 4 backends; 5 tokens, 3 segments, 2 turns, batch 2, 44 packs, 22 texts | 70,889 | The four backends behind one worker, over every small model, request, script, audio file, pack and text of the instance, a cancel between any two steps: every backend keeps the contract of the seam and stops when cancelled, and what gguf streams, whisper transcribes and g2p says is exactly what it should be. |
| GgufGrammar | the same, batch 8 | counterexample | A generation constrained by a grammar ends the process on its first tokens, because each token is accepted twice. |
| LoopTwo | 2 labels, depth cap 1, two and one calls a turn, pauses | 189,016 | Two requests, one grouping two calls a turn, with every kind of tool, turns that pause or fail, approvals with and without a timeout, denials, timeouts, cancels and resyncs at any moment between calls: no turn overlaps, no call is lost, no loop is stranded, and each one ends unless its turn stays stopped or nobody answers an approval that is never due. |
| LoopCancel | the same | counterexample | A request cancelled while one of its tools waits for approval: the approval that comes afterwards runs the tool and starts the next turn. |
| LoopApproval | 1 label, no pauses | counterexample | One request against the documented rule for approvals: its tool asks for one and declares no timeout, nobody answers, and the loop waits for ever. |

**Bounds.** Three requests are the least for which the queue holds two while a third
runs, so that an insertion can go before, between and behind. Two blocks are the least
for a resync between two tokens; the consumer touches request 2, which may be served
first, second or last, because requests differ only in their order and priority. Two
models that do not fit together make every load an eviction, three loads give a reload
after an eviction, and `-1` is the charge that wraps. In `Residency`, three models and
five loads give an eviction with a choice of victims after a reload; the amounts are
nothing, small, half the budget and more than all of it. In `SinkLedger`, three
requests over two contexts put two in one context and one in the other, or let one
context be closed and the next opened while the other works; two addresses are
enough for a new context to be at a closed one's. In `AgentLoop`, a depth
cap of 1 gives two turns, the second of which meets the cap; two calls in a turn give
a group of two, or two groups.

In `Backends`, five tokens are the least for a character of three bytes begun on the
second of two tokens and completed or broken after it, with the budget reached before,
at or after that; a batch of 2 in a context of 4 gives prompts that are empty, fit, exceed
the batch and fill the context (in GgufGrammar the batch is 8, so that only the grammar can
end the process); `IntMax` 7 makes a declared length and a `max_tokens` of 9 wrap. The
recordings are every sample rate below, at and above the model's in one and two
channels, and files whose chunks are odd, too short, or declared longer than the file;
the vad windows none, one that divides the audio, one that does not, and a negative one.
The packs are one that uses every section, three with less in them, two whose number words
have digits, one of them without end, and 38 that are each wrong in one way; two calls deep
is as deep as the other packs need. The texts are 22, each for a rung of the ladder, a kind of number, or
a way to end a sentence. Three segments are two beyond the first and more than the window
of two holds; one recording is as short as whisper does not decode; two turns a script
that moves on and then repeats its last.

**Fairness.** `EngineContext` assumes that the two threads are scheduled, that a
backend's `load` and `serve` come back, and that a callback returns, which the ABI
asks of consumers (`docs/abi.md`). Nothing obliges the caller to make a call. A backend
may wait for a cancel; `EveryRequestSettles` excuses a worker that is paused on a
request nobody cancels, and `CloseReturns` does not, because close cancels.
`AgentLoop` assumes that a call runs to its end and that the application's clock goes on
(`host.tick`) until each label's timed tools are due; it does not assume that anybody
answers an approval. `EveryLoopEnds` excuses a turn that stays stopped mid-stream and a loop
whose tool is parked without a timeout; LoopApproval shows that the latter do stay.
`MarkerIsInProgress` is checked in the same run although it is a safety property.
`Backends` assumes only that the worker inside `serve` keeps taking steps, whichever they
are (`WF_vars(Works)`): the thread of `workerLoop` is scheduled and the library calls come
back. A cancel, which makes a paused mock return, is the caller's and is not assumed.

**Violations.** Five runs show the code at odds with a statement of its own.

- **EngineFreed** (`RunningModelStays`, `src/engine/src/context.cpp:247`). serveOne takes a raw pointer to the LoadedModel under mu_ (context.cpp:405-415) and hands it to backend->serve after the unlock (491), while despia_ai_unload_model, which the contract allows the one caller thread at any time (despia_ai.h:186-205), destroys the object under mu_ (context.cpp:247): the run shows a caller that unloads the model after its worker has looked it up, so that the request is served on a model that is gone. backend.hpp:73-75 says of serve: 'Serves one request against a loaded model. Runs on the context's worker thread; the backend emits through `out` and returns when done', and backend.hpp:82-84 keeps backends registered for good, 'because a capability that can disappear underneath a running request is a crash waiting for a schedule'. A reload of the same id (232) and an eviction (226-229) free it the same way.
- **LedgerReuse** (`CalledListenerIsHeld`, `src/bindings/jni/despia_ai_jni.cpp:408`). NativeEngine.close deletes the context (407, api.cpp:102) and only then sweeps the ledger by the context's address (408). In between, despia_ai_open on another thread may be given that address and enter a listener under it; the sweep then deletes the reference of a live request, one its worker may have looked up (deliver, 329-337) and be about to call. despia_ai_jni.cpp:33-36 says of the sweep: 'It runs AFTER despia_ai_close, which joins the worker, so nothing can be mid-delivery while it runs.'; 404-406 repeats that the join 'is what makes the sweep below safe rather than a race against a delivery in progress'.
- **GgufGrammar** (`StructuredIsShaped`, `src/engine/src/backends/gguf/gguf_backend.cpp:404`). llama_sampler_sample already accepts the token it picks (vendor/llama.cpp/src/llama-sampler.cpp:874), and serve calls llama_sampler_accept on it once more. Every other sampler of the chain tolerates that; the grammar is advanced twice, and a token that cannot follow itself leaves it without a stack, which llama-grammar.cpp:1519 throws. Nothing between there and the worker's thread function catches it, so the process terminates. docs/tools-and-loop.md:62-63 says a schema "compiles to a grammar constraint, so the JSON is well formed by construction rather than by hope", and gguf_backend.cpp:343-345 "Structured output: compile the schema before generating, and REFUSE if it will not compile."
- **LoopCancel** (`CancelledDispatchesNothing`, `src/bindings/ts/src/host.ts:1204`). cancel ends the engine request and unregisters the loop, but leaves the loop's parked tools in #parked (host.ts:1199-1211). approve (1182-1187) or tick then resumes them: the mutating tool is dispatched and its answer starts another turn of the cancelled request. host.ts:1206-1207 says "A cancelled request still settles: no orphaned stream, no silent truncation, and nothing dispatched afterwards", and conformance/ai/loop/loop.json:63 "Cancellation is loop-wide. After the cancel the runtime does not start the next turn and does not dispatch the tool".
- **LoopApproval** (`EveryApprovalResolves`, `src/bindings/ts/src/host.ts:1158`). An approval whose tool declares no approval_timeout_ms gets dueAt = now + Number.MAX_SAFE_INTEGER (host.ts:1158), so no tick ever times it out, and approval_default (host.ts:61) is read nowhere: the loop stays parked until somebody answers or cancels. docs/tools-and-loop.md:47-48 says: 'Every approval has a named timeout with a declared default disposition, so an unanswered prompt resolves instead of hanging forever.'

`RunningModelStays` and `MarkerNamesCulprit` hold in EngineModels: a caller that loads and
unloads only while `cancel` answers "not found" for every request it made is safe from
both. `HeldUnlessTaken`, `MissedOnlyIfTaken` and `ClosedHoldsNothing` say what holds of the
ledger with the sweep as it is, `EveryLoopEnds` what holds of the loop with approvals that are
never due.

**Divergences that no run is about.** The first six are stated as properties in the modules,
and TLC refutes each when it is put into the configuration named (`INVARIANT` or `PROPERTY`);
what the passing runs check of the same code allows for them and says so.

- *The marker.* `MarkerNamesCulprit`, EngineModels with `CallerWaits = "terminal"`. The terminal
  event of a request that fails is emitted from inside the backend (`context.cpp:480-485`), and
  the worker clears the marker only when `serve` has returned (492). A caller that waited for
  that event and loads a model writes its marker in between (198), on another thread, and the
  late clear deletes it: when the load takes the process down, no marker is left.
  `docs/abi.md:134-136`: "The engine writes a marker before every load and every generation and
  clears it on success. If the marker is still on disk at the next open, that model took the
  process down."
- *The least recently used.* `LeastRecentlyUsedGoFirst`, ResidencyLoads. `evictionOrder` sorts by
  `lastUsed` (`governor.hpp:172-174`), which the context sets only in `noteLoaded`
  (`context.cpp:236`); `noteUsed` (`governor.hpp:116`) is called by nothing but a test, so the
  least recently *loaded* model goes, however lately it was used. `governor.hpp:16-18`: "the LEAST RECENTLY USED
  resident model is evicted first"; `docs/abi.md:105-106` and `governor_test.cpp:82-92` say the same.
- *Long prompts.* `PromptIsRefusedNotFatal`, BackendsServe. The whole prompt is decoded as one
  batch (`gguf_backend.cpp:388`). The context has an `n_batch` of at most 512 (309) and the prompt
  is checked against `n_ctx` only (362): one in between meets an assertion of `llama_decode`
  (`vendor/llama.cpp/src/llama-context.cpp:1768`), and the process aborts.
  `gguf_backend.cpp:384-385`: "A failure here is the model refusing the input, which is a typed
  refusal rather than a crash."
- *Detected languages.* `TranscriptIsWhole`, BackendsServe. An empty or "auto" language sets
  `detect_language` (`whisper_backend.cpp:205`), and `whisper_full` then returns 0 as soon as it has
  detected one (`vendor/whisper.cpp/src/whisper.cpp:6829-6847`), before any audio is decoded: the
  transcript is empty and the request finishes with "stop". `whisper_backend.cpp:246`:
  "Non-streaming delivers the transcript once, whole."
- *Silent entries.* `EverySilenceIsRefused`, BackendsServe. `validateValue` lets a lexicon entry
  have no phones (`pack.hpp:519-526`, 545-549 for a sense), `pronounce` answers the word with them
  via lexicon or pos (`phonemize.hpp:334-352`), and nothing marks it. `docs/g2p-pack.md:41-42`: "A
  pack that could go quiet without having said so cannot be loaded, so the silent path does not
  exist at runtime"; `validateFloor` (`pack.hpp:713-732`), which carries that out, looks at the
  speller alone, and `g2p_test.cpp:604-609` and 801-806 assert of every token of their packs that
  one without phones is marked. `SilenceIsMarked` is what holds: the silence comes from such an
  entry or is marked.
- *Number words with digits.* `PhonemizeReturns`, BackendsServe. `expandNumber` hands each number
  word to `pronounce`, which expands any word with a digit in it again (`phonemize.hpp:506-510`,
  519), however deep. `parseNorm` asks of the section only that it is an object
  (`pack.hpp:687-689`): a pack whose word for two is "2" loads, and a text with that digit recurses
  until the stack is gone. `pack.hpp:10-14` says that what the reader relies on is checked "once, here, at load",
  "and never a surprise on a device at three in the morning".
- *The totals.* `wouldFit` adds unsigned totals of charges nothing bounds
  (`governor.hpp:139-176`). With `WordSize = 6`, at which the instance's totals wrap,
  `EvictionSuffices` fails: a load leaves more resident than the budget. `EvictionIsEnough`
  assumes `TotalsFitTheWord`; `EvictsNoMore` survives the wrap.
- *Labels.* `#turn` stores `ridOf[key]` after `engine.request` returns (`host.ts:1027`); when
  the turn's tools answer at once the next turn has stored its own by then and is
  overwritten, so `cancel` reaches a finished request (1024-1026 says the opposite). A
  label's first id comes from the host's own counter and may be another turn's (844).
- *Approvals.* `approve` finds the first parked call of an id the model chose (`host.ts:1183`).
- *Resyncs.* One asked for inside the terminal event's callback is answered after the terminal
  event (`context.cpp:352`); one asked for after the last block is accepted and never
  emitted (366, 466).
- *Bindings.* `last_error` is read on the worker while the caller's thread may replace it
  (`context.cpp:120`); Kotlin's `close` does not forget the handle (`Engine.kt:81`); the stamp
  and the extracted library are replaced one after the other (`Native.kt:353`); a Swift
  sink is released by the terminal event, a refusal or the drain of close
  (`DespiaAI.swift:353`).

## 4. The proofs

Checked by TLAPS for every value of the constants that meets the assumptions of the
modules, which TLC evaluates on every run: for `EngineContext` a finite set of models, a
budget within the word, natural bounds and integer charges; for `Residency` the same
without the bounds of a context, and amounts that are not negative; for `SinkLedger` finite
sets of drivers and addresses and a natural number of tokens; for `AgentLoop` a natural
depth cap and number of calls per label; for `Backends` the types of models, requests,
scripts, recordings, packs and texts (a piece of text is a sequence of bytes; the fields of
a WAV header are unsigned, and a file that says RIFF has the twelve bytes that say it; the
numbers in a pack are unsigned and its texts are code points, `PackFields`, which is all
that is known of a pack before its reader has looked at it).

| theorem | states |
|---|---|
| `TypeCorrect` | `TypeOK`: every variable keeps its type, for every set of models, budget, word size and bound |
| `InflightCorrect` | `InflightIsUnfinishedWork`: what cancel and sync find is exactly the queue and the request being served |
| `SettledOnce` | `SettledExactlyOnce`: no request gets two terminal events, and one that is no longer in flight has had its own |
| `ViewCorrect` | `ViewIsExact`: a consumer that appends tokens and takes snapshots holds exactly the engine's blocks |
| `CancelStops` | `CancelStopsStream`: a cancel from the caller's thread lets at most one more token through |
| `StreamImplemented` | `ImplementsStream`: every behaviour of the context is a behaviour of RequestStream under the mapping of Stage and Flowing |
| `ClosedIsSilent` | `SilentAfterClose`: a closed context tells no consumer anything: the worker has exited, and never inside the callback |
| `QueueOrdered` | `QueueOrder`: interactive requests wait ahead of background ones, each kind in the order of submission, for any number of requests |
| `CallbackCancelHolds` | `CallbackCancelIsImmediate`: after a cancel from inside the callback no block of that request is ever produced |
| `MarkerInProgress` | `MarkerIsInProgress`: whatever order the two threads open, write and clear the marker in, it names a load or a generation that is still going on, and is empty only while one of them is writing it |
| `BooksMatch` | `BooksMatchModels`: between two calls the governor has on its books exactly the loaded models, wrapped charges included |
| `RunningModelKept` | `RunningModelStays`: a caller that loads and unloads only while cancel finds nothing never frees the model of a running generation |
| `MarkerNamesTheCulprit` | `MarkerNamesCulprit`: for the same caller a crash leaves a marker that names the model whose code crashed |
| `WalkNamesTheVictims` | `WalkIsVictims`: the sorted walk of evictionOrder, broken off where the rest fits, names exactly the set of victims the context drops, for every next load: for all models, budgets and declared amounts |
| `EvictionIsNeeded` | `EvictsNoMore`: without the last victim the load did not fit, and a load that can never fit drops nothing, wrapped totals included |
| `EvictionIsEnough` | `EvictionSuffices`: a load that could fit at all leaves the context within its budget, as long as the totals of all models fit the accounting word |
| `LedgerCounts` | `LedgerBalances`: a sink and its listener's reference live and die together and the count of references agrees with the ledger, for every set of drivers and addresses and every number of requests |
| `ListenersAreHeld` | `HeldUnlessTaken`: whatever addresses the allocator hands out, a listener is only ever called while its global reference is held, but for a request whose sink another context's sweep took |
| `NoEventIsMissed` | `MissedOnlyIfTaken`: an event of an accepted request misses its sink only if another context's sweep took it, although the worker may run before request returns |
| `UnfinishedHold` | `OnlyUnfinishedHold`: only requests that have not finished hold a listener: one refused or settled on an attached thread has given it back, whatever addresses the allocator hands out |
| `CloseReleasesAll` | `ClosedHoldsNothing`: a closed driver holds no sink, not even of a request that never settled, and its worker was detached when joined unless an event of its was missed |
| `SeamInvariant` | `SeamInv`: nothing is pending between two requests, an end is reported once and then serve only returns: the invariant the next two rest on, for every backend |
| `BackendsImplementEmitter` | `ImplementsEmitter`: every backend emits only while it serves and has reported no end, reports one end at most and then only returns, for every model, request, script, recording, pack and text |
| `BackendsHearCancel` | `CancelIsHeard`: wherever a cancel lands, what a backend still emits is bounded: two blocks for gguf and g2p (the one on its way, and what was held back or follows the last word), for a live transcript the segments of one decoded window, one block for anything else |
| `EveryByteIsSent` | `TextIsExact`: after every token a generation has sent the longest run of whole characters of what the model produced, and in the end all of it, for any pieces of text, prompt, limit and grammar |
| `TranscriptsAreWhole` | `SegmentsOnce`: a transcript is every segment found, once and in order, live or whole, however often the callback runs and whatever the call before left in the context |
| `AudioIsInBounds` | `AudioStaysInside`: no chunk the walk visits ends past the file and no sample the resampler takes lies outside the recording, for every file, rate and channel count |
| `VadAnswersAreSpeech` | `SpansAreSpeech`: the spans of a vad answer are exactly the longest runs of voiced windows, in order and apart, for every recording and every window the call accepts |
| `LookupFindsWords` | `Lookup`: in every lexicon the reader accepts, the search by halves finds each word at its own row, whatever the number of rows |
| `WalksEndAtLeaves` | `LeafReached`: every walk down the trees of an accepted pack ends at a leaf, for any word and any letter of it, which the code relies on for having no cap |
| `OnlyLoadablePacks` | `PackIsLoaded`: the pack that is open is one the reader accepts, whatever is loaded, served or cancelled |
| `LoadedPacksAreWhole` | `LoadedPackIsWhole`: of a pack that is open each word is found at its row and each walk ends at a leaf |
| `EveryWordIsAnswered` | `Pronounce`: what pronounce makes of any sequence of code points with an accepted pack is an answer, whose phones are the pack's and are missing only where the word is refused or, if an entry of the pack is empty, known to the lexicon; or a recursion that uses the stack up; the latter never, if no number word of the pack has a digit |
| `EveryTextIsUttered` | `Utters`: if run does not use the stack up, which it never does with a pack whose number words have no digits, what it makes of any text is whole: gaps, words and trailing text tile it unit for unit, tokens stand in the order of their sentences, and a token without phones is a refused one or, if an entry of the pack is empty, one of the lexicon's |
| `G2pSpeaks` | `SpeakInv`: what serve has sent is the utterance as far as it has come, every word once and in order, at each step of it and wherever a cancel lands: the invariant the next two rest on |
| `G2pBlocksTile` | `BlocksTile`: the blocks of an answer are the utterance, whose text is the input with what lies between its words, and no request is refused for not tiling |
| `G2pSilenceIsMarked` | `SilenceIsMarked`: with a pack whose entries all have phones a word without phones was refused, and with an empty entry among them it was refused or answered by the lexicon: no rung below that falls silent; and a sentence is deferred exactly when that was asked for and a word in it was guessed |
| `G2pNumbersReadBack` | `NumbersReadBack`: a whole number that the scales of its pack reach is said in words that are heard as that number, for every pack whose number words differ and any digits: leading zeros, grouping marks, empty groups and the last scale included |
| `OneTurnAtATime` | `TurnsDoNotOverlap`: a label's engine turns stay within the cap and never overlap, and nothing waits or is parked while one is live, for every set of labels, every cap and every number of calls |
| `MutationsAreSerial` | `MutatingRunsAlone`: a mutating tool is alone with its loop while it runs or waits |
| `NoCallIsLost` | `UnansweredIsParked`: between calls from outside the tools without an answer are exactly the parked ones, each parked once |
| `NoLoopIsStranded` | `LoopIsHeldOrSettled`: a loop nobody cancelled waits for a parked tool or in a live turn, or has had exactly one terminal event or error, the last |

Two hypotheses go beyond that, each because the property is false without it.
`RunningModelKept` and `MarkerNamesTheCulprit` assume `CallerWaits = "retired"`: EngineFreed and
the marker under "Divergences" show each failing for callers that wait for less. `EvictionIsEnough` assumes
`TotalsFitTheWord`: what all models together may be charged is below `WordSize` (the totals
under "Divergences"); the run ResidencyLoads meets it. Everything else assumes nothing of the
caller, the allocator or the environment; where the code falls short, the property says
which cases it speaks of: a sink that was taken, a number word with a digit, an entry with no
phones.

The argument:

- `TypeInv` is `TypeOK` with two facts it needs to be inductive: `AcceptedWork` (a worker
  away from its wait has a request, and everything queued or in flight was submitted for
  a model of the catalog) and `LoadNamesModel`. `TypeStep` has one step per action.
- `WorkInv` adds `InflightIsUnfinishedWork`, `SettledExactlyOnce` and `Settling`. Neither
  of the first two is inductive alone: that a terminal event is not repeated follows from
  where the worker is, and `Settling` says it: the current request has had its terminal
  event exactly when the worker is `PastTerminal`, and no waiting request has had one.
  `EnqueueInserts` shows that `Enqueue` puts a request in at one place and moves the rest
  behind it.
- `ViewCorrect` is inductive with `TypeInv`: `Heard` reduces every step to a token, a
  snapshot, or silence.
- `CancelStops` uses `TailStart`: the worker can reach `EmitBlock` on a cancelled request
  only when its tail is still 0, since `Offer` reads the flag.
- `ClosedIsSilent` uses `Quiet`: after `Join` the worker has exited, outside a callback.
- `StreamImplemented` uses `StreamInv` (`WorkInv`, `Quiet`, and `SeqStart`: a waiting
  request has produced nothing). Under `Stage` and `Flowing` each step is a step of
  `RequestStream` or a stutter (`StreamStep`, by the lemmas `Visible` and `Stutter`).
- `QueueOrdered` needs besides the order itself that only submitted requests are
  interactive. `PlaceFound` says where `Enqueue` puts a request, and `SubmitKeepsOrder`
  compares the new queue with the old one on either side of that place.
- `CallbackCancelHolds` uses `BlockHeeds`: a worker about to emit a block is outside the
  callback, so no callback can cancel between `Offer`'s check and the block.
- `MarkerInProgress` needs `Closing`, that a closing context is in its join and in no load.
  Which threads have the file open is part of the property: a text appears only where one of
  them was open, and `MarkerOpens` and `MarkerSays` say what the two steps make of the rest.
  `BooksMatch` needs `ObjectMade`: a load that makes room has an object to install.
- `RetiredInv` adds to `WorkInv` that while a load lasts nothing is in flight
  (`LoadsAlone`), that the worker's pointer is the installed object (`PointsToModel`), and
  that the marker is open or names what is about to run where one thread marks, and names
  what backend code runs afterwards (`MarkedRight`). As long as the worker holds
  a pointer something is in flight, so the caller neither loads nor unloads.

- `SeamInv` says that between two requests nothing is pending and that a reported end is
  the only one and leaves `serve` at its return. `SeamStep` is what the core can see of a
  step: a model, a serve, blocks, an end, or death. One lemma per backend (`GgufIsSeen`,
  `WhisperIsSeen`, `G2pIsSeen`, `MockIsSeen`) shows that each of its actions is such a step;
  `SeamInvHolds` and `StepKeepsContract` then know nothing of the backends, so a backend
  added later owes one lemma.
- `HearInv` makes `CancelIsHeard` inductive: `Slack` is how many blocks a cancelled backend
  may have emitted at each place of its `serve`, and a process that dies does so where
  nothing has been. `HeardOn` is the arithmetic, `GgufHears` and its like the places. A live
  transcript has an invariant of its own, `LiveInv`: what a cancelled one has sent and the
  segments its window still has come to no more than the window held. That g2p has no
  words left when it has been through its sentences (`SpeaksNothingLeft`) comes from
  `SpeakInv` below, so the theorem stands in `G2p_proofs`.

- *Sums and walks.* The totals of the governor and the walks over bytes, chunks, windows and
  blocks are functions defined by recursion, and no theorem of the library gives induction
  for a formula. `NumbersFollow` and `SubsetInduction` give it for a *set* (a set of naturals
  with 0 and the successor of each member has every natural; a family that has every subset
  of a finite set all of whose proper subsets it has, has them all), from the library's facts about well-founded
  relations and cardinality, and each recursive function is then shown to exist, be unique and
  have the value meant (`TotalChooses`, `JoinsExists`, `FileWalksExists`, `WalksOneByOne`).
- `Books` is the invariant of `Residency`: every model is charged nothing or what an entry
  can say, and no two resident models are of one age. `CandidatesSorted` says that the sorted
  list is by age, `WalkNames` that the walk along it stops after the fewest oldest models
  with which the load fits. `EvictionIsNeeded` and `EvictionIsEnough` are that
  in terms of a step; `FitsIsPlain` takes the words for the numbers while the totals fit.
- `LedgerCounts` is inductive with the types and the order of tokens (`BaseInv`), whatever
  the allocator does: `RetireBalances` and `EnterBalances` count. The other four need
  `SinksInv`: a sink names the address of its own driver's context (`SinksAreOwned`), what was
  taken is gone and nothing else is missed (`TakenAreGone`), and what a request's life says
  of its sink and its worker (`LifeOfRequest`, `ServesOwn`, `CallsWhatItServes`,
  `AttachedServes`). A request keeps its sink until its terminal event has been delivered,
  or is in `taken`, because two contexts may be at one address while one is being swept.
- `LoopInv` says of each label that its calls without an answer are the parked ones and those
  the call stack has yet to run (`CallsOf`), that it streams, waits or is about to start, and
  never two of these (`PhaseOf`), how many turns it can have had (`CountOf`), and that its
  loop is registered exactly while it is somewhere, unless it was cancelled (`BooksOf`); of
  the stack, that its frames are in an order calls can nest in (`StackOK`). One lemma per action shows it kept;
  `Popped`, `Pushed`, `Parking` and `Unparked` say what a step does to what is held.
- `TextInv` makes `TextIsExact` inductive: what has been sent followed by the carry is what
  was produced (`Accounted`), and what has been sent is whole characters while no character
  in the carry is complete (`Settled`), but between a token's bytes and their emission.
  `CompletePrefix` is the longest whole prefix of *any* bytes, malformed ones included, only
  when taken from where the last one ended, which is what `Settled` says.
- `TranscriptInv` ties `StreamState` to the results in whisper's context at each place of
  `serve`; in the callback it is the new segments behind.
- `AudioInv` keeps a request's audio what was read for it. That no header or sample lies
  outside the recording follows from the clamp (`ChunkSizeIs`), from the walk only going
  forward, and for the resampler from `i < n * 16000 / rate` (`NeighboursInside`); the
  positions are exact there, where the code rounds doubles. `WalkIs` says what the walk of
  `serveVad` holds after each window: the runs closed so far, and where the open one began.

- *A pack.* `PackIsLoaded` is inductive with `SeamInv`: the model of a g2p backend is a pack
  `Loads` has accepted, and what the reader refused is then known of it (`PackOk`). Rows in
  strictly ascending order are what halving needs: each probe keeps the word's row in the
  range and makes the range smaller, so as many probes as there are rows find it
  (`LookupFindsWords`, which needs `Below` to be an order). A question's children lie behind
  it (`QuestionOk`), so a walk moves on until it stands on a leaf, and it cannot leave the
  nodes (`WalksEndAtLeaves`).
- *A word.* `Answers` is what may be said of a word: phones of the pack, and none only where
  the word is refused or, in a pack with an empty entry, known (`Silent`). Each rung gives an answer or none, the last always gives
  one. The words of a number are answered the same way one call deeper, and where the stack
  ends the answer is `Overflow` (`EveryWordIsAnswered`); if the number words have no digits
  once folded (`SaysNoDigits`), they go to the ladder at once and there is none; `LoopRuns` is the existence and uniqueness of the recursive
  functions the rungs are written with.
- *A text.* `TextRead` is what the reading has put aside, gaps and words; each character adds
  itself to it (`ScanReads`), and sentences are numbered in the order they are opened. With
  the answers this is `Utters`.
- *An answer.* `SpeakInv` says at each step of `serve` what the blocks add up to: the tokens of
  the sentences that have had their block and no other (`TakenSoFar`), each block with its
  mark (`Marked`). `SentenceTaken` is why it is inductive: tokens that stand in the order of
  their sentences are cut off sentence by sentence, so none is left for the closing blocks
  and none is said twice. At the end it is `BlocksTile`, and all along `SilenceIsMarked`.
- *A number.* `NumbersReadBack` is about what a listener makes of the words: the last small
  number heard, times a hundred, times the scale that follows. It is proved group by group:
  the words for three digits add their value to what was heard before and touch nothing else
  (`ThreeDigitsTell`, `GroupTells`), so that after each scale the total is the digits so far
  times the power of a thousand they stand at (`GroupAdds`), and at the end the whole
  (`CardinalIsHeard`); leading zeros, grouping marks and groups of zeros add nothing. The rest
  shows that the words of the number are the words of the token (`NumbersAreExpanded`,
  `RunReadsBack`). The antecedent is that a pack's number words differ (`WordsDiffer`) and that
  neither its folding nor its currency signs take a digit or the comma (`KeepsDigits`). The
  reader asks neither, and without them the property is false: a pack may give two numbers
  one word. `WordsOfInstance`, which TLC evaluates, says that every loadable pack of
  BackendsServe has both, so that the run checks every number it says.

Only model-checked: all liveness (`EveryRequestSettles`, `CloseReturns`, `EveryLoopEnds`,
`CancelEndsServe`), which rests on fairness and ENABLED. Every invariant and every other
action property or refinement that a passing run checks is a theorem.

## 5. Not modelled

Vendored libraries, but for the calls the backends make. The translation of a JSON schema
to GBNF (`gbnf.hpp`) and the JSON reader and writer: text to text. The C entry points: one
null-checked call each. The tools and the conformance runner: programs that run once,
on one thread, over files. The pure decisions (preflight, catalog, fit, router,
delivery), the extracted-library cache, the Swift and Kotlin bindings, and the hosts'
downloads, providers and MCP server could be modelled and are left out for now; the
first of them are in the plan. Each part has its entry in `PROJECT.json` under
`components`.

## 6. Plan

Written: Governor, EngineContext, RequestStream and their proofs, Residency, SinkLedger,
AgentLoop, the backends with Emitter, and proofs about all of them. To come, the most
valuable first:

1. **SwiftContext**: the handle under its lock, the retained sinks, the event stream's
   termination and the last reference, over `RequestStream`. Properties: no call reaches
   a freed context, a sink is released exactly once, the worker never joins itself.
   Instance: two threads, two requests.
2. **LibraryCache** (`Native.kt`): two processes of two builds extracting and loading.
   Property: what is loaded is the build's own.
3. **Algorithms**: fit, router and delivery, the bounds checks of preflight and the 64 to
   32 bit conversions, each against a reference definition over bounded inputs.
4. **Downloads and the MCP server** of the host, composed with `AgentLoop`'s parking; the
   Swift and Kotlin hosts, whose turns run on threads, as an asynchronous variant that
   implements the same loop.
5. **Theorems** about what items 1 to 4 add.

To run a check by hand, from this directory: `tlc -config EngineStream.cfg MCEngineContext`
(the module of each run is in `PROJECT.json`), `tlapm EngineContext_proofs.tla`.
