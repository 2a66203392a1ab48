------------------------------ MODULE GgufServe ------------------------------
(***************************************************************************)
(* The GGUF backend (engine/src/backends/gguf/gguf_backend.cpp): opening a *)
(* model, and serving a generation or an embedding with llama.cpp, whose   *)
(* calls are modelled from the vendored library (vendor/llama.cpp).        *)
(*                                                                         *)
(* A byte of text is a member of Bytes: ASCII, the lead of a two- or three *)
(* byte character, or a continuation.  A token is the bytes it renders to. *)
(* A grammar is the set of token sequences it accepts.                     *)
(***************************************************************************)
EXTENDS BackendSeam

CONSTANTS
  BatchMax,        \* 512: the n_batch a context is opened with, at most
  DefaultContext,  \* 2048
  CachePad,        \* 256: llama.cpp rounds the KV cache up to a multiple of it
  Entries,         \* the catalog entries: context_length (0 if not declared), embedding
  Trained,         \* training lengths a model file may state
  Prompts,         \* lengths in tokens of a prompt
  Limits,          \* values of options.max_tokens
  Pieces,          \* what a token may render to: sequences of Bytes
  Shapes,          \* the grammars schemas compile to
  MaxGenerated     \* bound: tokens one generation samples

Bytes == {"ascii", "lead2", "lead3", "next"}

ASSUME GgufAssumption ==
  /\ BatchMax \in Nat \ {0} /\ DefaultContext \in Nat \ {0} /\ CachePad \in Nat \ {0}
  /\ Entries \subseteq [context : Int, embedding : BOOLEAN] /\ Trained \subseteq Int
  /\ Prompts \subseteq Nat /\ Limits \subseteq Int /\ MaxGenerated \in Nat
  /\ Pieces \subseteq Seq(Bytes)

Padded(n) == ((n + CachePad - 1) \div CachePad) * CachePad

-----------------------------------------------------------------------------
(* Opening a model.                                                        *)

(* The context length: declared, never above the training length. *)
ContextLength(declared, trained) ==
  LET wanted == IF declared > 0 THEN Int32(declared) ELSE trained
      n      == IF trained > 0 /\ wanted > trained THEN trained ELSE wanted
  IN  IF n <= 0 THEN DefaultContext ELSE n

LoadGguf ==
  Empty /\ \E entry \in Entries, trained \in Trained :
    LET n == ContextLength(entry.context, trained) IN
    Opened([engine |-> "gguf", nCtx |-> n, nBatch |-> Min({n, BatchMax}),
            embeds |-> entry.embedding, kv |-> 0])

-----------------------------------------------------------------------------
(* completeUtf8Prefix.                                                     *)

Need(byte) == CASE byte = "ascii" -> 1 [] byte = "lead2" -> 2 [] byte = "lead3" -> 3
                [] OTHER -> 0

(* Whether a character starts at s[i] and is all there. *)
StartsWhole(s, i) ==
  /\ Need(s[i]) > 0 /\ i + Need(s[i]) - 1 <= Len(s)
  /\ \A k \in i + 1 .. i + Need(s[i]) - 1 : s[k] = "next"

(* How many bytes of s form complete characters, from its first byte on. *)
CompletePrefix(s) ==
  LET upTo[i \in 1 .. Len(s) + 1] ==
        IF i <= Len(s) /\ StartsWhole(s, i) THEN upTo[i + Need(s[i])] ELSE i - 1
  IN  upTo[1]

-----------------------------------------------------------------------------
(* The grammar sampler, as llama.cpp keeps it.                             *)

Unconstrained == [on |-> FALSE, taken |-> <<>>]

Accepts(shape, taken) == \E word \in shape : IsPrefix(taken, word)

(* llama_sampler_init_grammar, which buildSampler adds only if it is not   *)
(* null: a grammar llama.cpp will not parse constrains nothing.            *)
Sampler(schema) == [on |-> schema = "compiles", taken |-> <<>>]

(* What llama_sampler_sample may pick: a piece, or the end of generation.  *)
MayPick(s, piece) == s.on => Accepts(request.shape, Append(s.taken, piece))
MayEnd(s)         == s.on => s.taken \in request.shape

(* llama_sampler_accept; the grammar throws when nothing matches. *)
Takes(s, piece)  == [s EXCEPT !.taken = Append(@, piece)]
Matches(s)       == s.on => Accepts(request.shape, s.taken)

-----------------------------------------------------------------------------
(* llama_decode of n tokens.                                               *)

DecodeAborts(n) == n > model.nBatch
FitsCache(n)    == model.kv + n <= Padded(model.nCtx)

(* The tokens are in the cache. *)
Decoded(n, next) ==
  /\ ~DecodeAborts(n) /\ FitsCache(n)
  /\ model' = [model EXCEPT !.kv = @ + n] /\ frame' = next
  /\ UNCHANGED <<request, phase, sent, report, cancelAt>>

-----------------------------------------------------------------------------
(* serve.                                                                  *)

GgufRequest ==
  [kind : {"generate"}, tokens : Prompts, limit : Limits,
   schema : {"none", "refused", "unparsed"}, shape : {{}}]
  \cup [kind : {"generate"}, tokens : Prompts, limit : Limits,
        schema : {"compiles"}, shape : Shapes]
  \cup [kind : {"embedding"}, tokens : Prompts, limit : {0},
        schema : {"none"}, shape : {{}}]

GgufFrame ==
  [at |-> "checks", budget |-> 0, generated |-> 0, carry |-> <<>>,
   produced |-> <<>>, pieces |-> <<>>, picked |-> <<>>, sampler |-> Unconstrained,
   reason |-> "stop"]

(* Every request starts from an empty cache. *)
ServeGguf ==
  /\ Waiting("gguf") /\ \E r \in GgufRequest : Begin("gguf", r, GgufFrame)
  /\ model' = [model EXCEPT !.kv = 0]

(* What is refused before the model is asked anything, first check first. *)
GgufRefusal ==
  IF request.kind = "embedding" THEN IF request.tokens = 0 THEN "empty_input" ELSE "none"
  ELSE IF request.schema = "refused"   THEN "schema_unsupported"
  ELSE IF request.tokens = 0           THEN "empty_prompt"
  ELSE IF request.tokens >= model.nCtx THEN "context_overflow"
  ELSE "none"

RefuseGguf ==
  /\ At("gguf", "checks") /\ GgufRefusal # "none"
  /\ Fails(GgufRefusal)

(* max_tokens, or what the context has left. *)
BudgetOf(r) == IF r.limit > 0 THEN Int32(r.limit) ELSE model.nCtx - r.tokens

Ready == At("gguf", "checks") /\ GgufRefusal = "none"

(* The whole prompt is one batch. *)
IngestPrompt ==
  /\ Ready /\ request.kind = "generate"
  /\ Decoded(request.tokens,
             [frame EXCEPT !.at = "loop", !.budget = BudgetOf(request),
                           !.sampler = Sampler(request.schema)])

EmbedInput ==
  /\ Ready /\ request.kind = "embedding"
  /\ Decoded(request.tokens, [frame EXCEPT !.at = "vector"])

IngestAborts == Ready /\ DecodeAborts(request.tokens) /\ Dies

IngestFails == Ready /\ ~DecodeAborts(request.tokens) /\ Fails("decode_failed")

(* The vector is there only when the model was loaded to embed. *)
AnswerVector ==
  /\ At("gguf", "vector")
  /\ \/ model.embeds /\ Emits(<<[type |-> "embedding"]>>, [frame EXCEPT !.at = "finish"])
     \/ Fails("no_embeddings")

(* Mutant: the poll is gone. *)
NeverPolls ==
  /\ At("gguf", "loop")
  /\ Moves([frame EXCEPT !.at = IF frame.generated >= frame.budget THEN "flush" ELSE "sample"])

(* The poll for a cancel, before the expensive part. *)
PollGguf ==
  /\ At("gguf", "loop")
  /\ Moves(IF frame.generated >= frame.budget THEN [frame EXCEPT !.at = "flush"]
           ELSE IF Cancelled THEN [frame EXCEPT !.at = "flush", !.reason = "cancelled"]
           ELSE [frame EXCEPT !.at = "sample"])

(* llama_sampler_sample: the chain picks, and accepts what it picked. *)
SampleEnd ==
  /\ At("gguf", "sample") /\ MayEnd(frame.sampler)
  /\ Moves([frame EXCEPT !.at = "flush"])

SamplePiece ==
  /\ At("gguf", "sample") /\ frame.generated < MaxGenerated
  /\ \E piece \in Pieces :
       /\ MayPick(frame.sampler, piece)
       /\ Moves([frame EXCEPT !.at = "accept", !.picked = piece,
                              !.sampler = Takes(@, piece)])

(* serve then calls llama_sampler_accept itself. *)
AcceptPiece ==
  /\ At("gguf", "accept") /\ Matches(Takes(frame.sampler, frame.picked))
  /\ Moves([frame EXCEPT !.at = "emit", !.sampler = Takes(@, frame.picked),
                         !.carry = @ \o frame.picked,
                         !.pieces = Append(@, frame.picked),
                         !.produced = @ \o frame.picked])

AcceptThrows ==
  /\ At("gguf", "accept") /\ ~Matches(Takes(frame.sampler, frame.picked))
  /\ Dies

(* Mutant: the carry is not shortened by what went out. *)
EmitKeepsCarry ==
  /\ At("gguf", "emit")
  /\ LET whole == CompletePrefix(frame.carry)
         text  == [type |-> "text", text |-> SubSeq(frame.carry, 1, whole)]
     IN  Emits(IF whole > 0 THEN <<text>> ELSE <<>>,
               [frame EXCEPT !.at = "decode", !.generated = @ + 1])

(* The whole characters of the carry go out, and the token is counted. *)
EmitWhole ==
  /\ At("gguf", "emit")
  /\ LET whole == CompletePrefix(frame.carry)
         next  == [frame EXCEPT !.at = "decode", !.generated = @ + 1,
                                !.carry = SubSeq(@, whole + 1, Len(@))]
         text  == [type |-> "text", text |-> SubSeq(frame.carry, 1, whole)]
     IN  Emits(IF whole > 0 THEN <<text>> ELSE <<>>, next)

DecodeToken ==
  /\ At("gguf", "decode")
  /\ \/ Decoded(1, [frame EXCEPT !.at = "loop"])
     \/ Moves([frame EXCEPT !.at = "flush", !.reason = "decode_error"])

(* What can no longer be completed goes out as it is. *)
FlushCarry ==
  /\ At("gguf", "flush")
  /\ LET reached == frame.generated >= frame.budget /\ frame.reason = "stop"
         next == [frame EXCEPT !.at = "finish", !.carry = <<>>,
                               !.reason = IF reached THEN "length" ELSE @]
     IN  Emits(IF frame.carry = <<>> THEN <<>>
               ELSE <<[type |-> "text", text |-> frame.carry]>>, next)

FinishGguf == At("gguf", "finish") /\ Finishes(frame.reason)

GgufNext ==
  \/ LoadGguf \/ ServeGguf \/ RefuseGguf
  \/ IngestPrompt \/ EmbedInput \/ IngestAborts \/ IngestFails \/ AnswerVector
  \/ PollGguf \/ SampleEnd \/ SamplePiece \/ AcceptPiece \/ AcceptThrows
  \/ EmitWhole \/ DecodeToken \/ FlushCarry \/ FinishGguf
=============================================================================
