------------------------------- MODULE G2pServe -------------------------------
(***************************************************************************)
(* The grapheme-to-phoneme backend (engine/src/backends/g2p): opening a    *)
(* pack, the phonemizer's ladder (phonemize.hpp) and serving a request     *)
(* with it (g2p_backend.cpp).                                              *)
(*                                                                         *)
(* A text is a sequence of code points, and Malformed for a byte that      *)
(* begins no character (0xFF).                                             *)
(***************************************************************************)
EXTENDS BackendSeam, G2pPack

CONSTANTS
  Packs,   \* the pack files an entry may name: names to files
  Texts,   \* texts a caller may send
  StackDepth   \* how many pronounces within one another a thread's stack holds

Malformed   == -1
Replacement == 65533
Space == 32  Comma == 44  Minus == 45  Dot == 46  Zero == 48  Small_y == 121
Digits == Zero .. Zero + 9
OrdinalTrio == <<<<115, 116>>, <<110, 100>>, <<114, 100>>>>   \* st, nd, rd

ASSUME G2pAssumption ==
  /\ \A name \in DOMAIN Packs : PackFields(Packs[name])
  /\ Texts \subseteq Seq(Nat \cup {Malformed})
  /\ StackDepth \in Nat \ {0}

(* decodeUtf8 *)
Cp(unit) == IF unit = Malformed THEN Replacement ELSE unit

-----------------------------------------------------------------------------
(* Cutting a text into gaps, words and sentences.                          *)

IsDigit(raw, unit) == LET folded == Folded(raw, Cp(unit)) IN
  Len(folded) = 1 /\ folded[1] \in Digits

DigitAt(raw, text, i) == i \in DOMAIN text /\ IsDigit(raw, text[i])

(* A boundary is one in every character it folds to. *)
IsBoundary(raw, unit) ==
  \A cp \in ToSet(Folded(raw, Cp(unit))) :
    cp \in raw.meta.separators \cup raw.meta.punctuation \/ IsSilentSeparator(raw, cp)

(* Phonemizer's constructor adds the currency signs to the prefixes. *)
NumericPrefix(raw) ==
  raw.meta.numericPrefix \cup IF HasNorm(raw) THEN {c.sign : c \in raw.norm.currency} ELSE {}

OpensNumber(raw, text, i) == Cp(text[i]) \in NumericPrefix(raw) /\ DigitAt(raw, text, i + 1)

GluesNumber(raw, text, i) ==
  /\ Cp(text[i]) \in raw.meta.numericInfix
  /\ DigitAt(raw, text, i - 1) /\ DigitAt(raw, text, i + 1)

Continues(raw, text, i) == ~IsBoundary(raw, text[i]) \/ GluesNumber(raw, text, i)
StartsWord(raw, text, i) == ~IsBoundary(raw, text[i]) \/ OpensNumber(raw, text, i)

NothingRead ==
  [gap |-> <<>>, gapPhones |-> <<>>, inWord |-> FALSE, tokens |-> <<>>,
   sentences |-> <<>>, sentenceText |-> <<>>, hasWords |-> FALSE]

InGap(raw, unit, acc) ==
  LET text == Append(acc.sentenceText, unit)
      ends == Cp(unit) \in raw.meta.sentenceEnd /\ acc.hasWords
  IN  [acc EXCEPT !.gap = Append(@, unit), !.inWord = FALSE,
                  !.gapPhones = @ \o Spoken(raw, Cp(unit)),
                  !.hasWords = @ /\ ~ends,
                  !.sentences = IF ends THEN Append(@, text) ELSE @,
                  !.sentenceText = IF ends THEN <<>> ELSE text]

OpensToken(unit, acc) ==
  LET token == [gap |-> acc.gap, gapPhones |-> acc.gapPhones, text |-> <<unit>>,
                sentence |-> Len(acc.sentences)]
  IN  [acc EXCEPT !.gap = <<>>, !.gapPhones = <<>>, !.inWord = TRUE, !.hasWords = TRUE,
                  !.tokens = Append(@, token), !.sentenceText = Append(@, unit)]

ExtendsToken(unit, acc) ==
  [acc EXCEPT !.tokens[Len(acc.tokens)].text = Append(@, unit),
              !.sentenceText = Append(@, unit)]

(* run, over the unit at position i and up to the end of the input. *)
Reads(raw, text, i, acc) ==
  IF acc.inWord /\ Continues(raw, text, i) THEN ExtendsToken(text[i], acc)
  ELSE IF StartsWord(raw, text, i) THEN OpensToken(text[i], acc)
  ELSE InGap(raw, text[i], acc)

Scan(raw, text) ==
  LET read[n \in 0 .. Len(text)] ==
        IF n = 0 THEN NothingRead ELSE Reads(raw, text, n, read[n - 1])
  IN  read[Len(text)]

-----------------------------------------------------------------------------
(* The ladder.  A rung is the set of its answers: one, or none.            *)

Answer(phones, via) == [phones |-> phones, via |-> via, words |-> <<>>]

(* The answer of the first rung that has one. *)
Climb(rungs) ==
  LET first == SelectInSeq(rungs, LAMBDA rung : rung # {}) IN
  CHOOSE a \in rungs[first] : TRUE

(* One after another, with a space between those that are heard. *)
Spaced(raw, parts) ==
  LET heard == {k \in DOMAIN parts : parts[k] # <<>>} IN
  FlattenSeq([k \in DOMAIN parts |->
                IF k \in heard /\ k # Min(heard) THEN Spoken(raw, Space) \o parts[k] ELSE parts[k]])

(* <<>> \o: TLC evaluates the parts once. *)
Joined(raw, parts) == Spaced(raw, <<>> \o parts)

Known(raw, word) ==
  LET row == Lookup(raw, word) IN
  IF row = 0 THEN {}
  ELSE LET value == ValueAt(raw, raw.lexi[row].value) IN
       {Answer(value.phones, IF value.posConditioned THEN "pos" ELSE "lexicon")}

(* phonesFromText: the longest phone first, the lower id among equals.     *)
Unsayable == -1

PhoneAt(raw, s, at) ==
  LET Length(id) == Len(raw.phones[id + 1])
      here == {id \in PhoneIds(raw) :
                 at + Length(id) <= Len(s) /\ Slice(s, at, Length(id)) = raw.phones[id + 1]}
  IN  {id \in here : \A o \in here :
         Length(o) < Length(id) \/ (Length(o) = Length(id) /\ id <= o)}

TakesPhone(raw, s, got) ==
  LET id == CHOOSE id \in PhoneAt(raw, s, got.at) : TRUE IN
  IF got.at >= Len(s) THEN got
  ELSE IF PhoneAt(raw, s, got.at) = {} THEN [at |-> Len(s), ids |-> Append(got.ids, Unsayable)]
  ELSE [at |-> got.at + Len(raw.phones[id + 1]), ids |-> Append(got.ids, id)]

PhonesFromText(raw, s) ==
  LET got[n \in 0 .. Len(s)] ==
        IF n = 0 THEN [at |-> 0, ids |-> <<>>] ELSE TakesPhone(raw, s, got[n - 1])
  IN  got[Len(s)].ids

(* chooseVariant: the first that fits the stem's last phone, if it can be  *)
(* said.                                                                   *)
Ending(raw, rule, phone) ==
  LET fits == SelectInSeq(rule.variants, LAMBDA v : v.always \/ raw.phones[phone + 1] \in v.after)
  IN  IF fits = 0 THEN <<Unsayable>> ELSE PhonesFromText(raw, rule.variants[fits].phones)

EndingOk(phones) == phones # <<>> /\ Unsayable \notin ToSet(phones)

(* The stems a rule proposes, in order. *)
Stems(rule, word) ==
  LET base == SubSeq(word, 1, Len(word) - Len(rule.suffix)) IN
  IF rule.suffix = <<>> \/ Len(word) <= Len(rule.suffix) \/ ~IsSuffix(rule.suffix, word)
  THEN <<>>
  ELSE <<base>> \o [k \in DOMAIN rule.restore |-> base \o rule.restore[k]]
       \o IF rule.undouble /\ Len(base) >= 2 /\ base[Len(base)] = base[Len(base) - 1]
          THEN <<Front(base)>> ELSE <<>>

(* deriveStem *)
Stemmed(raw, word) ==
  LET tries == FlattenSeq([r \in DOMAIN raw.meta.morphology |->
                 LET rule == raw.meta.morphology[r] IN
                 [k \in DOMAIN Stems(rule, word) |-> [rule |-> rule, stem |-> Stems(rule, word)[k]]]])
      Phones(try) == LET row == Lookup(raw, try.stem) IN
                     IF row = 0 THEN <<>> ELSE ValueAt(raw, raw.lexi[row].value).phones
      Derives(try) == Phones(try) # <<>> /\ EndingOk(Ending(raw, try.rule, Last(Phones(try))))
      first == SelectInSeq(tries, Derives)
  IN  IF first = 0 THEN {}
      ELSE {Answer(Phones(tries[first])
                   \o Ending(raw, tries[first].rule, Last(Phones(tries[first]))), "stem")}

LetterId(raw, cp) == CHOOSE id \in 0 .. Len(raw.meta.letters) - 1 : raw.meta.letters[id + 1] = cp

LettersOf(raw, word) == [k \in DOMAIN word |-> LetterId(raw, word[k])]

(* Mutant: a word of silent letters only is an answer. *)
GuessedSilent(raw, word) ==
  IF ~HasLts(raw) \/ word = <<>> \/ ~(ToSet(word) \subseteq ToSet(raw.meta.letters)) THEN {}
  ELSE {Answer(FlattenSeq([k \in DOMAIN word |-> LtsLetter(raw, LettersOf(raw, word), k - 1)]), "lts")}

(* applyLts *)
Guessed(raw, word) ==
  IF ~HasLts(raw) \/ word = <<>> \/ ~(ToSet(word) \subseteq ToSet(raw.meta.letters)) THEN {}
  ELSE LET ids    == LettersOf(raw, word)
           phones == FlattenSeq([k \in DOMAIN ids |-> LtsLetter(raw, ids, k - 1)])
       IN  IF phones = <<>> THEN {} ELSE {Answer(phones, "lts")}

(* spellOut *)
SpelledOut(raw, word) ==
  LET phones == Joined(raw, [k \in DOMAIN word |-> Spoken(raw, word[k])]) IN
  Answer(phones, IF phones = <<>> THEN "refused" ELSE "spelled")

Refusal == Answer(<<>>, "refused")

(* pronounce, for a word without a number in it. *)
Ladder(raw, word, policy) ==
  LET answer == Climb(<<Known(raw, word), Stemmed(raw, word),
                        IF policy = "refuse" THEN {Refusal} ELSE {},
                        IF policy \in {"lts", "defer"} THEN Guessed(raw, word) ELSE {},
                        {SpelledOut(raw, word)}>>)
  IN  [answer EXCEPT !.via = IF ToSet(word) \subseteq raw.meta.accept THEN @ ELSE "refused"]

-----------------------------------------------------------------------------
(* Numbers.                                                                *)

ValueOf(digits) ==
  LET value[n \in 0 .. Len(digits)] ==
        IF n = 0 THEN 0 ELSE 10 * value[n - 1] + (digits[n] - Zero)
  IN  value[Len(digits)]

(* atIndex: past the end of a list there is the empty word. *)
Nth(words, d) == IF d + 1 \in DOMAIN words THEN words[d + 1] ELSE <<>>

(* regularOrdinal: a final y becomes ie. *)
RegularOrdinal(norm, word) ==
  (IF word # <<>> /\ Last(word) = Small_y THEN Front(word) \o <<105, 101>> ELSE word) \o norm.ordinalSuffix

OrdinalWord(norm, n) ==
  IF n \in DOMAIN norm.ordinals THEN norm.ordinals[n]
  ELSE RegularOrdinal(norm, CASE n < 10 -> Nth(norm.units, n)
                              [] n \in 10 .. 19 -> Nth(norm.teens, n - 10)
                              [] OTHER -> Nth(norm.tens, n \div 10))

(* threeDigits, below a hundred. *)
TwoDigits(norm, n, ordinal) ==
  LET Small(k) == IF ordinal THEN <<OrdinalWord(norm, k)>>
                  ELSE <<IF k < 10 THEN Nth(norm.units, k) ELSE Nth(norm.teens, k - 10)>>
  IN  CASE n = 0      -> <<>>
        [] n \in 1 .. 19 -> Small(n)
        [] OTHER -> IF n % 10 = 0
                    THEN <<IF ordinal THEN OrdinalWord(norm, n) ELSE Nth(norm.tens, n \div 10)>>
                    ELSE <<Nth(norm.tens, n \div 10)>> \o Small(n % 10)

ThreeDigits(norm, n, ordinal) ==
  LET rest == n % 100 IN
  IF n < 100 THEN TwoDigits(norm, n, ordinal)
  ELSE IF rest = 0 /\ ordinal
       THEN <<Nth(norm.units, n \div 100), RegularOrdinal(norm, norm.hundred)>>
       ELSE <<Nth(norm.units, n \div 100), norm.hundred>>
            \o (IF rest > 0 /\ norm.joiner # <<>> THEN <<norm.joiner>> ELSE <<>>)
            \o TwoDigits(norm, rest, ordinal)

DigitByDigit(norm, digits) == [k \in DOMAIN digits |-> Nth(norm.units, digits[k] - Zero)]

(* Leading zeros say nothing, but one digit stays. *)
Trimmed(digits) ==
  LET nonzero == {k \in DOMAIN digits : digits[k] # Zero}
  IN  SubSeq(digits, IF nonzero = {} THEN Len(digits) ELSE Min(nonzero), Len(digits))

(* Mutant: leading zeros count towards the length. *)
LongWritten(norm, all) == Len(all) > 3 * Len(norm.scales)

(* Whether a number is longer than the scales reach. *)
TooLong(norm, all) == Len(Trimmed(all)) > 3 * Len(norm.scales)

(* The digits of the group that has so many groups after it. *)
Chunk(digits, after) ==
  LET end == Len(digits) - 3 * after IN
  SubSeq(digits, IF end >= 3 THEN end - 2 ELSE 1, end)

(* cardinal: groups of three, each with its scale; past the last scale,    *)
(* digit by digit.                                                         *)
Cardinal(norm, all, ordinal) ==
  LET digits == Trimmed(all)
      groups == (Len(digits) + 2) \div 3
      Group(g) ==
        LET v     == ValueOf(Chunk(digits, groups - g))
            scale == Nth(norm.scales, groups - g)
        IN  IF v = 0 THEN <<>>
            ELSE ThreeDigits(norm, v, ordinal /\ g = groups)
                 \o (IF scale = <<>> THEN <<>> ELSE <<scale>>)
      words == FlattenSeq([g \in 1 .. groups |-> Group(g)])
  IN  IF TooLong(norm, all) THEN DigitByDigit(norm, digits)
      ELSE IF words # <<>> THEN words
      ELSE <<IF ordinal THEN OrdinalWord(norm, 0) ELSE Nth(norm.units, 0)>>

Without(s, c) == FlattenSeq([k \in DOMAIN s |-> IF s[k] = c THEN <<>> ELSE <<s[k]>>])

(* The part of s before position i, and after it; all of it, and nothing,  *)
(* when there is no such position.                                         *)
Before(s, i) == IF i = 0 THEN s ELSE SubSeq(s, 1, i - 1)
Behind(s, i) == IF i = 0 THEN <<>> ELSE SubSeq(s, i + 1, Len(s))

(* The words of a number that is written whole, suffix, fraction, under a  *)
(* currency sign or none; none when it is not a number after all.          *)
Worded(norm, signs, whole, suffix, fraction) ==
  LET ordinal == suffix # <<>> /\ fraction = <<>>
                 /\ suffix \in {norm.ordinalSuffix} \cup ToSet(OrdinalTrio)
      Unit(c) == IF whole = <<Zero + 1>> /\ fraction = <<>> THEN c.one ELSE c.many
  IN  IF whole = <<>> \/ ~(ToSet(fraction) \subseteq Digits) \/ (suffix # <<>> /\ ~ordinal) THEN {}
      ELSE {Cardinal(norm, whole, ordinal)
            \o (IF fraction = <<>> THEN <<>> ELSE <<norm.point>> \o DigitByDigit(norm, fraction))
            \o (IF signs = {} THEN <<>> ELSE <<Unit(CHOOSE c \in signs : TRUE)>>)}

(* Where the digits of an integral part end and its suffix starts. *)
Split(norm, signs, integral, fraction) ==
  LET stop   == SelectInSeq(integral, LAMBDA c : c \notin Digits)
      suffix == IF stop = 0 THEN <<>> ELSE SubSeq(integral, stop, Len(integral))
  IN  Worded(norm, signs, Before(integral, stop), suffix, fraction)

(* A number without its signs and grouping marks. *)
Unsigned(norm, signs, cleaned) ==
  LET dot == SelectInSeq(cleaned, LAMBDA c : c = Dot) IN
  Split(norm, signs, Before(cleaned, dot), Behind(cleaned, dot))

(* numberWords: the sign, the number, its fraction, its currency. *)
NumberWords(norm, word) ==
  LET signs    == {c \in norm.currency : c.sign = word[1]}
      body     == IF signs = {} THEN word ELSE Tail(word)
      negative == body # <<>> /\ body[1] = Minus
      cleaned  == Without(IF negative THEN Tail(body) ELSE body, Comma)
  IN  {(IF negative THEN <<norm.negative>> ELSE <<>>) \o words :
         words \in Unsigned(norm, signs, cleaned)}

(* A call that finds no more stack. *)
Overflow == Answer(<<>>, "overflow")

(* expandNumber: what `say` makes of its words, one after another. *)
Expanded(raw, word, say) ==
  IF ~HasNorm(raw) \/ ToSet(word) \cap Digits = {} THEN {}
  ELSE LET Said(words) == <<>> \o [k \in DOMAIN words |-> say[FoldText(raw, words[k])]]
           Together(said, words) ==
             IF Overflow \in ToSet(said) THEN Overflow
             ELSE [Answer(Joined(raw, [k \in DOMAIN said |-> said[k].phones]), "number")
                     EXCEPT !.words = words]
           answers == {Together(Said(words), words) : words \in NumberWords(raw.norm, word)}
       IN  {a \in answers : a = Overflow \/ a.phones # <<>>}

(* pronounce, of the words of a number, of the words of a number in those, *)
(* and so on as deep as the stack is.                                      *)
Nested(raw, policy) ==
  LET say[n \in 0 .. StackDepth] ==
        [word \in Seq(Nat) |->
           IF n = 0 THEN Overflow
           ELSE Climb(<<Expanded(raw, word, say[n - 1]), {Ladder(raw, word, policy)}>>)]
  IN  say[StackDepth]

(* pronounce, of a folded word and of one as it is written. *)
PronounceFolded(raw, word, policy) ==
  Climb(<<Expanded(raw, word, Nested(raw, IF policy = "refuse" THEN "spell" ELSE policy)),
          {Ladder(raw, word, policy)}>>)

Pronounce(raw, original, policy) ==
  PronounceFolded(raw, FoldText(raw, [k \in DOMAIN original |-> Cp(original[k])]), policy)

-----------------------------------------------------------------------------
(* run.                                                                    *)

IsGuess(token) == token.via \in {"lts", "spelled", "refused"}

(* The sentences a guess was made in, to be handed to another voice. *)
DeferredOf(tokens, policy) ==
  {tokens[k].sentence : k \in {k \in DOMAIN tokens : policy = "defer" /\ IsGuess(tokens[k])}}

(* What run returns, from what it has read and pronounced. *)
Outcome(read, tokens, policy) ==
  [tokens |-> tokens,
   sentences |-> IF read.hasWords \/ read.sentenceText # <<>>
                 THEN Append(read.sentences, read.sentenceText) ELSE read.sentences,
   trailing |-> read.gap, trailingPhones |-> read.gapPhones,
   deferred |-> DeferredOf(tokens, policy)]

Pronounced(token, answer) ==
  [gap |-> token.gap, gapPhones |-> token.gapPhones, text |-> token.text,
   sentence |-> token.sentence,
   phones |-> answer.phones, via |-> answer.via, words |-> answer.words]

Spoke(raw, read, policy) ==
  Outcome(read,
          [k \in DOMAIN read.tokens |->
             Pronounced(read.tokens[k], Pronounce(raw, read.tokens[k].text, policy))], policy)

Run(raw, text, policy) == Spoke(raw, Scan(raw, text), policy)

(* A stack that has run out is the process's end. *)
Overflows(result) == \E k \in DOMAIN result.tokens : result.tokens[k].via = "overflow"

NoUtterance ==
  [tokens |-> <<>>, sentences |-> <<>>, trailing |-> <<>>, trailingPhones |-> <<>>, deferred |-> {}]

TextOf(tokens) == FlattenSeq([k \in DOMAIN tokens |-> tokens[k].gap \o tokens[k].text])

(* checkTiling *)
Tiles(result, text) == TextOf(result.tokens) \o result.trailing = text

PhonesOf(tokens) == FlattenSeq([k \in DOMAIN tokens |-> tokens[k].gapPhones \o tokens[k].phones])

-----------------------------------------------------------------------------
(* Opening a pack, and serve.                                              *)

Loadable == {name \in DOMAIN Packs : Loads(Packs[name])}

LoadPack == Empty /\ \E name \in Loadable : Opened([engine |-> "g2p", pack |-> name])

Policies == {"lts", "spell", "refuse", "defer"}

(* run reads only the pack and the request. *)
Utterance ==
  [name \in Loadable |-> [text \in Texts |-> [policy \in Policies |->
     Run(Packs[name], text, policy)]]]

G2pRequest == [kind : {"phonemize"}, text : Texts, fallback : Policies \cup {"none", "drop"}]
              \cup [kind : {"generate"}, text : {<<>>}, fallback : {"none"}]

(* An omitted fallback is lts. *)
PolicyOf(r) == IF r.fallback = "none" THEN "lts" ELSE r.fallback

(* The result of run is there from the start, and used once the checks     *)
(* before it have passed.                                                  *)
ServeG2p ==
  /\ Waiting("g2p") /\ UNCHANGED model
  /\ \E r \in G2pRequest :
       Begin("g2p", r, [at |-> "checks", next |-> 0, taken |-> 0,
                        result |-> IF r.kind = "phonemize" /\ PolicyOf(r) \in Policies
                                   THEN Utterance[model.pack][r.text][PolicyOf(r)]
                                   ELSE NoUtterance])

G2pRefusal ==
  IF request.kind # "phonemize" THEN "unsupported_kind"
  ELSE IF PolicyOf(request) \notin Policies THEN "invalid_request"
  ELSE IF ~Tiles(frame.result, request.text) THEN "internal_error"
  ELSE "none"

StackRunsOut == At("g2p", "checks") /\ Overflows(frame.result) /\ Dies

CheckG2p ==
  /\ At("g2p", "checks") /\ ~Overflows(frame.result)
  /\ IF G2pRefusal = "none" THEN Moves([frame EXCEPT !.at = "sentence"]) ELSE Fails(G2pRefusal)

PhonemeBlock(s, text, tokens, phones, deferred) ==
  [type |-> "phonemes", sentence |-> s, text |-> text, tokens |-> tokens,
   phones |-> phones, deferred |-> deferred]

(* The tokens not taken yet, and how many of them open sentence s. *)
Untaken == LET tokens == frame.result.tokens IN SubSeq(tokens, frame.taken + 1, Len(tokens))

OpeningOf(s) ==
  Max({n \in 0 .. Len(Untaken) : \A k \in 1 .. n : Untaken[k].sentence = s})

(* The cancel is polled before each sentence, and its block sent. *)
PollSentence ==
  /\ At("g2p", "sentence") /\ frame.next < Len(frame.result.sentences)
  /\ ~Cancelled /\ Moves([frame EXCEPT !.at = "block"])

SentenceBlock ==
  /\ At("g2p", "block")
  /\ LET n      == OpeningOf(frame.next)
         tokens == SubSeq(Untaken, 1, n)
     IN  Emits(<<PhonemeBlock(frame.next, frame.result.sentences[frame.next + 1], tokens,
                              PhonesOf(tokens), frame.next \in frame.result.deferred)>>,
               [frame EXCEPT !.at = "sentence", !.next = @ + 1, !.taken = @ + n])

StopsSpeaking ==
  /\ At("g2p", "sentence") /\ frame.next < Len(frame.result.sentences)
  /\ Cancelled /\ ReturnsSilently

(* Mutant: what follows the last word is not said. *)
SaysOnlyWords ==
  /\ At("g2p", "sentence") /\ frame.next = Len(frame.result.sentences)
  /\ Emits(IF Untaken = <<>> THEN <<>>
           ELSE <<PhonemeBlock(frame.next, TextOf(Untaken), Untaken, PhonesOf(Untaken), FALSE)>>,
           [frame EXCEPT !.at = "finish"])

(* Tokens no sentence took, and the text after the last word, have blocks  *)
(* of their own.                                                           *)
ClosingBlocks ==
  /\ At("g2p", "sentence") /\ frame.next = Len(frame.result.sentences)
  /\ LET result == frame.result
         left == PhonemeBlock(frame.next, TextOf(Untaken), Untaken, PhonesOf(Untaken), FALSE)
         rest == PhonemeBlock(frame.next, result.trailing, <<>>, result.trailingPhones, FALSE)
     IN  Emits((IF Untaken = <<>> THEN <<>> ELSE <<left>>)
               \o (IF result.trailing = <<>> THEN <<>> ELSE <<rest>>),
               [frame EXCEPT !.at = "finish"])

FinishG2p == At("g2p", "finish") /\ Finishes("stop")

G2pNext ==
  \/ LoadPack \/ ServeG2p \/ StackRunsOut \/ CheckG2p \/ PollSentence \/ SentenceBlock
  \/ StopsSpeaking \/ ClosingBlocks \/ FinishG2p
=============================================================================
