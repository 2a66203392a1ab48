------------------------------ MODULE MCBackends ------------------------------
(***************************************************************************)
(* Small instances of Backends.                                            *)
(***************************************************************************)
EXTENDS Backends

(* gguf *)
(* Nothing declared, more than an int keeps, and a small embedding model. *)
MCEntries == {[context |-> 0, embedding |-> FALSE], [context |-> 9, embedding |-> FALSE],
              [context |-> 2, embedding |-> TRUE]}
MCTrained  == {0, 4}
MCPrompts  == 0 .. 4
MCLimits   == {0, 6, 9}
A  == <<"ascii">>
L  == <<"lead2">>
N  == <<"next">>
MCPieces   == {A, L, N, <<"lead3", "next">>}
MCShapes   == {{<<A, L>>}, {<<A>>, <<A, A>>, <<A, A, A, A>>}}

(* whisper *)
Pcm(n, rate, channels) == [ok |-> TRUE, samples |-> n, rate |-> rate, channels |-> channels]

Fmt(declared, format, bits) ==
  [id |-> "fmt ", declared |-> declared, format |-> format, bits |-> bits,
   channels |-> 1, rate |-> 1000]
Data(declared) == [id |-> "data", declared |-> declared]

(* A file of a format chunk, a chunk nobody knows, and the samples. *)
File(fmt, odd, data, length) ==
  [riff |-> TRUE, length |-> length,
   chunks |-> (12 :> fmt) @@ (36 :> [id |-> "other", declared |-> odd]) @@ (46 :> data)]

Samples == {Pcm(n, rate, channels) : n \in {0, 3, 4}, rate \in {0, 500, 1000, 1500}, channels \in {1, 2}}

Files == {File(Fmt(16, f, b), odd, Data(d), 60) :
            f \in {1, 3, 6}, b \in {8, 16, 24, 32}, odd \in {1, 2, 40}, d \in {4, 6, 50}}
         \cup {File(Fmt(4, 1, 16), 1, Data(6), 60),
               [riff |-> FALSE, length |-> 60, chunks |-> <<>>]}

MCRecordings ==
  [source : {"samples"}, pcm : Samples, loud : {{}}]
  \cup [source : {"samples"}, pcm : {Pcm(9, 1000, 1)}, loud : SUBSET {0, 2, 5, 6}]
  \cup [source : {"file"}, file : Files, loud : {{0}}]
  \cup {[source |-> "none", loud |-> {}]}

MCWindowMs == {-1, 0, 2, 4}

(* mock *)
MCScripts == {<<>>, <<"token", "sync", "error", "token">>, <<"token", "pause", "token">>,
              <<"thinking", "unknown", "tool", "complete", "block">>}

(* g2p: letters a, b and ', phones 0 .. 4. *)
a  == 97
b  == 98
y  == 121
Quote == 39
Open  == 40
Bang  == 33
Curly == 8217
Ring  == 9312   \* a digit 1 in a circle
Coin  == 36
Word(n) == <<n>>

Norm ==
  [object |-> TRUE, negative |-> Word(301), point |-> Word(302), hundred |-> Word(303),
   joiner |-> Word(304), units |-> [k \in 1 .. 10 |-> Word(309 + k)],
   teens |-> [k \in 1 .. 10 |-> Word(319 + k)], tens |-> [k \in 1 .. 10 |-> <<329 + k, y>>],
   scales |-> <<<<>>, Word(305)>>, ordinals |-> (1 :> Word(306)) @@ (30 :> Word(307)),
   ordinalSuffix |-> <<116, 104>>,
   currency |-> {[sign |-> Coin, one |-> Word(308), many |-> Word(309)]}]

NumberWordChars == {n \in 301 .. 339 : n # 311}   \* the word for one is not accepted

Leaf(len, off)          == [kind |-> 1, len |-> len, off |-> off]
Ask(pos, chr, yes, no)  == [kind |-> 0, pos |-> pos, chr |-> chr, yes |-> yes, no |-> no]
Row(key, len, value)    == [key |-> key, length |-> len, value |-> value]
Section(tag, at)        == [tag |-> tag, offset |-> 160 + 10 * at, length |-> 10]
Tags == <<"META", "PHON", "LEXK", "LEXI", "LEXV", "LTS ", "SPEL", "NORM">>

SpellRow(cp, phones) == [cp |-> cp, length |-> Len(phones), phones |-> phones]
Spelling(cp) ==
  SpellRow(cp, CASE cp = a -> <<0>> [] cp = b -> <<1, 0>> [] cp \in {Quote, Open} -> <<>>
                 [] cp = Dot -> <<3>> [] cp = 32 -> <<4>> [] OTHER -> <<2>>)

Spelled == <<32, Bang, Quote, Open, Comma, Minus, Dot>> \o [k \in 1 .. 10 |-> 47 + k]
           \o <<a, b, y>> \o [k \in 1 .. 10 |-> 300 + k] \o [k \in 1 .. 28 |-> 311 + k]

GoodPack ==
  [size |-> 300, magic |-> TRUE, version |-> 1, reserved |-> 0,
   table |-> [k \in 1 .. 8 |-> Section(Tags[k], k)],
   meta |-> [schema |-> 1, id |-> TRUE, letters |-> <<a, b, Quote>>,
             accept |-> {a, b, y, Quote, Open, Dot, Comma, Minus, Bang, 32} \cup Digits
                        \cup NumberWordChars,
             silent |-> {Quote, Open}, phoneCount |-> 5,
             fold |-> {[key |-> <<65>>, value |-> <<a>>], [key |-> <<Curly>>, value |-> <<Quote>>],
                       [key |-> <<Ring>>, value |-> <<Zero + 1>>], [key |-> <<8230>>, value |-> <<Dot, Dot>>],
                       [key |-> <<8205>>, value |-> <<>>]},
             separators |-> {32}, punctuation |-> {Dot, Comma, Minus, Bang},
             sentenceEnd |-> {Dot, Bang}, numericInfix |-> {Dot, Comma}, numericPrefix |-> {Minus},
             morphology |-> <<[suffix |-> <<y>>, restore |-> <<<<a>>>>, undouble |-> TRUE,
                               variants |-> <<[always |-> FALSE, after |-> {<<10>>}, phones |-> <<11, 12>>],
                                              [always |-> TRUE, after |-> {}, phones |-> <<11>>]>>]>>],
   phones |-> <<<<10>>, <<11>>, <<11, 12>>, <<13>>, <<14>>>>,
   lexk |-> <<a, a, b, b, a>>,
   lexi |-> <<Row(0, 1, 0), Row(1, 2, 3), Row(3, 2, 7)>>, lexDeclared |-> 3,
   lexv |-> <<0, 1, 0,  0, 2, 1, 0,  1, 2, 0, 1, 2, 9, 0>>,
   lts |-> [window |-> 1, roots |-> <<0, 3, 2>>, declared |-> 4,
            nodes |-> <<Ask(2, 1, 1, 3), Leaf(1, 0), Leaf(0, 0), Leaf(2, 0)>>, out |-> <<0, 1>>],
   spel |-> [k \in DOMAIN Spelled |-> Spelling(Spelled[k])], spelDeclared |-> Len(Spelled),
   norm |-> Norm]

(* Packs with less in them, which load; a word of the second lexicon has   *)
(* no phones, and the last two say 2 as "1" and as "2".                    *)
Lean == <<[GoodPack EXCEPT !.table = Remove(@, Section("NORM", 8)), !.lexDeclared = 0],
         [GoodPack EXCEPT !.table = Remove(@, Section("LTS ", 6))],
         [GoodPack EXCEPT !.lexv[2] = 0, !.lexv[4] = 0, !.lexDeclared = 1],
         [GoodPack EXCEPT !.norm.units[3] = <<Zero + 1>>],
         [GoodPack EXCEPT !.norm.units[3] = <<Zero + 2>>]>>

(* Packs with one thing wrong, which do not. *)
Broken ==
  <<[GoodPack EXCEPT !.size = 12], [GoodPack EXCEPT !.version = 2], [GoodPack EXCEPT !.table = <<>>],
   [GoodPack EXCEPT !.table[7].length = 99], [GoodPack EXCEPT !.table[3].offset = 100],
   [GoodPack EXCEPT !.table[2].tag = "META"], [GoodPack EXCEPT !.table[3].tag = "NONE"],
   [GoodPack EXCEPT !.meta.schema = 2], [GoodPack EXCEPT !.meta.letters = <<a, a>>],
   [GoodPack EXCEPT !.meta.letters[1] = 99], [GoodPack EXCEPT !.meta.silent = {8}],
   [GoodPack EXCEPT !.meta.fold = {[key |-> <<a, b>>, value |-> <<a>>]}],
   [GoodPack EXCEPT !.meta.phoneCount = 4], [GoodPack EXCEPT !.phones[2] = <<>>],
   [GoodPack EXCEPT !.lexi = <<Row(3, 2, 7), Row(0, 1, 0), Row(1, 2, 3)>>],
   [GoodPack EXCEPT !.lexi[2] = Row(0, 1, 3)], [GoodPack EXCEPT !.lexi[3].length = 3],
   [GoodPack EXCEPT !.lexi[3].value = 13], [GoodPack EXCEPT !.lexDeclared = 4],
   [GoodPack EXCEPT !.lexv[3] = 5], [GoodPack EXCEPT !.lexv[10] = 7], [GoodPack EXCEPT !.lexv[14] = 2],
   [GoodPack EXCEPT !.lts.window = 0], [GoodPack EXCEPT !.lts.roots = <<0, 3>>],
   [GoodPack EXCEPT !.lts.roots[2] = 4], [GoodPack EXCEPT !.lts.nodes[1].yes = 0],
   [GoodPack EXCEPT !.lts.nodes[1].no = 4], [GoodPack EXCEPT !.lts.nodes[1].pos = 3],
   [GoodPack EXCEPT !.lts.nodes[2].off = 2], [GoodPack EXCEPT !.lts.out[2] = 5],
   [GoodPack EXCEPT !.spel[2].cp = 32], [GoodPack EXCEPT !.spel[1].phones = <<5>>],
   [GoodPack EXCEPT !.table[7].length = 3], [GoodPack EXCEPT !.spelDeclared = @ + 1],
   [GoodPack EXCEPT !.spel[46].length = 2], [GoodPack EXCEPT !.norm.object = FALSE],
   [GoodPack EXCEPT !.meta.accept = @ \cup {99}], [GoodPack EXCEPT !.spel[1] = SpellRow(32, <<>>)]>>

MCPacks == <<GoodPack>> \o Lean \o Broken

(* The number words of every pack that loads can be told apart. *)
ASSUME WordsOfInstance ==
  \A name \in Loadable :
    HasNorm(Packs[name]) => WordsDiffer(Packs[name].norm) /\ KeepsDigits(Packs[name])

D(n) == Zero + n
MCTexts ==
  {<<>>, <<32, Dot>>, <<a, 32, b, Dot>>, <<65, Dot, 32, b, a, Bang, Bang, a, Comma>>,
   <<b, b, y, 32, a, y>>, <<b, a, y, Minus, b, a>>, <<Quote, Quote>>, <<b, Curly, b>>, <<a, Open, b, b, 8230>>,
   <<b, Malformed, 32, Malformed>>, <<b, 8205, b, 77>>, <<99, Dot, b, b>>,
   <<D(1), Comma, D(2), D(3), D(4), Dot>>, <<a, Minus, D(0), Dot, D(5), Dot, D(1)>>,
   <<Coin, D(1), 32, Coin, D(2), Dot, D(5)>>, <<D(2), D(1), 115, 116, 32, D(3), D(0), 116, 104>>,
   <<D(1), D(0), D(0), 116, 104, Comma, D(7), a>>, <<D(0), D(0), D(7), 32, D(0)>>,
   <<D(9), D(0), D(0), D(0), 32, Ring, D(1), D(7)>>,
   <<D(1), D(0), D(0), D(0), D(0), D(0), D(0)>>, <<D(1), Dot>>,
   <<D(0), Comma, D(0), D(0), D(0), D(0), D(0), D(1), D(2)>>}
=============================================================================
