------------------------------- MODULE G2pPack -------------------------------
(***************************************************************************)
(* The reader of .dspg packs (engine/src/backends/g2p/pack.hpp): what it   *)
(* refuses to load, and the lookups that afterwards check nothing because  *)
(* the reader has.                                                         *)
(*                                                                         *)
(* A character is its code point, a phone its id.  A pack file is its      *)
(* header and section table as they are, and the content of each section   *)
(* as the rows it declares and the rows it holds.                          *)
(***************************************************************************)
EXTENDS Integers, Sequences, FiniteSets, SequencesExt

HeaderBytes == 16     \* the header, and a row of the section table
MaxSections == 64
MaxIds      == 255    \* a letter or phone id is a byte
MaxWindow   == 16

TagsOf(raw) == {raw.table[i].tag : i \in DOMAIN raw.table}
Has(raw, tag) == tag \in TagsOf(raw)

TableEnd(raw) == HeaderBytes + HeaderBytes * Len(raw.table)

(* The sections as the reader finds them: their words are unsigned, their  *)
(* strings are sequences.                                                  *)
Variants == [always : BOOLEAN, after : SUBSET Seq(Nat), phones : Seq(Nat)]
Rules    == [suffix : Seq(Nat), restore : Seq(Seq(Nat)), undouble : BOOLEAN,
             variants : Seq(Variants)]

Nodes    == [kind : {1}, len : Nat, off : Nat]
            \cup [kind : Nat \ {1}, pos : Nat, chr : Nat, yes : Nat, no : Nat]

NormFields(norm) ==
  /\ {norm.negative, norm.point, norm.hundred, norm.joiner, norm.ordinalSuffix} \subseteq Seq(Nat)
  /\ {norm.units, norm.teens, norm.tens, norm.scales} \subseteq Seq(Seq(Nat))
  /\ \A n \in DOMAIN norm.ordinals : norm.ordinals[n] \in Seq(Nat)
  /\ \A c \in norm.currency : {c.one, c.many} \subseteq Seq(Nat)

PackFields(raw) ==
  /\ raw.phones \in Seq(Seq(Nat))
  /\ raw.meta.letters \in Seq(Nat) /\ raw.meta.morphology \in Seq(Rules)
  /\ \A f \in raw.meta.fold : f.value \in Seq(Nat)
  /\ raw.lexk \in Seq(Nat) /\ raw.lexv \in Seq(Nat) /\ raw.lexDeclared \in Nat
  /\ raw.lexi \in Seq([key : Nat, length : Nat, value : Nat])
  /\ raw.lts.declared \in Nat /\ raw.lts.roots \in Seq(Nat) /\ raw.lts.out \in Seq(Nat)
  /\ raw.lts.nodes \in Seq(Nodes)
  /\ raw.spelDeclared \in Nat /\ raw.spel \in Seq([cp : Nat, length : Nat, phones : Seq(Nat)])
  /\ raw.norm.object => NormFields(raw.norm)

(* parse: the header and the extents of the sections. *)
HeaderOk(raw) ==
  /\ raw.size >= HeaderBytes /\ raw.magic /\ raw.version = 1 /\ raw.reserved = 0
  /\ Len(raw.table) \in 1 .. MaxSections /\ TableEnd(raw) <= raw.size
  /\ \A i \in DOMAIN raw.table : LET row == raw.table[i] IN
       /\ row.offset + row.length <= raw.size
       /\ row.length > 0 => row.offset >= TableEnd(raw)
       /\ \A j \in 1 .. i - 1 : raw.table[j].tag # row.tag

(* parseMeta *)
MetaOk(raw) ==
  LET meta == raw.meta IN
  /\ Has(raw, "META") /\ meta.schema = 1 /\ meta.id
  /\ Len(meta.letters) \in 1 .. MaxIds
  /\ IsInjective(meta.letters)
  /\ meta.accept # {}
  /\ ToSet(meta.letters) \subseteq meta.accept
  /\ meta.silent \subseteq meta.accept
  /\ \A f \in meta.fold : Len(f.key) = 1

(* parsePhones *)
PhonesOk(raw) ==
  /\ Has(raw, "PHON")
  /\ Len(raw.phones) \in 1 .. MaxIds /\ raw.meta.phoneCount = Len(raw.phones)
  /\ \A i \in DOMAIN raw.phones : raw.phones[i] # <<>>

PhoneIds(raw) == 0 .. Len(raw.phones) - 1

-----------------------------------------------------------------------------
(* The lexicon: rows of a key in LEXK and a value in LEXV.                 *)

Slice(s, offset, length) == SubSeq(s, offset + 1, offset + length)

KeyOf(raw, i) == Slice(raw.lexk, raw.lexi[i].key, raw.lexi[i].length)

(* memcmp over the common length, then the shorter first. *)
Below(a, b) ==
  \E n \in 0 .. Len(a) :
    /\ n <= Len(b) /\ Slice(a, 0, n) = Slice(b, 0, n)
    /\ \/ n = Len(a) /\ n < Len(b)
       \/ n < Len(a) /\ n < Len(b) /\ a[n + 1] < b[n + 1]

(* A sense of a value: a part of speech, a length, and so many phones. *)
SenseEnd(v, at) == at + 2 + v[at + 2]

SenseOk(raw, v, at) ==
  /\ at + 2 <= Len(v) /\ SenseEnd(v, at) <= Len(v)
  /\ ToSet(Slice(v, at + 2, v[at + 2])) \subseteq PhoneIds(raw)

(* Where a heteronym's sense begins, so many senses after the first. *)
SenseAt(v, n) ==
  LET at[k \in 0 .. n] == IF k = 0 THEN 2 ELSE SenseEnd(v, at[k - 1]) IN at[n]

(* validateValue: one plain sense, or the senses of a heteronym, of which  *)
(* the first must be the default.                                          *)
ValueOk(raw, v) ==
  CASE v[1] = 0 -> SenseOk(raw, v, 0)
    [] v[1] = 1 -> /\ v[2] > 0
                   /\ \A n \in 0 .. v[2] - 1 : SenseOk(raw, v, SenseAt(v, n))
                   /\ v[3] = 0
    [] OTHER    -> FALSE

(* The default sense, which validateValue has proved is the first. *)
ValueAt(raw, offset) ==
  LET v  == SubSeq(raw.lexv, offset + 1, Len(raw.lexv))
      at == IF v[1] = 0 THEN 0 ELSE 2
  IN  [phones |-> Slice(v, at + 2, v[at + 2]), posConditioned |-> v[1] # 0]

LexTags == {"LEXK", "LEXI", "LEXV"}
LexRows(raw) == IF LexTags \subseteq TagsOf(raw) THEN raw.lexDeclared ELSE 0

RowOk(raw, i) ==
  LET row == raw.lexi[i] IN
  /\ row.key + row.length <= Len(raw.lexk) /\ row.length > 0
  /\ i > 1 => Below(KeyOf(raw, i - 1), KeyOf(raw, i))
  /\ row.value + 2 <= Len(raw.lexv)
  /\ ValueOk(raw, SubSeq(raw.lexv, row.value + 1, Len(raw.lexv)))

(* parseLexicon: all three sections or none. *)
LexiconOk(raw) ==
  LET present == LexTags \cap TagsOf(raw) IN
  \/ present = {}
  \/ /\ present = LexTags
     /\ raw.lexDeclared <= Len(raw.lexi)
     /\ \A i \in 1 .. raw.lexDeclared : RowOk(raw, i)

(* lookup: the binary search, for the rows from range.lo up to range.hi.   *)
Middle(range) == range.lo + (range.hi - range.lo) \div 2

Halved(raw, word, range) ==
  LET key == KeyOf(raw, Middle(range) + 1) IN
  IF range.lo >= range.hi \/ key = word THEN range
  ELSE IF Below(key, word) THEN [range EXCEPT !.lo = Middle(range) + 1]
  ELSE [range EXCEPT !.hi = Middle(range)]

(* A probe that does not hit leaves fewer rows: after as many probes as    *)
(* there are rows, rows are left only where one has hit.                   *)
Lookup(raw, word) ==
  LET rows == LexRows(raw)
      left[n \in 0 .. rows] ==
        IF n = 0 THEN [lo |-> 0, hi |-> rows] ELSE Halved(raw, word, left[n - 1])
  IN  IF left[rows].lo < left[rows].hi THEN Middle(left[rows]) + 1 ELSE 0

-----------------------------------------------------------------------------
(* The letter-to-sound trees.                                              *)

HasLts(raw) == Has(raw, "LTS ") /\ raw.lts.declared > 0

IsLeaf(node) == node.kind = 1

LeafOk(raw, node) ==
  /\ node.off + node.len <= Len(raw.lts.out)
  /\ ToSet(Slice(raw.lts.out, node.off, node.len)) \subseteq PhoneIds(raw)

(* Mutant: a child need only exist. *)
AnyChildOk(raw, i) ==
  LET node == raw.lts.nodes[i + 1] IN
  /\ node.kind = 0
  /\ node.pos <= 2 * raw.lts.window /\ node.chr <= Len(raw.meta.letters)
  /\ {node.yes, node.no} \subseteq 0 .. raw.lts.declared - 1

(* A question asks about a letter in the window and leads further on. *)
QuestionOk(raw, i) ==
  LET node == raw.lts.nodes[i + 1] IN
  /\ node.kind = 0
  /\ node.pos <= 2 * raw.lts.window /\ node.chr <= Len(raw.meta.letters)
  /\ {node.yes, node.no} \subseteq i + 1 .. raw.lts.declared - 1

(* parseLts *)
LtsOk(raw) ==
  LET lts == raw.lts IN
  Has(raw, "LTS ") =>
    /\ lts.window \in 1 .. MaxWindow
    /\ Len(lts.roots) = Len(raw.meta.letters)
    /\ lts.declared <= Len(lts.nodes)
    /\ \A i \in DOMAIN lts.roots : lts.roots[i] < lts.declared
    /\ \A i \in 0 .. lts.declared - 1 :
         IF IsLeaf(lts.nodes[i + 1]) THEN LeafOk(raw, lts.nodes[i + 1]) ELSE QuestionOk(raw, i)

(* ltsLetter: a letter past either end of the word is the padding.         *)
LetterAt(raw, word, at) ==
  IF at \in 0 .. Len(word) - 1 THEN word[at + 1] ELSE Len(raw.meta.letters)

(* The node the walk is at after node i: a leaf ends it. *)
NodeAfter(raw, word, at, i) ==
  LET node == raw.lts.nodes[i + 1] IN
  IF i >= raw.lts.declared \/ IsLeaf(node) THEN i
  ELSE IF LetterAt(raw, word, at + node.pos - raw.lts.window) = node.chr THEN node.yes
  ELSE node.no

Lost == -1

(* The leaf the walk ends at.  The model's walk takes as many steps as     *)
(* there are nodes; the code has no cap.                                   *)
LeafReached(raw, word, at) ==
  LET lts == raw.lts
      walk[n \in 0 .. lts.declared] ==
        IF n = 0 THEN lts.roots[word[at + 1] + 1] ELSE NodeAfter(raw, word, at, walk[n - 1])
      end == walk[lts.declared]
  IN  IF end < lts.declared /\ IsLeaf(lts.nodes[end + 1]) THEN end ELSE Lost

(* The phones of one letter, which may be none. *)
LtsLetter(raw, word, at) ==
  LET leaf == raw.lts.nodes[LeafReached(raw, word, at) + 1] IN
  Slice(raw.lts.out, leaf.off, leaf.len)

-----------------------------------------------------------------------------
(* The speller, the floor, and what may be loaded.                         *)

SpellRows(raw) == {raw.spel[i] : i \in 1 .. raw.spelDeclared}

(* parseSpeller: its count, its rows and the phones of each are all there. *)
SpellerOk(raw) ==
  /\ \E row \in ToSet(raw.table) : row.tag = "SPEL" /\ row.length >= 4
  /\ raw.spelDeclared <= Len(raw.spel)
  /\ \A i, j \in 1 .. raw.spelDeclared : i < j => raw.spel[i].cp < raw.spel[j].cp
  /\ \A row \in SpellRows(raw) : /\ row.length = Len(row.phones)
                                 /\ ToSet(row.phones) \subseteq PhoneIds(raw)

(* spell *)
Spell(raw, cp) == {row.phones : row \in {r \in SpellRows(raw) : r.cp = cp}}

Spoken(raw, cp) ==
  IF Spell(raw, cp) = {} THEN <<>> ELSE CHOOSE phones \in Spell(raw, cp) : TRUE

(* parseNorm: the section may be missing. *)
HasNorm(raw) == Has(raw, "NORM")

NormOk(raw) == HasNorm(raw) => raw.norm.object

(* validateFloor: what is accepted can be said, or is declared silent. *)
FloorOk(raw) ==
  \A cp \in raw.meta.accept :
    /\ Spell(raw, cp) # {}
    /\ Spoken(raw, cp) = <<>> => cp \in raw.meta.silent

(* The stages of parse, in order; each reads what the earlier ones proved. *)
Loads(raw) ==
  HeaderOk(raw) /\ MetaOk(raw) /\ PhonesOk(raw) /\ LexiconOk(raw) /\ LtsOk(raw)
    /\ SpellerOk(raw) /\ NormOk(raw) /\ FloorOk(raw)

-----------------------------------------------------------------------------
(* The folding and accept surfaces.                                        *)

Folded(raw, cp) ==
  LET rows == {f \in raw.meta.fold : f.key = <<cp>>} IN
  IF rows = {} THEN <<cp>> ELSE (CHOOSE f \in rows : TRUE).value

(* foldText *)
FoldText(raw, s) == FlattenSeq([i \in DOMAIN s |-> Folded(raw, s[i])])

IsSilentSeparator(raw, cp) ==
  cp \in raw.meta.silent /\ cp \notin ToSet(raw.meta.letters)
=============================================================================
