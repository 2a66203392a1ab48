----------------------------- MODULE G2p_proofs -----------------------------
(* Theorems about the g2p backend, for every pack its reader accepts and   *)
(* every text.                                                             *)
EXTENDS Backends_proofs

-----------------------------------------------------------------------------
(* Loops.                                                                  *)

(* A loop that stays in S: what it holds after each of n rounds. *)
StaysIn(S, N, step) == \A n \in 1 .. N : \A x \in S : step[n][x] \in S

RunOf(g, S, N, start, step) ==
  g \in [0 .. N -> S] /\ g[0] = start /\ \A n \in 1 .. N : g[n] = step[n][g[n - 1]]

LEMMA LoopRuns ==
  ASSUME NEW S, NEW start \in S, NEW N \in Nat, NEW step, StaysIn(S, N, step)
  PROVE  \E g : RunOf(g, S, N, start, step)
<1> DEFINE Good == {k \in Nat : k <= N => \E g : RunOf(g, S, k, start, step)}
<1>1. 0 \in Good
  <2> DEFINE g == [n \in 0 .. 0 |-> start]
  <2>1. RunOf(g, S, 0, start, step)
    BY DEF RunOf
  <2> QED
    BY <2>1
<1>2. ASSUME NEW k \in Nat, k \in Good
      PROVE  k + 1 \in Good
  <2> SUFFICES ASSUME k + 1 <= N PROVE \E g : RunOf(g, S, k + 1, start, step)
    OBVIOUS
  <2>1. PICK g : RunOf(g, S, k, start, step)
    BY <1>2
  <2>2. g \in [0 .. k -> S] /\ g[0] = start /\ \A n \in 1 .. k : g[n] = step[n][g[n - 1]]
    BY <2>1 DEF RunOf
  <2> DEFINE h == [n \in 0 .. k + 1 |-> IF n = k + 1 THEN step[k + 1][g[k]] ELSE g[n]]
  <2>3. h \in [0 .. k + 1 -> S]
    <3>1. step[k + 1][g[k]] \in S
      BY <2>2 DEF StaysIn
    <3> QED
      BY <2>2, <3>1
  <2>4. h[0] = start /\ \A n \in 1 .. k : h[n] = g[n] /\ h[n - 1] = g[n - 1]
    BY <2>2
  <2>5. h[k + 1] = step[k + 1][g[k]] /\ h[k] = g[k]
    OBVIOUS
  <2> HIDE DEF h
  <2>6. \A n \in 1 .. k + 1 : h[n] = step[n][h[n - 1]]
    <3>1. \A n \in 1 .. k : h[n] = step[n][h[n - 1]]
      BY <2>2, <2>4
    <3>2. h[k + 1] = step[k + 1][h[(k + 1) - 1]]
      BY <2>5
    <3>3. \A n \in 1 .. k + 1 : n \in 1 .. k \/ n = k + 1
      OBVIOUS
    <3> QED
      BY <3>1, <3>2, <3>3
  <2>7. RunOf(h, S, k + 1, start, step)
    BY <2>3, <2>4, <2>6 DEF RunOf
  <2> QED
    BY <2>7
<1>3. N \in Good
  <2> HIDE DEF Good
  <2> QED
    BY <1>1, <1>2, NumbersFollow
<1> QED
  BY <1>3

LEMMA LoopStays ==
  ASSUME NEW S, NEW N \in Nat, NEW c, c[0] \in S, \A n \in 1 .. N : c[n - 1] \in S => c[n] \in S
  PROVE  \A n \in 0 .. N : c[n] \in S
<1> DEFINE Good == {n \in Nat : n <= N => c[n] \in S}
<1>1. 0 \in Good
  OBVIOUS
<1>2. ASSUME NEW n \in Nat, n \in Good
      PROVE  n + 1 \in Good
  <2> SUFFICES ASSUME n + 1 <= N PROVE c[n + 1] \in S
    OBVIOUS
  <2>1. n + 1 \in 1 .. N /\ (n + 1) - 1 = n /\ c[n] \in S
    BY <1>2
  <2> QED
    BY <2>1
<1>3. Nat \subseteq Good
  <2> HIDE DEF Good
  <2> QED
    BY <1>1, <1>2, NumbersFollow
<1> QED
  BY <1>3

(* A member of a sequence. *)
LEMMA MemberOf ==
  ASSUME NEW S, NEW s \in Seq(S), NEW k \in 1 .. Len(s)
  PROVE  s[k] \in S /\ k \in DOMAIN s
OBVIOUS

-----------------------------------------------------------------------------
(* The order of keys.                                                      *)

(* a is below b because of what comes after the first n positions. *)
SmallerAfter(a, la, b, lb, n) ==
  /\ n <= la /\ n < lb /\ \A k \in 1 .. n : a[k] = b[k]
  /\ n < la => a[n + 1] < b[n + 1]

LEMMA BelowIs ==
  ASSUME NEW a \in Seq(Nat), NEW b \in Seq(Nat)
  PROVE  Below(a, b) <=> \E n \in Nat : SmallerAfter(a, Len(a), b, Len(b), n)
<1>1. \A n \in 0 .. Len(a) :
        n <= Len(b) => (Slice(a, 0, n) = Slice(b, 0, n) <=> \A k \in 1 .. n : a[k] = b[k])
  <2> SUFFICES ASSUME NEW n \in 0 .. Len(a), n <= Len(b)
               PROVE  Slice(a, 0, n) = Slice(b, 0, n) <=> \A k \in 1 .. n : a[k] = b[k]
    OBVIOUS
  <2> DEFINE p == SubSeq(a, 1, n)
             q == SubSeq(b, 1, n)
  <2>1. p \in Seq(Nat) /\ Len(p) = n /\ \A k \in 1 .. n : p[k] = a[k]
    BY SMTT(20)
  <2>2. q \in Seq(Nat) /\ Len(q) = n /\ \A k \in 1 .. n : q[k] = b[k]
    <3>1. n \in 0 .. Len(b)
      OBVIOUS
    <3> QED
      BY <3>1
  <2>3. 0 + 1 = 1 /\ 0 + n = n
    OBVIOUS
  <2>4. Slice(a, 0, n) = p /\ Slice(b, 0, n) = q
    BY <2>3, Zenon DEF Slice
  <2> HIDE DEF p, q
  <2>5. (\A k \in 1 .. n : a[k] = b[k]) => p = q
    BY <2>1, <2>2, SameSequence DEF IsSequence
  <2>6. p = q => \A k \in 1 .. n : a[k] = b[k]
    BY <2>1, <2>2
  <2> QED
    BY <2>4, <2>5, <2>6
<1>2. ASSUME NEW n \in 0 .. Len(a), n <= Len(b), Slice(a, 0, n) = Slice(b, 0, n),
             \/ n = Len(a) /\ n < Len(b)
             \/ n < Len(a) /\ n < Len(b) /\ a[n + 1] < b[n + 1]
      PROVE  SmallerAfter(a, Len(a), b, Len(b), n)
  BY <1>1, <1>2 DEF SmallerAfter
<1>3. ASSUME NEW n \in Nat, SmallerAfter(a, Len(a), b, Len(b), n)
      PROVE  /\ n \in 0 .. Len(a) /\ n <= Len(b) /\ Slice(a, 0, n) = Slice(b, 0, n)
             /\ \/ n = Len(a) /\ n < Len(b)
                \/ n < Len(a) /\ n < Len(b) /\ a[n + 1] < b[n + 1]
  BY <1>1, <1>3 DEF SmallerAfter
<1>4. 0 .. Len(a) \subseteq Nat
  OBVIOUS
<1> QED
  BY <1>2, <1>3, <1>4, Zenon DEF Below

LEMMA SmallerNotBoth ==
  ASSUME NEW a, NEW b, NEW la \in Nat, NEW lb \in Nat,
         \A k \in 1 .. la : a[k] \in Nat, \A k \in 1 .. lb : b[k] \in Nat,
         NEW n \in Nat, NEW m \in Nat,
         SmallerAfter(a, la, b, lb, n), SmallerAfter(b, lb, a, la, m)
  PROVE  FALSE
<1>1. CASE n < m
  <2>1. n + 1 \in 1 .. m /\ n + 1 \in 1 .. la /\ a[n + 1] = b[n + 1] /\ a[n + 1] < b[n + 1]
    BY <1>1 DEF SmallerAfter
  <2> QED
    BY <2>1
<1>2. CASE m < n
  <2>1. m + 1 \in 1 .. n /\ m + 1 \in 1 .. lb /\ a[m + 1] = b[m + 1] /\ b[m + 1] < a[m + 1]
    BY <1>2 DEF SmallerAfter
  <2> QED
    BY <2>1
<1>3. CASE m = n
  <2>1. n + 1 \in 1 .. la /\ n + 1 \in 1 .. lb /\ a[n + 1] < b[n + 1] /\ b[n + 1] < a[n + 1]
    BY <1>3 DEF SmallerAfter
  <2> QED
    BY <2>1
<1> QED
  BY <1>1, <1>2, <1>3

LEMMA SmallerThrough ==
  ASSUME NEW a, NEW b, NEW c, NEW la \in Nat, NEW lb \in Nat, NEW lc \in Nat,
         \A k \in 1 .. la : a[k] \in Nat, \A k \in 1 .. lb : b[k] \in Nat,
         \A k \in 1 .. lc : c[k] \in Nat,
         NEW n \in Nat, NEW m \in Nat,
         SmallerAfter(a, la, b, lb, n), SmallerAfter(b, lb, c, lc, m)
  PROVE  SmallerAfter(a, la, c, lc, IF n <= m THEN n ELSE m)
<1>1. CASE n < m
  <2>1. n + 1 \in 1 .. m /\ b[n + 1] = c[n + 1] /\ \A k \in 1 .. n : k \in 1 .. m
    BY <1>1 DEF SmallerAfter
  <2> QED
    BY <1>1, <2>1 DEF SmallerAfter
<1>2. CASE m < n
  <2>1. /\ m + 1 \in 1 .. n /\ a[m + 1] = b[m + 1] /\ m < lb
        /\ \A k \in 1 .. m : k \in 1 .. n
    BY <1>2 DEF SmallerAfter
  <2> QED
    BY <1>2, <2>1 DEF SmallerAfter
<1>3. CASE m = n
  <2>1. n < la => /\ n + 1 \in 1 .. la /\ n + 1 \in 1 .. lb /\ n + 1 \in 1 .. lc
                  /\ a[n + 1] < b[n + 1] /\ b[n + 1] < c[n + 1]
    BY <1>3 DEF SmallerAfter
  <2> QED
    BY <1>3, <2>1 DEF SmallerAfter
<1> QED
  BY <1>1, <1>2, <1>3

LEMMA BelowOrders ==
  ASSUME NEW a \in Seq(Nat), NEW b \in Seq(Nat)
  PROVE  /\ ~Below(a, a) /\ ~(Below(a, b) /\ Below(b, a))
         /\ \A c \in Seq(Nat) : Below(a, b) /\ Below(b, c) => Below(a, c)
<1>1. \A s \in Seq(Nat) : Len(s) \in Nat /\ \A k \in 1 .. Len(s) : s[k] \in Nat
  OBVIOUS
<1>2. \A s, t \in Seq(Nat) : ~(Below(s, t) /\ Below(t, s))
  BY <1>1, BelowIs, SmallerNotBoth
<1>3. ASSUME NEW c \in Seq(Nat), Below(a, b), Below(b, c)
      PROVE  Below(a, c)
  <2>1. PICK n \in Nat : SmallerAfter(a, Len(a), b, Len(b), n)
    BY <1>3, BelowIs
  <2>2. PICK m \in Nat : SmallerAfter(b, Len(b), c, Len(c), m)
    BY <1>3, BelowIs
  <2> DEFINE l == IF n <= m THEN n ELSE m
  <2>3. SmallerAfter(a, Len(a), c, Len(c), l)
    BY <1>1, <2>1, <2>2, SmallerThrough
  <2>4. l \in Nat
    OBVIOUS
  <2> HIDE DEF l
  <2> QED
    BY <2>3, <2>4, BelowIs
<1> QED
  BY <1>2, <1>3

-----------------------------------------------------------------------------
(* The lexicon.                                                            *)

(* The rows of a lexicon that loads: their keys, and where they begin. *)
LEMMA RowsAre ==
  ASSUME NEW raw, PackFields(raw), LexiconOk(raw), NEW i \in 1 .. LexRows(raw)
  PROVE  /\ KeyOf(raw, i) \in Seq(Nat) /\ RowOk(raw, i)
         /\ i \in 1 .. Len(raw.lexi) /\ raw.lexi[i] \in [key : Nat, length : Nat, value : Nat]
<1>1. LexRows(raw) = raw.lexDeclared /\ raw.lexDeclared <= Len(raw.lexi) /\ RowOk(raw, i)
  <2>1. LexTags \subseteq TagsOf(raw)
    BY DEF LexRows
  <2>2. LexTags \cap TagsOf(raw) # {}
    BY <2>1 DEF LexTags
  <2> QED
    BY <2>1, <2>2 DEF LexiconOk, LexRows
<1>2. i \in 1 .. Len(raw.lexi) /\ raw.lexi[i] \in [key : Nat, length : Nat, value : Nat]
  <2> DEFINE S == [key : Nat, length : Nat, value : Nat]
             lexi == raw.lexi
  <2>1. lexi \in Seq(S) /\ raw.lexDeclared \in Nat
    BY DEF PackFields
  <2> HIDE DEF S
  <2>2. Len(lexi) \in Nat /\ \A k \in 1 .. Len(lexi) : lexi[k] \in S
    BY <2>1
  <2> HIDE DEF lexi
  <2>3. i \in 1 .. Len(lexi)
    BY <1>1, <2>1, <2>2 DEF lexi
  <2> QED
    BY <2>2, <2>3 DEF lexi, S
<1>3. KeyOf(raw, i) \in Seq(Nat)
  <2> DEFINE k == raw.lexi[i].key
             l == raw.lexi[i].length
  <2>1. k \in Nat /\ l \in Nat /\ k + l <= Len(raw.lexk) /\ raw.lexk \in Seq(Nat)
    BY <1>1, <1>2 DEF RowOk, PackFields
  <2> HIDE DEF k, l
  <2>2. SubSeq(raw.lexk, k + 1, k + l) \in Seq(Nat)
    BY <2>1
  <2> QED
    BY <2>2 DEF KeyOf, Slice, k, l
<1> QED
  BY <1>1, <1>2, <1>3

(* Each key is below the next, so below every later one. *)
LEMMA KeysAscend ==
  ASSUME NEW raw, PackFields(raw), LexiconOk(raw),
         NEW i \in 1 .. LexRows(raw), NEW j \in 1 .. LexRows(raw), i < j
  PROVE  Below(KeyOf(raw, i), KeyOf(raw, j))
<1> DEFINE Good == {d \in Nat : i + d + 1 \in 1 .. LexRows(raw)
                                  => Below(KeyOf(raw, i), KeyOf(raw, i + d + 1))}
<1>0. LexRows(raw) \in Nat
  BY DEF LexRows, PackFields
<1>1. 0 \in Good
  <2> SUFFICES ASSUME i + 1 \in 1 .. LexRows(raw)
               PROVE  Below(KeyOf(raw, i), KeyOf(raw, i + 1))
    OBVIOUS
  <2>1. RowOk(raw, i + 1) /\ i + 1 > 1 /\ (i + 1) - 1 = i
    BY RowsAre
  <2> QED
    BY <2>1 DEF RowOk
<1>2. ASSUME NEW d \in Nat, d \in Good
      PROVE  d + 1 \in Good
  <2> DEFINE m == i + d + 1
  <2> SUFFICES ASSUME m + 1 \in 1 .. LexRows(raw)
               PROVE  Below(KeyOf(raw, i), KeyOf(raw, m + 1))
    OBVIOUS
  <2>1. m \in 1 .. LexRows(raw) /\ m + 1 > 1 /\ (m + 1) - 1 = m
    BY <1>0
  <2>2. Below(KeyOf(raw, i), KeyOf(raw, m))
    BY <1>2, <2>1
  <2> HIDE DEF m
  <2>3. Below(KeyOf(raw, m), KeyOf(raw, m + 1))
    BY <2>1, RowsAre DEF RowOk
  <2> QED
    BY <2>1, <2>2, <2>3, RowsAre, BelowOrders
<1>3. j - i - 1 \in Good
  <2> HIDE DEF Good
  <2> QED
    BY <1>1, <1>2, NumbersFollow
<1>4. i + (j - i - 1) + 1 = j
  OBVIOUS
<1> QED
  BY <1>3, <1>4

(* The rows a search has left, and where it looks next. *)
Ranges(raw) == [lo : 0 .. LexRows(raw), hi : 0 .. LexRows(raw)]

LEMMA HalvedStays ==
  ASSUME NEW raw, LexRows(raw) \in Nat, NEW word, NEW range \in Ranges(raw)
  PROVE  /\ Halved(raw, word, range) \in Ranges(raw)
         /\ range.lo < range.hi => Middle(range) \in range.lo .. range.hi - 1
<1>1. /\ range.lo \in 0 .. LexRows(raw) /\ range.hi \in 0 .. LexRows(raw)
      /\ range = [lo |-> range.lo, hi |-> range.hi]
  BY DEF Ranges
<1>2. range.lo < range.hi => Middle(range) \in range.lo .. range.hi - 1
  <2> DEFINE d == range.hi - range.lo
  <2>1. range.lo < range.hi => d \in Nat /\ d > 0 /\ range.lo + d = range.hi
    BY <1>1
  <2> HIDE DEF d
  <2>2. range.lo < range.hi => d \div 2 \in 0 .. d - 1
    BY <2>1
  <2> QED
    BY <1>1, <2>1, <2>2 DEF Middle, d
<1>3. range.lo < range.hi => /\ [range EXCEPT !.lo = Middle(range) + 1] \in Ranges(raw)
                             /\ [range EXCEPT !.hi = Middle(range)] \in Ranges(raw)
  <2>1. range.lo < range.hi => Middle(range) + 1 \in 0 .. LexRows(raw) /\ Middle(range) \in 0 .. LexRows(raw)
    BY <1>1, <1>2
  <2> QED
    BY <2>1 DEF Ranges
<1> QED
  BY <1>1, <1>2, <1>3 DEF Halved

(* The probes of a search, and what it answers. *)
SearchOf(raw, word, left) ==
  /\ left[0] = [lo |-> 0, hi |-> LexRows(raw)]
  /\ \A n \in 0 .. LexRows(raw) : left[n] \in Ranges(raw)
  /\ \A n \in 1 .. LexRows(raw) : left[n] = Halved(raw, word, left[n - 1])
  /\ Lookup(raw, word) = IF left[LexRows(raw)].lo < left[LexRows(raw)].hi
                         THEN Middle(left[LexRows(raw)]) + 1 ELSE 0

LEMMA LookupSearches ==
  ASSUME NEW raw, LexRows(raw) \in Nat, NEW word
  PROVE  \E left : SearchOf(raw, word, left)
<1> DEFINE rows == LexRows(raw)
           S == Ranges(raw)
           start == [lo |-> 0, hi |-> rows]
           step == [n \in 1 .. rows |-> [x \in S |-> Halved(raw, word, x)]]
           Loop(l) == l = [n \in 0 .. rows |-> IF n = 0 THEN start ELSE Halved(raw, word, l[n - 1])]
           left == CHOOSE l : Loop(l)
<1>1. start \in S
  BY DEF Ranges
<1>2. \A n \in 1 .. rows : \A x \in S : step[n][x] = Halved(raw, word, x) /\ step[n][x] \in S
  BY HalvedStays
<1>2a. \A x \in S : Halved(raw, word, x) \in S
  BY HalvedStays
<1> HIDE DEF S, start, step
<1>3. PICK g \in [0 .. rows -> S] : g[0] = start /\ \A n \in 1 .. rows : g[n] = step[n][g[n - 1]]
  <2>1. StaysIn(S, rows, step)
    BY <1>2 DEF StaysIn
  <2> HIDE DEF rows
  <2>2. rows \in Nat
    BY DEF rows
  <2>3. \E g : RunOf(g, S, rows, start, step)
    BY <1>1, <2>1, <2>2, LoopRuns
  <2> QED
    BY <2>3 DEF RunOf
<1>4. Loop(g)
  <2>1. \A n \in 1 .. rows : g[n - 1] \in S
    BY <1>3
  <2>2. \A n \in 0 .. rows : g[n] = IF n = 0 THEN start ELSE Halved(raw, word, g[n - 1])
    BY <1>2, <1>3, <2>1
  <2> QED
    BY <1>3, <2>2
<1>5. Loop(left)
  <2> HIDE DEF Loop
  <2> QED
    BY <1>4
<1>6. Lookup(raw, word) = IF left[rows].lo < left[rows].hi THEN Middle(left[rows]) + 1 ELSE 0
  BY DEF Lookup, start
<1> HIDE DEF left
<1>7. left[0] = start /\ \A n \in 1 .. rows : left[n] = Halved(raw, word, left[n - 1])
  BY <1>5
<1>8. \A n \in 0 .. rows : left[n] \in S
  <2>1. \A n \in 1 .. rows : left[n - 1] \in S => left[n] \in S
    BY <1>2a, <1>7
  <2> HIDE DEF rows, Loop
  <2>2. rows \in Nat
    BY DEF rows
  <2> QED
    BY <1>1, <1>7, <2>1, <2>2, LoopStays
<1> QED
  BY <1>6, <1>7, <1>8 DEF SearchOf, S, start

(* What a search answers is a row, or that there is none. *)
LEMMA LookupIsRow ==
  ASSUME NEW raw, LexRows(raw) \in Nat, NEW word
  PROVE  Lookup(raw, word) \in 0 .. LexRows(raw)
<1>1. PICK left : SearchOf(raw, word, left)
  BY LookupSearches
<1> DEFINE end == left[LexRows(raw)]
<1>2. end \in Ranges(raw)
  BY <1>1 DEF SearchOf
<1>3. Lookup(raw, word) = IF end.lo < end.hi THEN Middle(end) + 1 ELSE 0
  BY <1>1 DEF SearchOf
<1> HIDE DEF end
<1>4. end.lo < end.hi => Middle(end) + 1 \in 0 .. LexRows(raw)
  BY <1>2, HalvedStays DEF Ranges
<1> QED
  BY <1>3, <1>4

(* The search finds every word of the lexicon, at its own row. *)
THEOREM LookupFindsWords ==
  ASSUME NEW raw, PackFields(raw), LexiconOk(raw), NEW i \in 1 .. LexRows(raw)
  PROVE  Lookup(raw, KeyOf(raw, i)) = i
<1> DEFINE rows == LexRows(raw)
           word == KeyOf(raw, i)
<1>0. rows \in Nat
  BY DEF LexRows, PackFields
<1>1. PICK left : SearchOf(raw, word, left)
  BY <1>0, LookupSearches
<1>2. \A j \in 1 .. rows : /\ KeyOf(raw, j) = word => j = i
                           /\ Below(KeyOf(raw, j), word) <=> j < i
  <2> SUFFICES ASSUME NEW j \in 1 .. rows
               PROVE  /\ KeyOf(raw, j) = word => j = i
                      /\ Below(KeyOf(raw, j), word) <=> j < i
    OBVIOUS
  <2>1. KeyOf(raw, j) \in Seq(Nat) /\ word \in Seq(Nat)
    BY RowsAre
  <2>2. /\ j < i => Below(KeyOf(raw, j), word)
        /\ i < j => Below(word, KeyOf(raw, j))
    BY KeysAscend
  <2>3. ~Below(word, word) /\ ~(Below(KeyOf(raw, j), word) /\ Below(word, KeyOf(raw, j)))
    BY <2>1, BelowOrders
  <2> QED
    BY <2>2, <2>3
<1> DEFINE Hit(range) == range.lo < range.hi /\ KeyOf(raw, Middle(range) + 1) = word
           Holds(n) == /\ left[n].lo <= i - 1 /\ i - 1 < left[n].hi
                       /\ Hit(left[n]) \/ left[n].hi - left[n].lo <= rows - n
           Good == {n \in Nat : n <= rows => Holds(n)}
<1>3. 0 \in Good
  BY <1>0, <1>1 DEF SearchOf
<1>4. ASSUME NEW n \in Nat, n \in Good
      PROVE  n + 1 \in Good
  <2> SUFFICES ASSUME n + 1 <= rows PROVE Holds(n + 1)
    OBVIOUS
  <2> DEFINE r == left[n]
             m == Middle(r)
  <2>1. Holds(n) /\ r \in Ranges(raw) /\ left[n + 1] = Halved(raw, word, r)
    <3>1. n + 1 \in 1 .. rows /\ (n + 1) - 1 = n /\ n \in 0 .. rows
      BY <1>0
    <3> QED
      BY <1>1, <1>4, <3>1 DEF SearchOf
  <2>2. r.lo \in Nat /\ r.hi \in Nat /\ r.hi <= rows /\ r = [lo |-> r.lo, hi |-> r.hi]
        /\ r.lo <= i - 1 /\ i - 1 < r.hi
    BY <1>0, <2>1 DEF Ranges
  <2>3. m \in r.lo .. r.hi - 1 /\ m + 1 \in 1 .. rows
    BY <1>0, <2>1, <2>2, HalvedStays
  <2>4. CASE KeyOf(raw, m + 1) = word
    <3>1. left[n + 1] = r /\ Hit(r)
      BY <2>1, <2>2, <2>4 DEF Halved
    <3> QED
      BY <2>2, <3>1
  <2>5. CASE KeyOf(raw, m + 1) # word /\ Below(KeyOf(raw, m + 1), word)
    <3>1. left[n + 1] = [lo |-> m + 1, hi |-> r.hi]
      BY <2>1, <2>2, <2>5 DEF Halved
    <3>2. m + 1 < i
      BY <1>2, <2>3, <2>5
    <3>3. r.hi - r.lo <= rows - n
      BY <2>1, <2>5
    <3> HIDE DEF m, r, rows
    <3>4. left[n + 1].lo = m + 1 /\ left[n + 1].hi = r.hi
      BY <3>1
    <3>5. rows \in Nat
      BY <1>0
    <3> QED
      BY <2>2, <2>3, <3>2, <3>3, <3>4, <3>5
  <2>6. CASE KeyOf(raw, m + 1) # word /\ ~Below(KeyOf(raw, m + 1), word)
    <3>1. left[n + 1] = [lo |-> r.lo, hi |-> m]
      BY <2>1, <2>2, <2>6 DEF Halved
    <3>2. i < m + 1
      <4>1. ~(m + 1 < i) /\ m + 1 # i
        BY <1>2, <2>3, <2>6
      <4> QED
        BY <2>2, <2>3, <4>1
    <3>3. r.hi - r.lo <= rows - n
      BY <2>1, <2>6
    <3> HIDE DEF m, r, rows
    <3>4. left[n + 1].lo = r.lo /\ left[n + 1].hi = m
      BY <3>1
    <3>5. rows \in Nat
      BY <1>0
    <3> QED
      BY <2>2, <2>3, <3>2, <3>3, <3>4, <3>5
  <2> QED
    BY <2>4, <2>5, <2>6
<1>5. Holds(rows)
  <2>1. Nat \subseteq Good
    <3> HIDE DEF Good
    <3> QED
      BY <1>3, <1>4, NumbersFollow
  <2> QED
    BY <1>0, <2>1
<1> DEFINE end == left[rows]
<1>6. end \in Ranges(raw) /\ Lookup(raw, word) = IF end.lo < end.hi THEN Middle(end) + 1 ELSE 0
  BY <1>0, <1>1 DEF SearchOf
<1>7. end.lo < end.hi /\ KeyOf(raw, Middle(end) + 1) = word
  <2>1. Hit(end) \/ end.hi - end.lo <= rows - rows
    BY <1>5
  <2>2. end.lo <= i - 1 /\ i - 1 < end.hi
    BY <1>5
  <2>3. end.lo \in Nat /\ end.hi \in Nat
    BY <1>0, <1>6 DEF Ranges
  <2> HIDE DEF end, rows
  <2>4. rows - rows = 0
    BY <1>0 DEF rows
  <2> QED
    BY <2>1, <2>2, <2>3, <2>4
<1>8. Middle(end) + 1 \in 1 .. rows
  BY <1>0, <1>6, <1>7, HalvedStays DEF Ranges
<1>9. Middle(end) + 1 = i
  BY <1>2, <1>7, <1>8
<1> QED
  BY <1>6, <1>7, <1>9

-----------------------------------------------------------------------------
(* The letter-to-sound trees.                                              *)

(* A walk that moves on until it is at a leaf gets to one. *)
LEMMA WalksUp ==
  ASSUME NEW N \in Nat, NEW leaves, NEW walk, walk[0] \in 0 .. N - 1,
         \A n \in 1 .. N : \A i \in 0 .. N - 1 :
           walk[n - 1] = i => \/ i \in leaves /\ walk[n] = i
                              \/ i \notin leaves /\ walk[n] \in i + 1 .. N - 1
  PROVE  walk[N] \in 0 .. N - 1 /\ walk[N] \in leaves
<1> DEFINE Holds(n) == walk[n] \in 0 .. N - 1 /\ (walk[n] \in leaves \/ walk[n] >= n)
           Good == {n \in Nat : n <= N => Holds(n)}
<1>1. 0 \in Good
  OBVIOUS
<1>2. ASSUME NEW n \in Nat, n \in Good
      PROVE  n + 1 \in Good
  <2> SUFFICES ASSUME n + 1 <= N PROVE Holds(n + 1)
    OBVIOUS
  <2> DEFINE i == walk[n]
  <2>1. i \in 0 .. N - 1 /\ (i \in leaves \/ i >= n)
    BY <1>2
  <2>2. \/ i \in leaves /\ walk[n + 1] = i
        \/ i \notin leaves /\ walk[n + 1] \in i + 1 .. N - 1
    <3>1. n + 1 \in 1 .. N /\ (n + 1) - 1 = n
      OBVIOUS
    <3> QED
      BY <2>1, <3>1
  <2> QED
    BY <2>1, <2>2
<1>3. Nat \subseteq Good
  <2> HIDE DEF Good
  <2> QED
    BY <1>1, <1>2, NumbersFollow
<1> QED
  BY <1>3

(* What parseLts has proved of the roots and the nodes. *)
LEMMA TreesAre ==
  ASSUME NEW raw, PackFields(raw), LtsOk(raw), HasLts(raw)
  PROVE  /\ raw.lts.declared \in Nat /\ raw.lts.roots \in Seq(Nat)
         /\ Len(raw.lts.roots) = Len(raw.meta.letters) /\ Len(raw.meta.letters) \in Nat
         /\ \A i \in 1 .. Len(raw.meta.letters) : raw.lts.roots[i] \in 0 .. raw.lts.declared - 1
         /\ \A i \in 0 .. raw.lts.declared - 1 :
              IF IsLeaf(raw.lts.nodes[i + 1]) THEN LeafOk(raw, raw.lts.nodes[i + 1])
              ELSE QuestionOk(raw, i)
<1>1. Has(raw, "LTS ")
  BY Zenon DEF HasLts
<1>2. /\ Len(raw.lts.roots) = Len(raw.meta.letters)
      /\ \A i \in DOMAIN raw.lts.roots : raw.lts.roots[i] < raw.lts.declared
      /\ \A i \in 0 .. raw.lts.declared - 1 :
           IF IsLeaf(raw.lts.nodes[i + 1]) THEN LeafOk(raw, raw.lts.nodes[i + 1])
           ELSE QuestionOk(raw, i)
  BY <1>1, Zenon DEF LtsOk
<1> DEFINE declared == raw.lts.declared
           roots == raw.lts.roots
<1>3. declared \in Nat /\ roots \in Seq(Nat)
  BY DEF PackFields
<1> HIDE DEF roots
<1>4. Len(roots) \in Nat /\ \A i \in 1 .. Len(roots) : roots[i] \in Nat /\ i \in DOMAIN roots
  BY <1>3, MemberOf
<1>5. \A i \in 1 .. Len(roots) : roots[i] \in 0 .. declared - 1
  <2> HIDE DEF declared
  <2>1. \A i \in DOMAIN roots : roots[i] < declared
    BY <1>2 DEF declared, roots
  <2> QED
    BY <1>3, <1>4, <2>1
<1> QED
  BY <1>2, <1>3, <1>4, <1>5 DEF roots

LEMMA NodeLeadsOn ==
  ASSUME NEW raw, PackFields(raw), LtsOk(raw), HasLts(raw), NEW word, NEW at,
         NEW i \in 0 .. raw.lts.declared - 1
  PROVE  /\ IsLeaf(raw.lts.nodes[i + 1]) => NodeAfter(raw, word, at, i) = i
         /\ ~IsLeaf(raw.lts.nodes[i + 1]) =>
              NodeAfter(raw, word, at, i) \in i + 1 .. raw.lts.declared - 1
<1>1. ~(i >= raw.lts.declared)
  BY TreesAre
<1>2. CASE IsLeaf(raw.lts.nodes[i + 1])
  BY <1>2, Zenon DEF NodeAfter
<1>3. CASE ~IsLeaf(raw.lts.nodes[i + 1])
  <2>1. QuestionOk(raw, i)
    BY <1>3, TreesAre
  <2>2. {raw.lts.nodes[i + 1].yes, raw.lts.nodes[i + 1].no} \subseteq i + 1 .. raw.lts.declared - 1
    BY <2>1, Zenon DEF QuestionOk
  <2>3. \/ NodeAfter(raw, word, at, i) = raw.lts.nodes[i + 1].yes
        \/ NodeAfter(raw, word, at, i) = raw.lts.nodes[i + 1].no
    BY <1>1, <1>3, Zenon DEF NodeAfter
  <2> QED
    BY <1>3, <2>2, <2>3
<1> QED
  BY <1>2, <1>3

(* Every walk down a tree ends at one of its leaves, whatever the letters  *)
(* of the word: a question leads further on, and there are only so many    *)
(* nodes.                                                                  *)
THEOREM WalksEndAtLeaves ==
  ASSUME NEW raw, PackFields(raw), LtsOk(raw), HasLts(raw),
         NEW word \in Seq(0 .. Len(raw.meta.letters) - 1), NEW at \in 0 .. Len(word) - 1
  PROVE  /\ LeafReached(raw, word, at) \in 0 .. raw.lts.declared - 1
         /\ IsLeaf(raw.lts.nodes[LeafReached(raw, word, at) + 1])
<1> DEFINE N == raw.lts.declared
           S == 0 .. N - 1
           leaves == {i \in S : IsLeaf(raw.lts.nodes[i + 1])}
           start == raw.lts.roots[word[at + 1] + 1]
           step == [n \in 1 .. N |-> [x \in S |-> NodeAfter(raw, word, at, x)]]
           Loop(l) == l = [n \in 0 .. N |-> IF n = 0 THEN start
                                             ELSE NodeAfter(raw, word, at, l[n - 1])]
           walk == CHOOSE l : Loop(l)
           end == walk[N]
<1>0. N \in Nat
  BY TreesAre
<1>1. start \in S
  <2> DEFINE l == Len(raw.meta.letters)
             j == at + 1
  <2>1. l \in Nat /\ Len(word) \in Nat
    BY TreesAre
  <2>2. word \in Seq(0 .. l - 1) /\ j \in 1 .. Len(word)
    BY <2>1
  <2> HIDE DEF l, j
  <2> DEFINE L == 0 .. l - 1
  <2>3. word[j] \in L
    <3>1. word \in Seq(L)
      BY <2>2
    <3> HIDE DEF L
    <3> QED
      BY <2>2, <3>1, MemberOf
  <2>4. word[j] + 1 \in 1 .. l
    BY <2>1, <2>3
  <2> QED
    BY <2>4, TreesAre DEF l, j
<1>2. \A i \in S : \/ i \in leaves /\ NodeAfter(raw, word, at, i) = i
                   \/ i \notin leaves /\ NodeAfter(raw, word, at, i) \in i + 1 .. N - 1
  BY NodeLeadsOn
<1>3. \A i \in S : NodeAfter(raw, word, at, i) \in S
  <2> HIDE DEF leaves, N
  <2>1. N \in Nat
    BY <1>0
  <2> QED
    BY <1>2, <2>1
<1>4. \A n \in 1 .. N : \A x \in S : step[n][x] = NodeAfter(raw, word, at, x)
  OBVIOUS
<1>5. StaysIn(S, N, step)
  BY <1>3 DEF StaysIn
<1>6. LeafReached(raw, word, at) = IF end < N /\ IsLeaf(raw.lts.nodes[end + 1]) THEN end ELSE Lost
  BY DEF LeafReached
<1>7. \A i \in leaves : i < N /\ IsLeaf(raw.lts.nodes[i + 1])
  BY <1>0
<1> HIDE DEF start, step, N, leaves, S, walk
<1>8. PICK g : RunOf(g, S, N, start, step)
  BY <1>0, <1>1, <1>5, LoopRuns
<1>9. Loop(g)
  <2>1. g \in [0 .. N -> S] /\ g[0] = start /\ \A n \in 1 .. N : g[n] = step[n][g[n - 1]]
    BY <1>8 DEF RunOf
  <2>2. \A n \in 1 .. N : g[n - 1] \in S
    BY <1>0, <2>1
  <2>3. \A n \in 1 .. N : g[n] = NodeAfter(raw, word, at, g[n - 1])
    BY <1>4, <2>1, <2>2
  <2>4. \A n \in 0 .. N : g[n] = IF n = 0 THEN start ELSE NodeAfter(raw, word, at, g[n - 1])
    BY <1>0, <2>1, <2>3
  <2> QED
    BY <2>1, <2>4
<1>10. Loop(walk)
  <2> HIDE DEF Loop
  <2> QED
    BY <1>9 DEF walk
<1>11. walk[0] = start /\ \A n \in 1 .. N : walk[n] = NodeAfter(raw, word, at, walk[n - 1])
  BY <1>0, <1>10
<1>12. walk[N] \in 0 .. N - 1 /\ walk[N] \in leaves
  <2>1. walk[0] \in 0 .. N - 1
    BY <1>1, <1>11 DEF S
  <2>2. \A n \in 1 .. N : \A i \in 0 .. N - 1 :
          walk[n - 1] = i => \/ i \in leaves /\ walk[n] = i
                             \/ i \notin leaves /\ walk[n] \in i + 1 .. N - 1
    BY <1>2, <1>11 DEF S
  <2> QED
    BY <1>0, <2>1, <2>2, WalksUp
<1> QED
  BY <1>6, <1>7, <1>12 DEF N

-----------------------------------------------------------------------------
(* What is loaded.                                                         *)

(* A pack that is open is one the reader has accepted. *)
PackIsLoaded == model.engine = "g2p" => model.pack \in Loadable

LEMMA PackIsLoadedHolds ==
  ASSUME PackIsLoaded, SeamInv, [Next]_vars
  PROVE  PackIsLoaded'
<1>1. CASE LoadPack
  BY <1>1 DEF LoadPack, Opened, PackIsLoaded
<1>2. CASE UNCHANGED vars
  BY <1>2 DEF vars, seamVars, PackIsLoaded
<1>3. CASE Returned \/ Cancel
  BY <1>3 DEF Returned, Cancel, Idle, PackIsLoaded
<1>4. CASE Released \/ Relaunch
  BY <1>4 DEF Released, Relaunch, NotLoaded, PackIsLoaded
<1>5. CASE GgufNext \/ WhisperNext \/ MockNext
  BY <1>5, EachHasItsModel DEF PackIsLoaded
<1>6. CASE G2pNext /\ ~LoadPack
  <2>1. CASE ServeG2p
    BY <2>1 DEF ServeG2p, Waiting, Begin, PackIsLoaded
  <2>2. CASE ~ServeG2p
    BY <1>6, <2>2
       DEF G2pNext, CheckG2p, StackRunsOut, PollSentence, SentenceBlock, StopsSpeaking,
           ClosingBlocks, FinishG2p, At, Moves, Emits, Fails, Finishes, Dies, ReturnsSilently,
           Ends, PackIsLoaded
  <2> QED
    BY <2>1, <2>2
<1> QED
  BY <1>1, <1>2, <1>3, <1>4, <1>5, <1>6 DEF Next

(* Only packs the reader has accepted are ever open. *)
THEOREM OnlyLoadablePacks == Spec => []PackIsLoaded
<1>1. SeamInit => PackIsLoaded
  BY DEF SeamInit, NotLoaded, PackIsLoaded
<1>2. PackIsLoaded /\ SeamInv /\ [Next]_vars => PackIsLoaded'
  BY PackIsLoadedHolds
<1> QED
  BY <1>1, <1>2, SeamInvariant, PTL DEF Spec

(* In every pack that is open each word of the lexicon is found at its own *)
(* row, and every walk down a tree ends at a leaf.                         *)
THEOREM LoadedPacksAreWhole == Spec => []LoadedPackIsWhole
<1>1. PackIsLoaded => LoadedPackIsWhole
  <2> SUFFICES ASSUME PackIsLoaded, phase = "idle", model.engine = "g2p"
               PROVE  LoadedPackIsWhole
    BY DEF LoadedPackIsWhole
  <2> DEFINE raw == Packs[model.pack]
             ids == 0 .. Len(raw.meta.letters) - 1
  <2>1. Loads(raw) /\ PackFields(raw)
    BY G2pAssumption DEF PackIsLoaded, Loadable
  <2> HIDE DEF raw
  <2>2. \A i \in 1 .. LexRows(raw) : Lookup(raw, KeyOf(raw, i)) = i
    BY <2>1, LookupFindsWords DEF Loads
  <2>3. ASSUME HasLts(raw), NEW a \in ids, NEW b \in ids, NEW at \in 0 .. 1
        PROVE  LeafReached(raw, <<a, b>>, at) # Lost
    <3>1. <<a, b>> \in Seq(ids) /\ at \in 0 .. Len(<<a, b>>) - 1
      OBVIOUS
    <3>2. LeafReached(raw, <<a, b>>, at) \in 0 .. raw.lts.declared - 1
      BY <2>1, <2>3, <3>1, WalksEndAtLeaves DEF Loads
    <3>3. raw.lts.declared \in Nat
      BY <2>1 DEF PackFields
    <3> QED
      BY <3>2, <3>3 DEF Lost
  <2> QED
    BY <2>2, <2>3 DEF LoadedPackIsWhole, raw
<1> QED
  BY <1>1, OnlyLoadablePacks, PTL

-----------------------------------------------------------------------------
(* Sequences of sequences, and picking from them.                          *)

LEMMA PartOf ==
  ASSUME NEW S, NEW s \in Seq(S), NEW m \in Nat, NEW n \in Int, 1 <= m, n <= Len(s)
  PROVE  /\ SubSeq(s, m, n) \in Seq(S)
         /\ Len(SubSeq(s, m, n)) = IF n < m THEN 0 ELSE n - m + 1
         /\ \A k \in 1 .. n - m + 1 : SubSeq(s, m, n)[k] = s[m + k - 1]
OBVIOUS

(* A slice that ends inside, whose members are all in P. *)
LEMMA SliceIs ==
  ASSUME NEW S, NEW s \in Seq(S), NEW o \in Nat, NEW l \in Nat, o + l <= Len(s)
  PROVE  Slice(s, o, l) \in Seq(S) /\ Len(Slice(s, o, l)) = l
<1>1. o + 1 \in Nat /\ 1 <= o + 1 /\ o + l \in Int
  OBVIOUS
<1> DEFINE m == o + 1
           n == o + l
<1>2. Len(SubSeq(s, m, n)) = (IF n < m THEN 0 ELSE n - m + 1) /\ SubSeq(s, m, n) \in Seq(S)
  <2>1. m \in Nat /\ n \in Int /\ 1 <= m /\ n <= Len(s)
    OBVIOUS
  <2> HIDE DEF m, n
  <2> QED
    BY <2>1, PartOf
<1>3. (IF n < m THEN 0 ELSE n - m + 1) = l
  OBVIOUS
<1> QED
  BY <1>2, <1>3 DEF Slice

LEMMA MembersIn ==
  ASSUME NEW S, NEW s \in Seq(S), NEW P, ToSet(s) \subseteq P
  PROVE  s \in Seq(P)
<1>1. Len(s) \in Nat /\ DOMAIN s = 1 .. Len(s) /\ s = [k \in 1 .. Len(s) |-> s[k]]
  OBVIOUS
<1>2. \A k \in 1 .. Len(s) : s[k] \in P
  BY <1>1 DEF ToSet
<1> QED
  BY <1>1, <1>2

(* A function over the positions of a sequence is one as long. *)
LEMMA MappedIs ==
  ASSUME NEW S, NEW s, IsSequence(s), NEW f, f = [k \in DOMAIN s |-> f[k]],
         \A k \in DOMAIN s : f[k] \in S
  PROVE  f \in Seq(S) /\ Len(f) = Len(s) /\ DOMAIN f = 1 .. Len(s)
<1>1. Len(s) \in Nat /\ DOMAIN s = 1 .. Len(s)
  BY DEF IsSequence
<1>2. f \in [1 .. Len(s) -> S]
  BY <1>1
<1> QED
  BY <1>1, <1>2

(* Sequences of sequences, flattened, are a sequence. *)
LEMMA FlattenIs ==
  ASSUME NEW S, NEW s \in Seq(Seq(S))
  PROVE  FlattenSeq(s) \in Seq(S)
<1> DEFINE n == Len(s)
           g == CHOOSE g : Joins(g, s, n)
<1>1. n \in Nat
  OBVIOUS
<1>2. CASE n = 0
  <2>1. s = <<>>
    BY <1>2
  <2>2. FlattenSeq(s) = <<>>
    BY <2>1, FlattenShort
  <2> QED
    BY <2>2
<1>3. CASE n # 0
  <2>1. Joins(g, s, n) /\ FlattenSeq(s) = g[n]
    BY <1>1, <1>3, JoinsExists, FlattenIsApplied
  <2>2. \A k \in 1 .. n : s[k] \in Seq(S)
    OBVIOUS
  <2> DEFINE Good == {k \in Nat : k \in 1 .. n => g[k] \in Seq(S)}
  <2> HIDE DEF g, n
  <2>3. 0 \in Good
    OBVIOUS
  <2>4. ASSUME NEW k \in Nat, k \in Good
        PROVE  k + 1 \in Good
    <3> SUFFICES ASSUME k + 1 \in 1 .. n PROVE g[k + 1] \in Seq(S)
      OBVIOUS
    <3> DEFINE j == k + 1
    <3>1. j \in 1 .. n /\ j - 1 = k /\ (j # 1 => k \in 1 .. n)
      BY <1>1
    <3> HIDE DEF j, Good
    <3>2. g[j] = IF j = 1 THEN s[j] ELSE g[j - 1] \o s[j]
      BY <1>1, <2>1, <3>1, JoinsAt
    <3>3. s[j] \in Seq(S)
      BY <2>2, <3>1
    <3>4. j # 1 => g[k] \in Seq(S)
      BY <2>4, <3>1 DEF Good
    <3>5. g[j] \in Seq(S)
      BY <3>1, <3>2, <3>3, <3>4
    <3> QED
      BY <3>5 DEF j
  <2>5. n \in Good
    <3> HIDE DEF Good
    <3> QED
      BY <1>1, <2>3, <2>4, NumbersFollow
  <2>6. n \in 1 .. n
    BY <1>1, <1>3
  <2> QED
    BY <2>1, <2>5, <2>6
<1> QED
  BY <1>2, <1>3

(* The least of a set of positions. *)
LEMMA MinOf ==
  ASSUME NEW T \in SUBSET Nat, T # {}
  PROVE  Min(T) \in T /\ \A i \in T : Min(T) <= i
<1>1. \E x \in T : \A i \in T : x <= i
  <2> SUFFICES ASSUME ~ \E x \in T : \A i \in T : x <= i PROVE FALSE
    OBVIOUS
  <2> DEFINE Good == {k \in Nat : \A i \in T : k < i}
  <2>1. 0 \in Good
    <3>1. \A i \in T : 0 <= i
      OBVIOUS
    <3>2. 0 \notin T
      BY <3>1
    <3> QED
      BY <3>1, <3>2
  <2>2. ASSUME NEW k \in Nat, k \in Good
        PROVE  k + 1 \in Good
    <3>1. \A i \in T : k + 1 <= i
      BY <2>2
    <3>2. k + 1 \notin T
      BY <3>1
    <3> QED
      BY <3>1, <3>2
  <2>3. Nat \subseteq Good
    <3> HIDE DEF Good
    <3> QED
      BY <2>1, <2>2, NumbersFollow
  <2>4. ASSUME NEW i \in T PROVE FALSE
    <3>1. i \in Nat /\ i \in Good
      BY <2>3
    <3> QED
      BY <3>1
  <2> QED
    BY <2>4
<1> QED
  BY <1>1, Zenon DEF Min

(* The first member that passes, or 0. *)
LEMMA FirstIn ==
  ASSUME NEW n \in Nat, NEW I, I \subseteq 1 .. n, NEW first,
         first = IF I # {} THEN Min(I) ELSE 0
  PROVE  first = 0 \/ first \in I
<1>1. CASE I # {}
  <2>1. I \in SUBSET Nat
    OBVIOUS
  <2> QED
    BY <1>1, <2>1, MinOf
<1> QED
  BY <1>1


-----------------------------------------------------------------------------
(* What the ladder says.  Every rung answers with phones of the pack.      *)

PackOk(raw) == PackFields(raw) /\ Loads(raw)
Phones(raw) == Seq(PhoneIds(raw))

LEMMA SpokenIs ==
  ASSUME NEW raw, PackOk(raw), NEW cp
  PROVE  Spoken(raw, cp) \in Phones(raw)
<1>1. \A row \in SpellRows(raw) : row.phones \in Phones(raw)
  <2> SUFFICES ASSUME NEW row \in SpellRows(raw) PROVE row.phones \in Phones(raw)
    OBVIOUS
  <2>1. ToSet(row.phones) \subseteq PhoneIds(raw)
    BY Zenon DEF PackOk, Loads, SpellerOk
  <2>2. row.phones \in Seq(Nat)
    <3>1. PICK i \in 1 .. raw.spelDeclared : row = raw.spel[i]
      BY DEF SpellRows
    <3>2. /\ raw.spel \in Seq([cp : Nat, length : Nat, phones : Seq(Nat)])
          /\ raw.spelDeclared <= Len(raw.spel) /\ raw.spelDeclared \in Nat
      BY Zenon DEF PackOk, PackFields, Loads, SpellerOk
    <3>3. raw.spel[i] \in [cp : Nat, length : Nat, phones : Seq(Nat)]
      <4> DEFINE S == [cp : Nat, length : Nat, phones : Seq(Nat)]
                 t == raw.spel
      <4>1. t \in Seq(S) /\ i \in 1 .. Len(t)
        BY <3>2
      <4> HIDE DEF S, t
      <4>2. t[i] \in S
        BY <4>1, MemberOf
      <4> QED
        BY <4>2 DEF S, t
    <3> QED
      BY <3>1, <3>3
  <2> QED
    BY <2>1, <2>2, MembersIn DEF Phones
<1>2. \A phones \in Spell(raw, cp) : phones \in Phones(raw)
  BY <1>1 DEF Spell
<1>3. <<>> \in Phones(raw)
  BY DEF Phones
<1> DEFINE p == CHOOSE phones \in Spell(raw, cp) : TRUE
<1>4. Spell(raw, cp) # {} => p \in Spell(raw, cp)
  OBVIOUS
<1> HIDE DEF p
<1>5. Spell(raw, cp) # {} => p \in Phones(raw)
  BY <1>2, <1>4
<1> QED
  BY <1>3, <1>5 DEF Spoken, p

(* A sense that ends inside its value. *)
LEMMA SenseIs ==
  ASSUME NEW raw, NEW v \in Seq(Nat), NEW at \in Nat, SenseOk(raw, v, at)
  PROVE  Slice(v, at + 2, v[at + 2]) \in Phones(raw)
<1> DEFINE o == at + 2
           l == v[o]
<1>1. o \in 1 .. Len(v) /\ o \in Nat
  BY DEF SenseOk
<1>2. l \in Nat
  <2> HIDE DEF o
  <2> QED
    BY <1>1, MemberOf
<1>3. o + l <= Len(v) /\ ToSet(Slice(v, o, l)) \subseteq PhoneIds(raw)
  BY DEF SenseOk, SenseEnd
<1> HIDE DEF o, l
<1>4. Slice(v, o, l) \in Seq(Nat)
  BY <1>1, <1>2, <1>3, SliceIs
<1>5. Slice(v, o, l) \in Phones(raw)
  BY <1>3, <1>4, MembersIn DEF Phones
<1> QED
  BY <1>5 DEF o, l

LEMMA FirstSense == \A v : SenseAt(v, 0) = 2
<1> SUFFICES ASSUME NEW v PROVE SenseAt(v, 0) = 2
  OBVIOUS
<1> DEFINE Loop(f) == f = [k \in 0 .. 0 |-> IF k = 0 THEN 2 ELSE SenseEnd(v, f[k - 1])]
           at == CHOOSE f : Loop(f)
           one == [k \in 0 .. 0 |-> 2]
<1>1. Loop(one)
  <2>1. \A k \in 0 .. 0 : k = 0
    OBVIOUS
  <2> QED
    BY <2>1
<1>2. Loop(at)
  <2> HIDE DEF Loop, one
  <2> QED
    BY <1>1
<1>3. SenseAt(v, 0) = at[0]
  BY DEF SenseAt
<1> HIDE DEF at
<1>4. at[0] = 2
  BY <1>2
<1> QED
  BY <1>3, <1>4

LEMMA ValueIs ==
  ASSUME NEW raw, PackOk(raw), NEW i \in 1 .. LexRows(raw)
  PROVE  ValueAt(raw, raw.lexi[i].value).phones \in Phones(raw)
<1> DEFINE value == raw.lexi[i].value
           lexv == raw.lexv
           v == SubSeq(lexv, value + 1, Len(lexv))
           at == IF v[1] = 0 THEN 0 ELSE 2
<1>1. RowOk(raw, i) /\ value \in Nat /\ lexv \in Seq(Nat)
  BY RowsAre DEF PackOk, Loads, PackFields
<1>2. value + 2 <= Len(lexv) /\ ValueOk(raw, v)
  BY <1>1 DEF RowOk
<1>3. v \in Seq(Nat)
  <2> HIDE DEF value, lexv
  <2>1. value + 1 \in Nat /\ 1 <= value + 1 /\ Len(lexv) \in Int
    BY <1>1
  <2> DEFINE m == value + 1
  <2> HIDE DEF m
  <2>2. SubSeq(lexv, m, Len(lexv)) \in Seq(Nat)
    BY <1>1, <2>1, PartOf DEF m
  <2> QED
    BY <2>2 DEF m
<1>4. ValueAt(raw, value).phones = Slice(v, at + 2, v[at + 2])
  BY DEF ValueAt
<1> HIDE DEF v
<1>5. SenseOk(raw, v, at) /\ at \in Nat
  <2>1. CASE v[1] = 0
    BY <1>2, <2>1 DEF ValueOk
  <2>2. CASE v[1] = 1
    <3>1. v[2] > 0 /\ \A n \in 0 .. v[2] - 1 : SenseOk(raw, v, SenseAt(v, n))
      BY <1>2, <2>2 DEF ValueOk
    <3>2. 0 \in 0 .. v[2] - 1
      <4>1. 2 \in 1 .. Len(v)
        <5>1. Len(v) = Len(lexv) - value
          <6> HIDE DEF value, lexv
          <6> DEFINE m == value + 1
          <6>1. m \in Nat /\ 1 <= m /\ Len(lexv) \in Nat
            BY <1>1
          <6> HIDE DEF m
          <6>2. Len(SubSeq(lexv, m, Len(lexv))) = IF Len(lexv) < m THEN 0 ELSE Len(lexv) - m + 1
            BY <1>1, <6>1, PartOf
          <6> QED
            BY <1>1, <1>2, <6>1, <6>2 DEF m, v
        <5> QED
          BY <1>1, <1>2, <5>1
      <4>2. v[2] \in Nat
        BY <1>3, <4>1, MemberOf
      <4> QED
        BY <3>1, <4>2
    <3>3. SenseOk(raw, v, 2)
      BY <3>1, <3>2, FirstSense
    <3> QED
      BY <2>2, <3>3
  <2>3. v[1] = 0 \/ v[1] = 1
    BY <1>2 DEF ValueOk
  <2> QED
    BY <2>1, <2>2, <2>3
<1> HIDE DEF at
<1>6. Slice(v, at + 2, v[at + 2]) \in Phones(raw)
  BY <1>3, <1>5, SenseIs
<1> QED
  BY <1>4, <1>6 DEF v, at

(* phonesFromText: ids of the pack, and Unsayable where there is none. *)
MaybePhones(raw) == Seq(PhoneIds(raw) \cup {Unsayable})

LEMMA PhonesFromTextIs ==
  ASSUME NEW raw, PackFields(raw), NEW s \in Seq(Nat)
  PROVE  PhonesFromText(raw, s) \in MaybePhones(raw)
<1> DEFINE N == Len(s)
           S == [at : Nat, ids : MaybePhones(raw)]
           start == [at |-> 0, ids |-> <<>>]
           step == [n \in 1 .. N |-> [x \in S |-> TakesPhone(raw, s, x)]]
           Loop(g) == g = [n \in 0 .. N |-> IF n = 0 THEN start ELSE TakesPhone(raw, s, g[n - 1])]
           got == CHOOSE g : Loop(g)
<1>0. N \in Nat
  OBVIOUS
<1>1. start \in S
  BY DEF MaybePhones
<1>2. ASSUME NEW x \in S PROVE TakesPhone(raw, s, x) \in S
  <2> DEFINE id == CHOOSE id \in PhoneAt(raw, s, x.at) : TRUE
  <2>1. x.at \in Nat /\ x.ids \in MaybePhones(raw)
    OBVIOUS
  <2>2. Append(x.ids, Unsayable) \in MaybePhones(raw)
    BY <2>1 DEF MaybePhones
  <2>3. ASSUME PhoneAt(raw, s, x.at) # {}
        PROVE  /\ x.at + Len(raw.phones[id + 1]) \in Nat
               /\ Append(x.ids, id) \in MaybePhones(raw)
    <3>1. id \in PhoneAt(raw, s, x.at)
      BY <2>3
    <3> HIDE DEF id
    <3>2. id \in PhoneIds(raw)
      BY <3>1 DEF PhoneAt
    <3>3. Append(x.ids, id) \in MaybePhones(raw)
      BY <2>1, <3>2 DEF MaybePhones
    <3> DEFINE phones == raw.phones
               k == id + 1
    <3>4. phones \in Seq(Seq(Nat)) /\ k \in 1 .. Len(phones)
      BY <3>2 DEF PackFields, PhoneIds
    <3> HIDE DEF phones, k
    <3>5. phones[k] \in Seq(Nat)
      BY <3>4, MemberOf
    <3>6. Len(phones[k]) \in Nat
      BY <3>5
    <3> QED
      BY <2>1, <3>3, <3>6 DEF phones, k
  <2> HIDE DEF id, S
  <2>4. \/ TakesPhone(raw, s, x) = x
        \/ TakesPhone(raw, s, x) = [at |-> N, ids |-> Append(x.ids, Unsayable)]
        \/ /\ PhoneAt(raw, s, x.at) # {}
           /\ TakesPhone(raw, s, x) = [at |-> x.at + Len(raw.phones[id + 1]), ids |-> Append(x.ids, id)]
    BY DEF TakesPhone, id
  <2>5. CASE TakesPhone(raw, s, x) = x
    BY <1>2, <2>5
  <2>6. CASE TakesPhone(raw, s, x) = [at |-> N, ids |-> Append(x.ids, Unsayable)]
    BY <1>0, <2>2, <2>6 DEF S
  <2>7. CASE /\ PhoneAt(raw, s, x.at) # {}
             /\ TakesPhone(raw, s, x) = [at |-> x.at + Len(raw.phones[id + 1]),
                                         ids |-> Append(x.ids, id)]
    BY <2>3, <2>7 DEF S
  <2> QED
    BY <2>4, <2>5, <2>6, <2>7
<1>3. \A n \in 1 .. N : \A x \in S : step[n][x] = TakesPhone(raw, s, x)
  OBVIOUS
<1>4. StaysIn(S, N, step)
  BY <1>2 DEF StaysIn
<1>5. PhonesFromText(raw, s) = got[N].ids
  BY DEF PhonesFromText
<1>6. \A x \in S : x.ids \in MaybePhones(raw)
  OBVIOUS
<1> HIDE DEF start, step, N, S, got
<1>7. PICK g : RunOf(g, S, N, start, step)
  BY <1>0, <1>1, <1>4, LoopRuns
<1>8. Loop(g)
  <2>1. g \in [0 .. N -> S] /\ g[0] = start /\ \A n \in 1 .. N : g[n] = step[n][g[n - 1]]
    BY <1>7 DEF RunOf
  <2>2. \A n \in 1 .. N : g[n - 1] \in S
    BY <1>0, <2>1
  <2>3. \A n \in 1 .. N : g[n] = TakesPhone(raw, s, g[n - 1])
    BY <1>3, <2>1, <2>2
  <2>4. \A n \in 0 .. N : g[n] = IF n = 0 THEN start ELSE TakesPhone(raw, s, g[n - 1])
    BY <1>0, <2>1, <2>3
  <2> QED
    BY <2>1, <2>4
<1>9. Loop(got)
  <2> HIDE DEF Loop
  <2> QED
    BY <1>8 DEF got
<1>10. got[0] = start /\ \A n \in 1 .. N : got[n] = TakesPhone(raw, s, got[n - 1])
  BY <1>0, <1>9
<1>11. \A n \in 0 .. N : got[n] \in S
  <2>1. got[0] \in S
    BY <1>1, <1>10
  <2>2. \A n \in 1 .. N : got[n - 1] \in S => got[n] \in S
    BY <1>2, <1>10
  <2> HIDE DEF Loop
  <2> QED
    BY <1>0, <2>1, <2>2, LoopStays
<1> QED
  BY <1>0, <1>5, <1>6, <1>11

LEMMA EndingIs ==
  ASSUME NEW raw, PackFields(raw), NEW rule \in Rules, NEW phone
  PROVE  Ending(raw, rule, phone) \in MaybePhones(raw)
<1> DEFINE variants == rule.variants
           I == {i \in 1 .. Len(variants) : variants[i].always
                                            \/ raw.phones[phone + 1] \in variants[i].after}
           first == IF I # {} THEN Min(I) ELSE 0
<1>1. variants \in Seq(Variants)
  BY DEF Rules
<1>2. Len(variants) \in Nat /\ I \subseteq 1 .. Len(variants)
  BY <1>1
<1>3. Ending(raw, rule, phone) = IF first = 0 THEN <<Unsayable>>
                                 ELSE PhonesFromText(raw, variants[first].phones)
  BY Zenon DEF Ending, SelectInSeq
<1> DEFINE n == Len(variants)
<1>4. first = 0 \/ first \in 1 .. Len(variants)
  <2> HIDE DEF I, n
  <2>1. first = 0 \/ first \in I
    BY <1>2, FirstIn DEF n
  <2> QED
    BY <1>2, <2>1
<1> HIDE DEF first, variants
<1>5. first # 0 => variants[first].phones \in Seq(Nat)
  <2>1. first # 0 => variants[first] \in Variants
    BY <1>1, <1>4, MemberOf
  <2>2. \A v \in Variants : v.phones \in Seq(Nat)
    BY DEF Variants
  <2> QED
    BY <2>1, <2>2
<1>6. first # 0 => PhonesFromText(raw, variants[first].phones) \in MaybePhones(raw)
  BY <1>5, PhonesFromTextIs
<1>7. <<Unsayable>> \in MaybePhones(raw)
  BY DEF MaybePhones
<1> QED
  BY <1>3, <1>6, <1>7

(* An ending that is taken can be said. *)
LEMMA EndingOkIs ==
  ASSUME NEW raw, NEW e \in MaybePhones(raw), EndingOk(e)
  PROVE  e \in Phones(raw) /\ e # <<>>
<1>1. ToSet(e) \subseteq PhoneIds(raw)
  <2>1. \A k \in DOMAIN e : e[k] \in PhoneIds(raw) \cup {Unsayable} /\ e[k] # Unsayable
    <3>1. \A k \in DOMAIN e : e[k] \in PhoneIds(raw) \cup {Unsayable}
      BY MemberOf DEF MaybePhones
    <3>2. \A k \in DOMAIN e : e[k] # Unsayable
      BY DEF EndingOk, ToSet
    <3> QED
      BY <3>1, <3>2
  <2> QED
    BY <2>1 DEF ToSet
<1> QED
  BY <1>1, MembersIn DEF Phones, MaybePhones, EndingOk

LEMMA KnownIs ==
  ASSUME NEW raw, PackOk(raw), NEW word, NEW a \in Known(raw, word)
  PROVE  /\ a.phones \in Phones(raw) /\ a.via \in {"pos", "lexicon"}
         /\ a.phones = <<>> => HasSilentEntry(raw)
<1> DEFINE row == Lookup(raw, word)
           value == ValueAt(raw, raw.lexi[row].value)
<1>1. LexRows(raw) \in Nat
  BY DEF PackOk, PackFields, LexRows
<1>2. row \in 0 .. LexRows(raw)
  BY <1>1, LookupIsRow
<1>3. /\ row # 0
      /\ a = Answer(value.phones, IF value.posConditioned THEN "pos" ELSE "lexicon")
  BY DEF Known
<1> HIDE DEF row
<1>4. row \in 1 .. LexRows(raw)
  BY <1>1, <1>2, <1>3
<1>5. value.phones \in Phones(raw)
  BY <1>4, ValueIs
<1>6. value.phones = <<>> => HasSilentEntry(raw)
  BY <1>4 DEF HasSilentEntry
<1> HIDE DEF value
<1> QED
  BY <1>3, <1>5, <1>6 DEF Answer

(* The stems a rule proposes. *)
LEMMA StemsAre ==
  ASSUME NEW rule \in Rules, NEW word \in Seq(Nat)
  PROVE  Stems(rule, word) \in Seq(Seq(Nat))
<1> DEFINE suffix == rule.suffix
           restore == rule.restore
           base == SubSeq(word, 1, Len(word) - Len(suffix))
           restored == [k \in DOMAIN restore |-> base \o restore[k]]
           none == rule.suffix = <<>> \/ Len(word) <= Len(rule.suffix)
                   \/ ~IsSuffix(rule.suffix, word)
           undoubled == IF rule.undouble /\ Len(base) >= 2 /\ base[Len(base)] = base[Len(base) - 1]
                        THEN <<Front(base)>> ELSE <<>>
<1>1. Stems(rule, word) = IF none THEN <<>> ELSE <<base>> \o restored \o undoubled
  BY DEF Stems
<1> SUFFICES ASSUME ~none PROVE <<base>> \o restored \o undoubled \in Seq(Seq(Nat))
  BY <1>1
<1>2. suffix \in Seq(Nat) /\ restore \in Seq(Seq(Nat))
  BY DEF Rules
<1>3. Len(word) \in Nat /\ Len(suffix) \in Nat /\ Len(word) > Len(suffix)
  BY <1>2
<1>4. base \in Seq(Nat)
  <2> DEFINE n == Len(word) - Len(suffix)
  <2>1. n \in Int /\ n <= Len(word) /\ 1 \in Nat
    BY <1>3
  <2> HIDE DEF n
  <2>2. SubSeq(word, 1, n) \in Seq(Nat)
    BY <2>1, PartOf
  <2> QED
    BY <2>2 DEF n
<1> HIDE DEF base
<1>5. restored \in Seq(Seq(Nat))
  <2> HIDE DEF restore
  <2>1. \A k \in DOMAIN restore : restore[k] \in Seq(Nat)
    BY <1>2, MemberOf
  <2>2. \A k \in DOMAIN restore : restored[k] \in Seq(Nat)
    BY <1>4, <2>1
  <2>3. IsSequence(restore) /\ restored = [k \in DOMAIN restore |-> restored[k]]
    BY <1>2 DEF IsSequence
  <2> HIDE DEF restored
  <2> QED
    BY <2>2, <2>3, MappedIs
<1>6. undoubled \in Seq(Seq(Nat))
  <2>1. Len(base) >= 2 => SubSeq(base, 1, Len(base) - 1) \in Seq(Nat)
    <3> DEFINE n == Len(base) - 1
    <3>1. n \in Int /\ n <= Len(base) /\ 1 \in Nat /\ 1 <= 1
      BY <1>4
    <3> HIDE DEF n
    <3>2. SubSeq(base, 1, n) \in Seq(Nat)
      BY <1>4, <3>1, PartOf
    <3> QED
      BY <3>2 DEF n
  <2> QED
    BY <2>1 DEF Front
<1> HIDE DEF restored, undoubled, none
<1>7. <<base>> \o restored \in Seq(Seq(Nat))
  BY <1>4, <1>5
<1> QED
  BY <1>6, <1>7

(* What deriveStem tries, and the phones of a stem it finds. *)
Try == [rule : Rules, stem : Seq(Nat)]

TriesOf(raw, word) ==
  FlattenSeq([r \in DOMAIN raw.meta.morphology |->
    LET rule == raw.meta.morphology[r] IN
    [k \in DOMAIN Stems(rule, word) |-> [rule |-> rule, stem |-> Stems(rule, word)[k]]]])

StemPhones(raw, try) ==
  LET row == Lookup(raw, try.stem) IN
  IF row = 0 THEN <<>> ELSE ValueAt(raw, raw.lexi[row].value).phones

Derives(raw, try) ==
  StemPhones(raw, try) # <<>>
    /\ EndingOk(Ending(raw, try.rule, Last(StemPhones(raw, try))))

LEMMA TriesAre ==
  ASSUME NEW raw, PackFields(raw), NEW word \in Seq(Nat)
  PROVE  TriesOf(raw, word) \in Seq(Try)
<1> DEFINE rules == raw.meta.morphology
           tries(rule) == [k \in DOMAIN Stems(rule, word) |-> [rule |-> rule, stem |-> Stems(rule, word)[k]]]
           f == [r \in DOMAIN rules |-> tries(rules[r])]
<1>1. rules \in Seq(Rules)
  BY DEF PackFields
<1>2. ASSUME NEW rule \in Rules PROVE tries(rule) \in Seq(Try)
  <2> DEFINE stems == Stems(rule, word)
             t == tries(rule)
  <2>1. stems \in Seq(Seq(Nat))
    BY StemsAre
  <2>2. \A k \in DOMAIN stems : t[k] \in Try
    <3>1. \A k \in DOMAIN stems : stems[k] \in Seq(Nat)
      <4> HIDE DEF stems
      <4> QED
        BY <2>1, MemberOf
    <3> QED
      BY <3>1 DEF Try
  <2>3. IsSequence(stems) /\ t = [k \in DOMAIN stems |-> t[k]]
    BY <2>1 DEF IsSequence
  <2> HIDE DEF stems, t
  <2>4. t \in Seq(Try)
    BY <2>2, <2>3, MappedIs
  <2> QED
    BY <2>4 DEF t
<1> HIDE DEF rules
<1>3. \A r \in DOMAIN rules : f[r] \in Seq(Try)
  <2>1. \A r \in DOMAIN rules : rules[r] \in Rules
    BY <1>1, MemberOf
  <2> HIDE DEF tries
  <2> QED
    BY <1>2, <2>1
<1>4. IsSequence(rules) /\ f = [r \in DOMAIN rules |-> f[r]]
  BY <1>1 DEF IsSequence
<1>5. TriesOf(raw, word) = FlattenSeq(f)
  BY DEF TriesOf, rules
<1> HIDE DEF f
<1>6. f \in Seq(Seq(Try))
  BY <1>3, <1>4, MappedIs
<1> QED
  BY <1>5, <1>6, FlattenIs

LEMMA StemmedIs ==
  ASSUME NEW raw, PackOk(raw), NEW word \in Seq(Nat), NEW a \in Stemmed(raw, word)
  PROVE  a.phones \in Phones(raw) /\ a.phones # <<>> /\ a = Answer(a.phones, "stem")
<1> DEFINE tries == TriesOf(raw, word)
           I == {i \in 1 .. Len(tries) : Derives(raw, tries[i])}
           first == IF I # {} THEN Min(I) ELSE 0
           try == tries[first]
           p == StemPhones(raw, try)
           e == Ending(raw, try.rule, Last(p))
<1>1. first # 0 /\ a = Answer(p \o e, "stem")
  BY Zenon DEF Stemmed, TriesOf, StemPhones, Derives, SelectInSeq
<1>2. tries \in Seq(Try)
  BY TriesAre DEF PackOk
<1> HIDE DEF tries
<1>3. Len(tries) \in Nat /\ I \subseteq 1 .. Len(tries)
  BY <1>2
<1>4. first \in I
  <2> DEFINE n == Len(tries)
  <2> HIDE DEF I, n
  <2> QED
    BY <1>1, <1>3, FirstIn DEF n
<1>5. first \in 1 .. Len(tries) /\ Derives(raw, try)
  BY <1>4
<1> HIDE DEF first
<1>6. try \in Try
  BY <1>2, <1>5, MemberOf
<1> HIDE DEF try
<1>7. p # <<>> /\ EndingOk(e)
  BY <1>5 DEF Derives
<1>8. p \in Phones(raw)
  <2> DEFINE row == Lookup(raw, try.stem)
  <2>1. LexRows(raw) \in Nat
    BY DEF PackOk, PackFields, LexRows
  <2>2. row \in 0 .. LexRows(raw)
    BY <2>1, LookupIsRow
  <2>3. row # 0 /\ p = ValueAt(raw, raw.lexi[row].value).phones
    BY <1>7 DEF StemPhones
  <2> HIDE DEF row
  <2>4. row \in 1 .. LexRows(raw)
    BY <2>1, <2>2, <2>3
  <2> QED
    BY <2>3, <2>4, ValueIs
<1>9. e \in Phones(raw)
  <2>1. try.rule \in Rules
    BY <1>6 DEF Try
  <2>2. e \in MaybePhones(raw)
    BY <2>1, EndingIs DEF PackOk
  <2> HIDE DEF e
  <2> QED
    BY <1>7, <2>2, EndingOkIs
<1> HIDE DEF p, e
<1>10. p \o e \in Phones(raw) /\ p \o e # <<>>
  BY <1>7, <1>8, <1>9 DEF Phones
<1> QED
  BY <1>1, <1>10 DEF Answer

LEMMA FlattenMapped ==
  ASSUME NEW P, NEW s, IsSequence(s), NEW f, f = [k \in DOMAIN s |-> f[k]],
         \A k \in DOMAIN s : f[k] \in Seq(P)
  PROVE  FlattenSeq(f) \in Seq(P)
<1>1. f \in Seq(Seq(P))
  BY MappedIs
<1> QED
  BY <1>1, FlattenIs

(* An answer: silent only where it is refused or the dictionary says so. *)
Vias   == {"lexicon", "pos", "stem", "number", "lts", "spelled", "refused"}
Silent(raw) == {"refused"} \cup (IF HasSilentEntry(raw) THEN {"lexicon", "pos"} ELSE {})

Answers(raw) ==
  {a \in [phones : Phones(raw), via : Vias, words : Seq(Seq(Nat))] :
     a.phones = <<>> => a.via \in Silent(raw)}

LEMMA AnswerIs ==
  ASSUME NEW raw, NEW phones \in Phones(raw), NEW via \in Vias,
         phones = <<>> => via \in Silent(raw)
  PROVE  Answer(phones, via) \in Answers(raw)
BY DEF Answer, Answers

LEMMA LetterIs ==
  ASSUME NEW raw, PackOk(raw), HasLts(raw),
         NEW ids \in Seq(0 .. Len(raw.meta.letters) - 1), NEW at \in 0 .. Len(ids) - 1
  PROVE  LtsLetter(raw, ids, at) \in Phones(raw)
<1> DEFINE i == LeafReached(raw, ids, at)
           node == raw.lts.nodes[i + 1]
           nodes == raw.lts.nodes
           out == raw.lts.out
           declared == raw.lts.declared
<1>1. PackFields(raw) /\ LtsOk(raw) /\ out \in Seq(Nat) /\ nodes \in Seq(Nodes)
  BY DEF PackOk, Loads, PackFields
<1>2. i \in 0 .. declared - 1 /\ IsLeaf(node)
  BY <1>1, WalksEndAtLeaves
<1>3. LeafOk(raw, node) /\ declared \in Nat
  BY <1>1, <1>2, TreesAre
<1>4. declared <= Len(nodes)
  BY <1>1, Zenon DEF LtsOk, HasLts
<1>5. node \in Nodes
  <2> HIDE DEF i, nodes, declared
  <2>1. Len(nodes) \in Nat
    BY <1>1
  <2>2. i + 1 \in 1 .. Len(nodes)
    BY <1>2, <1>3, <1>4, <2>1
  <2> DEFINE k == i + 1
  <2> HIDE DEF k
  <2>3. nodes[k] \in Nodes
    BY <1>1, <2>2, MemberOf DEF k
  <2> QED
    BY <2>3 DEF k, nodes
<1>6. LtsLetter(raw, ids, at) = Slice(out, node.off, node.len)
  BY DEF LtsLetter
<1> HIDE DEF node, out
<1>7. node.off \in Nat /\ node.len \in Nat
  BY <1>2, <1>5 DEF IsLeaf, Nodes
<1>8. node.off + node.len <= Len(out) /\ ToSet(Slice(out, node.off, node.len)) \subseteq PhoneIds(raw)
  BY <1>3 DEF LeafOk, out
<1>9. Slice(out, node.off, node.len) \in Seq(Nat)
  BY <1>1, <1>7, <1>8, SliceIs
<1> QED
  BY <1>6, <1>8, <1>9, MembersIn DEF Phones

LEMMA LettersAre ==
  ASSUME NEW raw, PackFields(raw), NEW word, IsSequence(word),
         ToSet(word) \subseteq ToSet(raw.meta.letters)
  PROVE  /\ LettersOf(raw, word) \in Seq(0 .. Len(raw.meta.letters) - 1)
         /\ Len(LettersOf(raw, word)) = Len(word)
<1> DEFINE letters == raw.meta.letters
           ids == 0 .. Len(letters) - 1
           f == LettersOf(raw, word)
<1>1. letters \in Seq(Nat) /\ DOMAIN letters = 1 .. Len(letters) /\ Len(letters) \in Nat
  BY DEF PackFields
<1>2. ASSUME NEW k \in DOMAIN word PROVE LetterId(raw, word[k]) \in ids
  <2>1. word[k] \in ToSet(letters)
    BY DEF ToSet
  <2>2. PICK j \in DOMAIN letters : letters[j] = word[k]
    BY <2>1 DEF ToSet
  <2>3. j - 1 \in ids /\ (j - 1) + 1 = j
    BY <1>1
  <2>4. \E id \in ids : letters[id + 1] = word[k]
    BY <2>2, <2>3
  <2> QED
    BY <2>4, Zenon DEF LetterId
<1>3. f = [k \in DOMAIN word |-> f[k]] /\ \A k \in DOMAIN word : f[k] \in ids
  BY <1>2 DEF LettersOf
<1> HIDE DEF f, ids
<1>4. f \in Seq(ids) /\ Len(f) = Len(word)
  BY <1>3, MappedIs
<1> QED
  BY <1>4 DEF f, ids

LEMMA GuessedIs ==
  ASSUME NEW raw, PackOk(raw), NEW word, IsSequence(word), NEW a \in Guessed(raw, word)
  PROVE  a \in Answers(raw) /\ a.phones # <<>> /\ a.via = "lts"
<1> DEFINE ids == LettersOf(raw, word)
           f == [k \in DOMAIN ids |-> LtsLetter(raw, ids, k - 1)]
           phones == FlattenSeq(f)
<1>1. /\ HasLts(raw) /\ ToSet(word) \subseteq ToSet(raw.meta.letters)
      /\ phones # <<>> /\ a = Answer(phones, "lts")
  BY Zenon DEF Guessed
<1>2. ids \in Seq(0 .. Len(raw.meta.letters) - 1)
  BY <1>1, LettersAre DEF PackOk
<1> DEFINE L == 0 .. Len(raw.meta.letters) - 1
<1> HIDE DEF ids
<1>3. ASSUME NEW k \in DOMAIN ids PROVE f[k] \in Phones(raw)
  <2>1. k - 1 \in 0 .. Len(ids) - 1
    <3>1. ids \in Seq(L)
      BY <1>2
    <3> HIDE DEF L
    <3>2. k \in 1 .. Len(ids) /\ Len(ids) \in Nat
      BY <3>1
    <3> QED
      BY <3>2
  <2> DEFINE at == k - 1
  <2> HIDE DEF at
  <2>2. LtsLetter(raw, ids, at) \in Phones(raw)
    BY <1>1, <1>2, <2>1, LetterIs DEF at
  <2> QED
    BY <2>2 DEF at
<1>4. IsSequence(ids) /\ f = [k \in DOMAIN ids |-> f[k]]
  BY <1>2 DEF IsSequence
<1> HIDE DEF f
<1>5. phones \in Phones(raw)
  BY <1>3, <1>4, FlattenMapped DEF Phones
<1> HIDE DEF phones
<1>6. a \in Answers(raw)
  BY <1>1, <1>5, AnswerIs DEF Vias
<1> QED
  BY <1>1, <1>6 DEF Answer

(* Parts said one after another. *)
LEMMA JoinedSays ==
  ASSUME NEW raw, PackOk(raw), NEW parts \in Seq(Phones(raw))
  PROVE  Joined(raw, parts) \in Phones(raw)
<1> DEFINE heard == {k \in DOMAIN parts : parts[k] # <<>>}
           f == [k \in DOMAIN parts |->
                   IF k \in heard /\ k # Min(heard) THEN Spoken(raw, Space) \o parts[k] ELSE parts[k]]
<1>1. ASSUME NEW k \in DOMAIN parts PROVE f[k] \in Phones(raw)
  <2> DEFINE part == parts[k]
             space == Spoken(raw, Space)
  <2>1. part \in Phones(raw) /\ space \in Phones(raw)
    BY MemberOf, SpokenIs
  <2>2. f[k] = part \/ f[k] = space \o part
    OBVIOUS
  <2> HIDE DEF f, part, space
  <2>3. space \o part \in Phones(raw)
    BY <2>1 DEF Phones
  <2> QED
    BY <2>1, <2>2, <2>3
<1>2. IsSequence(parts) /\ f = [k \in DOMAIN parts |-> f[k]]
  BY DEF IsSequence
<1>3. Joined(raw, parts) = FlattenSeq(f)
  <2>1. <<>> \o parts = parts
    OBVIOUS
  <2> QED
    BY <2>1 DEF Joined, Spaced
<1> HIDE DEF f
<1> QED
  BY <1>1, <1>2, <1>3, FlattenMapped DEF Phones

LEMMA SpelledOutIs ==
  ASSUME NEW raw, PackOk(raw), NEW word, IsSequence(word)
  PROVE  SpelledOut(raw, word) \in Answers(raw)
<1> DEFINE f == [k \in DOMAIN word |-> Spoken(raw, word[k])]
           phones == Joined(raw, f)
<1>1. f = [k \in DOMAIN word |-> f[k]] /\ \A k \in DOMAIN word : f[k] \in Phones(raw)
  BY SpokenIs
<1>2. SpelledOut(raw, word) = Answer(phones, IF phones = <<>> THEN "refused" ELSE "spelled")
  BY DEF SpelledOut
<1> HIDE DEF f
<1>3. f \in Seq(Phones(raw))
  BY <1>1, MappedIs
<1>4. phones \in Phones(raw)
  BY <1>3, JoinedSays
<1> HIDE DEF phones
<1> DEFINE via == IF phones = <<>> THEN "refused" ELSE "spelled"
<1>5. via \in Vias /\ (phones = <<>> => via \in Silent(raw))
  BY DEF Vias, Silent
<1> HIDE DEF via
<1>6. Answer(phones, via) \in Answers(raw)
  BY <1>4, <1>5, AnswerIs
<1> QED
  BY <1>2, <1>6 DEF via

(* The first rung that answers answers. *)
LEMMA ClimbsTo ==
  ASSUME NEW rungs, Len(rungs) \in Nat, NEW j \in 1 .. Len(rungs), rungs[j] # {}
  PROVE  \E i \in 1 .. Len(rungs) : Climb(rungs) \in rungs[i]
<1> DEFINE n == Len(rungs)
           I == {i \in 1 .. Len(rungs) : rungs[i] # {}}
           first == IF I # {} THEN Min(I) ELSE 0
<1>1. Climb(rungs) = CHOOSE a \in rungs[first] : TRUE
  BY Zenon DEF Climb, SelectInSeq
<1>2. I # {} /\ I \subseteq 1 .. n /\ I \subseteq Nat
  OBVIOUS
<1>3. first \in I
  <2> HIDE DEF I, n
  <2>1. Min(I) \in I
    BY <1>2, MinOf
  <2> QED
    BY <1>2, <2>1
<1>4. first \in 1 .. Len(rungs) /\ rungs[first] # {}
  BY <1>3
<1> HIDE DEF first
<1> QED
  BY <1>1, <1>4

LEMMA LadderIs ==
  ASSUME NEW raw, PackOk(raw), NEW word \in Seq(Nat), NEW policy
  PROVE  Ladder(raw, word, policy) \in Answers(raw)
<1> DEFINE refusals == IF policy = "refuse" THEN {Refusal} ELSE {}
           guesses == IF policy \in {"lts", "defer"} THEN Guessed(raw, word) ELSE {}
           rungs == <<Known(raw, word), Stemmed(raw, word), refusals, guesses,
                      {SpelledOut(raw, word)}>>
           answer == Climb(rungs)
<1>1. IsSequence(word)
  BY DEF IsSequence
<1>2. Known(raw, word) \subseteq Answers(raw)
  <2> SUFFICES ASSUME NEW x \in Known(raw, word) PROVE x \in Answers(raw)
    OBVIOUS
  <2>1. x.phones \in Phones(raw) /\ x.via \in {"pos", "lexicon"} /\ x = Answer(x.phones, x.via)
    BY KnownIs DEF Known, Answer
  <2>2. x.via \in Vias /\ (x.phones = <<>> => x.via \in Silent(raw))
    BY <2>1, KnownIs DEF Vias, Silent
  <2> QED
    BY <2>1, <2>2, AnswerIs
<1>3. Stemmed(raw, word) \subseteq Answers(raw)
  <2> SUFFICES ASSUME NEW x \in Stemmed(raw, word) PROVE x \in Answers(raw)
    OBVIOUS
  <2>1. x.phones \in Phones(raw) /\ x.phones # <<>> /\ x = Answer(x.phones, "stem")
    BY StemmedIs
  <2>2. "stem" \in Vias
    BY DEF Vias
  <2> QED
    BY <2>1, <2>2, AnswerIs
<1>4. refusals \subseteq Answers(raw)
  <2>1. <<>> \in Phones(raw) /\ "refused" \in Vias /\ "refused" \in Silent(raw)
    BY DEF Phones, Vias, Silent
  <2>2. Refusal \in Answers(raw)
    BY <2>1, AnswerIs DEF Refusal
  <2> QED
    BY <2>2
<1>5. guesses \subseteq Answers(raw)
  BY <1>1, GuessedIs
<1>6. SpelledOut(raw, word) \in Answers(raw)
  BY <1>1, SpelledOutIs
<1>7. Ladder(raw, word, policy)
      = [answer EXCEPT !.via = IF ToSet(word) \subseteq raw.meta.accept THEN @ ELSE "refused"]
  BY DEF Ladder
<1>8. answer \in Answers(raw)
  <2> HIDE DEF refusals, guesses
  <2>1. Len(rungs) = 5 /\ rungs[5] # {}
    OBVIOUS
  <2>2. \A i \in 1 .. 5 : rungs[i] \subseteq Answers(raw)
    BY <1>2, <1>3, <1>4, <1>5, <1>6
  <2> HIDE DEF rungs
  <2>3. \E i \in 1 .. Len(rungs) : Climb(rungs) \in rungs[i]
    BY <2>1, ClimbsTo
  <2> QED
    BY <2>1, <2>2, <2>3
<1> HIDE DEF answer
<1> DEFINE via == IF ToSet(word) \subseteq raw.meta.accept THEN answer.via ELSE "refused"
<1>9. via \in Vias /\ (answer.phones = <<>> => via \in Silent(raw))
  BY <1>8 DEF Answers, Vias, Silent
<1>10. Ladder(raw, word, policy) = [answer EXCEPT !.via = via]
  BY <1>7
<1> HIDE DEF via
<1> QED
  BY <1>8, <1>9, <1>10 DEF Answers

-----------------------------------------------------------------------------
(* Folding, and the words of numbers.                                      *)

LEMMA FoldedIs ==
  ASSUME NEW raw, PackFields(raw), NEW cp \in Nat
  PROVE  Folded(raw, cp) \in Seq(Nat)
<1> DEFINE rows == {r \in raw.meta.fold : r.key = <<cp>>}
           row == CHOOSE r \in rows : TRUE
<1>1. Folded(raw, cp) = IF rows = {} THEN <<cp>> ELSE row.value
  BY DEF Folded
<1>2. rows # {} => row \in rows
  OBVIOUS
<1> HIDE DEF row
<1>3. rows # {} => row.value \in Seq(Nat)
  BY <1>2 DEF PackFields
<1> HIDE DEF rows
<1>4. <<cp>> \in Seq(Nat)
  OBVIOUS
<1> QED
  BY <1>1, <1>3, <1>4

LEMMA FoldTextIs ==
  ASSUME NEW raw, PackFields(raw), NEW s \in Seq(Nat)
  PROVE  FoldText(raw, s) \in Seq(Nat)
<1> DEFINE f == [i \in DOMAIN s |-> Folded(raw, s[i])]
<1>1. \A i \in DOMAIN s : f[i] \in Seq(Nat)
  BY MemberOf, FoldedIs
<1>2. IsSequence(s) /\ f = [i \in DOMAIN s |-> f[i]]
  BY DEF IsSequence
<1>3. FoldText(raw, s) = FlattenSeq(f)
  BY DEF FoldText
<1> HIDE DEF f
<1> QED
  BY <1>1, <1>2, <1>3, FlattenMapped

Words == Seq(Seq(Nat))

(* The words a NORM section has, and those made of them, are written in    *)
(* the characters P.                                                       *)
WordsOf(P) == Seq(Seq(P))

NormSays(norm, P) ==
  /\ {norm.negative, norm.point, norm.hundred, norm.joiner, norm.ordinalSuffix} \subseteq Seq(P)
  /\ {norm.units, norm.teens, norm.tens, norm.scales} \subseteq WordsOf(P)
  /\ \A n \in DOMAIN norm.ordinals : norm.ordinals[n] \in Seq(P)
  /\ \A c \in norm.currency : {c.one, c.many} \subseteq Seq(P)
  /\ <<105, 101>> \in Seq(P)

LEMMA FieldsSay ==
  ASSUME NEW norm, NormFields(norm)
  PROVE  NormSays(norm, Nat)
BY DEF NormFields, NormSays, WordsOf

LEMMA NormIs ==
  ASSUME NEW norm, NEW P, NormSays(norm, P)
  PROVE  /\ norm.negative \in Seq(P) /\ norm.point \in Seq(P) /\ norm.hundred \in Seq(P)
         /\ norm.joiner \in Seq(P) /\ norm.ordinalSuffix \in Seq(P)
         /\ norm.units \in WordsOf(P) /\ norm.teens \in WordsOf(P) /\ norm.tens \in WordsOf(P)
         /\ norm.scales \in WordsOf(P)
         /\ \A n \in DOMAIN norm.ordinals : norm.ordinals[n] \in Seq(P)
         /\ \A c \in norm.currency : c.one \in Seq(P) /\ c.many \in Seq(P)
         /\ <<105, 101>> \in Seq(P)
BY DEF NormSays, WordsOf

LEMMA NthIs ==
  ASSUME NEW P, NEW words \in WordsOf(P), NEW d
  PROVE  Nth(words, d) \in Seq(P)
<1>1. \A k \in DOMAIN words : words[k] \in Seq(P)
  BY MemberOf DEF WordsOf
<1>2. <<>> \in Seq(P)
  OBVIOUS
<1> QED
  BY <1>1, <1>2 DEF Nth

LEMMA OrdinalIs ==
  ASSUME NEW norm, NEW P, NormSays(norm, P)
  PROVE  /\ \A w \in Seq(P) : RegularOrdinal(norm, w) \in Seq(P)
         /\ \A n : OrdinalWord(norm, n) \in Seq(P)
<1>1. ASSUME NEW w \in Seq(P) PROVE RegularOrdinal(norm, w) \in Seq(P)
  <2> DEFINE stem == IF w # <<>> /\ Last(w) = Small_y THEN Front(w) \o <<105, 101>> ELSE w
  <2>1. RegularOrdinal(norm, w) = stem \o norm.ordinalSuffix
    BY DEF RegularOrdinal
  <2>2. w # <<>> => Front(w) \in Seq(P)
    BY DEF Front
  <2>3. stem \in Seq(P)
    <3> DEFINE ie == <<105, 101>>
    <3>1. ie \in Seq(P)
      BY NormIs
    <3>2. stem = IF w # <<>> /\ Last(w) = Small_y THEN Front(w) \o ie ELSE w
      OBVIOUS
    <3> HIDE DEF ie, stem
    <3> QED
      BY <2>2, <3>1, <3>2
  <2> HIDE DEF stem
  <2> QED
    BY <2>1, <2>3, NormIs
<1>2. ASSUME NEW n PROVE OrdinalWord(norm, n) \in Seq(P)
  <2> DEFINE u == Nth(norm.units, n)
             t == Nth(norm.teens, n - 10)
             y == Nth(norm.tens, n \div 10)
             w == CASE n < 10 -> u [] n \in 10 .. 19 -> t [] OTHER -> y
  <2>1. OrdinalWord(norm, n) = IF n \in DOMAIN norm.ordinals THEN norm.ordinals[n]
                               ELSE RegularOrdinal(norm, w)
    BY DEF OrdinalWord
  <2>2. u \in Seq(P) /\ t \in Seq(P) /\ y \in Seq(P)
    BY NormIs, NthIs
  <2> HIDE DEF u, t, y
  <2>3. w \in Seq(P)
    BY <2>2
  <2> HIDE DEF w
  <2> QED
    BY <1>1, <2>1, <2>3, NormIs
<1> QED
  BY <1>1, <1>2

LEMMA OneWord ==
  ASSUME NEW P, NEW w \in Seq(P)
  PROVE  <<w>> \in WordsOf(P)
BY DEF WordsOf

LEMMA MoreWords ==
  ASSUME NEW P, NEW s \in WordsOf(P), NEW t \in WordsOf(P)
  PROVE  s \o t \in WordsOf(P)
BY DEF WordsOf

LEMMA TwoDigitsAre ==
  ASSUME NEW norm, NEW P, NormSays(norm, P), NEW n, NEW ordinal
  PROVE  TwoDigits(norm, n, ordinal) \in WordsOf(P)
<1> DEFINE Small(k) == IF ordinal THEN <<OrdinalWord(norm, k)>>
                       ELSE <<IF k < 10 THEN Nth(norm.units, k) ELSE Nth(norm.teens, k - 10)>>
           tens == Nth(norm.tens, n \div 10)
           last == IF ordinal THEN OrdinalWord(norm, n) ELSE tens
           rest == IF n % 10 = 0 THEN <<last>> ELSE <<tens>> \o Small(n % 10)
<1>1. ASSUME NEW k PROVE Small(k) \in WordsOf(P)
  <2> DEFINE w == IF k < 10 THEN Nth(norm.units, k) ELSE Nth(norm.teens, k - 10)
  <2>1. w \in Seq(P)
    BY NormIs, NthIs
  <2> HIDE DEF w
  <2>2. OrdinalWord(norm, k) \in Seq(P)
    BY OrdinalIs
  <2>3. Small(k) = <<OrdinalWord(norm, k)>> \/ Small(k) = <<w>>
    BY DEF w
  <2> HIDE DEF Small
  <2> QED
    BY <2>1, <2>2, <2>3, OneWord
<1>2. TwoDigits(norm, n, ordinal) = CASE n = 0 -> <<>> [] n \in 1 .. 19 -> Small(n) [] OTHER -> rest
  BY DEF TwoDigits
<1>3. tens \in Seq(P) /\ last \in Seq(P)
  BY NormIs, NthIs, OrdinalIs
<1> HIDE DEF Small, tens, last
<1>4. <<last>> \in WordsOf(P) /\ <<tens>> \in WordsOf(P)
  BY <1>3, OneWord
<1>5. <<tens>> \o Small(n % 10) \in WordsOf(P)
  BY <1>1, <1>4, MoreWords
<1>6. rest \in WordsOf(P)
  BY <1>4, <1>5
<1> HIDE DEF rest
<1>7. <<>> \in WordsOf(P)
  BY DEF WordsOf
<1> QED
  BY <1>1, <1>2, <1>6, <1>7

LEMMA ThreeDigitsAre ==
  ASSUME NEW norm, NEW P, NormSays(norm, P), NEW n, NEW ordinal
  PROVE  ThreeDigits(norm, n, ordinal) \in WordsOf(P)
<1> DEFINE rest == n % 100
           hundreds == Nth(norm.units, n \div 100)
           last == RegularOrdinal(norm, norm.hundred)
           joiner == IF rest > 0 /\ norm.joiner # <<>> THEN <<norm.joiner>> ELSE <<>>
           two == TwoDigits(norm, rest, ordinal)
           hundred == norm.hundred
<1>1. \/ ThreeDigits(norm, n, ordinal) = TwoDigits(norm, n, ordinal)
      \/ ThreeDigits(norm, n, ordinal) = <<hundreds, last>>
      \/ ThreeDigits(norm, n, ordinal) = <<hundreds, hundred>> \o joiner \o two
  BY DEF ThreeDigits
<1>2. hundreds \in Seq(P) /\ last \in Seq(P) /\ hundred \in Seq(P)
  BY NormIs, NthIs, OrdinalIs
<1>3. joiner \in WordsOf(P)
  BY NormIs DEF WordsOf
<1>4. two \in WordsOf(P) /\ TwoDigits(norm, n, ordinal) \in WordsOf(P)
  BY TwoDigitsAre
<1> HIDE DEF hundreds, last, joiner, two, hundred
<1>5. <<hundreds, last>> \in WordsOf(P) /\ <<hundreds, hundred>> \in WordsOf(P)
  BY <1>2 DEF WordsOf
<1>6. <<hundreds, hundred>> \o joiner \o two \in WordsOf(P)
  BY <1>3, <1>4, <1>5, MoreWords
<1> QED
  BY <1>1, <1>4, <1>5, <1>6

LEMMA DigitByDigitIs ==
  ASSUME NEW norm, NEW P, NormSays(norm, P), NEW digits, IsSequence(digits)
  PROVE  DigitByDigit(norm, digits) \in WordsOf(P)
<1> DEFINE f == DigitByDigit(norm, digits)
<1>1. f = [k \in DOMAIN digits |-> f[k]] /\ \A k \in DOMAIN digits : f[k] \in Seq(P)
  BY NormIs, NthIs DEF DigitByDigit
<1> HIDE DEF f
<1> QED
  BY <1>1, MappedIs DEF WordsOf, f

LEMMA TrimmedIs ==
  ASSUME NEW all \in Seq(Nat), all # <<>>
  PROVE  Trimmed(all) \in Seq(Nat) /\ Trimmed(all) # <<>>
<1> DEFINE nonzero == {k \in DOMAIN all : all[k] # Zero}
           n == Len(all)
           m == IF nonzero = {} THEN n ELSE Min(nonzero)
<1>1. n \in Nat /\ n >= 1 /\ nonzero \in SUBSET (1 .. n)
  OBVIOUS
<1>2. m \in 1 .. n
  <2> HIDE DEF nonzero, n
  <2>1. nonzero \in SUBSET Nat
    BY <1>1
  <2>2. CASE nonzero = {}
    BY <1>1, <2>2
  <2>3. CASE nonzero # {}
    <3>1. Min(nonzero) \in nonzero
      BY <2>1, <2>3, MinOf
    <3>2. m = Min(nonzero)
      BY <2>3
    <3> QED
      BY <1>1, <3>1, <3>2
  <2> QED
    BY <2>2, <2>3
<1>3. Trimmed(all) = SubSeq(all, m, n)
  BY DEF Trimmed
<1> HIDE DEF m
<1>4. m \in Nat /\ 1 <= m /\ n \in Int /\ n <= Len(all) /\ m <= n
  BY <1>1, <1>2
<1> HIDE DEF n
<1>5. SubSeq(all, m, n) \in Seq(Nat) /\ Len(SubSeq(all, m, n)) = IF n < m THEN 0 ELSE n - m + 1
  BY <1>4, PartOf
<1>6. Len(SubSeq(all, m, n)) >= 1
  BY <1>4, <1>5
<1> QED
  BY <1>3, <1>5, <1>6

LEMMA CardinalIs ==
  ASSUME NEW norm, NEW P, NormSays(norm, P), NEW all \in Seq(Nat), all # <<>>, NEW ordinal
  PROVE  Cardinal(norm, all, ordinal) \in WordsOf(P)
<1> DEFINE digits == Trimmed(all)
           groups == (Len(digits) + 2) \div 3
           v(g) == ValueOf(Chunk(digits, groups - g))
           scale(g) == Nth(norm.scales, groups - g)
           Group(g) == IF v(g) = 0 THEN <<>>
                       ELSE ThreeDigits(norm, v(g), ordinal /\ g = groups)
                            \o (IF scale(g) = <<>> THEN <<>> ELSE <<scale(g)>>)
           f == [g \in 1 .. groups |-> Group(g)]
           words == FlattenSeq(f)
           nothing == IF ordinal THEN OrdinalWord(norm, 0) ELSE Nth(norm.units, 0)
<1>1. Cardinal(norm, all, ordinal)
      = IF TooLong(norm, all) THEN DigitByDigit(norm, digits)
        ELSE IF words # <<>> THEN words ELSE <<nothing>>
  BY DEF Cardinal
<1>2. digits \in Seq(Nat) /\ Len(digits) \in Nat
  BY TrimmedIs
<1> HIDE DEF digits
<1>3. groups \in Nat
  BY <1>2
<1>4. ASSUME NEW g PROVE Group(g) \in WordsOf(P)
  <2> DEFINE o == ordinal /\ g = groups
             three == ThreeDigits(norm, v(g), o)
             s == IF scale(g) = <<>> THEN <<>> ELSE <<scale(g)>>
  <2>1. scale(g) \in Seq(P)
    BY NormIs, NthIs
  <2> HIDE DEF v, scale
  <2>2. s \in WordsOf(P)
    BY <2>1 DEF WordsOf
  <2>3. three \in WordsOf(P)
    BY ThreeDigitsAre
  <2>4. Group(g) = <<>> \/ Group(g) = three \o s
    OBVIOUS
  <2> HIDE DEF three, s, Group
  <2>5. three \o s \in WordsOf(P) /\ <<>> \in WordsOf(P)
    BY <2>2, <2>3, MoreWords DEF WordsOf
  <2> QED
    BY <2>4, <2>5
<1> HIDE DEF Group, groups
<1>5. words \in WordsOf(P)
  <2>1. \A g \in 1 .. groups : f[g] \in Seq(Seq(P))
    BY <1>4 DEF WordsOf
  <2>2. f \in Seq(Seq(Seq(P)))
    <3>1. f \in [1 .. groups -> Seq(Seq(P))]
      BY <2>1
    <3> HIDE DEF f
    <3> QED
      BY <1>3, <3>1
  <2> HIDE DEF f
  <2> QED
    BY <2>2, FlattenIs DEF WordsOf
<1>6. DigitByDigit(norm, digits) \in WordsOf(P)
  BY <1>2, DigitByDigitIs DEF IsSequence
<1>7. nothing \in Seq(P)
  BY NormIs, NthIs, OrdinalIs
<1> HIDE DEF words, nothing
<1>8. <<nothing>> \in WordsOf(P)
  BY <1>7, OneWord
<1> QED
  BY <1>1, <1>5, <1>6, <1>8

(* Parts of a word. *)
LEMMA WithoutIs ==
  ASSUME NEW s \in Seq(Nat), NEW c
  PROVE  Without(s, c) \in Seq(Nat)
<1> DEFINE f == [k \in DOMAIN s |-> IF s[k] = c THEN <<>> ELSE <<s[k]>>]
<1>1. \A k \in DOMAIN s : f[k] \in Seq(Nat)
  BY MemberOf
<1>2. IsSequence(s) /\ f = [k \in DOMAIN s |-> f[k]] /\ Without(s, c) = FlattenSeq(f)
  BY DEF IsSequence, Without
<1> HIDE DEF f
<1> QED
  BY <1>1, <1>2, FlattenMapped

LEMMA CutsAre ==
  ASSUME NEW s \in Seq(Nat), NEW i \in 0 .. Len(s)
  PROVE  Before(s, i) \in Seq(Nat) /\ Behind(s, i) \in Seq(Nat)
<1>1. CASE i = 0
  BY <1>1 DEF Before, Behind
<1>2. CASE i # 0
  <2>1. SubSeq(s, 1, i - 1) \in Seq(Nat)
    BY <1>2
  <2>2. SubSeq(s, i + 1, Len(s)) \in Seq(Nat)
    BY <1>2
  <2> QED
    BY <1>2, <2>1, <2>2 DEF Before, Behind
<1> QED
  BY <1>1, <1>2

LEMMA WordedIs ==
  ASSUME NEW norm, NEW P, NormSays(norm, P), NEW signs, signs \subseteq norm.currency,
         NEW whole \in Seq(Nat), NEW suffix, NEW fraction \in Seq(Nat),
         NEW words \in Worded(norm, signs, whole, suffix, fraction)
  PROVE  words \in WordsOf(P)
<1> DEFINE c == CHOOSE c \in signs : TRUE
           unit == IF whole = <<Zero + 1>> /\ fraction = <<>> THEN c.one ELSE c.many
           ordinal == suffix # <<>> /\ fraction = <<>>
                      /\ suffix \in {norm.ordinalSuffix} \cup ToSet(OrdinalTrio)
           cardinal == Cardinal(norm, whole, ordinal)
           digits == DigitByDigit(norm, fraction)
           point == IF fraction = <<>> THEN <<>> ELSE <<norm.point>> \o digits
           sign == IF signs = {} THEN <<>> ELSE <<unit>>
<1>1. whole # <<>> /\ words = cardinal \o point \o sign
  BY Zenon DEF Worded
<1>2. cardinal \in WordsOf(P)
  BY <1>1, CardinalIs
<1>3. IsSequence(fraction)
  BY DEF IsSequence
<1>4. digits \in WordsOf(P) /\ <<norm.point>> \in WordsOf(P)
  BY <1>3, DigitByDigitIs, NormIs, OneWord
<1>5. signs # {} => c \in norm.currency
  OBVIOUS
<1> HIDE DEF c
<1>6. signs # {} => unit \in Seq(P)
  BY <1>5, NormIs
<1> HIDE DEF cardinal, digits, unit
<1>7. <<norm.point>> \o digits \in WordsOf(P) /\ <<>> \in WordsOf(P)
  BY <1>4, MoreWords DEF WordsOf
<1>8. point \in WordsOf(P) /\ sign \in WordsOf(P)
  BY <1>6, <1>7, OneWord
<1> HIDE DEF point, sign
<1>9. cardinal \o point \in WordsOf(P)
  BY <1>2, <1>8, MoreWords
<1>10. (cardinal \o point) \o sign \in WordsOf(P)
  BY <1>8, <1>9, MoreWords
<1> QED
  BY <1>1, <1>10

LEMMA SplitIs ==
  ASSUME NEW norm, NEW P, NormSays(norm, P), NEW signs, signs \subseteq norm.currency,
         NEW integral \in Seq(Nat), NEW fraction \in Seq(Nat),
         NEW words \in Split(norm, signs, integral, fraction)
  PROVE  words \in WordsOf(P)
<1> DEFINE n == Len(integral)
           I == {k \in 1 .. Len(integral) : integral[k] \notin Digits}
           stop == IF I # {} THEN Min(I) ELSE 0
           suffix == IF stop = 0 THEN <<>> ELSE SubSeq(integral, stop, Len(integral))
<1>1. words \in Worded(norm, signs, Before(integral, stop), suffix, fraction)
  BY Zenon DEF Split, SelectInSeq
<1>2. I \subseteq 1 .. n /\ n \in Nat
  OBVIOUS
<1>3. stop \in 0 .. n
  <2> HIDE DEF I, n
  <2>1. stop = IF I # {} THEN Min(I) ELSE 0
    OBVIOUS
  <2> HIDE DEF stop
  <2>2. stop = 0 \/ stop \in I
    BY <1>2, <2>1, FirstIn
  <2>3. stop = 0 \/ stop \in 1 .. n
    BY <1>2, <2>2
  <2> QED
    BY <1>2, <2>3
<1> HIDE DEF stop, suffix
<1>4. Before(integral, stop) \in Seq(Nat)
  BY <1>3, CutsAre
<1> QED
  BY <1>1, <1>4, WordedIs

LEMMA UnsignedIs ==
  ASSUME NEW norm, NEW P, NormSays(norm, P), NEW signs, signs \subseteq norm.currency,
         NEW cleaned \in Seq(Nat), NEW words \in Unsigned(norm, signs, cleaned)
  PROVE  words \in WordsOf(P)
<1> DEFINE n == Len(cleaned)
           I == {k \in 1 .. Len(cleaned) : cleaned[k] = Dot}
           dot == IF I # {} THEN Min(I) ELSE 0
<1>1. words \in Split(norm, signs, Before(cleaned, dot), Behind(cleaned, dot))
  BY Zenon DEF Unsigned, SelectInSeq
<1>2. I \subseteq 1 .. n /\ n \in Nat
  OBVIOUS
<1>3. dot \in 0 .. n
  <2> HIDE DEF I, n
  <2>1. dot = IF I # {} THEN Min(I) ELSE 0
    OBVIOUS
  <2> HIDE DEF dot
  <2>2. dot = 0 \/ dot \in I
    BY <1>2, <2>1, FirstIn
  <2>3. dot = 0 \/ dot \in 1 .. n
    BY <1>2, <2>2
  <2> QED
    BY <1>2, <2>3
<1> HIDE DEF dot
<1>4. Before(cleaned, dot) \in Seq(Nat) /\ Behind(cleaned, dot) \in Seq(Nat)
  BY <1>3, CutsAre
<1> QED
  BY <1>1, <1>4, SplitIs

LEMMA NumberWordsAre ==
  ASSUME NEW norm, NEW P, NormSays(norm, P), NEW word \in Seq(Nat), word # <<>>,
         NEW words \in NumberWords(norm, word)
  PROVE  words \in WordsOf(P)
<1> DEFINE signs == {c \in norm.currency : c.sign = word[1]}
           body == IF signs = {} THEN word ELSE Tail(word)
           negative == body # <<>> /\ body[1] = Minus
           rest == IF negative THEN Tail(body) ELSE body
           cleaned == Without(rest, Comma)
           minus == IF negative THEN <<norm.negative>> ELSE <<>>
<1>1. PICK less \in Unsigned(norm, signs, cleaned) : words = minus \o less
  BY Zenon DEF NumberWords
<1>2. body \in Seq(Nat)
  OBVIOUS
<1> HIDE DEF body
<1>3. rest \in Seq(Nat)
  BY <1>2
<1> HIDE DEF rest
<1>4. cleaned \in Seq(Nat)
  BY <1>3, WithoutIs
<1>5. signs \subseteq norm.currency
  OBVIOUS
<1> HIDE DEF cleaned, signs
<1>6. less \in WordsOf(P)
  BY <1>1, <1>4, <1>5, UnsignedIs
<1>7. minus \in WordsOf(P)
  BY NormIs, OneWord DEF WordsOf
<1> QED
  BY <1>1, <1>6, <1>7, MoreWords

(* The number words of a pack, folded as they are when they are read, hold *)
(* no digit: nothing it makes of a number is a number again.               *)
Plain(raw) == {cp \in Nat : ToSet(Folded(raw, cp)) \cap Digits = {}}

SaysNoDigits(raw) == HasNorm(raw) => NormSays(raw.norm, Plain(raw))

LEMMA PlainFolds ==
  ASSUME NEW raw, PackFields(raw), NEW w \in Seq(Plain(raw))
  PROVE  FoldText(raw, w) \in Seq(Nat) /\ ToSet(FoldText(raw, w)) \cap Digits = {}
<1> DEFINE Q == Nat \ Digits
           f == [i \in DOMAIN w |-> Folded(raw, w[i])]
<1>1. ASSUME NEW i \in DOMAIN w PROVE f[i] \in Seq(Q)
  <2> DEFINE cp == w[i]
             folded == Folded(raw, cp)
  <2>1. cp \in Plain(raw)
    BY MemberOf
  <2>2. cp \in Nat /\ ToSet(folded) \cap Digits = {}
    BY <2>1 DEF Plain
  <2>3. folded \in Seq(Nat)
    BY <2>2, FoldedIs
  <2>4. f[i] = folded
    OBVIOUS
  <2> HIDE DEF folded, f
  <2>5. ToSet(folded) \subseteq Q
    <3>1. \A k \in DOMAIN folded : folded[k] \in Nat
      BY <2>3, MemberOf
    <3> QED
      BY <2>2, <3>1 DEF ToSet
  <2> QED
    BY <2>3, <2>4, <2>5, MembersIn
<1>2. IsSequence(w) /\ f = [i \in DOMAIN w |-> f[i]] /\ FoldText(raw, w) = FlattenSeq(f)
  BY DEF IsSequence, FoldText
<1> HIDE DEF f
<1>3. FoldText(raw, w) \in Seq(Q)
  <2> HIDE DEF Q
  <2> QED
    BY <1>1, <1>2, FlattenMapped
<1> DEFINE t == FoldText(raw, w)
<1> HIDE DEF t
<1>4. t \in Seq(Q)
  BY <1>3 DEF t
<1>5. \A k \in DOMAIN t : t[k] \in Q
  BY <1>4, MemberOf
<1>6. t \in Seq(Nat)
  BY <1>4
<1> QED
  BY <1>5, <1>6 DEF t, ToSet

(* What is said of a number's words in the characters P, when each of them *)
(* is answered from A.                                                     *)
LEMMA ExpandedIs ==
  ASSUME NEW raw, PackOk(raw), NEW word \in Seq(Nat), NEW say, NEW P,
         HasNorm(raw) => NormSays(raw.norm, P),
         NEW A, A \subseteq Answers(raw) \cup {Overflow},
         \A w \in Seq(P) : say[FoldText(raw, w)] \in A,
         NEW a \in Expanded(raw, word, say)
  PROVE  a \in Answers(raw) \/ (a = Overflow /\ Overflow \in A)
<1> DEFINE norm == raw.norm
           Parts(w) == <<>> \o [k \in DOMAIN w |-> say[FoldText(raw, w[k])]]
           phonesOf(said) == [k \in DOMAIN said |-> said[k].phones]
           Together(said, w) ==
             IF Overflow \in ToSet(said) THEN Overflow
             ELSE [Answer(Joined(raw, phonesOf(said)), "number") EXCEPT !.words = w]
<1>1. /\ HasNorm(raw) /\ ToSet(word) \cap Digits # {} /\ (a = Overflow \/ a.phones # <<>>)
      /\ \E w \in NumberWords(norm, word) : a = Together(Parts(w), w)
  BY Zenon DEF Expanded
<1>2. PICK w \in NumberWords(norm, word) : a = Together(Parts(w), w)
  BY <1>1
<1>3. word # <<>>
  BY <1>1 DEF ToSet
<1>4. NormSays(norm, Nat) /\ NormSays(norm, P)
  BY <1>1, FieldsSay DEF PackOk, PackFields, Loads, NormOk
<1> HIDE DEF norm
<1>5. w \in Words /\ w \in WordsOf(P)
  <2>1. w \in WordsOf(Nat)
    BY <1>2, <1>3, <1>4, NumberWordsAre
  <2> QED
    BY <1>2, <1>3, <1>4, <2>1, NumberWordsAre DEF Words, WordsOf
<1> DEFINE f == [k \in DOMAIN w |-> say[FoldText(raw, w[k])]]
<1>6. \A k \in DOMAIN w : f[k] \in A
  <2> SUFFICES ASSUME NEW k \in DOMAIN w PROVE say[FoldText(raw, w[k])] \in A
    OBVIOUS
  <2>1. w[k] \in Seq(P)
    BY <1>5, MemberOf DEF WordsOf
  <2> QED
    BY <2>1
<1>7. f \in Seq(A)
  <2>1. IsSequence(w) /\ f = [k \in DOMAIN w |-> f[k]]
    BY <1>5 DEF IsSequence, Words
  <2> HIDE DEF f
  <2> QED
    BY <1>6, <2>1, MappedIs
<1> DEFINE said == Parts(w)
<1>8. said \in Seq(A)
  <2>1. said = <<>> \o f
    OBVIOUS
  <2> HIDE DEF said, f
  <2> QED
    BY <1>7, <2>1
<1>9. a = Together(said, w)
  BY <1>2
<1> HIDE DEF said, f
<1>10. \A k \in DOMAIN said : said[k] \in A
  BY <1>8, MemberOf
<1>11. CASE Overflow \in ToSet(said)
  <2>1. Overflow \in A
    BY <1>10, <1>11 DEF ToSet
  <2> QED
    BY <1>9, <1>11, <2>1
<1>12. CASE Overflow \notin ToSet(said)
  <2> DEFINE phones == Joined(raw, phonesOf(said))
             g == phonesOf(said)
  <2>1. \A k \in DOMAIN said : g[k] \in Phones(raw)
    <3> SUFFICES ASSUME NEW k \in DOMAIN said PROVE said[k].phones \in Phones(raw)
      OBVIOUS
    <3>1. said[k] # Overflow
      BY <1>12 DEF ToSet
    <3>2. said[k] \in Answers(raw)
      BY <1>10, <3>1
    <3> QED
      BY <3>2 DEF Answers
  <2>2. g \in Seq(Phones(raw))
    <3>1. IsSequence(said) /\ g = [k \in DOMAIN said |-> g[k]]
      BY <1>8 DEF IsSequence
    <3> HIDE DEF g
    <3> QED
      BY <2>1, <3>1, MappedIs
  <2>3. phones \in Phones(raw)
    <3> HIDE DEF g
    <3>1. Joined(raw, g) \in Phones(raw)
      BY <2>2, JoinedSays
    <3> QED
      BY <3>1 DEF g
  <2>4. a = [Answer(phones, "number") EXCEPT !.words = w]
    BY <1>9, <1>12
  <2> HIDE DEF phones, g
  <2>5. a = [phones |-> phones, via |-> "number", words |-> w]
    BY <2>4 DEF Answer
  <2>6. a # Overflow
    <3>1. a.via = "number" /\ Overflow.via = "overflow"
      BY <2>5 DEF Overflow, Answer
    <3> QED
      BY <3>1
  <2>7. a.phones # <<>>
    BY <1>1, <2>6
  <2> QED
    BY <1>5, <2>3, <2>5, <2>7 DEF Answers, Vias, Words
<1> QED
  BY <1>11, <1>12

(* An expansion, if there is one, and what the ladder says if not. *)
LEMMA ClimbsEither ==
  ASSUME NEW first, NEW x
  PROVE  /\ Climb(<<first, {x}>>) \in first \cup {x}
         /\ first = {} => Climb(<<first, {x}>>) = x
<1> DEFINE rungs == <<first, {x}>>
<1>1. Len(rungs) = 2 /\ rungs[1] = first /\ rungs[2] = {x}
  OBVIOUS
<1> HIDE DEF rungs
<1>2. Len(rungs) \in Nat /\ 2 \in 1 .. Len(rungs) /\ rungs[2] # {}
  BY <1>1
<1>3. PICK i \in 1 .. Len(rungs) : Climb(rungs) \in rungs[i]
  BY <1>2, ClimbsTo
<1>4. i = 1 \/ i = 2
  BY <1>1
<1>5. Climb(rungs) \in first \/ Climb(rungs) = x
  BY <1>1, <1>3, <1>4
<1> QED
  BY <1>5 DEF rungs

(* What the words of a number are answered: the stack runs out on a number *)
(* in them, or in the words of that one, and so on.                        *)
LEMMA NestedIs ==
  ASSUME NEW raw, PackOk(raw), NEW policy, NEW w \in Seq(Nat)
  PROVE  /\ Nested(raw, policy)[w] \in Answers(raw) \cup {Overflow}
         /\ ToSet(w) \cap Digits = {} => Nested(raw, policy)[w] = Ladder(raw, w, policy)
<1> DEFINE N == StackDepth
           A == Answers(raw) \cup {Overflow}
           S == [Seq(Nat) -> A]
           Says(x, v) == Climb(<<Expanded(raw, v, x), {Ladder(raw, v, policy)}>>)
           start == [v \in Seq(Nat) |-> Overflow]
           step == [n \in 1 .. N |-> [x \in S |-> [v \in Seq(Nat) |-> Says(x, v)]]]
           Loop(l) == l = [n \in 0 .. N |->
                             [v \in Seq(Nat) |-> IF n = 0 THEN Overflow ELSE Says(l[n - 1], v)]]
           say == CHOOSE l : Loop(l)
<1>0. N \in Nat /\ N >= 1
  BY G2pAssumption
<1>1. start \in S
  OBVIOUS
<1>2. ASSUME NEW x \in S, NEW v \in Seq(Nat)
      PROVE  Says(x, v) \in A
  <2> DEFINE P == Nat
  <2>1. HasNorm(raw) => NormSays(raw.norm, P)
    BY FieldsSay DEF PackOk, PackFields, Loads, NormOk
  <2>2. \A u \in Seq(P) : x[FoldText(raw, u)] \in A
    BY FoldTextIs DEF PackOk
  <2>3. Expanded(raw, v, x) \subseteq A
    <3> SUFFICES ASSUME NEW a \in Expanded(raw, v, x) PROVE a \in A
      OBVIOUS
    <3>1. A \subseteq Answers(raw) \cup {Overflow}
      OBVIOUS
    <3> HIDE DEF A, P
    <3>2. a \in Answers(raw) \/ (a = Overflow /\ Overflow \in A)
      BY <2>1, <2>2, <3>1, ExpandedIs
    <3> QED
      BY <3>2 DEF A
  <2>4. Ladder(raw, v, policy) \in A
    BY LadderIs
  <2> QED
    BY <2>3, <2>4, ClimbsEither
<1> HIDE DEF A, N
<1>3. \A x \in S : [v \in Seq(Nat) |-> Says(x, v)] \in S
  <2> HIDE DEF Says
  <2> QED
    BY <1>2
<1> HIDE DEF Says
<1>4. \A n \in 1 .. N : \A x \in S :
        step[n][x] = [v \in Seq(Nat) |-> Says(x, v)] /\ step[n][x] \in S
  BY <1>3
<1> HIDE DEF S, start, step
<1>5. PICK g \in [0 .. N -> S] : g[0] = start /\ \A n \in 1 .. N : g[n] = step[n][g[n - 1]]
  <2>1. StaysIn(S, N, step)
    BY <1>4 DEF StaysIn
  <2>2. \E g : RunOf(g, S, N, start, step)
    BY <1>0, <1>1, <2>1, LoopRuns
  <2> QED
    BY <2>2 DEF RunOf
<1>6. Loop(g)
  <2>1. \A n \in 1 .. N : g[n] = [v \in Seq(Nat) |-> Says(g[n - 1], v)]
    <3> SUFFICES ASSUME NEW n \in 1 .. N PROVE g[n] = [v \in Seq(Nat) |-> Says(g[n - 1], v)]
      OBVIOUS
    <3>1. n - 1 \in 0 .. N
      BY <1>0
    <3>2. g[n - 1] \in S
      BY <1>5, <3>1
    <3> QED
      BY <1>4, <1>5, <3>2
  <2>2. \A n \in 0 .. N :
          g[n] = [v \in Seq(Nat) |-> IF n = 0 THEN Overflow ELSE Says(g[n - 1], v)]
    <3>1. ASSUME NEW n \in 0 .. N, n = 0
          PROVE  g[n] = [v \in Seq(Nat) |-> IF n = 0 THEN Overflow ELSE Says(g[n - 1], v)]
      BY <1>5, <3>1 DEF start
    <3>2. ASSUME NEW n \in 0 .. N, n # 0
          PROVE  g[n] = [v \in Seq(Nat) |-> IF n = 0 THEN Overflow ELSE Says(g[n - 1], v)]
      <4>1. n \in 1 .. N
        BY <1>0, <3>2
      <4>2. g[n] = [v \in Seq(Nat) |-> Says(g[n - 1], v)]
        BY <2>1, <4>1
      <4> QED
        BY <3>2, <4>2
    <3> QED
      BY <3>1, <3>2
  <2> QED
    BY <1>5, <2>2
<1>7. Loop(say)
  <2> HIDE DEF Loop
  <2> QED
    BY <1>6
<1>8. Nested(raw, policy) = say[N]
  BY DEF Nested, N, Says
<1> HIDE DEF say
<1>9. /\ say[0] = start
      /\ \A n \in 1 .. N : say[n] = [v \in Seq(Nat) |-> Says(say[n - 1], v)]
  <2>1. \A n \in 0 .. N :
          say[n] = [v \in Seq(Nat) |-> IF n = 0 THEN Overflow ELSE Says(say[n - 1], v)]
    BY <1>7
  <2>2. say[0] = start
    BY <1>0, <2>1 DEF start
  <2>3. ASSUME NEW n \in 1 .. N
        PROVE  say[n] = [v \in Seq(Nat) |-> Says(say[n - 1], v)]
    <3>1. n \in 0 .. N /\ n # 0
      BY <1>0
    <3> QED
      BY <2>1, <3>1
  <2> QED
    BY <2>2, <2>3
<1> HIDE DEF Loop
<1>10. \A n \in 0 .. N : say[n] \in S
  <2>1. \A n \in 1 .. N : say[n - 1] \in S => say[n] \in S
    BY <1>3, <1>9 DEF S
  <2> QED
    BY <1>0, <1>1, <1>9, <2>1, LoopStays
<1>11. say[N][w] = Says(say[N - 1], w) /\ say[N][w] \in A
  <2>1. N \in 1 .. N /\ N \in 0 .. N
    BY <1>0
  <2> QED
    BY <1>9, <1>10, <2>1 DEF S
<1>12. ASSUME ToSet(w) \cap Digits = {}
       PROVE  Says(say[N - 1], w) = Ladder(raw, w, policy)
  <2>1. Expanded(raw, w, say[N - 1]) = {}
    BY <1>12 DEF Expanded
  <2> QED
    BY <2>1, ClimbsEither DEF Says
<1> QED
  BY <1>8, <1>11, <1>12 DEF A

(* Every word, whatever its letters, gets an answer made of the pack's     *)
(* phonemes, and an empty one only where it is refused or the dictionary   *)
(* has it so, unless the stack runs out; and it does not, however small,   *)
(* when no number word of the pack holds a digit.                          *)
THEOREM EveryWordIsAnswered ==
  ASSUME NEW raw, PackOk(raw), NEW original \in Seq(Nat \cup {Malformed}), NEW policy
  PROVE  /\ Pronounce(raw, original, policy) \in Answers(raw) \cup {Overflow}
         /\ SaysNoDigits(raw) => Pronounce(raw, original, policy) \in Answers(raw)
<1> DEFINE cps == [k \in DOMAIN original |-> Cp(original[k])]
           word == FoldText(raw, cps)
           below == IF policy = "refuse" THEN "spell" ELSE policy
           say == Nested(raw, below)
           first == Expanded(raw, word, say)
           ladder == Ladder(raw, word, policy)
<1>1. cps \in Seq(Nat)
  <2>1. \A k \in DOMAIN original : original[k] \in Nat \cup {Malformed}
    OBVIOUS
  <2>2. \A k \in DOMAIN original : cps[k] \in Nat
    BY <2>1 DEF Cp, Replacement
  <2>3. IsSequence(original) /\ cps = [k \in DOMAIN original |-> cps[k]]
    BY DEF IsSequence
  <2> HIDE DEF cps
  <2> QED
    BY <2>2, <2>3, MappedIs
<1>2. Pronounce(raw, original, policy) = Climb(<<first, {ladder}>>)
  BY DEF Pronounce, PronounceFolded
<1> HIDE DEF cps
<1>3. word \in Seq(Nat)
  BY <1>1, FoldTextIs DEF PackOk
<1> HIDE DEF word, below
<1>4. ladder \in Answers(raw)
  BY <1>3, LadderIs
<1>5. \A v \in Seq(Nat) : /\ say[v] \in Answers(raw) \cup {Overflow}
                          /\ ToSet(v) \cap Digits = {} => say[v] \in Answers(raw)
  BY NestedIs, LadderIs
<1> HIDE DEF say
<1>6. first \subseteq Answers(raw) \cup {Overflow}
  <2> DEFINE P == Nat
             A == Answers(raw) \cup {Overflow}
  <2>1. HasNorm(raw) => NormSays(raw.norm, P)
    BY FieldsSay DEF PackOk, PackFields, Loads, NormOk
  <2>2. \A w \in Seq(P) : say[FoldText(raw, w)] \in A
    BY <1>5, FoldTextIs DEF PackOk
  <2>3. A \subseteq Answers(raw) \cup {Overflow}
    OBVIOUS
  <2> HIDE DEF P, A
  <2> QED
    BY <1>3, <2>1, <2>2, <2>3, ExpandedIs
<1>7. ASSUME SaysNoDigits(raw) PROVE first \subseteq Answers(raw)
  <2> DEFINE P == Plain(raw)
             A == Answers(raw)
  <2>1. HasNorm(raw) => NormSays(raw.norm, P)
    BY <1>7 DEF SaysNoDigits
  <2>2. \A w \in Seq(P) : say[FoldText(raw, w)] \in A
    BY <1>5, PlainFolds DEF PackOk
  <2>3. A \subseteq Answers(raw) \cup {Overflow} /\ Overflow \notin A
    BY DEF Overflow, Answer, Answers, Vias
  <2> HIDE DEF P, A
  <2>4. first \subseteq Answers(raw) \/ Overflow \in A
    BY <1>3, <2>1, <2>2, <2>3, ExpandedIs
  <2> QED
    BY <2>3, <2>4
<1> HIDE DEF first, ladder
<1> QED
  BY <1>2, <1>4, <1>6, <1>7, ClimbsEither

-----------------------------------------------------------------------------
(* Flattening part by part.                                                *)

LEMMA SequencesIn ==
  ASSUME NEW S, NEW s \in Seq(S)
  PROVE  IsSequence(s)
BY DEF IsSequence

LEMMA AppendIs ==
  ASSUME NEW S, NEW s \in Seq(S), NEW e \in S
  PROVE  /\ Append(s, e) = s \o <<e>> /\ Append(s, e) \in Seq(S) /\ <<e>> \in Seq(S)
         /\ Append(s, e) # <<>>
OBVIOUS

LEMMA ReplacedIs ==
  ASSUME NEW S, NEW s \in Seq(S), NEW e \in S, NEW n \in 1 .. Len(s)
  PROVE  /\ [s EXCEPT ![n] = e] \in Seq(S) /\ Len([s EXCEPT ![n] = e]) = Len(s)
         /\ DOMAIN [s EXCEPT ![n] = e] = 1 .. Len(s) /\ [s EXCEPT ![n] = e][n] = e
         /\ \A k \in 1 .. n - 1 : [s EXCEPT ![n] = e][k] = s[k]
OBVIOUS

LEMMA FrontAndLast ==
  ASSUME NEW S, NEW s \in Seq(S), s # <<>>
  PROVE  /\ Front(s) \in Seq(S) /\ Last(s) \in S /\ Len(Front(s)) = Len(s) - 1
         /\ \A k \in 1 .. Len(s) - 1 : Front(s)[k] = s[k]
         /\ Last(s) = s[Len(s)] /\ Len(s) \in Nat \ {0}
         /\ s = Front(s) \o <<Last(s)>>
BY DEF Front, Last

(* A prefix, and the prefix that is one longer. *)
LEMMA PrefixGrows ==
  ASSUME NEW S, NEW s \in Seq(S), NEW k \in 0 .. Len(s) - 1
  PROVE  /\ SubSeq(s, 1, k) \in Seq(S) /\ s[k + 1] \in S /\ k + 1 \in 1 .. Len(s)
         /\ SubSeq(s, 1, k + 1) = SubSeq(s, 1, k) \o <<s[k + 1]>>
<1>1. SubSeq(s, 1, k) \in Seq(S) /\ s[k + 1] \in S /\ k + 1 \in 1 .. Len(s)
  OBVIOUS
<1>2. SubSeq(s, 1, k + 1) = SubSeq(s, 1, k) \o <<s[k + 1]>>
  OBVIOUS
<1> QED
  BY <1>1, <1>2

LEMMA FlattenJoins ==
  ASSUME NEW S, NEW s \in Seq(Seq(S)), NEW t \in Seq(Seq(S))
  PROVE  FlattenSeq(s \o t) = FlattenSeq(s) \o FlattenSeq(t)
<1> DEFINE n == Len(t)
           p(k) == SubSeq(t, 1, k)
           Good == {k \in Nat : k <= n => FlattenSeq(s \o p(k)) = FlattenSeq(s) \o FlattenSeq(p(k))}
<1>1. n \in Nat
  OBVIOUS
<1>2. FlattenSeq(s) \in Seq(S)
  BY FlattenIs
<1>3. 0 \in Good
  <2>1. p(0) = <<>> /\ s \o <<>> = s
    OBVIOUS
  <2> DEFINE f == FlattenSeq(s)
  <2>2. f \in Seq(S)
    BY <1>2
  <2> HIDE DEF f
  <2>3. f \o <<>> = f
    BY <2>2
  <2> QED
    BY <2>1, <2>3, FlattenShort DEF f
<1>4. ASSUME NEW k \in Nat, k \in Good
      PROVE  k + 1 \in Good
  <2> SUFFICES ASSUME k + 1 <= n
               PROVE  FlattenSeq(s \o p(k + 1)) = FlattenSeq(s) \o FlattenSeq(p(k + 1))
    OBVIOUS
  <2> DEFINE q == p(k)
             x == t[k + 1]
  <2>1. q \in Seq(Seq(S)) /\ x \in Seq(S) /\ p(k + 1) = q \o <<x>>
    <3>1. k \in 0 .. Len(t) - 1
      BY <1>1
    <3> QED
      BY <3>1, PrefixGrows
  <2>2. FlattenSeq(s \o q) = FlattenSeq(s) \o FlattenSeq(q)
    BY <1>1, <1>4
  <2> HIDE DEF q, x, p, n, Good
  <2>3. FlattenSeq(q \o <<x>>) = FlattenSeq(q) \o x /\ FlattenSeq(q) \in Seq(S)
    BY <2>1, SequencesIn, FlattenAppends, FlattenIs
  <2> DEFINE sq == s \o q
  <2>4. sq \in Seq(Seq(S)) /\ s \o (q \o <<x>>) = sq \o <<x>>
    <3> DEFINE P == Seq(S)
               one == <<x>>
    <3>1. s \in Seq(P) /\ q \in Seq(P) /\ one \in Seq(P)
      BY <2>1
    <3> HIDE DEF P, one
    <3>2. s \o q \in Seq(P)
      BY <3>1
    <3>3. (s \o q) \o one = s \o (q \o one)
      BY <3>1, JoinsAssociate, SMTT(20)
    <3> QED
      BY <3>2, <3>3 DEF P, one
  <2> HIDE DEF sq
  <2>5. FlattenSeq(sq \o <<x>>) = FlattenSeq(sq) \o x
    BY <2>1, <2>4, SequencesIn, FlattenAppends
  <2> DEFINE fs == FlattenSeq(s)
             fq == FlattenSeq(q)
  <2>6. fs \in Seq(S) /\ fq \in Seq(S) /\ FlattenSeq(sq) = fs \o fq
    BY <1>2, <2>2, <2>3 DEF sq
  <2> HIDE DEF fs, fq
  <2>7. (fs \o fq) \o x = fs \o (fq \o x)
    <3>1. fs \in Seq(S) /\ fq \in Seq(S) /\ x \in Seq(S)
      BY <2>1, <2>6
    <3> QED
      BY <3>1, JoinsAssociate, SMTT(20)
  <2> QED
    BY <2>1, <2>3, <2>4, <2>5, <2>6, <2>7 DEF fs, fq
<1>5. n \in Good
  <2> HIDE DEF Good
  <2> QED
    BY <1>1, <1>3, <1>4, NumbersFollow
<1>6. p(n) = t /\ n <= n
  OBVIOUS
<1>7. FlattenSeq(s \o p(n)) = FlattenSeq(s) \o FlattenSeq(p(n))
  <2> HIDE DEF p, n
  <2> QED
    BY <1>5, <1>6
<1> QED
  BY <1>6, <1>7, Zenon

(* What m makes of each member. *)
Maps(m, T, S) == \A x \in T : m[x] \in S
Over(m, s) == [k \in DOMAIN s |-> m[s[k]]]

LEMMA OverIs ==
  ASSUME NEW T, NEW S, NEW m, Maps(m, T, S), NEW s \in Seq(T)
  PROVE  Over(m, s) \in Seq(S) /\ Len(Over(m, s)) = Len(s)
         /\ \A k \in 1 .. Len(s) : Over(m, s)[k] = m[s[k]]
<1>1. \A k \in DOMAIN s : m[s[k]] \in S
  BY DEF Maps
<1>2. Over(m, s) = [k \in DOMAIN s |-> Over(m, s)[k]] /\ \A k \in DOMAIN s : Over(m, s)[k] = m[s[k]]
  BY DEF Over
<1> HIDE DEF Over
<1>3. Over(m, s) \in Seq(S) /\ Len(Over(m, s)) = Len(s)
  BY <1>1, <1>2, SequencesIn, MappedIs
<1> QED
  BY <1>2, <1>3

LEMMA OverJoins ==
  ASSUME NEW T, NEW S, NEW m, Maps(m, T, S), NEW s \in Seq(T), NEW t \in Seq(T)
  PROVE  Over(m, s \o t) = Over(m, s) \o Over(m, t)
<1> DEFINE st == s \o t
           f == Over(m, s)
           g == Over(m, t)
           l == Over(m, st)
           r == f \o g
           a == Len(s)
           b == Len(t)
<1>1. /\ st \in Seq(T) /\ Len(st) = a + b /\ a \in Nat /\ b \in Nat
      /\ \A i \in 1 .. a : st[i] = s[i]
      /\ \A i \in 1 .. b : st[a + i] = t[i]
  BY JoinedIs
<1>2a. f \in Seq(S) /\ Len(f) = a /\ \A i \in 1 .. a : f[i] = m[s[i]]
  BY OverIs
<1>2b. g \in Seq(S) /\ Len(g) = b /\ \A i \in 1 .. b : g[i] = m[t[i]]
  BY OverIs
<1> HIDE DEF st, f, g
<1>3. l \in Seq(S) /\ Len(l) = Len(st) /\ \A i \in 1 .. Len(st) : l[i] = m[st[i]]
  <2>1. st \in Seq(T)
    BY <1>1
  <2> QED
    BY <2>1, OverIs
<1>4. /\ r \in Seq(S) /\ Len(r) = Len(f) + Len(g)
      /\ \A i \in 1 .. Len(f) : r[i] = f[i]
      /\ \A i \in 1 .. Len(g) : r[Len(f) + i] = g[i]
  <2>1. f \in Seq(S) /\ g \in Seq(S)
    BY <1>2a, <1>2b
  <2> QED
    BY <2>1, JoinedIs
<1> HIDE DEF a, b, l, r
<1>5. \A i \in 1 .. a + b : l[i] = r[i]
  <2> SUFFICES ASSUME NEW i \in 1 .. a + b PROVE l[i] = r[i]
    OBVIOUS
  <2>1. CASE i \in 1 .. a
    <3>1. l[i] = m[st[i]] /\ st[i] = s[i]
      BY <1>1, <1>3, <2>1
    <3>2. r[i] = f[i] /\ f[i] = m[s[i]]
      BY <1>2a, <1>4, <2>1
    <3> QED
      BY <3>1, <3>2
  <2>2. CASE i \notin 1 .. a
    <3> DEFINE k == i - a
    <3>1. k \in 1 .. b /\ i = a + k
      BY <1>1, <2>2
    <3> HIDE DEF k
    <3>2. l[i] = m[st[a + k]] /\ st[a + k] = t[k]
      BY <1>1, <1>3, <3>1
    <3>3. r[a + k] = g[k] /\ g[k] = m[t[k]]
      BY <1>2a, <1>2b, <1>4, <3>1
    <3> QED
      BY <3>1, <3>2, <3>3
  <2> QED
    BY <2>1, <2>2
<1>6. l = r
  BY <1>1, <1>2a, <1>2b, <1>3, <1>4, <1>5, SequencesIn, SameSequence
<1> QED
  BY <1>6 DEF l, r, st, f, g

(* Flattening what m makes of a sequence that is joined. *)
LEMMA FlatOver ==
  ASSUME NEW T, NEW S, NEW m, Maps(m, T, Seq(S)), NEW s \in Seq(T), NEW t \in Seq(T)
  PROVE  /\ FlattenSeq(Over(m, s)) \in Seq(S)
         /\ FlattenSeq(Over(m, s \o t)) = FlattenSeq(Over(m, s)) \o FlattenSeq(Over(m, t))
<1>1. Over(m, s) \in Seq(Seq(S)) /\ Over(m, t) \in Seq(Seq(S))
  <2> DEFINE P == Seq(S)
  <2>1. Maps(m, T, P)
    OBVIOUS
  <2> HIDE DEF P
  <2>2. Over(m, s) \in Seq(P) /\ Over(m, t) \in Seq(P)
    BY <2>1, OverIs
  <2> QED
    BY <2>2 DEF P
<1>2. Over(m, s \o t) = Over(m, s) \o Over(m, t)
  <2> DEFINE P == Seq(S)
  <2>1. Maps(m, T, P)
    OBVIOUS
  <2> HIDE DEF P
  <2> QED
    BY <2>1, OverJoins
<1> HIDE DEF Over
<1> QED
  BY <1>1, <1>2, FlattenIs, FlattenJoins

-----------------------------------------------------------------------------
(* The text and the phones of tokens.                                      *)

Units == Nat \cup {Malformed}

(* Tokens as they are read, and as they are said. *)
HasText(T)        == \A t \in T : t.gap \in Seq(Units) /\ t.text \in Seq(Units)
HasPhones(raw, T) == \A t \in T : t.gapPhones \in Phones(raw) /\ t.phones \in Phones(raw)

LEMMA TextJoins ==
  ASSUME NEW T, HasText(T), NEW a \in Seq(T), NEW b \in Seq(T)
  PROVE  TextOf(a) \in Seq(Units) /\ TextOf(a \o b) = TextOf(a) \o TextOf(b)
<1> DEFINE m == [t \in T |-> t.gap \o t.text]
<1>1. \A s \in Seq(T) : TextOf(s) = FlattenSeq(Over(m, s))
  <2> SUFFICES ASSUME NEW s \in Seq(T) PROVE TextOf(s) = FlattenSeq(Over(m, s))
    OBVIOUS
  <2>1. \A k \in DOMAIN s : s[k] \in T
    OBVIOUS
  <2>2. \A k \in DOMAIN s : m[s[k]] = s[k].gap \o s[k].text
    BY <2>1
  <2> HIDE DEF m
  <2>3. Over(m, s) = [k \in DOMAIN s |-> s[k].gap \o s[k].text]
    BY <2>2 DEF Over
  <2> QED
    BY <2>3 DEF TextOf
<1>2. Maps(m, T, Seq(Units))
  <2> SUFFICES ASSUME NEW t \in T PROVE t.gap \o t.text \in Seq(Units)
    BY DEF Maps
  <2> DEFINE g == t.gap
             x == t.text
  <2>1. g \in Seq(Units) /\ x \in Seq(Units)
    BY DEF HasText
  <2> HIDE DEF g, x
  <2>2. g \o x \in Seq(Units)
    BY <2>1
  <2> QED
    BY <2>2 DEF g, x
<1>3. a \o b \in Seq(T)
  OBVIOUS
<1> HIDE DEF m
<1>4. /\ FlattenSeq(Over(m, a)) \in Seq(Units)
      /\ FlattenSeq(Over(m, a \o b)) = FlattenSeq(Over(m, a)) \o FlattenSeq(Over(m, b))
  BY <1>2, FlatOver
<1> QED
  BY <1>1, <1>3, <1>4

LEMMA TextOne == \A t : TextOf(<<t>>) = t.gap \o t.text
<1> TAKE t
<1> DEFINE x == t.gap \o t.text
           s == <<t>>
           m == [u \in {t} |-> x]
<1>1. TextOf(<<t>>) = FlattenSeq(<<x>>)
  <2>1. s \in Seq({t}) /\ Len(s) = 1 /\ DOMAIN s = {1} /\ s[1] = t
    OBVIOUS
  <2>2. Maps(m, {t}, {x}) /\ m[t] = x
    BY DEF Maps
  <2> HIDE DEF s, m
  <2>3. [k \in DOMAIN s |-> s[k].gap \o s[k].text] = Over(m, s)
    BY <2>1, <2>2 DEF Over
  <2> HIDE DEF x
  <2>4. Over(m, s) \in Seq({x}) /\ Len(Over(m, s)) = 1 /\ Over(m, s)[1] = x
    BY <2>1, <2>2, OverIs
  <2>5. Over(m, s) = <<x>>
    BY <2>4
  <2> QED
    BY <2>3, <2>5 DEF TextOf, s
<1> QED
  BY <1>1, FlattenShort

LEMMA TextNone == TextOf(<<>>) = <<>> /\ PhonesOf(<<>>) = <<>>
<1>1. [k \in DOMAIN <<>> |-> <<>>[k].gap \o <<>>[k].text] = <<>>
  OBVIOUS
<1>2. [k \in DOMAIN <<>> |-> <<>>[k].gapPhones \o <<>>[k].phones] = <<>>
  OBVIOUS
<1> QED
  BY <1>1, <1>2, FlattenShort DEF TextOf, PhonesOf

LEMMA PhonesJoin ==
  ASSUME NEW raw, NEW T, HasPhones(raw, T), NEW a \in Seq(T), NEW b \in Seq(T)
  PROVE  PhonesOf(a) \in Phones(raw) /\ PhonesOf(a \o b) = PhonesOf(a) \o PhonesOf(b)
<1> DEFINE m == [t \in T |-> t.gapPhones \o t.phones]
           P == PhoneIds(raw)
<1>1. \A s \in Seq(T) : PhonesOf(s) = FlattenSeq(Over(m, s))
  <2> SUFFICES ASSUME NEW s \in Seq(T) PROVE PhonesOf(s) = FlattenSeq(Over(m, s))
    OBVIOUS
  <2>1. \A k \in DOMAIN s : s[k] \in T
    OBVIOUS
  <2>2. \A k \in DOMAIN s : m[s[k]] = s[k].gapPhones \o s[k].phones
    BY <2>1
  <2> HIDE DEF m
  <2>3. Over(m, s) = [k \in DOMAIN s |-> s[k].gapPhones \o s[k].phones]
    BY <2>2 DEF Over
  <2> QED
    BY <2>3 DEF PhonesOf
<1>2. Maps(m, T, Seq(P))
  <2> SUFFICES ASSUME NEW t \in T PROVE t.gapPhones \o t.phones \in Seq(P)
    BY DEF Maps
  <2> DEFINE g == t.gapPhones
             x == t.phones
  <2>1. g \in Seq(P) /\ x \in Seq(P)
    BY DEF HasPhones, Phones
  <2> HIDE DEF g, x, P
  <2>2. g \o x \in Seq(P)
    BY <2>1
  <2> QED
    BY <2>2 DEF g, x
<1>3. a \o b \in Seq(T)
  OBVIOUS
<1> HIDE DEF m, P
<1>4. /\ FlattenSeq(Over(m, a)) \in Seq(P)
      /\ FlattenSeq(Over(m, a \o b)) = FlattenSeq(Over(m, a)) \o FlattenSeq(Over(m, b))
  BY <1>2, FlatOver
<1> QED
  BY <1>1, <1>3, <1>4 DEF Phones, P

-----------------------------------------------------------------------------
(* Reading a text.                                                         *)

ReadTokens(raw) ==
  [gap : Seq(Units), gapPhones : Phones(raw), text : Seq(Units), sentence : Nat]

ReadFields(raw) ==
  [gap : Seq(Units), gapPhones : Phones(raw), inWord : BOOLEAN, tokens : Seq(ReadTokens(raw)),
   sentences : Seq(Seq(Units)), sentenceText : Seq(Units), hasWords : BOOLEAN]

(* The sentences of the tokens never go back, and the one that is still    *)
(* being read has words as soon as a token is in it.                       *)
Ascend(tokens) ==
  \A j, k \in DOMAIN tokens : j <= k => tokens[j].sentence <= tokens[k].sentence

Within(tokens, last, open) ==
  \A k \in DOMAIN tokens : tokens[k].sentence <= last /\ (tokens[k].sentence = last => open)

Readings(raw) ==
  {acc \in ReadFields(raw) :
     /\ acc.gap = <<>> => acc.gapPhones = <<>>
     /\ acc.inWord => acc.gap = <<>> /\ acc.tokens # <<>>
     /\ Ascend(acc.tokens) /\ Within(acc.tokens, Len(acc.sentences), acc.hasWords)}

TextRead(acc) == TextOf(acc.tokens) \o acc.gap

LEMMA InGapReads ==
  ASSUME NEW raw, PackOk(raw), NEW unit \in Units, NEW acc \in Readings(raw)
  PROVE  /\ InGap(raw, unit, acc) \in Readings(raw)
         /\ TextRead(InGap(raw, unit, acc)) = TextRead(acc) \o <<unit>>
<1> DEFINE said == Spoken(raw, Cp(unit))
           text == Append(acc.sentenceText, unit)
           ends == Cp(unit) \in raw.meta.sentenceEnd /\ acc.hasWords
           gap == Append(acc.gap, unit)
           gapPhones == acc.gapPhones \o said
           sentences == IF ends THEN Append(acc.sentences, text) ELSE acc.sentences
           sentenceText == IF ends THEN <<>> ELSE text
           hasWords == acc.hasWords /\ ~ends
           next == InGap(raw, unit, acc)
<1>1. /\ acc \in ReadFields(raw) /\ acc.gap \in Seq(Units) /\ acc.gapPhones \in Phones(raw)
      /\ acc.tokens \in Seq(ReadTokens(raw)) /\ acc.sentences \in Seq(Seq(Units))
      /\ acc.sentenceText \in Seq(Units) /\ acc.hasWords \in BOOLEAN
  BY DEF Readings, ReadFields
<1>2. said \in Phones(raw)
  BY SpokenIs
<1>3. gap \in Seq(Units) /\ text \in Seq(Units)
  BY <1>1
<1>4. gapPhones \in Phones(raw)
  <2> HIDE DEF said
  <2> QED
    BY <1>1, <1>2 DEF Phones
<1>5. next = [gap |-> gap, gapPhones |-> gapPhones, inWord |-> FALSE, tokens |-> acc.tokens,
              sentences |-> sentences, sentenceText |-> sentenceText, hasWords |-> hasWords]
  <2>1. next = [acc EXCEPT !.gap = gap, !.inWord = FALSE, !.gapPhones = gapPhones,
                           !.hasWords = hasWords, !.sentences = sentences,
                           !.sentenceText = sentenceText]
    BY DEF InGap
  <2> HIDE DEF next, gap, gapPhones, hasWords, sentences, sentenceText
  <2> QED
    BY <1>1, <2>1 DEF ReadFields
<1>6. sentences \in Seq(Seq(Units)) /\ sentenceText \in Seq(Units) /\ hasWords \in BOOLEAN
  <2> DEFINE S == Seq(Units)
  <2>1. text \in S /\ acc.sentences \in Seq(S)
    BY <1>1, <1>3
  <2> HIDE DEF S, text
  <2>2. Append(acc.sentences, text) \in Seq(S)
    BY <2>1
  <2>3. <<>> \in Seq(Units)
    OBVIOUS
  <2> QED
    BY <1>3, <2>1, <2>2, <2>3 DEF S, text
<1>7. Within(acc.tokens, Len(sentences), hasWords)
  <2>1. /\ ends => acc.hasWords /\ Len(sentences) = Len(acc.sentences) + 1
        /\ ~ends => Len(sentences) = Len(acc.sentences) /\ hasWords = acc.hasWords
        /\ Len(acc.sentences) \in Nat
    <3> HIDE DEF text
    <3> QED
      BY <1>1
  <2> DEFINE l == Len(acc.sentences)
             m == Len(sentences)
  <2>2. Within(acc.tokens, l, acc.hasWords)
    BY DEF Readings
  <2>3. \A k \in DOMAIN acc.tokens : acc.tokens[k].sentence \in Nat
    <3>1. \A k \in DOMAIN acc.tokens : acc.tokens[k] \in ReadTokens(raw)
      BY <1>1
    <3> QED
      BY <3>1 DEF ReadTokens
  <2>4. CASE ends
    <3>1. m = l + 1 /\ l \in Nat
      BY <2>1, <2>4
    <3> HIDE DEF l, m, hasWords, ends
    <3> QED
      BY <2>2, <2>3, <3>1 DEF Within, m
  <2>5. CASE ~ends
    <3>1. m = l /\ hasWords = acc.hasWords
      BY <2>1, <2>5
    <3> HIDE DEF l, m, hasWords, ends
    <3> QED
      BY <2>2, <3>1 DEF m
  <2> QED
    BY <2>4, <2>5
<1> HIDE DEF said, text, ends, gapPhones, sentences, sentenceText, hasWords
<1>8. next \in ReadFields(raw)
  BY <1>1, <1>3, <1>4, <1>5, <1>6 DEF ReadFields
<1>9. Ascend(acc.tokens)
  BY DEF Readings
<1>10. next \in Readings(raw)
  <2>1. gap # <<>>
    BY <1>1, AppendIs
  <2> HIDE DEF gap
  <2> QED
    BY <1>5, <1>7, <1>8, <1>9, <2>1 DEF Readings
<1>11. TextOf(acc.tokens) \in Seq(Units)
  <2>1. HasText(ReadTokens(raw))
    BY DEF HasText, ReadTokens
  <2> QED
    BY <1>1, <2>1, TextJoins
<1> DEFINE x == TextOf(acc.tokens)
           g == acc.gap
<1>12. x \in Seq(Units) /\ g \in Seq(Units) /\ gap = g \o <<unit>> /\ <<unit>> \in Seq(Units)
  BY <1>1, <1>11, AppendIs
<1> HIDE DEF x, g, gap
<1>13. x \o gap = (x \o g) \o <<unit>>
  <2> DEFINE one == <<unit>>
  <2>1. one \in Seq(Units) /\ gap = g \o one
    BY <1>12
  <2> HIDE DEF one
  <2>2. x \o gap = (x \o g) \o one
    BY <1>12, <2>1, JoinsAssociate, SMTT(20)
  <2> QED
    BY <2>2 DEF one
<1>14. TextRead(next) = x \o gap
  BY <1>5 DEF TextRead, x
<1> QED
  BY <1>10, <1>13, <1>14 DEF TextRead, x, g

LEMMA TokensHaveText == \A raw : HasText(ReadTokens(raw))
BY DEF HasText, ReadTokens

LEMMA OpensTokenReads ==
  ASSUME NEW raw, NEW unit \in Units, NEW acc \in Readings(raw)
  PROVE  /\ OpensToken(unit, acc) \in Readings(raw)
         /\ TextRead(OpensToken(unit, acc)) = TextRead(acc) \o <<unit>>
<1> DEFINE one == <<unit>>
           last == Len(acc.sentences)
           token == [gap |-> acc.gap, gapPhones |-> acc.gapPhones, text |-> one, sentence |-> last]
           tokens == Append(acc.tokens, token)
           sentenceText == Append(acc.sentenceText, unit)
           next == OpensToken(unit, acc)
           T == ReadTokens(raw)
           yes == TRUE
<1>1. /\ acc \in ReadFields(raw) /\ acc.gap \in Seq(Units) /\ acc.gapPhones \in Phones(raw)
      /\ acc.tokens \in Seq(T) /\ acc.sentences \in Seq(Seq(Units))
      /\ acc.sentenceText \in Seq(Units) /\ acc.hasWords \in BOOLEAN
      /\ Ascend(acc.tokens) /\ Within(acc.tokens, last, acc.hasWords)
  BY DEF Readings, ReadFields
<1>2. one \in Seq(Units) /\ sentenceText \in Seq(Units) /\ last \in Nat
  BY <1>1
<1> HIDE DEF one, last, sentenceText
<1>3. token \in T
  BY <1>1, <1>2 DEF ReadTokens
<1>4. next = [gap |-> <<>>, gapPhones |-> <<>>, inWord |-> TRUE, tokens |-> tokens,
              sentences |-> acc.sentences, sentenceText |-> sentenceText, hasWords |-> yes]
  <2>1. next = [acc EXCEPT !.gap = <<>>, !.gapPhones = <<>>, !.inWord = TRUE, !.hasWords = yes,
                           !.tokens = tokens, !.sentenceText = sentenceText]
    BY DEF OpensToken, one, last, sentenceText
  <2> HIDE DEF next, tokens
  <2> QED
    BY <1>1, <2>1 DEF ReadFields
<1> DEFINE old == acc.tokens
           n == Len(old)
<1>5. /\ token.sentence = last /\ token.gap = acc.gap /\ token.text = one
      /\ tokens \in Seq(T) /\ tokens = old \o <<token>> /\ <<token>> \in Seq(T)
      /\ n \in Nat /\ DOMAIN old = 1 .. n /\ DOMAIN tokens = 1 .. n + 1
      /\ tokens[n + 1] = token /\ \A k \in 1 .. n : tokens[k] = old[k]
  <2> HIDE DEF token, T
  <2>1. /\ tokens \in Seq(T) /\ tokens = old \o <<token>> /\ <<token>> \in Seq(T)
    BY <1>1, <1>3, AppendIs
  <2>2. /\ n \in Nat /\ DOMAIN old = 1 .. n /\ DOMAIN tokens = 1 .. n + 1
        /\ tokens[n + 1] = token /\ \A k \in 1 .. n : tokens[k] = old[k]
    BY <1>1, <1>3
  <2> QED
    BY <2>1, <2>2 DEF token
<1>6. \A k \in 1 .. n : old[k].sentence \in Nat /\ old[k].sentence <= last
  <2>1. \A k \in 1 .. n : old[k] \in T
    BY <1>1
  <2> QED
    BY <1>1, <1>5, <2>1 DEF ReadTokens, Within
<1> HIDE DEF token, tokens, T
<1>7. Within(tokens, last, yes)
  <2>1. \A k \in 1 .. n + 1 : tokens[k].sentence <= last
    <3> SUFFICES ASSUME NEW k \in 1 .. n + 1 PROVE tokens[k].sentence <= last
      OBVIOUS
    <3>1. k \in 1 .. n \/ k = n + 1
      BY <1>5
    <3> QED
      BY <1>2, <1>5, <1>6, <3>1
  <2> QED
    BY <1>5, <2>1 DEF Within
<1>8. Ascend(tokens)
  <2> SUFFICES ASSUME NEW j \in 1 .. n + 1, NEW k \in 1 .. n + 1, j <= k
               PROVE  tokens[j].sentence <= tokens[k].sentence
    BY <1>5 DEF Ascend
  <2>1. CASE k = n + 1
    <3>1. j \in 1 .. n \/ j = n + 1
      BY <1>5
    <3> QED
      BY <1>2, <1>5, <1>6, <2>1, <3>1
  <2>2. CASE k # n + 1
    <3>1. j \in 1 .. n /\ k \in 1 .. n
      BY <1>5, <2>2
    <3> QED
      BY <1>1, <1>5, <3>1 DEF Ascend
  <2> QED
    BY <2>1, <2>2
<1>9. next \in Readings(raw)
  <2>0. yes \in BOOLEAN
    OBVIOUS
  <2> HIDE DEF yes, next
  <2>1. <<>> \in Seq(Units) /\ <<>> \in Phones(raw)
    BY DEF Phones
  <2>2. tokens \in Seq(ReadTokens(raw))
    BY <1>5 DEF T
  <2>3. next \in ReadFields(raw)
    BY <1>1, <1>2, <1>4, <2>0, <2>1, <2>2 DEF ReadFields
  <2>4. tokens # <<>>
    <3>1. 1 \in 1 .. n + 1
      BY <1>5
    <3> QED
      BY <1>5, <3>1
  <2> QED
    BY <1>4, <1>7, <1>8, <2>3, <2>4 DEF Readings, last
<1> DEFINE x == TextOf(old)
           g == acc.gap
<1>10. TextOf(tokens) = x \o (g \o one) /\ x \in Seq(Units)
  <2>1. HasText(T)
    BY TokensHaveText DEF T
  <2> DEFINE ts == <<token>>
  <2>2. TextOf(ts) = g \o one
    BY <1>5, TextOne
  <2>3. old \in Seq(T) /\ ts \in Seq(T) /\ tokens = old \o ts
    BY <1>1, <1>5
  <2> HIDE DEF ts, old
  <2>4. TextOf(old \o ts) = TextOf(old) \o TextOf(ts) /\ TextOf(old) \in Seq(Units)
    BY <2>1, <2>3, TextJoins
  <2> QED
    BY <2>2, <2>3, <2>4
<1>11. TextRead(next) = TextOf(tokens)
  <2>1. TextRead(next) = TextOf(tokens) \o <<>>
    BY <1>4 DEF TextRead
  <2> DEFINE y == TextOf(tokens)
  <2>2. y \in Seq(Units)
    <3>1. HasText(T)
      BY TokensHaveText DEF T
    <3> QED
      BY <1>5, <3>1, TextJoins
  <2> HIDE DEF y
  <2>3. y \o <<>> = y
    BY <2>2
  <2> QED
    BY <2>1, <2>3 DEF y
<1>12. g \in Seq(Units)
  BY <1>1
<1> HIDE DEF x, g
<1>13. (x \o g) \o one = x \o (g \o one)
  <2>1. x \in Seq(Units)
    BY <1>10
  <2>2. one \in Seq(Units)
    BY <1>2
  <2> QED
    BY <2>1, <2>2, <1>12, JoinsAssociate
<1>14. TextRead(acc) = x \o g
  BY DEF TextRead, x, g
<1> QED
  BY <1>9, <1>10, <1>11, <1>13, <1>14 DEF one

LEMMA ExtendsTokenReads ==
  ASSUME NEW raw, NEW unit \in Units, NEW acc \in Readings(raw), acc.inWord
  PROVE  /\ ExtendsToken(unit, acc) \in Readings(raw)
         /\ TextRead(ExtendsToken(unit, acc)) = TextRead(acc) \o <<unit>>
<1> DEFINE T == ReadTokens(raw)
           old == acc.tokens
           n == Len(old)
           front == Front(old)
           token == old[n]
           text == Append(token.text, unit)
           longer == [token EXCEPT !.text = text]
           tokens == [old EXCEPT ![n] = longer]
           sentenceText == Append(acc.sentenceText, unit)
           next == ExtendsToken(unit, acc)
<1>1. /\ acc \in ReadFields(raw) /\ old \in Seq(T) /\ old # <<>> /\ acc.gap = <<>>
      /\ acc.sentenceText \in Seq(Units)
      /\ Ascend(old) /\ Within(old, Len(acc.sentences), acc.hasWords)
      /\ acc.gap = <<>> => acc.gapPhones = <<>>
  BY DEF Readings, ReadFields
<1>2. /\ n \in Nat \ {0} /\ DOMAIN old = 1 .. n /\ token \in T
      /\ front \in Seq(T) /\ old = front \o <<token>> /\ Len(front) = n - 1
      /\ \A k \in 1 .. n - 1 : front[k] = old[k]
  <2> HIDE DEF T, old
  <2>1. old \in Seq(T) /\ old # <<>>
    BY <1>1
  <2>2. /\ Front(old) \in Seq(T) /\ Last(old) \in T /\ Len(Front(old)) = Len(old) - 1
        /\ \A k \in 1 .. Len(old) - 1 : Front(old)[k] = old[k]
        /\ Last(old) = old[Len(old)] /\ Len(old) \in Nat \ {0}
        /\ old = Front(old) \o <<Last(old)>>
    BY <2>1, FrontAndLast
  <2>3. DOMAIN old = 1 .. n
    BY <2>1
  <2> QED
    BY <2>2, <2>3
<1>3. sentenceText \in Seq(Units)
  BY <1>1
<1>4. token.text \in Seq(Units) /\ token.gap \in Seq(Units)
  BY <1>2 DEF ReadTokens
<1>5. text = token.text \o <<unit>> /\ text \in Seq(Units) /\ <<unit>> \in Seq(Units)
  BY <1>4, AppendIs
<1> HIDE DEF text, sentenceText
<1>6. /\ longer \in T /\ longer.gap = token.gap /\ longer.text = text
      /\ longer.sentence = token.sentence
  BY <1>2, <1>5 DEF ReadTokens
<1>7. next = [gap |-> acc.gap, gapPhones |-> acc.gapPhones, inWord |-> acc.inWord,
              tokens |-> tokens, sentences |-> acc.sentences, sentenceText |-> sentenceText,
              hasWords |-> acc.hasWords]
  <2>1. next = [acc EXCEPT !.tokens = tokens, !.sentenceText = sentenceText]
    BY DEF ExtendsToken, text, sentenceText
  <2> HIDE DEF next, tokens
  <2> QED
    BY <1>1, <2>1 DEF ReadFields
<1> HIDE DEF T, longer, token, old
<1>8. /\ tokens \in Seq(T) /\ DOMAIN tokens = 1 .. n /\ tokens[n] = longer /\ Len(tokens) = n
      /\ \A k \in 1 .. n - 1 : tokens[k] = old[k]
  <2>1. n \in 1 .. Len(old) /\ old \in Seq(T) /\ longer \in T
    BY <1>1, <1>2, <1>6
  <2> QED
    BY <2>1, ReplacedIs
<1>9. tokens = front \o <<longer>> /\ <<longer>> \in Seq(T)
  <2> HIDE DEF tokens, n, front
  <2> DEFINE f == front \o <<longer>>
  <2>1. /\ f \in Seq(T) /\ Len(f) = n /\ f[n] = longer /\ \A k \in 1 .. n - 1 : f[k] = front[k]
        /\ <<longer>> \in Seq(T)
    BY <1>2, <1>6
  <2> HIDE DEF f
  <2>2. \A k \in 1 .. n : tokens[k] = f[k]
    <3> SUFFICES ASSUME NEW k \in 1 .. n PROVE tokens[k] = f[k]
      OBVIOUS
    <3>1. k \in 1 .. n - 1 \/ k = n
      BY <1>2
    <3> QED
      BY <1>2, <1>8, <2>1, <3>1
  <2>3. tokens = f
    BY <1>8, <2>1, <2>2, SequencesIn, SameSequence
  <2> QED
    BY <2>1, <2>3 DEF f
<1>10. \A k \in 1 .. n : tokens[k].sentence = old[k].sentence
  <2> HIDE DEF tokens, n, front, next
  <2> SUFFICES ASSUME NEW k \in 1 .. n PROVE tokens[k].sentence = old[k].sentence
    OBVIOUS
  <2>1. k \in 1 .. n - 1 \/ k = n
    BY <1>2
  <2> QED
    BY <1>6, <1>8, <2>1 DEF token
<1> HIDE DEF tokens, n, front
<1>11. Ascend(tokens) /\ Within(tokens, Len(acc.sentences), acc.hasWords)
  <2>1. Ascend(tokens)
    BY <1>1, <1>2, <1>8, <1>10 DEF Ascend
  <2>2. Within(tokens, Len(acc.sentences), acc.hasWords)
    BY <1>1, <1>2, <1>8, <1>10 DEF Within
  <2> QED
    BY <2>1, <2>2
<1>12. next \in Readings(raw)
  <2>1. tokens \in Seq(ReadTokens(raw))
    BY <1>8 DEF T
  <2>2. next \in ReadFields(raw)
    BY <1>1, <1>3, <1>7, <2>1 DEF ReadFields
  <2>3. tokens # <<>>
    BY <1>2, <1>8
  <2> QED
    BY <1>1, <1>7, <1>11, <2>2, <2>3 DEF Readings
<1> DEFINE x == TextOf(front)
           g == token.gap
           t == token.text
           one == <<unit>>
<1>13. /\ TextOf(tokens) = x \o (g \o text) /\ TextOf(old) = x \o (g \o t)
       /\ x \in Seq(Units) /\ TextOf(tokens) \in Seq(Units) /\ TextOf(old) \in Seq(Units)
  <2>1. HasText(T)
    BY TokensHaveText DEF T
  <2> DEFINE ts == <<longer>>
             us == <<token>>
  <2>2. TextOf(ts) = g \o text /\ TextOf(us) = g \o t
    BY <1>6, TextOne
  <2>3. /\ front \in Seq(T) /\ ts \in Seq(T) /\ tokens = front \o ts
        /\ us \in Seq(T) /\ old = front \o us /\ tokens \in Seq(T) /\ old \in Seq(T)
    BY <1>1, <1>2, <1>8, <1>9
  <2> HIDE DEF ts, us
  <2>4. TextOf(front \o ts) = TextOf(front) \o TextOf(ts) /\ TextOf(front) \in Seq(Units)
    BY <2>1, <2>3, TextJoins
  <2>5. TextOf(front \o us) = TextOf(front) \o TextOf(us)
    BY <2>1, <2>3, TextJoins
  <2>6. TextOf(tokens) \in Seq(Units)
    BY <2>1, <2>3, TextJoins
  <2>7. TextOf(old) \in Seq(Units)
    BY <2>1, <2>3, TextJoins
  <2> QED
    BY <2>2, <2>3, <2>4, <2>5, <2>6, <2>7
<1>14. TextRead(next) = TextOf(tokens) /\ TextRead(acc) = TextOf(old)
  <2>1. TextRead(next) = TextOf(tokens) \o <<>> /\ TextRead(acc) = TextOf(old) \o <<>>
    BY <1>1, <1>7 DEF TextRead, old
  <2> DEFINE y == TextOf(tokens)
             z == TextOf(old)
  <2>2. y \in Seq(Units) /\ z \in Seq(Units)
    BY <1>13
  <2> HIDE DEF y, z
  <2>3. y \o <<>> = y /\ z \o <<>> = z
    BY <2>2
  <2> QED
    BY <2>1, <2>3 DEF y, z
<1>15. g \in Seq(Units) /\ t \in Seq(Units) /\ one \in Seq(Units) /\ text = t \o one
  BY <1>4, <1>5
<1> HIDE DEF x, g, t, one
<1>16. (x \o (g \o t)) \o one = x \o (g \o text)
  <2> DEFINE gt == g \o t
  <2>1. gt \in Seq(Units) /\ gt \o one = g \o (t \o one)
    BY <1>15, JoinsAssociate, JoinedIs
  <2> HIDE DEF gt
  <2>2. (x \o gt) \o one = x \o (gt \o one)
    <3>1. x \in Seq(Units) /\ gt \in Seq(Units) /\ one \in Seq(Units)
      BY <1>13, <1>15, <2>1
    <3> QED
      BY <3>1, JoinsAssociate
  <2> QED
    BY <1>15, <2>1, <2>2 DEF gt
<1> QED
  BY <1>12, <1>13, <1>14, <1>16 DEF one

LEMMA ReadsOn ==
  ASSUME NEW raw, PackOk(raw), NEW text \in Seq(Units), NEW i \in 1 .. Len(text),
         NEW acc \in Readings(raw)
  PROVE  /\ Reads(raw, text, i, acc) \in Readings(raw)
         /\ TextRead(Reads(raw, text, i, acc)) = TextRead(acc) \o <<text[i]>>
<1> DEFINE unit == text[i]
<1>1. unit \in Units
  <2> DEFINE U == Units
  <2> HIDE DEF U
  <2> QED
    BY MemberOf DEF U
<1>2. \/ acc.inWord /\ Reads(raw, text, i, acc) = ExtendsToken(unit, acc)
      \/ Reads(raw, text, i, acc) = OpensToken(unit, acc)
      \/ Reads(raw, text, i, acc) = InGap(raw, unit, acc)
  BY DEF Reads
<1> HIDE DEF unit
<1>3. CASE acc.inWord /\ Reads(raw, text, i, acc) = ExtendsToken(unit, acc)
  BY <1>1, <1>3, ExtendsTokenReads DEF unit
<1>4. CASE Reads(raw, text, i, acc) = OpensToken(unit, acc)
  BY <1>1, <1>4, OpensTokenReads DEF unit
<1>5. CASE Reads(raw, text, i, acc) = InGap(raw, unit, acc)
  BY <1>1, <1>5, InGapReads DEF unit
<1> QED
  BY <1>2, <1>3, <1>4, <1>5

(* The whole text is read: what the tokens and the last gap hold is it. *)
LEMMA ScanReads ==
  ASSUME NEW raw, PackOk(raw), NEW text \in Seq(Units)
  PROVE  Scan(raw, text) \in Readings(raw) /\ TextRead(Scan(raw, text)) = text
<1> DEFINE N == Len(text)
           S == Readings(raw)
           start == NothingRead
           step == [n \in 1 .. N |-> [x \in S |-> Reads(raw, text, n, x)]]
           Loop(g) == g = [n \in 0 .. N |-> IF n = 0 THEN start ELSE Reads(raw, text, n, g[n - 1])]
           read == CHOOSE g : Loop(g)
<1>0. N \in Nat
  OBVIOUS
<1>1. start \in S /\ start.tokens = <<>> /\ start.gap = <<>>
  <2>1. <<>> \in Seq(Units) /\ <<>> \in Seq(Seq(Units)) /\ <<>> \in Seq(ReadTokens(raw))
    OBVIOUS
  <2>2. <<>> \in Phones(raw)
    BY DEF Phones
  <2>3. start \in ReadFields(raw)
    BY <2>1, <2>2 DEF ReadFields, NothingRead
  <2>4. Ascend(start.tokens) /\ Within(start.tokens, Len(start.sentences), start.hasWords)
    BY DEF Ascend, Within, NothingRead
  <2> QED
    BY <2>3, <2>4 DEF Readings, NothingRead
<1>2. ASSUME NEW n \in 1 .. N, NEW x \in S PROVE Reads(raw, text, n, x) \in S
  BY ReadsOn
<1>3. \A n \in 1 .. N : \A x \in S : step[n][x] = Reads(raw, text, n, x)
  OBVIOUS
<1>4. StaysIn(S, N, step)
  BY <1>2 DEF StaysIn
<1>5. Scan(raw, text) = read[N]
  BY DEF Scan
<1> HIDE DEF start, step, N, S, read
<1>7. PICK g : RunOf(g, S, N, start, step)
  BY <1>0, <1>1, <1>4, LoopRuns
<1>8. Loop(g)
  <2>1. g \in [0 .. N -> S] /\ g[0] = start /\ \A n \in 1 .. N : g[n] = step[n][g[n - 1]]
    BY <1>7 DEF RunOf
  <2>2. \A n \in 1 .. N : g[n - 1] \in S
    BY <1>0, <2>1
  <2>3. \A n \in 1 .. N : g[n] = Reads(raw, text, n, g[n - 1])
    BY <1>3, <2>1, <2>2
  <2>4. \A n \in 0 .. N : g[n] = IF n = 0 THEN start ELSE Reads(raw, text, n, g[n - 1])
    BY <1>0, <2>1, <2>3
  <2> QED
    BY <2>1, <2>4
<1>9. Loop(read)
  <2> HIDE DEF Loop
  <2> QED
    BY <1>8 DEF read
<1>10. read[0] = start /\ \A n \in 1 .. N : read[n] = Reads(raw, text, n, read[n - 1])
  BY <1>0, <1>9
<1> DEFINE Good == {n \in Nat : n <= N => /\ read[n] \in S
                                           /\ TextRead(read[n]) = SubSeq(text, 1, n)}
<1>11. 0 \in Good
  <2>1. TextRead(start) = <<>> /\ SubSeq(text, 1, 0) = <<>>
    BY <1>1, TextNone DEF TextRead
  <2> QED
    BY <1>1, <1>10, <2>1
<1>12. ASSUME NEW n \in Nat, n \in Good
       PROVE  n + 1 \in Good
  <2> HIDE DEF Loop
  <2> SUFFICES ASSUME n + 1 <= N
               PROVE  read[n + 1] \in S /\ TextRead(read[n + 1]) = SubSeq(text, 1, n + 1)
    OBVIOUS
  <2> DEFINE i == n + 1
             acc == read[n]
  <2>1. acc \in S /\ TextRead(acc) = SubSeq(text, 1, n) /\ i \in 1 .. N
    BY <1>0, <1>12
  <2>2. read[i] = Reads(raw, text, i, acc)
    BY <1>10, <2>1
  <2>3. SubSeq(text, 1, n + 1) = SubSeq(text, 1, n) \o <<text[n + 1]>>
    <3> DEFINE U == Units
    <3>1. text \in Seq(U) /\ n \in 0 .. Len(text) - 1
      BY <1>0 DEF N
    <3> HIDE DEF U
    <3> QED
      BY <3>1, PrefixGrows
  <2> HIDE DEF i, acc
  <2>4. i \in 1 .. Len(text) /\ acc \in Readings(raw)
    BY <2>1 DEF N, S
  <2>5. Reads(raw, text, i, acc) \in S /\ TextRead(Reads(raw, text, i, acc)) = TextRead(acc) \o <<text[i]>>
    BY <2>4, ReadsOn DEF S
  <2> QED
    BY <2>1, <2>2, <2>3, <2>5 DEF i
<1>13. N \in Good
  <2> HIDE DEF Good, Loop
  <2> QED
    BY <1>0, <1>11, <1>12, NumbersFollow
<1>14. SubSeq(text, 1, N) = text
  BY DEF N
<1> QED
  BY <1>0, <1>5, <1>13, <1>14 DEF S

-----------------------------------------------------------------------------
(* What is said of a text.                                                 *)

Said(raw) ==
  {t \in [gap : Seq(Units), gapPhones : Phones(raw), text : Seq(Units), sentence : Nat,
          phones : Phones(raw), via : Vias, words : Words] :
     t.phones = <<>> => t.via \in Silent(raw)}

(* An utterance of text: what it says, and that it is whole. *)
Utters(raw, text, policy, result) ==
  /\ result.tokens \in Seq(Said(raw)) /\ result.sentences \in Seq(Seq(Units))
  /\ result.trailing \in Seq(Units) /\ result.trailingPhones \in Phones(raw)
  /\ result.trailing = <<>> => result.trailingPhones = <<>>
  /\ Tiles(result, text)
  /\ Ascend(result.tokens)
  /\ \A k \in DOMAIN result.tokens : result.tokens[k].sentence < Len(result.sentences)
  /\ result.deferred = DeferredOf(result.tokens, policy)

LEMMA PronouncedIs ==
  ASSUME NEW raw, PackOk(raw), NEW token \in ReadTokens(raw), NEW answer \in Answers(raw)
  PROVE  /\ Pronounced(token, answer) \in Said(raw)
         /\ Pronounced(token, answer).gap = token.gap /\ Pronounced(token, answer).text = token.text
         /\ Pronounced(token, answer).sentence = token.sentence
BY DEF Pronounced, ReadTokens, Answers, Said, Words

LEMMA RunUtters ==
  ASSUME NEW raw, PackOk(raw), NEW text \in Seq(Units), NEW policy,
         ~Overflows(Run(raw, text, policy))
  PROVE  Utters(raw, text, policy, Run(raw, text, policy))
<1> DEFINE read == Scan(raw, text)
           old == read.tokens
           answer(k) == Pronounce(raw, old[k].text, policy)
           tokens == [k \in DOMAIN old |-> Pronounced(old[k], answer(k))]
           open == read.hasWords \/ read.sentenceText # <<>>
           more == Append(read.sentences, read.sentenceText)
           sentences == IF open THEN more ELSE read.sentences
           result == Run(raw, text, policy)
<1>1. read \in Readings(raw) /\ TextRead(read) = text
  BY ScanReads
<1>2. result = [tokens |-> tokens, sentences |-> sentences, trailing |-> read.gap,
                trailingPhones |-> read.gapPhones, deferred |-> DeferredOf(tokens, policy)]
  BY DEF Run, Spoke, Outcome
<1>2a. /\ result.tokens = tokens /\ result.sentences = sentences /\ result.trailing = read.gap
       /\ result.trailingPhones = read.gapPhones /\ result.deferred = DeferredOf(tokens, policy)
  <2> HIDE DEF result, tokens, sentences, read
  <2> QED
    BY <1>2
<1>2b. ~Overflows(result)
  OBVIOUS
<1> HIDE DEF read, result
<1>3. /\ old \in Seq(ReadTokens(raw)) /\ read.sentences \in Seq(Seq(Units))
      /\ read.gap \in Seq(Units) /\ read.gapPhones \in Phones(raw) /\ read.sentenceText \in Seq(Units)
      /\ read.gap = <<>> => read.gapPhones = <<>>
      /\ Ascend(old) /\ Within(old, Len(read.sentences), read.hasWords)
  BY <1>1 DEF Readings, ReadFields
<1>4. ASSUME NEW k \in DOMAIN old
      PROVE  /\ old[k] \in ReadTokens(raw) /\ tokens[k] \in Said(raw)
             /\ tokens[k].gap = old[k].gap /\ tokens[k].text = old[k].text
             /\ tokens[k].sentence = old[k].sentence
  <2> DEFINE token == old[k]
             a == answer(k)
  <2>1. token \in ReadTokens(raw)
    BY <1>3
  <2>2. token.text \in Seq(Nat \cup {Malformed})
    BY <2>1 DEF ReadTokens, Units
  <2>4. tokens[k] = Pronounced(token, a)
    OBVIOUS
  <2>5. a # Overflow
    <3>1. tokens[k].via = a.via /\ Overflow.via = "overflow"
      BY <2>4 DEF Pronounced, Overflow, Answer
    <3>2. tokens[k].via # "overflow"
      <4>1. k \in DOMAIN tokens
        OBVIOUS
      <4> HIDE DEF tokens
      <4> QED
        BY <1>2b, <1>2a, <4>1 DEF Overflows
    <3> QED
      BY <3>1, <3>2
  <2>3. a \in Answers(raw)
    BY <2>2, <2>5, EveryWordIsAnswered
  <2> HIDE DEF token, a, tokens
  <2> QED
    BY <2>1, <2>3, <2>4, PronouncedIs DEF token
<1>5. DOMAIN tokens = DOMAIN old /\ tokens = [k \in DOMAIN old |-> tokens[k]]
  OBVIOUS
<1> HIDE DEF tokens, answer
<1>6. tokens \in Seq(Said(raw))
  BY <1>3, <1>4, <1>5, SequencesIn, MappedIs
<1>7. TextOf(tokens) = TextOf(old)
  <2>1. [k \in DOMAIN tokens |-> tokens[k].gap \o tokens[k].text]
        = [k \in DOMAIN old |-> old[k].gap \o old[k].text]
    BY <1>4, <1>5
  <2> HIDE DEF old
  <2> QED
    BY <2>1 DEF TextOf
<1>8. Tiles(result, text)
  BY <1>1, <1>2a, <1>7 DEF Tiles, TextRead
<1>9. Ascend(tokens)
  BY <1>3, <1>4, <1>5 DEF Ascend
<1> DEFINE l == Len(read.sentences)
           m == Len(sentences)
<1>10. /\ sentences \in Seq(Seq(Units)) /\ l \in Nat
       /\ m = IF open THEN l + 1 ELSE l
  <2> DEFINE S == Seq(Units)
             e == read.sentenceText
  <2>1. read.sentences \in Seq(S) /\ e \in S
    BY <1>3
  <2> HIDE DEF S, e
  <2>2. Append(read.sentences, e) \in Seq(S) /\ Len(Append(read.sentences, e)) = Len(read.sentences) + 1
        /\ Len(read.sentences) \in Nat
    BY <2>1
  <2> QED
    BY <2>1, <2>2 DEF S, e
<1>11. \A k \in DOMAIN tokens : tokens[k].sentence < m
  <2> SUFFICES ASSUME NEW k \in DOMAIN old PROVE old[k].sentence < m
    BY <1>4, <1>5
  <2>1. old[k].sentence \in Nat
    BY <1>4 DEF ReadTokens
  <2>2. old[k].sentence <= l /\ (old[k].sentence = l => read.hasWords)
    BY <1>3 DEF Within
  <2>3. old[k].sentence = l => m = l + 1
    BY <1>10, <2>2
  <2>4. m = l \/ m = l + 1
    BY <1>10
  <2> HIDE DEF m, l
  <2> QED
    BY <1>10, <2>1, <2>2, <2>3, <2>4
<1> HIDE DEF sentences, open
<1>12. Utters(raw, text, policy, result)
  BY <1>2a, <1>3, <1>6, <1>8, <1>9, <1>10, <1>11 DEF Utters
<1> QED
  BY <1>12 DEF result

(* What run makes of a text is whole, unless the stack runs out on it:     *)
(* tokens and trailing text tile it unit for unit, the tokens stand in the *)
(* order of their sentences, each in one that run has, and silence is      *)
(* accounted for; and it does not run out when no number word of the pack  *)
(* holds a digit.                                                          *)
THEOREM EveryTextIsUttered ==
  ASSUME NEW raw, PackOk(raw), NEW text \in Seq(Units), NEW policy
  PROVE  /\ Overflows(Run(raw, text, policy)) \/ Utters(raw, text, policy, Run(raw, text, policy))
         /\ SaysNoDigits(raw) => ~Overflows(Run(raw, text, policy))
<1> DEFINE old == Scan(raw, text).tokens
           answer(k) == Pronounce(raw, old[k].text, policy)
           tokens == [k \in DOMAIN old |-> Pronounced(old[k], answer(k))]
           result == Run(raw, text, policy)
<1>1. result.tokens = tokens
  BY DEF Run, Spoke, Outcome
<1>2. old \in Seq(ReadTokens(raw))
  BY ScanReads DEF Readings, ReadFields
<1>3. ASSUME SaysNoDigits(raw), NEW k \in DOMAIN old
      PROVE  tokens[k].via # "overflow"
  <2> DEFINE token == old[k]
             a == answer(k)
  <2>1. token \in ReadTokens(raw)
    BY <1>2
  <2>2. token.text \in Seq(Nat \cup {Malformed})
    BY <2>1 DEF ReadTokens, Units
  <2>3. a \in Answers(raw)
    BY <1>3, <2>2, EveryWordIsAnswered
  <2>4. tokens[k] = Pronounced(token, a)
    OBVIOUS
  <2> HIDE DEF token, a, tokens
  <2> QED
    BY <2>3, <2>4 DEF Pronounced, Answers, Vias
<1>4. DOMAIN tokens = DOMAIN old
  OBVIOUS
<1> HIDE DEF tokens, old, result, answer
<1>5. SaysNoDigits(raw) => ~Overflows(result)
  BY <1>1, <1>3, <1>4 DEF Overflows
<1> QED
  BY <1>5, RunUtters DEF result

-----------------------------------------------------------------------------
(* Taking the tokens of a sentence.                                        *)

(* s is what comes before a, then part, its n next, and the rest. *)
SplitsAt(S, s, a, n, part) ==
  /\ part \in Seq(S) /\ Len(part) = n /\ \A k \in 1 .. n : part[k] = s[a + k]
  /\ SubSeq(s, 1, a) \in Seq(S) /\ SubSeq(s, 1, a + n) = SubSeq(s, 1, a) \o part

LEMMA PartIsPart ==
  ASSUME NEW S, NEW s \in Seq(S), NEW a \in 0 .. Len(s), NEW n \in 0 .. Len(s) - a, NEW rest,
         rest = SubSeq(s, a + 1, Len(s))
  PROVE  /\ rest \in Seq(S) /\ Len(rest) \in Nat /\ Len(rest) = Len(s) - a
         /\ \A k \in 1 .. Len(s) - a : rest[k] = s[a + k]
         /\ SplitsAt(S, s, a, n, SubSeq(rest, 1, n))
<1> DEFINE l == Len(s)
           part == SubSeq(rest, 1, n)
           head == SubSeq(s, 1, a)
           whole == SubSeq(s, 1, a + n)
           both == head \o part
<1>1. l \in Nat /\ a \in Nat /\ n \in Nat /\ a <= l /\ a + n <= l
  OBVIOUS
<1>2. rest \in Seq(S) /\ Len(rest) = l - a /\ \A k \in 1 .. l - a : rest[k] = s[a + k]
  OBVIOUS
<1>3. part \in Seq(S) /\ Len(part) = n /\ \A k \in 1 .. n : part[k] = s[a + k]
  <2>1. part \in Seq(S) /\ Len(part) = n /\ \A k \in 1 .. n : part[k] = rest[k]
    BY <1>1, <1>2
  <2> HIDE DEF part, l
  <2>2. ASSUME NEW k \in 1 .. n PROVE part[k] = s[a + k]
    <3>1. k \in 1 .. l - a
      BY <1>1
    <3> QED
      BY <1>2, <2>1, <3>1
  <2> QED
    BY <2>1, <2>2
<1>4. head \in Seq(S) /\ Len(head) = a /\ \A k \in 1 .. a : head[k] = s[k]
  BY <1>1
<1>5. whole \in Seq(S) /\ Len(whole) = a + n /\ \A k \in 1 .. a + n : whole[k] = s[k]
  BY <1>1
<1> HIDE DEF part, head, whole, l
<1>6. /\ both \in Seq(S) /\ Len(both) = Len(head) + Len(part)
      /\ \A i \in 1 .. Len(head) : both[i] = head[i]
      /\ \A i \in 1 .. Len(part) : both[Len(head) + i] = part[i]
  <2>1. head \in Seq(S) /\ part \in Seq(S)
    BY <1>3, <1>4
  <2> QED
    BY <2>1, JoinedIs
<1> HIDE DEF both
<1>7. \A k \in 1 .. a + n : whole[k] = both[k]
  <2> SUFFICES ASSUME NEW k \in 1 .. a + n PROVE whole[k] = both[k]
    OBVIOUS
  <2>1. CASE k \in 1 .. a
    BY <1>4, <1>5, <1>6, <2>1
  <2>2. CASE k \notin 1 .. a
    <3> DEFINE i == k - a
    <3>1. i \in 1 .. n /\ k = a + i
      BY <1>1, <2>2
    <3> HIDE DEF i
    <3>2. both[a + i] = part[i] /\ part[i] = s[a + i]
      BY <1>3, <1>4, <1>6, <3>1
    <3> QED
      BY <1>5, <3>1, <3>2
  <2> QED
    BY <2>1, <2>2
<1>8. whole = both
  BY <1>3, <1>4, <1>5, <1>6, <1>7, SequencesIn, SameSequence
<1>9. Len(rest) \in Nat
  BY <1>2
<1>10. part \in Seq(S) /\ head \in Seq(S) /\ whole = head \o part
  BY <1>3, <1>4, <1>8 DEF both
<1>11. Len(part) = n /\ \A k \in 1 .. n : part[k] = s[a + k]
  BY <1>3
<1>12. rest \in Seq(S) /\ Len(rest) = Len(s) - a /\ \A k \in 1 .. Len(s) - a : rest[k] = s[a + k]
  BY <1>2 DEF l
<1> HIDE DEF both
<1>13. SplitsAt(S, s, a, n, part)
  BY <1>10, <1>11 DEF SplitsAt, head, whole
<1> QED
  BY <1>9, <1>12, <1>13 DEF part

(* How many positions open s in the sentence, at the most.                 *)
OpenersOf(s, next) == Max({m \in 0 .. Len(s) : \A k \in 1 .. m : s[k].sentence = next})

LEMMA OpenersAre ==
  ASSUME NEW s, Len(s) \in Nat, NEW next
  PROVE  /\ OpenersOf(s, next) \in 0 .. Len(s)
         /\ \A k \in 1 .. OpenersOf(s, next) : s[k].sentence = next
         /\ OpenersOf(s, next) < Len(s) => s[OpenersOf(s, next) + 1].sentence # next
<1> DEFINE r == Len(s)
           T == {m \in 0 .. Len(s) : \A k \in 1 .. m : s[k].sentence = next}
           n == OpenersOf(s, next)
<1>1. r \in Nat /\ T \subseteq 0 .. r /\ 0 \in T /\ n = Max(T)
  BY DEF OpenersOf
<1>2. n \in T /\ \A m \in T : n >= m
  <2> HIDE DEF T, n, r
  <2>1. T # {}
    BY <1>1
  <2>2. Max(T) \in T /\ \A y \in T : Max(T) >= y
    BY <1>1, <2>1, MaxOf
  <2> QED
    BY <1>1, <2>2
<1> HIDE DEF n
<1>3. n \in 0 .. Len(s) /\ \A k \in 1 .. n : s[k].sentence = next
  BY <1>2
<1>4. ASSUME n < Len(s), s[n + 1].sentence = next PROVE FALSE
  <2>1. \A k \in 1 .. n + 1 : s[k].sentence = next
    <3> SUFFICES ASSUME NEW k \in 1 .. n + 1 PROVE s[k].sentence = next
      OBVIOUS
    <3>1. k \in 1 .. n \/ k = n + 1
      BY <1>3
    <3> QED
      BY <1>3, <1>4, <3>1
  <2>2. n + 1 \in 0 .. Len(s)
    BY <1>3, <1>4
  <2>3. n + 1 \in T
    BY <2>1, <2>2
  <2>4. n >= n + 1
    <3> HIDE DEF T
    <3> QED
      BY <1>2, <2>3
  <2> QED
    BY <1>3, <2>4
<1> QED
  BY <1>3, <1>4 DEF n

(* s ascends, is below next up to a, next for n more and then no longer.   *)
LiesAt(s, l, a, n, next) ==
  /\ a + n <= l
  /\ \A k \in 1 .. l : s[k] \in Nat
  /\ \A j, k \in 1 .. l : j <= k => s[j] <= s[k]
  /\ \A k \in 1 .. l : k <= a <=> s[k] < next
  /\ \A k \in 1 .. n : s[a + k] = next
  /\ a + n < l => s[a + n + 1] # next

LEMMA TakenAre ==
  ASSUME NEW l \in Nat, NEW a \in Nat, NEW n \in Nat, NEW next \in Nat, NEW s,
         LiesAt(s, l, a, n, next)
  PROVE  \A k \in 1 .. l : /\ k <= a + n <=> s[k] < next + 1
                           /\ s[k] = next <=> k \in a + 1 .. a + n
<1> USE DEF LiesAt
<1>1. ASSUME NEW k \in 1 .. l
      PROVE  /\ k <= a + n <=> s[k] < next + 1
             /\ s[k] = next <=> k \in a + 1 .. a + n
  <2>1. CASE k <= a
    BY <2>1
  <2>2. CASE k > a /\ k <= a + n
    <3> DEFINE i == k - a
    <3>1. i \in 1 .. n /\ a + i = k
      BY <2>2
    <3> HIDE DEF i
    <3>2. s[k] = next
      BY <3>1
    <3> QED
      BY <2>2, <3>2
  <2>3. CASE k > a + n
    <3> DEFINE j == a + n + 1
    <3>1. j \in 1 .. l /\ j > a /\ j <= k /\ a + n < l
      BY <2>3
    <3>2. s[j] # next
      BY <3>1
    <3> HIDE DEF j
    <3>3. s[j] \in Nat /\ ~ (s[j] < next) /\ s[j] <= s[k] /\ s[k] \in Nat
      BY <3>1
    <3>4. s[k] > next
      BY <3>2, <3>3
    <3> QED
      BY <2>3, <3>3, <3>4
  <2> QED
    BY <2>1, <2>2, <2>3
<1> QED
  BY <1>1

Numbered(tokens)        == \A k \in DOMAIN tokens : tokens[k].sentence \in Nat
SaidBefore(tokens, a, next) == \A k \in DOMAIN tokens : k <= a <=> tokens[k].sentence < next

(* The tokens that open what is left are all that are in the sentence.     *)
LEMMA SentenceTaken ==
  ASSUME NEW S, NEW tokens \in Seq(S), Numbered(tokens),
         Ascend(tokens), NEW next \in Nat, NEW a \in 0 .. Len(tokens), SaidBefore(tokens, a, next),
         NEW rest, rest = SubSeq(tokens, a + 1, Len(tokens))
  PROVE  /\ OpenersOf(rest, next) \in 0 .. Len(tokens) - a
         /\ \A k \in DOMAIN tokens :
              /\ k <= a + OpenersOf(rest, next) <=> tokens[k].sentence < next + 1
              /\ tokens[k].sentence = next <=> k \in a + 1 .. a + OpenersOf(rest, next)
<1> DEFINE l == Len(tokens)
           n == OpenersOf(rest, next)
           s == [k \in 1 .. l |-> tokens[k].sentence]
<1>1. l \in Nat /\ a \in Nat /\ a <= l /\ DOMAIN tokens = 1 .. l
  OBVIOUS
<1>2. /\ Len(rest) = l - a /\ Len(rest) \in Nat
      /\ \A k \in 1 .. l - a : rest[k] = tokens[a + k]
  <2>1. 0 \in 0 .. Len(tokens) - a
    BY <1>1
  <2> QED
    BY <2>1, PartIsPart
<1>3. \A k \in 1 .. l : s[k] = tokens[k].sentence
  OBVIOUS
<1>4. /\ n \in 0 .. Len(rest) /\ \A k \in 1 .. n : rest[k].sentence = next
      /\ n < Len(rest) => rest[n + 1].sentence # next
  BY <1>2, OpenersAre
<1>5. /\ \A k \in 1 .. l : s[k] \in Nat
      /\ \A j, k \in 1 .. l : j <= k => s[j] <= s[k]
      /\ \A k \in 1 .. l : k <= a <=> s[k] < next
  BY <1>1, <1>3 DEF Ascend, Numbered, SaidBefore
<1> HIDE DEF s, n, l
<1>6. n \in Nat /\ a + n <= l /\ n \in 0 .. l - a
  <2>1. n \in 0 .. l - a
    BY <1>2, <1>4
  <2> QED
    BY <1>1, <2>1
<1>7. \A k \in 1 .. n : s[a + k] = next
  <2> SUFFICES ASSUME NEW k \in 1 .. n PROVE s[a + k] = next
    OBVIOUS
  <2>1. k \in 1 .. l - a /\ a + k \in 1 .. l
    BY <1>1, <1>6
  <2> QED
    BY <1>2, <1>3, <1>4, <2>1
<1>8. a + n < l => s[a + n + 1] # next
  <2> SUFFICES ASSUME a + n < l PROVE s[a + n + 1] # next
    OBVIOUS
  <2>1. n < Len(rest) /\ n + 1 \in 1 .. l - a /\ a + (n + 1) \in 1 .. l /\ a + (n + 1) = a + n + 1
    BY <1>1, <1>2, <1>6
  <2>2. rest[n + 1].sentence # next /\ rest[n + 1] = tokens[a + (n + 1)]
    BY <1>2, <1>4, <2>1
  <2>3. s[a + (n + 1)] = tokens[a + (n + 1)].sentence
    BY <1>3, <2>1
  <2> QED
    BY <2>1, <2>2, <2>3
<1>9. \A k \in 1 .. l : /\ k <= a + n <=> s[k] < next + 1
                        /\ s[k] = next <=> k \in a + 1 .. a + n
  <2>1. LiesAt(s, l, a, n, next)
    BY <1>5, <1>6, <1>7, <1>8 DEF LiesAt
  <2> QED
    BY <1>1, <1>6, <2>1, TakenAre
<1> QED
  BY <1>1, <1>3, <1>6, <1>9 DEF n, l

(* A sentence is deferred when a guess is among its tokens. *)
LEMMA DeferredIs ==
  ASSUME NEW S, NEW tokens \in Seq(S), NEW a \in 0 .. Len(tokens), NEW n \in 0 .. Len(tokens) - a,
         NEW next, \A k \in DOMAIN tokens : tokens[k].sentence = next <=> k \in a + 1 .. a + n,
         NEW part \in Seq(S), Len(part) = n, \A k \in 1 .. n : part[k] = tokens[a + k], NEW policy
  PROVE  next \in DeferredOf(tokens, policy)
         <=> policy = "defer" /\ \E t \in ToSet(part) : IsGuess(t)
<1>1. /\ DOMAIN tokens = 1 .. Len(tokens) /\ DOMAIN part = 1 .. n
      /\ Len(tokens) \in Nat /\ a \in Nat /\ n \in Nat /\ a + n <= Len(tokens)
  OBVIOUS
<1>2. next \in DeferredOf(tokens, policy)
      <=> \E k \in DOMAIN tokens : policy = "defer" /\ IsGuess(tokens[k]) /\ tokens[k].sentence = next
  BY Zenon DEF DeferredOf
<1>3. ASSUME NEW k \in DOMAIN tokens, IsGuess(tokens[k]), tokens[k].sentence = next
      PROVE  \E t \in ToSet(part) : IsGuess(t)
  <2> DEFINE i == k - a
  <2>1. k \in a + 1 .. a + n
    BY <1>3
  <2>2. i \in 1 .. n /\ a + i = k
    BY <1>1, <2>1
  <2> HIDE DEF i
  <2>3. part[i] = tokens[k] /\ i \in DOMAIN part
    BY <1>1, <2>2
  <2>4. part[i] \in ToSet(part)
    BY <2>3 DEF ToSet
  <2> QED
    BY <1>3, <2>3, <2>4
<1>4. ASSUME NEW t \in ToSet(part), IsGuess(t)
      PROVE  \E k \in DOMAIN tokens : IsGuess(tokens[k]) /\ tokens[k].sentence = next
  <2>1. PICK i \in 1 .. n : part[i] = t
    BY <1>1 DEF ToSet
  <2>2. a + i \in DOMAIN tokens /\ a + i \in a + 1 .. a + n /\ tokens[a + i] = t
    BY <1>1, <2>1
  <2>3. tokens[a + i].sentence = next
    BY <2>2
  <2> QED
    BY <1>4, <2>2, <2>3
<1> QED
  BY <1>2, <1>3, <1>4

-----------------------------------------------------------------------------
(* What a g2p serve has said so far.                                       *)

OpenPack == Packs[model.pack]

Speaks == request.kind = "phonemize" /\ PolicyOf(request) \in Policies

Marked(raw, fallback, block) ==
  /\ block.tokens \in Seq(Said(raw))
  /\ block.deferred <=> fallback = "defer" /\ \E t \in ToSet(block.tokens) : IsGuess(t)

AddsUp(blocks, tokens, phones) ==
  FlattenSeq(Fields(blocks, "tokens")) = tokens /\ FlattenSeq(Fields(blocks, "phones")) = phones

(* The tokens taken are those of the sentences that have had their block.  *)
TakenSoFar(blocks, result, next, taken) ==
  /\ next \in 0 .. Len(result.sentences) /\ taken \in 0 .. Len(result.tokens)
  /\ SaidBefore(result.tokens, taken, next)
  /\ AddsUp(blocks, SubSeq(result.tokens, 1, taken), PhonesOf(SubSeq(result.tokens, 1, taken)))

SpeakInv ==
  Serving("g2p") =>
    /\ model.pack \in Loadable
    /\ frame = [at |-> frame.at, next |-> frame.next, taken |-> frame.taken, result |-> frame.result]
    /\ frame.at \in {"checks", "sentence", "block", "finish", "return"}
    /\ Speaks =>
         \/ Overflows(frame.result) /\ frame.at = "checks"
         \/ Utters(OpenPack, request.text, PolicyOf(request), frame.result)
    /\ frame.at \in {"sentence", "block", "finish"} => Speaks
    /\ frame.at = "checks" => sent = <<>> /\ frame.next = 0 /\ frame.taken = 0
    /\ frame.at \in {"sentence", "block"} =>
         TakenSoFar(sent, frame.result, frame.next, frame.taken)
    /\ frame.at = "block" => frame.next < Len(frame.result.sentences)
    /\ frame.at = "finish" =>
         AddsUp(sent, frame.result.tokens, PhonesOf(frame.result.tokens) \o frame.result.trailingPhones)
    /\ \A k \in DOMAIN sent : Marked(OpenPack, request.fallback, sent[k])
    /\ report # <<>> => report[1].why # "internal_error"

LEMMA OpenPackIsOk ==
  ASSUME model.pack \in Loadable
  PROVE  PackOk(OpenPack)
BY G2pAssumption DEF Loadable, OpenPack, PackOk

LEMMA SaidHas == \A raw : HasText(Said(raw)) /\ HasPhones(raw, Said(raw))
BY DEF HasText, HasPhones, Said

LEMMA ServeSpeaks ==
  ASSUME PackIsLoaded, SeamInv, ServeG2p
  PROVE  SpeakInv'
<1> DEFINE F(r) == [at |-> "checks", next |-> 0, taken |-> 0,
                    result |-> IF r.kind = "phonemize" /\ PolicyOf(r) \in Policies
                               THEN Utterance[model.pack][r.text][PolicyOf(r)]
                               ELSE NoUtterance]
<1>1. PICK r \in G2pRequest : Begin("g2p", r, F(r))
  BY DEF ServeG2p
<1>2. /\ model.engine = "g2p" /\ model' = model /\ phase' = "serving" /\ request' = r
      /\ frame' = F(r) /\ sent' = <<>> /\ report' = <<>>
  BY <1>1 DEF ServeG2p, Begin, Waiting
<1>3. model.pack \in Loadable /\ model'.pack \in Loadable
  BY <1>2 DEF PackIsLoaded
<1>4. ASSUME Speaks'
      PROVE  \/ Overflows(frame'.result)
             \/ Utters(OpenPack', request'.text, PolicyOf(request'), frame'.result)
  <2> DEFINE policy == PolicyOf(r)
             raw == Packs[model.pack]
             text == r.text
  <2>1. r.kind = "phonemize" /\ policy \in Policies
    BY <1>2, <1>4 DEF Speaks
  <2>2. text \in Texts
    BY <2>1 DEF G2pRequest
  <2>3. frame'.result = Utterance[model.pack][text][policy]
    BY <1>2, <2>1
  <2>4. Utterance[model.pack][text][policy] = Run(raw, text, policy)
    BY <1>3, <2>1, <2>2 DEF Utterance
  <2>5. text \in Seq(Units) /\ PackOk(raw)
    <3>1. PackOk(raw)
      BY <1>3, OpenPackIsOk DEF OpenPack
    <3> HIDE DEF raw, text
    <3>2. text \in Seq(Nat \cup {Malformed})
      BY <2>2, G2pAssumption
    <3> QED
      BY <3>1, <3>2 DEF Units
  <2> HIDE DEF raw, text, policy
  <2>6. \/ Overflows(Run(raw, text, policy))
        \/ Utters(raw, text, policy, Run(raw, text, policy))
    BY <2>5, EveryTextIsUttered
  <2> QED
    BY <1>2, <2>3, <2>4, <2>6 DEF OpenPack, raw, text, policy
<1>5. /\ frame'.at = "checks" /\ frame'.next = 0 /\ frame'.taken = 0
      /\ frame' = [at |-> frame'.at, next |-> frame'.next, taken |-> frame'.taken, result |-> frame'.result]
  BY <1>2
<1>6. \A k \in DOMAIN sent' : FALSE
  <2>1. sent' = <<>>
    BY <1>2
  <2> QED
    BY ONLY <2>1
<1>7. frame'.at \in {"checks", "sentence", "block", "finish", "return"}
      /\ frame'.at # "sentence" /\ frame'.at # "block" /\ frame'.at # "finish"
  BY <1>5
<1> HIDE DEF F
<1> QED
  BY <1>2, <1>3, <1>4, <1>5, <1>6, <1>7 DEF SpeakInv

(* Nothing is taken when the checks have passed. *)
LEMMA NothingTaken ==
  ASSUME NEW raw, NEW text, NEW policy, NEW result, Utters(raw, text, policy, result)
  PROVE  TakenSoFar(<<>>, result, 0, 0)
<1> DEFINE tokens == result.tokens
<1>1. tokens \in Seq(Said(raw)) /\ Len(result.sentences) \in Nat
  BY DEF Utters
<1>2. ASSUME NEW k \in DOMAIN tokens PROVE k > 0 /\ ~(tokens[k].sentence < 0)
  <2>1. k \in 1 .. Len(tokens) /\ tokens[k] \in Said(raw)
    BY <1>1
  <2>2. tokens[k].sentence \in Nat
    BY <2>1 DEF Said
  <2> HIDE DEF tokens
  <2> QED
    BY <2>1, <2>2
<1>3. SubSeq(tokens, 1, 0) = <<>> /\ 0 \in 0 .. Len(tokens)
  <2> HIDE DEF tokens
  <2> QED
    BY <1>1
<1>4. AddsUp(<<>>, <<>>, PhonesOf(<<>>))
  BY NothingSent, TextNone DEF AddsUp
<1>5. 0 \in 0 .. Len(result.sentences)
  BY <1>1
<1>6. SaidBefore(tokens, 0, 0)
  <2> SUFFICES ASSUME NEW k \in DOMAIN tokens PROVE k <= 0 <=> tokens[k].sentence < 0
    BY DEF SaidBefore
  <2>1. k \in 1 .. Len(tokens)
    BY <1>1
  <2> QED
    BY <1>2, <2>1
<1>7. AddsUp(<<>>, SubSeq(tokens, 1, 0), PhonesOf(SubSeq(tokens, 1, 0)))
  BY <1>3, <1>4
<1> QED
  BY <1>3, <1>5, <1>6, <1>7, Zenon DEF TakenSoFar

(* One more block, of these tokens and phones. *)
LEMMA AddsBlock ==
  ASSUME NEW blocks, IsSequence(blocks), NEW block, NEW tokens, NEW phones,
         AddsUp(blocks, tokens, phones), IsSequence(block.tokens), IsSequence(block.phones)
  PROVE  AddsUp(blocks \o <<block>>, tokens \o block.tokens, phones \o block.phones)
<1>1. FlattenSeq(Fields(blocks \o <<block>>, "tokens"))
      = FlattenSeq(Fields(blocks, "tokens")) \o block.tokens
  <2> DEFINE field == "tokens"
  <2>1. IsSequence(block[field])
    OBVIOUS
  <2> HIDE DEF field
  <2>2. FlattenSeq(Fields(blocks \o <<block>>, field)) = FlattenSeq(Fields(blocks, field)) \o block[field]
    BY <2>1, FieldsFlatten
  <2> QED
    BY <2>2 DEF field
<1>2. FlattenSeq(Fields(blocks \o <<block>>, "phones"))
      = FlattenSeq(Fields(blocks, "phones")) \o block.phones
  <2> DEFINE field == "phones"
  <2>1. IsSequence(block[field])
    OBVIOUS
  <2> HIDE DEF field
  <2>2. FlattenSeq(Fields(blocks \o <<block>>, field)) = FlattenSeq(Fields(blocks, field)) \o block[field]
    BY <2>1, FieldsFlatten
  <2> QED
    BY <2>2 DEF field
<1> QED
  BY <1>1, <1>2 DEF AddsUp

(* The block of a sentence takes its tokens. *)
LEMMA SentenceAdds ==
  ASSUME NEW raw, NEW text, NEW policy, NEW result, Utters(raw, text, policy, result),
         NEW blocks, IsSequence(blocks), NEW next, NEW taken,
         TakenSoFar(blocks, result, next, taken), next < Len(result.sentences),
         NEW rest, rest = SubSeq(result.tokens, taken + 1, Len(result.tokens)),
         NEW n, n = OpenersOf(rest, next), NEW block,
         block.tokens = SubSeq(rest, 1, n), block.phones = PhonesOf(SubSeq(rest, 1, n))
  PROVE  /\ TakenSoFar(blocks \o <<block>>, result, next + 1, taken + n)
         /\ block.tokens \in Seq(Said(raw))
         /\ next \in DeferredOf(result.tokens, policy)
            <=> policy = "defer" /\ \E t \in ToSet(block.tokens) : IsGuess(t)
<1> DEFINE tokens == result.tokens
           part == SubSeq(rest, 1, n)
           head == SubSeq(tokens, 1, taken)
           S == Said(raw)
<1>1. /\ tokens \in Seq(S) /\ Ascend(tokens) /\ Len(result.sentences) \in Nat
      /\ next \in 0 .. Len(result.sentences) /\ taken \in 0 .. Len(tokens)
      /\ SaidBefore(tokens, taken, next)
      /\ AddsUp(blocks, head, PhonesOf(head))
  BY DEF Utters, TakenSoFar
<1>2. next \in Nat /\ next + 1 \in 0 .. Len(result.sentences)
  BY <1>1
<1>3. Numbered(tokens)
  <2> SUFFICES ASSUME NEW k \in DOMAIN tokens PROVE tokens[k].sentence \in Nat
    BY DEF Numbered
  <2>1. tokens[k] \in Said(raw)
    BY <1>1
  <2> QED
    BY <2>1 DEF Said
<1>4. rest = SubSeq(tokens, taken + 1, Len(tokens))
  OBVIOUS
<1>4a. block.tokens = part /\ block.phones = PhonesOf(part)
  OBVIOUS
<1>4b. HasPhones(raw, S)
  BY SaidHas
<1> HIDE DEF tokens, part, head, S
<1>5. /\ n \in 0 .. Len(tokens) - taken
      /\ \A k \in DOMAIN tokens : /\ k <= taken + n <=> tokens[k].sentence < next + 1
                                  /\ tokens[k].sentence = next <=> k \in taken + 1 .. taken + n
  <2>1. tokens \in Seq(S) /\ Ascend(tokens) /\ taken \in 0 .. Len(tokens) /\ SaidBefore(tokens, taken, next)
    BY <1>1
  <2>2. n = OpenersOf(rest, next)
    OBVIOUS
  <2>3. /\ OpenersOf(rest, next) \in 0 .. Len(tokens) - taken
        /\ \A k \in DOMAIN tokens :
             /\ k <= taken + OpenersOf(rest, next) <=> tokens[k].sentence < next + 1
             /\ tokens[k].sentence = next <=> k \in taken + 1 .. taken + OpenersOf(rest, next)
    BY <1>2, <1>3, <1>4, <2>1, SentenceTaken, Zenon
  <2> QED
    BY ONLY <2>2, <2>3
<1>6. /\ part \in Seq(S) /\ Len(part) = n /\ \A k \in 1 .. n : part[k] = tokens[taken + k]
      /\ head \in Seq(S) /\ SubSeq(tokens, 1, taken + n) = head \o part
  <2>1. tokens \in Seq(S) /\ taken \in 0 .. Len(tokens) /\ n \in 0 .. Len(tokens) - taken
    BY <1>1, <1>5
  <2>2. SplitsAt(S, tokens, taken, n, SubSeq(rest, 1, n))
    BY <1>4, <2>1, PartIsPart
  <2> QED
    BY <2>2 DEF SplitsAt, part, head
<1>7. PhonesOf(part) \in Phones(raw) /\ PhonesOf(head \o part) = PhonesOf(head) \o PhonesOf(part)
  BY <1>4b, <1>6, PhonesJoin
<1>8. IsSequence(part) /\ IsSequence(PhonesOf(part))
  <2>1. Phones(raw) = Seq(PhoneIds(raw))
    BY DEF Phones
  <2> QED
    BY <1>6, <1>7, <2>1, SequencesIn
<1>9. AddsUp(blocks \o <<block>>, head \o part, PhonesOf(head) \o PhonesOf(part))
  BY <1>1, <1>4a, <1>8, AddsBlock
<1>10. taken + n \in 0 .. Len(tokens)
  BY <1>1, <1>5
<1>11. TakenSoFar(blocks \o <<block>>, result, next + 1, taken + n)
  <2>1. AddsUp(blocks \o <<block>>, SubSeq(tokens, 1, taken + n),
               PhonesOf(SubSeq(tokens, 1, taken + n)))
    BY <1>6, <1>7, <1>9
  <2>2. SaidBefore(tokens, taken + n, next + 1)
    BY <1>5 DEF SaidBefore
  <2> QED
    BY <1>2, <1>10, <2>1, <2>2, Zenon DEF TakenSoFar, tokens
<1>12. next \in DeferredOf(tokens, policy) <=> policy = "defer" /\ \E t \in ToSet(part) : IsGuess(t)
  <2>1. \A k \in DOMAIN tokens : tokens[k].sentence = next <=> k \in taken + 1 .. taken + n
    BY <1>5
  <2>2. taken \in 0 .. Len(tokens)
    BY <1>1
  <2>3. tokens \in Seq(S) /\ part \in Seq(S)
    BY <1>1, <1>6
  <2>4. \A k \in 1 .. n : part[k] = tokens[taken + k]
    BY <1>6
  <2>5. n \in 0 .. Len(tokens) - taken /\ Len(part) = n
    BY <1>5, <1>6
  <2> QED
    BY <2>1, <2>2, <2>3, <2>4, <2>5, DeferredIs
<1> QED
  BY <1>4a, <1>6, <1>11, <1>12 DEF tokens, S

(* After the last sentence nothing is left to take. *)
LEMMA AllTaken ==
  ASSUME NEW raw, NEW text, NEW policy, NEW result, Utters(raw, text, policy, result),
         NEW blocks, NEW next, NEW taken,
         TakenSoFar(blocks, result, next, taken), next = Len(result.sentences)
  PROVE  /\ SubSeq(result.tokens, taken + 1, Len(result.tokens)) = <<>>
         /\ AddsUp(blocks, result.tokens, PhonesOf(result.tokens))
<1> DEFINE tokens == result.tokens
<1>1. /\ tokens \in Seq(Said(raw)) /\ taken \in 0 .. Len(tokens)
      /\ \A k \in DOMAIN tokens : tokens[k].sentence < next
      /\ SaidBefore(tokens, taken, next)
      /\ AddsUp(blocks, SubSeq(tokens, 1, taken), PhonesOf(SubSeq(tokens, 1, taken)))
  BY DEF Utters, TakenSoFar
<1> HIDE DEF tokens
<1>2. Len(tokens) \in Nat /\ DOMAIN tokens = 1 .. Len(tokens)
  BY <1>1
<1>3. taken = Len(tokens)
  <2>1. CASE Len(tokens) = 0
    BY <1>1, <2>1
  <2>2. CASE Len(tokens) # 0
    <3> DEFINE l == Len(tokens)
    <3>1. l \in DOMAIN tokens
      BY <1>2, <2>2
    <3> HIDE DEF l
    <3>2. tokens[l].sentence < next
      BY <1>1, <3>1
    <3>3. l <= taken
      BY <1>1, <3>1, <3>2 DEF SaidBefore
    <3>4. taken \in 0 .. Len(tokens)
      BY <1>1
    <3>5. Len(tokens) <= taken
      BY <3>3 DEF l
    <3>6. Len(tokens) \in Nat
      BY <1>2
    <3> QED
      BY <3>4, <3>5, <3>6
  <2> QED
    BY <2>1, <2>2
<1>4. SubSeq(tokens, 1, Len(tokens)) = tokens /\ SubSeq(tokens, Len(tokens) + 1, Len(tokens)) = <<>>
  <2> DEFINE S == Said(raw)
  <2>1. tokens \in Seq(S)
    BY <1>1
  <2> HIDE DEF S
  <2> QED
    BY <2>1
<1>5. AddsUp(blocks, tokens, PhonesOf(tokens)) /\ SubSeq(tokens, taken + 1, Len(tokens)) = <<>>
  BY <1>1, <1>3, <1>4
<1> QED
  BY <1>5 DEF tokens

(* The last block has the trailing text and no tokens. *)
LEMMA TrailingAdds ==
  ASSUME NEW raw, NEW text, NEW policy, NEW result, Utters(raw, text, policy, result),
         NEW blocks, IsSequence(blocks), AddsUp(blocks, result.tokens, PhonesOf(result.tokens)),
         NEW block, block.tokens = <<>>, block.phones = result.trailingPhones
  PROVE  AddsUp(blocks \o <<block>>, result.tokens, PhonesOf(result.tokens) \o result.trailingPhones)
<1> DEFINE tokens == result.tokens
           phones == result.trailingPhones
<1>1. tokens \in Seq(Said(raw)) /\ phones \in Phones(raw)
  BY DEF Utters
<1>2. AddsUp(blocks, tokens, PhonesOf(tokens)) /\ block.tokens = <<>> /\ block.phones = phones
  OBVIOUS
<1> HIDE DEF tokens, phones
<1>3. IsSequence(block.tokens) /\ IsSequence(block.phones)
  <2>1. phones \in Seq(PhoneIds(raw))
    BY <1>1 DEF Phones
  <2> QED
    BY <1>2, <2>1, SequencesIn, ShortSequences
<1>4. AddsUp(blocks \o <<block>>, tokens \o block.tokens, PhonesOf(tokens) \o block.phones)
  BY <1>2, <1>3, AddsBlock
<1>5. tokens \o block.tokens = tokens
  <2> DEFINE S == Said(raw)
  <2>1. tokens \in Seq(S)
    BY <1>1
  <2> HIDE DEF S
  <2> QED
    BY <1>2, <2>1
<1> QED
  BY <1>2, <1>4, <1>5 DEF tokens, phones

(* One more block, marked as the ones before it are. *)
LEMMA MarksBlock ==
  ASSUME NEW raw, NEW fallback, NEW blocks, IsSequence(blocks), NEW block,
         \A k \in DOMAIN blocks : Marked(raw, fallback, blocks[k]), Marked(raw, fallback, block)
  PROVE  \A k \in DOMAIN (blocks \o <<block>>) : Marked(raw, fallback, (blocks \o <<block>>)[k])
<1> DEFINE more == blocks \o <<block>>
<1>1. /\ Len(blocks) \in Nat /\ DOMAIN blocks = 1 .. Len(blocks) /\ DOMAIN more = 1 .. Len(blocks) + 1
      /\ \A k \in 1 .. Len(blocks) : more[k] = blocks[k]
      /\ more[Len(blocks) + 1] = block
  BY AppendsIsSequence
<1> HIDE DEF more
<1>2. \A k \in DOMAIN more : Marked(raw, fallback, more[k])
  <2> SUFFICES ASSUME NEW k \in DOMAIN more PROVE Marked(raw, fallback, more[k])
    OBVIOUS
  <2>1. k \in 1 .. Len(blocks) \/ k = Len(blocks) + 1
    BY <1>1
  <2> QED
    BY <1>1, <2>1
<1> QED
  BY <1>2 DEF more

(* serve is about to return. *)
LEMMA EndsSpeaking ==
  ASSUME SpeakInv, Serving("g2p"), frame.at # "checks" \/ ~Overflows(frame.result),
         report = <<>>, NEW end, Ends(end),
         end = <<>> \/ \E is, why : end = <<[is |-> is, why |-> why]>> /\ why # "internal_error"
  PROVE  SpeakInv'
<1>1. /\ report' = report \o end /\ frame' = [frame EXCEPT !.at = "return"]
      /\ UNCHANGED <<model, request, phase, sent, cancelAt>>
  BY DEF Ends
<1>2. /\ model.pack \in Loadable
      /\ frame = [at |-> frame.at, next |-> frame.next, taken |-> frame.taken, result |-> frame.result]
      /\ Speaks => Utters(OpenPack, request.text, PolicyOf(request), frame.result)
      /\ \A k \in DOMAIN sent : Marked(OpenPack, request.fallback, sent[k])
  BY DEF SpeakInv
<1>3. frame' = [at |-> "return", next |-> frame.next, taken |-> frame.taken, result |-> frame.result]
  BY <1>1, <1>2
<1>4. /\ frame'.at = "return" /\ frame'.result = frame.result
      /\ frame' = [at |-> frame'.at, next |-> frame'.next, taken |-> frame'.taken, result |-> frame'.result]
  BY <1>3
<1>5. report' = <<>> \/ report'[1].why # "internal_error"
  <2>1. report' = end
    <3>1. CASE end = <<>>
      BY <1>1, <3>1
    <3>2. CASE \E is, why : end = <<[is |-> is, why |-> why]>>
      BY <1>1, <3>2
    <3> QED
      BY <3>1, <3>2
  <2> QED
    BY <2>1
<1>6. Speaks' => Utters(OpenPack', request'.text, PolicyOf(request'), frame'.result)
  BY <1>1, <1>2, <1>4 DEF Speaks, OpenPack, PolicyOf
<1>7. \A k \in DOMAIN sent' : Marked(OpenPack', request'.fallback, sent'[k])
  BY <1>1, <1>2 DEF OpenPack
<1>8. model'.pack \in Loadable
  BY <1>1, <1>2
<1> QED
  BY <1>4, <1>5, <1>6, <1>7, <1>8 DEF SpeakInv

LEMMA CheckSpeaks ==
  ASSUME SpeakInv, SeamInv, CheckG2p
  PROVE  SpeakInv'
<1>1. Serving("g2p") /\ frame.at = "checks" /\ ~Overflows(frame.result) /\ report = <<>>
  BY DEF CheckG2p, At, Serving, SeamInv
<1>2. /\ model.pack \in Loadable /\ sent = <<>> /\ frame.next = 0 /\ frame.taken = 0
      /\ frame = [at |-> frame.at, next |-> frame.next, taken |-> frame.taken, result |-> frame.result]
      /\ Speaks => Utters(OpenPack, request.text, PolicyOf(request), frame.result)
  BY <1>1 DEF SpeakInv
<1>3. CASE ~Speaks
  <2>1. G2pRefusal \in {"unsupported_kind", "invalid_request"}
    <3>1. CASE request.kind # "phonemize"
      BY <3>1 DEF G2pRefusal
    <3>2. CASE request.kind = "phonemize"
      <4>1. PolicyOf(request) \notin Policies
        BY <1>3, <3>2 DEF Speaks
      <4> QED
        BY <3>2, <4>1 DEF G2pRefusal
    <3> QED
      BY <3>1, <3>2
  <2>2. Fails(G2pRefusal)
    BY <2>1 DEF CheckG2p
  <2> QED
    BY <1>1, <2>1, <2>2, EndsSpeaking DEF Fails
<1>4. CASE Speaks
  <2>1. Utters(OpenPack, request.text, PolicyOf(request), frame.result)
    BY <1>2, <1>4
  <2>2. Tiles(frame.result, request.text)
    BY <2>1 DEF Utters
  <2>3. G2pRefusal = "none"
    BY <1>4, <2>2 DEF G2pRefusal, Speaks
  <2>4. frame' = [frame EXCEPT !.at = "sentence"] /\ UNCHANGED <<model, request, phase, sent, report, cancelAt>>
    BY <2>3 DEF CheckG2p, Moves
  <2>5. frame' = [at |-> "sentence", next |-> 0, taken |-> 0, result |-> frame.result]
    BY <1>2, <2>4
  <2>6. /\ frame'.at = "sentence" /\ frame'.next = 0 /\ frame'.taken = 0 /\ frame'.result = frame.result
        /\ frame' = [at |-> frame'.at, next |-> frame'.next, taken |-> frame'.taken, result |-> frame'.result]
    BY <2>5
  <2>7. sent' = <<>> /\ report' = <<>> /\ model' = model /\ request' = request
    BY <1>1, <1>2, <2>4
  <2>8. TakenSoFar(sent', frame'.result, frame'.next, frame'.taken)
    BY <2>1, <2>6, <2>7, NothingTaken
  <2>9. Speaks' /\ Utters(OpenPack', request'.text, PolicyOf(request'), frame'.result)
    BY <1>4, <2>1, <2>6, <2>7 DEF Speaks, OpenPack, PolicyOf
  <2>10. \A k \in DOMAIN sent' : FALSE
    <3>1. sent' = <<>>
      BY <2>7
    <3> QED
      BY ONLY <3>1
  <2> QED
    BY <1>2, <2>6, <2>7, <2>8, <2>9, <2>10 DEF SpeakInv
<1> QED
  BY <1>3, <1>4

LEMMA PollSpeaks ==
  ASSUME SpeakInv, SeamInv, PollSentence
  PROVE  SpeakInv'
<1>1. /\ Serving("g2p") /\ frame.at = "sentence" /\ report = <<>>
      /\ frame.next < Len(frame.result.sentences)
      /\ frame' = [frame EXCEPT !.at = "block"]
      /\ UNCHANGED <<model, request, phase, sent, report, cancelAt>>
  BY DEF PollSentence, At, Serving, SeamInv, Moves
<1>2. /\ model.pack \in Loadable /\ Speaks
      /\ frame = [at |-> frame.at, next |-> frame.next, taken |-> frame.taken, result |-> frame.result]
      /\ Utters(OpenPack, request.text, PolicyOf(request), frame.result)
      /\ TakenSoFar(sent, frame.result, frame.next, frame.taken)
      /\ \A k \in DOMAIN sent : Marked(OpenPack, request.fallback, sent[k])
  BY <1>1 DEF SpeakInv
<1>3. frame' = [at |-> "block", next |-> frame.next, taken |-> frame.taken, result |-> frame.result]
  BY <1>1, <1>2
<1>4. /\ frame'.at = "block" /\ frame'.next = frame.next /\ frame'.taken = frame.taken
      /\ frame'.result = frame.result
      /\ frame' = [at |-> frame'.at, next |-> frame'.next, taken |-> frame'.taken, result |-> frame'.result]
  BY <1>3
<1>5. Speaks' /\ Utters(OpenPack', request'.text, PolicyOf(request'), frame'.result)
  BY <1>1, <1>2, <1>4 DEF Speaks, OpenPack, PolicyOf
<1>6. \A k \in DOMAIN sent' : Marked(OpenPack', request'.fallback, sent'[k])
  BY <1>1, <1>2 DEF OpenPack
<1>7. TakenSoFar(sent', frame'.result, frame'.next, frame'.taken)
  BY <1>1, <1>2, <1>4
<1> QED
  BY <1>1, <1>2, <1>4, <1>5, <1>6, <1>7 DEF SpeakInv

LEMMA SentenceSpeaks ==
  ASSUME SpeakInv, SeamInv, SentenceBlock
  PROVE  SpeakInv'
<1> DEFINE result == frame.result
           policy == PolicyOf(request)
           n      == OpeningOf(frame.next)
           rest   == Untaken
           part   == SubSeq(rest, 1, n)
           block  == PhonemeBlock(frame.next, result.sentences[frame.next + 1], part,
                                  PhonesOf(part), frame.next \in result.deferred)
<1>1. Serving("g2p") /\ frame.at = "block" /\ report = <<>> /\ IsSequence(sent)
  BY DEF SentenceBlock, At, Serving, SeamInv
<1>2. /\ model.pack \in Loadable /\ Speaks
      /\ frame = [at |-> frame.at, next |-> frame.next, taken |-> frame.taken, result |-> frame.result]
      /\ Utters(OpenPack, request.text, policy, result)
      /\ TakenSoFar(sent, result, frame.next, frame.taken)
      /\ frame.next < Len(result.sentences)
      /\ \A k \in DOMAIN sent : Marked(OpenPack, request.fallback, sent[k])
  BY <1>1 DEF SpeakInv
<1>3. /\ sent' = sent \o <<block>>
      /\ frame' = [frame EXCEPT !.at = "sentence", !.next = @ + 1, !.taken = @ + n]
      /\ UNCHANGED <<model, request, phase, report, cancelAt>>
  BY DEF SentenceBlock, Emits
<1>4. rest = SubSeq(result.tokens, frame.taken + 1, Len(result.tokens)) /\ n = OpenersOf(rest, frame.next)
  BY DEF Untaken, OpeningOf, OpenersOf
<1>5. /\ block.tokens = part /\ block.phones = PhonesOf(part)
      /\ block.deferred <=> frame.next \in result.deferred
  BY DEF PhonemeBlock
<1> HIDE DEF n, rest, block
<1>6. frame' = [at |-> "sentence", next |-> frame.next + 1, taken |-> frame.taken + n, result |-> result]
  <2>1. frame' = [[at |-> frame.at, next |-> frame.next, taken |-> frame.taken, result |-> frame.result]
                  EXCEPT !.at = "sentence", !.next = frame.next + 1, !.taken = frame.taken + n]
    BY <1>2, <1>3
  <2> QED
    BY <2>1
<1>7. /\ frame'.at = "sentence" /\ frame'.next = frame.next + 1 /\ frame'.taken = frame.taken + n
      /\ frame'.result = result
      /\ frame' = [at |-> frame'.at, next |-> frame'.next, taken |-> frame'.taken, result |-> frame'.result]
  BY <1>1, <1>6
<1> HIDE DEF part, result, policy
<1>8. /\ TakenSoFar(sent \o <<block>>, result, frame.next + 1, frame.taken + n)
      /\ block.tokens \in Seq(Said(OpenPack))
      /\ frame.next \in DeferredOf(result.tokens, policy)
         <=> policy = "defer" /\ \E t \in ToSet(block.tokens) : IsGuess(t)
  <2> DEFINE next  == frame.next
             taken == frame.taken
  <2>1. Utters(OpenPack, request.text, policy, result)
    BY <1>2
  <2>2. TakenSoFar(sent, result, next, taken) /\ IsSequence(sent)
    BY <1>1, <1>2
  <2>3. next < Len(result.sentences)
    BY <1>2
  <2>4. rest = SubSeq(result.tokens, taken + 1, Len(result.tokens))
    BY <1>4
  <2>5. n = OpenersOf(rest, next)
    BY <1>4
  <2>6. block.tokens = SubSeq(rest, 1, n) /\ block.phones = PhonesOf(SubSeq(rest, 1, n))
    BY <1>5 DEF part
  <2> HIDE DEF next, taken
  <2> DEFINE raw == OpenPack
             text == request.text
  <2> HIDE DEF raw, text
  <2>7. Utters(raw, text, policy, result)
    BY <2>1 DEF raw, text
  <2>8. /\ TakenSoFar(sent \o <<block>>, result, next + 1, taken + n)
        /\ block.tokens \in Seq(Said(raw))
        /\ next \in DeferredOf(result.tokens, policy)
           <=> policy = "defer" /\ \E t \in ToSet(block.tokens) : IsGuess(t)
    BY <2>2, <2>3, <2>4, <2>5, <2>6, <2>7, SentenceAdds, ZenonT(30)
  <2> QED
    BY <2>8 DEF next, taken, raw
<1>9. policy = "defer" <=> request.fallback = "defer"
  BY DEF PolicyOf, policy
<1>10. result.deferred = DeferredOf(result.tokens, policy)
  BY <1>2 DEF Utters
<1>11. Marked(OpenPack, request.fallback, block)
  BY <1>5, <1>8, <1>9, <1>10 DEF Marked
<1>12. \A k \in DOMAIN sent' : Marked(OpenPack, request.fallback, sent'[k])
  BY <1>1, <1>2, <1>3, <1>11, MarksBlock
<1>13. TakenSoFar(sent', frame'.result, frame'.next, frame'.taken)
  BY <1>3, <1>7, <1>8
<1>14. model' = model /\ request' = request /\ report' = <<>>
  BY <1>1, <1>3
<1>15. Speaks' /\ Utters(OpenPack', request'.text, PolicyOf(request'), frame'.result)
  BY <1>2, <1>7, <1>14 DEF Speaks, OpenPack, PolicyOf, policy
<1>16. \A k \in DOMAIN sent' : Marked(OpenPack', request'.fallback, sent'[k])
  BY <1>12, <1>14 DEF OpenPack
<1> QED
  BY <1>2, <1>7, <1>13, <1>14, <1>15, <1>16 DEF SpeakInv

LEMMA ClosingSpeaks ==
  ASSUME SpeakInv, SeamInv, ClosingBlocks
  PROVE  SpeakInv'
<1> DEFINE result == frame.result
           policy == PolicyOf(request)
           left   == PhonemeBlock(frame.next, TextOf(Untaken), Untaken, PhonesOf(Untaken), FALSE)
           rest   == PhonemeBlock(frame.next, result.trailing, <<>>, result.trailingPhones, FALSE)
           blocks == (IF Untaken = <<>> THEN <<>> ELSE <<left>>)
                     \o (IF result.trailing = <<>> THEN <<>> ELSE <<rest>>)
<1>1. Serving("g2p") /\ frame.at = "sentence" /\ report = <<>> /\ IsSequence(sent)
  BY DEF ClosingBlocks, At, Serving, SeamInv
<1>2. /\ model.pack \in Loadable /\ Speaks
      /\ frame = [at |-> frame.at, next |-> frame.next, taken |-> frame.taken, result |-> frame.result]
      /\ Utters(OpenPack, request.text, policy, result)
      /\ TakenSoFar(sent, result, frame.next, frame.taken)
      /\ \A k \in DOMAIN sent : Marked(OpenPack, request.fallback, sent[k])
  BY <1>1 DEF SpeakInv
<1>3. /\ frame.next = Len(result.sentences)
      /\ sent' = sent \o blocks
      /\ frame' = [frame EXCEPT !.at = "finish"]
      /\ UNCHANGED <<model, request, phase, report, cancelAt>>
  BY DEF ClosingBlocks, Emits
<1>4. /\ rest.tokens = <<>> /\ rest.phones = result.trailingPhones /\ rest.deferred = FALSE
  BY DEF PhonemeBlock
<1>5. Untaken = SubSeq(result.tokens, frame.taken + 1, Len(result.tokens))
  BY DEF Untaken
<1> HIDE DEF left, rest
<1>6. frame' = [at |-> "finish", next |-> frame.next, taken |-> frame.taken, result |-> result]
  BY <1>2, <1>3
<1>7. /\ frame'.at = "finish" /\ frame'.result = result
      /\ frame' = [at |-> frame'.at, next |-> frame'.next, taken |-> frame'.taken, result |-> frame'.result]
  BY <1>6
<1> HIDE DEF result, policy
<1>8. Untaken = <<>> /\ AddsUp(sent, result.tokens, PhonesOf(result.tokens))
  <2> DEFINE next  == frame.next
             taken == frame.taken
             raw   == OpenPack
             text  == request.text
  <2>1. Utters(raw, text, policy, result) /\ TakenSoFar(sent, result, next, taken)
    BY <1>2
  <2>2. next = Len(result.sentences)
    BY <1>3
  <2> HIDE DEF next, taken, raw, text
  <2>3. /\ SubSeq(result.tokens, taken + 1, Len(result.tokens)) = <<>>
        /\ AddsUp(sent, result.tokens, PhonesOf(result.tokens))
    BY <2>1, <2>2, AllTaken
  <2> QED
    BY <1>5, <2>3 DEF taken
<1>9. blocks = IF result.trailing = <<>> THEN <<>> ELSE <<rest>>
  BY <1>8
<1> HIDE DEF blocks
<1>10. model' = model /\ request' = request /\ report' = <<>>
  BY <1>1, <1>3
<1>11. Utters(OpenPack', request'.text, PolicyOf(request'), frame'.result) /\ Speaks'
  BY <1>2, <1>7, <1>10 DEF Speaks, OpenPack, PolicyOf, policy
<1>12. /\ AddsUp(sent', result.tokens, PhonesOf(result.tokens) \o result.trailingPhones)
       /\ \A k \in DOMAIN sent' : Marked(OpenPack, request.fallback, sent'[k])
  <2> DEFINE raw  == OpenPack
             text == request.text
             fallback == request.fallback
  <2>1. Utters(raw, text, policy, result) /\ \A k \in DOMAIN sent : Marked(raw, fallback, sent[k])
    BY <1>2
  <2> HIDE DEF raw, text, fallback
  <2>2. CASE result.trailing = <<>>
    <3>1. sent' = sent
      <4>1. sent \o <<>> = sent
        BY <1>1 DEF IsSequence
      <4> QED
        BY <1>3, <1>9, <2>2, <4>1
    <3>2. PhonesOf(result.tokens) \o result.trailingPhones = PhonesOf(result.tokens)
      <4> DEFINE S == PhoneIds(raw)
                 phones == PhonesOf(result.tokens)
      <4>1. result.tokens \in Seq(Said(raw)) /\ result.trailingPhones = <<>>
        BY <2>1, <2>2 DEF Utters
      <4>2. phones \in Phones(raw)
        BY <4>1, SaidHas, PhonesJoin
      <4>3. phones \in Seq(S)
        BY <4>2 DEF Phones
      <4> HIDE DEF S, phones
      <4>4. phones \o <<>> = phones
        BY <4>3
      <4> QED
        BY <4>1, <4>4 DEF phones
    <3> QED
      BY <1>8, <2>1, <3>1, <3>2 DEF raw, fallback
  <2>3. CASE result.trailing # <<>>
    <3>1. sent' = sent \o <<rest>>
      BY <1>3, <1>9, <2>3
    <3>2. AddsUp(sent \o <<rest>>, result.tokens, PhonesOf(result.tokens) \o result.trailingPhones)
      BY <1>1, <1>4, <1>8, <2>1, TrailingAdds
    <3>3. Marked(raw, fallback, rest)
      <4>1. ToSet(rest.tokens) = {}
        BY <1>4 DEF ToSet
      <4>2. rest.tokens \in Seq(Said(raw))
        <5> DEFINE S == Said(raw)
        <5>1. <<>> \in Seq(S)
          OBVIOUS
        <5> QED
          BY <1>4, <5>1
      <4> QED
        BY <1>4, <4>1, <4>2 DEF Marked
    <3>4. \A k \in DOMAIN (sent \o <<rest>>) : Marked(raw, fallback, (sent \o <<rest>>)[k])
      BY <1>1, <2>1, <3>3, MarksBlock
    <3> QED
      BY <3>1, <3>2, <3>4 DEF raw, fallback
  <2> QED
    BY <2>2, <2>3
<1>13. AddsUp(sent', frame'.result.tokens, PhonesOf(frame'.result.tokens) \o frame'.result.trailingPhones)
  BY <1>7, <1>12
<1>14. \A k \in DOMAIN sent' : Marked(OpenPack', request'.fallback, sent'[k])
  BY <1>10, <1>12 DEF OpenPack
<1> QED
  BY <1>2, <1>7, <1>10, <1>11, <1>13, <1>14 DEF SpeakInv

LEMMA SpeakInvHolds ==
  ASSUME PackIsLoaded, SpeakInv, SeamInv, [Next]_vars
  PROVE  SpeakInv'
<1>1. CASE ServeG2p
  BY <1>1, ServeSpeaks
<1>2. CASE CheckG2p
  BY <1>2, CheckSpeaks
<1>3. CASE PollSentence \/ SentenceBlock
  BY <1>3, PollSpeaks, SentenceSpeaks
<1>4. CASE StopsSpeaking
  <2>1. Serving("g2p") /\ frame.at # "checks" /\ report = <<>> /\ Ends(<<>>)
    BY <1>4 DEF StopsSpeaking, At, Serving, SeamInv, ReturnsSilently
  <2> QED
    BY <2>1, EndsSpeaking
<1>5. CASE ClosingBlocks
  BY <1>5, ClosingSpeaks
<1>6. CASE FinishG2p
  <2>1. Serving("g2p") /\ frame.at # "checks" /\ report = <<>> /\ Ends(<<[is |-> "finished", why |-> "stop"]>>)
    BY <1>6 DEF FinishG2p, At, Serving, SeamInv, Finishes
  <2> QED
    BY <2>1, EndsSpeaking
<1>7. CASE UNCHANGED vars \/ Cancel
  BY <1>7 DEF Cancel, vars, seamVars, SpeakInv, Serving, Speaks, OpenPack, PolicyOf
<1>8. CASE LoadPack \/ StackRunsOut \/ Returned \/ Released \/ Relaunch
  <2>1. phase' # "serving"
    BY <1>8 DEF LoadPack, StackRunsOut, Dies, Opened, Empty, Returned, Idle, Released, Relaunch
  <2> QED
    BY <2>1 DEF SpeakInv, Serving
<1>9. CASE GgufNext \/ WhisperNext \/ MockNext
  <2>1. model'.engine # "g2p"
    BY <1>9, EachHasItsModel
  <2> QED
    BY <2>1 DEF SpeakInv, Serving
<1> QED
  BY <1>1, <1>2, <1>3, <1>4, <1>5, <1>6, <1>7, <1>8, <1>9 DEF Next, G2pNext

(* What a serve has sent is, all along, the utterance as far as it has     *)
(* come: every word once and in order, with its phones.                    *)
THEOREM G2pSpeaks == Spec => []SpeakInv
<1>1. SeamInit => SpeakInv
  BY DEF SeamInit, SpeakInv, Serving
<1>2. PackIsLoaded /\ SpeakInv /\ SeamInv /\ [Next]_vars => SpeakInv'
  BY SpeakInvHolds
<1> QED
  BY <1>1, <1>2, OnlyLoadablePacks, SeamInvariant, PTL DEF Spec

(* The blocks of an utterance are the utterance: its tokens and trailing   *)
(* text tile the input and its phones are all sent, in order; and no       *)
(* request is refused for not tiling.                                      *)
THEOREM G2pBlocksTile == Spec => []BlocksTile
<1>1. SpeakInv => BlocksTile
  <2> SUFFICES ASSUME SpeakInv, Serving("g2p") PROVE BlocksTile
    BY DEF BlocksTile
  <2>1. report # <<>> => report[1].why # "internal_error"
    BY DEF SpeakInv
  <2>2. ASSUME frame.at = "finish"
        PROVE  LET result == frame.result IN
               /\ FlattenSeq([k \in DOMAIN sent |-> sent[k].tokens]) = result.tokens
               /\ Tiles(result, request.text)
               /\ FlattenSeq([k \in DOMAIN sent |-> sent[k].phones]) =
                    PhonesOf(result.tokens) \o result.trailingPhones
    <3>1. /\ AddsUp(sent, frame.result.tokens, PhonesOf(frame.result.tokens) \o frame.result.trailingPhones)
          /\ Utters(OpenPack, request.text, PolicyOf(request), frame.result)
      BY <2>2 DEF SpeakInv
    <3>2. /\ Fields(sent, "tokens") = [k \in DOMAIN sent |-> sent[k].tokens]
          /\ Fields(sent, "phones") = [k \in DOMAIN sent |-> sent[k].phones]
      BY DEF Fields
    <3>3. Tiles(frame.result, request.text)
      BY <3>1 DEF Utters
    <3> QED
      BY <3>1, <3>2, <3>3 DEF AddsUp
  <2> QED
    BY <2>1, <2>2 DEF BlocksTile
<1> QED
  BY <1>1, G2pSpeaks, PTL

(* With a pack whose entries all have phones, a word without phones was    *)
(* refused; with any other one it was refused or answered by the lexicon.  *)
(* A sentence is deferred exactly when that was asked for and a word in it *)
(* was guessed.                                                            *)
THEOREM G2pSilenceIsMarked == Spec => []SilenceIsMarked
<1>1. SpeakInv => SilenceIsMarked
  <2> SUFFICES ASSUME SpeakInv, Serving("g2p"), NEW k \in DOMAIN sent
               PROVE  /\ \A t \in ToSet(sent[k].tokens) :
                           t.phones = <<>> =>
                             \/ t.via = "refused"
                             \/ t.via \in {"lexicon", "pos"} /\ HasSilentEntry(OpenPack)
                      /\ sent[k].deferred <=> /\ request.fallback = "defer"
                                              /\ \E t \in ToSet(sent[k].tokens) : IsGuess(t)
    BY DEF SilenceIsMarked, OpenPack
  <2>1. Marked(OpenPack, request.fallback, sent[k])
    BY DEF SpeakInv
  <2> DEFINE tokens == sent[k].tokens
  <2>2. tokens \in Seq(Said(OpenPack))
    BY <2>1 DEF Marked
  <2>3. ASSUME NEW t \in ToSet(tokens), t.phones = <<>>
        PROVE  \/ t.via = "refused"
               \/ t.via \in {"lexicon", "pos"} /\ HasSilentEntry(OpenPack)
    <3>1. t \in Said(OpenPack)
      <4> HIDE DEF tokens
      <4> QED
        BY <2>2 DEF ToSet
    <3> QED
      BY <2>3, <3>1 DEF Said, Silent
  <2> QED
    BY <2>1, <2>3 DEF Marked
<1> QED
  BY <1>1, G2pSpeaks, PTL

-----------------------------------------------------------------------------
(* Folding a sequence from the left.                                       *)

Folds(S, E, op) == \A x \in S : \A e \in E : op[x][e] \in S

RoundsOf(S, op, s) == [n \in 1 .. Len(s) |-> [x \in S |-> op[x][s[n]]]]

RoundsGo(S, op, s, g) ==
  \A n \in 1 .. Len(s) : g[n - 1] \in S => g[n] = op[g[n - 1]][s[n]]

FoldOf(S, start, op, s) ==
  (CHOOSE g : RunOf(g, S, Len(s), start, RoundsOf(S, op, s)))[Len(s)]

LEMMA RoundsStay ==
  ASSUME NEW S, NEW E, NEW op, Folds(S, E, op), NEW s \in Seq(E)
  PROVE  /\ Len(s) \in Nat /\ StaysIn(S, Len(s), RoundsOf(S, op, s))
         /\ \A n \in 1 .. Len(s) : \A x \in S : RoundsOf(S, op, s)[n][x] = op[x][s[n]]
<1>1. Len(s) \in Nat /\ \A n \in 1 .. Len(s) : s[n] \in E
  OBVIOUS
<1>2. \A n \in 1 .. Len(s) : \A x \in S : RoundsOf(S, op, s)[n][x] = op[x][s[n]]
  BY DEF RoundsOf
<1> QED
  BY <1>1, <1>2 DEF StaysIn, Folds

(* Whatever goes through the same rounds ends at the same place. *)
LEMMA FoldIs ==
  ASSUME NEW S, NEW start \in S, NEW E, NEW op, Folds(S, E, op), NEW s \in Seq(E), NEW g,
         g[0] = start, RoundsGo(S, op, s, g)
  PROVE  FoldOf(S, start, op, s) = g[Len(s)]
<1> DEFINE N == Len(s)
           step == RoundsOf(S, op, s)
           f == CHOOSE f : RunOf(f, S, N, start, step)
<1>1. /\ N \in Nat /\ StaysIn(S, N, step)
      /\ \A n \in 1 .. N : \A x \in S : step[n][x] = op[x][s[n]]
  BY RoundsStay
<1>2. FoldOf(S, start, op, s) = f[N]
  BY DEF FoldOf
<1> HIDE DEF step, N
<1>3. \E h : RunOf(h, S, N, start, step)
  BY <1>1, LoopRuns
<1>4. RunOf(f, S, N, start, step)
  BY <1>3
<1> HIDE DEF f
<1>5. f \in [0 .. N -> S] /\ f[0] = start /\ \A n \in 1 .. N : f[n] = step[n][f[n - 1]]
  BY <1>4 DEF RunOf
<1> DEFINE Good == {n \in Nat : n <= N => f[n] = g[n] /\ f[n] \in S}
<1>6. 0 \in Good
  BY <1>5
<1>7. ASSUME NEW n \in Nat, n \in Good
      PROVE  n + 1 \in Good
  <2> SUFFICES ASSUME n + 1 <= N PROVE f[n + 1] = g[n + 1] /\ f[n + 1] \in S
    OBVIOUS
  <2> DEFINE m == n + 1
  <2>1. m \in 1 .. N /\ m - 1 = n /\ f[n] = g[n] /\ f[n] \in S
    BY <1>1, <1>7
  <2> HIDE DEF m, Good
  <2>2. f[m] = step[m][f[n]] /\ step[m][f[n]] = op[f[n]][s[m]]
    BY <1>1, <1>5, <2>1
  <2>3. g[m] = op[g[n]][s[m]]
    BY <2>1 DEF N, RoundsGo
  <2>4. f[m] \in S
    BY <1>1, <1>5, <2>1
  <2>5. f[m] = g[m] /\ f[m] \in S
    BY <2>1, <2>2, <2>3, <2>4
  <2> QED
    BY <2>5 DEF m
<1>8. N \in Good
  <2> HIDE DEF Good
  <2> QED
    BY <1>1, <1>6, <1>7, NumbersFollow
<1> QED
  BY <1>1, <1>2, <1>8 DEF N

LEMMA FoldStarts ==
  ASSUME NEW S, NEW start \in S, NEW E, NEW op, Folds(S, E, op)
  PROVE  FoldOf(S, start, op, <<>>) = start
<1> DEFINE g == [n \in {0} |-> start]
           s == <<>>
<1>1. s \in Seq(E) /\ Len(s) = 0 /\ g[0] = start
  OBVIOUS
<1> HIDE DEF g, s
<1>3. RoundsGo(S, op, s, g)
  BY <1>1 DEF RoundsGo
<1>4. s \in Seq(E)
  BY <1>1
<1>5. g[0] = start
  BY <1>1
<1>2. FoldOf(S, start, op, s) = g[Len(s)]
  BY <1>3, <1>4, <1>5, FoldIs
<1> QED
  BY <1>1, <1>2 DEF s

LEMMA FoldGrows ==
  ASSUME NEW S, NEW start \in S, NEW E, NEW op, Folds(S, E, op), NEW s \in Seq(E), NEW e \in E
  PROVE  /\ FoldOf(S, start, op, s) \in S
         /\ FoldOf(S, start, op, s \o <<e>>) = op[FoldOf(S, start, op, s)][e]
<1> DEFINE t == s \o <<e>>
           N == Len(s)
           M == Len(t)
           step == RoundsOf(S, op, t)
<1>1. /\ t \in Seq(E) /\ N \in Nat /\ M = N + 1 /\ t[N + 1] = e
      /\ \A n \in 1 .. N : t[n] = s[n]
  OBVIOUS
<1>2. /\ M \in Nat /\ StaysIn(S, M, step)
      /\ \A n \in 1 .. M : \A x \in S : step[n][x] = op[x][t[n]]
  <2> HIDE DEF t
  <2> QED
    BY <1>1, RoundsStay
<1> HIDE DEF t, N, M, step
<1>3. PICK g : RunOf(g, S, M, start, step)
  BY <1>2, LoopRuns
<1>4. g \in [0 .. M -> S] /\ g[0] = start /\ \A n \in 1 .. M : g[n] = step[n][g[n - 1]]
  BY <1>3 DEF RunOf
<1>5. \A n \in 1 .. M : g[n - 1] \in S /\ g[n] = op[g[n - 1]][t[n]]
  <2>1. \A n \in 1 .. M : n - 1 \in 0 .. M
    BY <1>2
  <2> QED
    BY <1>2, <1>4, <2>1
<1>6. FoldOf(S, start, op, t) = g[M]
  <2>1. RoundsGo(S, op, t, g)
    BY <1>5 DEF M, RoundsGo
  <2>2. t \in Seq(E)
    BY <1>1
  <2>3. g[0] = start
    BY <1>4
  <2>4. FoldOf(S, start, op, t) = g[Len(t)]
    BY <2>1, <2>2, <2>3, FoldIs
  <2> QED
    BY <2>4 DEF M
<1>7. FoldOf(S, start, op, s) = g[N]
  <2>1. RoundsGo(S, op, s, g)
    <3>1. \A n \in 1 .. N : n \in 1 .. M /\ t[n] = s[n]
      BY <1>1
    <3>2. \A n \in 1 .. N : g[n] = op[g[n - 1]][s[n]]
      BY <1>5, <3>1
    <3> QED
      BY <3>2 DEF N, RoundsGo
  <2>2. g[0] = start
    BY <1>4
  <2>3. FoldOf(S, start, op, s) = g[Len(s)]
    BY <2>1, <2>2, FoldIs
  <2> QED
    BY <2>3 DEF N
<1>8. N + 1 \in 1 .. M /\ (N + 1) - 1 = N /\ N \in 0 .. M
  <2>1. N \in Nat /\ M = N + 1
    BY <1>1
  <2> QED
    BY <2>1
<1>9. g[N + 1] = op[g[N]][e] /\ g[N] \in S
  BY <1>1, <1>4, <1>5, <1>8
<1> QED
  BY <1>1, <1>6, <1>7, <1>9 DEF t

-----------------------------------------------------------------------------
(* The value of a number's digits.                                         *)

ValueOp == [x \in Nat |-> [d \in Digits |-> 10 * x + (d - Zero)]]

LEMMA DigitsAre == Digits \subseteq Nat /\ \A d \in Digits : d - Zero \in 0 .. 9 /\ d \in 48 .. 57
BY DEF Digits, Zero

LEMMA ValueFolds == Folds(Nat, Digits, ValueOp)
<1> SUFFICES ASSUME NEW x \in Nat, NEW d \in Digits PROVE ValueOp[x][d] \in Nat
  BY DEF Folds
<1>1. ValueOp[x][d] = 10 * x + (d - Zero)
  BY DEF ValueOp
<1>2. d - Zero \in 0 .. 9
  BY DigitsAre
<1> QED
  BY <1>1, <1>2

LEMMA ValueIsFold ==
  ASSUME NEW s \in Seq(Digits)
  PROVE  ValueOf(s) = FoldOf(Nat, 0, ValueOp, s)
<1> DEFINE N == Len(s)
           S == Nat
           start == 0
           step == RoundsOf(S, ValueOp, s)
           Loop(g) == g = [n \in 0 .. N |-> IF n = 0 THEN 0 ELSE 10 * g[n - 1] + (s[n] - Zero)]
           value == CHOOSE g : Loop(g)
<1>1. ValueOf(s) = value[N]
  BY DEF ValueOf
<1>2. /\ N \in Nat /\ StaysIn(S, N, step)
      /\ \A n \in 1 .. N : \A x \in S : step[n][x] = ValueOp[x][s[n]]
  BY ValueFolds, RoundsStay
<1>3. \A n \in 1 .. N : s[n] \in Digits
  OBVIOUS
<1>4. \A x \in S : \A d \in Digits : ValueOp[x][d] = 10 * x + (d - Zero)
  BY DEF ValueOp
<1> HIDE DEF N, step, value
<1>5. PICK g : RunOf(g, S, N, start, step)
  BY <1>2, LoopRuns
<1>6. g \in [0 .. N -> S] /\ g[0] = 0 /\ \A n \in 1 .. N : g[n] = step[n][g[n - 1]]
  BY <1>5 DEF RunOf
<1>7. Loop(g)
  <2>1. \A n \in 1 .. N : g[n - 1] \in S
    BY <1>2, <1>6
  <2>2. ASSUME NEW n \in 1 .. N PROVE g[n] = 10 * g[n - 1] + (s[n] - Zero)
    <3> DEFINE x == g[n - 1]
               d == s[n]
    <3>1. x \in S /\ d \in Digits
      BY <1>3, <2>1
    <3>2. g[n] = step[n][x] /\ step[n][x] = ValueOp[x][d]
      BY <1>2, <1>6, <3>1
    <3> HIDE DEF x, d
    <3>3. ValueOp[x][d] = 10 * x + (d - Zero)
      BY <1>4, <3>1
    <3> QED
      BY <3>2, <3>3 DEF x, d
  <2>4. \A n \in 1 .. N : g[n] = 10 * g[n - 1] + (s[n] - Zero)
    BY <2>2
  <2>3. ASSUME NEW n \in 0 .. N
        PROVE  g[n] = IF n = 0 THEN 0 ELSE 10 * g[n - 1] + (s[n] - Zero)
    <3>1. CASE n = 0
      BY <1>6, <3>1
    <3>2. CASE n # 0
      <4>1. n \in 1 .. N
        BY <1>2, <3>2
      <4> QED
        BY <2>4, <3>2, <4>1
    <3> QED
      BY <3>1, <3>2
  <2> QED
    BY <1>6, <2>3
<1>8. Loop(value)
  <2> HIDE DEF Loop
  <2> QED
    BY <1>7 DEF value
<1>9. value[0] = 0 /\ \A n \in 1 .. N : value[n] = 10 * value[n - 1] + (s[n] - Zero)
  <2>1. \A n \in 0 .. N : value[n] = IF n = 0 THEN 0 ELSE 10 * value[n - 1] + (s[n] - Zero)
    BY <1>8
  <2>2. value[0] = 0
    BY <1>2, <2>1
  <2>3. ASSUME NEW n \in 1 .. N PROVE value[n] = 10 * value[n - 1] + (s[n] - Zero)
    <3>1. n \in 0 .. N /\ n # 0
      BY <1>2
    <3> QED
      BY <2>1, <3>1
  <2> QED
    BY <2>2, <2>3
<1>10. RoundsGo(S, ValueOp, s, value)
  <2> SUFFICES ASSUME NEW n \in 1 .. N, value[n - 1] \in S
               PROVE  value[n] = ValueOp[value[n - 1]][s[n]]
    BY DEF RoundsGo, N
  <2> DEFINE x == value[n - 1]
             d == s[n]
  <2>1. x \in S /\ d \in Digits
    BY <1>3
  <2>2. value[n] = 10 * x + (d - Zero)
    BY <1>9
  <2> HIDE DEF x, d
  <2>3. ValueOp[x][d] = 10 * x + (d - Zero)
    BY <1>4, <2>1
  <2> QED
    BY <2>2, <2>3 DEF x, d
<1>11. value[0] = start
  BY <1>9
<1>12. FoldOf(S, start, ValueOp, s) = value[Len(s)]
  <2> DEFINE E == Digits
  <2>1. start \in S
    OBVIOUS
  <2>2. s \in Seq(E)
    OBVIOUS
  <2>3. Folds(S, E, ValueOp)
    BY ValueFolds
  <2> HIDE DEF S, start, Loop, E
  <2> QED
    BY <1>10, <1>11, <2>1, <2>2, <2>3, FoldIs
<1> QED
  BY <1>1, <1>12 DEF N

LEMMA ValueGrows ==
  ASSUME NEW s \in Seq(Digits), NEW d \in Digits
  PROVE  ValueOf(s) \in Nat /\ ValueOf(s \o <<d>>) = 10 * ValueOf(s) + (d - Zero)
<1> DEFINE t == s \o <<d>>
           v == FoldOf(Nat, 0, ValueOp, s)
<1>1. t \in Seq(Digits)
  <2> DEFINE D == Digits
  <2>1. s \in Seq(D) /\ d \in D
    OBVIOUS
  <2> HIDE DEF D
  <2>2. s \o <<d>> \in Seq(D)
    BY <2>1
  <2> QED
    BY <2>2 DEF D
<1>2. v \in Nat /\ FoldOf(Nat, 0, ValueOp, t) = ValueOp[v][d]
  <2> DEFINE E == Digits
             S == Nat
             start == 0
  <2>1. start \in S
    OBVIOUS
  <2>3. Folds(S, E, ValueOp)
    BY ValueFolds
  <2>4. s \in Seq(E)
    OBVIOUS
  <2>5. d \in E
    OBVIOUS
  <2> HIDE DEF E, S, start
  <2>2. /\ FoldOf(S, start, ValueOp, s) \in S
        /\ FoldOf(S, start, ValueOp, s \o <<d>>) = ValueOp[FoldOf(S, start, ValueOp, s)][d]
    BY <2>1, <2>3, <2>4, <2>5, FoldGrows
  <2> QED
    BY <2>2 DEF S, start
<1> HIDE DEF t, v
<1>3. ValueOf(s) = v /\ ValueOf(t) = ValueOp[v][d]
  <2>1. ValueOf(t) = FoldOf(Nat, 0, ValueOp, t)
    BY <1>1, ValueIsFold
  <2> QED
    BY <1>2, <2>1, ValueIsFold DEF v
<1>4. ValueOp[v][d] = 10 * v + (d - Zero)
  BY <1>2 DEF ValueOp
<1> QED
  BY <1>2, <1>3, <1>4 DEF t

LEMMA ValueOfNone == ValueOf(<<>>) = 0
<1>1. <<>> \in Seq(Digits)
  OBVIOUS
<1>2. ValueOf(<<>>) = FoldOf(Nat, 0, ValueOp, <<>>)
  BY <1>1, ValueIsFold
<1>3. FoldOf(Nat, 0, ValueOp, <<>>) = 0
  BY ValueFolds, FoldStarts
<1> QED
  BY <1>2, <1>3

LEMMA PartGrows ==
  ASSUME NEW S, NEW s \in Seq(S), NEW m \in 1 .. Len(s), NEW k \in m - 1 .. Len(s) - 1
  PROVE  /\ SubSeq(s, m, k) \in Seq(S) /\ s[k + 1] \in S
         /\ SubSeq(s, m, k + 1) = SubSeq(s, m, k) \o <<s[k + 1]>>
<1>1. SubSeq(s, m, k) \in Seq(S) /\ s[k + 1] \in S
  OBVIOUS
<1>2. SubSeq(s, m, k + 1) = SubSeq(s, m, k) \o <<s[k + 1]>>
  OBVIOUS
<1> QED
  BY <1>1, <1>2

(* One more digit, of a part of a number. *)
LEMMA ValueOfPart ==
  ASSUME NEW s \in Seq(Digits), NEW m \in 1 .. Len(s), NEW k \in m - 1 .. Len(s) - 1
  PROVE  /\ ValueOf(SubSeq(s, m, k)) \in Nat
         /\ s[k + 1] - Zero \in 0 .. 9
         /\ ValueOf(SubSeq(s, m, k + 1)) = 10 * ValueOf(SubSeq(s, m, k)) + (s[k + 1] - Zero)
<1> DEFINE S == Digits
           p == SubSeq(s, m, k)
           d == s[k + 1]
<1>1. p \in Seq(S) /\ d \in S /\ SubSeq(s, m, k + 1) = p \o <<d>>
  <2>1. s \in Seq(S)
    OBVIOUS
  <2> HIDE DEF S
  <2> QED
    BY <2>1, PartGrows
<1> HIDE DEF p, d
<1>2. p \in Seq(Digits) /\ d \in Digits
  BY <1>1
<1>3. ValueOf(p) \in Nat /\ ValueOf(p \o <<d>>) = 10 * ValueOf(p) + (d - Zero)
  BY <1>2, ValueGrows
<1>4. d - Zero \in 0 .. 9
  BY <1>2, DigitsAre
<1> QED
  BY <1>1, <1>3, <1>4 DEF p, d

LEMMA NoPart ==
  ASSUME NEW S, NEW s \in Seq(S), NEW m \in Nat, NEW k \in Int, k < m
  PROVE  SubSeq(s, m, k) = <<>>
OBVIOUS

(* Leading zeros are worth nothing. *)
LEMMA ZerosLead ==
  ASSUME NEW s \in Seq(Digits), NEW m \in 1 .. Len(s), \A k \in 1 .. m - 1 : s[k] = Zero
  PROVE  ValueOf(SubSeq(s, m, Len(s))) = ValueOf(s)
<1> DEFINE N == Len(s)
           Good == {k \in Nat : k <= N => ValueOf(SubSeq(s, 1, k)) = ValueOf(SubSeq(s, m, k))}
<1>1. N \in Nat /\ m \in Nat /\ 1 <= m /\ m <= N
  OBVIOUS
<1>2. 0 \in Good
  <2>1. SubSeq(s, 1, 0) = <<>> /\ SubSeq(s, m, 0) = <<>>
    BY <1>1, NoPart
  <2> QED
    BY <2>1
<1>3. ASSUME NEW k \in Nat, k \in Good
      PROVE  k + 1 \in Good
  <2> SUFFICES ASSUME k + 1 <= N PROVE ValueOf(SubSeq(s, 1, k + 1)) = ValueOf(SubSeq(s, m, k + 1))
    OBVIOUS
  <2>1. 1 \in 1 .. Len(s) /\ k \in 1 - 1 .. Len(s) - 1
    BY <1>1
  <2>2. /\ ValueOf(SubSeq(s, 1, k)) \in Nat
        /\ ValueOf(SubSeq(s, 1, k + 1)) = 10 * ValueOf(SubSeq(s, 1, k)) + (s[k + 1] - Zero)
    BY <2>1, ValueOfPart
  <2>3. ValueOf(SubSeq(s, 1, k)) = ValueOf(SubSeq(s, m, k))
    BY <1>1, <1>3
  <2>4. CASE k + 1 < m
    <3>1. SubSeq(s, m, k) = <<>> /\ SubSeq(s, m, k + 1) = <<>>
      BY <1>1, <2>4, NoPart
    <3>2. s[k + 1] - Zero = 0
      <4>1. k + 1 \in 1 .. m - 1
        BY <1>1, <2>4
      <4> QED
        BY <4>1 DEF Zero
    <3>3. ValueOf(SubSeq(s, m, k)) = 0 /\ ValueOf(SubSeq(s, m, k + 1)) = 0
      BY <3>1, ValueOfNone, Zenon
    <3> DEFINE d == s[k + 1] - Zero
               v == ValueOf(SubSeq(s, 1, k))
               w == ValueOf(SubSeq(s, 1, k + 1))
    <3>4. v = 0 /\ d = 0 /\ w = 10 * v + d
      BY <2>2, <2>3, <3>2, <3>3
    <3> HIDE DEF v, w, d
    <3>5. w = 0
      BY <3>4
    <3> QED
      BY <3>3, <3>5 DEF w
  <2>5. CASE k + 1 >= m
    <3>1. k \in m - 1 .. Len(s) - 1
      BY <1>1, <2>5
    <3>2. ValueOf(SubSeq(s, m, k + 1)) = 10 * ValueOf(SubSeq(s, m, k)) + (s[k + 1] - Zero)
      BY <3>1, ValueOfPart
    <3> QED
      BY <2>2, <2>3, <3>2
  <2> QED
    BY <1>1, <2>4, <2>5
<1>4. N \in Good
  <2> HIDE DEF Good
  <2> QED
    BY <1>1, <1>2, <1>3, NumbersFollow
<1>5. SubSeq(s, 1, N) = s
  OBVIOUS
<1>6. ValueOf(SubSeq(s, 1, N)) = ValueOf(SubSeq(s, m, N))
  BY <1>1, <1>4
<1> QED
  BY <1>5, <1>6, Zenon

LEMMA TrimmedKeeps ==
  ASSUME NEW all \in Seq(Digits), all # <<>>
  PROVE  /\ Trimmed(all) \in Seq(Digits) /\ Len(Trimmed(all)) \in Nat \ {0}
         /\ ValueOf(Trimmed(all)) = ValueOf(all)
<1> DEFINE nonzero == {k \in DOMAIN all : all[k] # Zero}
           n == Len(all)
           m == IF nonzero = {} THEN n ELSE Min(nonzero)
<1>1. n \in Nat /\ n >= 1 /\ nonzero \in SUBSET (1 .. n)
  OBVIOUS
<1>2. m \in 1 .. n /\ \A k \in 1 .. m - 1 : all[k] = Zero
  <2>1. nonzero \in SUBSET Nat
    BY <1>1
  <2>2. CASE nonzero = {}
    BY <1>1, <2>2
  <2>3. CASE nonzero # {}
    <3> HIDE DEF nonzero
    <3>1. Min(nonzero) \in nonzero /\ \A i \in nonzero : Min(nonzero) <= i
      BY <2>1, <2>3, MinOf
    <3>2. m = Min(nonzero)
      BY <2>3
    <3>3. m \in 1 .. n
      BY <1>1, <3>1, <3>2
    <3>4. ASSUME NEW k \in 1 .. m - 1 PROVE all[k] = Zero
      <4>1. k \notin nonzero /\ k \in 1 .. n
        BY <1>1, <3>1, <3>2, <3>3
      <4> QED
        BY <4>1 DEF nonzero, n
    <3> QED
      BY <3>3, <3>4
  <2> QED
    BY <2>2, <2>3
<1>3. Trimmed(all) = SubSeq(all, m, n)
  BY DEF Trimmed
<1> HIDE DEF m
<1>4. SubSeq(all, m, n) \in Seq(Digits) /\ Len(SubSeq(all, m, n)) \in Nat \ {0}
  <2> DEFINE S == Digits
  <2>1. all \in Seq(S) /\ m \in Nat /\ n \in Int /\ 1 <= m /\ n <= Len(all) /\ m <= n
    BY <1>1, <1>2
  <2> HIDE DEF S, n
  <2>2. SubSeq(all, m, n) \in Seq(S) /\ Len(SubSeq(all, m, n)) = IF n < m THEN 0 ELSE n - m + 1
    BY <2>1, PartOf
  <2> QED
    BY <2>1, <2>2 DEF S
<1>5. ValueOf(SubSeq(all, m, n)) = ValueOf(all)
  BY <1>2, ZerosLead
<1> QED
  BY <1>3, <1>4, <1>5

(* The value of the digits that have more than so many groups after them.  *)
HighPart(digits, after) ==
  IF Len(digits) > 3 * after THEN ValueOf(SubSeq(digits, 1, Len(digits) - 3 * after)) ELSE 0

LEMMA ChunkAdds ==
  ASSUME NEW digits \in Seq(Digits), NEW after \in Nat, Len(digits) > 3 * after
  PROVE  /\ ValueOf(Chunk(digits, after)) \in 0 .. 999 /\ HighPart(digits, after + 1) \in Nat
         /\ HighPart(digits, after)
            = 1000 * HighPart(digits, after + 1) + ValueOf(Chunk(digits, after))
<1> DEFINE s == digits
           e == Len(digits) - 3 * after
           V(m, k) == ValueOf(SubSeq(s, m, k))
<1>1. Len(s) \in Nat /\ e \in 1 .. Len(s)
  OBVIOUS
<1>2. HighPart(s, after) = V(1, e)
  BY <1>1 DEF HighPart
<1>3. HighPart(s, after + 1) = IF e > 3 THEN V(1, e - 3) ELSE 0
  BY <1>1 DEF HighPart
<1>4. ValueOf(Chunk(s, after)) = V(IF e >= 3 THEN e - 2 ELSE 1, e)
  BY DEF Chunk
<1> HIDE DEF e
<1>5. ASSUME NEW m \in 1 .. Len(s), NEW k \in m .. Len(s)
      PROVE  /\ V(m, k - 1) \in Nat /\ s[k] - Zero \in 0 .. 9
             /\ V(m, k) = 10 * V(m, k - 1) + (s[k] - Zero)
  <2> DEFINE j == k - 1
  <2>1. j \in m - 1 .. Len(s) - 1 /\ j + 1 = k
    BY <1>1
  <2> HIDE DEF j
  <2>2. V(m, j) \in Nat /\ s[j + 1] - Zero \in 0 .. 9 /\ V(m, j + 1) = 10 * V(m, j) + (s[j + 1] - Zero)
    BY <2>1, ValueOfPart
  <2> QED
    BY <2>1, <2>2 DEF j
<1>6. ASSUME NEW m \in 1 .. Len(s) PROVE V(m, m - 1) = 0
  <2> DEFINE S == Digits
             k == m - 1
  <2>1. s \in Seq(S) /\ m \in Nat /\ k \in Int /\ k < m
    BY <1>1
  <2> HIDE DEF S, k
  <2>2. SubSeq(s, m, k) = <<>>
    BY <2>1, NoPart
  <2> QED
    BY <2>2, ValueOfNone, Zenon DEF k
<1> HIDE DEF V, s
<1>7. CASE e >= 3
  <2> DEFINE a == s[e - 2] - Zero
             b == s[e - 1] - Zero
             c == s[e] - Zero
             x == V(1, e - 3)
             y == V(e - 2, e - 3)
  <2>0. e \in Int /\ e - 2 \in 1 .. Len(s) /\ 1 \in 1 .. Len(s)
    BY <1>1, <1>7
  <2>1. e - 2 \in 1 .. Len(s) /\ e - 1 \in 1 .. Len(s) /\ e \in 1 .. Len(s)
    BY <1>1, <1>7
  <2>2. e - 2 \in e - 2 .. Len(s) /\ e - 1 \in e - 2 .. Len(s) /\ e \in e - 2 .. Len(s)
    BY <1>1, <1>7
  <2>3. (e - 2) - 1 = e - 3 /\ (e - 1) - 1 = e - 2
    BY <2>0
  <2>4. x \in Nat /\ a \in 0 .. 9 /\ V(1, e - 2) = 10 * x + a
    BY <1>5, <2>0, <2>1, <2>3
  <2>5. b \in 0 .. 9 /\ V(1, e - 1) = 10 * V(1, e - 2) + b
    BY <1>5, <2>0, <2>1, <2>3
  <2>6. c \in 0 .. 9 /\ V(1, e) = 10 * V(1, e - 1) + c
    BY <1>5, <2>0, <2>1
  <2>7. y = 0
    BY <1>6, <2>0, <2>3
  <2>8. V(e - 2, e - 2) = 10 * y + a
    BY <1>5, <2>0, <2>2, <2>3
  <2>9. V(e - 2, e - 1) = 10 * V(e - 2, e - 2) + b
    BY <1>5, <2>0, <2>2, <2>3
  <2>10. V(e - 2, e) = 10 * V(e - 2, e - 1) + c
    BY <1>5, <2>0, <2>2
  <2>11. HighPart(s, after + 1) = x
    <3>1. CASE e = 3
      BY <1>1, <1>3, <1>6, <3>1
    <3>2. CASE e > 3
      BY <1>3, <3>2
    <3> QED
      BY <1>7, <2>0, <3>1, <3>2
  <2>12. ValueOf(Chunk(s, after)) = V(e - 2, e)
    BY <1>4, <1>7
  <2> HIDE DEF a, b, c, x, y
  <2>13. V(1, e) = 1000 * x + (100 * a + 10 * b + c)
    BY <2>4, <2>5, <2>6
  <2>14. V(e - 2, e) = 100 * a + 10 * b + c
    BY <2>4, <2>5, <2>6, <2>7, <2>8, <2>9, <2>10
  <2>15. V(e - 2, e) \in 0 .. 999
    <3> DEFINE n == 100 * a + 10 * b + c
    <3>1. a \in 0 .. 9 /\ b \in 0 .. 9 /\ c \in 0 .. 9
      BY <2>4, <2>5, <2>6
    <3>2. n \in 0 .. 999
      BY <3>1
    <3> HIDE DEF n
    <3> QED
      BY <2>14, <3>2 DEF n
  <2> QED
    BY <1>2, <2>4, <2>11, <2>12, <2>13, <2>14, <2>15 DEF s
<1>8. CASE e < 3
  <2>1. HighPart(s, after + 1) = 0 /\ ValueOf(Chunk(s, after)) = V(1, e)
    BY <1>1, <1>3, <1>4, <1>8
  <2>2. 1 \in 1 .. Len(s) /\ 1 \in 1 .. Len(s)
    BY <1>1
  <2>3. V(1, 0) = 0 /\ s[1] - Zero \in 0 .. 9 /\ V(1, 1) = 10 * V(1, 0) + (s[1] - Zero)
    <3>1. 1 - 1 = 0
      OBVIOUS
    <3> QED
      BY <1>5, <1>6, <2>2, <3>1
  <2>4. V(1, 1) \in 0 .. 9
    BY <2>3
  <2>5. CASE e = 1
    BY <1>2, <2>1, <2>4, <2>5 DEF s
  <2>6. CASE e = 2
    <3>1. 2 \in 1 .. Len(s) /\ 2 - 1 = 1
      BY <1>1, <2>6
    <3>2. s[2] - Zero \in 0 .. 9 /\ V(1, 2) = 10 * V(1, 1) + (s[2] - Zero)
      BY <1>5, <2>2, <3>1
    <3> DEFINE v == V(1, 1)
               w == V(1, 2)
               d == s[2] - Zero
    <3>3. v \in 0 .. 9 /\ d \in 0 .. 9 /\ w = 10 * v + d
      BY <2>4, <3>2
    <3> HIDE DEF v, w, d
    <3>4. w \in 0 .. 999
      BY <3>3
    <3>5. HighPart(s, after) = w /\ HighPart(s, after + 1) = 0 /\ ValueOf(Chunk(s, after)) = w
      BY <1>2, <2>1, <2>6 DEF w
    <3>6. w = 1000 * 0 + w /\ 0 \in Nat
      BY <3>4
    <3> QED
      BY <3>4, <3>5, <3>6 DEF s
  <2> QED
    BY <1>1, <1>8, <2>5, <2>6
<1> QED
  BY <1>1, <1>7, <1>8

-----------------------------------------------------------------------------
(* A listener who adds up the words of a number.                           *)

HeardSums == [total : Nat, now : Nat]

NumberWordsOf(norm) ==
  {norm.joiner, norm.hundred} \cup {SmallWord(norm, n) : n \in SmallNumbers}
    \cup {norm.scales[n + 1] : n \in 1 .. Len(norm.scales) - 1}

SoFar(total, now) == [total |-> total, now |-> now]

LEMMA SoFarIs ==
  /\ \A t \in Nat : \A n \in Nat : SoFar(t, n) \in HeardSums /\ SoFar(t, n).total = t /\ SoFar(t, n).now = n
  /\ \A h \in HeardSums : h.total \in Nat /\ h.now \in Nat /\ h = SoFar(h.total, h.now)
BY DEF HeardSums, SoFar

LEMMA MaxOfOne == ASSUME NEW n \in Int PROVE Max({n}) = n
BY DEF Max

ThousandsOp == [x \in Nat |-> [d \in {0} |-> 1000 * x]]

Zeros(n) == [k \in 1 .. n |-> 0]

LEMMA ZerosGrow ==
  ASSUME NEW n \in Nat
  PROVE  Zeros(n) \in Seq({0}) /\ Len(Zeros(n)) = n /\ Zeros(n + 1) = Zeros(n) \o <<0>>
<1>1. \A k \in Nat : Zeros(k) \in Seq({0}) /\ Len(Zeros(k)) = k /\ \A i \in 1 .. k : Zeros(k)[i] = 0
  BY DEF Zeros
<1> DEFINE s == Zeros(n + 1)
           z == Zeros(n)
           t == z \o <<0>>
<1>2. s \in Seq({0}) /\ Len(s) = n + 1 /\ \A i \in 1 .. n + 1 : s[i] = 0
  BY <1>1
<1>3. z \in Seq({0}) /\ Len(z) = n /\ \A i \in 1 .. n : z[i] = 0
  BY <1>1
<1> HIDE DEF s, z
<1>4. t \in Seq({0}) /\ Len(t) = n + 1 /\ \A i \in 1 .. n + 1 : t[i] = 0
  BY <1>3
<1> HIDE DEF t
<1>5. s = t
  BY <1>2, <1>4, SequencesIn, SameSequence
<1> QED
  BY <1>3, <1>5 DEF s, z, t

LEMMA ThousandsIsFold ==
  ASSUME NEW n \in Nat
  PROVE  Thousands(n) = FoldOf(Nat, 1, ThousandsOp, Zeros(n)) /\ Folds(Nat, {0}, ThousandsOp)
<1> DEFINE S == Nat
           E == {0}
           start == 1
           s == Zeros(n)
           step == RoundsOf(S, ThousandsOp, s)
           Loop(g) == g = [k \in 0 .. n |-> IF k = 0 THEN 1 ELSE 1000 * g[k - 1]]
           power == CHOOSE g : Loop(g)
<1>1. Thousands(n) = power[n]
  BY DEF Thousands
<1>2. Folds(S, E, ThousandsOp) /\ \A x \in S : \A d \in E : ThousandsOp[x][d] = 1000 * x
  BY DEF Folds, ThousandsOp
<1>3. s \in Seq(E) /\ Len(s) = n
  BY ZerosGrow
<1>4. \A k \in 1 .. n : s[k] \in E
  BY DEF Zeros
<1> HIDE DEF s, step, power, E
<1>5. /\ StaysIn(S, n, step)
      /\ \A k \in 1 .. n : \A x \in S : step[k][x] = ThousandsOp[x][s[k]]
  <2>1. Folds(S, E, ThousandsOp)
    BY <1>2
  <2>2. s \in Seq(E)
    BY <1>3
  <2> HIDE DEF S
  <2>3. /\ StaysIn(S, Len(s), RoundsOf(S, ThousandsOp, s))
        /\ \A k \in 1 .. Len(s) : \A x \in S : RoundsOf(S, ThousandsOp, s)[k][x] = ThousandsOp[x][s[k]]
    BY <2>1, <2>2, RoundsStay
  <2> QED
    BY <1>3, <2>3 DEF step
<1>6. \A k \in 1 .. n : \A x \in S : step[k][x] = 1000 * x
  BY <1>2, <1>4, <1>5
<1>7. PICK g : RunOf(g, S, n, start, step)
  BY <1>5, LoopRuns
<1>8. g \in [0 .. n -> S] /\ g[0] = 1 /\ \A k \in 1 .. n : g[k] = step[k][g[k - 1]]
  BY <1>7 DEF RunOf
<1>9. Loop(g)
  <2>1. \A k \in 1 .. n : g[k - 1] \in S
    BY <1>8
  <2>2. \A k \in 1 .. n : g[k] = 1000 * g[k - 1]
    <3> SUFFICES ASSUME NEW k \in 1 .. n PROVE g[k] = 1000 * g[k - 1]
      OBVIOUS
    <3> DEFINE x == g[k - 1]
    <3>1. x \in S /\ g[k] = step[k][x]
      BY <1>8, <2>1
    <3> HIDE DEF x
    <3>2. g[k] = 1000 * x
      BY <1>6, <3>1
    <3> QED
      BY <3>2 DEF x
  <2>3. \A k \in 0 .. n : g[k] = IF k = 0 THEN 1 ELSE 1000 * g[k - 1]
    <3> SUFFICES ASSUME NEW k \in 0 .. n PROVE g[k] = IF k = 0 THEN 1 ELSE 1000 * g[k - 1]
      OBVIOUS
    <3>1. k = 0 \/ k \in 1 .. n
      OBVIOUS
    <3> QED
      BY <1>8, <2>2, <3>1
  <2> QED
    BY <1>8, <2>3
<1>10. Loop(power)
  <2> HIDE DEF Loop
  <2> QED
    BY <1>9 DEF power
<1>11. power[0] = start /\ \A k \in 1 .. n : power[k] = 1000 * power[k - 1]
  BY <1>10
<1>12. RoundsGo(S, ThousandsOp, s, power)
  <2> SUFFICES ASSUME NEW k \in 1 .. n, power[k - 1] \in S
               PROVE  power[k] = ThousandsOp[power[k - 1]][s[k]]
    BY <1>3 DEF RoundsGo
  <2> QED
    BY <1>2, <1>4, <1>11
<1>13. FoldOf(S, start, ThousandsOp, s) = power[Len(s)]
  <2>1. start \in S
    OBVIOUS
  <2>2. s \in Seq(E)
    BY <1>3
  <2>3. Folds(S, E, ThousandsOp)
    BY <1>2
  <2>4. power[0] = start
    BY <1>11
  <2> HIDE DEF S, start, Loop
  <2> QED
    BY <1>12, <2>1, <2>2, <2>3, <2>4, FoldIs
<1> QED
  BY <1>1, <1>2, <1>3, <1>13 DEF s, E

LEMMA ThousandsAre ==
  ASSUME NEW n \in Nat
  PROVE  Thousands(n) \in Nat /\ Thousands(n + 1) = 1000 * Thousands(n)
<1> DEFINE S == Nat
           E == {0}
           start == 1
           s == Zeros(n)
           d == 0
           v == FoldOf(S, start, ThousandsOp, s)
<1>1. start \in S
  OBVIOUS
<1>2. Folds(S, E, ThousandsOp)
  BY ThousandsIsFold
<1>3. s \in Seq(E) /\ Zeros(n + 1) = s \o <<d>>
  BY ZerosGrow
<1>4. d \in E
  OBVIOUS
<1>5. v \in S /\ FoldOf(S, start, ThousandsOp, s \o <<d>>) = ThousandsOp[v][d]
  <2> HIDE DEF S, E, start, s, d
  <2>1. s \in Seq(E)
    BY <1>3
  <2> QED
    BY <1>1, <1>2, <1>4, <2>1, FoldGrows
<1>6. Thousands(n) = v /\ Thousands(n + 1) = FoldOf(S, start, ThousandsOp, s \o <<d>>)
  <2>1. Thousands(n + 1) = FoldOf(Nat, 1, ThousandsOp, Zeros(n + 1))
    BY ThousandsIsFold
  <2>2. Thousands(n) = FoldOf(Nat, 1, ThousandsOp, Zeros(n))
    BY ThousandsIsFold
  <2> QED
    BY <1>3, <2>1, <2>2
<1> HIDE DEF v
<1>7. ThousandsOp[v][d] = 1000 * v
  BY <1>5 DEF ThousandsOp
<1> QED
  BY <1>5, <1>6, <1>7

LEMMA ThousandsIn == ASSUME NEW n \in Nat PROVE Thousands(n) \in Nat
BY ThousandsAre

LEMMA ThousandsGrow == ASSUME NEW n \in Nat PROVE Thousands(n + 1) = 1000 * Thousands(n)
BY ThousandsAre

LEMMA NoThousands == Thousands(0) = 1
<1>1. Zeros(0) = <<>>
  BY DEF Zeros
<1>2. Thousands(0) = FoldOf(Nat, 1, ThousandsOp, Zeros(0)) /\ Folds(Nat, {0}, ThousandsOp)
  BY ThousandsIsFold
<1>3. FoldOf(Nat, 1, ThousandsOp, <<>>) = 1
  BY <1>2, FoldStarts
<1> QED
  BY <1>1, <1>2, <1>3

(* A pack whose numbers can be told from their words. *)
Audible(norm) == NormFields(norm) /\ WordsDiffer(norm)

HearsOp(norm) == [h \in HeardSums |-> [w \in NumberWordsOf(norm) |-> Hears(norm, h, w)]]

LEMMA SmallAre == SmallNumbers \subseteq Nat
BY DEF SmallNumbers

LEMMA ScalesAre ==
  ASSUME NEW norm, Audible(norm)
  PROVE  Len(norm.scales) \in Nat /\ DOMAIN norm.scales = 1 .. Len(norm.scales)
BY FieldsSay, NormIs DEF Audible, WordsOf

LEMMA HearsScale ==
  ASSUME NEW norm, Audible(norm), NEW t \in Nat, NEW n \in Nat,
         NEW k \in 1 .. Len(norm.scales) - 1
  PROVE  Hears(norm, SoFar(t, n), norm.scales[k + 1]) = SoFar(t + n * Thousands(k), 0)
<1> DEFINE h == SoFar(t, n)
           w == norm.scales[k + 1]
<1>1. WordsDiffer(norm)
  BY DEF Audible
<1>2. w # norm.joiner /\ w # norm.hundred /\ SaysScale(norm, w) = {k}
  BY <1>1, Zenon DEF WordsDiffer
<1> HIDE DEF w
<1>3. Max(SaysScale(norm, w)) = k /\ SaysScale(norm, w) # {}
  BY <1>2, MaxOfOne
<1>4. Hears(norm, h, w) = [total |-> h.total + h.now * Thousands(k), now |-> 0]
  BY <1>2, <1>3, Zenon DEF Hears
<1>5. h.total = t /\ h.now = n
  BY DEF SoFar
<1> QED
  BY <1>4, <1>5 DEF w, SoFar

LEMMA HearsEach ==
  ASSUME NEW norm, Audible(norm), NEW t \in Nat, NEW n \in Nat
  PROVE  /\ Hears(norm, SoFar(t, n), norm.joiner) = SoFar(t, n)
         /\ Hears(norm, SoFar(t, n), norm.hundred) = SoFar(t, n * 100)
         /\ \A k \in SmallNumbers : Hears(norm, SoFar(t, n), SmallWord(norm, k)) = SoFar(t, n + k)
         /\ \A k \in 1 .. Len(norm.scales) - 1 :
              Hears(norm, SoFar(t, n), norm.scales[k + 1]) = SoFar(t + n * Thousands(k), 0)
<1> DEFINE h == SoFar(t, n)
<1>1. WordsDiffer(norm) /\ norm.joiner # norm.hundred
  BY DEF Audible, WordsDiffer
<1>2. Hears(norm, h, norm.joiner) = h
  BY DEF Hears
<1>3. Hears(norm, h, norm.hundred) = SoFar(t, n * 100)
  BY <1>1 DEF Hears, SoFar
<1>4. ASSUME NEW k \in SmallNumbers
      PROVE  Hears(norm, h, SmallWord(norm, k)) = SoFar(t, n + k)
  <2> DEFINE w == SmallWord(norm, k)
  <2>1. w # norm.joiner /\ w # norm.hundred /\ SaysScale(norm, w) = {} /\ SaysSmall(norm, w) = {k}
    BY <1>1, Zenon DEF WordsDiffer
  <2> HIDE DEF w
  <2>2. Max(SaysSmall(norm, w)) = k
    BY <2>1, SmallAre, MaxOfOne
  <2>3. Hears(norm, h, w) = [h EXCEPT !.now = @ + k]
    BY <2>1, <2>2, Zenon DEF Hears
  <2> QED
    BY <2>3 DEF w, SoFar
<1>5. ASSUME NEW k \in 1 .. Len(norm.scales) - 1
      PROVE  Hears(norm, h, norm.scales[k + 1]) = SoFar(t + n * Thousands(k), 0)
  BY HearsScale
<1> QED
  BY <1>2, <1>3, <1>4, <1>5

LEMMA HearsFolds ==
  ASSUME NEW norm, Audible(norm)
  PROVE  Folds(HeardSums, NumberWordsOf(norm), HearsOp(norm))
<1> SUFFICES ASSUME NEW h \in HeardSums, NEW w \in NumberWordsOf(norm)
             PROVE  HearsOp(norm)[h][w] \in HeardSums
  BY DEF Folds
<1>1. HearsOp(norm)[h][w] = Hears(norm, h, w)
  BY DEF HearsOp
<1>2. PICK t \in Nat, n \in Nat : h = SoFar(t, n)
  BY SoFarIs
<1>3. CASE w = norm.joiner
  BY <1>1, <1>2, <1>3, HearsEach
<1>4. CASE w = norm.hundred
  <2> DEFINE m == n * 100
  <2>1. m \in Nat
    OBVIOUS
  <2>2. Hears(norm, SoFar(t, n), norm.hundred) = SoFar(t, m)
    BY HearsEach
  <2> HIDE DEF m
  <2>3. SoFar(t, m) \in HeardSums
    BY <2>1, SoFarIs
  <2> QED
    BY <1>1, <1>2, <1>4, <2>2, <2>3
<1>5. ASSUME NEW k \in SmallNumbers, w = SmallWord(norm, k)
      PROVE  HearsOp(norm)[h][w] \in HeardSums
  <2> DEFINE m == n + k
  <2>1. m \in Nat
    BY SmallAre
  <2>2. Hears(norm, SoFar(t, n), SmallWord(norm, k)) = SoFar(t, m)
    BY HearsEach
  <2> HIDE DEF m
  <2>3. SoFar(t, m) \in HeardSums
    BY <2>1, SoFarIs
  <2> QED
    BY <1>1, <1>2, <1>5, <2>2, <2>3
<1>6. ASSUME NEW k \in 1 .. Len(norm.scales) - 1, w = norm.scales[k + 1]
      PROVE  HearsOp(norm)[h][w] \in HeardSums
  <2> DEFINE p == Thousands(k)
             m == t + n * p
  <2>0. k \in Nat
    <3>1. Len(norm.scales) \in Nat
      BY ScalesAre
    <3> QED
      BY <3>1
  <2>1. p \in Nat
    BY <2>0, ThousandsIn
  <2>3. Hears(norm, SoFar(t, n), norm.scales[k + 1]) = SoFar(m, 0)
    BY HearsScale
  <2> HIDE DEF p
  <2>2. m \in Nat /\ 0 \in Nat
    BY <2>1
  <2> HIDE DEF m
  <2>4. SoFar(m, 0) \in HeardSums
    BY <2>2, SoFarIs
  <2> QED
    BY <1>1, <1>2, <1>6, <2>3, <2>4
<1> QED
  BY <1>3, <1>4, <1>5, <1>6 DEF NumberWordsOf

HeardIn(norm, s) == FoldOf(HeardSums, SoFar(0, 0), HearsOp(norm), s)

LEMMA HeardAsIs ==
  ASSUME NEW norm, Audible(norm), NEW s \in Seq(NumberWordsOf(norm))
  PROVE  HeardAs(norm, s) = HeardIn(norm, s).total + HeardIn(norm, s).now
<1> DEFINE N == Len(s)
           S == HeardSums
           E == NumberWordsOf(norm)
           op == HearsOp(norm)
           start == SoFar(0, 0)
           step == RoundsOf(S, op, s)
           Loop(g) == g = [n \in 0 .. N |-> IF n = 0 THEN [total |-> 0, now |-> 0]
                                            ELSE Hears(norm, g[n - 1], s[n])]
           heard == CHOOSE g : Loop(g)
<1>1. HeardAs(norm, s) = heard[N].total + heard[N].now
  BY DEF HeardAs
<1>2. s \in Seq(E) /\ Folds(S, E, op) /\ start \in S /\ start = [total |-> 0, now |-> 0]
  BY HearsFolds, SoFarIs DEF SoFar
<1>3. N \in Nat /\ \A n \in 1 .. N : s[n] \in E
  OBVIOUS
<1>4. \A x \in S : \A w \in E : op[x][w] = Hears(norm, x, w)
  BY DEF HearsOp
<1> HIDE DEF S, E, op, start
<1>5. /\ N \in Nat /\ StaysIn(S, N, step)
      /\ \A n \in 1 .. N : \A x \in S : step[n][x] = op[x][s[n]]
  <2>1. Folds(S, E, op)
    BY <1>2
  <2>2. s \in Seq(E)
    BY <1>2
  <2> QED
    BY <2>1, <2>2, RoundsStay
<1> HIDE DEF N, step, heard
<1>6. PICK g : RunOf(g, S, N, start, step)
  BY <1>2, <1>5, LoopRuns
<1>7. g \in [0 .. N -> S] /\ g[0] = start /\ \A n \in 1 .. N : g[n] = step[n][g[n - 1]]
  BY <1>6 DEF RunOf
<1>8. Loop(g)
  <2>1. \A n \in 1 .. N : g[n - 1] \in S
    BY <1>5, <1>7
  <2>2. \A n \in 1 .. N : g[n] = Hears(norm, g[n - 1], s[n])
    BY <1>3, <1>4, <1>5, <1>7, <2>1
  <2>3. \A n \in 0 .. N : g[n] = IF n = 0 THEN [total |-> 0, now |-> 0]
                                 ELSE Hears(norm, g[n - 1], s[n])
    BY <1>2, <1>5, <1>7, <2>2
  <2> QED
    BY <1>7, <2>3
<1>9. Loop(heard)
  <2> HIDE DEF Loop
  <2> QED
    BY <1>8 DEF heard
<1>10. heard[0] = start /\ \A n \in 1 .. N : heard[n] = Hears(norm, heard[n - 1], s[n])
  <2>1. \A n \in 0 .. N : heard[n] = IF n = 0 THEN [total |-> 0, now |-> 0]
                                     ELSE Hears(norm, heard[n - 1], s[n])
    BY <1>9
  <2>2. heard[0] = start
    BY <1>2, <1>5, <2>1
  <2> SUFFICES ASSUME NEW n \in 1 .. N PROVE heard[n] = Hears(norm, heard[n - 1], s[n])
    BY <2>2
  <2>3. n \in 0 .. N /\ n # 0
    BY <1>5
  <2> QED
    BY <2>1, <2>3
<1> HIDE DEF Loop
<1>11. RoundsGo(S, op, s, heard)
  <2> SUFFICES ASSUME NEW n \in 1 .. N, heard[n - 1] \in S
               PROVE  heard[n] = op[heard[n - 1]][s[n]]
    BY DEF RoundsGo, N
  <2> QED
    BY <1>3, <1>4, <1>10
<1>12. FoldOf(S, start, op, s) = heard[Len(s)]
  <2>1. Folds(S, E, op)
    BY <1>2
  <2>2. s \in Seq(E)
    BY <1>2
  <2>3. start \in S
    BY <1>2
  <2>4. heard[0] = start
    BY <1>10
  <2> QED
    BY <1>11, <2>1, <2>2, <2>3, <2>4, FoldIs
<1> QED
  BY <1>1, <1>12 DEF HeardIn, N, S, op, start

(* Whoever has heard h, and then the words w, has heard g. *)
Tells(norm, w, h, g) ==
  /\ w \in Seq(NumberWordsOf(norm))
  /\ \A s \in Seq(NumberWordsOf(norm)) : HeardIn(norm, s) = h => HeardIn(norm, s \o w) = g

LEMMA HeardGrows ==
  ASSUME NEW norm, Audible(norm), NEW s \in Seq(NumberWordsOf(norm)), NEW w \in NumberWordsOf(norm)
  PROVE  /\ HeardIn(norm, s) \in HeardSums /\ s \o <<w>> \in Seq(NumberWordsOf(norm))
         /\ HeardIn(norm, s \o <<w>>) = Hears(norm, HeardIn(norm, s), w)
<1> DEFINE S == HeardSums
           E == NumberWordsOf(norm)
           op == HearsOp(norm)
           start == SoFar(0, 0)
           h == FoldOf(S, start, op, s)
<1>1. start \in S
  BY SoFarIs
<1>2. Folds(S, E, op)
  BY HearsFolds
<1>3. s \in Seq(E)
  OBVIOUS
<1>4. w \in E
  OBVIOUS
<1>5. \A x \in S : \A v \in E : op[x][v] = Hears(norm, x, v)
  BY DEF HearsOp
<1> HIDE DEF S, E, op, start
<1>6. h \in S /\ FoldOf(S, start, op, s \o <<w>>) = op[h][w]
  BY <1>1, <1>2, <1>3, <1>4, FoldGrows
<1>7. s \o <<w>> \in Seq(E)
  BY <1>3, <1>4
<1> HIDE DEF h
<1>8. op[h][w] = Hears(norm, h, w)
  BY <1>4, <1>5, <1>6
<1> QED
  BY <1>6, <1>7, <1>8 DEF HeardIn, h, S, E, op, start

LEMMA HeardNothing ==
  ASSUME NEW norm, Audible(norm)
  PROVE  HeardIn(norm, <<>>) = SoFar(0, 0)
<1> DEFINE S == HeardSums
           E == NumberWordsOf(norm)
           op == HearsOp(norm)
           start == SoFar(0, 0)
<1>1. start \in S
  BY SoFarIs
<1>2. Folds(S, E, op)
  BY HearsFolds
<1> HIDE DEF S, E, op, start
<1>3. FoldOf(S, start, op, <<>>) = start
  BY <1>1, <1>2, FoldStarts
<1> QED
  BY <1>3 DEF HeardIn, S, op, start

LEMMA TakesNone ==
  ASSUME NEW norm, NEW h
  PROVE  Tells(norm, <<>>, h, h)
<1> DEFINE E == NumberWordsOf(norm)
<1>1. \A s \in Seq(E) : s \o <<>> = s
  OBVIOUS
<1>2. <<>> \in Seq(E)
  OBVIOUS
<1> HIDE DEF E
<1>3. \A s \in Seq(E) : HeardIn(norm, s) = h => HeardIn(norm, s \o <<>>) = h
  BY <1>1
<1> QED
  BY <1>2, <1>3 DEF Tells, E

LEMMA TakesOne ==
  ASSUME NEW norm, Audible(norm), NEW w \in NumberWordsOf(norm), NEW h, NEW g,
         Hears(norm, h, w) = g
  PROVE  Tells(norm, <<w>>, h, g)
<1>1. \A s \in Seq(NumberWordsOf(norm)) :
        HeardIn(norm, s \o <<w>>) = Hears(norm, HeardIn(norm, s), w)
  BY HeardGrows
<1>2. <<w>> \in Seq(NumberWordsOf(norm))
  OBVIOUS
<1>3. \A s \in Seq(NumberWordsOf(norm)) : HeardIn(norm, s) = h => HeardIn(norm, s \o <<w>>) = g
  BY <1>1
<1> QED
  BY <1>2, <1>3, Zenon DEF Tells

LEMMA TakesBoth ==
  ASSUME NEW norm, NEW v, NEW w, NEW f, NEW g, NEW h, Tells(norm, v, f, g), Tells(norm, w, g, h)
  PROVE  Tells(norm, v \o w, f, h)
<1> DEFINE E == NumberWordsOf(norm)
<1>1. v \in Seq(E) /\ \A s \in Seq(E) : HeardIn(norm, s) = f => HeardIn(norm, s \o v) = g
  BY DEF Tells
<1>2. w \in Seq(E) /\ \A s \in Seq(E) : HeardIn(norm, s) = g => HeardIn(norm, s \o w) = h
  BY DEF Tells
<1> HIDE DEF E
<1>3. v \o w \in Seq(E)
  BY <1>1, <1>2, JoinedIs
<1>4. ASSUME NEW s \in Seq(E), HeardIn(norm, s) = f
      PROVE  HeardIn(norm, s \o (v \o w)) = h
  <2> DEFINE sv == s \o v
  <2>1. v \in Seq(E)
    BY <1>1
  <2>2. w \in Seq(E)
    BY <1>2
  <2>3. sv \o w = s \o (v \o w)
    BY <2>1, <2>2, JoinsAssociate
  <2>4. sv \in Seq(E)
    BY <2>1, JoinedIs
  <2>5. HeardIn(norm, sv) = g
    BY <1>1, <1>4
  <2> HIDE DEF sv
  <2>6. HeardIn(norm, sv \o w) = h
    BY <1>2, <2>4, <2>5
  <2> QED
    BY <2>3, <2>6
<1> QED
  BY <1>3, <1>4 DEF Tells, E

(* What a known word adds to what was heard. *)
LEMMA TakesKnown ==
  ASSUME NEW norm, Audible(norm), NEW t \in Nat, NEW n \in Nat
  PROVE  /\ Tells(norm, <<norm.joiner>>, SoFar(t, n), SoFar(t, n))
         /\ Tells(norm, <<norm.hundred>>, SoFar(t, n), SoFar(t, n * 100))
         /\ \A k \in SmallNumbers :
              Tells(norm, <<SmallWord(norm, k)>>, SoFar(t, n), SoFar(t, n + k))
         /\ \A k \in 1 .. Len(norm.scales) - 1 :
              Tells(norm, <<norm.scales[k + 1]>>, SoFar(t, n), SoFar(t + n * Thousands(k), 0))
<1>1. /\ Hears(norm, SoFar(t, n), norm.joiner) = SoFar(t, n)
      /\ Hears(norm, SoFar(t, n), norm.hundred) = SoFar(t, n * 100)
      /\ \A k \in SmallNumbers : Hears(norm, SoFar(t, n), SmallWord(norm, k)) = SoFar(t, n + k)
      /\ \A k \in 1 .. Len(norm.scales) - 1 :
           Hears(norm, SoFar(t, n), norm.scales[k + 1]) = SoFar(t + n * Thousands(k), 0)
  BY HearsEach
<1>2. /\ norm.joiner \in NumberWordsOf(norm) /\ norm.hundred \in NumberWordsOf(norm)
      /\ \A k \in SmallNumbers : SmallWord(norm, k) \in NumberWordsOf(norm)
      /\ \A k \in 1 .. Len(norm.scales) - 1 : norm.scales[k + 1] \in NumberWordsOf(norm)
  BY DEF NumberWordsOf
<1>3. Tells(norm, <<norm.joiner>>, SoFar(t, n), SoFar(t, n))
  BY <1>1, <1>2, TakesOne, Zenon
<1>4. Tells(norm, <<norm.hundred>>, SoFar(t, n), SoFar(t, n * 100))
  BY <1>1, <1>2, TakesOne, Zenon
<1>5. ASSUME NEW k \in SmallNumbers
      PROVE  Tells(norm, <<SmallWord(norm, k)>>, SoFar(t, n), SoFar(t, n + k))
  BY <1>1, <1>2, TakesOne, Zenon
<1>6. ASSUME NEW k \in 1 .. Len(norm.scales) - 1
      PROVE  Tells(norm, <<norm.scales[k + 1]>>, SoFar(t, n), SoFar(t + n * Thousands(k), 0))
  BY <1>1, <1>2, TakesOne, Zenon
<1> QED
  BY <1>3, <1>4, <1>5, <1>6, Zenon

LEMMA TensAndUnits ==
  ASSUME NEW n \in 0 .. 99
  PROVE  /\ n \div 10 \in 0 .. 9 /\ n % 10 \in 0 .. 9 /\ n = 10 * (n \div 10) + (n % 10)
         /\ n >= 20 => n \div 10 \in 2 .. 9
OBVIOUS

LEMMA Hundreds ==
  ASSUME NEW n \in 0 .. 999
  PROVE  /\ n \div 100 \in 0 .. 9 /\ n % 100 \in 0 .. 99 /\ n = 100 * (n \div 100) + (n % 100)
         /\ n >= 100 => n \div 100 \in 1 .. 9
OBVIOUS

LEMMA SmallTells ==
  ASSUME NEW norm, Audible(norm), NEW t \in Nat, NEW m \in Nat, NEW k \in SmallNumbers
  PROVE  Tells(norm, <<SmallWord(norm, k)>>, SoFar(t, m), SoFar(t, m + k))
BY TakesKnown, Zenon

LEMMA SmallWordsAre ==
  ASSUME NEW norm
  PROVE  /\ \A k \in 0 .. 9 : k \in SmallNumbers /\ SmallWord(norm, k) = Nth(norm.units, k)
         /\ \A k \in 10 .. 19 : k \in SmallNumbers /\ SmallWord(norm, k) = Nth(norm.teens, k - 10)
         /\ \A d \in 2 .. 9 : 10 * d \in SmallNumbers /\ SmallWord(norm, 10 * d) = Nth(norm.tens, d)
<1>1. ASSUME NEW k \in 0 .. 9
      PROVE  k \in SmallNumbers /\ SmallWord(norm, k) = Nth(norm.units, k)
  BY DEF SmallNumbers, SmallWord
<1>2. ASSUME NEW k \in 10 .. 19
      PROVE  k \in SmallNumbers /\ SmallWord(norm, k) = Nth(norm.teens, k - 10)
  BY DEF SmallNumbers, SmallWord
<1>3. ASSUME NEW d \in 2 .. 9
      PROVE  10 * d \in SmallNumbers /\ SmallWord(norm, 10 * d) = Nth(norm.tens, d)
  <2> DEFINE k == 10 * d
  <2>1. k \div 10 = d /\ k >= 20
    OBVIOUS
  <2>2. k \in {20, 30, 40, 50, 60, 70, 80, 90}
    OBVIOUS
  <2> HIDE DEF k
  <2>3. k \in SmallNumbers
    BY <2>2 DEF SmallNumbers
  <2>4. ~(k < 10) /\ ~(k < 20)
    BY <2>2
  <2>5. SmallWord(norm, k) = Nth(norm.tens, k \div 10)
    BY <2>4 DEF SmallWord
  <2> QED
    BY <2>1, <2>3, <2>5 DEF k
<1> QED
  BY <1>1, <1>2, <1>3

LEMMA TwoDigitsSay ==
  ASSUME NEW norm, NEW n
  PROVE  /\ n = 0 => TwoDigits(norm, n, FALSE) = <<>>
         /\ n \in 1 .. 9 => TwoDigits(norm, n, FALSE) = <<Nth(norm.units, n)>>
         /\ n \in 10 .. 19 => TwoDigits(norm, n, FALSE) = <<Nth(norm.teens, n - 10)>>
         /\ n \in 20 .. 99 /\ n % 10 = 0 => TwoDigits(norm, n, FALSE) = <<Nth(norm.tens, n \div 10)>>
         /\ n \in 20 .. 99 /\ n % 10 \in 1 .. 9 =>
              TwoDigits(norm, n, FALSE) = <<Nth(norm.tens, n \div 10)>> \o <<Nth(norm.units, n % 10)>>
<1> DEFINE u == n % 10
           One(k) == <<IF k < 10 THEN Nth(norm.units, k) ELSE Nth(norm.teens, k - 10)>>
           a == One(n)
           b == <<Nth(norm.tens, n \div 10)>>
           c == One(u)
           w == TwoDigits(norm, n, FALSE)
<1>1. w = CASE n = 0 -> <<>> [] n \in 1 .. 19 -> a
            [] OTHER -> IF u = 0 THEN b ELSE b \o c
  BY Zenon DEF TwoDigits
<1>2. n \in 1 .. 9 => a = <<Nth(norm.units, n)>>
  OBVIOUS
<1>3. n \in 10 .. 19 => a = <<Nth(norm.teens, n - 10)>>
  OBVIOUS
<1>4. u \in 1 .. 9 => c = <<Nth(norm.units, u)>>
  <2> HIDE DEF u
  <2> QED
    OBVIOUS
<1> HIDE DEF a, c, w, One
<1>5. n = 0 => w = <<>>
  BY <1>1
<1>6. n \in 1 .. 19 => w = a
  BY <1>1
<1>7. n \in 20 .. 99 => w = IF u = 0 THEN b ELSE b \o c
  <2> DEFINE last == IF u = 0 THEN b ELSE b \o c
  <2>1. n \in 20 .. 99 => ~(n = 0) /\ ~(n \in 1 .. 19)
    OBVIOUS
  <2>2. w = CASE n = 0 -> <<>> [] n \in 1 .. 19 -> a [] OTHER -> last
    BY <1>1
  <2> HIDE DEF last
  <2>3. n \in 20 .. 99 => w = last
    BY <2>1, <2>2
  <2> QED
    BY <2>3 DEF last
<1>8. n \in 20 .. 99 /\ u = 0 => w = b
  BY <1>7
<1>9. n \in 20 .. 99 /\ u \in 1 .. 9 => w = b \o <<Nth(norm.units, u)>>
  <2> HIDE DEF u, b
  <2> QED
    BY <1>4, <1>7
<1>10. n \in 1 .. 9 \/ n \in 10 .. 19 => n \in 1 .. 19
  OBVIOUS
<1> QED
  BY <1>2, <1>3, <1>5, <1>6, <1>8, <1>9, <1>10 DEF w

(* A number under a hundred is added to what was heard. *)
LEMMA TwoDigitsTell ==
  ASSUME NEW norm, Audible(norm), NEW t \in Nat, NEW m \in Nat, NEW n \in 0 .. 99
  PROVE  Tells(norm, TwoDigits(norm, n, FALSE), SoFar(t, m), SoFar(t, m + n))
<1> DEFINE w == TwoDigits(norm, n, FALSE)
<1>1. CASE n = 0
  <2>1. w = <<>>
    BY <1>1, TwoDigitsSay, Zenon
  <2>3. m + n = m
    BY <1>1
  <2> QED
    BY <2>1, <2>3, TakesNone
<1>2. CASE n \in 1 .. 19
  <2>1. n \in 1 .. 9 \/ n \in 10 .. 19
    BY <1>2
  <2>3. /\ n \in 1 .. 9 => w = <<Nth(norm.units, n)>>
        /\ n \in 10 .. 19 => w = <<Nth(norm.teens, n - 10)>>
    BY TwoDigitsSay, Zenon
  <2> HIDE DEF w
  <2>4. n \in 1 .. 9 => n \in 0 .. 9
    OBVIOUS
  <2>5. n \in 1 .. 9 => n \in SmallNumbers /\ SmallWord(norm, n) = Nth(norm.units, n)
    BY <2>4, SmallWordsAre
  <2>6. n \in 10 .. 19 => n \in SmallNumbers /\ SmallWord(norm, n) = Nth(norm.teens, n - 10)
    BY SmallWordsAre
  <2>2. w = <<SmallWord(norm, n)>> /\ n \in SmallNumbers
    BY <2>1, <2>3, <2>5, <2>6
  <2> QED
    BY <2>2, SmallTells DEF w
<1>3. CASE n \in 20 .. 99 /\ n % 10 = 0
  <2> DEFINE d == n \div 10
  <2>1. d \in 2 .. 9 /\ n = 10 * d
    BY <1>3, TensAndUnits
  <2>2. w = <<Nth(norm.tens, d)>>
    BY <1>3, TwoDigitsSay
  <2> HIDE DEF d, w
  <2>3. w = <<SmallWord(norm, n)>> /\ n \in SmallNumbers
    BY <2>1, <2>2, SmallWordsAre
  <2> QED
    BY <2>3, SmallTells DEF w
<1>4. CASE n \in 20 .. 99 /\ n % 10 # 0
  <2> DEFINE d == n \div 10
             u == n % 10
             v == <<Nth(norm.tens, d)>>
             x == <<Nth(norm.units, u)>>
             k == 10 * d
  <2>1. d \in 2 .. 9 /\ u \in 1 .. 9 /\ n = k + u
    BY <1>4, TensAndUnits
  <2>2. w = v \o x
    BY <1>4, <2>1, TwoDigitsSay
  <2> HIDE DEF d, u, w
  <2>3. v = <<SmallWord(norm, k)>> /\ k \in SmallNumbers
    BY <2>1, SmallWordsAre
  <2>4. x = <<SmallWord(norm, u)>> /\ u \in SmallNumbers
    BY <2>1, SmallWordsAre
  <2> DEFINE j == m + k
  <2>5. j \in Nat /\ k \in Nat
    BY <2>1
  <2>6. Tells(norm, v, SoFar(t, m), SoFar(t, j))
    BY <2>3, SmallTells
  <2>7. m + n = j + u
    BY <2>1
  <2> HIDE DEF j, k, v, x
  <2>8. Tells(norm, x, SoFar(t, j), SoFar(t, m + n))
    BY <2>4, <2>5, <2>7, SmallTells
  <2>9. Tells(norm, v \o x, SoFar(t, m), SoFar(t, m + n))
    BY <2>6, <2>8, TakesBoth, Zenon
  <2> QED
    BY <2>2, <2>9 DEF w
<1>5. n = 0 \/ n \in 1 .. 19 \/ n \in 20 .. 99
  OBVIOUS
<1> QED
  BY <1>1, <1>2, <1>3, <1>4, <1>5

Under1000 == 0 .. 999

(* So is one under a thousand, when nothing was waiting for a scale. *)
LEMMA ThreeDigitsTell ==
  ASSUME NEW norm, Audible(norm), NEW t \in Nat, NEW n \in Under1000
  PROVE  Tells(norm, ThreeDigits(norm, n, FALSE), SoFar(t, 0), SoFar(t, n))
<1> DEFINE w == ThreeDigits(norm, n, FALSE)
<1>0. n \in 0 .. 999
  BY DEF Under1000
<1>1. CASE n < 100
  <2>1. w = TwoDigits(norm, n, FALSE)
    BY <1>1 DEF ThreeDigits
  <2>2. n \in 0 .. 99 /\ 0 + n = n /\ 0 \in Nat
    BY <1>0, <1>1
  <2>3. Tells(norm, TwoDigits(norm, n, FALSE), SoFar(t, 0), SoFar(t, 0 + n))
    BY <2>2, TwoDigitsTell
  <2> QED
    BY <2>1, <2>2, <2>3
<1>2. CASE n >= 100
  <2> DEFINE h == n \div 100
             rest == n % 100
             c == h * 100
             v == <<Nth(norm.units, h)>>
             y == <<norm.hundred>>
             j == IF rest > 0 /\ norm.joiner # <<>> THEN <<norm.joiner>> ELSE <<>>
             x == TwoDigits(norm, rest, FALSE)
  <2>1. h \in 1 .. 9 /\ rest \in 0 .. 99 /\ n = c + rest /\ c \in Nat
    BY <1>0, <1>2, Hundreds
  <2>2. w = (v \o y) \o (j \o x) \/ w = ((v \o y) \o j) \o x
    <3>1. w = <<Nth(norm.units, h), norm.hundred>> \o j \o x
      <4>1. ~(n < 100)
        BY <1>0, <1>2
      <4>2. w = IF n < 100 THEN TwoDigits(norm, n, FALSE)
                ELSE IF rest = 0 /\ FALSE
                     THEN <<Nth(norm.units, h), RegularOrdinal(norm, norm.hundred)>>
                     ELSE <<Nth(norm.units, h), norm.hundred>> \o j \o x
        BY Zenon DEF ThreeDigits
      <4> DEFINE y2 == <<Nth(norm.units, h), RegularOrdinal(norm, norm.hundred)>>
                 z == <<Nth(norm.units, h), norm.hundred>> \o j \o x
      <4> HIDE DEF w, h, rest, y2, z
      <4> QED
        BY <4>1, <4>2 DEF y2, z
    <3>2. <<Nth(norm.units, h), norm.hundred>> = v \o y
      OBVIOUS
    <3> HIDE DEF w, v, y, j, x, h
    <3> QED
      BY <3>1, <3>2
  <2> HIDE DEF h, rest, w
  <2>3. v = <<SmallWord(norm, h)>> /\ h \in SmallNumbers /\ 0 + h = h /\ h \in Nat
    BY <2>1, SmallWordsAre
  <2>4. Tells(norm, v, SoFar(t, 0), SoFar(t, h))
    <3>1. 0 \in Nat
      OBVIOUS
    <3>2. Tells(norm, <<SmallWord(norm, h)>>, SoFar(t, 0), SoFar(t, 0 + h))
      BY <2>3, <3>1, SmallTells
    <3> HIDE DEF v
    <3> QED
      BY <2>3, <3>2
  <2>5. Tells(norm, y, SoFar(t, h), SoFar(t, c))
    BY <2>3, TakesKnown
  <2>6. Tells(norm, j, SoFar(t, c), SoFar(t, c))
    <3>1. Tells(norm, <<norm.joiner>>, SoFar(t, c), SoFar(t, c))
      BY <2>1, TakesKnown
    <3>2. Tells(norm, <<>>, SoFar(t, c), SoFar(t, c))
      BY TakesNone
    <3> QED
      BY <3>1, <3>2
  <2>7. Tells(norm, x, SoFar(t, c), SoFar(t, n))
    <3>1. Tells(norm, TwoDigits(norm, rest, FALSE), SoFar(t, c), SoFar(t, c + rest))
      BY <2>1, TwoDigitsTell
    <3> QED
      BY <2>1, <3>1
  <2> HIDE DEF v, y, j, x, c
  <2>8. Tells(norm, v \o y, SoFar(t, 0), SoFar(t, c))
    BY <2>4, <2>5, TakesBoth, Zenon
  <2>9. Tells(norm, (v \o y) \o (j \o x), SoFar(t, 0), SoFar(t, n))
    <3>1. Tells(norm, j \o x, SoFar(t, c), SoFar(t, n))
      BY <2>6, <2>7, TakesBoth, Zenon
    <3> QED
      BY <2>8, <3>1, TakesBoth, Zenon
  <2>10. Tells(norm, ((v \o y) \o j) \o x, SoFar(t, 0), SoFar(t, n))
    <3>1. Tells(norm, (v \o y) \o j, SoFar(t, 0), SoFar(t, c))
      BY <2>6, <2>8, TakesBoth, Zenon
    <3> QED
      BY <2>7, <3>1, TakesBoth, Zenon
  <2> QED
    BY <2>2, <2>9, <2>10 DEF w
<1>3. n < 100 \/ n >= 100
  BY <1>0
<1> HIDE DEF w
<1>4. Tells(norm, w, SoFar(t, 0), SoFar(t, n))
  BY <1>1, <1>2, <1>3 DEF w
<1> QED
  BY <1>4 DEF w

(* What was heard is carried from one run of words to the next. *)
LEMMA TellsThrough ==
  ASSUME NEW norm, Audible(norm), NEW f \in Seq(Seq(NumberWordsOf(norm))),
         NEW h, h[0] = SoFar(0, 0), \A k \in 1 .. Len(f) : Tells(norm, f[k], h[k - 1], h[k])
  PROVE  /\ FlattenSeq(f) \in Seq(NumberWordsOf(norm))
         /\ HeardIn(norm, FlattenSeq(f)) = h[Len(f)]
<1> DEFINE E == NumberWordsOf(norm)
           n == Len(f)
           p(k) == SubSeq(f, 1, k)
           Good == {k \in Nat : k <= n => HeardIn(norm, FlattenSeq(p(k))) = h[k]}
<1>1. n \in Nat /\ f \in Seq(Seq(E)) /\ p(0) = <<>>
  OBVIOUS
<1>2. 0 \in Good
  <2>1. HeardIn(norm, <<>>) = SoFar(0, 0)
    BY HeardNothing
  <2>2. FlattenSeq(p(0)) = <<>>
    BY <1>1, FlattenShort
  <2> QED
    BY <2>1, <2>2
<1>3. ASSUME NEW k \in Nat, k \in Good
      PROVE  k + 1 \in Good
  <2> SUFFICES ASSUME k + 1 <= n PROVE HeardIn(norm, FlattenSeq(p(k + 1))) = h[k + 1]
    OBVIOUS
  <2> DEFINE q == p(k)
             x == f[k + 1]
             j == k + 1
  <2>1. q \in Seq(Seq(E)) /\ x \in Seq(E) /\ p(k + 1) = q \o <<x>>
    <3> DEFINE T == Seq(E)
    <3>1. k \in 0 .. Len(f) - 1 /\ f \in Seq(T)
      BY <1>1
    <3> HIDE DEF T
    <3>2. SubSeq(f, 1, k) \in Seq(T) /\ f[k + 1] \in T /\ SubSeq(f, 1, k + 1) = SubSeq(f, 1, k) \o <<f[k + 1]>>
      BY <3>1, PrefixGrows
    <3> QED
      BY <3>2 DEF T
  <2>2. Tells(norm, x, h[k], h[j])
    <3>1. j \in 1 .. Len(f) /\ j - 1 = k
      BY <1>1
    <3>2. Tells(norm, f[j], h[j - 1], h[j])
      BY <3>1
    <3> QED
      BY <3>1, <3>2
  <2>3. HeardIn(norm, FlattenSeq(q)) = h[k]
    BY <1>1, <1>3
  <2> HIDE DEF q, x, p, n, Good, E, j
  <2>4. FlattenSeq(q \o <<x>>) = FlattenSeq(q) \o x /\ FlattenSeq(q) \in Seq(E)
    BY <2>1, SequencesIn, FlattenAppends, FlattenIs
  <2> DEFINE s == FlattenSeq(q)
  <2>5. s \in Seq(NumberWordsOf(norm)) /\ HeardIn(norm, s) = h[k]
    BY <2>3, <2>4 DEF E
  <2> HIDE DEF s
  <2>6. HeardIn(norm, s \o x) = h[j]
    BY <2>2, <2>5 DEF Tells
  <2> QED
    BY <2>1, <2>4, <2>6 DEF s, j
<1>4. n \in Good
  <2> HIDE DEF Good
  <2> QED
    BY <1>1, <1>2, <1>3, NumbersFollow
<1>5. p(n) = f /\ n <= n
  OBVIOUS
<1>6. HeardIn(norm, FlattenSeq(p(n))) = h[n]
  <2> HIDE DEF p, n
  <2> QED
    BY <1>4, <1>5
<1>7. FlattenSeq(f) \in Seq(E)
  <2> HIDE DEF E
  <2> QED
    BY <1>1, FlattenIs
<1> QED
  BY <1>5, <1>6, <1>7

(* The words of a group of three digits that has a groups after it. *)
GroupWords(norm, v, a) ==
  IF v = 0 THEN <<>>
  ELSE ThreeDigits(norm, v, FALSE)
       \o (IF Nth(norm.scales, a) = <<>> THEN <<>> ELSE <<Nth(norm.scales, a)>>)

(* What is heard after a group: its scale closes it, but for the last. *)
Closed(t, v, a) == IF a = 0 THEN SoFar(t, v) ELSE SoFar(t + v * Thousands(a), 0)

LEMMA GroupTells ==
  ASSUME NEW norm, Audible(norm), NEW t \in Nat, NEW v \in Under1000,
         NEW a \in Nat, a < Len(norm.scales)
  PROVE  Tells(norm, GroupWords(norm, v, a), SoFar(t, 0), Closed(t, v, a))
<1> DEFINE p == Thousands(a)
           scale == Nth(norm.scales, a)
           w == ThreeDigits(norm, v, FALSE)
           s == IF scale = <<>> THEN <<>> ELSE <<scale>>
           g == GroupWords(norm, v, a)
<1>1. p \in Nat /\ v \in Nat
  BY ThousandsIn DEF Under1000
<1>2. Tells(norm, w, SoFar(t, 0), SoFar(t, v))
  BY ThreeDigitsTell, Zenon
<1>3. v # 0 => g = w \o s
  BY DEF GroupWords
<1>4. v = 0 => g = <<>>
  BY DEF GroupWords
<1>5. Tells(norm, s, SoFar(t, v), Closed(t, v, a))
  <2>1. CASE a = 0
    <3>1. scale = <<>>
      BY <2>1 DEF Audible, WordsDiffer
    <3>2. s = <<>> /\ Closed(t, v, a) = SoFar(t, v)
      BY <2>1, <3>1 DEF Closed
    <3> HIDE DEF s
    <3> QED
      BY <3>2, TakesNone
  <2>2. CASE a # 0
    <3>1. Len(norm.scales) \in Nat /\ DOMAIN norm.scales = 1 .. Len(norm.scales)
      BY ScalesAre
    <3>2. a \in 1 .. Len(norm.scales) - 1 /\ a + 1 \in DOMAIN norm.scales
      BY <2>2, <3>1
    <3>3. scale = norm.scales[a + 1]
      BY <3>2 DEF Nth
    <3>4. norm.scales[a + 1] # <<>>
      <4>1. WordsDiffer(norm)
        BY DEF Audible
      <4> QED
        BY <3>2, <4>1, Zenon DEF WordsDiffer
    <3> HIDE DEF p, scale
    <3>5. s = <<norm.scales[a + 1]>> /\ Closed(t, v, a) = SoFar(t + v * Thousands(a), 0)
      BY <2>2, <3>3, <3>4 DEF Closed
    <3>6. Tells(norm, <<norm.scales[a + 1]>>, SoFar(t, v), SoFar(t + v * Thousands(a), 0))
      BY <1>1, <3>2, TakesKnown, Zenon
    <3> HIDE DEF s
    <3> QED
      BY <3>5, <3>6
  <2> QED
    BY <2>1, <2>2
<1> HIDE DEF w, s, g
<1>6. CASE v = 0
  <2>1. Closed(t, v, a) = SoFar(t, 0)
    <3>1. v * p = 0 /\ t + 0 = t
      BY <1>1, <1>6
    <3>2. t + v * p = t
      BY <3>1
    <3> QED
      BY <1>6, <3>2 DEF Closed
  <2>2. Tells(norm, <<>>, SoFar(t, 0), SoFar(t, 0))
    BY TakesNone
  <2> QED
    BY <1>4, <1>6, <2>1, <2>2 DEF g
<1>7. CASE v # 0
  <2>1. Tells(norm, w \o s, SoFar(t, 0), Closed(t, v, a))
    BY <1>2, <1>5, TakesBoth, Zenon
  <2> QED
    BY <1>3, <1>7, <2>1 DEF g
<1> QED
  BY <1>6, <1>7

LEMMA Shifted ==
  ASSUME NEW x \in Nat, NEW p \in Nat, NEW v \in Nat
  PROVE  x * (1000 * p) + v * p = (1000 * x + v) * p
<1> DEFINE y == x * p
           z == v * p
<1>1. y \in Nat /\ z \in Nat
  OBVIOUS
<1>2. x * (1000 * p) = 1000 * y
  OBVIOUS
<1>3. (1000 * x + v) * p = (1000 * x) * p + z
  OBVIOUS
<1>4. (1000 * x) * p = 1000 * y
  OBVIOUS
<1> QED
  BY <1>2, <1>3, <1>4

(* What was heard before a group is worth a thousand times as much after   *)
(* it.                                                                     *)
GroupCloses(digits, a) ==
  LET v == ValueOf(Chunk(digits, a))
      t == HighPart(digits, a + 1) * Thousands(a + 1)
  IN  /\ v \in Under1000 /\ t \in Nat
      /\ a # 0 => Closed(t, v, a) = SoFar(HighPart(digits, a) * Thousands(a), 0)
      /\ a = 0 => Closed(t, v, a)
                  = SoFar(1000 * HighPart(digits, 1), ValueOf(Chunk(digits, 0)))

LEMMA GroupAdds ==
  ASSUME NEW digits \in Seq(Digits), NEW a \in Nat, Len(digits) > 3 * a
  PROVE  GroupCloses(digits, a)
<1> DEFINE v == ValueOf(Chunk(digits, a))
           x == HighPart(digits, a + 1)
           y == HighPart(digits, a)
           p == Thousands(a)
           q == Thousands(a + 1)
           t == x * q
<1>1. v \in 0 .. 999 /\ x \in Nat /\ y = 1000 * x + v
  BY ChunkAdds
<1>2. p \in Nat /\ q = 1000 * p /\ (a = 0 => p = 1)
  <2>1. p \in Nat
    BY ThousandsIn
  <2>2. q = 1000 * p
    BY ThousandsGrow
  <2>3. a = 0 => p = 1
    BY NoThousands, Zenon
  <2> QED
    BY <2>1, <2>2, <2>3
<1> HIDE DEF v, x, y, p, q
<1>3. t \in Nat /\ t + v * p = y * p
  <2>1. x * (1000 * p) + v * p = (1000 * x + v) * p
    BY <1>1, <1>2, Shifted
  <2>2. q \in Nat /\ x * q \in Nat
    BY <1>1, <1>2
  <2> QED
    BY <1>1, <1>2, <2>1, <2>2
<1>4. a # 0 => Closed(t, v, a) = SoFar(y * p, 0)
  <2>1. a # 0 => Closed(t, v, a) = SoFar(t + v * Thousands(a), 0)
    BY DEF Closed
  <2> QED
    BY <1>3, <2>1 DEF p
<1>5. a = 0 => t = 1000 * x
  BY <1>1, <1>2
<1>6. a = 0 => Closed(t, v, a) = SoFar(1000 * x, v)
  BY <1>5 DEF Closed
<1>7. a = 0 => x = HighPart(digits, 1) /\ v = ValueOf(Chunk(digits, 0))
  BY DEF x, v
<1> QED
  BY <1>1, <1>3, <1>4, <1>6, <1>7 DEF v, x, y, p, q, Under1000, GroupCloses

(* A number its scales reach is heard as itself. *)
LEMMA CardinalIsHeard ==
  ASSUME NEW norm, Audible(norm), NEW all \in Seq(Digits), all # <<>>,
         Len(Trimmed(all)) <= 3 * Len(norm.scales)
  PROVE  HeardAs(norm, Cardinal(norm, all, FALSE)) = ValueOf(all)
<1> DEFINE D == Trimmed(all)
           L == Len(D)
           G == (L + 2) \div 3
           V(a) == ValueOf(Chunk(D, a))
           H(a) == HighPart(D, a)
           f == [g \in 1 .. G |-> GroupWords(norm, V(G - g), G - g)]
           words == FlattenSeq(f)
           zero == <<Nth(norm.units, 0)>>
           said == Cardinal(norm, all, FALSE)
           E == NumberWordsOf(norm)
           h == [k \in 0 .. G |-> IF k < G THEN SoFar(H(G - k) * Thousands(G - k), 0)
                                  ELSE SoFar(1000 * H(1), V(0))]
<1>1. D \in Seq(Digits) /\ L \in Nat \ {0} /\ ValueOf(D) = ValueOf(all)
  BY TrimmedKeeps
<1>2. said = IF words # <<>> THEN words ELSE zero
  <2> DEFINE Group(g) ==
               LET v     == ValueOf(Chunk(D, G - g))
                   scale == Nth(norm.scales, G - g)
               IN  IF v = 0 THEN <<>>
                   ELSE ThreeDigits(norm, v, FALSE /\ g = G)
                        \o (IF scale = <<>> THEN <<>> ELSE <<scale>>)
             spoken == FlattenSeq([g \in 1 .. G |-> Group(g)])
  <2>1. said = IF TooLong(norm, all) THEN DigitByDigit(norm, D)
               ELSE IF spoken # <<>> THEN spoken
               ELSE <<IF FALSE THEN OrdinalWord(norm, 0) ELSE Nth(norm.units, 0)>>
    BY DEF Cardinal
  <2>2. ~TooLong(norm, all)
    <3>1. Len(norm.scales) \in Nat
      BY ScalesAre
    <3> QED
      BY <1>1, <3>1 DEF TooLong
  <2>3. \A g \in 1 .. G : Group(g) = GroupWords(norm, V(G - g), G - g)
    <3> SUFFICES ASSUME NEW g \in 1 .. G PROVE Group(g) = GroupWords(norm, V(G - g), G - g)
      OBVIOUS
    <3>1. (FALSE /\ g = G) = FALSE
      OBVIOUS
    <3> QED
      BY <3>1 DEF GroupWords
  <2>4. [g \in 1 .. G |-> Group(g)] = f
    <3> HIDE DEF Group, V, G
    <3> QED
      BY <2>3
  <2> HIDE DEF f, Group, D
  <2>5. spoken = words
    BY <2>4
  <2> HIDE DEF spoken, words
  <2> QED
    BY <2>1, <2>2, <2>5
<1>3. /\ G \in Nat /\ G >= 1 /\ L > 3 * (G - 1) /\ ~(L > 3 * G)
      /\ Len(norm.scales) \in Nat /\ G <= Len(norm.scales)
  <2>1. Len(norm.scales) \in Nat /\ L <= 3 * Len(norm.scales)
    BY ScalesAre
  <2> HIDE DEF D, L
  <2>2. G \in Nat /\ G >= 1 /\ L > 3 * (G - 1) /\ ~(L > 3 * G)
    BY <1>1
  <2> HIDE DEF G
  <2> QED
    BY <1>1, <2>1, <2>2
<1>4. ValueOf(D) = 1000 * H(1) + V(0) /\ H(1) \in Nat /\ V(0) \in 0 .. 999
  <2>1. 0 \in Nat /\ Len(D) > 3 * 0 /\ 0 + 1 = 1
    BY <1>1
  <2>2. HighPart(D, 0) = ValueOf(SubSeq(D, 1, Len(D) - 3 * 0))
    BY <2>1 DEF HighPart
  <2>3. Len(D) - 3 * 0 = Len(D)
    BY <1>1
  <2> HIDE DEF D
  <2>4. SubSeq(D, 1, Len(D)) = D
    BY <1>1
  <2>5. V(0) \in 0 .. 999 /\ H(0 + 1) \in Nat /\ H(0) = 1000 * H(0 + 1) + V(0)
    BY <1>1, <2>1, ChunkAdds
  <2> QED
    <3> HIDE DEF H, V
    <3>1. H(0) = ValueOf(D)
      BY <2>2, <2>3, <2>4 DEF H
    <3>2. H(0 + 1) = H(1)
      BY <2>1
    <3> QED
      BY <2>5, <3>1, <3>2
<1> HIDE DEF D, L, G, V, H, said
<1>5. h[0] = SoFar(0, 0)
  <2>1. 0 \in 0 .. G /\ 0 < G /\ G - 0 = G
    BY <1>3
  <2>2. h[0] = SoFar(H(G) * Thousands(G), 0)
    BY <2>1
  <2>3. H(G) = 0
    BY <1>3 DEF H, HighPart, L
  <2>4. Thousands(G) \in Nat
    <3>1. G \in Nat
      BY <1>3
    <3> QED
      BY <3>1, ThousandsIn
  <2>5. H(G) * Thousands(G) = 0
    BY <2>3, <2>4
  <2> HIDE DEF h
  <2> QED
    BY <2>2, <2>5
<1>6. ASSUME NEW k \in 1 .. G
      PROVE  Tells(norm, f[k], h[k - 1], h[k])
  <2> DEFINE a == G - k
             t == H(a + 1) * Thousands(a + 1)
             v == V(a)
  <2>1. /\ a \in Nat /\ L > 3 * a /\ a < Len(norm.scales) /\ G - (k - 1) = a + 1
        /\ k - 1 \in 0 .. G /\ k \in 0 .. G /\ k - 1 < G /\ (k < G <=> a # 0)
    BY <1>1, <1>3
  <2>2. f[k] = GroupWords(norm, v, a)
    OBVIOUS
  <2>3. h[k - 1] = SoFar(t, 0)
    <3>1. h[k - 1] = SoFar(H(G - (k - 1)) * Thousands(G - (k - 1)), 0)
      BY <2>1
    <3> QED
      BY <2>1, <3>1
  <2>4. /\ a # 0 => h[k] = SoFar(H(a) * Thousands(a), 0)
        /\ a = 0 => h[k] = SoFar(1000 * H(1), V(0))
    BY <2>1
  <2> HIDE DEF a, f, h
  <2>5. /\ v \in Under1000 /\ t \in Nat
        /\ a # 0 => Closed(t, v, a) = SoFar(H(a) * Thousands(a), 0)
        /\ a = 0 => Closed(t, v, a) = SoFar(1000 * H(1), V(0))
    <3>1. D \in Seq(Digits) /\ Len(D) > 3 * a
      BY <1>1, <2>1 DEF L
    <3> QED
      <4>1. a \in Nat
        BY <2>1
      <4>2. GroupCloses(D, a)
        BY <3>1, <4>1, GroupAdds, Zenon
      <4> QED
        BY <4>2 DEF GroupCloses, H, V
  <2> HIDE DEF t, v
  <2>6. h[k] = Closed(t, v, a)
    BY <2>4, <2>5
  <2>7. Tells(norm, GroupWords(norm, v, a), SoFar(t, 0), Closed(t, v, a))
    <3>1. a \in Nat /\ a < Len(norm.scales)
      BY <2>1
    <3>2. v \in Under1000 /\ t \in Nat
      BY <2>5
    <3> QED
      BY <3>1, <3>2, GroupTells, Zenon
  <2> QED
    BY <2>2, <2>3, <2>6, <2>7
<1>7. f \in Seq(Seq(E)) /\ Len(f) = G
  <2>1. \A g \in 1 .. G : f[g] \in Seq(E)
    <3> HIDE DEF f, h
    <3> QED
      BY <1>6 DEF Tells
  <2>2. f = [g \in 1 .. G |-> f[g]]
    OBVIOUS
  <2> DEFINE T == Seq(E)
  <2> HIDE DEF f, E
  <2>3. f \in [1 .. G -> T]
    BY <2>1, <2>2
  <2> HIDE DEF T
  <2>4. f \in Seq(T) /\ Len(f) = G
    BY <1>3, <2>3
  <2> QED
    BY <2>4 DEF T
<1>8. h[G] = SoFar(1000 * H(1), V(0))
  <2>1. G \in 0 .. G /\ ~(G < G)
    BY <1>3
  <2> QED
    BY <2>1
<1> HIDE DEF f, h
<1>9. words \in Seq(E) /\ HeardIn(norm, words) = h[G]
  BY <1>5, <1>6, <1>7, TellsThrough
<1> HIDE DEF words
<1>10. HeardAs(norm, words) = ValueOf(D)
  <2>1. HeardAs(norm, words) = HeardIn(norm, words).total + HeardIn(norm, words).now
    BY <1>9, HeardAsIs
  <2> DEFINE x == 1000 * H(1)
             y == V(0)
             z == H(1)
  <2>2. x \in Nat /\ y \in Nat /\ ValueOf(D) = x + y
    <3>1. z \in Nat /\ y \in 0 .. 999 /\ ValueOf(D) = x + y /\ x = 1000 * z
      BY <1>4
    <3> HIDE DEF x, y, z
    <3> QED
      BY <3>1
  <2>3. HeardIn(norm, words) = SoFar(x, y)
    BY <1>8, <1>9
  <2> HIDE DEF x, y
  <2>4. SoFar(x, y).total = x /\ SoFar(x, y).now = y
    BY DEF SoFar
  <2> QED
    BY <2>1, <2>2, <2>3, <2>4
<1>11. words = <<>> => HeardAs(norm, zero) = ValueOf(D)
  <2> SUFFICES ASSUME words = <<>> PROVE HeardAs(norm, zero) = ValueOf(D)
    OBVIOUS
  <2>1. HeardAs(norm, <<>>) = 0
    <3>1. HeardIn(norm, <<>>) = SoFar(0, 0) /\ <<>> \in Seq(E)
      BY HeardNothing
    <3>2. HeardAs(norm, <<>>) = HeardIn(norm, <<>>).total + HeardIn(norm, <<>>).now
      BY <3>1, HeardAsIs
    <3>3. SoFar(0, 0).total = 0 /\ SoFar(0, 0).now = 0
      BY DEF SoFar
    <3> QED
      BY <3>1, <3>2, <3>3
  <2>2. Tells(norm, zero, SoFar(0, 0), SoFar(0, 0))
    <3>1. 0 \in SmallNumbers /\ 0 \in 0 .. 9 /\ 0 \in Nat /\ 0 + 0 = 0
      BY DEF SmallNumbers
    <3>2. zero = <<SmallWord(norm, 0)>>
      BY <3>1, SmallWordsAre
    <3>3. Tells(norm, <<SmallWord(norm, 0)>>, SoFar(0, 0), SoFar(0, 0 + 0))
      BY <3>1, SmallTells, Zenon
    <3> HIDE DEF zero
    <3> QED
      BY <3>1, <3>2, <3>3
  <2>3. zero \in Seq(E) /\ HeardIn(norm, zero) = SoFar(0, 0)
    <3>1. HeardIn(norm, <<>>) = SoFar(0, 0) /\ <<>> \in Seq(E)
      BY HeardNothing
    <3>2. zero \in Seq(E) /\ HeardIn(norm, <<>> \o zero) = SoFar(0, 0)
      BY <2>2, <3>1 DEF Tells
    <3> HIDE DEF zero, E
    <3>3. <<>> \o zero = zero
      BY <3>2
    <3> QED
      BY <3>2, <3>3
  <2> HIDE DEF zero
  <2>4. HeardAs(norm, zero) = HeardIn(norm, zero).total + HeardIn(norm, zero).now
    BY <2>3, HeardAsIs
  <2>5. SoFar(0, 0).total = 0 /\ SoFar(0, 0).now = 0
    BY DEF SoFar
  <2>6. HeardAs(norm, zero) = 0
    BY <2>3, <2>4, <2>5
  <2> QED
    BY <1>10, <2>1, <2>6
<1> HIDE DEF zero
<1>12. HeardAs(norm, said) = ValueOf(all)
  BY <1>1, <1>2, <1>10, <1>11
<1> QED
  BY <1>12 DEF said

-----------------------------------------------------------------------------
(* A word of digits and grouping marks.                                    *)

LEMMA HeadAndTail ==
  ASSUME NEW S, NEW s \in Seq(S), NEW k \in 0 .. Len(s)
  PROVE  SubSeq(s, 1, k) \o SubSeq(s, k + 1, Len(s)) = s
<1> DEFINE n == Len(s)
           a == SubSeq(s, 1, k)
           b == SubSeq(s, k + 1, n)
           t == a \o b
<1>1. n \in Nat /\ k \in Nat /\ k <= n
  OBVIOUS
<1>2. a \in Seq(S) /\ Len(a) = k /\ \A i \in 1 .. k : a[i] = s[i]
  OBVIOUS
<1>3. b \in Seq(S) /\ Len(b) = n - k /\ \A i \in 1 .. n - k : b[i] = s[k + i]
  OBVIOUS
<1> HIDE DEF a, b, n
<1>4. /\ t \in Seq(S) /\ Len(t) = Len(a) + Len(b)
      /\ \A i \in 1 .. Len(a) : t[i] = a[i]
      /\ \A i \in 1 .. Len(b) : t[Len(a) + i] = b[i]
  <2>1. a \in Seq(S) /\ b \in Seq(S)
    BY <1>2, <1>3
  <2> QED
    BY <2>1, JoinedIs
<1> HIDE DEF t
<1>5. ASSUME NEW i \in 1 .. n
      PROVE  t[i] = s[i]
  <2>1. CASE i \in 1 .. k
    BY <1>2, <1>4, <2>1
  <2>2. CASE i \in k + 1 .. n
    <3> DEFINE j == i - k
    <3>1. j \in 1 .. n - k /\ k + j = i
      BY <1>1, <2>2
    <3> HIDE DEF j
    <3>2. t[k + j] = b[j] /\ b[j] = s[k + j]
      BY <1>2, <1>3, <1>4, <3>1
    <3> QED
      BY <3>1, <3>2
  <2> QED
    BY <1>1, <2>1, <2>2
<1>6. Len(t) = n /\ IsSequence(t) /\ IsSequence(s)
  BY <1>1, <1>2, <1>3, <1>4 DEF IsSequence
<1>7. t = s
  BY <1>5, <1>6, SameSequence DEF n
<1> QED
  BY <1>7 DEF t, a, b, n

LEMMA FlattenHolds ==
  ASSUME NEW S, NEW f \in Seq(Seq(S)), NEW k \in 1 .. Len(f)
  PROVE  ToSet(f[k]) \subseteq ToSet(FlattenSeq(f)) /\ FlattenSeq(f) \in Seq(S)
<1> DEFINE n == Len(f)
           P == Seq(S)
           a == SubSeq(f, 1, k - 1)
           b == SubSeq(f, k + 1, n)
           one == <<f[k]>>
           fa == FlattenSeq(a)
           fb == FlattenSeq(b)
           x == f[k]
<1>1. n \in Nat /\ a \in Seq(P) /\ b \in Seq(P) /\ one \in Seq(P) /\ x \in Seq(S)
  OBVIOUS
<1>2. (a \o one) \o b = f
  <2> HIDE DEF P
  <2> DEFINE j == k - 1
  <2>1. f \in Seq(P) /\ j \in 0 .. Len(f) - 1 /\ j + 1 = k /\ k \in 0 .. Len(f)
    BY DEF P
  <2>2. SubSeq(f, 1, j + 1) = SubSeq(f, 1, j) \o <<f[j + 1]>>
    <3> HIDE DEF j
    <3> QED
      BY <2>1, PrefixGrows
  <2>3. SubSeq(f, 1, k) = a \o one
    BY <2>1, <2>2
  <2>4. SubSeq(f, 1, k) \o SubSeq(f, k + 1, Len(f)) = f
    BY <2>1, HeadAndTail
  <2> QED
    BY <2>3, <2>4
<1> HIDE DEF a, b, one, x
<1>3. a \o one \in Seq(P)
  <2> HIDE DEF P
  <2> QED
    BY <1>1, JoinedIs
<1>4. FlattenSeq((a \o one) \o b) = FlattenSeq(a \o one) \o fb
  BY <1>1, <1>3, FlattenJoins
<1>5. FlattenSeq(a \o one) = fa \o FlattenSeq(one)
  BY <1>1, FlattenJoins
<1>6. FlattenSeq(one) = x
  BY FlattenShort DEF one, x
<1>7. fa \in Seq(S) /\ fb \in Seq(S)
  BY <1>1, FlattenIs
<1> HIDE DEF fa, fb
<1>8. FlattenSeq(f) = (fa \o x) \o fb
  BY <1>2, <1>4, <1>5, <1>6
<1>9. ToSet(x) \subseteq ToSet((fa \o x) \o fb) /\ (fa \o x) \o fb \in Seq(S)
  <2> DEFINE y == fa \o x
             z == y \o fb
  <2>1. y \in Seq(S) /\ Len(y) = Len(fa) + Len(x) /\ Len(fa) \in Nat /\ Len(x) \in Nat
        /\ \A i \in 1 .. Len(x) : y[Len(fa) + i] = x[i]
    BY <1>1, <1>7, JoinedIs
  <2> HIDE DEF y
  <2>2. z \in Seq(S) /\ Len(z) = Len(y) + Len(fb) /\ Len(fb) \in Nat
        /\ \A i \in 1 .. Len(y) : z[i] = y[i]
    <3>1. y \in Seq(S) /\ fb \in Seq(S)
      BY <1>7, <2>1
    <3> QED
      BY <3>1, JoinedIs
  <2> HIDE DEF z
  <2>3. ASSUME NEW i \in 1 .. Len(x)
        PROVE  x[i] \in ToSet(z)
    <3> DEFINE j == Len(fa) + i
    <3>1. j \in 1 .. Len(y) /\ j \in 1 .. Len(z) /\ DOMAIN z = 1 .. Len(z)
      BY <2>1, <2>2
    <3>2. z[j] = x[i]
      BY <2>1, <2>2, <3>1
    <3> HIDE DEF j
    <3> QED
      BY <3>1, <3>2 DEF ToSet
  <2>4. DOMAIN x = 1 .. Len(x)
    BY <1>1
  <2>5. ToSet(x) \subseteq ToSet(z)
    BY <2>3, <2>4 DEF ToSet
  <2> QED
    BY <2>2, <2>5 DEF y, z
<1> QED
  BY <1>8, <1>9 DEF x

LEMMA FlattenSingles ==
  ASSUME NEW S, NEW s \in Seq(S)
  PROVE  FlattenSeq([k \in DOMAIN s |-> <<s[k]>>]) = s
<1> DEFINE f == [k \in DOMAIN s |-> <<s[k]>>]
           n == Len(s)
           Good == {k \in Nat : k <= n => FlattenSeq(SubSeq(f, 1, k)) = SubSeq(s, 1, k)}
<1>1. n \in Nat /\ Len(f) = n /\ f \in Seq(Seq(S)) /\ \A k \in 1 .. n : f[k] = <<s[k]>>
  <2> DEFINE P == Seq(S)
  <2>1. DOMAIN s = 1 .. n /\ n \in Nat /\ IsSequence(s)
    BY DEF IsSequence
  <2>2. \A k \in DOMAIN s : f[k] = <<s[k]>> /\ f[k] \in P
    OBVIOUS
  <2>3. f = [k \in DOMAIN s |-> f[k]]
    OBVIOUS
  <2> HIDE DEF f, P
  <2>4. f \in Seq(P) /\ Len(f) = Len(s)
    BY <2>1, <2>2, <2>3, MappedIs
  <2> QED
    BY <2>1, <2>2, <2>4 DEF P
<1> HIDE DEF f
<1>2. 0 \in Good
  <2>1. SubSeq(f, 1, 0) = <<>> /\ SubSeq(s, 1, 0) = <<>>
    BY <1>1
  <2> QED
    BY <2>1, FlattenShort
<1>3. ASSUME NEW k \in Nat, k \in Good
      PROVE  k + 1 \in Good
  <2> SUFFICES ASSUME k + 1 <= n
               PROVE  FlattenSeq(SubSeq(f, 1, k + 1)) = SubSeq(s, 1, k + 1)
    OBVIOUS
  <2> DEFINE q == SubSeq(f, 1, k)
             x == f[k + 1]
             P == Seq(S)
  <2>1. k \in 0 .. Len(s) - 1 /\ k \in 0 .. Len(f) - 1 /\ k + 1 \in 1 .. n
    BY <1>1
  <2>2. SubSeq(s, 1, k + 1) = SubSeq(s, 1, k) \o <<s[k + 1]>>
    BY <2>1, PrefixGrows
  <2>3. q \in Seq(P) /\ SubSeq(f, 1, k + 1) = q \o <<x>> /\ x \in P
    <3> HIDE DEF P
    <3>1. f \in Seq(P)
      BY <1>1 DEF P
    <3> QED
      BY <2>1, <3>1, PrefixGrows
  <2>4. x = <<s[k + 1]>> /\ FlattenSeq(q) = SubSeq(s, 1, k)
    BY <1>1, <1>3, <2>1
  <2> HIDE DEF q, x, n
  <2>5. IsSequence(q) /\ IsSequence(x)
    <3>1. x \in Seq(S)
      BY <2>3
    <3> HIDE DEF P
    <3> QED
      BY <2>3, <3>1, SequencesIn
  <2>6. FlattenSeq(q \o <<x>>) = FlattenSeq(q) \o x
    BY <2>5, FlattenAppends
  <2> QED
    BY <2>2, <2>3, <2>4, <2>6
<1>4. n \in Good
  <2> HIDE DEF Good
  <2> QED
    BY <1>1, <1>2, <1>3, NumbersFollow
<1>5. SubSeq(f, 1, n) = f /\ SubSeq(s, 1, n) = s /\ n <= n
  BY <1>1
<1>6. FlattenSeq(f) = s
  <2> HIDE DEF n
  <2> QED
    BY <1>4, <1>5
<1> QED
  BY <1>6 DEF f

Figures == Digits \cup {Comma}

LEMMA FiguresAre ==
  /\ Digits \subseteq Nat /\ Figures \subseteq Nat /\ Figures \subseteq Units
  /\ Malformed \notin Figures /\ Minus \notin Figures /\ Dot \notin Digits
BY DEF Figures, Digits, Comma, Zero, Units, Malformed, Minus, Dot

LEMMA WiderSeq ==
  ASSUME NEW S, NEW T, S \subseteq T, NEW s \in Seq(S)
  PROVE  s \in Seq(T)
<1>1. ToSet(s) \subseteq S
  BY DEF ToSet
<1>2. ToSet(s) \subseteq T
  BY <1>1
<1> QED
  BY <1>2, MembersIn

(* What is left without c holds everything else. *)
LEMMA WithoutHolds ==
  ASSUME NEW S, NEW s \in Seq(S), NEW c, NEW k \in 1 .. Len(s), s[k] # c
  PROVE  s[k] \in ToSet(Without(s, c))
<1> DEFINE f == [i \in DOMAIN s |-> IF s[i] = c THEN <<>> ELSE <<s[i]>>]
<1>1. f \in Seq(Seq(S)) /\ Len(f) = Len(s) /\ f[k] = <<s[k]>>
  <2> DEFINE P == Seq(S)
  <2>1. DOMAIN s = 1 .. Len(s) /\ IsSequence(s)
    BY DEF IsSequence
  <2>2. f[k] = <<s[k]>>
    BY <2>1
  <2>3. f = [i \in DOMAIN s |-> f[i]]
    OBVIOUS
  <2>4. ASSUME NEW i \in DOMAIN s PROVE f[i] \in P
    <3>1. s[i] \in S
      BY <2>1
    <3>2. <<>> \in P /\ <<s[i]>> \in P
      BY <3>1
    <3> HIDE DEF P
    <3> QED
      BY <3>2
  <2> HIDE DEF f, P
  <2>5. f \in Seq(P) /\ Len(f) = Len(s)
    BY <2>1, <2>3, <2>4, MappedIs
  <2> QED
    BY <2>2, <2>5 DEF P
<1>2. Without(s, c) = FlattenSeq(f)
  BY DEF Without
<1>3. s[k] \in ToSet(<<s[k]>>)
  BY DEF ToSet
<1> HIDE DEF f
<1>4. ToSet(f[k]) \subseteq ToSet(FlattenSeq(f))
  BY <1>1, FlattenHolds
<1> QED
  BY <1>1, <1>2, <1>3, <1>4

(* A whole number without a suffix is said as a cardinal. *)
LEMMA WordedPlain ==
  ASSUME NEW norm, NormFields(norm), NEW digits \in Seq(Nat),
         NEW words \in Worded(norm, {}, digits, <<>>, <<>>)
  PROVE  words = Cardinal(norm, digits, FALSE) /\ digits # <<>>
<1> DEFINE ordinal == <<>> # <<>> /\ <<>> = <<>>
                      /\ <<>> \in {norm.ordinalSuffix} \cup ToSet(OrdinalTrio)
           w == Cardinal(norm, digits, ordinal)
           point == IF <<>> = <<>> THEN <<>> ELSE <<norm.point>> \o DigitByDigit(norm, <<>>)
           c == CHOOSE c \in {} : TRUE
           unit == IF digits = <<Zero + 1>> /\ <<>> = <<>> THEN c.one ELSE c.many
           sign == IF {} = {} THEN <<>> ELSE <<unit>>
<1>1. words = w \o point \o sign /\ digits # <<>>
  BY Zenon DEF Worded
<1>2. ordinal = FALSE
  OBVIOUS
<1>3. point = <<>> /\ sign = <<>>
  OBVIOUS
<1>4. w = Cardinal(norm, digits, FALSE)
  BY <1>2
<1> HIDE DEF ordinal, point, sign
<1>5. w \in Words
  <2>1. w \in WordsOf(Nat)
    BY <1>1, <1>4, FieldsSay, CardinalIs
  <2> QED
    BY <2>1 DEF Words, WordsOf
<1> HIDE DEF w
<1>6. w \o <<>> = w
  BY <1>5 DEF Words
<1> QED
  BY <1>1, <1>3, <1>4, <1>6

LEMMA NotThere ==
  ASSUME NEW S, NEW s \in Seq(S)
  PROVE  Before(s, 0) = s /\ Behind(s, 0) = <<>>
BY DEF Before, Behind

LEMMA SplitPlain ==
  ASSUME NEW norm, NormFields(norm), NEW digits \in Seq(Digits),
         NEW words \in Split(norm, {}, digits, <<>>)
  PROVE  words = Cardinal(norm, digits, FALSE) /\ digits # <<>>
<1> DEFINE I == {k \in 1 .. Len(digits) : digits[k] \notin Digits}
           stop == IF I # {} THEN Min(I) ELSE 0
           suffix == IF stop = 0 THEN <<>> ELSE SubSeq(digits, stop, Len(digits))
<1>1. words \in Worded(norm, {}, Before(digits, stop), suffix, <<>>)
  BY Zenon DEF Split, SelectInSeq
<1>2. I = {}
  OBVIOUS
<1>3. stop = 0
  BY <1>2
<1> HIDE DEF stop
<1>4. suffix = <<>> /\ Before(digits, stop) = digits
  BY <1>3, NotThere
<1> HIDE DEF suffix
<1>5. words \in Worded(norm, {}, digits, <<>>, <<>>)
  BY <1>1, <1>4
<1>6. digits \in Seq(Nat)
  BY FiguresAre, WiderSeq, Zenon
<1> QED
  BY <1>5, <1>6, WordedPlain

LEMMA UnsignedPlain ==
  ASSUME NEW norm, NormFields(norm), NEW digits \in Seq(Digits),
         NEW words \in Unsigned(norm, {}, digits)
  PROVE  words = Cardinal(norm, digits, FALSE) /\ digits # <<>>
<1> DEFINE I == {k \in 1 .. Len(digits) : digits[k] = Dot}
           dot == IF I # {} THEN Min(I) ELSE 0
<1>1. words \in Split(norm, {}, Before(digits, dot), Behind(digits, dot))
  BY Zenon DEF Unsigned, SelectInSeq
<1>2. I = {}
  BY FiguresAre
<1>3. dot = 0
  BY <1>2
<1> HIDE DEF dot
<1>4. words \in Split(norm, {}, digits, <<>>)
  BY <1>1, <1>3, NotThere
<1> QED
  BY <1>4, SplitPlain

LEMMA NumberPlain ==
  ASSUME NEW norm, NormFields(norm), NEW word \in Seq(Figures), word # <<>>,
         \A c \in norm.currency : c.sign \notin Figures,
         Without(word, Comma) \in Seq(Digits),
         NEW words \in NumberWords(norm, word)
  PROVE  words = Cardinal(norm, Without(word, Comma), FALSE) /\ Without(word, Comma) # <<>>
<1> DEFINE signs == {c \in norm.currency : c.sign = word[1]}
           body == IF signs = {} THEN word ELSE Tail(word)
           negative == body # <<>> /\ body[1] = Minus
           rest == IF negative THEN Tail(body) ELSE body
           cleaned == Without(rest, Comma)
           minus == IF negative THEN <<norm.negative>> ELSE <<>>
<1>1. PICK less \in Unsigned(norm, signs, cleaned) : words = minus \o less
  BY Zenon DEF NumberWords
<1>2. word[1] \in Figures
  OBVIOUS
<1>3. signs = {} /\ body = word
  BY <1>2
<1>4. negative = FALSE
  BY <1>2, <1>3, FiguresAre
<1>5. rest = word /\ minus = <<>>
  BY <1>3, <1>4
<1> HIDE DEF signs, rest, minus
<1> DEFINE digits == Without(word, Comma)
<1>6. less \in Unsigned(norm, {}, digits) /\ words = <<>> \o less
  BY <1>1, <1>3, <1>5
<1>7. digits \in Seq(Digits)
  OBVIOUS
<1> HIDE DEF digits
<1>8. less = Cardinal(norm, digits, FALSE) /\ digits # <<>>
  BY <1>6, <1>7, UnsignedPlain
<1>9. less \in Words
  <2>2. digits \in Seq(Nat)
    BY <1>7, FiguresAre, WiderSeq, Zenon
  <2>3. less \in WordsOf(Nat)
    BY <1>8, <2>2, FieldsSay, CardinalIs
  <2> QED
    BY <2>3 DEF Words, WordsOf
<1>10. <<>> \o less = less
  <2> HIDE DEF Words
  <2> QED
    BY <1>9 DEF Words
<1> QED
  BY <1>6, <1>8, <1>10 DEF digits

(* Only the words of a number are said as one. *)
LEMMA LadderSaysNoNumber ==
  ASSUME NEW raw, PackOk(raw), NEW word \in Seq(Nat), NEW policy
  PROVE  Ladder(raw, word, policy).via # "number"
<1> DEFINE refusals == IF policy = "refuse" THEN {Refusal} ELSE {}
           guesses == IF policy \in {"lts", "defer"} THEN Guessed(raw, word) ELSE {}
           rungs == <<Known(raw, word), Stemmed(raw, word), refusals, guesses,
                      {SpelledOut(raw, word)}>>
           answer == Climb(rungs)
           Unnumbered == {a \in [phones : Phones(raw), via : Vias, words : Words] : a.via # "number"}
<1>1. IsSequence(word)
  BY DEF IsSequence
<1>2. ASSUME NEW phones \in Phones(raw), NEW via \in Vias \ {"number"}
      PROVE  Answer(phones, via) \in Unnumbered
  BY DEF Answer, Words
<1>3. Known(raw, word) \subseteq Unnumbered
  <2> SUFFICES ASSUME NEW x \in Known(raw, word) PROVE x \in Unnumbered
    OBVIOUS
  <2>1. x.phones \in Phones(raw) /\ x.via \in {"pos", "lexicon"} /\ x = Answer(x.phones, x.via)
    BY KnownIs DEF Known, Answer
  <2>2. x.via \in Vias \ {"number"}
    BY <2>1 DEF Vias
  <2> HIDE DEF Unnumbered
  <2> QED
    BY <1>2, <2>1, <2>2
<1>4. Stemmed(raw, word) \subseteq Unnumbered
  <2> SUFFICES ASSUME NEW x \in Stemmed(raw, word) PROVE x \in Unnumbered
    OBVIOUS
  <2>1. x.phones \in Phones(raw) /\ x = Answer(x.phones, "stem")
    BY StemmedIs
  <2>2. "stem" \in Vias \ {"number"}
    BY DEF Vias
  <2> HIDE DEF Unnumbered
  <2> QED
    BY <1>2, <2>1, <2>2
<1>5. refusals \subseteq Unnumbered
  <2>1. <<>> \in Phones(raw) /\ "refused" \in Vias \ {"number"}
    BY DEF Phones, Vias
  <2> HIDE DEF Unnumbered
  <2>2. Refusal \in Unnumbered
    BY <1>2, <2>1 DEF Refusal
  <2> QED
    BY <2>2
<1>6. guesses \subseteq Unnumbered
  <2> SUFFICES ASSUME NEW x \in Guessed(raw, word) PROVE x \in Unnumbered
    OBVIOUS
  <2>1. x \in Answers(raw) /\ x.via = "lts"
    BY <1>1, GuessedIs
  <2> QED
    BY <2>1 DEF Answers, Words
<1>7. SpelledOut(raw, word) \in Unnumbered
  <2> DEFINE phones == Joined(raw, [k \in DOMAIN word |-> Spoken(raw, word[k])])
             via == IF phones = <<>> THEN "refused" ELSE "spelled"
  <2>1. SpelledOut(raw, word) = Answer(phones, via)
    BY DEF SpelledOut
  <2>2. SpelledOut(raw, word) \in Answers(raw)
    BY <1>1, SpelledOutIs
  <2>3. Answer(phones, via).via = via /\ via # "number"
    BY DEF Answer
  <2> HIDE DEF phones, via
  <2> QED
    BY <2>1, <2>2, <2>3 DEF Answers, Words
<1> HIDE DEF Unnumbered
<1>8. answer \in Unnumbered
  <2> HIDE DEF refusals, guesses
  <2>1. Len(rungs) = 5 /\ rungs[5] # {}
    OBVIOUS
  <2>2. \A i \in 1 .. 5 : rungs[i] \subseteq Unnumbered
    BY <1>3, <1>4, <1>5, <1>6, <1>7
  <2> HIDE DEF rungs
  <2>3. \E i \in 1 .. Len(rungs) : Climb(rungs) \in rungs[i]
    BY <2>1, ClimbsTo
  <2> QED
    BY <2>1, <2>2, <2>3
<1>9. Ladder(raw, word, policy)
      = [answer EXCEPT !.via = IF ToSet(word) \subseteq raw.meta.accept THEN @ ELSE "refused"]
  BY DEF Ladder
<1> HIDE DEF answer
<1> QED
  BY <1>8, <1>9 DEF Unnumbered

LEMMA NumbersAreExpanded ==
  ASSUME NEW raw, PackOk(raw), NEW word \in Seq(Nat), NEW policy,
         PronounceFolded(raw, word, policy).via = "number"
  PROVE  \E say : PronounceFolded(raw, word, policy) \in Expanded(raw, word, say)
<1> DEFINE said == Ladder(raw, word, policy)
           say == Nested(raw, IF policy = "refuse" THEN "spell" ELSE policy)
           first == Expanded(raw, word, say)
           answer == Climb(<<first, {said}>>)
<1>1. PronounceFolded(raw, word, policy) = answer
  BY DEF PronounceFolded
<1>2. said.via # "number"
  BY LadderSaysNoNumber
<1>3. answer \in first \cup {said}
  <2> HIDE DEF first, said
  <2> QED
    BY ClimbsEither
<1> HIDE DEF answer, said
<1>4. answer \in first
  BY <1>1, <1>2, <1>3
<1> QED
  BY <1>1, <1>4

LEMMA ExpandedSays ==
  ASSUME NEW raw, PackOk(raw), NEW word, NEW say, NEW a \in Expanded(raw, word, say),
         a.via = "number"
  PROVE  /\ NormFields(raw.norm) /\ ToSet(word) \cap Digits # {}
         /\ a.words \in NumberWords(raw.norm, word)
<1> DEFINE norm == raw.norm
           Parts(w) == <<>> \o [k \in DOMAIN w |-> say[FoldText(raw, w[k])]]
           phonesOf(said) == [k \in DOMAIN said |-> said[k].phones]
           Together(said, w) ==
             IF Overflow \in ToSet(said) THEN Overflow
             ELSE [Answer(Joined(raw, phonesOf(said)), "number") EXCEPT !.words = w]
<1>1. /\ HasNorm(raw) /\ ToSet(word) \cap Digits # {}
      /\ \E w \in NumberWords(norm, word) : a = Together(Parts(w), w)
  BY Zenon DEF Expanded
<1>2. PICK w \in NumberWords(norm, word) : a = Together(Parts(w), w)
  BY <1>1
<1>3. a # Overflow
  <2>1. Overflow.via = "overflow"
    BY DEF Overflow, Answer
  <2> QED
    BY <2>1
<1> DEFINE phones == Joined(raw, phonesOf(Parts(w)))
<1>4. a = [Answer(phones, "number") EXCEPT !.words = w]
  BY <1>2, <1>3
<1> HIDE DEF phones
<1>5. a.words = w
  BY <1>4 DEF Answer
<1>6. NormFields(norm)
  BY <1>1 DEF PackOk, PackFields, Loads, NormOk
<1> QED
  BY <1>1, <1>2, <1>5, <1>6

LEMMA FiguresStay ==
  ASSUME NEW raw, KeepsDigits(raw), NEW text \in Seq(Figures)
  PROVE  FoldText(raw, [k \in DOMAIN text |-> Cp(text[k])]) = text
<1> DEFINE cps == [k \in DOMAIN text |-> Cp(text[k])]
           f == [i \in DOMAIN cps |-> Folded(raw, cps[i])]
           singles == [k \in DOMAIN text |-> <<text[k]>>]
<1>1. ASSUME NEW k \in DOMAIN text
      PROVE  Folded(raw, Cp(text[k])) = <<text[k]>>
  <2> DEFINE cp == text[k]
             rows == {r \in raw.meta.fold : r.key = <<cp>>}
  <2>1. cp \in Figures
    OBVIOUS
  <2> HIDE DEF cp
  <2>2. Cp(cp) = cp
    BY <2>1, FiguresAre DEF Cp
  <2>3. rows = {}
    BY <2>1 DEF KeepsDigits, Figures
  <2>4. Folded(raw, cp) = <<cp>>
    BY <2>3 DEF Folded
  <2> QED
    BY <2>2, <2>4 DEF cp
<1>2. DOMAIN cps = DOMAIN text /\ \A k \in DOMAIN text : cps[k] = Cp(text[k])
  OBVIOUS
<1>3. f = singles
  <2> HIDE DEF cps
  <2> QED
    BY <1>1, <1>2
<1>4. FoldText(raw, cps) = FlattenSeq(f)
  BY DEF FoldText
<1>5. FlattenSeq(singles) = text
  BY FlattenSingles
<1> QED
  BY <1>3, <1>4, <1>5

LEMMA NumbersSaidReadBack ==
  ASSUME NEW raw, PackOk(raw), NEW policy, NEW t, t.text \in Seq(Units),
         t.via = Pronounce(raw, t.text, policy).via, t.words = Pronounce(raw, t.text, policy).words
  PROVE  ReadsBack(raw, t)
<1> DEFINE text == t.text
           digits == Without(text, Comma)
           norm == raw.norm
           cps == [k \in DOMAIN text |-> Cp(text[k])]
           answer == Pronounce(raw, text, policy)
<1> SUFFICES ASSUME t.via = "number", ToSet(digits) \subseteq Digits,
                    Len(Trimmed(digits)) <= 3 * Len(norm.scales),
                    WordsDiffer(norm), KeepsDigits(raw)
             PROVE  HeardAs(norm, t.words) = ValueOf(digits)
  BY DEF ReadsBack
<1>1. text \in Seq(Figures)
  <2>1. ASSUME NEW k \in 1 .. Len(text) PROVE text[k] \in Figures
    <3>1. CASE text[k] = Comma
      BY <3>1 DEF Figures
    <3>2. CASE text[k] # Comma
      <4>1. text[k] \in ToSet(digits)
        BY <3>2, WithoutHolds
      <4> QED
        BY <4>1 DEF Figures
    <3> QED
      BY <3>1, <3>2
  <2>2. ToSet(text) \subseteq Figures
    <3>1. DOMAIN text = 1 .. Len(text)
      OBVIOUS
    <3> HIDE DEF text
    <3> QED
      BY <2>1, <3>1 DEF ToSet
  <2> QED
    BY <2>2, MembersIn
<1> HIDE DEF text
<1>2. FoldText(raw, cps) = text
  BY <1>1, FiguresStay
<1>3. text \in Seq(Nat)
  BY <1>1, FiguresAre, WiderSeq, Zenon
<1>4. answer = PronounceFolded(raw, text, policy)
  BY <1>2 DEF Pronounce
<1>5. answer.via = "number" /\ t.words = answer.words
  BY DEF text
<1> HIDE DEF answer, cps
<1>6. PICK say : answer \in Expanded(raw, text, say)
  BY <1>3, <1>4, <1>5, NumbersAreExpanded
<1>7. /\ NormFields(norm) /\ ToSet(text) \cap Digits # {}
      /\ answer.words \in NumberWords(norm, text)
  BY <1>5, <1>6, ExpandedSays
<1>8. digits \in Seq(Digits)
  <2>1. digits \in Seq(Nat)
    BY <1>3, WithoutIs
  <2> HIDE DEF digits
  <2> QED
    BY <2>1, MembersIn
<1>9. text # <<>>
  BY <1>7 DEF ToSet
<1>10. \A c \in norm.currency : c.sign \notin Figures
  BY DEF KeepsDigits, Figures
<1> HIDE DEF norm
<1>11. answer.words = Cardinal(norm, digits, FALSE) /\ digits # <<>>
  BY <1>1, <1>7, <1>8, <1>9, <1>10, NumberPlain
<1>12. Audible(norm)
  BY <1>7 DEF Audible
<1> HIDE DEF digits
<1>13. HeardAs(norm, Cardinal(norm, digits, FALSE)) = ValueOf(digits)
  BY <1>8, <1>11, <1>12, CardinalIsHeard
<1> QED
  BY <1>5, <1>11, <1>13 DEF digits, norm, text

LEMMA RunReadsBack ==
  ASSUME NEW raw, PackOk(raw), NEW text \in Seq(Units), NEW policy,
         NEW t \in ToSet(Run(raw, text, policy).tokens)
  PROVE  ReadsBack(raw, t)
<1> DEFINE read == Scan(raw, text)
           old == read.tokens
           answer(k) == Pronounce(raw, old[k].text, policy)
           tokens == [k \in DOMAIN old |-> Pronounced(old[k], answer(k))]
<1>1. Run(raw, text, policy).tokens = tokens
  BY DEF Run, Spoke, Outcome
<1>2. old \in Seq(ReadTokens(raw))
  BY ScanReads DEF Readings, ReadFields
<1> HIDE DEF read
<1>3. PICK k \in DOMAIN old : t = Pronounced(old[k], answer(k))
  <2>1. t \in ToSet(tokens)
    BY <1>1
  <2> QED
    BY <2>1 DEF ToSet
<1> DEFINE token == old[k]
<1>4. token.text \in Seq(Units)
  <2>1. token \in ReadTokens(raw)
    BY <1>2
  <2> HIDE DEF token
  <2> QED
    BY <2>1 DEF ReadTokens
<1>5. /\ t.text = token.text /\ t.via = Pronounce(raw, token.text, policy).via
      /\ t.words = Pronounce(raw, token.text, policy).words
  BY <1>3 DEF Pronounced
<1> HIDE DEF token
<1>6. /\ t.text \in Seq(Units) /\ t.via = Pronounce(raw, t.text, policy).via
      /\ t.words = Pronounce(raw, t.text, policy).words
  BY <1>4, <1>5
<1> QED
  BY <1>6, NumbersSaidReadBack

(* A whole number the scales of its pack reach is said in words that are   *)
(* heard as that number, whatever its leading zeros and grouping marks:    *)
(* every group of three digits is said once, with its own scale, and only  *)
(* the groups that are nothing are left out.                               *)
THEOREM G2pNumbersReadBack == Spec => []NumbersReadBack
<1>1. SeamInit => NumbersReadBack
  BY DEF SeamInit, NumbersReadBack, Serving
<1>2. ASSUME PackIsLoaded, SpeakInv, NumbersReadBack, SeamInv, [Next]_vars
      PROVE  NumbersReadBack'
  <2>1. CASE ServeG2p
    <3> DEFINE F(r) == [at |-> "checks", next |-> 0, taken |-> 0,
                        result |-> IF r.kind = "phonemize" /\ PolicyOf(r) \in Policies
                                   THEN Utterance[model.pack][r.text][PolicyOf(r)]
                                   ELSE NoUtterance]
    <3>1. PICK r \in G2pRequest : Begin("g2p", r, F(r))
      BY <2>1 DEF ServeG2p
    <3>2. model.engine = "g2p" /\ model' = model /\ frame' = F(r)
      BY <2>1, <3>1 DEF ServeG2p, Begin, Waiting
    <3>3. model.pack \in Loadable
      BY <1>2, <3>2 DEF PackIsLoaded
    <3> DEFINE raw == Packs[model.pack]
               policy == PolicyOf(r)
               text == r.text
    <3>4. ASSUME NEW t \in ToSet(frame'.result.tokens) PROVE ReadsBack(raw, t)
      <4>1. CASE r.kind = "phonemize" /\ policy \in Policies
        <5>1. text \in Texts
          BY <4>1 DEF G2pRequest
        <5>2. frame'.result = Run(raw, text, policy)
          BY <3>2, <3>3, <4>1, <5>1 DEF Utterance
        <5>3. PackOk(raw)
          BY <3>3, OpenPackIsOk DEF OpenPack
        <5> HIDE DEF raw, text, policy, F
        <5>4. text \in Seq(Units)
          BY <5>1, G2pAssumption DEF Units
        <5>5. t \in ToSet(Run(raw, text, policy).tokens)
          BY <3>4, <5>2
        <5> QED
          BY <5>3, <5>4, <5>5, RunReadsBack
      <4>2. CASE ~(r.kind = "phonemize" /\ policy \in Policies)
        <5>1. frame'.result.tokens = <<>>
          BY <3>2, <4>2 DEF NoUtterance
        <5> QED
          BY <3>4, <5>1 DEF ToSet
      <4> QED
        BY <4>1, <4>2
    <3> HIDE DEF F
    <3> QED
      BY <3>2, <3>4 DEF NumbersReadBack
  <2>2. CASE CheckG2p \/ PollSentence \/ SentenceBlock \/ ClosingBlocks \/ StopsSpeaking \/ FinishG2p
    <3> SUFFICES frame'.at # "checks"
      BY DEF NumbersReadBack
    <3>1. Serving("g2p")
      BY <2>2 DEF CheckG2p, PollSentence, SentenceBlock, ClosingBlocks, StopsSpeaking, FinishG2p, At,
                  Serving
    <3>2. frame = [at |-> frame.at, next |-> frame.next, taken |-> frame.taken, result |-> frame.result]
      BY <1>2, <3>1 DEF SpeakInv
    <3>3. ASSUME NEW end, Ends(end) PROVE frame'.at # "checks"
      <4>1. frame' = [frame EXCEPT !.at = "return"]
        BY <3>3 DEF Ends
      <4> QED
        BY <3>2, <4>1
    <3>4. CASE CheckG2p
      <4>1. frame' = [frame EXCEPT !.at = "sentence"] \/ Ends(<<[is |-> "failed", why |-> G2pRefusal]>>)
        BY <3>4 DEF CheckG2p, Moves, Fails
      <4>2. frame' = [frame EXCEPT !.at = "sentence"] => frame'.at # "checks"
        BY <3>2
      <4> QED
        BY <3>3, <4>1, <4>2
    <3>5. CASE SentenceBlock
      <4>1. \E n : frame' = [frame EXCEPT !.at = "sentence", !.next = @ + 1, !.taken = @ + n]
        BY <3>5 DEF SentenceBlock, Emits
      <4> QED
        BY <3>2, <4>1
    <3>6. CASE ClosingBlocks
      <4>1. frame' = [frame EXCEPT !.at = "finish"]
        BY <3>6 DEF ClosingBlocks, Emits
      <4> QED
        BY <3>2, <4>1
    <3>7. CASE StopsSpeaking \/ FinishG2p
      <4>1. Ends(<<>>) \/ Ends(<<[is |-> "finished", why |-> "stop"]>>)
        BY <3>7 DEF StopsSpeaking, FinishG2p, ReturnsSilently, Finishes
      <4> QED
        BY <3>3, <4>1
    <3>8. CASE PollSentence
      <4>1. frame' = [frame EXCEPT !.at = "block"]
        BY <3>8 DEF PollSentence, Moves
      <4> QED
        BY <3>2, <4>1
    <3> QED
      BY <2>2, <3>4, <3>5, <3>6, <3>7, <3>8
  <2>3. CASE UNCHANGED vars \/ Cancel
    BY <1>2, <2>3 DEF Cancel, vars, seamVars, NumbersReadBack, Serving
  <2>4. CASE LoadPack \/ StackRunsOut \/ Returned \/ Released \/ Relaunch
    <3>1. phase' # "serving"
      BY <2>4 DEF LoadPack, StackRunsOut, Dies, Opened, Empty, Returned, Idle, Released, Relaunch
    <3> QED
      BY <3>1 DEF NumbersReadBack, Serving
  <2>5. CASE GgufNext \/ WhisperNext \/ MockNext
    <3>1. model'.engine # "g2p"
      BY <1>2, <2>5, EachHasItsModel
    <3> QED
      BY <3>1 DEF NumbersReadBack, Serving
  <2> QED
    BY <1>2, <2>1, <2>2, <2>3, <2>4, <2>5 DEF Next, G2pNext
<1> QED
  BY <1>1, <1>2, OnlyLoadablePacks, G2pSpeaks, SeamInvariant, PTL DEF Spec

-----------------------------------------------------------------------------
(* Cancelling, whichever backend serves.                                   *)

LEMMA SpeaksNothingLeft ==
  ASSUME SpeakInv
  PROVE  NothingLeft
<1> SUFFICES ASSUME At("g2p", "sentence"), frame.next = Len(frame.result.sentences)
             PROVE  Untaken = <<>>
  BY DEF NothingLeft
<1>1. /\ Utters(OpenPack, request.text, PolicyOf(request), frame.result)
      /\ TakenSoFar(sent, frame.result, frame.next, frame.taken)
  BY DEF SpeakInv, Serving, At
<1> QED
  BY <1>1, AllTaken DEF Untaken

(* After a cancel gguf and g2p send at most two more blocks, a whisper that *)
(* is heard live at most the segments of one decoded window, and any other *)
(* backend one; whatever the models, requests, scripts, recordings, packs  *)
(* and texts.                                                              *)
THEOREM BackendsHearCancel == Spec => []CancelIsHeard
<1>1. SeamInit => HearInv
  BY DEF SeamInit, HearInv, Cancelled
<1>2. SpeakInv /\ SeamInv /\ HearInv /\ [Next]_vars => HearInv'
  BY HearInvHolds, SpeaksNothingLeft
<1>3. SeamInv /\ HearInv /\ LiveInv => CancelIsHeard
  <2> SUFFICES ASSUME SeamInv, HearInv, LiveInv, Cancelled
               PROVE  Len(sent) <= cancelAt
                        + (IF Serving("gguf") \/ Serving("g2p") THEN 2
                           ELSE IF Serving("whisper") /\ request.kind = "listen" THEN PerWindow
                           ELSE 1)
    BY DEF CancelIsHeard
  <2>1. Len(sent) \in Nat /\ cancelAt \in Nat
    BY SentGrows DEF SeamInv, HearInv
  <2>2. CASE Serving("whisper") /\ request.kind = "listen"
    <3>1. /\ frame.left \in Nat /\ frame.new \in Nat
          /\ Len(sent) + frame.left + frame.new <= cancelAt + PerWindow
      BY <2>2 DEF LiveInv
    <3>2. PerWindow \in Nat /\ ~Serving("gguf") /\ ~Serving("g2p")
      BY <2>2, WhisperAssumption DEF Serving
    <3>3. Len(sent) <= cancelAt + PerWindow
      BY <2>1, <3>1, <3>2
    <3> QED
      BY <2>2, <3>2, <3>3
  <2>3. CASE phase = "serving" /\ ~(Serving("whisper") /\ request.kind = "listen")
    <3>1. Len(sent) <= cancelAt + Slack(model.engine, frame.at)
      BY <2>3 DEF HearInv, Streams, Serving
    <3>2. Slack(model.engine, frame.at) <= IF model.engine \in {"gguf", "g2p"} THEN 2 ELSE 1
      BY DEF Slack
    <3> QED
      BY <2>1, <2>3, <3>1, <3>2, SlackNat DEF Serving
  <2>4. CASE phase = "dead"
    <3>1. model.engine \in {"gguf", "g2p"} /\ frame.at \in {"checks", "accept"}
      BY <2>4 DEF HearInv
    <3>2. Len(sent) <= cancelAt + Slack(model.engine, frame.at) /\ Slack(model.engine, frame.at) = 0
      BY <3>1 DEF HearInv, Streams, Slack
    <3>3. Len(sent) <= cancelAt + 1 /\ ~(\E engine : Serving(engine))
      BY <2>1, <2>4, <3>2 DEF Serving
    <3> QED
      BY <3>3
  <2> QED
    BY <2>2, <2>3, <2>4 DEF SeamInv, Cancelled
<1> QED
  BY <1>1, <1>2, <1>3, G2pSpeaks, LiveInvariant, SeamInvariant, PTL DEF Spec
=============================================================================
