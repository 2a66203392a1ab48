---------------------------- MODULE Gguf_proofs -----------------------------
(* Theorems about what the gguf backend sends, for every prompt, grammar,  *)
(* set of stop strings and pieces of text.                                 *)
EXTENDS Backends_proofs

-----------------------------------------------------------------------------
(* gguf: the walk of completeUtf8Prefix.                                   *)

(* The function CompletePrefix applies, over the last k + 1 positions. *)
Walks(g, s, k) ==
  g = [i \in (Len(s) + 1) - k .. Len(s) + 1 |->
         IF i <= Len(s) /\ StartsWhole(s, i) THEN g[i + Need(s[i])] ELSE i - 1]

LEMMA NeedRange == \A b : Need(b) \in 0 .. 3 /\ Need("next") = 0
BY DEF Need

LEMMA WalksAt ==
  ASSUME NEW s, NEW k, NEW g, Walks(g, s, k), NEW i \in (Len(s) + 1) - k .. Len(s) + 1
  PROVE  g[i] = IF i <= Len(s) /\ StartsWhole(s, i) THEN g[i + Need(s[i])] ELSE i - 1
<1> DEFINE D == (Len(s) + 1) - k .. Len(s) + 1
           e(j) == IF j <= Len(s) /\ StartsWhole(s, j) THEN g[j + Need(s[j])] ELSE j - 1
<1>1. g = [j \in D |-> e(j)]
  BY Zenon DEF Walks
<1> HIDE DEF e
<1>2. g[i] = e(i)
  BY <1>1
<1> QED
  BY <1>2 DEF e

LEMMA WalksExists ==
  ASSUME NEW s, Len(s) \in Nat, NEW n \in Nat
  PROVE  \E g : Walks(g, s, n)
<1> DEFINE m == Len(s) + 1
           Good == {k \in Nat : \E g : Walks(g, s, k)}
<1>1. 0 \in Good
  <2> DEFINE g == [i \in m - 0 .. m |-> i - 1]
  <2>1. \A i \in m - 0 .. m : ~(i <= Len(s))
    OBVIOUS
  <2>2. Walks(g, s, 0)
    BY <2>1 DEF Walks
  <2> QED
    BY <2>2
<1>2. ASSUME NEW k \in Nat, k \in Good
      PROVE  k + 1 \in Good
  <2>1. PICK g : Walks(g, s, k)
    BY <1>2
  <2> DEFINE D == m - (k + 1) .. m
             h == [i \in D |-> IF i <= Len(s) /\ StartsWhole(s, i)
                               THEN g[i + Need(s[i])] ELSE i - 1]
  <2>2. \A i \in m - k .. m : i \in D /\ h[i] = g[i]
    BY <2>1, WalksAt
  <2>3. \A i \in D : i <= Len(s) /\ StartsWhole(s, i) => i + Need(s[i]) \in m - k .. m
    BY NeedRange DEF StartsWhole
  <2> HIDE DEF D
  <2>4. \A i \in D : i <= Len(s) /\ StartsWhole(s, i) => g[i + Need(s[i])] = h[i + Need(s[i])]
    <3> HIDE DEF h
    <3> QED
      BY <2>2, <2>3
  <2>5. h = [i \in D |-> IF i <= Len(s) /\ StartsWhole(s, i)
                         THEN h[i + Need(s[i])] ELSE i - 1]
    BY <2>4
  <2>6. Walks(h, s, k + 1)
    <3> HIDE DEF h
    <3> QED
      BY <2>5 DEF Walks, D
  <2> QED
    BY <2>6
<1> HIDE DEF Good
<1>3. n \in Good
  BY <1>1, <1>2, NumbersFollow
<1> QED
  BY <1>3 DEF Good

(* Where the walk from position i stops: a character that starts there is  *)
(* not all there.                                                          *)
Stops(s, c) == c = Len(s) \/ ~StartsWhole(s, c + 1)

Prefix(s, n) == SubSeq(s, 1, n)

LEMMA PrefixIs ==
  ASSUME NEW S, NEW s \in Seq(S), NEW n \in 0 .. Len(s)
  PROVE  /\ Prefix(s, n) \in Seq(S) /\ Len(Prefix(s, n)) = n
         /\ \A i \in 1 .. n : Prefix(s, n)[i] = s[i]
         /\ Prefix(s, Len(s)) = s
<1>1. Prefix(s, n) \in Seq(S) /\ Len(Prefix(s, n)) = n /\ \A i \in 1 .. n : Prefix(s, n)[i] = s[i]
  BY DEF Prefix
<1>2. Prefix(s, Len(s)) \in Seq(S) /\ Len(Prefix(s, Len(s))) = Len(s)
      /\ \A i \in 1 .. Len(s) : Prefix(s, Len(s))[i] = s[i]
  BY DEF Prefix
<1>3. Prefix(s, Len(s)) = s
  <2> DEFINE p == Prefix(s, Len(s))
  <2> HIDE DEF p
  <2>1. p \in Seq(S) /\ Len(p) = Len(s) /\ \A i \in 1 .. Len(p) : p[i] = s[i]
    BY <1>2 DEF p
  <2>2. p = s
    BY <2>1, SameSequence DEF IsSequence
  <2> QED
    BY <2>2 DEF p
<1> QED
  BY <1>1, <1>3

(* What starts whole in a prefix starts whole in the sequence, and the     *)
(* other way round when the prefix reaches that far.                       *)
LEMMA WholeInPrefix ==
  ASSUME NEW S, NEW s \in Seq(S), NEW n \in 0 .. Len(s), NEW i \in 1 .. n
  PROVE  StartsWhole(Prefix(s, n), i) <=> StartsWhole(s, i) /\ i + Need(s[i]) - 1 <= n
<1> DEFINE p == Prefix(s, n)
           w == Need(s[i])
<1>1. Len(p) = n /\ \A j \in 1 .. n : p[j] = s[j]
  BY PrefixIs
<1>2. w \in Nat /\ Need(p[i]) = w /\ Len(s) \in Nat
  BY <1>1, NeedRange
<1> HIDE DEF p
<1>3. StartsWhole(p, i) <=> /\ w > 0 /\ i + w - 1 <= n
                            /\ \A k \in i + 1 .. i + w - 1 : p[k] = "next"
  BY <1>1, <1>2 DEF StartsWhole
<1>4. StartsWhole(s, i) <=> /\ w > 0 /\ i + w - 1 <= Len(s)
                            /\ \A k \in i + 1 .. i + w - 1 : s[k] = "next"
  BY DEF StartsWhole
<1> HIDE DEF w
<1>5. i + w - 1 <= n => \A k \in i + 1 .. i + w - 1 : k \in 1 .. n
  BY <1>2
<1>6. i + w - 1 <= n => i + w - 1 <= Len(s)
  BY <1>2
<1>7. i + w - 1 <= n =>
        ((\A k \in i + 1 .. i + w - 1 : p[k] = "next")
           <=> (\A k \in i + 1 .. i + w - 1 : s[k] = "next"))
  BY <1>1, <1>5
<1>8. StartsWhole(p, i) <=> StartsWhole(s, i) /\ i + w - 1 <= n
  BY <1>3, <1>4, <1>6, <1>7
<1> QED
  BY <1>8 DEF p, w

(* Well-formedness of a prefix, said of the sequence. *)
WholeTo(s, n) == \A i \in 1 .. n :
  IF s[i] = "next" THEN \E j \in 1 .. i - 1 : i < j + Need(s[j])
  ELSE StartsWhole(s, i) /\ i + Need(s[i]) - 1 <= n

LEMMA WellFormedPrefix ==
  ASSUME NEW S, NEW s \in Seq(S), NEW n \in 0 .. Len(s)
  PROVE  WellFormed(Prefix(s, n)) <=> WholeTo(s, n)
<1> DEFINE p == Prefix(s, n)
<1>1. Len(p) = n /\ DOMAIN p = 1 .. n /\ \A j \in 1 .. n : p[j] = s[j]
  BY PrefixIs
<1>2. \A i \in 1 .. n : StartsWhole(p, i) <=> StartsWhole(s, i) /\ i + Need(s[i]) - 1 <= n
  BY WholeInPrefix
<1> HIDE DEF p
<1>3. \A i \in 1 .. n : /\ p[i] = "next" <=> s[i] = "next"
                        /\ \A j \in 1 .. i - 1 : j \in 1 .. n /\ p[j] = s[j]
  BY <1>1
<1>4. WellFormed(p) <=> \A i \in 1 .. n :
        IF p[i] = "next" THEN \E j \in 1 .. i - 1 : i < j + Need(p[j]) ELSE StartsWhole(p, i)
  BY <1>1 DEF WellFormed
<1>5. \A i \in 1 .. n :
        (\E j \in 1 .. i - 1 : i < j + Need(p[j])) <=> (\E j \in 1 .. i - 1 : i < j + Need(s[j]))
  BY <1>3
<1>6. WellFormed(p) <=> WholeTo(s, n)
  BY <1>2, <1>3, <1>4, <1>5 DEF WholeTo
<1> QED
  BY <1>6 DEF p

(* A prefix of whole characters grows by a whole character. *)
LEMMA WholeGrows ==
  ASSUME NEW S, NEW s \in Seq(S), NEW n \in 0 .. Len(s) - 1, WholeTo(s, n), StartsWhole(s, n + 1)
  PROVE  n + Need(s[n + 1]) \in n + 1 .. Len(s) /\ WholeTo(s, n + Need(s[n + 1]))
<1> DEFINE w == Need(s[n + 1])
<1>1. /\ w \in Nat /\ w > 0 /\ (n + 1) + w - 1 <= Len(s) /\ Len(s) \in Nat
      /\ \A k \in n + 2 .. (n + 1) + w - 1 : s[k] = "next"
  BY NeedRange DEF StartsWhole
<1>2. s[n + 1] # "next"
  BY <1>1, NeedRange
<1> HIDE DEF w
<1>3. n + w \in n + 1 .. Len(s)
  BY <1>1
<1>4. ASSUME NEW i \in 1 .. n + w
      PROVE  IF s[i] = "next" THEN \E j \in 1 .. i - 1 : i < j + Need(s[j])
             ELSE StartsWhole(s, i) /\ i + Need(s[i]) - 1 <= n + w
  <2>1. CASE i \in 1 .. n
    <3>1. Need(s[i]) \in Nat
      BY NeedRange
    <3> QED
      BY <1>1, <2>1, <3>1 DEF WholeTo
  <2>2. CASE i = n + 1
    BY <1>1, <1>2, <2>2 DEF w
  <2>3. CASE i > n + 1
    <3>1. s[i] = "next"
      BY <1>1, <2>3
    <3>2. n + 1 \in 1 .. i - 1 /\ i < (n + 1) + Need(s[n + 1])
      BY <1>1, <2>3 DEF w
    <3> QED
      BY <3>1, <3>2
  <2> QED
    BY <1>1, <2>1, <2>2, <2>3
<1> QED
  BY <1>3, <1>4 DEF WholeTo, w

(* What completeUtf8Prefix returns. *)
LEMMA CompletePrefixIs ==
  ASSUME NEW S, NEW s \in Seq(S)
  PROVE  /\ CompletePrefix(s) \in 0 .. Len(s)
         /\ WholeTo(s, CompletePrefix(s)) /\ Stops(s, CompletePrefix(s))
<1> DEFINE n == Len(s)
           g == CHOOSE g : Walks(g, s, n)
<1>1. n \in Nat
  OBVIOUS
<1>2. Walks(g, s, n)
  BY <1>1, WalksExists
<1>3. CompletePrefix(s) = g[1]
  <2>1. 1 .. Len(s) + 1 = (Len(s) + 1) - Len(s) .. Len(s) + 1
    BY <1>1
  <2> QED
    BY <2>1 DEF CompletePrefix, Walks
<1> HIDE DEF g
<1> DEFINE Holds(i) == WholeTo(s, i - 1) =>
                         g[i] \in 0 .. n /\ WholeTo(s, g[i]) /\ Stops(s, g[i])
           Good == {k \in Nat : \A i \in 1 .. n + 1 : (n + 1) - i <= k => Holds(i)}
<1>4. \A i \in 1 .. n + 1 :
        g[i] = IF i <= Len(s) /\ StartsWhole(s, i) THEN g[i + Need(s[i])] ELSE i - 1
  <2>1. \A i \in 1 .. n + 1 : i \in (Len(s) + 1) - n .. Len(s) + 1
    BY <1>1
  <2> QED
    BY <1>2, <2>1, WalksAt
<1>5. ASSUME NEW i \in 1 .. n + 1, ~(i <= n /\ StartsWhole(s, i))
      PROVE  Holds(i)
  <2>1. g[i] = i - 1 /\ (i - 1) + 1 = i /\ i - 1 \in 0 .. n
    BY <1>1, <1>4, <1>5
  <2>2. Stops(s, i - 1)
    BY <1>1, <1>5, <2>1 DEF Stops
  <2> QED
    BY <2>1, <2>2
<1>6. ASSUME NEW i \in 1 .. n, StartsWhole(s, i), WholeTo(s, i - 1)
      PROVE  /\ i + Need(s[i]) \in i + 1 .. n + 1 /\ WholeTo(s, (i + Need(s[i])) - 1)
             /\ g[i] = g[i + Need(s[i])]
  <2>1. i - 1 \in 0 .. Len(s) - 1 /\ (i - 1) + 1 = i
    BY <1>1
  <2>2. (i - 1) + Need(s[i]) \in i .. n /\ WholeTo(s, (i - 1) + Need(s[i]))
    <3> DEFINE j == i - 1
    <3> HIDE DEF j
    <3>1. j \in 0 .. Len(s) - 1 /\ j + 1 = i /\ WholeTo(s, j)
      BY <1>6, <2>1 DEF j
    <3>2. j + Need(s[j + 1]) \in j + 1 .. Len(s) /\ WholeTo(s, j + Need(s[j + 1]))
      BY <1>6, <3>1, WholeGrows
    <3> QED
      BY <3>1, <3>2 DEF j
  <2>3. (i - 1) + Need(s[i]) = (i + Need(s[i])) - 1
    BY NeedRange
  <2>4. i + Need(s[i]) \in i + 1 .. n + 1
    BY <1>1, <2>2, NeedRange
  <2>5. g[i] = g[i + Need(s[i])]
    BY <1>1, <1>4, <1>6
  <2> QED
    BY <2>2, <2>3, <2>4, <2>5
<1>7. 0 \in Good
  <2>1. \A i \in 1 .. n + 1 : (n + 1) - i <= 0 => ~(i <= n)
    BY <1>1
  <2> HIDE DEF Holds
  <2> QED
    BY <1>5, <2>1
<1>8. ASSUME NEW k \in Nat, k \in Good
      PROVE  k + 1 \in Good
  <2> SUFFICES ASSUME NEW i \in 1 .. n + 1, (n + 1) - i <= k + 1 PROVE Holds(i)
    <3> HIDE DEF Holds
    <3> QED
      OBVIOUS
  <2>1. CASE i <= n /\ StartsWhole(s, i) /\ WholeTo(s, i - 1)
    <3> DEFINE next == i + Need(s[i])
    <3>1. next \in i + 1 .. n + 1 /\ WholeTo(s, next - 1) /\ g[i] = g[next]
      BY <1>1, <1>6, <2>1
    <3> HIDE DEF next
    <3>2. next \in 1 .. n + 1 /\ (n + 1) - next <= k
      BY <1>1, <3>1
    <3>3. Holds(next)
      <4> HIDE DEF Holds
      <4> QED
        BY <1>8, <3>2
    <3> QED
      BY <3>1, <3>3
  <2>2. CASE ~(i <= n /\ StartsWhole(s, i))
    <3> HIDE DEF Holds
    <3> QED
      BY <1>5, <2>2
  <2>3. CASE ~WholeTo(s, i - 1)
    BY <2>3
  <2> QED
    <3> HIDE DEF Holds
    <3> QED
      BY <2>1, <2>2, <2>3
<1>9. n \in Good
  <2> HIDE DEF Good
  <2> QED
    BY <1>1, <1>7, <1>8, NumbersFollow
<1>10. Holds(1)
  <2>1. 1 \in 1 .. n + 1 /\ (n + 1) - 1 <= n
    BY <1>1
  <2> HIDE DEF Holds
  <2> QED
    BY <1>9, <2>1
<1>11. WholeTo(s, 1 - 1)
  BY DEF WholeTo
<1> QED
  BY <1>3, <1>10, <1>11

(* Whole characters up to c and none that starts whole after it: c is as   *)
(* far as whole characters go.                                             *)
LEMMA StopsAtLongest ==
  ASSUME NEW S, NEW s \in Seq(S), NEW c \in 0 .. Len(s), WholeTo(s, c), Stops(s, c)
  PROVE  LongestWhole(s) = c
<1> DEFINE W == {n \in 0 .. Len(s) : WellFormed(SubSeq(s, 1, n))}
<1>1. \A n \in 0 .. Len(s) : WellFormed(SubSeq(s, 1, n)) <=> WholeTo(s, n)
  BY WellFormedPrefix DEF Prefix
<1>2. ASSUME NEW n \in 0 .. Len(s), WholeTo(s, n), n > c
      PROVE  FALSE
  <2>1. c + 1 \in 1 .. n /\ ~StartsWhole(s, c + 1)
    BY <1>2 DEF Stops
  <2>2. s[c + 1] = "next"
    BY <1>2, <2>1 DEF WholeTo
  <2>3. PICK j \in 1 .. c : c + 1 < j + Need(s[j])
    <3>1. \E j \in 1 .. (c + 1) - 1 : c + 1 < j + Need(s[j])
      BY <1>2, <2>1, <2>2 DEF WholeTo
    <3>2. (c + 1) - 1 = c
      OBVIOUS
    <3> QED
      BY <3>1, <3>2
  <2>4. s[j] # "next"
    BY <2>3, NeedRange
  <2>5. j + Need(s[j]) - 1 <= c
    BY <2>4 DEF WholeTo
  <2>6. Need(s[j]) \in Nat
    BY NeedRange
  <2> QED
    BY <2>3, <2>5, <2>6
<1>3. c \in W /\ \A n \in W : n \in Int /\ c >= n
  BY <1>1, <1>2
<1>4. LongestWhole(s) = CHOOSE x \in W : \A y \in W : x >= y
  BY DEF LongestWhole, Max
<1> HIDE DEF W
<1>5. \A x \in W : (\A y \in W : x >= y) => x = c
  BY <1>3
<1> DEFINE m == CHOOSE x \in W : \A y \in W : x >= y
<1>6. m \in W /\ \A y \in W : m >= y
  BY <1>3, Zenon
<1> HIDE DEF m
<1>7. m = c
  BY <1>5, <1>6
<1> QED
  BY <1>4, <1>7 DEF m

(* A run of whole characters followed by another is one. *)
LEMMA WholeJoins ==
  ASSUME NEW S, NEW s \in Seq(S), NEW t \in Seq(S), WellFormed(s), NEW c \in 0 .. Len(t),
         WholeTo(t, c)
  PROVE  WholeTo(s \o t, Len(s) + c) /\ (Stops(t, c) => Stops(s \o t, Len(s) + c))
<1> DEFINE n == Len(s)
           u == s \o t
<1>1. /\ u \in Seq(S) /\ Len(u) = n + Len(t) /\ n \in Nat /\ Len(t) \in Nat
      /\ \A i \in 1 .. n : u[i] = s[i]
      /\ \A i \in 1 .. Len(t) : u[n + i] = t[i]
  BY JoinedIs
<1>2. WholeTo(s, n)
  BY WellFormedPrefix, PrefixIs
<1> HIDE DEF n, u
<1>3. \A i \in 1 .. Len(t) : StartsWhole(u, n + i) <=> StartsWhole(t, i)
  <2> SUFFICES ASSUME NEW i \in 1 .. Len(t) PROVE StartsWhole(u, n + i) <=> StartsWhole(t, i)
    OBVIOUS
  <2> DEFINE w == Need(t[i])
  <2>1. w \in Nat /\ Need(u[n + i]) = w
    <3>1. u[n + i] = t[i]
      BY <1>1
    <3> QED
      BY <3>1, NeedRange
  <2>2. /\ StartsWhole(t, i) <=> /\ w > 0 /\ i + w - 1 <= Len(t)
                                 /\ \A k \in i + 1 .. i + w - 1 : t[k] = "next"
        /\ StartsWhole(u, n + i) <=>
             /\ w > 0 /\ (n + i) + w - 1 <= n + Len(t)
             /\ \A k \in (n + i) + 1 .. (n + i) + w - 1 : u[k] = "next"
    BY <1>1, <2>1 DEF StartsWhole
  <2> HIDE DEF w
  <2>3. i + w - 1 <= Len(t) =>
          ((\A k \in i + 1 .. i + w - 1 : t[k] = "next")
             <=> (\A k \in (n + i) + 1 .. (n + i) + w - 1 : u[k] = "next"))
    <3> SUFFICES ASSUME i + w - 1 <= Len(t)
                 PROVE  (\A k \in i + 1 .. i + w - 1 : t[k] = "next")
                          <=> (\A k \in (n + i) + 1 .. (n + i) + w - 1 : u[k] = "next")
      OBVIOUS
    <3>1. \A k \in i + 1 .. i + w - 1 :
            k \in 1 .. Len(t) /\ n + k \in (n + i) + 1 .. (n + i) + w - 1 /\ u[n + k] = t[k]
      <4>1. \A k \in i + 1 .. i + w - 1 :
              k \in 1 .. Len(t) /\ n + k \in (n + i) + 1 .. (n + i) + w - 1
        <5> DEFINE m == Len(t)
        <5>1. n \in Nat /\ m \in Nat /\ w \in Nat /\ i \in 1 .. m /\ i + w - 1 <= m
          BY <1>1, <2>1
        <5> HIDE DEF m
        <5>2. \A k \in i + 1 .. i + w - 1 :
                k \in 1 .. m /\ n + k \in (n + i) + 1 .. (n + i) + w - 1
          BY <5>1
        <5> QED
          BY <5>2 DEF m
      <4> QED
        BY <1>1, <4>1
    <3>2. \A k \in (n + i) + 1 .. (n + i) + w - 1 :
            k - n \in i + 1 .. i + w - 1 /\ n + (k - n) = k
      BY <1>1, <2>1
    <3>3. \A k \in (n + i) + 1 .. (n + i) + w - 1 : u[k] = t[k - n]
      BY <3>1, <3>2
    <3> QED
      BY <3>1, <3>2, <3>3
  <2>4. (n + i) + w - 1 <= n + Len(t) <=> i + w - 1 <= Len(t)
    BY <1>1, <2>1
  <2> QED
    BY <2>2, <2>3, <2>4
<1>4. ASSUME NEW i \in 1 .. n + c
      PROVE  IF u[i] = "next" THEN \E j \in 1 .. i - 1 : i < j + Need(u[j])
             ELSE StartsWhole(u, i) /\ i + Need(u[i]) - 1 <= n + c
  <2>1. CASE i \in 1 .. n
    <3>1. u[i] = s[i] /\ \A j \in 1 .. i - 1 : u[j] = s[j]
      BY <1>1, <2>1
    <3>2. s[i] # "next" => StartsWhole(u, i) /\ i + Need(u[i]) - 1 <= n
      <4>1. Prefix(u, n) = s
        <5>1. n \in 0 .. Len(u)
          BY <1>1
        <5>2. Prefix(u, n) \in Seq(S) /\ Len(Prefix(u, n)) = n
              /\ \A k \in 1 .. n : Prefix(u, n)[k] = s[k]
          BY <1>1, <5>1, PrefixIs
        <5> QED
          BY <5>2, SameSequence DEF IsSequence, n
      <4>2. s[i] # "next" => StartsWhole(s, i)
        BY <2>1 DEF WellFormed, n
      <4>3. n \in 0 .. Len(u)
        BY <1>1
      <4>4. StartsWhole(Prefix(u, n), i) <=> StartsWhole(u, i) /\ i + Need(u[i]) - 1 <= n
        BY <1>1, <2>1, <4>3, WholeInPrefix
      <4> QED
        BY <4>1, <4>2, <4>4
    <3>3. Need(u[i]) \in Nat
      BY NeedRange
    <3> QED
      BY <1>1, <1>2, <2>1, <3>1, <3>2, <3>3 DEF WholeTo
  <2>2. CASE i \notin 1 .. n
    <3> DEFINE k == i - n
    <3>1. k \in 1 .. c /\ k \in 1 .. Len(t) /\ i = n + k
      BY <1>1, <2>2
    <3> HIDE DEF k
    <3>2. u[i] = t[k] /\ (StartsWhole(u, i) <=> StartsWhole(t, k))
      BY <1>1, <1>3, <3>1
    <3>3. CASE t[k] = "next"
      <4>1. PICK j \in 1 .. k - 1 : k < j + Need(t[j])
        BY <3>1, <3>3 DEF WholeTo
      <4>2. n + j \in 1 .. i - 1 /\ u[n + j] = t[j] /\ Need(t[j]) \in Nat
        <5>1. n + j \in 1 .. i - 1 /\ j \in 1 .. Len(t)
          BY <1>1, <3>1
        <5>2. u[n + j] = t[j]
          BY <1>1, <5>1
        <5> QED
          BY <5>1, <5>2, NeedRange
      <4>3. i < (n + j) + Need(u[n + j])
        BY <1>1, <3>1, <4>1, <4>2
      <4> QED
        BY <3>2, <3>3, <4>2, <4>3
    <3>4. CASE t[k] # "next"
      <4>1. StartsWhole(t, k) /\ k + Need(t[k]) - 1 <= c /\ Need(t[k]) \in Nat
        BY <3>1, <3>4, NeedRange DEF WholeTo
      <4>2. i + Need(u[i]) - 1 <= n + c
        BY <1>1, <3>1, <3>2, <4>1
      <4> QED
        BY <3>2, <3>4, <4>1, <4>2
    <3> QED
      BY <3>3, <3>4
  <2> QED
    BY <2>1, <2>2
<1>5. Stops(t, c) => Stops(u, n + c)
  <2>1. CASE c = Len(t)
    BY <1>1, <2>1 DEF Stops
  <2>2. CASE c # Len(t)
    <3>1. c + 1 \in 1 .. Len(t) /\ n + (c + 1) = (n + c) + 1
      BY <1>1, <2>2
    <3>2. StartsWhole(u, (n + c) + 1) <=> StartsWhole(t, c + 1)
      BY <1>3, <3>1
    <3> QED
      BY <2>2, <3>2 DEF Stops
  <2> QED
    BY <2>1, <2>2
<1>6. WholeTo(u, n + c)
  <2> HIDE DEF WholeTo
  <2> QED
    BY <1>4 DEF WholeTo
<1> QED
  BY <1>5, <1>6 DEF n, u

(* What the carry is after its whole characters have gone out. *)
LEMMA RestStops ==
  ASSUME NEW S, NEW s \in Seq(S), NEW c \in 0 .. Len(s), Stops(s, c),
         NEW rest, rest = SubSeq(s, c + 1, Len(s))
  PROVE  /\ rest \in Seq(S) /\ Prefix(s, c) \in Seq(S) /\ Prefix(s, c) \o rest = s
         /\ Stops(rest, 0)
<1> DEFINE n == Len(s)
           p == Prefix(s, c)
<1>1. n \in Nat
  OBVIOUS
<1>2. /\ rest \in Seq(S) /\ Len(rest) = n - c
      /\ \A i \in 1 .. n - c : rest[i] = s[c + i]
  OBVIOUS
<1>3. p \in Seq(S) /\ Len(p) = c /\ \A i \in 1 .. c : p[i] = s[i]
  BY PrefixIs
<1> HIDE DEF p, n
<1>4. p \o rest = s
  <2> DEFINE u == p \o rest
  <2>1. /\ u \in Seq(S) /\ Len(u) = c + (n - c) /\ \A i \in 1 .. c : u[i] = p[i]
        /\ \A i \in 1 .. n - c : u[c + i] = rest[i]
    <3>1. Len(p) = c /\ Len(rest) = n - c
      BY <1>2, <1>3
    <3>2. /\ u \in Seq(S) /\ Len(u) = Len(p) + Len(rest)
          /\ \A i \in 1 .. Len(p) : u[i] = p[i]
          /\ \A i \in 1 .. Len(rest) : u[Len(p) + i] = rest[i]
      <4>1. p \in Seq(S) /\ rest \in Seq(S)
        BY <1>2, <1>3
      <4> QED
        BY <4>1, JoinedIs
    <3> HIDE DEF u
    <3> QED
      BY <3>1, <3>2
  <2> HIDE DEF u
  <2>2. \A i \in 1 .. n : u[i] = s[i]
    <3> SUFFICES ASSUME NEW i \in 1 .. n PROVE u[i] = s[i]
      OBVIOUS
    <3>1. CASE i \in 1 .. c
      BY <1>3, <2>1, <3>1
    <3>2. CASE i \notin 1 .. c
      <4>1. i - c \in 1 .. n - c /\ c + (i - c) = i
        BY <1>1, <3>2
      <4> QED
        BY <1>2, <2>1, <4>1
    <3> QED
      BY <3>1, <3>2
  <2>3. Len(u) = n
    BY <1>1, <2>1
  <2>4. u = s
    BY <2>1, <2>2, <2>3, SameSequence DEF IsSequence, n
  <2> QED
    BY <2>4 DEF u
<1>5. Stops(rest, 0)
  <2>1. CASE c = n
    BY <1>1, <1>2, <2>1 DEF Stops
  <2>2. CASE c # n
    <3>1. WellFormed(<<>>) /\ <<>> \in Seq(S)
      BY DEF WellFormed
    <3> DEFINE w == Need(s[c + 1])
    <3>2. w \in Nat /\ 1 \in 1 .. n - c /\ rest[1] = s[c + 1] /\ ~StartsWhole(s, c + 1)
      BY <1>1, <1>2, <2>2, NeedRange DEF Stops, n
    <3>3. /\ StartsWhole(rest, 1) <=> /\ w > 0 /\ 1 + w - 1 <= n - c
                                      /\ \A k \in 1 + 1 .. 1 + w - 1 : rest[k] = "next"
          /\ StartsWhole(s, c + 1) <=> /\ w > 0 /\ (c + 1) + w - 1 <= n
                                       /\ \A k \in (c + 1) + 1 .. (c + 1) + w - 1 : s[k] = "next"
      BY <1>2, <3>2 DEF StartsWhole, n
    <3> HIDE DEF w
    <3>4. ASSUME StartsWhole(rest, 1)
          PROVE  StartsWhole(s, c + 1)
      <4>1. \A k \in (c + 1) + 1 .. (c + 1) + w - 1 :
              k - c \in 1 + 1 .. 1 + w - 1 /\ k - c \in 1 .. n - c /\ c + (k - c) = k
        BY <1>1, <3>2, <3>3, <3>4
      <4>2. \A k \in (c + 1) + 1 .. (c + 1) + w - 1 : s[k] = "next"
        BY <1>2, <3>3, <3>4, <4>1
      <4>3. (c + 1) + w - 1 <= n
        BY <1>1, <3>2, <3>3, <3>4
      <4> QED
        BY <3>3, <3>4, <4>2, <4>3
    <3> QED
      BY <3>2, <3>4 DEF Stops
  <2> QED
    BY <2>1, <2>2
<1> QED
  BY <1>2, <1>3, <1>4, <1>5 DEF p

-----------------------------------------------------------------------------
(* gguf: the text that has been sent against the text that was produced.   *)

Generates == Serving("gguf") /\ request.kind = "generate"

GgufFields ==
  {"at", "carry", "produced", "picked", "generated", "budget", "sampler", "pieces", "reason"}

(* Every byte produced has been sent or is in the carry. *)
Accounted == Text \in Seq(Bytes) /\ Text \o frame.carry = frame.produced

(* What was sent is whole characters, and none is complete in the carry. *)
Settled == WellFormed(Text) /\ Stops(frame.carry, 0)

TextInv ==
  Generates =>
    /\ GgufFields \subseteq DOMAIN frame
    /\ frame.carry \in Seq(Bytes) /\ frame.produced \in Seq(Bytes)
    /\ frame.at = "accept" => frame.picked \in Seq(Bytes)
    /\ frame.at \in {"checks", "loop", "sample", "accept", "emit", "decode", "flush",
                     "finish", "return"}
    /\ frame.at \notin {"finish", "return"} => Accounted
    /\ frame.at \in {"checks", "loop", "sample", "accept", "decode"} => Settled
    /\ frame.at = "emit" => WellFormed(Text)
    /\ frame.at = "finish" => Text = frame.produced

LEMMA WellFormedJoins ==
  ASSUME NEW S, NEW s \in Seq(S), NEW t \in Seq(S), WellFormed(s), WellFormed(t)
  PROVE  WellFormed(s \o t)
<1> DEFINE n == Len(t)
           u == s \o t
<1>1. n \in 0 .. Len(t) /\ Prefix(t, n) = t
  BY PrefixIs
<1>2. WholeTo(t, n)
  BY <1>1, WellFormedPrefix
<1>3. WholeTo(u, Len(s) + n)
  BY <1>1, <1>2, WholeJoins
<1>4. u \in Seq(S) /\ Len(u) = Len(s) + n /\ Len(u) \in 0 .. Len(u)
  BY JoinedIs
<1> HIDE DEF u
<1>5. Prefix(u, Len(u)) = u /\ WholeTo(u, Len(u))
  BY <1>3, <1>4, PrefixIs
<1>6. WellFormed(u)
  BY <1>4, <1>5, WellFormedPrefix
<1> QED
  BY <1>6 DEF u

LEMMA TextGrows ==
  ASSUME SeamInv, NEW block, sent' = sent \o <<block>>, IsSequence(block.text)
  PROVE  Text' = Text \o block.text
<1>1. Text = FlattenSeq(Fields(sent, "text"))
  BY DEF Text, Fields
<1>2. Text' = FlattenSeq(Fields(sent', "text"))
  BY DEF Text, Fields
<1> QED
  BY <1>1, <1>2, FieldsFlatten DEF SeamInv

LEMMA NoTextYet == sent = <<>> => Text = <<>>
BY NothingSent DEF Text, Fields

(* Where nothing is generated nothing is claimed. *)
LEMMA NotGenerating ==
  ASSUME phase' # "serving" \/ model'.engine # "gguf" \/ request'.kind # "generate"
  PROVE  TextInv'
BY DEF TextInv, Generates, Serving

LEMMA TextEnds ==
  ASSUME SeamInv, TextInv, Serving("gguf"), NEW end, Ends(end)
  PROVE  TextInv'
BY DEF SeamInv, TextInv, Generates, Serving, Ends

(* A step that leaves the text alone and stays between two tokens. *)
LEMMA TextRests ==
  ASSUME TextInv, Generates, UNCHANGED <<request, phase, sent>>, model'.engine = model.engine,
         GgufFields \subseteq DOMAIN frame', frame'.carry = frame.carry,
         frame'.produced = frame.produced,
         frame.at \in {"checks", "loop", "sample", "decode"},
         frame'.at \in {"loop", "sample", "flush"}
  PROVE  TextInv'
<1>1. Text' = Text
  BY DEF Text
<1> QED
  BY <1>1 DEF TextInv, Generates, Serving, Accounted, Settled

LEMMA GgufKeepsText ==
  ASSUME SeamInv, TextInv, GgufNext
  PROVE  TextInv'
<1> USE DEF At
<1>1. CASE LoadGguf
  BY <1>1, NotGenerating DEF LoadGguf, Opened, Empty
<1>2. CASE ServeGguf
  <2>1. sent' = <<>> /\ frame' = GgufFrame
    BY <1>2 DEF ServeGguf, Begin
  <2>2. Text' = <<>>
    BY <2>1, NothingSent DEF Text, Fields
  <2>3. WellFormed(<<>>) /\ Stops(<<>>, 0) /\ <<>> \in Seq(Bytes) /\ <<>> \o <<>> = <<>>
    BY DEF WellFormed, Stops
  <2> QED
    BY <2>1, <2>2, <2>3 DEF TextInv, GgufFrame, GgufFields, Accounted, Settled
<1>3. CASE RefuseGguf \/ IngestFails \/ FinishGguf
  <2>1. Serving("gguf") /\ \E end : Ends(end)
    BY <1>3 DEF RefuseGguf, IngestFails, FinishGguf, Ready, Serving, Fails, Finishes
  <2> QED
    BY <2>1, TextEnds
<1>4. CASE IngestAborts \/ AcceptThrows
  BY <1>4, NotGenerating DEF IngestAborts, AcceptThrows, Dies
<1>5. CASE EmbedInput
  <2>1. request'.kind = "embedding"
    BY <1>5 DEF EmbedInput, Decoded
  <2> QED
    BY <2>1, NotGenerating
<1>6. CASE AnswerVector
  <2>1. frame.at = "vector" /\ Serving("gguf") /\ UNCHANGED <<request, phase, model>>
    BY <1>6 DEF AnswerVector, Serving, Emits, Fails, Ends
  <2> QED
    BY <2>1 DEF TextInv, Generates, Serving
<1> SUFFICES ASSUME Generates PROVE TextInv'
  <2>1. request.kind # "generate" /\ Serving("gguf") => request'.kind # "generate" \/ ServeGguf
    BY DEF GgufNext, LoadGguf, Opened, Empty, Serving, RefuseGguf, IngestFails, FinishGguf, Ready,
           IngestAborts, AcceptThrows, Dies, EmbedInput, AnswerVector, IngestPrompt, PollGguf,
           SampleEnd, SamplePiece, AcceptPiece, EmitWhole, DecodeToken, FlushCarry, Emits, Fails,
           Finishes, Ends, Decoded, Moves
  <2>2. ~Serving("gguf") => LoadGguf \/ ServeGguf
    BY DEF GgufNext, Serving, RefuseGguf, IngestFails, FinishGguf, Ready,
           IngestAborts, AcceptThrows, EmbedInput, AnswerVector, IngestPrompt, PollGguf,
           SampleEnd, SamplePiece, AcceptPiece, EmitWhole, DecodeToken, FlushCarry
  <2> QED
    BY <1>1, <1>2, <2>1, <2>2, NotGenerating DEF Generates
<1>7. CASE IngestPrompt
  <2>1. /\ frame.at = "checks" /\ UNCHANGED <<request, phase, sent>> /\ model'.engine = model.engine
        /\ \E b, s : frame' = [frame EXCEPT !.at = "loop", !.budget = b, !.sampler = s]
    BY <1>7 DEF IngestPrompt, Ready, Decoded, SeamInv
  <2>2. /\ GgufFields \subseteq DOMAIN frame' /\ frame'.carry = frame.carry
        /\ frame'.produced = frame.produced /\ frame'.at = "loop"
    BY <2>1 DEF TextInv, GgufFields
  <2> QED
    BY <2>1, <2>2, TextRests
<1>8. CASE PollGguf
  <2>1. frame.at = "loop" /\ UNCHANGED <<request, phase, sent, model>>
    BY <1>8 DEF PollGguf, Moves
  <2>2. \/ \E place \in {"flush", "sample"} : frame' = [frame EXCEPT !.at = place]
        \/ frame' = [frame EXCEPT !.at = "flush", !.reason = "cancelled"]
    BY <1>8 DEF PollGguf, Moves
  <2>3. /\ GgufFields \subseteq DOMAIN frame' /\ frame'.carry = frame.carry
        /\ frame'.produced = frame.produced /\ frame'.at \in {"flush", "sample"}
    BY <2>2 DEF TextInv, GgufFields
  <2> QED
    BY <2>1, <2>3, TextRests
<1>9. CASE SampleEnd
  <2>1. frame.at = "sample" /\ UNCHANGED <<request, phase, sent, model>>
        /\ frame' = [frame EXCEPT !.at = "flush"]
    BY <1>9 DEF SampleEnd, Moves
  <2>2. /\ GgufFields \subseteq DOMAIN frame' /\ frame'.carry = frame.carry
        /\ frame'.produced = frame.produced /\ frame'.at = "flush"
    BY <2>1 DEF TextInv, GgufFields
  <2> QED
    BY <2>1, <2>2, TextRests
<1>10. CASE DecodeToken
  <2>1. frame.at = "decode" /\ UNCHANGED <<request, phase, sent>> /\ model'.engine = model.engine
    BY <1>10 DEF DecodeToken, Moves, Decoded, SeamInv
  <2>2. \/ frame' = [frame EXCEPT !.at = "loop"]
        \/ frame' = [frame EXCEPT !.at = "flush", !.reason = "decode_error"]
    BY <1>10 DEF DecodeToken, Moves, Decoded
  <2>3. /\ GgufFields \subseteq DOMAIN frame' /\ frame'.carry = frame.carry
        /\ frame'.produced = frame.produced /\ frame'.at \in {"loop", "flush"}
    BY <2>2 DEF TextInv, GgufFields
  <2> QED
    BY <2>1, <2>3, TextRests
<1>11. CASE SamplePiece
  <2>1. PICK piece \in Pieces :
          Moves([frame EXCEPT !.at = "accept", !.picked = piece, !.sampler = Takes(@, piece)])
    BY <1>11 DEF SamplePiece
  <2>2. piece \in Seq(Bytes)
    BY GgufAssumption
  <2>3. frame.at = "sample" /\ UNCHANGED <<request, phase, sent, model>>
    BY <1>11 DEF SamplePiece, Moves
  <2>4. /\ GgufFields \subseteq DOMAIN frame' /\ frame'.carry = frame.carry
        /\ frame'.produced = frame.produced /\ frame'.at = "accept" /\ frame'.picked = piece
    BY <2>1 DEF TextInv, GgufFields, Moves
  <2>5. Text' = Text
    BY <2>3 DEF Text
  <2> QED
    BY <2>2, <2>3, <2>4, <2>5 DEF TextInv, Generates, Serving, Accounted, Settled
<1>12. CASE AcceptPiece
  <2>1. frame.at = "accept" /\ UNCHANGED <<request, phase, sent, model>>
    BY <1>12 DEF AcceptPiece, Moves
  <2>2. /\ GgufFields \subseteq DOMAIN frame' /\ frame'.carry = frame.carry \o frame.picked
        /\ frame'.produced = frame.produced \o frame.picked /\ frame'.at = "emit"
    BY <1>12 DEF AcceptPiece, Moves, TextInv, GgufFields
  <2>3. Text' = Text
    BY <2>1 DEF Text
  <2>4. /\ frame.carry \in Seq(Bytes) /\ frame.picked \in Seq(Bytes)
        /\ frame.produced \in Seq(Bytes)
        /\ Accounted /\ WellFormed(Text)
    BY <2>1 DEF TextInv, Settled
  <2>5. (Text \o frame.carry) \o frame.picked = Text \o (frame.carry \o frame.picked)
    <3>1. Text \in Seq(Bytes) /\ frame.carry \in Seq(Bytes) /\ frame.picked \in Seq(Bytes)
      BY <2>4 DEF Accounted
    <3>2. ASSUME NEW t \in Seq(Bytes), NEW c \in Seq(Bytes), NEW p \in Seq(Bytes)
          PROVE  (t \o c) \o p = t \o (c \o p)
      BY JoinsAssociate
    <3> QED
      BY <3>1, <3>2, Zenon
  <2>6. frame'.carry \in Seq(Bytes) /\ frame'.produced \in Seq(Bytes)
    BY <2>2, <2>4
  <2>7. Accounted'
    BY <2>2, <2>3, <2>4, <2>5 DEF Accounted
  <2> QED
    BY <2>1, <2>2, <2>3, <2>4, <2>6, <2>7 DEF TextInv
<1>13. CASE EmitWhole
  <2> DEFINE whole == CompletePrefix(frame.carry)
             rest == SubSeq(frame.carry, whole + 1, Len(frame.carry))
             head == SubSeq(frame.carry, 1, whole)
  <2>1. frame.at = "emit" /\ UNCHANGED <<request, phase, model>>
    BY <1>13 DEF EmitWhole, Emits
  <2>2. /\ GgufFields \subseteq DOMAIN frame' /\ frame'.carry = rest
        /\ frame'.produced = frame.produced /\ frame'.at = "decode"
    BY <1>13 DEF EmitWhole, Emits, TextInv, GgufFields
  <2>3. /\ frame.carry \in Seq(Bytes) /\ frame.produced \in Seq(Bytes)
        /\ Accounted /\ WellFormed(Text)
    BY <2>1 DEF TextInv
  <2>4. whole \in 0 .. Len(frame.carry) /\ WholeTo(frame.carry, whole) /\ Stops(frame.carry, whole)
    BY <2>3, CompletePrefixIs
  <2>5. /\ rest \in Seq(Bytes) /\ head \in Seq(Bytes) /\ head \o rest = frame.carry
        /\ Stops(rest, 0)
    <3> HIDE DEF whole
    <3> QED
      BY <2>3, <2>4, RestStops DEF Prefix
  <2>6. WellFormed(head)
    BY <2>3, <2>4, WellFormedPrefix DEF Prefix
  <2>7. Text' = Text \o head
    <3>1. CASE whole > 0
      <4> DEFINE block == [type |-> "text", text |-> head]
      <4>1. sent' = sent \o <<block>>
        BY <1>13, <3>1 DEF EmitWhole, Emits
      <4>2. block.text = head /\ IsSequence(head)
        BY <2>5 DEF IsSequence
      <4> HIDE DEF block, head
      <4> QED
        BY <4>1, <4>2, TextGrows
    <3>2. CASE ~(whole > 0)
      <4>1. sent' = sent \o <<>> /\ sent \o <<>> = sent
        BY <1>13, <3>2 DEF EmitWhole, Emits, SeamInv, IsSequence
      <4>2. whole = 0
        BY <2>4, <3>2
      <4>3. head = <<>>
        <5> HIDE DEF whole
        <5>1. SubSeq(frame.carry, 1, 0) = <<>>
          BY <2>3
        <5> QED
          BY <4>2, <5>1
      <4>4. Text' = Text /\ Text \in Seq(Bytes)
        BY <2>3, <4>1 DEF Text, Accounted
      <4> HIDE DEF head
      <4> QED
        BY <4>3, <4>4
    <3> QED
      BY <3>1, <3>2
  <2> HIDE DEF whole, rest, head
  <2>8. WellFormed(Text \o head)
    BY <2>3, <2>5, <2>6, WellFormedJoins DEF Accounted
  <2>9. Accounted'
    <3>1. (Text \o head) \o rest = Text \o (head \o rest) /\ Text \o head \in Seq(Bytes)
      <4>1. Text \in Seq(Bytes) /\ head \in Seq(Bytes) /\ rest \in Seq(Bytes)
        BY <2>3, <2>5 DEF Accounted
      <4>2. Text \o head \in Seq(Bytes)
        BY <4>1
      <4> QED
        BY <4>1, <4>2, JoinsAssociate
    <3> QED
      BY <2>2, <2>3, <2>5, <2>7, <3>1 DEF Accounted
  <2> QED
    BY <2>1, <2>2, <2>3, <2>5, <2>7, <2>8, <2>9 DEF TextInv, Settled
<1>14. CASE FlushCarry
  <2>1. frame.at = "flush" /\ UNCHANGED <<request, phase, model>>
    BY <1>14 DEF FlushCarry, Emits
  <2>2. /\ GgufFields \subseteq DOMAIN frame' /\ frame'.carry = <<>>
        /\ frame'.produced = frame.produced /\ frame'.at = "finish"
    BY <1>14 DEF FlushCarry, Emits, TextInv, GgufFields
  <2>3. frame.carry \in Seq(Bytes) /\ frame.produced \in Seq(Bytes) /\ Accounted
    BY <2>1 DEF TextInv
  <2>4. Text' = Text \o frame.carry
    <3>1. CASE frame.carry = <<>>
      <4>1. sent' = sent \o <<>> /\ sent \o <<>> = sent
        BY <1>14, <3>1 DEF FlushCarry, Emits, SeamInv, IsSequence
      <4> QED
        BY <2>3, <3>1, <4>1 DEF Text, Accounted
    <3>2. CASE frame.carry # <<>>
      <4> DEFINE block == [type |-> "text", text |-> frame.carry]
      <4>1. sent' = sent \o <<block>>
        BY <1>14, <3>2 DEF FlushCarry, Emits
      <4>2. block.text = frame.carry /\ IsSequence(frame.carry)
        BY <2>3 DEF IsSequence
      <4> HIDE DEF block
      <4> QED
        BY <4>1, <4>2, TextGrows
    <3> QED
      BY <3>1, <3>2
  <2> QED
    BY <2>1, <2>2, <2>3, <2>4 DEF TextInv, Accounted
<1> QED
  BY <1>1, <1>2, <1>3, <1>4, <1>5, <1>6, <1>7, <1>8, <1>9, <1>10, <1>11, <1>12, <1>13, <1>14
     DEF GgufNext

LEMMA TextInvHolds ==
  ASSUME SeamInv, TextInv, [Next]_vars
  PROVE  TextInv'
<1>1. CASE WhisperNext \/ G2pNext \/ MockNext
  <2>1. model'.engine # "gguf"
    BY <1>1, EachHasItsModel
  <2> QED
    BY <2>1, NotGenerating
<1>2. CASE Cancel
  <2>1. UNCHANGED <<model, request, phase, sent, frame>>
    BY <1>2 DEF Cancel
  <2> QED
    BY <2>1 DEF TextInv, Generates, Serving, Accounted, Settled, Text
<1>3. CASE Returned \/ Released \/ Relaunch
  BY <1>3, NotGenerating DEF Returned, Released, Relaunch, Idle, NotLoaded
<1>4. CASE UNCHANGED vars
  BY <1>4 DEF vars, seamVars, TextInv, Generates, Serving, Accounted, Settled, Text
<1> QED
  BY <1>1, <1>2, <1>3, <1>4, GgufKeepsText DEF Next

(* No byte the model produces is lost, repeated or reordered on its way    *)
(* through the carry: what the consumer holds is always the longest run of *)
(* whole characters, and in the end everything; for every vocabulary, even *)
(* one whose tokens cut characters anywhere or are not UTF-8 at all.       *)
THEOREM EveryByteIsSent == Spec => []TextIsExact
<1>1. SeamInit => TextInv
  BY DEF SeamInit, TextInv, Generates, Serving
<1>2. SeamInv /\ TextInv /\ [Next]_vars => TextInv'
  BY TextInvHolds
<1>3. TextInv => TextIsExact
  <2> SUFFICES ASSUME TextInv, Generates
               PROVE  /\ frame.at \in {"loop", "sample", "decode"} =>
                           Text = SubSeq(frame.produced, 1, LongestWhole(frame.produced))
                      /\ frame.at = "finish" => Text = frame.produced
    BY DEF TextIsExact, Generates
  <2>1. frame.at = "finish" => Text = frame.produced
    BY DEF TextInv
  <2>2. ASSUME frame.at \in {"loop", "sample", "decode"}
        PROVE  Text = SubSeq(frame.produced, 1, LongestWhole(frame.produced))
    <3> DEFINE n == Len(Text)
    <3>1. /\ Text \in Seq(Bytes) /\ frame.carry \in Seq(Bytes) /\ WellFormed(Text)
          /\ Stops(frame.carry, 0) /\ frame.produced = Text \o frame.carry
      BY <2>2 DEF TextInv, Accounted, Settled
    <3>2. WholeTo(frame.carry, 0) /\ 0 \in 0 .. Len(frame.carry)
      BY <3>1 DEF WholeTo
    <3>3. WholeTo(frame.produced, n + 0) /\ Stops(frame.produced, n + 0)
      BY <3>1, <3>2, WholeJoins
    <3>4. /\ frame.produced \in Seq(Bytes) /\ n \in 0 .. Len(frame.produced) /\ n + 0 = n
          /\ \A i \in 1 .. n : frame.produced[i] = Text[i]
      BY <3>1, JoinedIs
    <3>5. LongestWhole(frame.produced) = n
      BY <3>3, <3>4, StopsAtLongest
    <3>6. SubSeq(frame.produced, 1, n) = Text
      <4>1. /\ Prefix(frame.produced, n) \in Seq(Bytes) /\ Len(Prefix(frame.produced, n)) = n
            /\ \A i \in 1 .. n : Prefix(frame.produced, n)[i] = Text[i]
        BY <3>4, PrefixIs
      <4> QED
        BY <3>1, <4>1, SameSequence DEF IsSequence, Prefix
    <3> QED
      BY <3>5, <3>6
  <2> QED
    BY <2>1, <2>2
<1> QED
  BY <1>1, <1>2, <1>3, SeamInvariant, PTL DEF Spec
=============================================================================
