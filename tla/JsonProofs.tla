----------------------------- MODULE JsonProofs -----------------------------
(* What vsjson writes it reads back, wherever it stands and whatever stands *)
(* behind it in the buffer.                                                 *)
(*                                                                          *)
(* The functions of Json are recursive.  That they exist and satisfy their  *)
(* equations is shown by induction over the places of a text, downwards     *)
(* from its end; what they make of a dump, by induction over its elements.  *)
(* The inductions are over sets: a set of places that is not everything has *)
(* a least or a greatest element outside of it.                             *)
EXTENDS Json, Integers, NaturalsInduction, WellFoundedInduction, SequenceTheorems, TLAPS

CONSTANT Letters   \* the characters that are nothing to the parser

Marks == {"[", "]", "{", "}", Comma, ":", "-", "+", ".", Quote, Backslash, Zero}

\* The letters of null, true and false, one of which an exponent begins with.
Spelling == {"n", "u", "l", "t", "r", "e", "f", "a", "s"}

\* What can be read, and behind it the end of what can be read.
Bytes == Marks \cup Spelling \cup Digits \cup Letters \cup {"end"}
Chars == Bytes \ {"end"}

\* What can be written can be read.
LEMMA MarksAreChars ==
  /\ Marks \subseteq Chars /\ Spelling \subseteq Chars /\ Digits \subseteq Chars
  /\ Chars \subseteq Bytes /\ "end" \notin Chars
  BY Zenon DEF Chars, Bytes, Marks, Spelling, Digits, Quote, Backslash, Comma, Zero

\* Sums of three.
LEMMA Sums == \A a, b, c \in Nat : a + (b + c) = a + b + c
  OBVIOUS

\* Short words.
LEMMA ShortWords ==
  /\ <<>> \in Seq(Chars) /\ Len(<<>>) = 0
  /\ \A c \in Chars : <<c>> \in Seq(Chars) /\ Len(<<c>>) = 1
  /\ \A c, d \in Chars : <<c, d>> \in Seq(Chars) /\ Len(<<c, d>>) = 2
  OBVIOUS

-----------------------------------------------------------------------------
(* Induction, over sets in place of predicates.                             *)

\* A set of numbers has a least one.
LEMMA Least ==
  ASSUME NEW T \in SUBSET Nat, T # {}
  PROVE  \E n \in T : \A m \in T : n <= m
<1>1. PICK n \in T : \A m \in T : <<m, n>> \notin OpToRel(<, Nat)
  BY NatLessThanWellFounded, WFMin, Zenon
<1>2. \A m \in T : ~(m < n)
  BY <1>1, Zenon DEF OpToRel
<1>3. QED BY <1>2

\* What holds at n and below everything it holds at, holds from 1 to n.
LEMMA Downwards ==
  ASSUME NEW n \in Nat, NEW T, n \in T,
         \A i \in 1 .. n : i + 1 \in T /\ i + 1 <= n => i \in T
  PROVE  1 .. n \subseteq T
<1> DEFINE Left == {k \in Nat : k < n /\ n - k \notin T}
<1>1. SUFFICES ASSUME Left # {} PROVE FALSE
  <2>1. SUFFICES ASSUME NEW i \in 1 .. n, i \notin T PROVE FALSE
    OBVIOUS
  <2>2. n - i \in Nat /\ n - i < n /\ n - (n - i) = i
    OBVIOUS
  <2>3. n - i \in Left
    BY <2>1, <2>2
  <2>4. QED BY <1>1, <2>3
<1>2. PICK k \in Left : \A m \in Left : k <= m
  BY <1>1, Least
<1>3. k # 0
  BY <1>2
<1>4. k - 1 \notin Left /\ k - 1 \in Nat /\ k - 1 < n
  BY <1>2, <1>3
<1>5. n - (k - 1) \in T /\ n - (k - 1) = (n - k) + 1 /\ n - k \in 1 .. n
  BY <1>4
<1>6. n - k \in T
  BY <1>5
<1>7. QED BY <1>2, <1>6

\* What holds at 1 and above everything it holds at, holds from 1 to n.
LEMMA Upwards ==
  ASSUME NEW n \in Nat, NEW T, 1 \in T,
         \A i \in 1 .. n : i \in T /\ i + 1 <= n => i + 1 \in T
  PROVE  1 .. n \subseteq T
<1> DEFINE Left == {k \in 1 .. n : k \notin T}
<1>1. SUFFICES ASSUME Left # {} PROVE FALSE
  OBVIOUS
<1>2. PICK k \in Left : \A m \in Left : k <= m
  <2>1. Left \in SUBSET Nat
    OBVIOUS
  <2>2. QED BY <1>1, <2>1, Least
<1>3. k # 1 /\ k - 1 \in 1 .. n /\ k - 1 \notin Left
  BY <1>2
<1>4. (k - 1) + 1 \in T
  BY <1>3
<1>5. QED BY <1>2, <1>4

-----------------------------------------------------------------------------
(* The functions of the parser satisfy the equations they are defined by:   *)
(* there is a function that does.                                           *)

Places(s) == 1 .. Len(s) + 1

\* Behind s nothing is readable.
LEMMA Readable ==
  ASSUME NEW s \in Seq(Bytes), NEW p \in Nat, CharAt(s, p) # "end"
  PROVE  p <= Len(s)
  BY DEF CharAt

\* After exists: digits are skipped until something else comes.
LEMMA AfterUnfolds ==
  ASSUME NEW s \in Seq(Bytes), NEW q \in Places(s)
  PROVE  After(s)[q] = IF CharAt(s, q) \in Digits THEN After(s)[q + 1] ELSE q
<1> DEFINE N == Len(s) + 1
           Solves(f, n) == f = [i \in n .. N |-> IF CharAt(s, i) \in Digits THEN f[i + 1] ELSE i]
           T == {n \in 1 .. N : \E f : Solves(f, n)}
<1>0. N \in Nat /\ N >= 1 /\ CharAt(s, N) = "end" /\ "end" \notin Digits
  BY DEF CharAt, Digits
<1>1. N \in T
  <2>1. Solves([i \in N .. N |-> N], N)
    BY <1>0
  <2>2. \E f : Solves(f, N)
    BY <2>1, Zenon
  <2>3. QED BY <2>2, <1>0
<1>2. ASSUME NEW n \in 1 .. N, n + 1 \in T, n + 1 <= N PROVE n \in T
  <2>1. PICK f : Solves(f, n + 1)
    BY <1>2
  <2> DEFINE g == [i \in n .. N |-> IF i = n THEN IF CharAt(s, n) \in Digits THEN f[n + 1] ELSE n
                                    ELSE f[i]]
  <2>2. \A i \in (n + 1) .. N : f[i] = IF CharAt(s, i) \in Digits THEN f[i + 1] ELSE i
    BY <2>1, Zenon
  <2>3. ASSUME NEW i \in n .. N PROVE g[i] = IF CharAt(s, i) \in Digits THEN g[i + 1] ELSE i
    <3>1. CharAt(s, i) \in Digits => i < N
      BY <1>0
    <3>2. QED BY <1>0, <1>2, <2>2, <3>1
  <2>4. Solves(g, n)
    BY <2>3
  <2>5. QED BY <2>4
<1>3. 1 \in T
  <2> HIDE DEF T
  <2>1. QED BY <1>0, <1>1, <1>2, Downwards
<1>4. Solves(After(s), 1)
  BY <1>3 DEF After
<1>5. QED BY <1>4, Zenon DEF Places

\* One turn of the loop of parseString.
Turn(s, f, q) ==
    CASE CharAt(s, q) = "end"     -> 0
      [] CharAt(s, q) = Quote     -> q
      [] CharAt(s, q) = Backslash -> f[q + 2]
      [] OTHER                    -> f[q + 1]

\* Closing exists: what follows a backslash is skipped, until a quote comes.
LEMMA ClosingUnfolds ==
  ASSUME NEW s \in Seq(Bytes), NEW q \in 1 .. Len(s) + 2
  PROVE  Closing(s)[q] = Turn(s, Closing(s), q)
<1> DEFINE N == Len(s) + 2
           Solves(f, n) == f = [i \in n .. N |-> Turn(s, f, i)]
           T == {n \in 1 .. N : \E f : Solves(f, n)}
<1>0. N \in Nat /\ N >= 1 /\ CharAt(s, N) = "end"
      /\ \A i \in 1 .. N : CharAt(s, i) # "end" => i + 2 <= N
  BY DEF CharAt
<1>1. N \in T
  <2>1. Turn(s, [i \in N .. N |-> 0], N) = 0
    BY <1>0 DEF Turn, Quote, Backslash
  <2>2. Solves([i \in N .. N |-> 0], N)
    BY <1>0, <2>1
  <2>3. \E f : Solves(f, N)
    BY <2>2, Zenon
  <2>4. QED BY <2>3, <1>0
<1>2. ASSUME NEW n \in 1 .. N, n + 1 \in T, n + 1 <= N PROVE n \in T
  <2>1. PICK f : Solves(f, n + 1)
    BY <1>2
  <2> DEFINE g == [i \in n .. N |-> IF i = n THEN Turn(s, f, n) ELSE f[i]]
  <2>2. \A i \in (n + 1) .. N : f[i] = Turn(s, f, i)
    BY <2>1, Zenon
  <2>3. ASSUME NEW i \in n .. N PROVE g[i] = Turn(s, g, i)
    <3>1. Turn(s, g, i) = Turn(s, f, i)
      <4>1. CASE CharAt(s, i) = "end"
        BY <4>1 DEF Turn, Quote, Backslash
      <4>2. CASE CharAt(s, i) # "end"
        <5>1. i + 2 <= N /\ i + 1 <= N /\ i + 1 # n /\ i + 2 # n /\ i + 1 \in n .. N /\ i + 2 \in n .. N
          BY <1>0, <4>2
        <5>2. g[i + 1] = f[i + 1] /\ g[i + 2] = f[i + 2]
          BY <5>1
        <5> HIDE DEF g
        <5>3. QED BY <5>2 DEF Turn
      <4>3. QED BY <4>1, <4>2
    <3>2. g[i] = Turn(s, f, i)
      BY <2>2, <1>0
    <3>3. QED BY <3>1, <3>2
  <2>4. Solves(g, n)
    <3> HIDE DEF g
    <3>1. g = [i \in n .. N |-> g[i]]
      BY DEF g
    <3>2. QED BY <2>3, <3>1
  <2>5. QED BY <2>4
<1>3. 1 \in T
  <2> HIDE DEF T
  <2>1. QED BY <1>0, <1>1, <1>2, Downwards
<1>4. Solves(Closing(s), 1)
  BY <1>3 DEF Closing, Turn
<1>5. QED BY <1>4, Zenon

-----------------------------------------------------------------------------
(* Words in a text, and what is read of them.                               *)

\* The word w is written in s, from p on.
Stands(w, s, p) == \A i \in 1 .. Len(w) : CharAt(s, p + i - 1) = w[i]

\* A word does not reach behind s.
LEMMA WordEnds ==
  ASSUME NEW s \in Seq(Bytes), NEW p \in Places(s), NEW w \in Seq(Chars), Stands(w, s, p)
  PROVE  p + Len(w) \in Places(s)
<1>1. CASE Len(w) = 0
  BY <1>1 DEF Places
<1>2. CASE Len(w) > 0
  <2>1. w[Len(w)] \in Chars /\ CharAt(s, p + Len(w) - 1) = w[Len(w)] /\ p + Len(w) - 1 \in Nat
    BY <1>2 DEF Stands, Places
  <2>2. p + Len(w) - 1 <= Len(s)
    BY <2>1, Readable DEF Chars
  <2>3. QED BY <2>2 DEF Places
<1>3. QED BY <1>1, <1>2

\* A word in two parts.
LEMMA TwoWords ==
  ASSUME NEW s \in Seq(Bytes), NEW p \in Places(s), NEW v \in Seq(Chars), NEW w \in Seq(Chars),
         Stands(v \o w, s, p)
  PROVE  Stands(v, s, p) /\ Stands(w, s, p + Len(v)) /\ p + Len(v) \in Places(s)
<1>1. /\ Len(v \o w) = Len(v) + Len(w)
      /\ Len(v) \in Nat /\ Len(w) \in Nat /\ p \in Nat
      /\ \A i \in 1 .. Len(v) + Len(w) :
             (v \o w)[i] = IF i <= Len(v) THEN v[i] ELSE w[i - Len(v)]
  BY DEF Places
<1>2. Stands(v, s, p)
  BY <1>1 DEF Stands
<1>3. ASSUME NEW i \in 1 .. Len(w) PROVE CharAt(s, p + Len(v) + i - 1) = w[i]
  <2>1. Len(v) + i \in 1 .. Len(v) + Len(w) /\ Len(v) + i > Len(v) /\ (Len(v) + i) - Len(v) = i
        /\ p + (Len(v) + i) - 1 = p + Len(v) + i - 1
    BY <1>1
  <2>2. CharAt(s, p + (Len(v) + i) - 1) = (v \o w)[Len(v) + i]
    BY <1>1, <2>1, Zenon DEF Stands
  <2>3. QED BY <1>1, <2>1, <2>2
<1>4. p + Len(v) \in Places(s)
  BY <1>2, WordEnds
<1>5. QED BY <1>2, <1>3, <1>4 DEF Stands

\* How long three parts are.
LEMMA ThreeLengths ==
  ASSUME NEW u \in Seq(Chars), NEW v \in Seq(Chars), NEW w \in Seq(Chars)
  PROVE  Len(u \o v \o w) = Len(u) + Len(v) + Len(w) /\ u \o v \o w \in Seq(Chars)
<1>1. u \o v \in Seq(Chars) /\ Len(u \o v) = Len(u) + Len(v)
  BY ConcatProperties
<1>2. QED BY <1>1, ConcatProperties

\* A word in three parts.
LEMMA ThreeWords ==
  ASSUME NEW s \in Seq(Bytes), NEW p \in Places(s),
         NEW u \in Seq(Chars), NEW v \in Seq(Chars), NEW w \in Seq(Chars),
         Stands(u \o v \o w, s, p)
  PROVE  /\ Stands(u, s, p) /\ Stands(v, s, p + Len(u)) /\ Stands(w, s, p + Len(u) + Len(v))
         /\ p + Len(u) \in Places(s) /\ p + Len(u) + Len(v) \in Places(s)
<1>1. u \o v \in Seq(Chars) /\ Len(u \o v) = Len(u) + Len(v)
  BY ConcatProperties
<1>3. Stands((u \o v) \o w, s, p)
  OBVIOUS
<1>4. Stands(u \o v, s, p) /\ Stands(w, s, p + Len(u \o v)) /\ p + Len(u \o v) \in Places(s)
  BY <1>1, <1>3, TwoWords
<1>5. Stands(u, s, p) /\ Stands(v, s, p + Len(u)) /\ p + Len(u) \in Places(s)
  BY <1>4, TwoWords
<1>6. p + Len(u \o v) = p + Len(u) + Len(v)
  BY <1>1 DEF Places
<1>7. QED BY <1>4, <1>5, <1>6

\* One character is a word.
LEMMA Letter ==
  ASSUME NEW s, NEW p \in Nat, NEW c
  PROVE  Stands(<<c>>, s, p) <=> CharAt(s, p) = c
<1>1. Len(<<c>>) = 1 /\ <<c>>[1] = c /\ p + 1 - 1 = p
  OBVIOUS
<1>2. QED BY <1>1 DEF Stands

\* A word that stands in s is what is cut out of it.
LEMMA WordIsCut ==
  ASSUME NEW s \in Seq(Bytes), NEW p \in Places(s), NEW w \in Seq(Chars), Stands(w, s, p),
         NEW e, e = p + Len(w)
  PROVE  SubSeq(s, p, e - 1) = w
<1>1. p + Len(w) \in Places(s) /\ p \in 1 .. Len(s) + 1 /\ Len(w) \in Nat
  BY WordEnds DEF Places
<1>2. /\ SubSeq(s, p, p + Len(w) - 1) \in Seq(Bytes) /\ Len(SubSeq(s, p, p + Len(w) - 1)) = Len(w)
      /\ \A i \in 1 .. Len(w) : SubSeq(s, p, p + Len(w) - 1)[i] = s[p + i - 1]
  BY <1>1 DEF Places
<1>3. \A i \in 1 .. Len(w) : s[p + i - 1] = w[i]
  BY <1>1 DEF Stands, CharAt, Places
<1>4. w \in Seq(Bytes)
  BY DEF Chars
<1>5. SubSeq(s, p, p + Len(w) - 1) = w
  BY <1>2, <1>3, <1>4, SeqEqual
<1>6. p + Len(w) - 1 = (p + Len(w)) - 1
  BY <1>1 DEF Places
<1>7. QED BY <1>5, <1>6, Zenon

\* A text that a dump does not change the meaning of: no quote ends it early, and no
\* backslash at its end hides the quote that ends it.
Texts == {c \in Seq(Chars \ {Quote}) : c # <<>> => c[Len(c)] # Backslash}

\* A dumped text is read as it was, up to its quote.
LEMMA TextIsRead ==
  ASSUME NEW s \in Seq(Bytes), NEW p \in Places(s), NEW c \in Texts, Stands(Quoted(c), s, p)
  PROVE  ParseText(s, p) = Got(Text(c), p + Len(c) + 2)
<1> DEFINE e == p + Len(c) + 1
<1>1. /\ c \in Seq(Chars) /\ <<Quote>> \in Seq(Chars) /\ Len(<<Quote>>) = 1 /\ Len(c) \in Nat
      /\ p \in Nat /\ p >= 1 /\ Quote # "end" /\ Backslash # "end" /\ Quote # Backslash
      /\ \A i \in 1 .. Len(c) : c[i] \in Chars /\ c[i] # Quote
      /\ (Len(c) > 0 => c[Len(c)] # Backslash)
  <2>1. c \in Seq(Chars \ {Quote}) /\ (c # <<>> => c[Len(c)] # Backslash)
    BY DEF Texts
  <2>2. /\ c \in Seq(Chars) /\ Len(c) \in Nat
        /\ \A i \in 1 .. Len(c) : c[i] \in Chars /\ c[i] # Quote
    BY <2>1
  <2>3. Quote \in Chars /\ Quote # "end" /\ Backslash # "end" /\ Quote # Backslash
    BY MarksAreChars DEF Marks, Quote, Backslash
  <2>4. p \in Nat /\ p >= 1
    BY DEF Places
  <2>5. QED BY <2>1, <2>2, <2>3, <2>4
<1>2. /\ Stands(<<Quote>>, s, p) /\ Stands(c, s, p + 1) /\ Stands(<<Quote>>, s, e)
      /\ p + 1 \in Places(s)
  <2>1. Stands(<<Quote>>, s, p) /\ Stands(c, s, p + 1) /\ Stands(<<Quote>>, s, p + 1 + Len(c))
    <3>1. Stands(<<Quote>> \o c \o <<Quote>>, s, p)
      BY Zenon DEF Quoted
    <3>2. /\ Stands(<<Quote>>, s, p) /\ Stands(c, s, p + Len(<<Quote>>))
          /\ Stands(<<Quote>>, s, p + Len(<<Quote>>) + Len(c))
      BY <1>1, <3>1, ThreeWords, Zenon
    <3>3. QED BY <1>1, <3>2, Zenon
  <2>2. p + 1 \in Places(s)
    BY <1>1, <2>1, WordEnds
  <2>3. p + 1 + Len(c) = e
    BY <1>1
  <2>4. QED BY <2>1, <2>2, <2>3
<1>3. CharAt(s, p) = Quote /\ CharAt(s, e) = Quote /\ e \in Nat /\ e <= Len(s)
  BY <1>1, <1>2, Letter, Readable
<1>4. \A q \in (p + 1) .. (e - 1) :
         /\ CharAt(s, q) # "end" /\ CharAt(s, q) # Quote
         /\ CharAt(s, q) = Backslash => q + 2 <= e
  <2>1. SUFFICES ASSUME NEW q \in (p + 1) .. (e - 1)
                 PROVE  /\ CharAt(s, q) # "end" /\ CharAt(s, q) # Quote
                        /\ CharAt(s, q) = Backslash => q + 2 <= e
    OBVIOUS
  <2>2. q - p \in 1 .. Len(c) /\ (p + 1) + (q - p) - 1 = q
    BY <1>1
  <2>3. CharAt(s, q) = c[q - p]
    BY <1>2, <2>2, Zenon DEF Stands
  <2>4. q + 2 > e => q - p = Len(c) /\ Len(c) > 0
    BY <1>1
  <2>5. QED BY <1>1, <2>2, <2>3, <2>4 DEF Chars
<1> DEFINE T == {q \in 1 .. e : \A r \in q .. e : r >= p + 1 => Closing(s)[r] = e}
<1>5. e \in T
  <2>1. Closing(s)[e] = Turn(s, Closing(s), e)
    BY <1>3, <1>1, ClosingUnfolds
  <2>2. Closing(s)[e] = e
    BY <1>1, <1>3, <2>1 DEF Turn
  <2>3. QED BY <1>1, <1>3, <2>2
<1>6. ASSUME NEW q \in 1 .. e, q + 1 \in T, q + 1 <= e PROVE q \in T
  <2>1. SUFFICES ASSUME q >= p + 1 PROVE Closing(s)[q] = e
    BY <1>6
  <2>2. Closing(s)[q] = Turn(s, Closing(s), q)
    BY <1>3, <1>1, ClosingUnfolds
  <2>3. Closing(s)[q + 1] = e
    BY <1>1, <1>6, <2>1
  <2>4. q + 2 <= e => Closing(s)[q + 2] = e
    BY <1>1, <1>6, <2>1
  <2>5. CharAt(s, q) # "end" /\ CharAt(s, q) # Quote /\ (CharAt(s, q) = Backslash => q + 2 <= e)
    BY <1>1, <1>4, <1>6, <2>1
  <2>6. QED BY <2>2, <2>3, <2>4, <2>5 DEF Turn
<1>7. p + 1 \in T
  <2> HIDE DEF T
  <2>1. 1 .. e \subseteq T
    BY <1>3, <1>5, <1>6, Downwards
  <2>2. QED BY <1>1, <1>3, <2>1
<1>8. Closing(s)[p + 1] = e
  BY <1>1, <1>7
<1>9. SubSeq(s, p + 1, e - 1) = c
  <2>1. PICK n : n = (p + 1) + Len(c)
    OBVIOUS
  <2>2. SubSeq(s, p + 1, n - 1) = c /\ n = e
    BY <1>1, <1>2, <2>1, WordIsCut
  <2>3. QED BY <2>2
<1>10. e # 0 /\ e + 1 = p + Len(c) + 2
  BY <1>1
<1>11. QED BY <1>3, <1>8, <1>9, <1>10 DEF ParseText

\* Digits are read up to what is none.
LEMMA DigitsAreRead ==
  ASSUME NEW s \in Seq(Bytes), NEW p \in Places(s), NEW d \in Seq(Digits), Stands(d, s, p),
         CharAt(s, p + Len(d)) \notin Digits
  PROVE  After(s)[p] = p + Len(d) /\ p + Len(d) \in Places(s)
<1> DEFINE e == p + Len(d)
           T == {q \in 1 .. e : q >= p => After(s)[q] = e}
<1>1. d \in Seq(Chars) /\ Len(d) \in Nat /\ p \in Nat /\ p >= 1
  BY MarksAreChars DEF Places
<1>2. e \in Places(s) /\ 1 .. e \subseteq Places(s) /\ e \in Nat
  BY <1>1, WordEnds DEF Places
<1>3. e \in T
  <2>1. After(s)[e] = e
    BY <1>2, AfterUnfolds
  <2>2. QED BY <1>1, <2>1
<1>4. ASSUME NEW q \in 1 .. e, q + 1 \in T, q + 1 <= e PROVE q \in T
  <2>1. SUFFICES ASSUME q >= p PROVE After(s)[q] = e
    BY <1>4
  <2>2. q - p + 1 \in 1 .. Len(d) /\ p + (q - p + 1) - 1 = q
    BY <1>1, <1>4, <2>1
  <2>3. CharAt(s, q) = d[q - p + 1]
    BY <2>2, Zenon DEF Stands
  <2>4. CharAt(s, q) \in Digits
    BY <2>2, <2>3
  <2>5. After(s)[q] = After(s)[q + 1]
    BY <1>2, <2>4, AfterUnfolds
  <2>6. q + 1 >= p
    BY <1>1, <2>1
  <2>7. QED BY <1>4, <2>5, <2>6
<1>5. p \in T
  <2> HIDE DEF T
  <2>1. 1 .. e \subseteq T
    BY <1>2, <1>3, <1>4, Downwards
  <2>2. QED BY <1>1, <1>2, <2>1
<1>6. QED BY <1>2, <1>5

\* What is written of numbers: a point goes before an exponent.
SomeDigits == Seq(Digits) \ {<<>>}
Whole      == SomeDigits \cup {<<"-">> \o d : d \in SomeDigits}
Point      == <<".">>
Decimal    == {w \o Point \o d : w \in Whole, d \in SomeDigits}
Powers     == {<<"e", "+">>, <<"e", "-">>}
Scientific == {m \o x \o d : m \in Decimal, x \in Powers, d \in {y \in SomeDigits : InTable(y)}}
Numbers    == Whole \cup Decimal \cup Scientific

\* What follows a value inside of a message.
Ends == {Comma, "]", "}"}

Start(s, p) == IF CharAt(s, p) = "-" THEN p + 1 ELSE p

\* A number has a digit.
LEMMA DigitsAreChars ==
  ASSUME NEW d \in SomeDigits
  PROVE  /\ d \in Seq(Digits) /\ d \in Seq(Chars) /\ Len(d) \in Nat /\ Len(d) >= 1
         /\ d[1] \in Digits
<1>1. d \in Seq(Digits) /\ d # <<>>
  BY DEF SomeDigits
<1>2. d \in Seq(Chars)
  BY <1>1, MarksAreChars
<1>3. Len(d) \in Nat /\ Len(d) >= 1
  BY <1>1
<1>4. QED BY <1>1, <1>2, <1>3

\* An integer is digits, behind a minus or not.
LEMMA WholeParts ==
  ASSUME NEW w \in Whole
  PROVE  \E g \in {<<>>, <<"-">>}, d \in SomeDigits : w = g \o d
<1>1. CASE w \in SomeDigits
  <2>1. w = <<>> \o w
    BY <1>1 DEF SomeDigits
  <2>2. QED BY <1>1, <2>1
<1>2. CASE \E d \in SomeDigits : w = <<"-">> \o d
  BY <1>2
<1>3. QED BY <1>1, <1>2 DEF Whole

\* Integers are words.
LEMMA WholeIsChars ==
  ASSUME NEW w \in Whole
  PROVE  w \in Seq(Chars) /\ Len(w) \in Nat /\ Len(w) >= 1
<1>1. PICK g \in {<<>>, <<"-">>}, d \in SomeDigits : w = g \o d
  BY WholeParts
<1>2. d \in Seq(Chars) /\ Len(d) \in Nat /\ Len(d) >= 1
  BY DigitsAreChars
<1>3. "-" \in Chars
  BY MarksAreChars DEF Marks
<1>4. g \in Seq(Chars) /\ Len(g) \in Nat
  BY <1>3, ShortWords
<1>5. QED BY <1>1, <1>2, <1>4, ConcatProperties

\* A decimal is an integer, a point and digits.
LEMMA DecimalParts ==
  ASSUME NEW m \in Decimal
  PROVE  \E w \in Whole, d \in SomeDigits : m = w \o Point \o d
  BY DEF Decimal

\* Decimals are words.
LEMMA DecimalIsChars ==
  ASSUME NEW m \in Decimal
  PROVE  m \in Seq(Chars) /\ Len(m) \in Nat /\ Len(m) >= 1
<1>1. PICK w \in Whole, d \in SomeDigits : m = w \o Point \o d
  BY DecimalParts
<1>2. /\ w \in Seq(Chars) /\ Len(w) \in Nat /\ Len(w) >= 1
      /\ d \in Seq(Chars) /\ Len(d) \in Nat
  BY WholeIsChars, DigitsAreChars
<1>3. Point \in Seq(Chars) /\ Len(Point) = 1
  BY MarksAreChars, ShortWords DEF Marks, Point
<1>4. /\ w \o Point \o d \in Seq(Chars)
      /\ Len(w \o Point \o d) = Len(w) + Len(Point) + Len(d)
  BY <1>2, <1>3, ThreeLengths, Zenon
<1>5. m \in Seq(Chars) /\ Len(m) = Len(w) + 1 + Len(d)
  BY <1>1, <1>3, <1>4, Zenon
<1>6. QED BY <1>2, <1>5

\* An integer is read up to what is no digit.
LEMMA WholeIsRead ==
  ASSUME NEW s \in Seq(Bytes), NEW p \in Places(s), NEW w \in Whole, Stands(w, s, p)
  PROVE  /\ w \in Seq(Chars) /\ Len(w) \in Nat /\ Len(w) >= 1
         /\ CharAt(s, p) \in Digits \cup {"-"}
         /\ CharAt(s, p + Len(w)) \notin Digits =>
                After(s)[Start(s, p)] = p + Len(w) /\ Start(s, p) # p + Len(w)
<1>1. PICK g \in {<<>>, <<"-">>}, d \in SomeDigits : w = g \o d
  BY WholeParts
<1>2. /\ d \in Seq(Digits) /\ d \in Seq(Chars) /\ Len(d) \in Nat /\ Len(d) >= 1
      /\ d[1] \in Digits
  BY DigitsAreChars
<1>3. g \in Seq(Chars) /\ Len(g) \in {0, 1} /\ p \in Nat
  <2>1. "-" \in Chars
    BY MarksAreChars DEF Marks
  <2>2. /\ <<>> \in Seq(Chars) /\ Len(<<>>) = 0
        /\ <<"-">> \in Seq(Chars) /\ Len(<<"-">>) = 1
    BY <2>1
  <2>3. CASE g = <<>>
    BY <2>2, <2>3 DEF Places
  <2>4. CASE g = <<"-">>
    BY <2>2, <2>4 DEF Places
  <2>5. QED BY <2>3, <2>4
<1>4. Stands(g, s, p) /\ Stands(d, s, p + Len(g)) /\ p + Len(g) \in Places(s)
  BY <1>1, <1>2, <1>3, TwoWords, WordEnds
<1>5. w \in Seq(Chars) /\ Len(w) = Len(g) + Len(d)
  BY <1>1, <1>2, <1>3
<1>6. CharAt(s, p + Len(g)) = d[1]
  <2>1. 1 \in 1 .. Len(d) /\ p + Len(g) + 1 - 1 = p + Len(g)
    BY <1>2, <1>3
  <2>2. QED BY <1>4, <2>1, Zenon DEF Stands
<1>7. Start(s, p) = p + Len(g) /\ CharAt(s, p) \in Digits \cup {"-"}
  <2>1. CASE g = <<>>
    <3>1. Len(g) = 0 /\ CharAt(s, p) = d[1] /\ "-" \notin Digits
      BY <1>3, <1>6, <2>1 DEF Digits
    <3>2. QED BY <1>2, <1>3, <3>1 DEF Start
  <2>2. CASE g = <<"-">>
    <3>1. Len(g) = 1 /\ CharAt(s, p) = "-"
      BY <1>3, <1>4, <2>2, Letter
    <3>2. QED BY <3>1 DEF Start
  <2>3. QED BY <2>1, <2>2
<1>8. ASSUME CharAt(s, p + Len(w)) \notin Digits
      PROVE  After(s)[Start(s, p)] = p + Len(w) /\ Start(s, p) # p + Len(w)
  <2>1. p + Len(g) + Len(d) = p + Len(w)
    BY <1>3, <1>2, <1>5
  <2>2. After(s)[p + Len(g)] = p + Len(w)
    BY <1>2, <1>4, <1>8, <2>1, DigitsAreRead
  <2>3. QED BY <1>2, <1>3, <1>5, <1>7, <2>2
<1>9. QED BY <1>2, <1>3, <1>5, <1>7, <1>8

\* The whole part, a point, and digits behind it.
LEMMA DecimalIsRead ==
  ASSUME NEW s \in Seq(Bytes), NEW p \in Places(s), NEW m \in Decimal, Stands(m, s, p),
         CharAt(s, p + Len(m)) \notin Digits
  PROVE  \E w \in Whole :
           /\ Stands(w, s, p) /\ Len(w) \in Nat
           /\ CharAt(s, p + Len(w)) = "." /\ After(s)[p + Len(w) + 1] = p + Len(m)
           /\ p + Len(w) + 1 < p + Len(m)
           /\ m \in Seq(Chars)
<1>1. PICK w \in Whole, d \in SomeDigits : m = w \o Point \o d
  BY DecimalParts
<1>2. w \in Seq(Chars) /\ Len(w) \in Nat
  BY WholeIsChars
<1>3. d \in Seq(Digits) /\ d \in Seq(Chars) /\ Len(d) \in Nat /\ Len(d) >= 1
  BY DigitsAreChars
<1>4. Point \in Seq(Chars) /\ Len(Point) = 1
  BY MarksAreChars, ShortWords DEF Marks, Point
<1>5. p \in Nat
  BY DEF Places
<1>6. /\ Stands(w, s, p) /\ Stands(Point, s, p + Len(w))
      /\ Stands(d, s, p + Len(w) + Len(Point))
      /\ Len(m) = Len(w) + Len(Point) + Len(d) /\ m \in Seq(Chars)
  <2>1. Stands(w \o Point \o d, s, p)
    BY <1>1
  <2>2. w \in Seq(Chars) /\ Point \in Seq(Chars) /\ d \in Seq(Chars)
    BY <1>2, <1>3, <1>4
  <2>3. Stands(w, s, p) /\ Stands(Point, s, p + Len(w)) /\ Stands(d, s, p + Len(w) + Len(Point))
    BY <2>1, <2>2, ThreeWords, Zenon
  <2>4. Len(w \o Point \o d) = Len(w) + Len(Point) + Len(d) /\ w \o Point \o d \in Seq(Chars)
    BY <2>2, ThreeLengths
  <2>5. QED BY <1>1, <2>3, <2>4
<1>7. p + Len(w) \in Places(s)
  BY <1>2, <1>6, WordEnds
<1>8. p + Len(w) + 1 \in Places(s)
  BY <1>4, <1>6, <1>7, WordEnds
<1>9. CharAt(s, p + Len(w)) = "."
  BY <1>2, <1>5, <1>6, Letter DEF Point
<1>10. p + Len(w) + 1 + Len(d) = p + Len(m) /\ p + Len(w) + 1 < p + Len(m)
  BY <1>2, <1>3, <1>4, <1>5, <1>6
<1>11. After(s)[p + Len(w) + 1] = p + Len(m)
  BY <1>3, <1>4, <1>6, <1>8, <1>10, DigitsAreRead
<1>12. QED BY <1>2, <1>6, <1>9, <1>10, <1>11

\* A sign behind the e, and digits behind it.
LEMMA ExponentIsRead ==
  ASSUME NEW s \in Seq(Bytes), NEW p \in Places(s), NEW c \in Scientific, Stands(c, s, p),
         CharAt(s, p + Len(c)) \notin Digits
  PROVE  \E m \in Decimal :
           /\ Stands(m, s, p) /\ Len(m) \in Nat
           /\ CharAt(s, p + Len(m)) = "e" /\ CharAt(s, p + Len(m) + 1) \in {"+", "-"}
           /\ After(s)[p + Len(m) + 2] = p + Len(c)
           /\ c \in Seq(Chars)
           /\ \A e : e = p + Len(c) => InTable(SubSeq(s, p + Len(m) + 2, e - 1))
<1>1. PICK m \in Decimal, x \in Powers, d \in SomeDigits : c = m \o x \o d /\ InTable(d)
  BY DEF Scientific
<1>2. m \in Seq(Chars) /\ Len(m) \in Nat
  BY DecimalIsChars
<1>3. d \in Seq(Digits) /\ d \in Seq(Chars) /\ Len(d) \in Nat /\ Len(d) >= 1
  BY DigitsAreChars
<1>4. x \in Seq(Chars) /\ Len(x) = 2 /\ x[1] = "e" /\ x[2] \in {"+", "-"}
  <2>1. "e" \in Chars /\ "+" \in Chars /\ "-" \in Chars
    BY MarksAreChars DEF Marks, Spelling
  <2>2. CASE x = <<"e", "+">>
    BY <2>1, <2>2, ShortWords
  <2>3. CASE x = <<"e", "-">>
    BY <2>1, <2>3, ShortWords
  <2>4. QED BY <2>2, <2>3 DEF Powers
<1>5. p \in Nat
  BY DEF Places
<1>6. /\ Stands(m, s, p) /\ Stands(x, s, p + Len(m)) /\ Stands(d, s, p + Len(m) + Len(x))
      /\ Len(c) = Len(m) + Len(x) + Len(d) /\ c \in Seq(Chars)
  <2>1. Stands(m \o x \o d, s, p)
    BY <1>1
  <2>2. m \in Seq(Chars) /\ x \in Seq(Chars) /\ d \in Seq(Chars)
    BY <1>2, <1>3, <1>4
  <2>3. Stands(m, s, p) /\ Stands(x, s, p + Len(m)) /\ Stands(d, s, p + Len(m) + Len(x))
    BY <2>1, <2>2, ThreeWords, Zenon
  <2>4. Len(m \o x \o d) = Len(m) + Len(x) + Len(d) /\ m \o x \o d \in Seq(Chars)
    BY <2>2, ThreeLengths
  <2>5. QED BY <1>1, <2>3, <2>4
<1>7. p + Len(m) \in Places(s)
  BY <1>2, <1>6, WordEnds
<1>8. p + Len(m) + 2 \in Places(s)
  BY <1>4, <1>6, <1>7, WordEnds
<1>9. CharAt(s, p + Len(m)) = "e" /\ CharAt(s, p + Len(m) + 1) \in {"+", "-"}
  <2>1. \A i \in 1 .. 2 : CharAt(s, p + Len(m) + i - 1) = x[i]
    BY <1>4, <1>6, Zenon DEF Stands
  <2>2. CharAt(s, p + Len(m) + 1 - 1) = x[1] /\ CharAt(s, p + Len(m) + 2 - 1) = x[2]
    BY <2>1
  <2>3. p + Len(m) + 1 - 1 = p + Len(m) /\ p + Len(m) + 2 - 1 = p + Len(m) + 1
    BY <1>2, <1>5
  <2>4. QED BY <1>4, <2>2, <2>3
<1>10. p + Len(m) + 2 + Len(d) = p + Len(c)
  BY <1>2, <1>3, <1>4, <1>5, <1>6
<1>11. After(s)[p + Len(m) + 2] = p + Len(c)
  BY <1>3, <1>4, <1>6, <1>8, <1>10, DigitsAreRead
<1>12. ASSUME NEW e, e = p + Len(c) PROVE InTable(SubSeq(s, p + Len(m) + 2, e - 1))
  <2>1. PICK b : b = p + Len(m) + 2
    OBVIOUS
  <2>2. b \in Places(s) /\ Stands(d, s, b) /\ d \in Seq(Chars) /\ e = b + Len(d)
    <3>1. p + Len(m) + Len(x) = b
      BY <1>4, <2>1
    <3>2. Stands(d, s, b) /\ d \in Seq(Chars)
      BY <1>3, <1>6, <3>1, Zenon
    <3>3. QED BY <1>8, <1>10, <1>12, <2>1, <3>2
  <2>3. SubSeq(s, b, e - 1) = d
    BY <2>2, WordIsCut
  <2>4. QED BY <1>1, <2>1, <2>3, Zenon
<1>13. QED BY <1>2, <1>6, <1>9, <1>11, <1>12

\* A number is read as it was written, and where it ends something follows.
LEMMA NumberIsRead ==
  ASSUME NEW s \in Seq(Bytes), NEW p \in Places(s), NEW c \in Numbers, Stands(c, s, p),
         CharAt(s, p + Len(c)) \in Ends
  PROVE  /\ ParseNumber(s, p) = Got(Num(c), p + Len(c))
         /\ CharAt(s, p) \in Digits \cup {"-"}
<1>1. PICK x : x = p + Len(c)
  OBVIOUS
<1>2. PICK e : e = CharAt(s, x)
  OBVIOUS
<1>3. e \notin Digits /\ e # "." /\ e # "e" /\ e # "end" /\ e # Zero
  BY <1>1, <1>2, Zenon DEF Ends, Digits, Comma, Zero
<1>4. c \in Seq(Chars) => SubSeq(s, p, x - 1) = c
  BY <1>1, WordIsCut
<1>5. CASE c \in Whole
  <2>1. /\ c \in Seq(Chars) /\ CharAt(s, p) \in Digits \cup {"-"}
        /\ After(s)[Start(s, p)] = x /\ Start(s, p) # x
    BY <1>1, <1>2, <1>3, <1>5, WholeIsRead
  <2>2. ParseNumber(s, p) = Got(Num(c), x)
    BY <1>2, <1>3, <1>4, <2>1 DEF ParseNumber, Start
  <2>3. QED BY <1>1, <2>1, <2>2
<1>6. CASE c \in Decimal
  <2>1. PICK w \in Whole :
           /\ Stands(w, s, p) /\ Len(w) \in Nat
           /\ CharAt(s, p + Len(w)) = "." /\ After(s)[p + Len(w) + 1] = x
           /\ p + Len(w) + 1 < x /\ c \in Seq(Chars)
    BY <1>1, <1>2, <1>3, <1>6, DecimalIsRead
  <2>2. PICK i : i = p + Len(w)
    OBVIOUS
  <2>3. /\ CharAt(s, p) \in Digits \cup {"-"} /\ After(s)[Start(s, p)] = i /\ Start(s, p) # i
    BY <2>1, <2>2, WholeIsRead DEF Digits
  <2>4. CharAt(s, i) = "." /\ After(s)[i + 1] = x /\ x # i
    BY <2>1, <2>2 DEF Places
  <2>5. ParseNumber(s, p) = Got(Num(c), x)
    BY <1>2, <1>3, <1>4, <2>1, <2>3, <2>4 DEF ParseNumber, Start, Zero
  <2>6. QED BY <1>1, <2>3, <2>5
<1>7. CASE c \in Scientific
  <2>1. PICK m \in Decimal :
           /\ Stands(m, s, p) /\ Len(m) \in Nat
           /\ CharAt(s, p + Len(m)) = "e" /\ CharAt(s, p + Len(m) + 1) \in {"+", "-"}
           /\ After(s)[p + Len(m) + 2] = x /\ c \in Seq(Chars)
           /\ InTable(SubSeq(s, p + Len(m) + 2, x - 1))
    BY <1>1, <1>2, <1>3, <1>7, ExponentIsRead
  <2>2. PICK f : f = p + Len(m)
    OBVIOUS
  <2>3. PICK w \in Whole :
           /\ Stands(w, s, p) /\ Len(w) \in Nat
           /\ CharAt(s, p + Len(w)) = "." /\ After(s)[p + Len(w) + 1] = f
           /\ p + Len(w) + 1 < f
    BY <2>1, <2>2, DecimalIsRead DEF Digits
  <2>4. PICK i : i = p + Len(w)
    OBVIOUS
  <2>5. /\ CharAt(s, p) \in Digits \cup {"-"} /\ After(s)[Start(s, p)] = i /\ Start(s, p) # i
    BY <2>3, <2>4, WholeIsRead DEF Digits
  <2>6. CharAt(s, i) = "." /\ After(s)[i + 1] = f /\ f # i
    BY <2>3, <2>4 DEF Places
  <2>7. CharAt(s, f) = "e" /\ CharAt(s, f + 1) \in {"+", "-"} /\ After(s)[f + 2] = x
        /\ InTable(SubSeq(s, f + 2, x - 1))
    BY <2>1, <2>2
  <2>8. ParseNumber(s, p) = Got(Num(c), x)
    BY <1>2, <1>3, <1>4, <2>1, <2>5, <2>6, <2>7 DEF ParseNumber, Start, Zero
  <2>9. QED BY <1>1, <2>5, <2>8
<1>8. QED BY <1>5, <1>6, <1>7 DEF Numbers

-----------------------------------------------------------------------------
(* How far the parser reads: never behind s, and never back.                *)

\* A text ends behind where it begins, within s.
LEMMA ClosingBound ==
  ASSUME NEW s \in Seq(Bytes), NEW q \in 1 .. Len(s) + 2
  PROVE  Closing(s)[q] = 0 \/ Closing(s)[q] \in q .. Len(s)
<1> DEFINE N == Len(s) + 2
           Fine(r) == Closing(s)[r] = 0 \/ Closing(s)[r] \in r .. Len(s)
           T == {n \in 1 .. N : \A r \in n .. N : Fine(r)}
<1>0. N \in Nat /\ N >= 1 /\ CharAt(s, N) = "end"
      /\ \A i \in 1 .. N : CharAt(s, i) # "end" => i <= Len(s)
  BY DEF CharAt
<1>1. N \in T
  <2>1. Closing(s)[N] = Turn(s, Closing(s), N)
    BY <1>0, ClosingUnfolds
  <2>2. Closing(s)[N] = 0
    BY <1>0, <2>1 DEF Turn, Quote, Backslash
  <2>3. QED BY <1>0, <2>2
<1>2. ASSUME NEW n \in 1 .. N, n + 1 \in T, n + 1 <= N PROVE n \in T
  <2>1. Closing(s)[n] = Turn(s, Closing(s), n)
    BY ClosingUnfolds
  <2>2. Fine(n + 1) /\ (n + 2 <= N => Fine(n + 2))
    BY <1>2
  <2>3. CASE CharAt(s, n) = "end"
    <3>1. Closing(s)[n] = 0
      BY <2>1, <2>3 DEF Turn, Quote, Backslash
    <3>2. QED BY <1>2, <3>1
  <2>4. CASE CharAt(s, n) # "end"
    <3>1. n <= Len(s)
      BY <1>0, <2>4
    <3>2. Closing(s)[n] \in {n, Closing(s)[n + 1], Closing(s)[n + 2]}
      BY <2>1, <2>4 DEF Turn, Quote, Backslash
    <3>3. Fine(n)
      BY <2>2, <3>1, <3>2
    <3>4. QED BY <1>2, <3>3
  <2>5. QED BY <2>3, <2>4
<1>3. 1 .. N \subseteq T
  <2> HIDE DEF T
  <2>1. QED BY <1>0, <1>1, <1>2, Downwards
<1>4. QED BY <1>3

\* Digits end where they begin or behind, within s.
LEMMA AfterBound ==
  ASSUME NEW s \in Seq(Bytes), NEW q \in Places(s)
  PROVE  After(s)[q] \in q .. Len(s) + 1
<1> DEFINE N == Len(s) + 1
           T == {n \in 1 .. N : \A r \in n .. N : After(s)[r] \in r .. N}
<1>0. N \in Nat /\ N >= 1 /\ CharAt(s, N) = "end" /\ "end" \notin Digits /\ Places(s) = 1 .. N
  BY DEF CharAt, Digits, Places
<1>1. N \in T
  <2>1. After(s)[N] = N
    BY <1>0, AfterUnfolds
  <2>2. QED BY <1>0, <2>1
<1>2. ASSUME NEW n \in 1 .. N, n + 1 \in T, n + 1 <= N PROVE n \in T
  <2>1. After(s)[n] \in {n, After(s)[n + 1]}
    BY <1>0, AfterUnfolds
  <2>2. After(s)[n + 1] \in (n + 1) .. N
    BY <1>2
  <2>3. QED BY <1>2, <2>1, <2>2
<1>3. 1 .. N \subseteq T
  <2> HIDE DEF T
  <2>1. QED BY <1>0, <1>1, <1>2, Downwards
<1>4. QED BY <1>0, <1>3

\* What may be the result of reading at p: it ends in s, or skips the length of a literal.
Inside(s, p, r) == r.ok \in BOOLEAN /\ (r.ok => r.next \in p .. Len(s) + 1)
Skipped(s, p, r) == r.ok = TRUE /\ CharAt(s, p) \in {"n", "t", "f"} /\ r.next \in {p + 4, p + 5}
Bounded(s, k, p, r) == Inside(s, p, r) \/ (k = "value" /\ Skipped(s, p, r))

\* A text is read within s.
LEMMA TextBounded ==
  ASSUME NEW s \in Seq(Bytes), NEW p \in Places(s)
  PROVE  Inside(s, p + 1, ParseText(s, p))
<1>1. p + 1 \in 1 .. Len(s) + 2
  BY DEF Places
<1>2. Closing(s)[p + 1] = 0 \/ Closing(s)[p + 1] \in (p + 1) .. Len(s)
  BY <1>1, ClosingBound
<1>3. QED BY <1>1, <1>2 DEF ParseText, Inside, Fails, Got

\* A number is read within s.
LEMMA NumberBounded ==
  ASSUME NEW s \in Seq(Bytes), NEW p \in Places(s)
  PROVE  Inside(s, p, ParseNumber(s, p))
<1> DEFINE N        == Len(s) + 1
           start    == IF CharAt(s, p) = "-" THEN p + 1 ELSE p
           integer  == After(s)[start]
           fraction == IF CharAt(s, integer) = "." THEN After(s)[integer + 1] ELSE integer
           scaled   == fraction # integer /\ CharAt(s, fraction) = "e"
           power    == fraction + IF CharAt(s, fraction + 1) \in {"+", "-"} THEN 2 ELSE 1
           exponent == IF scaled THEN After(s)[power] ELSE fraction
<1>0. \A q \in 1 .. N : (CharAt(s, q) # "end" => q + 1 \in 1 .. N) /\ After(s)[q] \in q .. N
  BY Readable, AfterBound DEF Places
<1>1. start \in p .. N
  BY <1>0 DEF Places
<1>2. integer \in start .. N
  BY <1>0, <1>1 DEF Places
<1> HIDE DEF start, integer
<1>3. integer \in p .. N /\ integer \in 1 .. N
  BY <1>1, <1>2 DEF Places
<1>4. fraction \in integer .. N
  BY <1>0, <1>3
<1> HIDE DEF fraction
<1>5. fraction \in 1 .. N /\ fraction \in p .. N
  BY <1>3, <1>4 DEF Places
<1>6. CharAt(s, fraction) = "e" => power \in 1 .. N /\ power > fraction
  <2>1. SUFFICES ASSUME CharAt(s, fraction) = "e" PROVE power \in 1 .. N /\ power > fraction
    OBVIOUS
  <2>2. fraction + 1 \in 1 .. N
    BY <1>0, <1>5, <2>1
  <2>3. CharAt(s, fraction + 1) \in {"+", "-"} => fraction + 2 \in 1 .. N
    BY <1>0, <1>5, <2>2
  <2>4. QED BY <1>5, <2>2, <2>3
<1> HIDE DEF power
<1>7. exponent \in p .. N
  <2>1. CASE ~scaled
    BY <1>5, <2>1
  <2>2. CASE scaled
    <3>1. power \in 1 .. N /\ power > fraction /\ After(s)[power] \in power .. N
      BY <1>0, <1>6, <2>2
    <3>2. exponent = After(s)[power]
      BY <2>2
    <3>3. power \in p .. N
      BY <1>5, <3>1 DEF Places
    <3> HIDE DEF exponent
    <3>4. QED BY <3>1, <3>2, <3>3 DEF Places
  <2>3. QED BY <2>1, <2>2
<1> HIDE DEF exponent
<1>8. ParseNumber(s, p) = IF integer = start THEN Got(Null, start)
        ELSE IF \E q \in {integer, fraction, exponent} : CharAt(s, q) \in {"end", Zero} THEN Fails
        ELSE IF scaled /\ ~InTable(SubSeq(s, power, exponent - 1)) THEN Got(Num(Unknown), exponent)
        ELSE Got(Num(SubSeq(s, p, exponent - 1)), exponent)
  BY DEF ParseNumber, start, integer, fraction, scaled, power, exponent
<1>9. ParseNumber(s, p) = Fails \/ \E v : \E n \in p .. N : ParseNumber(s, p) = Got(v, n)
  BY <1>1, <1>7, <1>8
<1>10. CASE ParseNumber(s, p) = Fails
  BY <1>10 DEF Inside, Fails
<1>11. ASSUME NEW v, NEW n \in p .. N, ParseNumber(s, p) = Got(v, n)
       PROVE  Inside(s, p, ParseNumber(s, p))
  BY <1>11 DEF Inside, Got
<1>12. QED BY <1>9, <1>10, <1>11

Parsers == {"value", "elements", "fields"}

\* What f reads at n and behind is within bounds, and is what g reads.
Agree(s, f, g, n) ==
    \A k \in Parsers : \A q \in n .. Len(s) + 1 :
        f[<<k, q>>] = g[<<k, q>>] /\ Bounded(s, k, q, f[<<k, q>>])

\* One more element, of a list that goes on only behind a comma.
LEMMA MoreAgrees ==
  ASSUME NEW s \in Seq(Bytes), NEW p \in Places(s), NEW f, NEW g, Agree(s, f, g, p + 1),
         NEW k \in Parsers \ {"value"}, NEW e, NEW next \in Nat, next >= p, NEW close, close \notin {"end", Comma}
  PROVE  /\ More(s, e, next, close, f[<<k, next + 1>>]) = More(s, e, next, close, g[<<k, next + 1>>])
         /\ Inside(s, p, More(s, e, next, close, f[<<k, next + 1>>]))
<1>1. next \in Nat /\ p \in Nat
  BY DEF Places
<1>2. CASE CharAt(s, next) = close
  <2>1. next + 1 \in p .. Len(s) + 1
    BY <1>1, <1>2, Readable
  <2>2. \A r : More(s, e, next, close, r) = Got(<<e>>, next + 1)
    BY <1>2 DEF More
  <2>3. Inside(s, p, Got(<<e>>, next + 1))
    BY <2>1 DEF Inside, Got
  <2>4. QED BY <2>2, <2>3, Zenon
<1>3. CASE CharAt(s, next) # close /\ CharAt(s, next) = Comma
  <2>1. next + 1 \in (p + 1) .. Len(s) + 1
    <3>1. CharAt(s, next) # "end"
      BY <1>3, Zenon DEF Comma
    <3>2. QED BY <1>1, <3>1, Readable
  <2>2. PICK r : r = f[<<k, next + 1>>]
    OBVIOUS
  <2>3. r = g[<<k, next + 1>>] /\ Bounded(s, k, next + 1, r)
    BY <2>1, <2>2, Zenon DEF Agree
  <2>4. More(s, e, next, close, r) =
            IF r.ok THEN Got(<<e>> \o r.value, r.next) ELSE Fails
    BY <1>3 DEF More
  <2>5. r.ok => r.next \in p .. Len(s) + 1
    BY <2>1, <2>3 DEF Bounded, Inside, Places
  <2>6. Inside(s, p, More(s, e, next, close, r))
    BY <2>4, <2>5 DEF Inside, Got, Fails
  <2>7. QED BY <2>2, <2>3, <2>6
<1>4. CASE CharAt(s, next) # close /\ CharAt(s, next) # Comma
  <2>1. \A r : More(s, e, next, close, r) = Fails
    BY <1>4 DEF More
  <2>2. Inside(s, p, Fails)
    BY DEF Inside, Fails
  <2>3. QED BY <2>1, <2>2, Zenon
<1>5. QED BY <1>2, <1>3, <1>4, Zenon

\* A value is read with what stands behind its first character.
LEMMA ValueAgrees ==
  ASSUME NEW s \in Seq(Bytes), NEW p \in Places(s), NEW f, NEW g, Agree(s, f, g, p + 1)
  PROVE  ParseValue(s, f, p) = ParseValue(s, g, p) /\ Bounded(s, "value", p, ParseValue(s, f, p))
<1>1. PICK c : c = CharAt(s, p)
  OBVIOUS
<1>2. p \in p .. Len(s) + 1 /\ (c # "end" => p + 1 \in p .. Len(s) + 1)
      /\ (c # "end" /\ CharAt(s, p + 1) # "end" => p + 2 \in p .. Len(s) + 1)
  BY <1>1, Readable DEF Places
<1>3. \A v : \A n \in p .. Len(s) + 1 : Inside(s, p, Got(v, n))
  BY DEF Inside, Got
<1>4. ASSUME NEW k \in Parsers \ {"value"}, NEW kind, c # "end"
      PROVE  /\ Wrapped(f[<<k, p + 1>>], kind) = Wrapped(g[<<k, p + 1>>], kind)
             /\ Inside(s, p, Wrapped(f[<<k, p + 1>>], kind))
  <2>1. PICK r : r = f[<<k, p + 1>>]
    OBVIOUS
  <2>2. p + 1 \in (p + 1) .. Len(s) + 1
    BY <1>1, <1>4, Readable DEF Places
  <2>3. r = g[<<k, p + 1>>] /\ Bounded(s, k, p + 1, r)
    BY <2>1, <2>2, Zenon DEF Agree
  <2>4. r.ok => r.next \in p .. Len(s) + 1
    BY <2>3 DEF Bounded, Inside, Places
  <2>5. Inside(s, p, Wrapped(r, kind))
    BY <2>4 DEF Wrapped, Inside, Got, Fails
  <2>6. QED BY <2>1, <2>3, <2>5
<1>5. CASE c = "["
  <2>1. /\ ParseValue(s, f, p) = IF CharAt(s, p + 1) = "]" THEN Got(Array(<<>>), p + 2)
                                 ELSE Wrapped(f[<<"elements", p + 1>>], "array")
        /\ ParseValue(s, g, p) = IF CharAt(s, p + 1) = "]" THEN Got(Array(<<>>), p + 2)
                                 ELSE Wrapped(g[<<"elements", p + 1>>], "array")
    BY <1>1, <1>5 DEF ParseValue, Quote, Digits
  <2>2. c # "end" /\ "elements" \in Parsers \ {"value"}
    BY <1>5 DEF Parsers
  <2>3. CASE CharAt(s, p + 1) = "]"
    <3>1. CharAt(s, p + 1) # "end"
      BY <2>3
    <3>2. Inside(s, p, ParseValue(s, f, p))
      BY <1>2, <1>3, <2>1, <2>2, <2>3, <3>1
    <3>3. QED BY <2>1, <2>3, <3>2 DEF Bounded
  <2>4. CASE CharAt(s, p + 1) # "]"
    BY <1>4, <2>1, <2>2, <2>4 DEF Bounded
  <2>5. QED BY <2>3, <2>4
<1>6. CASE c = "{"
  <2>1. /\ ParseValue(s, f, p) = IF CharAt(s, p + 1) = "}" THEN Got(Object(<<>>), p + 2)
                                 ELSE Wrapped(f[<<"fields", p + 1>>], "object")
        /\ ParseValue(s, g, p) = IF CharAt(s, p + 1) = "}" THEN Got(Object(<<>>), p + 2)
                                 ELSE Wrapped(g[<<"fields", p + 1>>], "object")
    BY <1>1, <1>6 DEF ParseValue, Quote, Digits
  <2>2. c # "end" /\ "fields" \in Parsers \ {"value"}
    BY <1>6 DEF Parsers
  <2>3. CASE CharAt(s, p + 1) = "}"
    <3>1. CharAt(s, p + 1) # "end"
      BY <2>3
    <3>2. Inside(s, p, ParseValue(s, f, p))
      BY <1>2, <1>3, <2>1, <2>2, <2>3, <3>1
    <3>3. QED BY <2>1, <2>3, <3>2 DEF Bounded
  <2>4. CASE CharAt(s, p + 1) # "}"
    BY <1>4, <2>1, <2>2, <2>4 DEF Bounded
  <2>5. QED BY <2>3, <2>4
<1>7. CASE c # "[" /\ c # "{"
  <2>1. Inside(s, p + 1, ParseText(s, p)) /\ Inside(s, p, ParseNumber(s, p))
    BY TextBounded, NumberBounded
  <2>2. Inside(s, p, ParseText(s, p))
    BY <2>1 DEF Inside, Places
  <2>3. Inside(s, p, Got(Null, p))
    BY <1>2, <1>3
  <2>4. ParseValue(s, f, p) = ParseValue(s, g, p)
    BY <1>1, <1>7 DEF ParseValue, Quote, Digits
  <2>5. \/ ParseValue(s, f, p) \in {ParseText(s, p), ParseNumber(s, p), Got(Null, p)}
        \/ /\ c \in {"n", "t", "f"}
           /\ \E v : \E n \in {p + 4, p + 5} : ParseValue(s, f, p) = Got(v, n)
    BY <1>1, <1>7 DEF ParseValue, Quote, Digits
  <2>6. CASE ParseValue(s, f, p) \in {ParseText(s, p), ParseNumber(s, p), Got(Null, p)}
    BY <2>1, <2>2, <2>3, <2>4, <2>6 DEF Bounded
  <2>7. ASSUME c \in {"n", "t", "f"}, NEW v, NEW n \in {p + 4, p + 5}, ParseValue(s, f, p) = Got(v, n)
        PROVE  Bounded(s, "value", p, ParseValue(s, f, p))
    <3>1. Got(v, n).ok = TRUE /\ Got(v, n).next = n
      BY DEF Got
    <3>2. Skipped(s, p, ParseValue(s, f, p))
      BY <1>1, <2>7, <3>1 DEF Skipped
    <3>3. QED BY <3>2 DEF Bounded
  <2>8. QED BY <2>4, <2>5, <2>6, <2>7
<1>8. QED BY <1>5, <1>6, <1>7

\* So are fields.
LEMMA FieldsAgree ==
  ASSUME NEW s \in Seq(Bytes), NEW p \in Places(s), NEW f, NEW g, Agree(s, f, g, p + 1)
  PROVE  ParseFields(s, f, p) = ParseFields(s, g, p) /\ Inside(s, p, ParseFields(s, f, p))
<1>1. PICK k : k = ParseText(s, p)
  OBVIOUS
<1>2. Inside(s, p + 1, k)
  BY <1>1, TextBounded
<1>3. PICK at : at = k.next + 1
  OBVIOUS
<1>4. PICK v : v = f[<<"value", at>>]
  OBVIOUS
<1>5. CASE k.ok /\ CharAt(s, k.next) = ":"
  <2>1. at \in (p + 1) .. Len(s) + 1
    BY <1>2, <1>3, <1>5, Readable DEF Inside, Places
  <2>2. v = g[<<"value", at>>] /\ Bounded(s, "value", at, v)
    BY <1>4, <2>1, Zenon DEF Agree, Parsers
  <2>3. CASE v.ok
    <3>1. v.next \in Nat /\ v.next >= p
      BY <2>1, <2>2, <2>3 DEF Bounded, Inside, Skipped, Places
    <3>2. PICK e, n : e = <<Content(k.value), v.value>> /\ n = v.next
      OBVIOUS
    <3>3. ParseFields(s, f, p) = More(s, e, n, "}", f[<<"fields", n + 1>>])
      BY <1>1, <1>3, <1>4, <1>5, <2>3, <3>2, Zenon DEF ParseFields
    <3>4. ParseFields(s, g, p) = More(s, e, n, "}", g[<<"fields", n + 1>>])
      BY <1>1, <1>3, <1>5, <2>2, <2>3, <3>2, Zenon DEF ParseFields
    <3>5. "fields" \in Parsers \ {"value"} /\ "}" \notin {"end", Comma}
      BY Zenon DEF Parsers, Comma
    <3>6. n \in Nat /\ n >= p
      BY <3>1, <3>2
    <3>7. /\ More(s, e, n, "}", f[<<"fields", n + 1>>]) = More(s, e, n, "}", g[<<"fields", n + 1>>])
          /\ Inside(s, p, More(s, e, n, "}", f[<<"fields", n + 1>>]))
      BY <3>5, <3>6, MoreAgrees, Zenon
    <3>8. QED BY <3>3, <3>4, <3>7, Zenon
  <2>4. CASE ~v.ok
    <3>1. ParseFields(s, f, p) = Fails /\ ParseFields(s, g, p) = Fails
      BY <1>1, <1>3, <1>4, <2>2, <2>4, Zenon DEF ParseFields
    <3>2. QED BY <3>1 DEF Inside, Fails
  <2>5. QED BY <2>3, <2>4
<1>6. CASE ~(k.ok /\ CharAt(s, k.next) = ":")
  <2>1. ParseFields(s, f, p) = Fails /\ ParseFields(s, g, p) = Fails
    BY <1>1, <1>6, Zenon DEF ParseFields
  <2>2. QED BY <2>1 DEF Inside, Fails
<1>7. QED BY <1>5, <1>6

\* Elements are read with the value at their place.
LEMMA ElementsAgree ==
  ASSUME NEW s \in Seq(Bytes), NEW p \in Places(s), NEW f, NEW g, Agree(s, f, g, p + 1),
         f[<<"value", p>>] = g[<<"value", p>>], Bounded(s, "value", p, f[<<"value", p>>])
  PROVE  ParseElements(s, f, p) = ParseElements(s, g, p) /\ Inside(s, p, ParseElements(s, f, p))
<1>1. PICK v : v = f[<<"value", p>>]
  OBVIOUS
<1>2. CASE v.ok
  <2>1. PICK e, n : e = v.value /\ n = v.next
    OBVIOUS
  <2>2. n \in Nat /\ n >= p
    BY <1>1, <1>2, <2>1 DEF Bounded, Inside, Skipped, Places
  <2>3. /\ ParseElements(s, f, p) = More(s, e, n, "]", f[<<"elements", n + 1>>])
        /\ ParseElements(s, g, p) = More(s, e, n, "]", g[<<"elements", n + 1>>])
    BY <1>1, <1>2, <2>1, Zenon DEF ParseElements
  <2>4. "elements" \in Parsers \ {"value"} /\ "]" \notin {"end", Comma}
    BY Zenon DEF Parsers, Comma
  <2>5. /\ More(s, e, n, "]", f[<<"elements", n + 1>>]) = More(s, e, n, "]", g[<<"elements", n + 1>>])
        /\ Inside(s, p, More(s, e, n, "]", f[<<"elements", n + 1>>]))
    BY <2>2, <2>4, MoreAgrees, Zenon
  <2>6. QED BY <2>3, <2>5, Zenon
<1>3. CASE ~v.ok
  <2>1. ParseElements(s, f, p) = Fails /\ ParseElements(s, g, p) = Fails
    BY <1>1, <1>3, Zenon DEF ParseElements
  <2>2. QED BY <2>1 DEF Inside, Fails
<1>4. QED BY <1>2, <1>3

\* One call of a parser, with what the calls behind it return.
Step(s, read, at) ==
    CASE at[1] = "value"    -> ParseValue(s, read, at[2])
      [] at[1] = "elements" -> ParseElements(s, read, at[2])
      [] at[1] = "fields"   -> ParseFields(s, read, at[2])

\* What is read at p hangs on what is read further behind only.
LEMMA StepAgrees ==
  ASSUME NEW s \in Seq(Bytes), NEW p \in Places(s), NEW f, NEW g, Agree(s, f, g, p + 1),
         f[<<"value", p>>] = g[<<"value", p>>], Bounded(s, "value", p, f[<<"value", p>>]), NEW k \in Parsers
  PROVE  Step(s, f, <<k, p>>) = Step(s, g, <<k, p>>) /\ Bounded(s, k, p, Step(s, f, <<k, p>>))
<1>1. /\ ParseValue(s, f, p) = ParseValue(s, g, p) /\ Bounded(s, "value", p, ParseValue(s, f, p))
      /\ ParseElements(s, f, p) = ParseElements(s, g, p) /\ Bounded(s, "elements", p, ParseElements(s, f, p))
      /\ ParseFields(s, f, p) = ParseFields(s, g, p) /\ Bounded(s, "fields", p, ParseFields(s, f, p))
  BY ValueAgrees, ElementsAgree, FieldsAgree DEF Bounded
<1>2. /\ Step(s, f, <<"value", p>>) = ParseValue(s, f, p)
      /\ Step(s, f, <<"elements", p>>) = ParseElements(s, f, p)
      /\ Step(s, f, <<"fields", p>>) = ParseFields(s, f, p)
      /\ Step(s, g, <<"value", p>>) = ParseValue(s, g, p)
      /\ Step(s, g, <<"elements", p>>) = ParseElements(s, g, p)
      /\ Step(s, g, <<"fields", p>>) = ParseFields(s, g, p)
  BY DEF Step
<1>3. k = "value" \/ k = "elements" \/ k = "fields"
  BY DEF Parsers
<1>4. QED BY <1>1, <1>2, <1>3, Zenon

\* The parser reads every place of s, and no place of it more than once.
LEMMA ReadingUnfolds ==
  ASSUME NEW s \in Seq(Bytes), NEW k \in Parsers, NEW p \in Places(s)
  PROVE  /\ Reading(s)[<<k, p>>] = Step(s, Reading(s), <<k, p>>)
         /\ Bounded(s, k, p, Reading(s)[<<k, p>>])
<1> DEFINE N == Len(s) + 1
           Solves(f, n) == f = [at \in Parsers \X (n .. N) |-> Step(s, f, at)]
           T == {n \in 1 .. N : \E f : Solves(f, n) /\ Agree(s, f, f, n)}
<1>0. N \in Nat /\ N >= 1 /\ Places(s) = 1 .. N
  BY DEF Places
<1>1. ASSUME NEW n \in 1 .. N, NEW f, \A l \in Parsers : \A q \in (n + 1) .. N : f[<<l, q>>] = Step(s, f, <<l, q>>),
             Agree(s, f, f, n + 1)
      PROVE  \E g : Solves(g, n) /\ Agree(s, g, g, n)
  <2> DEFINE v == ParseValue(s, f, n)
             h == [at \in Parsers \X (n .. N) |-> IF at = <<"value", n>> THEN v ELSE f[at]]
             g == [at \in Parsers \X (n .. N) |-> IF at[2] = n THEN Step(s, h, at) ELSE f[at]]
  <2>1. n \in Places(s) /\ n \in n .. N /\ "value" \in Parsers
    BY <1>0 DEF Parsers
  <2>2. /\ h[<<"value", n>>] = v
        /\ \A l \in Parsers : \A q \in (n + 1) .. N : h[<<l, q>>] = f[<<l, q>>]
    BY <2>1
  <2> HIDE DEF h
  <2>3. \A l \in Parsers : g[<<l, n>>] = Step(s, h, <<l, n>>)
    BY <2>1
  <2>4. \A l \in Parsers : \A q \in (n + 1) .. N : g[<<l, q>>] = f[<<l, q>>]
    BY <2>1
  <2>5. g = [at \in Parsers \X (n .. N) |-> g[at]]
    OBVIOUS
  <2> HIDE DEF g
  <2>6. Agree(s, f, h, n + 1) /\ Agree(s, h, g, n + 1) /\ Agree(s, g, g, n + 1)
    BY <1>1, <2>2, <2>4, Zenon DEF Agree
  <2>7. g[<<"value", n>>] = v /\ h[<<"value", n>>] = v /\ Bounded(s, "value", n, v)
    <3>1. ParseValue(s, f, n) = ParseValue(s, h, n) /\ Bounded(s, "value", n, ParseValue(s, f, n))
      BY <2>1, <2>6, ValueAgrees
    <3>2. Step(s, h, <<"value", n>>) = ParseValue(s, h, n)
      BY DEF Step
    <3>3. QED BY <2>1, <2>2, <2>3, <3>1, <3>2
  <2> HIDE DEF v
  <2>8. ASSUME NEW l \in Parsers
        PROVE  g[<<l, n>>] = Step(s, g, <<l, n>>) /\ Bounded(s, l, n, g[<<l, n>>])
    <3>1. Step(s, h, <<l, n>>) = Step(s, g, <<l, n>>) /\ Bounded(s, l, n, Step(s, h, <<l, n>>))
      BY <2>1, <2>6, <2>7, StepAgrees
    <3>2. QED BY <2>3, <3>1
  <2>9. ASSUME NEW l \in Parsers, NEW q \in (n + 1) .. N
        PROVE  g[<<l, q>>] = Step(s, g, <<l, q>>)
    <3>1. q \in Places(s) /\ q \in (n + 1) .. N
      BY <1>0
    <3>2. Agree(s, f, g, q + 1)
      <4>1. (q + 1) .. N \subseteq (n + 1) .. N
        OBVIOUS
      <4>2. QED BY <1>1, <2>4, <4>1, Zenon DEF Agree
    <3>3. f[<<"value", q>>] = g[<<"value", q>>] /\ Bounded(s, "value", q, f[<<"value", q>>])
      BY <1>1, <2>1, <2>4, <3>1, Zenon DEF Agree
    <3>4. Step(s, f, <<l, q>>) = Step(s, g, <<l, q>>)
      BY <3>1, <3>2, <3>3, StepAgrees
    <3>5. QED BY <1>1, <2>4, <3>4
  <2>10. \A l \in Parsers : \A q \in n .. N : g[<<l, q>>] = Step(s, g, <<l, q>>)
    <3>1. \A q \in n .. N : q = n \/ q \in (n + 1) .. N
      OBVIOUS
    <3>2. QED BY <2>8, <2>9, <3>1, Zenon
  <2>11. Solves(g, n)
    <3>1. \A at \in Parsers \X (n .. N) : g[at] = Step(s, g, at)
      BY <2>10
    <3>2. QED BY <2>5, <3>1
  <2>12. Agree(s, g, g, n)
    <3>1. \A q \in n .. N : q = n \/ q \in (n + 1) .. N
      OBVIOUS
    <3>2. QED BY <2>6, <2>8, <3>1, Zenon DEF Agree
  <2>13. QED BY <2>11, <2>12, Zenon
<1>2. N \in T
  <2>1. (N + 1) .. N = {}
    BY <1>0
  <2>2. PICK f : f = [at \in {} |-> at]
    OBVIOUS
  <2>3. Agree(s, f, f, N + 1) /\ \A l \in Parsers : \A q \in (N + 1) .. N : f[<<l, q>>] = Step(s, f, <<l, q>>)
    BY <2>1, Zenon DEF Agree
  <2>4. N \in 1 .. N
    BY <1>0
  <2> HIDE DEF N, Solves
  <2>5. \E g : Solves(g, N) /\ Agree(s, g, g, N)
    BY <1>1, <2>3, <2>4, Zenon
  <2>6. QED BY <2>4, <2>5
<1>3. ASSUME NEW n \in 1 .. N, n + 1 \in T, n + 1 <= N PROVE n \in T
  <2>1. PICK f : Solves(f, n + 1) /\ Agree(s, f, f, n + 1)
    BY <1>3
  <2>2. \A at \in Parsers \X ((n + 1) .. N) : f[at] = Step(s, f, at)
    BY <2>1, Zenon
  <2>3. \A l \in Parsers : \A q \in (n + 1) .. N : f[<<l, q>>] = Step(s, f, <<l, q>>)
    BY <2>2
  <2> HIDE DEF N, Solves
  <2>4. \E g : Solves(g, n) /\ Agree(s, g, g, n)
    BY <1>1, <2>1, <2>3, Zenon
  <2>5. QED BY <2>4
<1>4. 1 \in T
  <2> HIDE DEF T, N
  <2>1. 1 .. N \subseteq T
    BY <1>0, <1>2, <1>3, Downwards
  <2>2. QED BY <1>0, <2>1
<1> DEFINE r == Reading(s)
<1>5. Solves(r, 1)
  <2>1. \E f : Solves(f, 1)
    BY <1>4
  <2>2. QED BY <2>1, Zenon DEF Reading, Step, Parsers
<1> HIDE DEF r
<1>6. \A l \in Parsers : \A q \in 1 .. N : r[<<l, q>>] = Step(s, r, <<l, q>>)
  <2>1. \A at \in Parsers \X (1 .. N) : r[at] = Step(s, r, at)
    BY <1>5, Zenon
  <2>2. QED BY <2>1
<1> DEFINE U == {n \in 1 .. N : Agree(s, r, r, n)}
<1>7. ASSUME NEW n \in 1 .. N, Agree(s, r, r, n + 1)
      PROVE  n \in U
  <2>1. n \in Places(s) /\ "value" \in Parsers
    BY <1>0 DEF Parsers
  <2>2. r[<<"value", n>>] = ParseValue(s, r, n)
    <3>1. Step(s, r, <<"value", n>>) = ParseValue(s, r, n)
      BY DEF Step
    <3>2. QED BY <1>6, <2>1, <3>1, Zenon
  <2>3. Bounded(s, "value", n, r[<<"value", n>>])
    BY <1>7, <2>1, <2>2, ValueAgrees
  <2>4. \A l \in Parsers : Bounded(s, l, n, r[<<l, n>>])
    BY <1>6, <1>7, <2>1, <2>3, StepAgrees
  <2>5. \A q \in n .. N : q = n \/ q \in (n + 1) .. N
    OBVIOUS
  <2>6. Agree(s, r, r, n)
    BY <1>7, <2>4, <2>5, Zenon DEF Agree
  <2>7. QED BY <2>6
<1>8. N \in U
  <2>1. (N + 1) .. N = {} /\ N \in 1 .. N
    BY <1>0
  <2>2. Agree(s, r, r, N + 1)
    BY <2>1, Zenon DEF Agree
  <2>3. QED BY <1>7, <2>1, <2>2
<1>9. \A n \in 1 .. N : n + 1 \in U => n \in U
  BY <1>7
<1>10. 1 \in U
  <2> HIDE DEF U, N
  <2>1. 1 .. N \subseteq U
    BY <1>0, <1>8, <1>9, Downwards
  <2>2. QED BY <1>0, <2>1
<1>11. p \in 1 .. N
  BY <1>0
<1>12. Bounded(s, k, p, r[<<k, p>>])
  BY <1>10, <1>11, Zenon DEF Agree
<1>13. QED BY <1>6, <1>11, <1>12 DEF r

-----------------------------------------------------------------------------
(* What is written of lists, and read of them.                              *)

\* FlattenSeq puts one part behind the other.
LEMMA FlattenUnfolds ==
  ASSUME NEW ss \in Seq(Seq(Chars)), Len(ss) # 0
  PROVE  \E f : /\ FlattenSeq(ss) = f[Len(ss)]
                /\ f[1] = ss[1]
                /\ \A i \in 1 .. Len(ss) : i + 1 <= Len(ss) => f[i + 1] = f[i] \o ss[i + 1]
<1> DEFINE N == Len(ss)
           Part(f, i) == IF i = 1 THEN ss[i] ELSE f[i - 1] \o ss[i]
           Solves(f, n) == f = [i \in 1 .. n |-> Part(f, i)]
           T == {n \in 1 .. N : \E f : Solves(f, n)}
<1>0. N \in Nat /\ 1 \in 1 .. N
  OBVIOUS
<1>1. 1 \in T
  <2>1. Solves([i \in 1 .. 1 |-> ss[1]], 1)
    OBVIOUS
  <2>2. \E f : Solves(f, 1)
    BY <2>1, Zenon
  <2>3. QED BY <1>0, <2>2
<1>2. ASSUME NEW n \in 1 .. N, n \in T, n + 1 <= N PROVE n + 1 \in T
  <2>1. PICK f : Solves(f, n)
    BY <1>2
  <2> DEFINE g == [i \in 1 .. n + 1 |-> IF i = n + 1 THEN f[n] \o ss[n + 1] ELSE f[i]]
  <2>2. \A i \in 1 .. n : f[i] = Part(f, i)
    BY <2>1, Zenon
  <2>3. ASSUME NEW i \in 1 .. n + 1 PROVE g[i] = Part(g, i)
    <3>1. CASE i = n + 1
      <4>1. i # 1 /\ i - 1 = n /\ n \in 1 .. n + 1 /\ n # n + 1
        BY <1>2, <3>1
      <4>2. g[i] = f[n] \o ss[n + 1] /\ g[i - 1] = f[n]
        BY <3>1, <4>1
      <4>3. QED BY <3>1, <4>1, <4>2
    <3>2. CASE i # n + 1
      <4>1. i \in 1 .. n /\ (i # 1 => i - 1 \in 1 .. n /\ i - 1 # n + 1 /\ i - 1 \in 1 .. n + 1)
        BY <1>2, <3>2
      <4>2. g[i] = f[i] /\ (i # 1 => g[i - 1] = f[i - 1])
        BY <3>2, <4>1
      <4>3. QED BY <2>2, <4>1, <4>2
    <3>3. QED BY <3>1, <3>2
  <2>4. Solves(g, n + 1)
    BY <2>3
  <2>5. \E h : Solves(h, n + 1)
    BY <2>4, Zenon
  <2>6. n + 1 \in 1 .. N
    BY <1>2
  <2> HIDE DEF Solves
  <2>7. QED BY <2>5, <2>6
<1>3. N \in T
  <2> HIDE DEF T
  <2>1. 1 .. N \subseteq T
    BY <1>0, <1>1, <1>2, Upwards
  <2>2. QED BY <1>0, <2>1
<1> DEFINE flatten == CHOOSE f : Solves(f, N)
<1>4. Solves(flatten, N)
  BY <1>3, Zenon
<1>5. FlattenSeq(ss) = flatten[N]
  BY Zenon DEF FlattenSeq
<1> HIDE DEF flatten
<1>6. \A i \in 1 .. N : flatten[i] = Part(flatten, i)
  BY <1>4, Zenon
<1>7. flatten[1] = ss[1]
  BY <1>0, <1>6
<1>8. \A i \in 1 .. N : i + 1 <= N => flatten[i + 1] = flatten[i] \o ss[i + 1]
  <2>1. SUFFICES ASSUME NEW i \in 1 .. N, i + 1 <= N PROVE flatten[i + 1] = flatten[i] \o ss[i + 1]
    OBVIOUS
  <2>2. i + 1 \in 1 .. N /\ i + 1 # 1 /\ (i + 1) - 1 = i
    BY <2>1
  <2>3. QED BY <1>6, <2>2, Zenon
<1>9. QED BY <1>5, <1>7, <1>8, Zenon

\* at says where the parts of a list stand in s, separated by commas; it ends at e.
Lined(ss, s, at, e) ==
    /\ \A i \in 1 .. Len(ss) : at[i] \in Places(s) /\ Stands(ss[i], s, at[i])
    /\ \A i \in 1 .. Len(ss) : i + 1 <= Len(ss) =>
           CharAt(s, at[i] + Len(ss[i])) = Comma /\ at[i + 1] = at[i] + Len(ss[i]) + 1
    /\ e = at[Len(ss)] + Len(ss[Len(ss)])

\* Where Separated stands, its parts stand.
LEMMA SeparatedIsLined ==
  ASSUME NEW ss \in Seq(Seq(Chars)), Len(ss) # 0
  PROVE  /\ Separated(ss) \in Seq(Chars)
         /\ \A s \in Seq(Bytes) : \A p \in Places(s) :
                Stands(Separated(ss), s, p) =>
                    \E at : at[1] = p /\ Lined(ss, s, at, p + Len(Separated(ss)))
<1> DEFINE n     == Len(ss)
           parts == [i \in 1 .. n |-> IF i = n THEN ss[i] ELSE Append(ss[i], Comma)]
<1>0. n \in Nat /\ 1 \in 1 .. n /\ n \in 1 .. n /\ Comma \in Chars
  <2>1. Comma \in Chars
    BY MarksAreChars, Zenon DEF Marks
  <2>2. n \in Nat /\ 1 \in 1 .. n /\ n \in 1 .. n
    OBVIOUS
  <2>3. QED BY <2>1, <2>2
<1>1. /\ \A i \in 1 .. n : ss[i] \in Seq(Chars) /\ Len(ss[i]) \in Nat
      /\ parts \in Seq(Seq(Chars)) /\ Len(parts) = n /\ parts[n] = ss[n]
      /\ \A i \in 1 .. n : i # n => parts[i] = Append(ss[i], Comma)
  BY <1>0
<1>2. Separated(ss) = FlattenSeq(parts)
  <2>1. parts = [i \in DOMAIN ss |-> IF i = Len(ss) THEN ss[i] ELSE Append(ss[i], Comma)]
    OBVIOUS
  <2>2. QED BY <2>1, Zenon DEF Separated
<1> HIDE DEF parts
<1>3. PICK f : /\ FlattenSeq(parts) = f[n] /\ f[1] = parts[1]
               /\ \A i \in 1 .. n : i + 1 <= n => f[i + 1] = f[i] \o parts[i + 1]
  <2>1. Len(parts) # 0 /\ Len(parts) = n
    BY <1>1
  <2>2. \E g : /\ FlattenSeq(parts) = g[Len(parts)] /\ g[1] = parts[1]
               /\ \A i \in 1 .. Len(parts) : i + 1 <= Len(parts) => g[i + 1] = g[i] \o parts[i + 1]
    BY <1>1, <2>1, FlattenUnfolds, Zenon
  <2> HIDE DEF n
  <2>3. QED BY <2>1, <2>2, Zenon
<1>4. \A i \in 1 .. n : parts[i] \in Seq(Chars)
  BY <1>1
<1>5. \A i \in 1 .. n : f[i] \in Seq(Chars)
  <2> DEFINE T == {i \in 1 .. n : f[i] \in Seq(Chars)}
  <2>1. 1 \in T
    BY <1>0, <1>3, <1>4
  <2>2. ASSUME NEW i \in 1 .. n, i \in T, i + 1 <= n PROVE i + 1 \in T
    <3>1. i + 1 \in 1 .. n
      BY <2>2
    <3>2. f[i + 1] = f[i] \o parts[i + 1] /\ f[i] \in Seq(Chars) /\ parts[i + 1] \in Seq(Chars)
      BY <1>3, <1>4, <2>2, <3>1
    <3>3. f[i + 1] \in Seq(Chars)
      BY <3>2, ConcatProperties
    <3>4. QED BY <3>1, <3>3
  <2> HIDE DEF T
  <2>3. 1 .. n \subseteq T
    BY <1>0, <2>1, <2>2, Upwards
  <2>4. QED BY <2>3 DEF T
<1>6. Separated(ss) \in Seq(Chars)
  BY <1>0, <1>2, <1>3, <1>5
<1>7. ASSUME NEW s \in Seq(Bytes), NEW p \in Places(s), Stands(Separated(ss), s, p)
      PROVE  \E at : at[1] = p /\ Lined(ss, s, at, p + Len(Separated(ss)))
  <2> DEFINE at == [i \in 1 .. n |-> IF i = 1 THEN p ELSE p + Len(f[i - 1])]
             T == {i \in 1 .. n : Stands(f[i], s, p)}
  <2>1. \A i \in 1 .. n : Stands(f[i], s, p)
    <3>1. n \in T
      BY <1>0, <1>2, <1>3, <1>7
    <3>2. ASSUME NEW i \in 1 .. n, i + 1 \in T, i + 1 <= n PROVE i \in T
      <4>1. Stands(f[i] \o parts[i + 1], s, p)
        BY <1>3, <3>2
      <4>2. f[i] \in Seq(Chars) /\ parts[i + 1] \in Seq(Chars)
        BY <1>4, <1>5, <3>2
      <4>3. Stands(f[i], s, p)
        BY <4>1, <4>2, TwoWords
      <4>4. QED BY <4>3
    <3> HIDE DEF T
    <3>3. 1 .. n \subseteq T
      BY <1>0, <3>1, <3>2, Downwards
    <3>4. QED BY <3>3 DEF T
  <2>2. at[1] = p /\ \A i \in 1 .. n : i + 1 <= n => at[i + 1] = p + Len(f[i])
    BY <1>0
  <2> HIDE DEF at
  <2>3. p \in Nat /\ \A i \in 1 .. n : Len(f[i]) \in Nat
    BY <1>5 DEF Places
  <2>4. ASSUME NEW i \in 1 .. n
        PROVE  /\ at[i] \in Places(s) /\ Stands(parts[i], s, at[i])
               /\ p + Len(f[i]) = at[i] + Len(parts[i])
    <3>1. CASE i = 1
      BY <1>3, <2>1, <2>2, <3>1
    <3>2. CASE i # 1
      <4>1. PICK j : j \in 1 .. n /\ j + 1 = i /\ j + 1 <= n
        <5>1. i - 1 \in 1 .. n /\ (i - 1) + 1 = i /\ (i - 1) + 1 <= n
          BY <3>2
        <5>2. QED BY <5>1
      <4>2. f[i] = f[j] \o parts[i] /\ at[i] = p + Len(f[j])
        BY <1>3, <2>2, <4>1
      <4>3. f[j] \in Seq(Chars) /\ parts[i] \in Seq(Chars) /\ Stands(f[j] \o parts[i], s, p)
        BY <1>4, <1>5, <2>1, <4>1, <4>2
      <4>4. Stands(parts[i], s, p + Len(f[j])) /\ p + Len(f[j]) \in Places(s)
        BY <4>3, TwoWords
      <4>5. Len(f[i]) = Len(f[j]) + Len(parts[i])
        BY <4>2, <4>3, ConcatProperties
      <4>6. p + Len(f[i]) = p + Len(f[j]) + Len(parts[i])
        <5>1. Len(f[j]) \in Nat /\ Len(parts[i]) \in Nat
          BY <4>3, LenProperties
        <5>2. p \in Nat
          BY <2>3
        <5>3. p + (Len(f[j]) + Len(parts[i])) = p + Len(f[j]) + Len(parts[i])
          BY <5>1, <5>2, Sums, Zenon
        <5>4. QED BY <4>5, <5>3, Zenon
      <4>7. QED BY <4>2, <4>4, <4>6, Zenon
    <3>3. QED BY <3>1, <3>2
  <2>5. ASSUME NEW i \in 1 .. n
        PROVE  /\ Stands(ss[i], s, at[i])
               /\ i + 1 <= n => /\ CharAt(s, at[i] + Len(ss[i])) = Comma
                                /\ at[i + 1] = at[i] + Len(ss[i]) + 1
    <3>1. at[i] \in Places(s) /\ Stands(parts[i], s, at[i]) /\ at[i] \in Nat
          /\ ss[i] \in Seq(Chars) /\ Len(ss[i]) \in Nat
      BY <1>1, <2>4 DEF Places
    <3>2. CASE i = n
      BY <1>0, <1>1, <3>1, <3>2
    <3>3. CASE i # n
      <4>1. parts[i] = ss[i] \o <<Comma>> /\ Len(parts[i]) = Len(ss[i]) + 1 /\ <<Comma>> \in Seq(Chars)
        <5>1. parts[i] = Append(ss[i], Comma)
          BY <1>1, <3>3
        <5>2. Append(ss[i], Comma) = ss[i] \o <<Comma>> /\ Len(Append(ss[i], Comma)) = Len(ss[i]) + 1
          BY <1>0, <3>1, AppendProperties, AppendIsConcat
        <5>3. <<Comma>> \in Seq(Chars)
          BY <1>0, ShortWords
        <5>4. QED BY <5>1, <5>2, <5>3, Zenon
      <4>2. Stands(ss[i], s, at[i]) /\ Stands(<<Comma>>, s, at[i] + Len(ss[i]))
        BY <3>1, <4>1, TwoWords
      <4>3. CharAt(s, at[i] + Len(ss[i])) = Comma
        BY <3>1, <4>2, Letter
      <4>4. i + 1 <= n => at[i + 1] = at[i] + Len(ss[i]) + 1
        <5>1. at[i] + (Len(ss[i]) + 1) = at[i] + Len(ss[i]) + 1
          BY <3>1
        <5>2. p + Len(f[i]) = at[i] + Len(ss[i]) + 1
          BY <2>4, <4>1, <5>1, Zenon
        <5>3. QED BY <2>2, <5>2, Zenon
      <4>5. QED BY <4>2, <4>3, <4>4
    <3>4. QED BY <3>2, <3>3
  <2>6. p + Len(Separated(ss)) = at[n] + Len(ss[n])
    BY <1>0, <1>1, <1>2, <1>3, <2>4
  <2>7. Lined(ss, s, at, p + Len(Separated(ss)))
    BY <2>4, <2>5, <2>6, Zenon DEF Lined
  <2>8. QED BY <2>2, <2>7, Zenon
<1>8. QED BY <1>6, <1>7

\* A piece of a sequence is its first element and the rest.
LEMMA FirstAndRest ==
  ASSUME NEW E, NEW xs \in Seq(E), NEW n \in 1 .. Len(xs), NEW i \in 1 .. n
  PROVE  /\ i = n => SubSeq(xs, i, n) = <<xs[i]>>
         /\ i + 1 <= n => SubSeq(xs, i, n) = <<xs[i]>> \o SubSeq(xs, i + 1, n)
<1>1. \A a \in 1 .. n + 1 : /\ SubSeq(xs, a, n) \in Seq(E) /\ Len(SubSeq(xs, a, n)) = n - a + 1
                            /\ \A j \in 1 .. n - a + 1 : SubSeq(xs, a, n)[j] = xs[a + j - 1]
  OBVIOUS
<1>2. <<xs[i]>> \in Seq(E) /\ Len(<<xs[i]>>) = 1 /\ <<xs[i]>>[1] = xs[i]
  OBVIOUS
<1>3. CASE i = n
  <2>1. SubSeq(xs, i, n) \in Seq(E) /\ Len(SubSeq(xs, i, n)) = 1 /\ SubSeq(xs, i, n)[1] = xs[i]
    BY <1>1, <1>3
  <2>2. \A j \in 1 .. 1 : SubSeq(xs, i, n)[j] = <<xs[i]>>[j]
    BY <1>2, <2>1
  <2>3. SubSeq(xs, i, n) = <<xs[i]>>
    BY <1>2, <2>1, <2>2, SeqEqual
  <2>4. QED BY <1>3, <2>3
<1>4. CASE i # n
  <2> DEFINE left == SubSeq(xs, i, n)
             right == <<xs[i]>> \o SubSeq(xs, i + 1, n)
  <2>1. i + 1 \in 1 .. n + 1 /\ i \in 1 .. n + 1 /\ n - (i + 1) + 1 = n - i
    BY <1>4
  <2>2. /\ SubSeq(xs, i + 1, n) \in Seq(E) /\ Len(SubSeq(xs, i + 1, n)) = n - i
        /\ \A j \in 1 .. n - i : SubSeq(xs, i + 1, n)[j] = xs[(i + 1) + j - 1]
    BY <1>1, <2>1
  <2>3. left \in Seq(E) /\ Len(left) = n - i + 1 /\ \A j \in 1 .. n - i + 1 : left[j] = xs[i + j - 1]
    BY <1>1, <2>1
  <2>4. /\ right \in Seq(E) /\ Len(right) = n - i + 1
        /\ \A j \in 1 .. n - i + 1 :
               right[j] = IF j = 1 THEN xs[i] ELSE SubSeq(xs, i + 1, n)[j - 1]
    <3>1. right \in Seq(E) /\ Len(right) = 1 + (n - i)
      BY <1>2, <2>2, ConcatProperties
    <3>2. \A j \in 1 .. 1 + (n - i) :
               right[j] = IF j <= 1 THEN <<xs[i]>>[j] ELSE SubSeq(xs, i + 1, n)[j - 1]
      BY <1>2, <2>2, ConcatProperties
    <3>3. 1 + (n - i) = n - i + 1
      OBVIOUS
    <3>4. PICK r, u : r = right /\ u = SubSeq(xs, i + 1, n)
      OBVIOUS
    <3>5. \A j \in 1 .. n - i + 1 : r[j] = IF j <= 1 THEN <<xs[i]>>[j] ELSE u[j - 1]
      BY <3>2, <3>3, <3>4, Zenon
    <3>6. \A j \in 1 .. n - i + 1 : r[j] = IF j = 1 THEN xs[i] ELSE u[j - 1]
      BY <3>5
    <3>7. QED BY <3>1, <3>3, <3>4, <3>6, Zenon
  <2>5. \A j \in 1 .. n - i + 1 : right[j] = xs[i + j - 1]
    <3>1. SUFFICES ASSUME NEW j \in 1 .. n - i + 1 PROVE right[j] = xs[i + j - 1]
      OBVIOUS
    <3>2. CASE j = 1
      BY <2>4, <3>2
    <3>3. CASE j # 1
      <4>1. j - 1 \in 1 .. n - i /\ (i + 1) + (j - 1) - 1 = i + j - 1
        BY <3>3
      <4>2. QED BY <2>2, <2>4, <3>3, <4>1
    <3>4. QED BY <3>2, <3>3
  <2> HIDE DEF left, right
  <2>6. left = right
    BY <2>3, <2>4, <2>5, SeqEqual
  <2>7. QED BY <1>4, <2>6 DEF left, right
<1>5. QED BY <1>3, <1>4

\* What follows a part of a list.
LEMMA LinedEnds ==
  ASSUME NEW s \in Seq(Bytes), NEW ss \in Seq(Seq(Chars)), NEW at, NEW e, Lined(ss, s, at, e),
         NEW close, CharAt(s, e) = close, NEW i \in 1 .. Len(ss)
  PROVE  CharAt(s, at[i] + Len(ss[i])) \in {Comma, close}
<1>1. PICK n : n = Len(ss)
  OBVIOUS
<1>2. n \in Nat /\ i \in 1 .. n
  BY <1>1, LenProperties, Zenon
<1>3. i = n \/ i + 1 <= n
  BY <1>2
<1>4. QED BY <1>1, <1>2, <1>3, Zenon DEF Lined

\* Every part of a list is read as an element of xs, if it is one of the list.
ReadsEach(s, ss, at, xs, read, k, close) ==
    \A i \in 1 .. Len(ss) :
        CharAt(s, at[i] + Len(ss[i])) \in {Comma, close} =>
            read[<<k, at[i]>>] = More(s, xs[i], at[i] + Len(ss[i]), close,
                                     read[<<k, at[i] + Len(ss[i]) + 1>>])

\* Then the list is read.
LEMMA ListIsRead ==
  ASSUME NEW s \in Seq(Bytes), NEW ss \in Seq(Seq(Chars)), Len(ss) # 0,
         NEW at, NEW e, Lined(ss, s, at, e),
         NEW E, NEW xs \in Seq(E), Len(xs) = Len(ss),
         NEW read, NEW k, NEW close, close # Comma, CharAt(s, e) = close,
         ReadsEach(s, ss, at, xs, read, k, close)
  PROVE  read[<<k, at[1]>>] = Got(xs, e + 1)
<1>1. PICK n : n = Len(xs) /\ n = Len(ss) /\ n \in Nat /\ n >= 1
  <2>1. Len(ss) \in Nat
    BY LenProperties, Zenon
  <2>2. PICK n : n = Len(ss)
    OBVIOUS
  <2>3. n \in Nat /\ n # 0
    BY <2>1, <2>2, Zenon
  <2>4. n >= 1
    BY <2>3
  <2>5. n = Len(xs)
    BY <2>2, Zenon
  <2>6. QED BY <2>2, <2>3, <2>4, <2>5, Zenon
<1> DEFINE T == {i \in 1 .. n : read[<<k, at[i]>>] = Got(SubSeq(xs, i, n), e + 1)}
<1>2. n \in T
  <2>1. n \in 1 .. n /\ n \in 1 .. Len(xs)
    BY <1>1
  <2>2. e = at[n] + Len(ss[n])
    BY <1>1, Zenon DEF Lined
  <2>3. read[<<k, at[n]>>] = More(s, xs[n], e, close, read[<<k, e + 1>>])
    BY <1>1, <2>1, <2>2, Zenon DEF ReadsEach
  <2>4. read[<<k, at[n]>>] = Got(<<xs[n]>>, e + 1)
    BY <2>3 DEF More
  <2>5. SubSeq(xs, n, n) = <<xs[n]>>
    BY <2>1, FirstAndRest
  <2>6. QED BY <2>1, <2>4, <2>5
<1>3. ASSUME NEW i \in 1 .. n, i + 1 \in T, i + 1 <= n PROVE i \in T
  <2>1. PICK x : x = at[i] + Len(ss[i])
    OBVIOUS
  <2>2. CharAt(s, x) = Comma /\ at[i + 1] = x + 1
    BY <1>1, <1>3, <2>1, Zenon DEF Lined
  <2>3. read[<<k, at[i]>>] = More(s, xs[i], x, close, read[<<k, at[i + 1]>>])
    BY <1>1, <1>3, <2>1, <2>2, Zenon DEF ReadsEach
  <2>4. read[<<k, at[i + 1]>>] = Got(SubSeq(xs, i + 1, n), e + 1)
    BY <1>3
  <2>5. PICK r, rest : r = read[<<k, at[i + 1]>>] /\ rest = SubSeq(xs, i + 1, n)
    OBVIOUS
  <2>6. r.ok /\ r.value = rest /\ r.next = e + 1
    <3>1. r = Got(rest, e + 1)
      BY <2>4, <2>5, Zenon
    <3>2. PICK f : f = e + 1
      OBVIOUS
    <3>3. r = Got(rest, f)
      BY <3>1, <3>2, Zenon
    <3>4. r.ok /\ r.value = rest /\ r.next = f
      BY <3>3 DEF Got
    <3>5. QED BY <3>2, <3>4, Zenon
  <2>7. More(s, xs[i], x, close, r) = Got(<<xs[i]>> \o rest, e + 1)
    BY <2>2, <2>6 DEF More
  <2>8. SubSeq(xs, i, n) = <<xs[i]>> \o rest
    <3>1. n \in 1 .. Len(xs)
      BY <1>1
    <3>2. SubSeq(xs, i, n) = <<xs[i]>> \o SubSeq(xs, i + 1, n)
      BY <1>3, <3>1, FirstAndRest, Zenon
    <3>3. QED BY <2>5, <3>2, Zenon
  <2>9. QED BY <2>3, <2>5, <2>7, <2>8, Zenon
<1>4. 1 \in T
  <2> HIDE DEF T
  <2>1. 1 .. n \subseteq T
    BY <1>1, <1>2, <1>3, Downwards
  <2>2. QED BY <1>1, <2>1
<1>5. SubSeq(xs, 1, n) = xs
  BY <1>1
<1>6. QED BY <1>4, <1>5

-----------------------------------------------------------------------------
(* What is dumped is read back.                                             *)

\* The word w is read as x wherever it stands, whatever stands around it; only a number
\* is read on, unless something ends it.
ReadBack(x, w) ==
    /\ w \in Seq(Chars)
    /\ \A s \in Seq(Bytes) : \A p \in Places(s) :
           Stands(w, s, p) /\ (Kind(x) = "num" => CharAt(s, p + Len(w)) \in Ends) =>
               Reading(s)[<<"value", p>>] = Got(x, p + Len(w)) /\ CharAt(s, p) \notin {"]", "}"}

\* The parsers at a place, as they call each other.
LEMMA ParsersUnfold ==
  ASSUME NEW s \in Seq(Bytes), NEW p \in Places(s)
  PROVE  /\ Reading(s)[<<"value", p>>] = ParseValue(s, Reading(s), p)
         /\ Reading(s)[<<"elements", p>>] = ParseElements(s, Reading(s), p)
         /\ Reading(s)[<<"fields", p>>] = ParseFields(s, Reading(s), p)
<1>1. "value" \in Parsers /\ "elements" \in Parsers /\ "fields" \in Parsers
  BY DEF Parsers
<1>2. \A k \in Parsers : Reading(s)[<<k, p>>] = Step(s, Reading(s), <<k, p>>)
  BY ReadingUnfolds
<1>3. PICK r : r = Reading(s)
  OBVIOUS
<1>4. /\ Step(s, r, <<"value", p>>) = ParseValue(s, r, p)
      /\ Step(s, r, <<"elements", p>>) = ParseElements(s, r, p)
      /\ Step(s, r, <<"fields", p>>) = ParseFields(s, r, p)
  BY DEF Step
<1>5. QED BY <1>1, <1>2, <1>3, <1>4, Zenon

\* What is written of an integer, a decimal or a boolean.
Atoms == {Null} \cup {Text(c) : c \in Texts} \cup {Num(c) : c \in Numbers \cup {True, False}}

\* Numbers are words.
LEMMA NumberIsChars ==
  ASSUME NEW c \in Numbers
  PROVE  c \in Seq(Chars)
<1>1. CASE c \in Whole
  BY <1>1, WholeIsChars
<1>2. CASE c \in Decimal
  BY <1>2, DecimalIsChars
<1>3. CASE c \in Scientific
  <2>1. PICK m \in Decimal, x \in Powers, d \in SomeDigits : c = m \o x \o d
    BY <1>3 DEF Scientific
  <2>2. m \in Seq(Chars) /\ d \in Seq(Chars)
    BY DecimalIsChars, DigitsAreChars
  <2>3. "e" \in Chars /\ "+" \in Chars /\ "-" \in Chars
    BY MarksAreChars, Zenon DEF Marks, Spelling
  <2>4. x \in Seq(Chars)
    BY <2>3, ShortWords DEF Powers
  <2>5. QED BY <2>1, <2>2, <2>4, ThreeLengths
<1>4. QED BY <1>1, <1>2, <1>3 DEF Numbers

\* The literals are words, and their first letters tell them apart.
LEMMA LiteralIsSpelled ==
  ASSUME NEW x \in {Null, Num(True), Num(False)}
  PROVE  /\ DumpAtom(x) \in Seq(Chars) /\ Len(DumpAtom(x)) >= 1
         /\ \A s, p : CharAt(s, p) = DumpAtom(x)[1] =>
                ParseValue(s, Reading(s), p) = Got(x, p + Len(DumpAtom(x)))
         /\ DumpAtom(x)[1] \notin {"]", "}"}
<1>1. /\ "n" \in Chars /\ "u" \in Chars /\ "l" \in Chars /\ "t" \in Chars /\ "r" \in Chars
      /\ "e" \in Chars /\ "f" \in Chars /\ "a" \in Chars /\ "s" \in Chars
  BY MarksAreChars, Zenon DEF Spelling
<1>2. CASE x = Null
  <2>1. DumpAtom(x) = <<"n", "u", "l", "l">>
    BY <1>2 DEF DumpAtom, Null, Kind, Content
  <2>2. DumpAtom(x) \in Seq(Chars) /\ Len(DumpAtom(x)) = 4 /\ DumpAtom(x)[1] = "n"
    BY <1>1, <2>1
  <2>3. \A s, p : CharAt(s, p) = "n" => ParseValue(s, Reading(s), p) = Got(Null, p + 4)
    BY DEF ParseValue, Quote, Digits
  <2>4. QED BY <1>2, <2>2, <2>3
<1>3. CASE x = Num(True)
  <2>1. DumpAtom(x) = <<"t", "r", "u", "e">>
    BY <1>3 DEF DumpAtom, Num, True, Kind, Content
  <2>2. DumpAtom(x) \in Seq(Chars) /\ Len(DumpAtom(x)) = 4 /\ DumpAtom(x)[1] = "t"
    BY <1>1, <2>1
  <2>3. \A s, p : CharAt(s, p) = "t" => ParseValue(s, Reading(s), p) = Got(Num(True), p + 4)
    BY DEF ParseValue, Quote, Digits
  <2>4. QED BY <1>3, <2>2, <2>3
<1>4. CASE x = Num(False)
  <2>1. DumpAtom(x) = <<"f", "a", "l", "s", "e">>
    BY <1>4 DEF DumpAtom, Num, False, Kind, Content
  <2>2. DumpAtom(x) \in Seq(Chars) /\ Len(DumpAtom(x)) = 5 /\ DumpAtom(x)[1] = "f"
    BY <1>1, <2>1
  <2>3. \A s, p : CharAt(s, p) = "f" => ParseValue(s, Reading(s), p) = Got(Num(False), p + 5)
    BY DEF ParseValue, Quote, Digits
  <2>4. QED BY <1>4, <2>2, <2>3
<1>5. QED BY <1>2, <1>3, <1>4

\* They are read as they were.
LEMMA LiteralReadsBack ==
  ASSUME NEW x \in {Null, Num(True), Num(False)}
  PROVE  ReadBack(x, DumpAtom(x))
<1>1. PICK w : w = DumpAtom(x)
  OBVIOUS
<1>2. /\ w \in Seq(Chars) /\ Len(w) >= 1 /\ w[1] \notin {"]", "}"} /\ Len(w) \in Nat
      /\ \A s, p : CharAt(s, p) = w[1] => ParseValue(s, Reading(s), p) = Got(x, p + Len(w))
  BY <1>1, LiteralIsSpelled, LenProperties, Zenon
<1>3. ASSUME NEW s \in Seq(Bytes), NEW p \in Places(s), Stands(w, s, p)
      PROVE  Reading(s)[<<"value", p>>] = Got(x, p + Len(w)) /\ CharAt(s, p) \notin {"]", "}"}
  <2>1. CharAt(s, p) = w[1]
    <3>1. 1 \in 1 .. Len(w) /\ p + 1 - 1 = p
      <4>1. PICK n : n = Len(w)
        OBVIOUS
      <4>2. n \in Nat /\ n >= 1
        BY <1>2, <4>1, Zenon
      <4>3. 1 \in 1 .. n /\ p + 1 - 1 = p
        BY <4>2 DEF Places
      <4>4. QED BY <4>1, <4>3, Zenon
    <3>2. CharAt(s, p + 1 - 1) = w[1]
      BY <1>3, <3>1, Zenon DEF Stands
    <3>3. QED BY <3>1, <3>2
  <2>2. ParseValue(s, Reading(s), p) = Got(x, p + Len(w))
    BY <1>2, <2>1, Zenon
  <2>3. QED BY <1>2, <2>1, <2>2, ParsersUnfold, Zenon
<1>4. QED BY <1>1, <1>2, <1>3, Zenon DEF ReadBack

\* The texts of a message are read as they were.
LEMMA TextReadsBack ==
  ASSUME NEW c \in Texts
  PROVE  ReadBack(Text(c), DumpAtom(Text(c)))
<1>1. DumpAtom(Text(c)) = Quoted(c)
  BY DEF DumpAtom, Text, Kind, Content
<1>2. c \in Seq(Chars) /\ Quote \in Chars /\ Len(c) \in Nat
  <2>1. Quote \in Chars
    BY MarksAreChars, Zenon DEF Marks
  <2>2. c \in Seq(Chars \ {Quote})
    BY DEF Texts
  <2>3. QED BY <2>1, <2>2
<1>3. <<Quote>> \in Seq(Chars) /\ Len(<<Quote>>) = 1
  BY <1>2, ShortWords
<1>4. Quoted(c) \in Seq(Chars) /\ Len(Quoted(c)) = 1 + Len(c) + 1
  <2>1. Quoted(c) = <<Quote>> \o c \o <<Quote>>
    BY Zenon DEF Quoted
  <2>2. QED BY <1>2, <1>3, <2>1, ThreeLengths
<1>5. ASSUME NEW s \in Seq(Bytes), NEW p \in Places(s), Stands(Quoted(c), s, p)
      PROVE  Reading(s)[<<"value", p>>] = Got(Text(c), p + Len(Quoted(c))) /\ CharAt(s, p) \notin {"]", "}"}
  <2>1. CharAt(s, p) = Quote
    <3>1. Stands(<<Quote>> \o c \o <<Quote>>, s, p)
      BY <1>5, Zenon DEF Quoted
    <3>2. Stands(<<Quote>>, s, p)
      BY <1>2, <1>3, <3>1, ThreeWords, Zenon
    <3>3. QED BY <3>2, Letter DEF Places
  <2>2. ParseValue(s, Reading(s), p) = ParseText(s, p)
    BY <2>1 DEF ParseValue, Quote, Digits
  <2>3. ParseText(s, p) = Got(Text(c), p + Len(c) + 2)
    BY <1>5, TextIsRead
  <2>4. p + Len(c) + 2 = p + Len(Quoted(c))
    BY <1>2, <1>4 DEF Places
  <2>5. CharAt(s, p) \notin {"]", "}"}
    BY <2>1 DEF Quote
  <2>6. QED BY <2>2, <2>3, <2>4, <2>5, ParsersUnfold, Zenon
<1>6. QED BY <1>1, <1>4, <1>5, Zenon DEF ReadBack

\* Numbers are read as they were, where the message goes on behind them.
LEMMA NumReadsBack ==
  ASSUME NEW c \in Numbers
  PROVE  ReadBack(Num(c), DumpAtom(Num(c)))
<1>1. DumpAtom(Num(c)) = c /\ Kind(Num(c)) = "num"
  BY DEF DumpAtom, Num, Kind, Content
<1>2. c \in Seq(Chars)
  BY NumberIsChars
<1>3. ASSUME NEW s \in Seq(Bytes), NEW p \in Places(s), Stands(c, s, p), CharAt(s, p + Len(c)) \in Ends
      PROVE  Reading(s)[<<"value", p>>] = Got(Num(c), p + Len(c)) /\ CharAt(s, p) \notin {"]", "}"}
  <2>1. ParseNumber(s, p) = Got(Num(c), p + Len(c)) /\ CharAt(s, p) \in Digits \cup {"-"}
    BY <1>3, NumberIsRead
  <2>2. ParseValue(s, Reading(s), p) = ParseNumber(s, p)
    BY <2>1 DEF ParseValue, Quote, Digits
  <2>3. CharAt(s, p) \notin {"]", "}"}
    BY <2>1 DEF Digits
  <2>4. QED BY <2>1, <2>2, <2>3, ParsersUnfold, Zenon
<1>4. QED BY <1>1, <1>2, <1>3, Zenon DEF ReadBack

\* The atoms together.
LEMMA AtomReadsBack ==
  ASSUME NEW x \in Atoms
  PROVE  ReadBack(x, DumpAtom(x))
<1>1. CASE x \in {Null, Num(True), Num(False)}
  BY <1>1, LiteralReadsBack
<1>2. ASSUME NEW c \in Texts, x = Text(c) PROVE ReadBack(x, DumpAtom(x))
  BY <1>2, TextReadsBack
<1>3. ASSUME NEW c \in Numbers, x = Num(c) PROVE ReadBack(x, DumpAtom(x))
  BY <1>3, NumReadsBack
<1>4. QED BY <1>1, <1>2, <1>3 DEF Atoms

\* A list between brackets, or an empty pair of them.
Between(a, l, z) == <<a>> \o l \o <<z>>

\* A word in brackets is a word.
LEMMA BetweenIsChars ==
  ASSUME NEW a \in Chars, NEW z \in Chars, NEW l \in Seq(Chars)
  PROVE  Between(a, l, z) \in Seq(Chars)
<1>1. <<a>> \in Seq(Chars) /\ <<z>> \in Seq(Chars)
  BY ShortWords
<1>2. QED BY <1>1, ThreeLengths, Zenon DEF Between

\* How long a word in brackets is.
LEMMA BetweenLength ==
  ASSUME NEW p \in Nat, NEW a \in Chars, NEW z \in Chars, NEW l \in Seq(Chars)
  PROVE  p + Len(Between(a, l, z)) = p + 1 + Len(l) + 1
<1>1. <<a>> \in Seq(Chars) /\ <<z>> \in Seq(Chars) /\ Len(<<a>>) = 1 /\ Len(<<z>>) = 1
  BY ShortWords
<1>2. Len(<<a>> \o l \o <<z>>) = Len(<<a>>) + Len(l) + Len(<<z>>)
  BY <1>1, ThreeLengths, Zenon
<1>3. Len(<<a>> \o l \o <<z>>) = 1 + Len(l) + 1
  BY <1>1, <1>2, Zenon
<1>4. PICK n : n = Len(l)
  OBVIOUS
<1>5. n \in Nat
  BY <1>4, LenProperties
<1>6. p + (1 + n + 1) = p + 1 + n + 1
  BY <1>5
<1>7. QED BY <1>3, <1>4, <1>6, Zenon DEF Between

\* Where a word in brackets stands, so do the brackets and the word.
LEMMA BracketsStand ==
  ASSUME NEW s \in Seq(Bytes), NEW p \in Places(s), NEW a \in Chars, NEW z \in Chars,
         NEW l \in Seq(Chars), Stands(Between(a, l, z), s, p)
  PROVE  /\ CharAt(s, p) = a /\ CharAt(s, p + 1 + Len(l)) = z
         /\ p + 1 \in Places(s) /\ Stands(l, s, p + 1)
<1>1. <<a>> \in Seq(Chars) /\ <<z>> \in Seq(Chars) /\ Len(<<a>>) = 1 /\ Len(<<z>>) = 1
  BY ShortWords
<1>2. Stands(<<a>> \o l \o <<z>>, s, p)
  BY Zenon DEF Between
<1>3. /\ Stands(<<a>>, s, p) /\ Stands(l, s, p + Len(<<a>>)) /\ Stands(<<z>>, s, p + Len(<<a>>) + Len(l))
      /\ p + Len(<<a>>) \in Places(s) /\ p + Len(<<a>>) + Len(l) \in Places(s)
  BY <1>1, <1>2, ThreeWords, Zenon
<1>4. /\ Stands(<<a>>, s, p) /\ Stands(l, s, p + 1) /\ Stands(<<z>>, s, p + 1 + Len(l))
      /\ p + 1 \in Places(s) /\ p + 1 + Len(l) \in Places(s)
  BY <1>1, <1>3, Zenon
<1>5. p \in Nat /\ p + 1 + Len(l) \in Nat
  BY <1>4 DEF Places
<1>6. CharAt(s, p) = a /\ CharAt(s, p + 1 + Len(l)) = z
  BY <1>4, <1>5, Letter, Zenon
<1>7. QED BY <1>4, <1>6, Zenon

\* The part of it that is about the word.
LEMMA InBrackets ==
  ASSUME NEW s \in Seq(Bytes), NEW p \in Places(s), NEW a \in Chars, NEW z \in Chars,
         NEW l \in Seq(Chars), Stands(Between(a, l, z), s, p)
  PROVE  p + 1 \in Places(s) /\ Stands(l, s, p + 1)
  BY BracketsStand

\* Nothing is separated by nothing.
LEMMA NothingSeparated ==
  ASSUME NEW ss, ss = <<>>
  PROVE  Separated(ss) = <<>>
<1>1. [i \in DOMAIN ss |-> IF i = Len(ss) THEN ss[i] ELSE Append(ss[i], Comma)] = <<>>
  OBVIOUS
<1>2. Len(<<>>) = 0
  OBVIOUS
<1>3. FlattenSeq(<<>>) = <<>>
  BY <1>2, Zenon DEF FlattenSeq
<1>4. QED BY <1>1, <1>3, Zenon DEF Separated

\* A function that writes the values of S so that they are read back.
Faithful(S, d) == \A x \in S : ReadBack(x, d[x])

\* What d writes of a list of values.
Written(vs, d) == [i \in DOMAIN vs |-> d[vs[i]]]

\* The elements of an array are read back, so it is.
LEMMA ArrayReadsBack ==
  ASSUME NEW S, NEW d, Faithful(S, d), NEW vs \in Seq(S)
  PROVE  ReadBack(Array(vs), Between("[", Separated(Written(vs, d)), "]"))
<1>0. PICK ss : ss = Written(vs, d)
  OBVIOUS
<1>1. /\ ss \in Seq(Seq(Chars)) /\ Len(ss) = Len(vs) /\ \A i \in 1 .. Len(ss) : vs[i] \in S /\ ss[i] = d[vs[i]]
      /\ \A i \in 1 .. Len(ss) : ReadBack(vs[i], ss[i])
  <2>1. \A i \in 1 .. Len(vs) : vs[i] \in S /\ d[vs[i]] \in Seq(Chars) /\ ReadBack(vs[i], d[vs[i]])
    BY ElementOfSeq, Zenon DEF Faithful, ReadBack
  <2>2. DOMAIN vs = 1 .. Len(vs) /\ Len(vs) \in Nat
    BY LenProperties, Zenon
  <2>3. ss = [i \in 1 .. Len(vs) |-> d[vs[i]]]
    BY <1>0, <2>2, Zenon DEF Written
  <2>4. ss \in Seq(Seq(Chars)) /\ Len(ss) = Len(vs) /\ \A i \in 1 .. Len(vs) : ss[i] = d[vs[i]]
    BY <2>1, <2>2, <2>3
  <2>5. QED BY <2>1, <2>4, Zenon
<1>2. PICK a \in Chars, z \in Chars : a = "[" /\ z = "]"
  BY MarksAreChars, Zenon DEF Marks
<1>3. PICK l : l = Separated(ss)
  OBVIOUS
<1>4. Kind(Array(vs)) # "num"
  BY DEF Kind, Array
<1>5. CASE Len(ss) = 0
  <2>1. ss = <<>> /\ vs = <<>>
    BY <1>1, <1>5, EmptySeq
  <2>2. l = <<>> /\ l \in Seq(Chars) /\ Len(l) = 0
    BY <1>3, <2>1, NothingSeparated, ShortWords
  <2>3. ASSUME NEW s \in Seq(Bytes), NEW p \in Places(s), Stands(Between(a, l, z), s, p)
        PROVE  /\ Reading(s)[<<"value", p>>] = Got(Array(vs), p + Len(Between(a, l, z)))
               /\ CharAt(s, p) \notin {"]", "}"}
    <3>1. /\ CharAt(s, p) = "[" /\ CharAt(s, p + 1 + Len(l)) = "]"
          /\ p + Len(Between(a, l, z)) = p + 1 + Len(l) + 1
      <4>1. l \in Seq(Chars)
        BY <2>2
      <4>2. CharAt(s, p) = a /\ CharAt(s, p + 1 + Len(l)) = z
        BY <2>3, <4>1, BracketsStand
      <4>3. p + Len(Between(a, l, z)) = p + 1 + Len(l) + 1
        <5>1. p \in Nat
          BY DEF Places
        <5>2. QED BY <4>1, <5>1, BetweenLength, Zenon
      <4>4. QED BY <1>2, <4>2, <4>3, Zenon
    <3>2. p + 1 + 0 = p + 1 /\ p + 1 + 0 + 1 = p + 2
      BY DEF Places
    <3>3. CharAt(s, p + 1) = "]" /\ p + Len(Between(a, l, z)) = p + 2
      BY <2>2, <3>1, <3>2, Zenon
    <3>4. ParseValue(s, Reading(s), p) = Got(Array(<<>>), p + 2)
      BY <3>1, <3>3 DEF ParseValue, Quote, Digits
    <3>5. CharAt(s, p) \notin {"]", "}"}
      BY <3>1
    <3>6. QED BY <2>1, <3>3, <3>4, <3>5, ParsersUnfold, Zenon
  <2>4. Between(a, l, z) \in Seq(Chars)
    BY <2>2, BetweenIsChars, Zenon
  <2>5. QED BY <1>0, <1>2, <1>3, <1>4, <2>3, <2>4, Zenon DEF ReadBack
<1>6. CASE Len(ss) # 0
  <2>1. l \in Seq(Chars)
    BY <1>1, <1>3, <1>6, SeparatedIsLined
  <2>2. ASSUME NEW s \in Seq(Bytes), NEW p \in Places(s), Stands(Between(a, l, z), s, p)
        PROVE  /\ Reading(s)[<<"value", p>>] = Got(Array(vs), p + Len(Between(a, l, z)))
               /\ CharAt(s, p) \notin {"]", "}"}
    <3>1. PICK e : e = p + 1 + Len(l)
      OBVIOUS
    <3>2. /\ CharAt(s, p) = "[" /\ p + 1 \in Places(s) /\ Stands(l, s, p + 1)
          /\ CharAt(s, e) = "]" /\ p + Len(Between(a, l, z)) = e + 1
      <4>1. CharAt(s, p) = a /\ CharAt(s, p + 1 + Len(l)) = z
        BY <2>1, <2>2, BracketsStand
      <4>2. /\ p + 1 \in Places(s) /\ Stands(l, s, p + 1)
            /\ p + Len(Between(a, l, z)) = p + 1 + Len(l) + 1
        <5>1. p \in Nat
          BY DEF Places
        <5>2. p + 1 \in Places(s) /\ Stands(l, s, p + 1)
          BY <2>1, <2>2, InBrackets, Zenon
        <5>3. p + Len(Between(a, l, z)) = p + 1 + Len(l) + 1
          BY <2>1, <5>1, BetweenLength, Zenon
        <5>4. QED BY <5>2, <5>3
      <4>3. QED BY <1>2, <3>1, <4>1, <4>2, Zenon
    <3>3. PICK at : at[1] = p + 1 /\ Lined(ss, s, at, e)
      BY <1>1, <1>3, <1>6, <3>1, <3>2, SeparatedIsLined, Zenon
    <3>4. \A i \in 1 .. Len(ss) : Reading(s)[<<"value", at[i]>>] = Got(vs[i], at[i] + Len(ss[i]))
                                  /\ CharAt(s, at[i]) \notin {"]", "}"}
      <4>1. SUFFICES ASSUME NEW i \in 1 .. Len(ss)
                     PROVE  Reading(s)[<<"value", at[i]>>] = Got(vs[i], at[i] + Len(ss[i]))
                            /\ CharAt(s, at[i]) \notin {"]", "}"}
        OBVIOUS
      <4>2. CharAt(s, at[i] + Len(ss[i])) \in {Comma, "]"}
        BY <1>1, <3>2, <3>3, LinedEnds
      <4>3. CharAt(s, at[i] + Len(ss[i])) \in Ends
        BY <4>2, Zenon DEF Ends
      <4>4. at[i] \in Places(s) /\ Stands(ss[i], s, at[i])
        BY <3>3, Zenon DEF Lined
      <4>5. QED BY <1>1, <4>3, <4>4, Zenon DEF ReadBack
    <3>5. ReadsEach(s, ss, at, vs, Reading(s), "elements", "]")
      <4>1. SUFFICES ASSUME NEW i \in 1 .. Len(ss), NEW x, x = at[i] + Len(ss[i])
                     PROVE  Reading(s)[<<"elements", at[i]>>] =
                                More(s, vs[i], x, "]", Reading(s)[<<"elements", x + 1>>])
        BY Zenon DEF ReadsEach
      <4>2. at[i] \in Places(s)
        BY <3>3, Zenon DEF Lined
      <4>3. PICK r : r = Reading(s)
        OBVIOUS
      <4>4. PICK y : y = at[i]
        OBVIOUS
      <4>5. PICK v : v = r[<<"value", y>>]
        OBVIOUS
      <4>6. v = Got(vs[i], x)
        BY <3>4, <4>1, <4>3, <4>4, <4>5, Zenon
      <4>7. v.ok /\ v.value = vs[i] /\ v.next = x
        BY <4>6 DEF Got
      <4>8. ParseElements(s, r, y) = More(s, vs[i], x, "]", r[<<"elements", x + 1>>])
        BY <4>5, <4>7, Zenon DEF ParseElements
      <4>9. QED BY <4>2, <4>3, <4>4, <4>8, ParsersUnfold, Zenon
    <3>6. Reading(s)[<<"elements", p + 1>>] = Got(vs, e + 1)
      <4>1. PICK r : r = Reading(s)
        OBVIOUS
      <4>2. "]" # Comma
        BY Zenon DEF Comma
      <4>3. r[<<"elements", at[1]>>] = Got(vs, e + 1)
        BY <1>1, <1>6, <3>2, <3>3, <3>5, <4>1, <4>2, ListIsRead
      <4>4. QED BY <3>3, <4>1, <4>3, Zenon
    <3>7. CharAt(s, p + 1) # "]"
      <4>1. 1 \in 1 .. Len(ss)
        BY <1>1, <1>6, LenProperties
      <4>2. CharAt(s, p + 1) \notin {"]", "}"}
        BY <3>3, <3>4, <4>1, Zenon
      <4>3. QED BY <4>2
    <3>8. ParseValue(s, Reading(s), p) = Wrapped(Got(vs, e + 1), "array")
      <4>1. PICK r : r = Reading(s)
        OBVIOUS
      <4>2. ParseValue(s, r, p) = Wrapped(r[<<"elements", p + 1>>], "array")
        BY <3>2, <3>7 DEF ParseValue, Quote, Digits
      <4>3. QED BY <3>6, <4>1, <4>2, Zenon
    <3>9. Wrapped(Got(vs, e + 1), "array") = Got(Array(vs), e + 1)
      BY DEF Wrapped, Got, Array
    <3>10. CharAt(s, p) \notin {"]", "}"}
      BY <3>2
    <3>11. QED BY <3>2, <3>8, <3>9, <3>10, ParsersUnfold, Zenon
  <2>3. Between(a, l, z) \in Seq(Chars)
    BY <2>1, BetweenIsChars, Zenon
  <2>4. QED BY <1>0, <1>2, <1>3, <1>4, <2>2, <2>3, Zenon DEF ReadBack
<1>7. QED BY <1>0, <1>3, <1>5, <1>6, Zenon

\* A field: its name, a colon, and what is written of its value.
WrittenField(name, w) == Quoted(name) \o <<":">> \o w

\* A quoted text is a word.
LEMMA QuotedIsChars ==
  ASSUME NEW c \in Texts
  PROVE  c \in Seq(Chars) /\ Quoted(c) \in Seq(Chars) /\ Len(Quoted(c)) = Len(c) + 2
         /\ Len(c) \in Nat
<1>1. Quote \in Chars
  BY MarksAreChars, Zenon DEF Marks
<1>2. c \in Seq(Chars)
  <2>1. c \in Seq(Chars \ {Quote})
    BY DEF Texts
  <2>2. QED BY <2>1
<1>3. <<Quote>> \in Seq(Chars) /\ Len(<<Quote>>) = 1
  BY <1>1, ShortWords
<1>4. Quoted(c) \in Seq(Chars) /\ Len(Quoted(c)) = 1 + Len(c) + 1
  <2>1. Quoted(c) = <<Quote>> \o c \o <<Quote>>
    BY Zenon DEF Quoted
  <2>2. QED BY <1>2, <1>3, <2>1, ThreeLengths
<1>5. Len(c) \in Nat
  BY <1>2, LenProperties
<1>6. 1 + Len(c) + 1 = Len(c) + 2
  BY <1>5
<1>7. QED BY <1>2, <1>4, <1>5, <1>6

\* A field is a word.
LEMMA FieldIsChars ==
  ASSUME NEW c \in Texts, NEW w \in Seq(Chars)
  PROVE  WrittenField(c, w) \in Seq(Chars)
<1>1. Quoted(c) \in Seq(Chars)
  BY QuotedIsChars
<1>2. ":" \in Chars
  BY MarksAreChars, Zenon DEF Marks
<1>3. <<":">> \in Seq(Chars)
  BY <1>2, ShortWords
<1>4. QED BY <1>1, <1>3, ThreeLengths, Zenon DEF WrittenField

\* A field of an object whose value is read back is read, and the rest of the object left.
LEMMA FieldIsRead ==
  ASSUME NEW s \in Seq(Bytes), NEW p \in Places(s), NEW c \in Texts, NEW x, NEW w, ReadBack(x, w),
         Stands(WrittenField(c, w), s, p),
         CharAt(s, p + Len(WrittenField(c, w))) \in Ends
  PROVE  /\ Reading(s)[<<"fields", p>>] =
                More(s, <<c, x>>, p + Len(WrittenField(c, w)), "}",
                     Reading(s)[<<"fields", p + Len(WrittenField(c, w)) + 1>>])
         /\ CharAt(s, p) = Quote
<1>0. PICK n : n = p + Len(WrittenField(c, w)) /\ CharAt(s, n) \in Ends
  OBVIOUS
<1>1. PICK q : q = Quoted(c)
  OBVIOUS
<1>2. PICK o : o = <<":">>
  OBVIOUS
<1>3. /\ q \in Seq(Chars) /\ Len(q) = Len(c) + 2 /\ Len(c) \in Nat /\ w \in Seq(Chars)
      /\ o \in Seq(Chars) /\ Len(o) = 1
  <2>1. w \in Seq(Chars)
    BY Zenon DEF ReadBack
  <2>2. ":" \in Chars
    BY MarksAreChars, Zenon DEF Marks
  <2>3. o \in Seq(Chars) /\ Len(o) = 1
    BY <1>2, <2>2, ShortWords
  <2>4. QED BY <1>1, <2>1, <2>3, QuotedIsChars
<1>4. WrittenField(c, w) = q \o o \o w
  BY <1>1, <1>2, Zenon DEF WrittenField
<1>5. /\ Stands(q, s, p) /\ Stands(o, s, p + Len(q)) /\ Stands(w, s, p + Len(q) + Len(o))
      /\ p + Len(q) \in Places(s) /\ p + Len(q) + Len(o) \in Places(s)
  <2>1. Stands(q \o o \o w, s, p)
    BY <1>4, Zenon
  <2>2. QED BY <1>3, <2>1, ThreeWords, Zenon
<1>6. PICK m : m = p + Len(q)
  OBVIOUS
<1>7. /\ m \in Places(s) /\ m \in Nat /\ m + 1 \in Places(s) /\ m + 1 \in Nat
      /\ Stands(w, s, m + 1) /\ Stands(<<":">>, s, m)
  <2>1. m \in Places(s) /\ Stands(w, s, m + 1) /\ m + 1 \in Places(s) /\ Stands(<<":">>, s, m)
    BY <1>2, <1>3, <1>5, <1>6, Zenon
  <2>2. QED BY <2>1 DEF Places
<1>8. CharAt(s, m) = ":"
  BY <1>7, Letter
<1>9. n = (m + 1) + Len(w)
  <2>1. Len(q \o o \o w) = Len(q) + Len(o) + Len(w)
    BY <1>3, ThreeLengths, Zenon
  <2>2. n = p + (Len(q) + 1 + Len(w))
    BY <1>0, <1>3, <1>4, <2>1, Zenon
  <2>3. PICK a, b : a = Len(q) /\ b = Len(w)
    OBVIOUS
  <2>4. a \in Nat /\ b \in Nat /\ p \in Nat
    BY <1>3, <2>3, LenProperties DEF Places
  <2>5. p + (a + 1 + b) = ((p + a) + 1) + b
    BY <2>4
  <2>6. QED BY <1>6, <2>2, <2>3, <2>5, Zenon
<1>10. PICK r : r = Reading(s)
  OBVIOUS
<1>11. PICK v : v = r[<<"value", m + 1>>]
  OBVIOUS
<1>12. v = Got(x, n)
  <2>1. CharAt(s, (m + 1) + Len(w)) \in Ends
    BY <1>0, <1>9, Zenon
  <2>2. Reading(s)[<<"value", m + 1>>] = Got(x, (m + 1) + Len(w))
    BY <1>7, <2>1, Zenon DEF ReadBack
  <2>3. QED BY <1>9, <1>10, <1>11, <2>2, Zenon
<1>13. v.ok /\ v.value = x /\ v.next = n
  BY <1>12 DEF Got
<1>14. PICK k : k = ParseText(s, p)
  OBVIOUS
<1>15. k.ok /\ Content(k.value) = c /\ k.next = m
  <2>1. k = Got(Text(c), p + Len(c) + 2)
    BY <1>1, <1>5, <1>14, TextIsRead
  <2>2. k.ok /\ k.value = Text(c) /\ k.next = p + Len(c) + 2
    BY <2>1 DEF Got
  <2>3. p + Len(c) + 2 = m
    BY <1>3, <1>6 DEF Places
  <2>4. Content(Text(c)) = c
    BY DEF Content, Text
  <2>5. QED BY <2>2, <2>3, <2>4
<1>16. ParseFields(s, r, p) = More(s, <<c, x>>, n, "}", r[<<"fields", n + 1>>])
  BY <1>8, <1>11, <1>13, <1>14, <1>15, Zenon DEF ParseFields
<1>17. CharAt(s, p) = Quote
  <2>1. Stands(<<Quote>> \o c \o <<Quote>>, s, p)
    BY <1>1, <1>5, Zenon DEF Quoted
  <2>2. Quote \in Chars
    BY MarksAreChars, Zenon DEF Marks
  <2>3. <<Quote>> \in Seq(Chars) /\ c \in Seq(Chars)
    BY <2>2, ShortWords, QuotedIsChars
  <2>4. Stands(<<Quote>>, s, p)
    BY <2>1, <2>3, ThreeWords, Zenon
  <2>5. QED BY <2>4, Letter DEF Places
<1>18. QED BY <1>0, <1>10, <1>16, <1>17, ParsersUnfold, Zenon

\* What d writes of a list of fields.
WrittenFields(fs, d) == [i \in DOMAIN fs |-> WrittenField(fs[i][1], d[fs[i][2]])]

\* The values of an object are read back, so it is.
LEMMA ObjectReadsBack ==
  ASSUME NEW S, NEW d, Faithful(S, d), NEW fs \in Seq(Texts \X S)
  PROVE  ReadBack(Object(fs), Between("{", Separated(WrittenFields(fs, d)), "}"))
<1>0. PICK ss : ss = WrittenFields(fs, d)
  OBVIOUS
<1> DEFINE name(i)  == fs[i][1]
           value(i) == fs[i][2]
<1>1. /\ ss \in Seq(Seq(Chars)) /\ Len(ss) = Len(fs)
      /\ \A i \in 1 .. Len(ss) : /\ name(i) \in Texts /\ fs[i] = <<name(i), value(i)>>
                                 /\ ss[i] = WrittenField(name(i), d[value(i)])
                                 /\ ReadBack(value(i), d[value(i)])
  <2>1. \A i \in 1 .. Len(fs) : name(i) \in Texts /\ value(i) \in S /\ fs[i] = <<name(i), value(i)>>
    <3>1. SUFFICES ASSUME NEW i \in 1 .. Len(fs)
                   PROVE  name(i) \in Texts /\ value(i) \in S /\ fs[i] = <<name(i), value(i)>>
      OBVIOUS
    <3>2. fs[i] \in Texts \X S
      BY ElementOfSeq, Zenon
    <3>3. QED BY <3>2
  <2>2. \A i \in 1 .. Len(fs) : ReadBack(value(i), d[value(i)]) /\ d[value(i)] \in Seq(Chars)
    BY <2>1, Zenon DEF Faithful, ReadBack
  <2>3. \A i \in 1 .. Len(fs) : WrittenField(name(i), d[value(i)]) \in Seq(Chars)
    BY <2>1, <2>2, FieldIsChars, Zenon
  <2>4. DOMAIN fs = 1 .. Len(fs) /\ Len(fs) \in Nat
    BY LenProperties, Zenon
  <2> HIDE DEF name, value
  <2>5. ss = [i \in 1 .. Len(fs) |-> WrittenField(name(i), d[value(i)])]
    BY <1>0, <2>4, Zenon DEF WrittenFields, name, value
  <2>6. ss \in Seq(Seq(Chars)) /\ Len(ss) = Len(fs)
        /\ \A i \in 1 .. Len(fs) : ss[i] = WrittenField(name(i), d[value(i)])
    BY <2>3, <2>4, <2>5
  <2>7. QED BY <2>1, <2>2, <2>6, Zenon
<1> HIDE DEF name, value
<1>2. PICK a \in Chars, z \in Chars : a = "{" /\ z = "}"
  BY MarksAreChars, Zenon DEF Marks
<1>3. PICK l : l = Separated(ss)
  OBVIOUS
<1>4. Kind(Object(fs)) # "num"
  BY DEF Kind, Object
<1>5. CASE Len(ss) = 0
  <2>1. ss = <<>> /\ fs = <<>>
    BY <1>1, <1>5, EmptySeq
  <2>2. l = <<>> /\ l \in Seq(Chars) /\ Len(l) = 0
    BY <1>3, <2>1, NothingSeparated, ShortWords
  <2>3. ASSUME NEW s \in Seq(Bytes), NEW p \in Places(s), Stands(Between(a, l, z), s, p)
        PROVE  /\ Reading(s)[<<"value", p>>] = Got(Object(fs), p + Len(Between(a, l, z)))
               /\ CharAt(s, p) \notin {"]", "}"}
    <3>1. /\ CharAt(s, p) = "{" /\ CharAt(s, p + 1 + Len(l)) = "}"
          /\ p + Len(Between(a, l, z)) = p + 1 + Len(l) + 1
      <4>1. l \in Seq(Chars)
        BY <2>2
      <4>2. CharAt(s, p) = a /\ CharAt(s, p + 1 + Len(l)) = z
        BY <2>3, <4>1, BracketsStand
      <4>3. p + Len(Between(a, l, z)) = p + 1 + Len(l) + 1
        <5>1. p \in Nat
          BY DEF Places
        <5>2. QED BY <4>1, <5>1, BetweenLength, Zenon
      <4>4. QED BY <1>2, <4>2, <4>3, Zenon
    <3>2. p + 1 + 0 = p + 1 /\ p + 1 + 0 + 1 = p + 2
      BY DEF Places
    <3>3. CharAt(s, p + 1) = "}" /\ p + Len(Between(a, l, z)) = p + 2
      BY <2>2, <3>1, <3>2, Zenon
    <3>4. ParseValue(s, Reading(s), p) = Got(Object(<<>>), p + 2)
      BY <3>1, <3>3 DEF ParseValue, Quote, Digits
    <3>5. CharAt(s, p) \notin {"]", "}"}
      BY <3>1
    <3>6. QED BY <2>1, <3>3, <3>4, <3>5, ParsersUnfold, Zenon
  <2>4. Between(a, l, z) \in Seq(Chars)
    BY <2>2, BetweenIsChars, Zenon
  <2>5. QED BY <1>0, <1>2, <1>3, <1>4, <2>3, <2>4, Zenon DEF ReadBack
<1>6. CASE Len(ss) # 0
  <2>1. l \in Seq(Chars)
    BY <1>1, <1>3, <1>6, SeparatedIsLined
  <2>2. ASSUME NEW s \in Seq(Bytes), NEW p \in Places(s), Stands(Between(a, l, z), s, p)
        PROVE  /\ Reading(s)[<<"value", p>>] = Got(Object(fs), p + Len(Between(a, l, z)))
               /\ CharAt(s, p) \notin {"]", "}"}
    <3>1. PICK e : e = p + 1 + Len(l)
      OBVIOUS
    <3>2. /\ CharAt(s, p) = "{" /\ p + 1 \in Places(s) /\ Stands(l, s, p + 1)
          /\ CharAt(s, e) = "}" /\ p + Len(Between(a, l, z)) = e + 1
      <4>1. CharAt(s, p) = a /\ CharAt(s, p + 1 + Len(l)) = z
        BY <2>1, <2>2, BracketsStand
      <4>2. /\ p + 1 \in Places(s) /\ Stands(l, s, p + 1)
            /\ p + Len(Between(a, l, z)) = p + 1 + Len(l) + 1
        <5>1. p \in Nat
          BY DEF Places
        <5>2. p + 1 \in Places(s) /\ Stands(l, s, p + 1)
          BY <2>1, <2>2, InBrackets, Zenon
        <5>3. p + Len(Between(a, l, z)) = p + 1 + Len(l) + 1
          BY <2>1, <5>1, BetweenLength, Zenon
        <5>4. QED BY <5>2, <5>3
      <4>3. QED BY <1>2, <3>1, <4>1, <4>2, Zenon
    <3>3. PICK at : at[1] = p + 1 /\ Lined(ss, s, at, e)
      BY <1>1, <1>3, <1>6, <3>1, <3>2, SeparatedIsLined, Zenon
    <3>4. ASSUME NEW i \in 1 .. Len(ss), NEW n, n = at[i] + Len(ss[i])
          PROVE  /\ Reading(s)[<<"fields", at[i]>>] = More(s, fs[i], n, "}", Reading(s)[<<"fields", n + 1>>])
                 /\ CharAt(s, at[i]) = Quote
      <4>1. CharAt(s, at[i] + Len(ss[i])) \in {Comma, "}"}
        BY <1>1, <3>2, <3>3, LinedEnds
      <4>2. CharAt(s, n) \in Ends
        BY <3>4, <4>1, Zenon DEF Ends
      <4>3. at[i] \in Places(s) /\ Stands(ss[i], s, at[i])
        BY <3>3, Zenon DEF Lined
      <4>4. PICK y, c, x, w : y = at[i] /\ c = name(i) /\ x = value(i) /\ w = d[value(i)]
        OBVIOUS
      <4>5. /\ c \in Texts /\ fs[i] = <<c, x>> /\ ss[i] = WrittenField(c, w) /\ ReadBack(x, w)
            /\ y \in Places(s) /\ Stands(WrittenField(c, w), s, y) /\ n = y + Len(WrittenField(c, w))
        BY <1>1, <3>4, <4>3, <4>4, Zenon
      <4>6. /\ Reading(s)[<<"fields", y>>] = More(s, <<c, x>>, n, "}", Reading(s)[<<"fields", n + 1>>])
            /\ CharAt(s, y) = Quote
        <5>1. CharAt(s, y + Len(WrittenField(c, w))) \in Ends
          BY <4>2, <4>5, Zenon
        <5>2. /\ c \in Texts /\ ReadBack(x, w)
              /\ y \in Places(s) /\ Stands(WrittenField(c, w), s, y)
          BY <4>5, Zenon
        <5>3. /\ Reading(s)[<<"fields", y>>] =
                     More(s, <<c, x>>, y + Len(WrittenField(c, w)), "}",
                          Reading(s)[<<"fields", y + Len(WrittenField(c, w)) + 1>>])
              /\ CharAt(s, y) = Quote
          BY <5>1, <5>2, FieldIsRead
        <5>4. QED BY <4>5, <5>3, Zenon
      <4>7. QED BY <4>4, <4>5, <4>6, Zenon
    <3>5. ReadsEach(s, ss, at, fs, Reading(s), "fields", "}")
      BY <3>4, Zenon DEF ReadsEach
    <3>6. Reading(s)[<<"fields", p + 1>>] = Got(fs, e + 1)
      <4>1. PICK r : r = Reading(s)
        OBVIOUS
      <4>2. "}" # Comma
        BY Zenon DEF Comma
      <4>3. r[<<"fields", at[1]>>] = Got(fs, e + 1)
        <5>1. ss \in Seq(Seq(Chars)) /\ Len(ss) # 0 /\ Len(fs) = Len(ss)
          BY <1>1, <1>6, Zenon
        <5>2. Lined(ss, s, at, e) /\ CharAt(s, e) = "}" /\ ReadsEach(s, ss, at, fs, r, "fields", "}")
          BY <3>2, <3>3, <3>5, <4>1, Zenon
        <5>3. PICK E, xs, k, close : xs = fs /\ xs \in Seq(E) /\ k = "fields" /\ close = "}"
          OBVIOUS
        <5>4. /\ ss \in Seq(Seq(Chars)) /\ Len(ss) # 0 /\ Len(xs) = Len(ss) /\ xs \in Seq(E)
              /\ Lined(ss, s, at, e) /\ CharAt(s, e) = close /\ ReadsEach(s, ss, at, xs, r, k, close)
              /\ close # Comma
          BY <4>2, <5>1, <5>2, <5>3, Zenon
        <5>5. r[<<k, at[1]>>] = Got(xs, e + 1)
          BY <5>4, ListIsRead
        <5>6. QED BY <5>3, <5>5, Zenon
      <4>4. QED BY <3>3, <4>1, <4>3, Zenon
    <3>7. CharAt(s, p + 1) # "}"
      <4>1. 1 \in 1 .. Len(ss)
        BY <1>1, <1>6, LenProperties
      <4>2. CharAt(s, p + 1) = Quote
        BY <3>3, <3>4, <4>1, Zenon
      <4>3. QED BY <4>2 DEF Quote
    <3>8. ParseValue(s, Reading(s), p) = Wrapped(Got(fs, e + 1), "object")
      <4>1. PICK r : r = Reading(s)
        OBVIOUS
      <4>2. ParseValue(s, r, p) = Wrapped(r[<<"fields", p + 1>>], "object")
        BY <3>2, <3>7 DEF ParseValue, Quote, Digits
      <4>3. QED BY <3>6, <4>1, <4>2, Zenon
    <3>9. Wrapped(Got(fs, e + 1), "object") = Got(Object(fs), e + 1)
      BY DEF Wrapped, Got, Object
    <3>10. CharAt(s, p) \notin {"]", "}"}
      BY <3>2
    <3>11. QED BY <3>2, <3>8, <3>9, <3>10, ParsersUnfold, Zenon
  <2>3. Between(a, l, z) \in Seq(Chars)
    BY <2>1, BetweenIsChars, Zenon
  <2>4. QED BY <1>0, <1>2, <1>3, <1>4, <2>2, <2>3, Zenon DEF ReadBack
<1>7. QED BY <1>0, <1>3, <1>5, <1>6, Zenon

\* Atoms, and arrays and objects of the values of S.
Nested(S) ==
    Atoms \cup {Array(vs) : vs \in Seq(S)} \cup {Object(fs) : fs \in Seq(Texts \X S)}

\* The cases of a nested value.
LEMMA NestedCases ==
  ASSUME NEW S, NEW v \in Nested(S)
  PROVE  \/ v \in Atoms
         \/ \E vs \in Seq(S) : v = Array(vs)
         \/ \E fs \in Seq(Texts \X S) : v = Object(fs)
  BY DEF Nested

\* An atom is dumped without its elements.
LEMMA AtomDump ==
  ASSUME NEW v \in Atoms, NEW dumps
  PROVE  Elements(v) = <<>> /\ DumpWith(v, dumps) = DumpAtom(v)
<1>1. Kind(v) \notin {"array", "object"}
  BY DEF Atoms, Kind, Null, Text, Num
<1>2. QED BY <1>1, Zenon DEF Elements, DumpWith

\* An array is dumped in brackets, its elements separated by commas.
LEMMA ArrayDump ==
  ASSUME NEW vs, NEW dumps
  PROVE  /\ Elements(Array(vs)) = vs
         /\ DumpWith(Array(vs), dumps) = Between("[", Separated(dumps), "]")
<1>1. Kind(Array(vs)) = "array" /\ Content(Array(vs)) = vs
  BY DEF Kind, Content, Array
<1>2. PICK v : v = Array(vs)
  OBVIOUS
<1>3. Elements(v) = Content(v)
  BY <1>1, <1>2 DEF Elements
<1>4. DumpWith(v, dumps) = <<"[">> \o Separated(dumps) \o <<"]">>
  BY <1>1, <1>2 DEF DumpWith
<1>5. QED BY <1>1, <1>2, <1>3, <1>4, Zenon DEF Between

\* An object is dumped in braces, its fields separated by commas.
LEMMA ObjectDump ==
  ASSUME NEW S, NEW fs \in Seq(Texts \X S), NEW d
  PROVE  LET v == Object(fs) IN
         /\ DOMAIN Elements(v) = 1 .. Len(fs) /\ \A i \in 1 .. Len(fs) : Elements(v)[i] = fs[i][2]
         /\ DumpWith(v, Written(Elements(v), d)) = Between("{", Separated(WrittenFields(fs, d)), "}")
<1> DEFINE v == Object(fs)
           dumps == Written(Elements(v), d)
           named == [i \in DOMAIN dumps |-> Quoted(Content(v)[i][1]) \o <<":">> \o dumps[i]]
<1>1. Kind(v) = "object" /\ Content(v) = fs
  BY DEF Kind, Content, Object
<1>2. DOMAIN fs = 1 .. Len(fs)
  BY LenProperties, Zenon
<1> HIDE DEF v
<1>3. Elements(v) = [i \in DOMAIN fs |-> fs[i][2]]
  <2>1. Elements(v) = [i \in DOMAIN Content(v) |-> Content(v)[i][2]]
    BY <1>1 DEF Elements
  <2>2. QED BY <1>1, <2>1, Zenon
<1>4. DOMAIN Elements(v) = DOMAIN fs /\ \A i \in DOMAIN fs : Elements(v)[i] = fs[i][2]
  BY <1>3, Zenon
<1>5. DOMAIN dumps = DOMAIN fs /\ \A i \in DOMAIN fs : dumps[i] = d[fs[i][2]]
  BY <1>4, Zenon DEF Written
<1> HIDE DEF dumps
<1>6. DumpWith(v, dumps) = <<"{">> \o Separated(named) \o <<"}">>
  BY <1>1 DEF DumpWith
<1>7. named = WrittenFields(fs, d)
  <2>1. \A i \in DOMAIN fs : Quoted(Content(v)[i][1]) \o <<":">> \o dumps[i] = WrittenField(fs[i][1], d[fs[i][2]])
    BY <1>1, <1>5, Zenon DEF WrittenField
  <2>2. QED BY <1>5, <2>1, Zenon DEF WrittenFields
<1>8. QED BY <1>2, <1>4, <1>6, <1>7, Zenon DEF v, dumps, Between

\* One level more of nesting.
LEMMA NestedReadsBack ==
  ASSUME NEW S, NEW d, Faithful(S, d), NEW v \in Nested(S)
  PROVE  /\ ReadBack(v, DumpWith(v, Written(Elements(v), d)))
         /\ \A i \in DOMAIN Elements(v) : Elements(v)[i] \in S
<1>1. CASE v \in Atoms
  <2>1. DOMAIN <<>> = {}
    OBVIOUS
  <2>2. QED BY <1>1, <2>1, AtomDump, AtomReadsBack, Zenon
<1>2. ASSUME NEW vs \in Seq(S), v = Array(vs)
      PROVE  /\ ReadBack(v, DumpWith(v, Written(Elements(v), d)))
             /\ \A i \in DOMAIN Elements(v) : Elements(v)[i] \in S
  <2>1. DOMAIN vs = 1 .. Len(vs) /\ \A i \in 1 .. Len(vs) : vs[i] \in S
    BY LenProperties, ElementOfSeq, Zenon
  <2>2. ReadBack(Array(vs), Between("[", Separated(Written(vs, d)), "]"))
    BY ArrayReadsBack
  <2>3. /\ Elements(Array(vs)) = vs
        /\ DumpWith(Array(vs), Written(vs, d)) = Between("[", Separated(Written(vs, d)), "]")
    BY ArrayDump
  <2>4. QED BY <1>2, <2>1, <2>2, <2>3, Zenon
<1>3. ASSUME NEW fs \in Seq(Texts \X S), v = Object(fs)
      PROVE  /\ ReadBack(v, DumpWith(v, Written(Elements(v), d)))
             /\ \A i \in DOMAIN Elements(v) : Elements(v)[i] \in S
  <2>1. \A i \in 1 .. Len(fs) : fs[i][2] \in S
    <3>1. \A i \in 1 .. Len(fs) : fs[i] \in Texts \X S
      BY ElementOfSeq, Zenon
    <3>2. QED BY <3>1
  <2>2. ReadBack(Object(fs), Between("{", Separated(WrittenFields(fs, d)), "}"))
    BY ObjectReadsBack
  <2>3. /\ DOMAIN Elements(v) = 1 .. Len(fs) /\ \A i \in 1 .. Len(fs) : Elements(v)[i] = fs[i][2]
        /\ DumpWith(v, Written(Elements(v), d)) = Between("{", Separated(WrittenFields(fs, d)), "}")
    BY <1>3, ObjectDump, Zenon
  <2>4. QED BY <1>3, <2>1, <2>2, <2>3, Zenon
<1>4. CASE \E vs \in Seq(S) : v = Array(vs)
  <2>1. PICK vs \in Seq(S) : v = Array(vs)
    BY <1>4
  <2>2. QED BY <1>2, <2>1
<1>5. CASE \E fs \in Seq(Texts \X S) : v = Object(fs)
  <2>1. PICK fs \in Seq(Texts \X S) : v = Object(fs)
    BY <1>5
  <2>2. QED BY <1>3, <2>1
<1>6. QED BY <1>1, <1>4, <1>5, NestedCases

\* What the dump writes at each level of a message is read back.
Flat    == Nested(Atoms)
Nested2 == Nested(Flat)
Nested3 == Nested(Nested2)

\* Atoms, and arrays and objects of them.
LEMMA FlatReadsBack ==
  ASSUME NEW v \in Flat
  PROVE  ReadBack(v, DumpInnermost(v))
<1> DEFINE d == [x \in Atoms |-> DumpAtom(x)]
<1>1. Faithful(Atoms, d)
  BY AtomReadsBack, Zenon DEF Faithful
<1>2. /\ ReadBack(v, DumpWith(v, Written(Elements(v), d)))
      /\ \A i \in DOMAIN Elements(v) : Elements(v)[i] \in Atoms
  BY <1>1, NestedReadsBack, Zenon DEF Flat
<1>3. Written(Elements(v), d) = [i \in DOMAIN Elements(v) |-> DumpAtom(Elements(v)[i])]
  BY <1>2, Zenon DEF Written
<1>4. QED BY <1>2, <1>3, Zenon DEF DumpInnermost

\* Two levels of arrays and objects.
LEMMA Nested2ReadsBack ==
  ASSUME NEW v \in Nested2
  PROVE  ReadBack(v, DumpInner(v))
<1> DEFINE d == [x \in Flat |-> DumpInnermost(x)]
<1>1. Faithful(Flat, d)
  BY FlatReadsBack, Zenon DEF Faithful
<1>2. /\ ReadBack(v, DumpWith(v, Written(Elements(v), d)))
      /\ \A i \in DOMAIN Elements(v) : Elements(v)[i] \in Flat
  BY <1>1, NestedReadsBack, Zenon DEF Nested2
<1>3. Written(Elements(v), d) = [i \in DOMAIN Elements(v) |-> DumpInnermost(Elements(v)[i])]
  BY <1>2, Zenon DEF Written
<1>4. QED BY <1>2, <1>3, Zenon DEF DumpInner

\* Three levels, which is a message.
LEMMA Nested3ReadsBack ==
  ASSUME NEW v \in Nested3
  PROVE  ReadBack(v, Dump(v))
<1> DEFINE d == [x \in Nested2 |-> DumpInner(x)]
<1>1. Faithful(Nested2, d)
  BY Nested2ReadsBack, Zenon DEF Faithful
<1>2. /\ ReadBack(v, DumpWith(v, Written(Elements(v), d)))
      /\ \A i \in DOMAIN Elements(v) : Elements(v)[i] \in Nested2
  BY <1>1, NestedReadsBack, Zenon DEF Nested3
<1>3. Written(Elements(v), d) = [i \in DOMAIN Elements(v) |-> DumpInner(Elements(v)[i])]
  BY <1>2, Zenon DEF Written
<1>4. QED BY <1>2, <1>3, Zenon DEF Dump

\* A word at the beginning of a buffer.
LEMMA WordStands ==
  ASSUME NEW w \in Seq(Chars), NEW t \in Seq(Bytes)
  PROVE  w \o t \in Seq(Bytes) /\ 1 \in Places(w \o t) /\ Stands(w, w \o t, 1)
<1>1. w \in Seq(Bytes)
  BY MarksAreChars
<1>2. PICK s : s = w \o t
  OBVIOUS
<1>3. /\ s \in Seq(Bytes) /\ Len(s) = Len(w) + Len(t) /\ Len(w) \in Nat /\ Len(t) \in Nat
      /\ \A i \in 1 .. Len(w) : s[i] = w[i]
  BY <1>1, <1>2, ConcatProperties, LenProperties
<1>4. 1 \in Places(s)
  BY <1>3 DEF Places
<1>5. Stands(w, s, 1)
  <2>1. SUFFICES ASSUME NEW i \in 1 .. Len(w) PROVE CharAt(s, 1 + i - 1) = w[i]
    BY Zenon DEF Stands
  <2>2. 1 + i - 1 = i /\ i <= Len(s)
    BY <1>3
  <2>3. QED BY <1>3, <2>2 DEF CharAt
<1>6. QED BY <1>2, <1>3, <1>4, <1>5, Zenon

-----------------------------------------------------------------------------
(* The first field of an object, whose value need not survive its dump.     *)

IsList(x) == \E E : x \in Seq(E)

\* An element before a list.
LEMMA Prepended ==
  ASSUME NEW e, NEW x, IsList(x)
  PROVE  /\ IsList(<<e>>) /\ IsList(<<e>> \o x)
         /\ 1 \in DOMAIN <<e>> /\ 1 \in DOMAIN (<<e>> \o x)
         /\ <<e>>[1] = e /\ (<<e>> \o x)[1] = e
<1>1. PICK E : x \in Seq(E)
  BY Zenon DEF IsList
<1>2. PICK F : F = E \cup {e}
  OBVIOUS
<1>3. x \in Seq(F) /\ <<e>> \in Seq(F)
  BY <1>1, <1>2
<1>4. /\ <<e>> \o x \in Seq(F) /\ 1 \in DOMAIN <<e>> /\ 1 \in DOMAIN (<<e>> \o x)
      /\ <<e>>[1] = e /\ (<<e>> \o x)[1] = e
  BY <1>3
<1>5. IsList(<<e>>) /\ IsList(<<e>> \o x)
  BY <1>3, <1>4, Zenon DEF IsList
<1>6. QED BY <1>4, <1>5, Zenon

\* What is read of the fields from a place on, is a list that begins with the name there.
Listed(s, p) ==
    LET r == Reading(s)[<<"fields", p>>] IN
    r.ok => IsList(r.value) /\ 1 \in DOMAIN r.value /\ r.value[1][1] = Content(ParseText(s, p).value)

\* One field more.
LEMMA FieldBeforeList ==
  ASSUME NEW s \in Seq(Bytes), NEW p \in Places(s),
         \A q \in Places(s) : q > p => Listed(s, q)
  PROVE  Listed(s, p)
<1>1. PICK r : r = Reading(s)
  OBVIOUS
<1>2. PICK k, v : k = ParseText(s, p) /\ v = r[<<"value", k.next + 1>>]
  OBVIOUS
<1>3. PICK f : f = r[<<"fields", p>>] /\ f = ParseFields(s, r, p)
  BY <1>1, ParsersUnfold
<1>4. CASE ~(k.ok /\ CharAt(s, k.next) = ":" /\ v.ok)
  <2>1. f = Fails
    BY <1>2, <1>3, <1>4, Zenon DEF ParseFields
  <2>2. ~f.ok
    BY <2>1 DEF Fails
  <2>3. QED BY <1>1, <1>3, <2>2, Zenon DEF Listed
<1>5. CASE k.ok /\ CharAt(s, k.next) = ":" /\ v.ok
  <2>1. PICK e, n, o, z : /\ e = <<Content(k.value), v.value>> /\ n = v.next
                          /\ o = r[<<"fields", n + 1>>] /\ z = "}"
    OBVIOUS
  <2>2. f = More(s, e, n, z, o)
    BY <1>2, <1>3, <1>5, <2>1, Zenon DEF ParseFields
  <2>3. e[1] = Content(ParseText(s, p).value)
    BY <1>2, <2>1
  <2>4. CASE CharAt(s, n) = z
    <3>1. f.value = <<e>>
      <4>1. f = Got(<<e>>, n + 1)
        <5>1. Comma # z
          BY <2>1 DEF Comma
        <5>2. QED BY <2>2, <2>4, <5>1 DEF More
      <4>2. QED BY <4>1 DEF Got
    <3>2. IsList(<<e>>) /\ 1 \in DOMAIN <<e>> /\ <<e>>[1] = e
      <4>1. <<e>> \in Seq({e}) /\ 1 \in DOMAIN <<e>> /\ <<e>>[1] = e
        OBVIOUS
      <4>2. QED BY <4>1, Zenon DEF IsList
    <3>3. QED BY <1>1, <1>3, <2>3, <3>1, <3>2, Zenon DEF Listed
  <2>5. CASE CharAt(s, n) = Comma /\ o.ok
    <3>1. f.value = <<e>> \o o.value
      <4>1. f = Got(<<e>> \o o.value, o.next)
        <5>1. Comma # z
          BY <2>1 DEF Comma
        <5>2. QED BY <2>2, <2>5, <5>1 DEF More
      <4>2. QED BY <4>1 DEF Got
    <3>2. n + 1 \in Places(s) /\ n + 1 > p
      <4>1. Inside(s, p + 1, k)
        BY <1>2, TextBounded
      <4>2. k.next \in Nat /\ k.next > p /\ k.next <= Len(s)
        <5>1. k.next \in (p + 1) .. Len(s) + 1 /\ p \in Nat
          BY <1>5, <4>1 DEF Inside, Places
        <5>2. QED BY <1>5, <5>1, Readable
      <4>3. k.next + 1 \in Places(s)
        BY <4>2 DEF Places
      <4>4. Bounded(s, "value", k.next + 1, v)
        <5>1. "value" \in Parsers
          BY DEF Parsers
        <5>2. QED BY <1>1, <1>2, <4>3, <5>1, ReadingUnfolds, Zenon
      <4>5. n \in Nat /\ n > p
        <5>1. Inside(s, k.next + 1, v) \/ Skipped(s, k.next + 1, v)
          BY <4>4, Zenon DEF Bounded
        <5>2. n \in (k.next + 1) .. (Len(s) + 1) \/ n \in {k.next + 1 + 4, k.next + 1 + 5}
          BY <1>5, <2>1, <5>1, Zenon DEF Inside, Skipped
        <5>3. p \in Nat
          BY DEF Places
        <5>4. QED BY <4>2, <5>2, <5>3
      <4>6. n <= Len(s)
        BY <2>5, <4>5, Readable DEF Comma
      <4>7. QED BY <4>5, <4>6 DEF Places
    <3>3. IsList(o.value)
      BY <1>1, <2>1, <2>5, <3>2, Zenon DEF Listed
    <3>4. IsList(<<e>> \o o.value) /\ 1 \in DOMAIN (<<e>> \o o.value) /\ (<<e>> \o o.value)[1] = e
      BY <3>3, Prepended, Zenon
    <3>5. QED BY <1>1, <1>3, <2>3, <3>1, <3>4, Zenon DEF Listed
  <2>6. CASE CharAt(s, n) # z /\ ~(CharAt(s, n) = Comma /\ o.ok)
    <3>1. f = Fails
      BY <2>2, <2>6 DEF More
    <3>2. ~f.ok
      BY <3>1 DEF Fails
    <3>3. QED BY <1>1, <1>3, <3>2, Zenon DEF Listed
  <2>7. QED BY <2>4, <2>5, <2>6
<1>6. QED BY <1>4, <1>5

\* From every place on.
LEMMA FieldsAreListed ==
  ASSUME NEW s \in Seq(Bytes), NEW p \in Places(s)
  PROVE  Listed(s, p)
<1> DEFINE N == Len(s) + 1
           T == {n \in 1 .. N : \A q \in n .. N : Listed(s, q)}
<1>0. N \in Nat /\ N >= 1 /\ Places(s) = 1 .. N
  BY DEF Places
<1>1. ASSUME NEW n \in 1 .. N, \A q \in 1 .. N : q > n => Listed(s, q)
      PROVE  n \in T
  <2>1. Listed(s, n)
    BY <1>0, <1>1, FieldBeforeList
  <2>2. \A q \in n .. N : Listed(s, q)
    BY <1>1, <2>1
  <2>3. QED BY <2>2
<1>2. N \in T
  <2>1. \A q \in 1 .. N : q > N => Listed(s, q)
    BY <1>0
  <2>2. N \in 1 .. N
    BY <1>0
  <2> HIDE DEF T, N
  <2>3. QED BY <1>1, <2>1, <2>2
<1>3. ASSUME NEW n \in 1 .. N, n + 1 \in T, n + 1 <= N PROVE n \in T
  <2>1. \A q \in 1 .. N : q > n => Listed(s, q)
    BY <1>0, <1>3
  <2> HIDE DEF T, N
  <2>2. QED BY <1>1, <2>1
<1>4. 1 .. N \subseteq T
  <2> HIDE DEF T
  <2>1. N \in Nat /\ N \in 1 .. N
    BY <1>0
  <2> HIDE DEF N
  <2>2. QED BY <1>2, <1>3, <2>1, Downwards
<1>5. QED BY <1>0, <1>4

\* What is written of an object, if its values are written as words of any kind.
LEMMA ObjectIsWord ==
  ASSUME NEW S, NEW d, \A x \in S : d[x] \in Seq(Chars), NEW fs \in Seq(Texts \X S), Len(fs) # 0
  PROVE  LET ss == WrittenFields(fs, d) IN
         /\ ss \in Seq(Seq(Chars)) /\ Len(ss) = Len(fs)
         /\ ss[1] = WrittenField(fs[1][1], d[fs[1][2]])
         /\ fs[1][1] \in Texts /\ d[fs[1][2]] \in Seq(Chars)
         /\ Separated(ss) \in Seq(Chars) /\ Between("{", Separated(ss), "}") \in Seq(Chars)
<1>0. PICK ss : ss = WrittenFields(fs, d)
  OBVIOUS
<1>1. DOMAIN fs = 1 .. Len(fs) /\ Len(fs) \in Nat
  BY LenProperties, Zenon
<1>2. \A i \in 1 .. Len(fs) : fs[i][1] \in Texts /\ d[fs[i][2]] \in Seq(Chars)
  <2>1. SUFFICES ASSUME NEW i \in 1 .. Len(fs)
                 PROVE  fs[i][1] \in Texts /\ d[fs[i][2]] \in Seq(Chars)
    OBVIOUS
  <2>2. fs[i] \in Texts \X S
    BY ElementOfSeq, Zenon
  <2>3. QED BY <2>2
<1>3. \A i \in 1 .. Len(fs) : WrittenField(fs[i][1], d[fs[i][2]]) \in Seq(Chars)
  BY <1>2, FieldIsChars, Zenon
<1>4. ss = [i \in 1 .. Len(fs) |-> WrittenField(fs[i][1], d[fs[i][2]])]
  BY <1>0, <1>1, Zenon DEF WrittenFields
<1>5. 1 \in 1 .. Len(fs)
  BY <1>1
<1>6. ss \in Seq(Seq(Chars)) /\ Len(ss) = Len(fs)
  BY <1>1, <1>3, <1>4
<1>7. ss[1] = WrittenField(fs[1][1], d[fs[1][2]])
  BY <1>4, <1>5
<1>8. Separated(ss) \in Seq(Chars)
  BY <1>6, SeparatedIsLined
<1>9. Between("{", Separated(ss), "}") \in Seq(Chars)
  <2>1. "{" \in Chars /\ "}" \in Chars
    BY MarksAreChars, Zenon DEF Marks
  <2>2. QED BY <1>8, <2>1, BetweenIsChars, Zenon
<1>10. QED BY <1>0, <1>2, <1>5, <1>6, <1>7, <1>8, <1>9, Zenon

\* Where an object begins.
Opens(a) == a = "{"

\* Whatever the values are, and whatever stands behind the object: if it is read at all, its
\* first name is among those that are read (Parser.h:131-163, TypeCompat.h:42-45).
LEMMA FirstNameIsRead ==
  ASSUME NEW ss \in Seq(Seq(Chars)), Len(ss) # 0,
         NEW c \in Texts, NEW u \in Seq(Chars), ss[1] = WrittenField(c, u),
         NEW l \in Seq(Chars), l = Separated(ss),
         NEW a \in Chars, Opens(a), NEW z \in Chars,
         NEW s \in Seq(Bytes), Stands(Between(a, l, z), s, 1)
  PROVE  Parse(s).ok => c \in Names(Parse(s).value)
<1>1. l = Separated(ss) /\ a = "{"
  BY Zenon DEF Opens
<1>3. /\ ss \in Seq(Seq(Chars)) /\ Len(ss) # 0 /\ ss[1] = WrittenField(c, u)
      /\ c \in Texts /\ u \in Seq(Chars) /\ l \in Seq(Chars)
  OBVIOUS
<1>5. 1 \in Places(s)
  BY DEF Places
<1>6. CharAt(s, 1) = "{" /\ 2 \in Places(s) /\ Stands(l, s, 2)
  <2>1. PICK p \in Places(s) : p = 1 /\ p + 1 = 2
    BY <1>5
  <2>2. CharAt(s, p) = a /\ p + 1 \in Places(s) /\ Stands(l, s, p + 1)
    BY <2>1, BracketsStand
  <2>3. QED BY <1>1, <2>1, <2>2, Zenon
<1>7. Stands(WrittenField(c, u), s, 2)
  <2>1. PICK at, e : at[1] = 2 /\ Lined(ss, s, at, e)
    BY <1>1, <1>3, <1>5, <1>6, SeparatedIsLined, Zenon
  <2>2. 1 \in 1 .. Len(ss)
    BY <1>3, LenProperties
  <2>3. QED BY <1>3, <2>1, <2>2, Zenon DEF Lined
<1>8. Stands(Quoted(c), s, 2) /\ CharAt(s, 2 + Len(c) + 2) = ":"
  <2>1. PICK q, o : q = Quoted(c) /\ o = <<":">>
    OBVIOUS
  <2>2. /\ q \in Seq(Chars) /\ Len(q) = Len(c) + 2 /\ Len(c) \in Nat
        /\ o \in Seq(Chars) /\ ":" \in Chars
    <3>1. ":" \in Chars
      BY MarksAreChars, Zenon DEF Marks
    <3>2. QED BY <1>3, <2>1, <3>1, QuotedIsChars, ShortWords
  <2>3. Stands(q \o o \o u, s, 2)
    BY <1>7, <2>1, Zenon DEF WrittenField
  <2>4. Stands(q, s, 2) /\ Stands(o, s, 2 + Len(q)) /\ 2 + Len(q) \in Places(s)
    BY <1>3, <1>5, <1>6, <2>2, <2>3, ThreeWords, Zenon
  <2>5. CharAt(s, 2 + Len(q)) = ":"
    <3>1. 2 + Len(q) \in Nat
      BY <2>2
    <3>2. QED BY <2>1, <2>2, <2>4, <3>1, Letter, Zenon
  <2>6. 2 + Len(q) = 2 + Len(c) + 2
    BY <2>2
  <2>7. QED BY <2>1, <2>4, <2>5, <2>6, Zenon
<1>9. PICK k, m : k = ParseText(s, 2) /\ m = 2 + Len(c) + 2
  OBVIOUS
<1>10. k.ok /\ Content(k.value) = c /\ k.next = m /\ CharAt(s, k.next) = ":"
  <2>1. k = Got(Text(c), m)
    BY <1>3, <1>5, <1>6, <1>8, <1>9, TextIsRead
  <2>2. k.ok /\ k.value = Text(c) /\ k.next = m
    BY <2>1 DEF Got
  <2>3. Content(Text(c)) = c
    BY DEF Content, Text
  <2>4. QED BY <1>8, <1>9, <2>2, <2>3, Zenon
<1>11. CharAt(s, 2) = Quote
  <2>1. Quote \in Chars /\ <<Quote>> \in Seq(Chars) /\ c \in Seq(Chars)
    <3>1. Quote \in Chars
      BY MarksAreChars, Zenon DEF Marks
    <3>2. QED BY <1>3, <3>1, ShortWords, QuotedIsChars
  <2>2. Stands(<<Quote>>, s, 2)
    <3>1. Stands(<<Quote>> \o c \o <<Quote>>, s, 2)
      BY <1>8, Zenon DEF Quoted
    <3>2. QED BY <1>5, <1>6, <2>1, <3>1, ThreeWords, Zenon
  <2>3. 2 \in Nat
    OBVIOUS
  <2>4. QED BY <1>5, <2>1, <2>2, <2>3, Letter, Zenon
<1>12. PICK r, f : r = Reading(s) /\ f = r[<<"fields", 2>>]
  OBVIOUS
<1>13. Parse(s) = Wrapped(f, "object")
  <2>1. ParseValue(s, r, 1) = Wrapped(r[<<"fields", 1 + 1>>], "object")
    <3>1. CharAt(s, 1 + 1) # "}"
      <4>1. Quote # "}" /\ 1 + 1 = 2
        BY DEF Quote
      <4>2. QED BY <1>11, <4>1, Zenon
    <3>2. QED BY <1>6, <3>1 DEF ParseValue, Quote, Digits
  <2>2. 1 + 1 = 2
    OBVIOUS
  <2>3. QED BY <1>5, <1>12, <2>1, <2>2, ParsersUnfold, Zenon DEF Parse
<1>14. Parse(s).ok => f.ok /\ Content(Parse(s).value) = f.value
  BY <1>13 DEF Wrapped, Fails, Got, Content
<1>15. f.ok => 1 \in DOMAIN f.value /\ f.value[1][1] = c
  BY <1>5, <1>6, <1>9, <1>10, <1>12, FieldsAreListed, Zenon DEF Listed
<1>16. Parse(s).ok => c \in Names(Parse(s).value)
  BY <1>14, <1>15, Zenon DEF Names
<1>17. QED BY <1>16

\* What is neither an array nor an object, is dumped alike at each level.
LEMMA ScalarDump ==
  ASSUME NEW v, Kind(v) \notin {"array", "object"}
  PROVE  DumpInnermost(v) = DumpAtom(v) /\ DumpInner(v) = DumpAtom(v)
<1>1. \A dumps : DumpWith(v, dumps) = DumpAtom(v)
  BY Zenon DEF DumpWith
<1>2. QED BY <1>1, Zenon DEF DumpInnermost, DumpInner

\* The same of an object that is dumped field by field.
LEMMA ObjectNameIsRead ==
  ASSUME NEW S, NEW d, \A x \in S : d[x] \in Seq(Chars),
         NEW fs \in Seq(Texts \X S), Len(fs) # 0, NEW t \in Seq(Bytes),
         NEW s, s = Between("{", Separated(WrittenFields(fs, d)), "}") \o t
  PROVE  Parse(s).ok => fs[1][1] \in Names(Parse(s).value)
<1>1. PICK ss, l, a, z : ss = WrittenFields(fs, d) /\ l = Separated(ss) /\ a = "{" /\ z = "}"
  OBVIOUS
<1>2. PICK c, u : c = fs[1][1] /\ u = d[fs[1][2]]
  OBVIOUS
<1>3. /\ ss \in Seq(Seq(Chars)) /\ Len(ss) = Len(fs) /\ ss[1] = WrittenField(c, u)
      /\ c \in Texts /\ u \in Seq(Chars) /\ l \in Seq(Chars) /\ Between(a, l, z) \in Seq(Chars)
  <2>1. LET x == WrittenFields(fs, d) IN
        /\ x \in Seq(Seq(Chars)) /\ Len(x) = Len(fs)
        /\ x[1] = WrittenField(fs[1][1], d[fs[1][2]])
        /\ fs[1][1] \in Texts /\ d[fs[1][2]] \in Seq(Chars)
        /\ Separated(x) \in Seq(Chars) /\ Between("{", Separated(x), "}") \in Seq(Chars)
    BY ObjectIsWord
  <2>2. QED BY <1>1, <1>2, <2>1, Zenon
<1>4. a \in Chars /\ z \in Chars
  BY <1>1, MarksAreChars, Zenon DEF Marks
<1>5. s = Between(a, l, z) \o t
  BY <1>1, Zenon
<1>6. s \in Seq(Bytes) /\ Stands(Between(a, l, z), s, 1)
  BY <1>3, <1>5, WordStands, Zenon
<1>7. Parse(s).ok => c \in Names(Parse(s).value)
  BY <1>1, <1>3, <1>4, <1>6, FirstNameIsRead, Zenon DEF Opens
<1>8. QED BY <1>2, <1>7, Zenon

-----------------------------------------------------------------------------
(* What a reader should know.                                               *)

\* What vsjson dumps it parses as it was, whatever stands behind it in the buffer: arrays and
\* objects of any length, nested three deep, of texts without a quote in them or a backslash
\* at their end (and with any zeros in them) and of numbers with a point before their exponent
\* and a power of ten the parser has.  Only a number at the top would be read on into what
\* follows (Json.h:165-216, Parser.h:45-249).
THEOREM RoundTrip ==
  ASSUME NEW v \in Nested3, Kind(v) # "num", NEW t \in Seq(Bytes)
  PROVE  Parse(Dump(v) \o t) = Got(v, Len(Dump(v)) + 1)
<1>1. PICK w : w = Dump(v)
  OBVIOUS
<1>2. ReadBack(v, w)
  BY <1>1, Nested3ReadsBack
<1>3. w \in Seq(Chars) /\ w \in Seq(Bytes)
  <2>1. w \in Seq(Chars)
    BY <1>2, Zenon DEF ReadBack
  <2>2. QED BY <2>1, MarksAreChars
<1>4. PICK s : s = w \o t
  OBVIOUS
<1>5. s \in Seq(Bytes) /\ 1 \in Places(s) /\ Stands(w, s, 1)
  BY <1>3, <1>4, WordStands, Zenon
<1>6. 1 + Len(w) = Len(w) + 1
  BY <1>3, LenProperties
<1>7. Reading(s)[<<"value", 1>>] = Got(v, 1 + Len(w))
  BY <1>2, <1>5, Zenon DEF ReadBack
<1>8. QED BY <1>1, <1>4, <1>6, <1>7, Zenon DEF Parse

\* Whatever can be read, from the beginning of the buffer to the end of what the process may
\* read, the parser makes one pass over it.  It does not stop where the frame ends: it fails,
\* by an exception or at the end of what can be read, or it has read a value that ends before.
\* Only a literal whose first letter the text begins with may end behind it, as its length is
\* skipped unread (Parser.h:45-249).
THEOREM ParserEnds ==
  ASSUME NEW s \in Seq(Bytes)
  PROVE  \/ Parse(s).ok = FALSE
         \/ Parse(s).ok = TRUE /\ Parse(s).next \in 1 .. Len(s) + 1
         \/ /\ Parse(s).ok = TRUE /\ CharAt(s, 1) \in {"n", "t", "f"}
            /\ Parse(s).next \in {1 + 4, 1 + 5}
<1>1. 1 \in Places(s) /\ "value" \in Parsers
  BY DEF Places, Parsers
<1>2. Bounded(s, "value", 1, Reading(s)[<<"value", 1>>])
  BY <1>1, ReadingUnfolds
<1>3. Bounded(s, "value", 1, Parse(s))
  BY <1>2, Zenon DEF Parse
<1>4. QED BY <1>3, Zenon DEF Bounded, Inside, Skipped

\* A decimal that is written without a point before its exponent is read up to the exponent:
\* 1e+06, which is what is written of a million, becomes 1 (Parser.h:86-108).
THEOREM ExponentNeedsPoint ==
  ASSUME NEW w \in Whole, NEW t \in Seq(Bytes)
  PROVE  Parse(w \o <<"e">> \o t) = Got(Num(w), Len(w) + 1)
<1>1. PICK s, u : u = <<"e">> /\ s = w \o u \o t
  OBVIOUS
<1>2. w \in Seq(Chars) /\ w \in Seq(Bytes) /\ Len(w) \in Nat /\ Len(w) >= 1
  <2>1. w \in Seq(Chars) /\ Len(w) \in Nat /\ Len(w) >= 1
    BY WholeIsChars
  <2>2. QED BY <2>1, MarksAreChars
<1>3. u \in Seq(Bytes) /\ Len(u) = 1 /\ u[1] = "e"
  <2>1. "e" \in Bytes
    BY MarksAreChars, Zenon DEF Spelling
  <2>2. QED BY <1>1, <2>1
<1>4. PICK m : m = w \o u
  OBVIOUS
<1>5. m \in Seq(Bytes) /\ Len(m) = Len(w) + 1 /\ m[Len(w) + 1] = "e" /\ \A i \in 1 .. Len(w) : m[i] = w[i]
  <2>1. /\ m \in Seq(Bytes) /\ Len(m) = Len(w) + Len(u)
        /\ \A i \in 1 .. Len(w) + Len(u) : m[i] = IF i <= Len(w) THEN w[i] ELSE u[i - Len(w)]
    BY <1>2, <1>3, <1>4, ConcatProperties
  <2>2. Len(w) + 1 - Len(w) = 1
    BY <1>2
  <2>3. QED BY <1>2, <1>3, <2>1, <2>2
<1>6. /\ s \in Seq(Bytes) /\ Len(s) = Len(w) + 1 + Len(t) /\ Len(t) \in Nat
      /\ \A i \in 1 .. Len(w) + 1 : s[i] = m[i]
  BY <1>1, <1>2, <1>4, <1>5, ConcatProperties, LenProperties
<1>7. /\ 1 \in Places(s) /\ 1 + Len(w) = Len(w) + 1
      /\ CharAt(s, 1 + Len(w)) = "e"
  BY <1>2, <1>5, <1>6 DEF Places, CharAt
<1>8. Stands(w, s, 1)
  <2>1. SUFFICES ASSUME NEW i \in 1 .. Len(w) PROVE CharAt(s, 1 + i - 1) = w[i]
    BY Zenon DEF Stands
  <2>2. 1 + i - 1 = i /\ i <= Len(s) /\ i \in 1 .. Len(w) + 1
    BY <1>2, <1>6
  <2>3. QED BY <1>5, <1>6, <2>2 DEF CharAt
<1>9. PICK x : x = 1 + Len(w)
  OBVIOUS
<1>10. /\ CharAt(s, 1) \in Digits \cup {"-"}
       /\ After(s)[Start(s, 1)] = x /\ Start(s, 1) # x
  <2>1. "e" \notin Digits
    BY DEF Digits
  <2>2. QED BY <1>6, <1>7, <1>8, <1>9, <2>1, WholeIsRead
<1>11. SubSeq(s, 1, x - 1) = w
  BY <1>2, <1>6, <1>7, <1>8, <1>9, WordIsCut
<1>12. ParseNumber(s, 1) = Got(Num(w), x)
  <2>1. CharAt(s, x) = "e" /\ "e" # "." /\ "e" # "end" /\ "e" # Zero
    BY <1>7, <1>9 DEF Zero
  <2>2. QED BY <1>10, <1>11, <2>1 DEF ParseNumber, Start
<1>13. ParseValue(s, Reading(s), 1) = ParseNumber(s, 1)
  BY <1>10 DEF ParseValue, Quote, Digits
<1>14. Parse(s) = Got(Num(w), x)
  BY <1>6, <1>7, <1>12, <1>13, ParsersUnfold, Zenon DEF Parse
<1>15. QED BY <1>1, <1>7, <1>9, <1>14, Zenon
=============================================================================
