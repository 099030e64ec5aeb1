------------------------------ MODULE OilIni_proofs ------------------------------
(***************************************************************************)
(* Theorems about loading an ini-string, for any strings, implements and    *)
(* CPU, whatever the buffer makes of a line.                                 *)
(***************************************************************************)
EXTENDS OilIni, SequenceTheorems, WellFoundedInduction, TLAPS

-----------------------------------------------------------------------------
(* Least and greatest positions *)

\* A set of numbers that is not empty has a least element.
LEMMA MinIs ==
    ASSUME NEW S \in SUBSET Nat, S # {}
    PROVE  Min(S) \in S /\ \A m \in S : Min(S) <= m
<1> DEFINE R == {ss \in Nat \X Nat : ss[1] < ss[2]}
<1>1. IsWellFoundedOn(R, Nat)
  BY NatLessThanWellFounded, Zenon DEF OpToRel
<1> HIDE DEF R
<1>2. PICK n \in S : \A m \in S : <<m, n>> \notin R
  BY <1>1, WFMin
<1>3. ASSUME NEW m \in S PROVE n <= m
  <2>1. <<m, n>> \notin R
    BY <1>2
  <2> QED BY <2>1 DEF R
<1> QED BY <1>3 DEF Min

\* A set of numbers with a bound that is not empty has a greatest element.
LEMMA MaxIs ==
    ASSUME NEW n \in Nat, NEW S \in SUBSET (0..n), S # {}
    PROVE  Max(S) \in S /\ \A m \in S : m <= Max(S)
<1> DEFINE T == {n - i : i \in S}
           t == Min(T)
<1>1. T \in SUBSET Nat /\ T # {}
  <2>1. \A i \in S : n - i \in Nat
    OBVIOUS
  <2> QED BY <2>1
<1>2. t \in T /\ \A u \in T : t <= u
  <2> HIDE DEF T
  <2> QED BY <1>1, MinIs
<1> HIDE DEF t
<1>3. PICK i \in S : t = n - i
  BY <1>2
<1>4. ASSUME NEW j \in S PROVE j <= i
  <2>1. n - i <= n - j
    BY <1>2, <1>3
  <2> QED BY <2>1
<1>5. \A j \in S : i >= j
  BY <1>4
<1> QED BY <1>5 DEF Max

-----------------------------------------------------------------------------
(* The buffer *)

Char == Chars \cup {NUL}
Size == MAX_LINE_LEN + 1

\* The size of the buffer.
LEMMA SizeIs == MAX_LINE_LEN \in Nat /\ MAX_LINE_LEN > 1 /\ Size = MAX_LINE_LEN + 1
<1>1. MAX_LINE_LEN \in Nat \ {0, 1}
  BY OilIniAssumption
<1> QED BY <1>1 DEF Size

\* What ends a string is not a character of one.
LEMMA CharactersAre ==
    /\ {Blank, "#", "[", "]", "="} \subseteq Chars /\ NUL \notin Chars
    /\ NUL \notin {Blank, "#", "[", "]", "="}
<1>1. {Blank, "#", "[", "]", "="} \subseteq Chars /\ NUL \notin Chars
  BY OilIniAssumption, Zenon DEF Blank
<1>2. NUL \notin {Blank, "#", "[", "]", "="}
  BY <1>1, Zenon
<1> QED BY <1>1, <1>2

\* The last character of the buffer ends every string in it
Buffer(buf) == buf \in [1..Size -> Char] /\ buf[Size] = NUL

\* A buffer is a sequence of its size.
LEMMA BufferIsSeq ==
    ASSUME NEW buf \in [1..Size -> Char]
    PROVE  buf \in Seq(Char) /\ Len(buf) = Size /\ DOMAIN buf = 1..Size
<1>1. Size \in Nat
  BY SizeIs
<1>2. buf \in Seq(Char)
  BY <1>1, SeqDef
<1>3. Len(buf) \in Nat /\ DOMAIN buf = 1..Len(buf) /\ DOMAIN buf = 1..Size
  BY <1>2, LenProperties
<1> QED BY <1>1, <1>2, <1>3

\* The part of s that has length n and follows the first m characters
PartOf(t, s, m, n) == t \in Seq(Char) /\ Len(t) = n /\ \A k \in 1..n : t[k] = s[m + k]

\* It is a SubSeq.
LEMMA PartIs ==
    ASSUME NEW s, NEW m \in Nat, NEW n \in Nat, \A k \in (m + 1)..(m + n) : s[k] \in Char
    PROVE  PartOf(SubSeq(s, m + 1, m + n), s, m, n)
<1> DEFINE t == SubSeq(s, m + 1, m + n)
<1>1. /\ t \in Seq(Char) /\ Len(t) = (IF m + 1 <= m + n THEN m + n - (m + 1) + 1 ELSE 0)
      /\ \A k \in 1..(m + n - (m + 1) + 1) : t[k] = s[m + 1 + k - 1]
  <2>1. m + 1 \in Int /\ m + n \in Int
    OBVIOUS
  <2> QED BY <2>1, SubSeqProperties
<1> HIDE DEF t
<1>2. m + n - (m + 1) + 1 = n /\ \A k \in 1..n : m + 1 + k - 1 = m + k
  OBVIOUS
<1>3. Len(t) = n
  BY <1>1
<1>4. \A k \in 1..n : t[k] = s[m + k]
  BY <1>1, <1>2
<1> QED BY <1>1, <1>3, <1>4 DEF PartOf, t

\* The m characters of s from i on, and behind them the n of u from j on
Joined(r, s, i, m, u, j, n) ==
    /\ r \in Seq(Char) /\ Len(r) = m + n
    /\ \A k \in 1..(m + n) : r[k] = IF k <= m THEN s[i + k] ELSE u[j + (k - m)]

\* Two sequences, one behind the other.
LEMMA JoinIs ==
    ASSUME NEW a, NEW b, NEW m \in Nat, NEW n \in Nat, NEW s, NEW i, NEW u, NEW j,
           PartOf(a, s, i, m), PartOf(b, u, j, n)
    PROVE  Joined(a \o b, s, i, m, u, j, n)
<1> DEFINE r == a \o b
<1>1. a \in Seq(Char) /\ b \in Seq(Char) /\ Len(a) = m /\ Len(b) = n
  BY DEF PartOf
<1>2. /\ r \in Seq(Char) /\ Len(r) = Len(a) + Len(b)
      /\ \A k \in 1..(Len(a) + Len(b)) : r[k] = IF k <= Len(a) THEN a[k] ELSE b[k - Len(a)]
  BY <1>1, ConcatProperties
<1> HIDE DEF r
<1>3. Len(r) = m + n /\ \A k \in 1..(m + n) : r[k] = IF k <= m THEN a[k] ELSE b[k - m]
  BY <1>1, <1>2
<1>4. ASSUME NEW k \in 1..(m + n) PROVE r[k] = IF k <= m THEN s[i + k] ELSE u[j + (k - m)]
  <2>1. CASE k <= m
    <3>1. k \in 1..m
      BY <2>1
    <3>2. a[k] = s[i + k]
      BY <3>1 DEF PartOf
    <3> QED BY <1>3, <2>1, <3>2
  <2>2. CASE ~(k <= m)
    <3>1. k - m \in 1..n
      BY <2>2
    <3>2. b[k - m] = u[j + (k - m)]
      BY <3>1 DEF PartOf
    <3> QED BY <1>3, <2>2, <3>2
  <2> QED BY <2>1, <2>2
<1> QED BY <1>2, <1>3, <1>4 DEF r, Joined

\* The shorter of two lengths.
LEMMA Shorter ==
    ASSUME NEW x \in Nat, NEW y \in Nat
    PROVE  /\ Min({x, y}) \in Nat /\ Min({x, y}) <= x /\ Min({x, y}) <= y
           /\ x <= y => Min({x, y}) = x
<1>1. Min({x, y}) \in {x, y} /\ \A z \in {x, y} : Min({x, y}) <= z
  BY MinIs
<1> QED BY <1>1

\* What is read of a line
Read(s, max) == Min({Len(s), max})

\* A line copied over the buffer leaves what is behind it.
LEMMA OverlayIs ==
    ASSUME NEW buf, Buffer(buf), NEW s \in Seq(Chars)
    PROVE  /\ Buffer(Overlay(buf, s))
           /\ \A k \in 1..Size :
                 Overlay(buf, s)[k] = IF k <= Read(s, MAX_LINE_LEN) THEN s[k] ELSE buf[k]
<1> DEFINE n == Read(s, MAX_LINE_LEN)
           r == Overlay(buf, s)
           d == Size - n
<1>1. Len(s) \in Nat /\ MAX_LINE_LEN \in Nat /\ \A k \in 1..Len(s) : s[k] \in Char
  BY LenProperties, ElementOfSeq, SizeIs DEF Char
<1>2. n \in Nat /\ n <= Len(s) /\ n <= MAX_LINE_LEN
  BY <1>1, Shorter DEF Read
<1>3. buf \in [1..Size -> Char] /\ Len(buf) = Size /\ buf[Size] = NUL
  BY BufferIsSeq DEF Buffer
<1>4. r = SubSeq(s, 1, n) \o SubSeq(buf, n + 1, Size)
  BY <1>3 DEF Overlay, Read
<1> HIDE DEF r, n
<1>5. Size \in Nat /\ d \in Nat /\ d > 0 /\ n + d = Size /\ 0 + 1 = 1 /\ 0 + n = n
  BY <1>1, <1>2 DEF Size
<1> HIDE DEF d
<1>6. PartOf(SubSeq(s, 0 + 1, 0 + n), s, 0, n)
  <2>1. \A k \in (0 + 1)..(0 + n) : s[k] \in Char
    BY <1>1, <1>2, <1>5
  <2> QED BY <1>2, <2>1, PartIs
<1>7. PartOf(SubSeq(buf, n + 1, n + d), buf, n, d)
  <2>1. \A k \in (n + 1)..(n + d) : buf[k] \in Char
    BY <1>2, <1>3, <1>5
  <2> QED BY <1>2, <1>5, <2>1, PartIs
<1>8. /\ r \in Seq(Char) /\ Len(r) = n + d
      /\ \A k \in 1..(n + d) : r[k] = IF k <= n THEN s[0 + k] ELSE buf[n + (k - n)]
  <2>1. r = SubSeq(s, 0 + 1, 0 + n) \o SubSeq(buf, n + 1, n + d)
    BY <1>4, <1>5
  <2> DEFINE a == SubSeq(s, 0 + 1, 0 + n)
             b == SubSeq(buf, n + 1, n + d)
  <2>2. PartOf(a, s, 0, n) /\ PartOf(b, buf, n, d) /\ r = a \o b
    BY <1>6, <1>7, <2>1
  <2> HIDE DEF a, b
  <2>3. Joined(a \o b, s, 0, n, buf, n, d)
    BY <1>2, <1>5, <2>2, JoinIs
  <2> QED BY <2>2, <2>3 DEF Joined
<1>9. ASSUME NEW k \in 1..Size PROVE r[k] = IF k <= n THEN s[k] ELSE buf[k]
  <2>1. k \in 1..(n + d) /\ 0 + k = k /\ n + (k - n) = k
    BY <1>2, <1>5
  <2> QED BY <1>8, <2>1
<1>10. Buffer(r)
  <2>1. r \in [1..Size -> Char]
    BY <1>5, <1>8, LenProperties
  <2>2. Size \in 1..Size /\ ~(Size <= n)
    BY <1>2, <1>5
  <2>3. r[Size] = NUL
    BY <1>3, <1>9, <2>2
  <2> QED BY <2>1, <2>3 DEF Buffer
<1> QED BY <1>9, <1>10 DEF r, n

\* What follows the last newline is padded, as far as strncpy is told.
LEMMA PaddedIs ==
    ASSUME NEW buf, Buffer(buf), NEW s \in Seq(Chars)
    PROVE  /\ Buffer(Padded(buf, s))
           /\ \A k \in 1..Size :
                 Padded(buf, s)[k] = IF k <= Read(s, MAX_LINE_LEN - 1) THEN s[k]
                                     ELSE IF k < MAX_LINE_LEN THEN NUL ELSE buf[k]
<1> DEFINE m == MAX_LINE_LEN - 1
           n == Read(s, m)
           r == Padded(buf, s)
           d == m - n
           nul == [k \in 1..d |-> NUL]
<1>1. Len(s) \in Nat /\ m \in Nat /\ \A k \in 1..Len(s) : s[k] \in Char
  BY LenProperties, ElementOfSeq, SizeIs DEF Char
<1>2. n \in Nat /\ n <= Len(s) /\ n <= m
  <2> HIDE DEF m
  <2> QED BY <1>1, Shorter DEF Read
<1>3. buf \in [1..Size -> Char] /\ Len(buf) = Size /\ buf[Size] = NUL
  BY BufferIsSeq DEF Buffer
<1>4. r = (SubSeq(s, 1, n) \o nul) \o SubSeq(buf, MAX_LINE_LEN, Size)
  BY <1>3 DEF Padded, Read
<1>5. Size = m + 2 /\ MAX_LINE_LEN = m + 1
  BY SizeIs
<1> HIDE DEF r, n, m
<1>6. d \in Nat /\ n + d = m /\ 0 + 1 = 1 /\ 0 + n = n
  BY <1>1, <1>2
<1>7. PartOf(nul, nul, 0, d)
  <2>1. nul \in [1..d -> Char]
    BY DEF Char
  <2> HIDE DEF nul, d
  <2>2. nul \in Seq(Char)
    BY <1>6, <2>1, SeqDef
  <2>3. Len(nul) \in Nat /\ DOMAIN nul = 1..Len(nul) /\ DOMAIN nul = 1..d
    BY <2>1, <2>2, LenProperties
  <2>4. Len(nul) = d
    <3>1. d \in Nat /\ Len(nul) \in Nat /\ 1..Len(nul) = 1..d
      BY <1>6, <2>3
    <3> QED BY ONLY <3>1
  <2>5. \A k \in 1..d : nul[k] = nul[0 + k]
    BY <1>6
  <2> QED BY <2>2, <2>4, <2>5 DEF PartOf
<1>8. \A k \in 1..d : nul[k] = NUL
  OBVIOUS
<1> HIDE DEF nul, d
<1>9. PartOf(SubSeq(s, 0 + 1, 0 + n), s, 0, n)
  <2>1. \A k \in (0 + 1)..(0 + n) : s[k] \in Char
    BY <1>1, <1>2, <1>6
  <2> QED BY <1>2, <2>1, PartIs
<1>10. PartOf(SubSeq(buf, m + 1, m + 2), buf, m, 2)
  <2>1. \A k \in (m + 1)..(m + 2) : buf[k] \in Char
    BY <1>1, <1>3, <1>5
  <2> QED BY <1>1, <2>1, PartIs
<1> DEFINE a == SubSeq(s, 0 + 1, 0 + n)
           c == SubSeq(buf, m + 1, m + 2)
           ab == a \o nul
<1>11. r = ab \o c
  BY <1>4, <1>5, <1>6
<1>12. PartOf(a, s, 0, n) /\ PartOf(c, buf, m, 2)
  BY <1>9, <1>10
<1> HIDE DEF a, c
<1>13. /\ ab \in Seq(Char) /\ Len(ab) = n + d
       /\ \A k \in 1..(n + d) : ab[k] = IF k <= n THEN s[0 + k] ELSE nul[0 + (k - n)]
  <2>1. Joined(ab, s, 0, n, nul, 0, d)
    BY <1>2, <1>6, <1>7, <1>12, JoinIs
  <2> HIDE DEF ab
  <2> QED BY <2>1 DEF Joined
<1> HIDE DEF ab
<1>14. PartOf(ab, ab, 0, m)
  <2>1. \A k \in 1..m : ab[k] = ab[0 + k]
    BY <1>1
  <2> QED BY <1>6, <1>13, <2>1 DEF PartOf
<1>15. /\ r \in Seq(Char) /\ Len(r) = m + 2
       /\ \A k \in 1..(m + 2) : r[k] = IF k <= m THEN ab[0 + k] ELSE buf[m + (k - m)]
  <2>1. Joined(ab \o c, ab, 0, m, buf, m, 2)
    <3>1. 2 \in Nat
      OBVIOUS
    <3> QED BY <1>1, <1>12, <1>14, <3>1, JoinIs
  <2> QED BY <1>11, <2>1 DEF Joined
<1>16. ASSUME NEW k \in 1..Size
       PROVE  r[k] = IF k <= n THEN s[k] ELSE IF k < MAX_LINE_LEN THEN NUL ELSE buf[k]
  <2>1. k \in 1..(m + 2) /\ 0 + k = k /\ m + (k - m) = k /\ (k < MAX_LINE_LEN <=> k <= m)
    BY <1>1, <1>5
  <2>2. CASE k <= n
    <3>1. k \in 1..(n + d) /\ k <= m
      BY <1>2, <1>6, <2>1, <2>2
    <3> QED BY <1>13, <1>15, <2>1, <2>2, <3>1
  <2>3. CASE ~(k <= n) /\ k <= m
    <3>1. k \in 1..(n + d) /\ k - n \in 1..d /\ 0 + (k - n) = k - n
      BY <1>2, <1>6, <2>1, <2>3
    <3>2. nul[0 + (k - n)] = NUL
      BY <1>8, <3>1
    <3> QED BY <1>13, <1>15, <2>1, <2>3, <3>1, <3>2
  <2>4. CASE ~(k <= m)
    <3>1. ~(k <= n)
      BY <1>1, <1>2, <2>1, <2>4
    <3> QED BY <1>15, <2>1, <2>4, <3>1
  <2> QED BY <2>2, <2>3, <2>4
<1>17. Buffer(r)
  <2>1. r \in [1..Size -> Char]
    BY <1>5, <1>15, LenProperties
  <2>2. Size \in 1..Size /\ ~(Size <= n) /\ ~(Size < MAX_LINE_LEN)
    BY <1>1, <1>2, <1>5
  <2>3. r[Size] = NUL
    BY <1>3, <1>16, <2>2
  <2> QED BY <2>1, <2>3 DEF Buffer
<1> QED BY <1>16, <1>17 DEF r, n, m

\* What an ini-string is made of.
LEMMA LinesAre ==
    ASSUME NEW t \in Texts
    PROVE  /\ t \in Seq(Seq(Chars)) /\ Len(t) \in Nat \ {0}
           /\ \A i \in 1..Len(t) : t[i] \in Seq(Chars)
<1>1. t \in Seq(Seq(Chars)) /\ Len(t) > 0
  BY OilIniAssumption
<1> QED BY <1>1, LenProperties, ElementOfSeq

\* Whatever line is read, the buffer stays a buffer.
LEMMA FilledIs ==
    ASSUME Buffer(line), text \in Texts, next \in 1..Len(text)
    PROVE  Buffer(Filled)
<1>1. text[next] \in Seq(Chars)
  BY LinesAre
<1>2. Buffer(Overlay(line, text[next])) /\ Buffer(Padded(line, text[next]))
  BY <1>1, OverlayIs, PaddedIs
<1> QED BY <1>2 DEF Filled

\* Something in a buffer is no blank: its end, if nothing else.
LEMMA FirstIs ==
    ASSUME NEW buf, Buffer(buf), NEW f, f = First(buf)
    PROVE  /\ f \in 1..Size /\ buf[f] # Blank /\ buf[f] \in Char
           /\ \A k \in 1..Size : buf[k] # Blank => f <= k
<1>1. /\ buf \in [1..Size -> Char] /\ buf[Size] = NUL /\ Len(buf) = Size
      /\ Size \in Nat /\ Size > 0
  BY BufferIsSeq, SizeIs DEF Buffer
<1>2. NUL # Blank
  BY CharactersAre
<1> DEFINE S == {k \in 1..Size : buf[k] # Blank}
<1>3. f = Min(S)
  BY <1>1 DEF First, Inked
<1>4. S \in SUBSET Nat /\ Size \in S
  BY <1>1, <1>2
<1>5. f \in S /\ \A k \in S : f <= k
  <2> HIDE DEF S
  <2> QED BY <1>3, <1>4, MinIs
<1> QED BY <1>1, <1>5

\* A string in a buffer has an end.
LEMMA EndIs ==
    ASSUME NEW buf, Buffer(buf), NEW i \in 1..Size, NEW e, e = End(buf, i)
    PROVE  /\ e \in i..Size /\ buf[e] = NUL
           /\ \A k \in i..(e - 1) : k \in 1..Size /\ buf[k] \in Chars
<1>1. /\ buf \in [1..Size -> Char] /\ buf[Size] = NUL /\ Len(buf) = Size
      /\ Size \in Nat /\ Size > 0
  BY BufferIsSeq, SizeIs DEF Buffer
<1> DEFINE S == {k \in i..Size : buf[k] = NUL}
<1>2. e = Min(S)
  BY <1>1 DEF End
<1>3. S \in SUBSET Nat /\ Size \in S
  BY <1>1
<1>4. e \in S /\ \A k \in S : e <= k
  <2> HIDE DEF S
  <2> QED BY <1>2, <1>3, MinIs
<1>5. e \in i..Size /\ buf[e] = NUL
  BY <1>4
<1>6. ASSUME NEW k \in i..(e - 1) PROVE k \in 1..Size /\ buf[k] \in Chars
  <2>1. k \in i..Size /\ k \in 1..Size /\ ~(e <= k)
    BY <1>1, <1>5
  <2>2. k \notin S
    BY <1>4, <2>1
  <2>3. buf[k] # NUL
    BY <2>1, <2>2
  <2> QED BY <1>1, <2>1, <2>3 DEF Char
<1> QED BY <1>5, <1>6

\* What is stripped of characters that are none of them NUL is a string.
LEMMA StripIsString ==
    ASSUME NEW s, NEW i \in Nat, NEW j \in Int, \A k \in i..j : s[k] \in Chars
    PROVE  Strip(s, i, j) \in Seq(Chars)
<1> DEFINE S == Inked(s, i, j)
<1>1. S \in SUBSET Nat /\ S \in SUBSET (i..j)
  BY DEF Inked
<1>2. CASE S = {}
  <2>1. Strip(s, i, j) = <<>>
    BY <1>2 DEF Strip
  <2> QED BY <2>1, EmptySeq
<1>3. CASE S # {}
  <2> DEFINE a == Min(S)
             b == Max(S)
  <2>1. a \in S
    <3> HIDE DEF S
    <3> QED BY <1>1, <1>3, MinIs
  <2>2. b \in S
    <3>1. j \in Nat /\ S \in SUBSET (0..j)
      BY <1>1, <1>3
    <3> HIDE DEF S
    <3> QED BY <1>3, <3>1, MaxIs
  <2>3. Strip(s, i, j) = SubSeq(s, a, b)
    BY <1>3 DEF Strip
  <2> HIDE DEF S, a, b
  <2>4. a \in i..j /\ b \in i..j
    BY <1>1, <2>1, <2>2
  <2>5. \A k \in a..b : s[k] \in Chars
    BY <2>4
  <2>6. SubSeq(s, a, b) \in Seq(Chars)
    BY <2>4, <2>5, SubSeqProperties
  <2> QED BY <2>3, <2>6
<1> QED BY <1>2, <1>3

\* The parser writes only NUL into the buffer.
LEMMA ParsedIsBuffer ==
    ASSUME NEW buf, Buffer(buf), NEW S
    PROVE  Buffer([k \in DOMAIN buf |-> IF k \in S THEN NUL ELSE buf[k]])
<1>1. buf \in [1..Size -> Char] /\ buf[Size] = NUL /\ DOMAIN buf = 1..Size /\ Size \in 1..Size
  BY BufferIsSeq, SizeIs DEF Buffer
<1>2. NUL \in Char
  BY DEF Char
<1> QED BY <1>1, <1>2 DEF Buffer

\* The types, as far as they are kept: a string that is in force lives
IniTypes ==
    /\ text \in Texts /\ next \in 1..(Len(text) + 1)
    /\ status = "loading" => next <= Len(text)
    /\ Buffer(line)
    /\ section = NULL \/ section \in Seq(Chars)
    /\ sections = IF section = NULL \/ status = "done" THEN 0 ELSE 1
    /\ status \in {"loading", "done", "aborted"}

\* To go on with the next line keeps them, if the section in force is held.
LEMMA AdvanceKeeps ==
    ASSUME IniTypes, status = "loading", Buffer(line'), section' = NULL \/ section' \in Seq(Chars),
           NEW held, held = (IF section' = NULL THEN 0 ELSE 1), Advance(held)
    PROVE  /\ IniTypes' /\ text' = text /\ next' = next + 1 /\ status' # "aborted"
           /\ status' = "loading" => next # Len(text)
<1>1. /\ text \in Texts /\ next \in 1..Len(text) /\ Len(text) \in Nat
  BY LinesAre DEF IniTypes
<1>2. text' = text /\ next' = next + 1
  BY DEF Advance
<1>3. CASE next = Len(text)
  <2>1. status' = "done" /\ sections' = held - (IF section' = NULL THEN 0 ELSE 1)
    BY <1>3 DEF Advance
  <2>2. sections' = 0
    BY <2>1
  <2> QED BY <1>1, <1>2, <1>3, <2>1, <2>2 DEF IniTypes
<1>4. CASE next # Len(text)
  <2>1. status' = status /\ sections' = held
    BY <1>4 DEF Advance
  <2>2. next + 1 \in 1..(Len(text) + 1) /\ next + 1 <= Len(text)
    BY <1>1, <1>4
  <2> QED BY <1>1, <1>2, <1>4, <2>1, <2>2 DEF IniTypes
<1> QED BY <1>3, <1>4

\* While an ini-string is loaded, a line is read as one of four kinds.
LEMMA TypesStep ==
    ASSUME IniTypes, [Next]_vars
    PROVE  /\ IniTypes'
           /\ text' = text
<1>1. ASSUME status = "loading"
      PROVE  /\ text \in Texts /\ next \in 1..Len(text) /\ Buffer(Filled) /\ Buffer(line)
             /\ section = NULL \/ section \in Seq(Chars)
             /\ sections = IF section = NULL THEN 0 ELSE 1
  <2>1. text \in Texts /\ next \in 1..Len(text) /\ Buffer(line)
    BY <1>1, LinesAre DEF IniTypes
  <2>2. Buffer(Filled)
    BY <2>1, FilledIs
  <2> QED BY <1>1, <2>1, <2>2 DEF IniTypes
<1>2. CASE status = "loading" /\ IgnoreLine
  <2>1. line' = Filled /\ section' = section /\ Advance(sections)
    BY <1>2 DEF IgnoreLine
  <2> QED BY <1>1, <1>2, <2>1, AdvanceKeeps
<1>3. CASE status = "loading" /\ ReadSection
  <2> DEFINE buf == Filled
             first == First(buf)
             right == Min(Places(buf, first, "]"))
             held == sections + 1 - (IF section = NULL THEN 0 ELSE 1)
             ends == {right} \cup Chomps(buf, first + 1, right - 1)
  <2>1. /\ Places(buf, first, "]") # {}
        /\ section' = Strip(buf, first + 1, right - 1)
        /\ line' = [k \in DOMAIN buf |-> IF k \in ends THEN NUL ELSE buf[k]]
        /\ Advance(held)
    BY <1>3 DEF ReadSection
  <2>2. Buffer(buf)
    BY <1>1, <1>3
  <2> HIDE DEF buf
  <2>3. first \in 1..Size
    BY <2>2, FirstIs
  <2> DEFINE e == End(buf, first)
  <2>4. e \in first..Size /\ \A k \in first..(e - 1) : buf[k] \in Chars
    <3> HIDE DEF first
    <3> QED BY <2>2, <2>3, EndIs
  <2>5. right \in first..(e - 1)
    <3> DEFINE S == Places(buf, first, "]")
    <3>1. S \in SUBSET Nat /\ S \in SUBSET (first..(e - 1))
      BY <2>3 DEF Places
    <3> HIDE DEF S
    <3>2. Min(S) \in S
      BY <2>1, <3>1, MinIs DEF S
    <3> QED BY <3>1, <3>2 DEF S
  <2> HIDE DEF right, first, e
  <2>6. Strip(buf, first + 1, right - 1) \in Seq(Chars)
    <3>1. Size \in Nat
      BY SizeIs
    <3>2. first + 1 \in Nat /\ right - 1 \in Int
      BY <2>3, <2>4, <2>5, <3>1
    <3>3. \A k \in (first + 1)..(right - 1) : buf[k] \in Chars
      BY <2>3, <2>4, <2>5, <3>1
    <3> QED BY <3>2, <3>3, StripIsString
  <2>7. section' \in Seq(Chars) /\ section' # NULL
    BY <2>1, <2>6, OilIniAssumption
  <2> HIDE DEF ends
  <2>8. Buffer(line')
    BY <2>1, <2>2, ParsedIsBuffer
  <2>9. held = 1
    BY <1>1, <1>3
  <2> HIDE DEF held
  <2> QED BY <1>3, <2>1, <2>7, <2>8, <2>9, AdvanceKeeps
<1>4. CASE status = "loading" /\ ReadKey
  <2> DEFINE buf == Filled
             first == First(buf)
             equal == Min(Places(buf, first, "="))
             end == End(buf, first) - 1
             ends == {equal} \cup Chomps(buf, first, equal - 1) \cup Chomps(buf, equal + 1, end)
  <2>1. /\ line' = [k \in DOMAIN buf |-> IF k \in ends THEN NUL ELSE buf[k]]
        /\ section' = section /\ Advance(sections)
    BY <1>4 DEF ReadKey
  <2>2. Buffer(buf)
    BY <1>1, <1>4
  <2> HIDE DEF buf, ends
  <2>3. Buffer(line')
    BY <2>1, <2>2, ParsedIsBuffer
  <2> QED BY <1>1, <1>4, <2>1, <2>3, AdvanceKeeps
<1>5. CASE status = "loading" /\ RejectLine
  <2>1. /\ status' = "aborted" /\ line' = Filled /\ text' = text /\ next' = next
        /\ section' = section /\ sections' = sections
    BY <1>5 DEF RejectLine
  <2> QED BY <1>1, <1>5, <2>1 DEF IniTypes
<1>6. CASE Over \/ UNCHANGED vars
  <2>1. /\ text' = text /\ next' = next /\ line' = line /\ section' = section
        /\ sections' = sections /\ status' = status
    BY <1>6 DEF Over, vars
  <2> QED BY <2>1 DEF IniTypes
<1> QED BY <1>2, <1>3, <1>4, <1>5, <1>6 DEF Next

-----------------------------------------------------------------------------
(* What a line means *)

\* The buffer holds a line, which ends there
Holding(buf, s) == \A k \in 1..Size : k <= Len(s) + 1 => buf[k] = IF k <= Len(s) THEN s[k] ELSE NUL

InkOf(s) == Inked(s, 1, Len(s))

\* Said(i) is the beginning of line i, as far as it is read.
LEMMA SaidIs ==
    ASSUME text \in Texts, NEW i \in 1..Len(text)
    PROVE  /\ Said(i) \in Seq(Chars) /\ Len(Said(i)) \in Nat
           /\ i < Len(text) => /\ Len(Said(i)) = Read(text[i], MAX_LINE_LEN)
                              /\ Len(Said(i)) <= MAX_LINE_LEN
           /\ ~(i < Len(text)) => /\ Len(Said(i)) = Read(text[i], MAX_LINE_LEN - 1)
                                 /\ Len(Said(i)) <= MAX_LINE_LEN - 1
           /\ \A k \in 1..Len(Said(i)) : Said(i)[k] = text[i][k] /\ Said(i)[k] \in Chars
<1> DEFINE s == text[i]
           max == IF i < Len(text) THEN MAX_LINE_LEN ELSE MAX_LINE_LEN - 1
           n == Read(s, max)
           t == SubSeq(s, 1, n)
<1>1. s \in Seq(Chars) /\ Len(s) \in Nat /\ \A k \in 1..Len(s) : s[k] \in Chars
  BY LinesAre, LenProperties, ElementOfSeq
<1>2. max \in Nat
  BY SizeIs
<1>3. Said(i) = t
  BY DEF Said, Read
<1> HIDE DEF s, max
<1>4. n \in Nat /\ n <= Len(s) /\ n <= max
  BY <1>1, <1>2, Shorter DEF Read
<1> HIDE DEF n
<1>5. t \in Seq(Chars) /\ Len(t) = n /\ \A k \in 1..n : t[k] = s[k]
  <2>1. \A k \in 1..n : s[k] \in Chars
    BY <1>1, <1>4
  <2>2. 1 \in Int /\ n \in Int /\ n - 1 + 1 = n /\ \A k \in 1..n : 1 + k - 1 = k
    BY <1>4
  <2>3. /\ t \in Seq(Chars) /\ Len(t) = (IF 1 <= n THEN n - 1 + 1 ELSE 0)
        /\ \A k \in 1..(n - 1 + 1) : t[k] = s[1 + k - 1]
    BY <2>1, <2>2, SubSeqProperties
  <2> HIDE DEF t
  <2>4. Len(t) = n
    BY <1>4, <2>2, <2>3
  <2> QED BY <2>2, <2>3, <2>4
<1> HIDE DEF t
<1>6. \A k \in 1..n : t[k] \in Chars
  BY <1>1, <1>4, <1>5
<1>7. CASE i < Len(text)
  BY <1>3, <1>4, <1>5, <1>6, <1>7 DEF n, s, max
<1>8. CASE ~(i < Len(text))
  BY <1>3, <1>4, <1>5, <1>6, <1>8 DEF n, s, max
<1> QED BY <1>7, <1>8

\* A line that reaches as far as what was in the buffer, or is padded, ends where it should.
LEMMA FilledHolds ==
    ASSUME Buffer(line), text \in Texts, next \in 1..Len(text),
           NEW p \in Nat, p <= Len(Said(next)) \/ (~(next < Len(text)) /\ Len(Said(next)) < MAX_LINE_LEN - 1),
           \A k \in 1..Size : k > p => line[k] = NUL
    PROVE  /\ Holding(Filled, Said(next))
           /\ next < Len(text) => \A k \in 1..Size : k > Len(Said(next)) => Filled[k] = NUL
<1> DEFINE s == text[next]
           t == Said(next)
           n == Len(t)
<1>1. s \in Seq(Chars) /\ Size = MAX_LINE_LEN + 1 /\ MAX_LINE_LEN \in Nat
  BY LinesAre, SizeIs
<1>2. /\ n \in Nat /\ \A k \in 1..n : t[k] = s[k]
      /\ next < Len(text) => n = Read(s, MAX_LINE_LEN) /\ n <= MAX_LINE_LEN
      /\ ~(next < Len(text)) => n = Read(s, MAX_LINE_LEN - 1) /\ n <= MAX_LINE_LEN - 1
  BY SaidIs
<1>3. p <= n \/ (~(next < Len(text)) /\ n < MAX_LINE_LEN - 1)
  OBVIOUS
<1>4. CASE next < Len(text)
  <2>1. ASSUME NEW k \in 1..Size PROVE Filled[k] = IF k <= n THEN t[k] ELSE NUL
    <3>1. Filled[k] = IF k <= n THEN s[k] ELSE line[k]
      <4>1. Filled = Overlay(line, s)
        BY <1>4 DEF Filled
      <4>2. n = Read(s, MAX_LINE_LEN)
        BY <1>2, <1>4
      <4> HIDE DEF s, n
      <4> QED BY <1>1, <2>1, <4>1, <4>2, OverlayIs
    <3>2. ~(k <= n) => k > p
      <4> HIDE DEF n
      <4> QED BY <1>2, <1>3, <1>4
    <3>3. k <= n => t[k] = s[k]
      <4>1. k <= n => k \in 1..n
        <5> HIDE DEF n
        <5> QED BY <1>2
      <4> QED BY <1>2, <4>1
    <3> HIDE DEF s, n, t
    <3> QED BY <2>1, <3>1, <3>2, <3>3
  <2>2. \A k \in 1..Size : k > n => ~(k <= n)
    <3> HIDE DEF n
    <3> QED BY <1>1, <1>2
  <2> QED BY <2>1, <2>2 DEF Holding
<1>5. CASE ~(next < Len(text))
  <2>1. ASSUME NEW k \in 1..Size, k <= n + 1 PROVE Filled[k] = IF k <= n THEN t[k] ELSE NUL
    <3>1. Filled[k] = IF k <= n THEN s[k] ELSE IF k < MAX_LINE_LEN THEN NUL ELSE line[k]
      <4>1. Filled = Padded(line, s)
        BY <1>5 DEF Filled
      <4>2. n = Read(s, MAX_LINE_LEN - 1)
        BY <1>2, <1>5
      <4> HIDE DEF s, n
      <4> QED BY <1>1, <2>1, <4>1, <4>2, PaddedIs
    <3>2. ~(k <= n) /\ ~(k < MAX_LINE_LEN) => k > p
      <4>1. n <= MAX_LINE_LEN - 1
        BY <1>2, <1>5
      <4> HIDE DEF n
      <4> QED BY <1>1, <1>2, <1>3, <2>1, <4>1
    <3>3. k <= n => t[k] = s[k]
      <4>1. k <= n => k \in 1..n
        <5> HIDE DEF n
        <5> QED BY <1>2
      <4> QED BY <1>2, <4>1
    <3> HIDE DEF s, n, t
    <3> QED BY <2>1, <3>1, <3>2, <3>3
  <2> QED BY <1>5, <2>1 DEF Holding
<1> QED BY <1>4, <1>5

\* In a buffer where it ends a line is read as it is written.
LEMMA LineIsRead ==
    ASSUME NEW buf, Buffer(buf), NEW s \in Seq(Chars), Len(s) < Size, Holding(buf, s)
    PROVE  /\ InkOf(s) = {} => buf[First(buf)] = NUL
           /\ InkOf(s) # {} => /\ First(buf) = Min(InkOf(s)) /\ First(buf) \in 1..Len(s)
                               /\ buf[First(buf)] = s[First(buf)] /\ s[First(buf)] \in Chars
                               /\ End(buf, First(buf)) = Len(s) + 1
                               /\ \A k \in 1..(First(buf) - 1) : s[k] = Blank
                               /\ \A c : c # Blank =>
                                     Places(buf, First(buf), c) = {k \in InkOf(s) : s[k] = c}
<1> DEFINE n == Len(s)
           ink == InkOf(s)
           f == First(buf)
<1>1. n \in Nat /\ n < Size /\ Size \in Nat /\ n + 1 \in 1..Size /\ \A k \in 1..n : s[k] \in Chars
  BY LenProperties, ElementOfSeq, SizeIs
<1>2. ink = {k \in 1..n : s[k] # Blank}
  BY DEF InkOf, Inked
<1>3. /\ f \in 1..Size /\ buf[f] # Blank
      /\ \A k \in 1..Size : buf[k] # Blank => f <= k
  BY FirstIs
<1>4. \A k \in 1..Size : k <= n + 1 => buf[k] = IF k <= n THEN s[k] ELSE NUL
  BY DEF Holding
<1>5. NUL # Blank /\ NUL \notin Chars
  BY CharactersAre
<1> HIDE DEF n, ink, f
<1>6. ASSUME ink = {} PROVE buf[f] = NUL
  <2>1. ~(f <= n)
    <3> SUFFICES ASSUME f <= n PROVE FALSE
      OBVIOUS
    <3>1. f \in 1..n /\ s[f] # Blank
      BY <1>1, <1>3, <1>4
    <3> QED BY <1>2, <1>6, <3>1
  <2>2. f <= n + 1
    <3>1. buf[n + 1] = NUL
      BY <1>1, <1>4
    <3> QED BY <1>1, <1>3, <1>5, <3>1
  <2> QED BY <1>1, <1>3, <1>4, <2>1, <2>2
<1>7. ASSUME ink # {}
      PROVE  /\ f = Min(ink) /\ f \in 1..n /\ buf[f] = s[f] /\ s[f] \in Chars
             /\ End(buf, f) = n + 1
             /\ \A k \in 1..(f - 1) : s[k] = Blank
             /\ \A c : c # Blank => Places(buf, f, c) = {k \in ink : s[k] = c}
  <2> DEFINE m == Min(ink)
             e == End(buf, f)
  <2>1. m \in ink /\ \A k \in ink : m <= k
    <3>1. ink \in SUBSET Nat
      BY <1>2
    <3> QED BY <1>7, <3>1, MinIs
  <2> HIDE DEF m, e
  <2>2. m \in 1..n /\ m \in 1..Size /\ buf[m] # Blank
    BY <1>1, <1>2, <1>4, <2>1
  <2>3. f <= m /\ f \in 1..n
    BY <1>1, <1>3, <2>2
  <2>4. buf[f] = s[f] /\ f \in ink
    BY <1>1, <1>2, <1>3, <1>4, <2>3
  <2>5. f = m
    <3>1. m <= f
      BY <2>1, <2>4
    <3> QED BY <2>2, <2>3, <3>1
  <2>6. /\ e \in f..Size /\ buf[e] = NUL
        /\ \A k \in f..(e - 1) : k \in 1..Size /\ buf[k] \in Chars
    BY <1>3, EndIs DEF e
  <2>7. e = n + 1
    <3>1. ~(e <= n)
      <4> SUFFICES ASSUME e <= n PROVE FALSE
        OBVIOUS
      <4>1. e \in 1..n /\ e \in 1..Size
        BY <1>1, <2>3, <2>6
      <4>2. s[e] = NUL /\ s[e] \in Chars
        BY <1>1, <1>4, <2>6, <4>1
      <4> QED BY <1>5, <4>2
    <3>2. ~(n + 1 <= e - 1)
      <4> SUFFICES ASSUME n + 1 <= e - 1 PROVE FALSE
        OBVIOUS
      <4>1. n + 1 \in f..(e - 1)
        BY <1>1, <2>3, <2>6
      <4>2. buf[n + 1] = NUL
        BY <1>1, <1>4
      <4> QED BY <1>5, <2>6, <4>1, <4>2
    <3> QED BY <1>1, <2>3, <2>6, <3>1, <3>2
  <2>8. ASSUME NEW k \in 1..(f - 1) PROVE s[k] = Blank
    <3>1. k \in 1..n /\ k \in 1..Size /\ ~(f <= k) /\ k <= n
      BY <1>1, <2>3
    <3>2. buf[k] = Blank
      BY <1>3, <3>1
    <3> QED BY <1>1, <1>4, <3>1, <3>2
  <2>9. ASSUME NEW c, c # Blank PROVE Places(buf, f, c) = {k \in ink : s[k] = c}
    <3>1. Places(buf, f, c) = {k \in f..n : buf[k] = c}
      <4>1. e - 1 = n
        BY <1>1, <2>7
      <4> QED BY <4>1 DEF Places, e
    <3>2. ASSUME NEW k PROVE k \in f..n /\ buf[k] = c <=> k \in ink /\ s[k] = c
      <4>1. ASSUME k \in f..n PROVE k \in 1..n /\ buf[k] = s[k]
        BY <1>1, <1>4, <2>3, <4>1
      <4>2. ASSUME k \in ink PROVE k \in f..n /\ buf[k] = s[k]
        <5>1. k \in 1..n /\ f <= k
          BY <1>2, <2>1, <2>5, <4>2
        <5> QED BY <1>1, <1>4, <2>3, <5>1
      <4> QED BY <1>2, <2>9, <4>1, <4>2
    <3> QED BY <3>1, <3>2
  <2> QED BY <1>1, <2>3, <2>4, <2>5, <2>7, <2>8, <2>9 DEF m, e
<1> QED BY <1>6, <1>7 DEF n, ink, f

\* What is stripped is the same wherever it is written, and however many blanks are before.
LEMMA StripAlike ==
    ASSUME NEW s, NEW t, NEW h \in Nat, NEW i \in Nat, h <= i, NEW j \in Int,
           \A k \in i..j : s[k] = t[k] /\ t[k] \in Chars,
           \A k \in h..(i - 1) : t[k] = Blank
    PROVE  Strip(s, i, j) = Strip(t, h, j)
<1> DEFINE S == Inked(s, i, j)
           a == Min(S)
           b == Max(S)
<1>1. Inked(t, h, j) = S
  <2>1. ASSUME NEW k PROVE k \in h..j /\ t[k] # Blank <=> k \in i..j /\ s[k] # Blank
    <3>1. ASSUME k \in h..j, t[k] # Blank PROVE k \in i..j
      <4>1. k \notin h..(i - 1)
        BY <3>1
      <4> QED BY <3>1, <4>1
    <3>2. k \in i..j => k \in h..j
      OBVIOUS
    <3> QED BY <3>1, <3>2
  <2> QED BY <2>1 DEF Inked
<1>2. CASE S = {}
  BY <1>1, <1>2 DEF Strip
<1>3. CASE S # {}
  <2>1. S \in SUBSET Nat /\ S \in SUBSET (i..j)
    BY DEF Inked
  <2>2. a \in S
    <3> HIDE DEF S
    <3> QED BY <1>3, <2>1, MinIs
  <2>3. b \in S
    <3>1. j \in Nat /\ S \in SUBSET (0..j)
      BY <1>3, <2>1
    <3> HIDE DEF S
    <3> QED BY <1>3, <3>1, MaxIs
  <2>4. Strip(s, i, j) = SubSeq(s, a, b) /\ Strip(t, h, j) = SubSeq(t, a, b)
    BY <1>1, <1>3 DEF Strip
  <2> HIDE DEF S, a, b
  <2> DEFINE u == SubSeq(s, a, b)
             v == SubSeq(t, a, b)
             w == b - a + 1
  <2>5. a \in Int /\ b \in Int /\ \A k \in a..b : s[k] = t[k] /\ s[k] \in Chars /\ t[k] \in Chars
    BY <2>1, <2>2, <2>3
  <2>6. /\ u \in Seq(Chars) /\ Len(u) = (IF a <= b THEN w ELSE 0)
        /\ \A k \in 1..w : u[k] = s[a + k - 1]
    BY <2>5, SubSeqProperties
  <2>7. /\ v \in Seq(Chars) /\ Len(v) = (IF a <= b THEN w ELSE 0)
        /\ \A k \in 1..w : v[k] = t[a + k - 1]
    BY <2>5, SubSeqProperties
  <2>8. \A k \in 1..w : u[k] = v[k]
    <3>1. \A k \in 1..w : a + k - 1 \in a..b
      BY <2>5
    <3> HIDE DEF u, v, w
    <3> QED BY <2>5, <2>6, <2>7, <3>1
  <2> DEFINE l == IF a <= b THEN w ELSE 0
  <2>9. \A k \in 1..l : k \in 1..w
    BY <2>5
  <2> HIDE DEF u, v, w, l
  <2>10. u \in [1..l -> Chars] /\ v \in [1..l -> Chars]
    BY <2>6, <2>7, LenProperties DEF l
  <2>11. u = v
    <3>1. u = [k \in 1..l |-> u[k]] /\ v = [k \in 1..l |-> v[k]]
      BY <2>10
    <3>2. \A k \in 1..l : u[k] = v[k]
      BY <2>8, <2>9
    <3>3. [k \in 1..l |-> u[k]] = [k \in 1..l |-> v[k]]
      BY <3>2
    <3> QED BY <3>1, <3>3
  <2> QED BY <2>4, <2>11 DEF u, v
<1> QED BY <1>2, <1>3

\* What an ini-string means does not change while it is loaded.
LEMMA MeaningStays ==
    ASSUME text' = text
    PROVE  /\ \A n : Meant(n)' = Meant(n) /\ MeantSection(n)' = MeantSection(n)
           /\ WellFormed' <=> WellFormed
           /\ NeverShorter' <=> NeverShorter
           /\ Meant(next - 1)' = Meant(next' - 1)
           /\ MeantSection(next - 1)' = MeantSection(next' - 1)
<1>1. ASSUME NEW i PROVE Said(i)' = Said(i)
  BY DEF Said
<1>2. ASSUME NEW i, NEW c
      PROVE  Ink(i)' = Ink(i) /\ Starts(i)' = Starts(i) /\ Has(i, c)' = Has(i, c)
  BY <1>1 DEF Ink, Starts, Has
<1>3. ASSUME NEW i
      PROVE  (IsIdle(i)' <=> IsIdle(i)) /\ (IsSection(i)' <=> IsSection(i)) /\ (IsKey(i)' <=> IsKey(i))
  <2>1. Starts(i)' = Starts(i) /\ Has(i, "]")' = Has(i, "]") /\ Has(i, "=")' = Has(i, "=")
    BY <1>2
  <2> QED BY <2>1 DEF IsIdle, IsSection, IsKey
<1>4. ASSUME NEW n PROVE MeantSection(n)' = MeantSection(n)
  BY DEF MeantSection, IsSection, Starts, Has, Ink, Said
<1>5. ASSUME NEW i, NEW c, NEW x PROVE Chooses(i, c, x)' <=> Chooses(i, c, x)
  <2>1. /\ Said(i)' = Said(i) /\ Has(i, "=")' = Has(i, "=")
        /\ MeantSection(i)' = MeantSection(i) /\ (IsKey(i)' <=> IsKey(i))
    BY <1>1, <1>2, <1>3, <1>4
  <2> QED BY <2>1 DEF Chooses
<1>6. ASSUME NEW n PROVE Meant(n)' = Meant(n)
  <2>1. \A i, c, x : Chooses(i, c, x)' <=> Chooses(i, c, x)
    BY <1>5
  <2> DEFINE Lines(c) == {i \in 1..n : \E x \in DOMAIN Implements[c] : Chooses(i, c, x)}
             Pick(c, i) == CHOOSE x \in DOMAIN Implements[c] : Chooses(i, c, x)
             Last(c) == IF Lines(c) = {} THEN NULL ELSE Pick(c, Max(Lines(c)))
  <2>2. ASSUME NEW c PROVE Lines(c)' = Lines(c)
    BY <2>1
  <2>3. ASSUME NEW c, NEW i PROVE Pick(c, i)' = Pick(c, i)
    BY ONLY <2>1, Zenon
  <2>4. ASSUME NEW c PROVE Last(c)' = Last(c)
    <3> HIDE DEF Lines, Pick
    <3> QED BY <2>2, <2>3
  <2>5. Meant(n) = [c \in DOMAIN Implements |-> Last(c)]
    BY DEF Meant
  <2>6. Meant(n)' = [c \in DOMAIN Implements |-> Last(c)']
    BY DEF Meant
  <2> HIDE DEF Last
  <2> QED BY <2>4, <2>5, <2>6
<1>7. WellFormed' <=> WellFormed
  BY <1>3 DEF WellFormed
<1>8. NeverShorter' <=> NeverShorter
  BY DEF NeverShorter, Said
<1>9. MeantSection(next - 1)' = MeantSection(next' - 1)
  BY DEF MeantSection, IsSection, Starts, Has, Ink, Said
<1>10. Meant(next - 1)' = Meant(next' - 1)
  BY <1>6
<1> QED BY <1>4, <1>6, <1>7, <1>8, <1>9, <1>10

\* The section that a line is in is that of the line above it, or its own.
LEMMA NextSection ==
    ASSUME NEW n \in Nat
    PROVE  /\ IsSection(n + 1) => MeantSection(n + 1) =
                 Strip(Said(n + 1), Min(Ink(n + 1)) + 1, Min(Has(n + 1, "]")) - 1)
           /\ ~ IsSection(n + 1) => MeantSection(n + 1) = MeantSection(n)
<1> DEFINE Heads(k) == {i \in 1..k : IsSection(i)}
           Sec(S) == IF S = {} THEN NULL
                     ELSE Strip(Said(Max(S)), Min(Ink(Max(S))) + 1, Min(Has(Max(S), "]")) - 1)
<1>1. \A k : MeantSection(k) = Sec(Heads(k))
  BY DEF MeantSection
<1>2. CASE IsSection(n + 1)
  <2> DEFINE S == Heads(n + 1)
  <2>1. S \in SUBSET (0..(n + 1)) /\ n + 1 \in S /\ n + 1 \in Nat
    BY <1>2
  <2>2. \A k \in S : k <= n + 1
    OBVIOUS
  <2> HIDE DEF S
  <2>3. Max(S) = n + 1
    <3>1. Max(S) \in S /\ \A k \in S : k <= Max(S)
      BY <2>1, MaxIs
    <3> DEFINE m == Max(S)
    <3>2. m \in 0..(n + 1)
      BY <2>1, <3>1
    <3>3. n + 1 <= m
      BY <2>1, <3>1
    <3> HIDE DEF m
    <3>4. m = n + 1
      BY <3>2, <3>3
    <3> QED BY <3>4 DEF m
  <2>4. MeantSection(n + 1) = Sec(S)
    BY <1>1 DEF S
  <2> QED BY <1>2, <2>1, <2>3, <2>4
<1>3. CASE ~ IsSection(n + 1)
  <2>1. Heads(n + 1) = Heads(n)
    <3>1. ASSUME NEW i PROVE i \in 1..(n + 1) /\ IsSection(i) <=> i \in 1..n /\ IsSection(i)
      <4>1. i \in 1..(n + 1) <=> i \in 1..n \/ i = n + 1
        OBVIOUS
      <4> QED BY <1>3, <4>1
    <3> QED BY <3>1
  <2> HIDE DEF Heads, Sec
  <2> QED BY <1>1, <1>3, <2>1
<1> QED BY <1>2, <1>3

\* The key and the value of line i
KeyOf(i) == Strip(Said(i), 1, Min(Has(i, "=")) - 1)
ValueOf(i) == Strip(Said(i), Min(Has(i, "=")) + 1, Len(Said(i)))

\* That line i activates an implement x of class c
Activates(i, c, x) ==
    /\ IsKey(i) /\ KeyOf(i) = c /\ ValueOf(i) = x /\ SectionHolds(MeantSection(i))
    /\ c \in DOMAIN Implements /\ x \in DOMAIN Implements[c] /\ Implements[c][x] \subseteq CpuFlags

\* What n lines and one more activate.
LEMMA NextMeant ==
    ASSUME NEW n \in Nat
    PROVE  /\ DOMAIN Meant(n) = DOMAIN Implements
           /\ \A c, x : Activates(n + 1, c, x) => Meant(n + 1) = [Meant(n) EXCEPT ![c] = x]
           /\ (\A c, x : ~ Activates(n + 1, c, x)) => Meant(n + 1) = Meant(n)
<1> DEFINE Lines(k, c) == {i \in 1..k : \E x \in DOMAIN Implements[c] : Chooses(i, c, x)}
           One(S, c) == IF S = {} THEN NULL
                        ELSE CHOOSE x \in DOMAIN Implements[c] : Chooses(Max(S), c, x)
<1>1. \A k : Meant(k) = [c \in DOMAIN Implements |-> One(Lines(k, c), c)]
  BY DEF Meant
<1>2. \A i : \A c \in DOMAIN Implements : \A x \in DOMAIN Implements[c] :
         Chooses(i, c, x) <=> Activates(i, c, x)
  BY DEF Chooses, Activates, KeyOf, ValueOf
<1>3. ASSUME NEW c \in DOMAIN Implements, NEW x \in DOMAIN Implements[c], Activates(n + 1, c, x)
      PROVE  One(Lines(n + 1, c), c) = x
  <2> DEFINE S == Lines(n + 1, c)
  <2>1. S \in SUBSET (0..(n + 1)) /\ n + 1 \in S /\ n + 1 \in Nat
    BY <1>2, <1>3
  <2>2. \A k \in S : k <= n + 1
    OBVIOUS
  <2> HIDE DEF S
  <2>3. Max(S) = n + 1
    <3>1. Max(S) \in S /\ \A k \in S : k <= Max(S)
      BY <2>1, MaxIs
    <3> DEFINE m == Max(S)
    <3>2. m \in 0..(n + 1)
      BY <2>1, <3>1
    <3>3. n + 1 <= m
      BY <2>1, <3>1
    <3> HIDE DEF m
    <3>4. m = n + 1
      BY <3>2, <3>3
    <3> QED BY <3>4 DEF m
  <2> DEFINE y == CHOOSE y \in DOMAIN Implements[c] : Chooses(n + 1, c, y)
  <2>4. One(S, c) = y
    BY <2>1, <2>3
  <2>5. y \in DOMAIN Implements[c] /\ Chooses(n + 1, c, y)
    <3>1. Chooses(n + 1, c, x)
      BY <1>2, <1>3
    <3> QED BY <3>1
  <2> HIDE DEF y
  <2>6. Activates(n + 1, c, y)
    BY <1>2, <2>5
  <2>7. y = x
    BY <1>3, <2>6 DEF Activates
  <2> QED BY <2>4, <2>7 DEF S
<1>4. ASSUME NEW c \in DOMAIN Implements, \A x : ~ Activates(n + 1, c, x)
      PROVE  Lines(n + 1, c) = Lines(n, c)
  <2>1. ASSUME NEW i
        PROVE  i \in 1..(n + 1) /\ (\E x \in DOMAIN Implements[c] : Chooses(i, c, x))
                  <=> i \in 1..n /\ (\E x \in DOMAIN Implements[c] : Chooses(i, c, x))
    <3>1. i \in 1..(n + 1) <=> i \in 1..n \/ i = n + 1
      OBVIOUS
    <3>2. ~ \E x \in DOMAIN Implements[c] : Chooses(n + 1, c, x)
      BY <1>2, <1>4
    <3> QED BY <3>1, <3>2
  <2> QED BY <2>1
<1> HIDE DEF Lines, One
<1>5. DOMAIN Meant(n) = DOMAIN Implements
  BY <1>1
<1>6. ASSUME NEW c, NEW x, Activates(n + 1, c, x)
      PROVE  Meant(n + 1) = [Meant(n) EXCEPT ![c] = x]
  <2>1. c \in DOMAIN Implements /\ x \in DOMAIN Implements[c]
    BY <1>6 DEF Activates
  <2>2. ASSUME NEW d \in DOMAIN Implements
        PROVE  One(Lines(n + 1, d), d) = IF d = c THEN x ELSE One(Lines(n, d), d)
    <3>1. CASE d = c
      BY <1>3, <1>6, <2>1, <3>1
    <3>2. CASE d # c
      <4>1. \A y : ~ Activates(n + 1, d, y)
        BY <1>6, <3>2 DEF Activates
      <4> QED BY <1>4, <3>2, <4>1
    <3> QED BY <3>1, <3>2
  <2>3. Meant(n + 1) = [d \in DOMAIN Implements |-> IF d = c THEN x ELSE One(Lines(n, d), d)]
    BY <1>1, <2>2
  <2>4. Meant(n) = [d \in DOMAIN Implements |-> One(Lines(n, d), d)]
    BY <1>1
  <2> QED BY <2>1, <2>3, <2>4
<1>7. ASSUME \A c, x : ~ Activates(n + 1, c, x) PROVE Meant(n + 1) = Meant(n)
  <2>1. \A c \in DOMAIN Implements : Lines(n + 1, c) = Lines(n, c)
    BY <1>4, <1>7
  <2> QED BY <1>1, <2>1
<1> QED BY <1>5, <1>6, <1>7

-----------------------------------------------------------------------------
(* What is active *)

\* Only implements that exist are active.
ActiveExists ==
    /\ DOMAIN active = DOMAIN Implements
    /\ \A c \in DOMAIN Implements : active[c] \in DOMAIN Implements[c] \cup {NULL}

\* The inductive invariant of what is active
ActiveInv == ActiveExists /\ ActiveIsRunnable

\* Of a line that reaches it, an activation takes what the section and the CPU
\* allow.
LEMMA ActivationKeeps ==
    ASSUME ActiveInv, NEW key, NEW value, do_activate_impl(key, value)
    PROVE  ActiveInv'
<1> DEFINE Allowed == /\ SectionHolds(section)
                      /\ key \in DOMAIN Implements
                      /\ value \in DOMAIN Implements[key]
                      /\ Implements[key][value] \subseteq CpuFlags
<1>1. active' = IF Allowed THEN [active EXCEPT ![key] = value] ELSE active
  BY DEF do_activate_impl
<1>2. CASE Allowed
  <2>1. /\ DOMAIN active' = DOMAIN Implements
        /\ active'[key] = value
        /\ \A c \in DOMAIN Implements : c # key => active'[c] = active[c]
    BY <1>1, <1>2 DEF ActiveInv, ActiveExists
  <2> QED BY <1>2, <2>1 DEF ActiveInv, ActiveExists, ActiveIsRunnable
<1>3. CASE ~Allowed
  <2>1. active' = active
    BY <1>1, <1>3
  <2> QED BY <2>1 DEF ActiveInv, ActiveExists, ActiveIsRunnable
<1> QED BY <1>2, <1>3

LEMMA ActiveStep ==
    ASSUME ActiveInv, [Next]_vars
    PROVE  ActiveInv'
<1>1. CASE ReadKey
  BY <1>1, ActivationKeeps DEF ReadKey
<1>2. CASE IgnoreLine \/ ReadSection \/ RejectLine \/ Over \/ UNCHANGED vars
  <2>1. active' = active
    BY <1>2 DEF IgnoreLine, ReadSection, RejectLine, Over, vars
  <2> QED BY <2>1 DEF ActiveInv, ActiveExists, ActiveIsRunnable
<1> QED BY <1>1, <1>2 DEF Next

-----------------------------------------------------------------------------
(* The lines that are read are those that are written *)

\* How many characters were read last
Left == IF next = 1 THEN 0 ELSE Len(Said(next - 1))

\* What was loaded so far is what the lines say, and behind the line that was read last
\* the buffer is empty, if there is another to come
Means ==
    WellFormed /\ NeverShorter =>
        /\ status # "aborted"
        /\ active = Meant(next - 1) /\ section = MeantSection(next - 1)
        /\ status = "loading" => \A k \in 1..Size : k > Left => line[k] = NUL

\* While what was loaded is what is meant
Loading == IniTypes /\ Means /\ status = "loading" /\ WellFormed /\ NeverShorter

\* The buffer holds the next line, and nothing else but behind the last one.
LEMMA LineIsHeld ==
    ASSUME Loading
    PROVE  /\ next \in 1..Len(text) /\ Len(text) \in Nat
           /\ Buffer(Filled) /\ Said(next) \in Seq(Chars) /\ Len(Said(next)) \in Nat
           /\ Len(Said(next)) < Size
           /\ Holding(Filled, Said(next))
           /\ next # Len(text) => \A k \in 1..Size : k > Len(Said(next)) => Filled[k] = NUL
<1>1. text \in Texts /\ next \in 1..Len(text) /\ Len(text) \in Nat /\ Buffer(line)
  <2>1. text \in Texts
    BY DEF Loading, IniTypes
  <2>2. Len(text) \in Nat
    BY <2>1, LinesAre
  <2> QED BY <2>1, <2>2 DEF Loading, IniTypes
<1>2. Buffer(Filled)
  BY <1>1, FilledIs
<1>3. \A i \in 1..Len(text) : Said(i) \in Seq(Chars) /\ Len(Said(i)) \in Nat /\ Len(Said(i)) < Size
  <2>1. ASSUME NEW i \in 1..Len(text)
        PROVE  Said(i) \in Seq(Chars) /\ Len(Said(i)) \in Nat /\ Len(Said(i)) < Size
    <3>1. /\ Said(i) \in Seq(Chars) /\ Len(Said(i)) \in Nat
          /\ Len(Said(i)) <= MAX_LINE_LEN \/ Len(Said(i)) <= MAX_LINE_LEN - 1
      BY <1>1, SaidIs
    <3> QED BY <3>1, SizeIs
  <2> QED BY <2>1
<1>4. \A i \in 1..(Len(text) - 1) :
         \/ Len(Said(i)) <= Len(Said(i + 1))
         \/ i + 1 = Len(text) /\ Len(Said(i + 1)) < MAX_LINE_LEN - 1
  BY DEF Loading, NeverShorter
<1>5. \A k \in 1..Size : k > Left => line[k] = NUL
  BY DEF Loading, Means
<1>6. /\ Left \in Nat
      /\ Left <= Len(Said(next)) \/ (~(next < Len(text)) /\ Len(Said(next)) < MAX_LINE_LEN - 1)
  <2>1. CASE next = 1
    <3>1. Left = 0
      BY <2>1 DEF Left
    <3>2. Len(Said(next)) \in Nat
      BY <1>1, <1>3
    <3> QED BY <3>1, <3>2
  <2>2. CASE next # 1
    <3> DEFINE i == next - 1
    <3>1. i \in 1..Len(text) /\ i + 1 = next /\ i \in 1..(Len(text) - 1)
      BY <1>1, <2>2
    <3>2. Left = Len(Said(i))
      BY <2>2 DEF Left
    <3> HIDE DEF i
    <3>3. \/ Len(Said(i)) <= Len(Said(next))
          \/ next = Len(text) /\ Len(Said(next)) < MAX_LINE_LEN - 1
      BY <1>4, <3>1
    <3>4. Len(Said(i)) \in Nat
      BY <1>3, <3>1
    <3>5. next = Len(text) => ~(next < Len(text))
      BY <1>1
    <3> QED BY <3>2, <3>3, <3>4, <3>5
  <2> QED BY <2>1, <2>2
<1>7. /\ Holding(Filled, Said(next))
      /\ next < Len(text) => \A k \in 1..Size : k > Len(Said(next)) => Filled[k] = NUL
  BY <1>1, <1>5, <1>6, FilledHolds
<1>8. next # Len(text) => next < Len(text)
  BY <1>1
<1> QED BY <1>1, <1>2, <1>3, <1>7, <1>8

\* So it is taken for what it is.
LEMMA LineIsTaken ==
    ASSUME Loading
    PROVE  /\ IgnoreLine => ~ IsSection(next) /\ ~ IsKey(next)
           /\ ReadSection => /\ IsSection(next)
                             /\ section' = Strip(Said(next), Min(Ink(next)) + 1, Min(Has(next, "]")) - 1)
           /\ ReadKey => IsKey(next) /\ do_activate_impl(KeyOf(next), ValueOf(next))
           /\ ~ RejectLine
<1> DEFINE s == Said(next)
           n == Len(s)
           ink == InkOf(s)
           buf == Filled
           f == First(buf)
<1>1. Buffer(buf) /\ s \in Seq(Chars) /\ n \in Nat /\ n < Size /\ Holding(buf, s)
  BY LineIsHeld
<1>2. /\ ink = {} => buf[f] = NUL
      /\ ink # {} => /\ f = Min(ink) /\ f \in 1..n /\ buf[f] = s[f] /\ s[f] \in Chars
                     /\ End(buf, f) = n + 1
                     /\ \A k \in 1..(f - 1) : s[k] = Blank
                     /\ \A c : c # Blank => Places(buf, f, c) = {k \in ink : s[k] = c}
  <2> HIDE DEF buf, s
  <2> QED BY <1>1, LineIsRead
<1>3. ink = Ink(next)
  BY DEF InkOf, Ink
<1>4. \A c : Has(next, c) = {k \in ink : s[k] = c}
  BY <1>3 DEF Has
<1>5. Starts(next) = IF ink = {} THEN Blank ELSE s[Min(ink)]
  BY <1>3 DEF Starts
<1>6. /\ \A k \in 1..n : buf[k] = s[k] /\ s[k] \in Chars
      /\ ink \in SUBSET (1..n)
  <2>1. \A k \in 1..n : k \in 1..Size /\ k <= n
    BY <1>1, SizeIs
  <2>2. \A k \in 1..n : s[k] \in Chars
    BY <1>1, ElementOfSeq
  <2>3. ink \in SUBSET (1..n)
    BY DEF InkOf, Inked
  <2> HIDE DEF buf, s
  <2> QED BY <1>1, <2>1, <2>2, <2>3 DEF Holding
<1>7. NUL \notin Chars /\ {Blank, "#", "[", "]", "="} \subseteq Chars /\ NUL \notin {Blank, "#", "[", "]", "="}
  BY CharactersAre
<1>8. IsIdle(next) \/ IsSection(next) \/ IsKey(next)
  <2>1. next \in DOMAIN text
    <3>1. text \in Texts
      BY DEF Loading, IniTypes
    <3>2. DOMAIN text = 1..Len(text)
      BY <3>1, LinesAre, LenProperties
    <3> QED BY <3>2, LineIsHeld
  <2> QED BY <2>1 DEF Loading, WellFormed
<1>9. Blank \notin {"#", "[", "]", "="}
  BY DEF Blank
<1> HIDE DEF s, n, ink, buf, f
<1>10. Min(ink) = f => Starts(next) = IF ink = {} THEN Blank ELSE s[f]
  BY <1>5
<1>11. CASE ink = {}
  <2>1. buf[f] = NUL /\ Starts(next) = Blank
    BY <1>2, <1>5, <1>11
  <2>2. ~ IsSection(next) /\ ~ IsKey(next)
    BY <1>9, <2>1 DEF IsSection, IsKey
  <2>3. ~ ReadSection /\ ~ ReadKey /\ ~ RejectLine
    BY <1>7, <2>1 DEF ReadSection, ReadKey, RejectLine, buf, f
  <2> QED BY <2>2, <2>3
<1>12. CASE ink # {}
  <2>1. /\ Starts(next) = s[f] /\ buf[f] = s[f] /\ s[f] \in Chars /\ f \in 1..n /\ f = Min(ink)
        /\ End(buf, f) = n + 1 /\ \A k \in 1..(f - 1) : s[k] = Blank
    BY <1>2, <1>5, <1>12
  <2>2. Places(buf, f, "]") = Has(next, "]") /\ Places(buf, f, "=") = Has(next, "=")
    BY <1>2, <1>4, <1>9, <1>12
  <2>3. s[f] # NUL
    BY <1>7, <2>1
  <2>4. IgnoreLine => ~ IsSection(next) /\ ~ IsKey(next)
    <3>1. ASSUME IgnoreLine PROVE s[f] = "#"
      <4>1. buf[f] \in {NUL, "#"}
        BY <3>1 DEF IgnoreLine, buf, f
      <4> QED BY <2>1, <2>3, <4>1
    <3> QED BY <2>1, <3>1 DEF IsSection, IsKey
  <2>5. ASSUME ReadSection
        PROVE  /\ IsSection(next)
               /\ section' = Strip(Said(next), Min(Ink(next)) + 1, Min(Has(next, "]")) - 1)
    <3> DEFINE r == Min(Places(buf, f, "]"))
    <3>1. /\ buf[f] = "[" /\ Places(buf, f, "]") # {}
          /\ section' = Strip(buf, f + 1, r - 1)
      BY <2>5 DEF ReadSection, buf, f
    <3>2. IsSection(next)
      BY <2>1, <2>2, <3>1 DEF IsSection
    <3>3. r \in 1..n
      <4> DEFINE S == Places(buf, f, "]")
      <4>1. S = {k \in ink : s[k] = "]"}
        BY <1>4, <2>2
      <4>2. S # {}
        BY <3>1
      <4>3. r = Min(S)
        OBVIOUS
      <4> HIDE DEF S, r
      <4>4. S \in SUBSET (1..n) /\ S \in SUBSET Nat
        <5>1. \A k \in S : k \in ink
          BY <4>1
        <5>2. \A k \in ink : k \in 1..n
          BY <1>6
        <5>3. \A k \in 1..n : k \in Nat
          OBVIOUS
        <5> QED BY <5>1, <5>2, <5>3
      <4>5. Min(S) \in S
        BY <4>2, <4>4, MinIs
      <4> QED BY <4>3, <4>4, <4>5
    <3>4. r = Min(Has(next, "]"))
      BY <2>2
    <3> HIDE DEF r
    <3>5. Strip(buf, f + 1, r - 1) = Strip(s, f + 1, r - 1)
      <4>1. f + 1 \in Nat /\ r - 1 \in Int /\ f + 1 <= f + 1
        BY <2>1, <3>3, <1>1 DEF n
      <4>2. \A k \in (f + 1)..(r - 1) : buf[k] = s[k] /\ s[k] \in Chars
        <5>1. \A k \in (f + 1)..(r - 1) : k \in 1..n
          BY <2>1, <3>3, <1>1 DEF n
        <5> QED BY <1>6, <5>1
      <4>3. \A k \in (f + 1)..((f + 1) - 1) : s[k] = Blank
        <5>1. \A k \in (f + 1)..((f + 1) - 1) : FALSE
          BY <2>1
        <5> QED BY <5>1
      <4> QED BY <4>1, <4>2, <4>3, StripAlike
    <3> QED BY <1>3, <2>1, <3>1, <3>2, <3>4, <3>5 DEF s
  <2>6. ASSUME ReadKey PROVE IsKey(next) /\ do_activate_impl(KeyOf(next), ValueOf(next))
    <3> DEFINE q == Min(Places(buf, f, "="))
    <3>1. /\ buf[f] \notin {NUL, "#", "[", "="} /\ Places(buf, f, "=") # {}
          /\ do_activate_impl(Strip(buf, f, q - 1), Strip(buf, q + 1, End(buf, f) - 1))
      BY <2>6 DEF ReadKey, buf, f
    <3>2. IsKey(next)
      <4>1. s[f] # Blank
        <5>1. f \in ink
          <6>1. ink \in SUBSET Nat
            BY <1>6
          <6> QED BY <1>12, <2>1, <6>1, MinIs
        <5> QED BY <5>1 DEF ink, InkOf, Inked, n
      <4> QED BY <2>1, <2>2, <3>1, <4>1 DEF IsKey
    <3>3. q \in 1..n
      <4> DEFINE S == Places(buf, f, "=")
      <4>1. S = {k \in ink : s[k] = "="}
        BY <1>4, <2>2
      <4>2. S # {}
        BY <3>1
      <4>3. q = Min(S)
        OBVIOUS
      <4> HIDE DEF S, q
      <4>4. S \in SUBSET (1..n) /\ S \in SUBSET Nat
        <5>1. \A k \in S : k \in ink
          BY <4>1
        <5>2. \A k \in ink : k \in 1..n
          BY <1>6
        <5>3. \A k \in 1..n : k \in Nat
          OBVIOUS
        <5> QED BY <5>1, <5>2, <5>3
      <4>5. Min(S) \in S
        BY <4>2, <4>4, MinIs
      <4> QED BY <4>3, <4>4, <4>5
    <3>4. q = Min(Has(next, "="))
      BY <2>2
    <3> HIDE DEF q
    <3>5. Strip(buf, f, q - 1) = Strip(s, 1, q - 1)
      <4>1. 1 \in Nat /\ f \in Nat /\ 1 <= f /\ q - 1 \in Int
        BY <2>1, <3>3, <1>1 DEF n
      <4>2. \A k \in f..(q - 1) : buf[k] = s[k] /\ s[k] \in Chars
        <5>1. \A k \in f..(q - 1) : k \in 1..n
          BY <2>1, <3>3, <1>1 DEF n
        <5> QED BY <1>6, <5>1
      <4>3. \A k \in 1..(f - 1) : s[k] = Blank
        BY <2>1
      <4> QED BY <4>1, <4>2, <4>3, StripAlike
    <3>6. Strip(buf, q + 1, n) = Strip(s, q + 1, n)
      <4>1. q + 1 \in Nat /\ n \in Int /\ q + 1 <= q + 1
        BY <3>3, <1>1 DEF n
      <4>2. \A k \in (q + 1)..n : buf[k] = s[k] /\ s[k] \in Chars
        <5>1. \A k \in (q + 1)..n : k \in 1..n
          BY <3>3, <1>1 DEF n
        <5> QED BY <1>6, <5>1
      <4>3. \A k \in (q + 1)..((q + 1) - 1) : s[k] = Blank
        <5>1. \A k \in (q + 1)..((q + 1) - 1) : FALSE
          BY <3>3
        <5> QED BY <5>1
      <4> QED BY <4>1, <4>2, <4>3, StripAlike
    <3>7. End(buf, f) - 1 = n
      BY <1>1, <2>1 DEF n
    <3>8. Strip(buf, f, q - 1) = KeyOf(next) /\ Strip(buf, q + 1, End(buf, f) - 1) = ValueOf(next)
      BY <3>4, <3>5, <3>6, <3>7 DEF KeyOf, ValueOf, s, n
    <3> QED BY <3>1, <3>2, <3>8
  <2>7. ~ RejectLine
    <3> SUFFICES ASSUME RejectLine PROVE FALSE
      OBVIOUS
    <3>1. \/ buf[f] = "[" /\ Places(buf, f, "]") = {}
          \/ buf[f] = "="
          \/ buf[f] \notin {NUL, "#", "["} /\ Places(buf, f, "=") = {}
      BY DEF RejectLine, buf, f
    <3>2. s[f] # Blank
      <4>1. f \in ink
        <5>1. ink \in SUBSET Nat
          BY <1>6
        <5> QED BY <1>12, <2>1, <5>1, MinIs
      <4> QED BY <4>1 DEF ink, InkOf, Inked, n
    <3> QED BY <1>8, <2>1, <2>2, <3>1, <3>2 DEF IsIdle, IsSection, IsKey
  <2> QED BY <2>4, <2>5, <2>6, <2>7
<1> QED BY <1>11, <1>12

\* With every line what is loaded stays what is meant.
LEMMA MeansStep ==
    ASSUME IniTypes, ActiveExists, Means, [Next]_vars
    PROVE  Means'
<1>1. IniTypes' /\ text' = text
  BY TypesStep
<1>2. /\ WellFormed' <=> WellFormed
      /\ NeverShorter' <=> NeverShorter
      /\ Meant(next - 1)' = Meant(next' - 1)
      /\ MeantSection(next - 1)' = MeantSection(next' - 1)
  BY <1>1, MeaningStays
<1> SUFFICES ASSUME WellFormed, NeverShorter
             PROVE  /\ status' # "aborted"
                    /\ active' = Meant(next' - 1) /\ section' = MeantSection(next' - 1)
                    /\ status' = "loading" => \A k \in 1..Size : k > Left' => line'[k] = NUL
  <2>1. Means' <=>
          (WellFormed' /\ NeverShorter' =>
             /\ status' # "aborted"
             /\ active' = Meant(next - 1)' /\ section' = MeantSection(next - 1)'
             /\ (status' = "loading" => \A k \in 1..Size : k > Left' => line'[k] = NUL))
    BY DEF Means, Size
  <2> QED BY <1>2, <2>1
<1>3. CASE Over \/ UNCHANGED vars
  <2>1. /\ next' = next /\ line' = line /\ section' = section /\ active' = active /\ status' = status
        /\ Left' = Left
    <3>1. next' = next /\ line' = line /\ section' = section /\ active' = active /\ status' = status
      BY <1>3 DEF Over, vars
    <3>2. Left' = Left
      BY <1>1, <3>1 DEF Left, Said
    <3> QED BY <3>1, <3>2
  <2>2. /\ status # "aborted"
        /\ active = Meant(next - 1) /\ section = MeantSection(next - 1)
        /\ status = "loading" => \A k \in 1..Size : k > Left => line[k] = NUL
    BY DEF Means
  <2> QED BY <1>2, <2>1, <2>2
<1>4. CASE status = "loading" /\ (IgnoreLine \/ ReadSection \/ ReadKey \/ RejectLine)
  <2> DEFINE buf == Filled
             n == next - 1
  <2>1. Loading
    BY <1>4 DEF Loading
  <2>2. /\ next \in 1..Len(text) /\ Len(text) \in Nat /\ Len(Said(next)) \in Nat /\ Holding(buf, Said(next))
        /\ Buffer(buf)
        /\ next # Len(text) => \A k \in 1..Size : k > Len(Said(next)) => buf[k] = NUL
    BY <2>1, LineIsHeld
  <2>3. active = Meant(n) /\ section = MeantSection(n) /\ n \in Nat /\ n + 1 = next
    BY <2>2 DEF Means
  <2>4. /\ IgnoreLine => ~ IsSection(next) /\ ~ IsKey(next)
        /\ ReadSection => /\ IsSection(next)
                          /\ section' = Strip(Said(next), Min(Ink(next)) + 1, Min(Has(next, "]")) - 1)
        /\ ReadKey => IsKey(next) /\ do_activate_impl(KeyOf(next), ValueOf(next))
        /\ ~ RejectLine
    BY <2>1, LineIsTaken
  <2> DEFINE Marked(S) == [k \in DOMAIN buf |-> IF k \in S THEN NUL ELSE buf[k]]
  <2>5. PICK held, S : Advance(held) /\ line' \in {buf, Marked(S)}
    <3>1. CASE IgnoreLine
      BY <3>1 DEF IgnoreLine
    <3>2. CASE ReadSection
      BY <3>2 DEF ReadSection
    <3>3. CASE ReadKey
      BY <3>3 DEF ReadKey
    <3> QED BY <1>4, <2>4, <3>1, <3>2, <3>3
  <2>6. next' = next + 1 /\ status' # "aborted" /\ (next = Len(text) => status' = "done")
    BY <1>4, <2>5 DEF Advance
  <2> HIDE DEF buf
  <2>7. ASSUME status' = "loading", NEW k \in 1..Size, k > Left' PROVE line'[k] = NUL
    <3>1. Left' = Len(Said(next))
      <4>1. next' # 1 /\ next' - 1 = next
        BY <2>2, <2>6
      <4>2. Left' = Len(Said(next - 1))'
        BY <4>1 DEF Left
      <4>3. Len(Said(next - 1))' = Len(Said(next))
        BY <1>1, <4>1 DEF Said
      <4> QED BY <4>2, <4>3
    <3>2. buf[k] = NUL
      <4>1. next # Len(text)
        BY <2>6, <2>7
      <4> QED BY <2>2, <2>7, <3>1, <4>1
    <3>3. DOMAIN buf = 1..Size
      BY <2>2 DEF Buffer
    <3>4. Marked(S)[k] = NUL
      BY <3>2, <3>3
    <3> HIDE DEF Marked
    <3> QED BY <2>5, <3>2, <3>4
  <2> HIDE DEF n, Marked
  <2>8. section' = MeantSection(next)
    <3>1. CASE IgnoreLine \/ ReadKey
      <4>1. section' = section
        BY <3>1 DEF IgnoreLine, ReadKey
      <4>2. ~ IsSection(next)
        BY <2>4, <3>1 DEF IsSection, IsKey
      <4>3. MeantSection(n + 1) = MeantSection(n)
        BY <2>3, <4>2, NextSection
      <4> QED BY <2>3, <4>1, <4>3
    <3>2. CASE ReadSection
      <4>1. /\ IsSection(n + 1)
            /\ section' = Strip(Said(n + 1), Min(Ink(n + 1)) + 1, Min(Has(n + 1, "]")) - 1)
        BY <2>3, <2>4, <3>2
      <4>2. section' = MeantSection(n + 1)
        BY <2>3, <4>1, NextSection
      <4> QED BY <2>3, <4>2
    <3> QED BY <1>4, <2>4, <3>1, <3>2
  <2>9. active' = Meant(next)
    <3>1. CASE IgnoreLine \/ ReadSection
      <4>1. active' = active
        BY <3>1 DEF IgnoreLine, ReadSection
      <4>2. ~ IsKey(next)
        BY <2>4, <3>1 DEF IsSection, IsKey
      <4>3. \A c, x : ~ Activates(n + 1, c, x)
        BY <2>3, <4>2 DEF Activates
      <4>4. Meant(n + 1) = Meant(n)
        BY <2>3, <4>3, NextMeant
      <4> QED BY <2>3, <4>1, <4>4
    <3>2. CASE ReadKey
      <4> DEFINE key == KeyOf(next)
                 value == ValueOf(next)
      <4>1. IsKey(next) /\ do_activate_impl(key, value) /\ section' = section
        BY <2>4, <3>2 DEF ReadKey
      <4>2. section = MeantSection(next)
        BY <2>8, <4>1
      <4>3. \A c, x : Activates(next, c, x) => c = key /\ x = value
        BY DEF Activates
      <4>4. active' = IF Activates(next, key, value) THEN [active EXCEPT ![key] = value] ELSE active
        <5>1. Activates(next, key, value) <=>
                 /\ SectionHolds(section)
                 /\ key \in DOMAIN Implements
                 /\ value \in DOMAIN Implements[key]
                 /\ Implements[key][value] \subseteq CpuFlags
          BY <4>1, <4>2 DEF Activates
        <5> HIDE DEF key, value
        <5> QED BY <4>1, <5>1 DEF do_activate_impl
      <4> HIDE DEF key, value
      <4>5. CASE Activates(next, key, value)
        <5>1. Meant(n + 1) = [Meant(n) EXCEPT ![key] = value]
          BY <2>3, <4>5, NextMeant
        <5> QED BY <2>3, <4>4, <4>5, <5>1
      <4>6. CASE ~ Activates(next, key, value)
        <5>1. \A c, x : ~ Activates(n + 1, c, x)
          BY <2>3, <4>3, <4>6
        <5>2. Meant(n + 1) = Meant(n)
          BY <2>3, <5>1, NextMeant
        <5> QED BY <2>3, <4>4, <4>6, <5>2
      <4> QED BY <4>5, <4>6
    <3> QED BY <1>4, <2>4, <3>1, <3>2
  <2>10. next' - 1 = next
    BY <2>2, <2>6
  <2> QED BY <1>2, <2>6, <2>7, <2>8, <2>9, <2>10
<1> QED BY <1>3, <1>4 DEF Next

-----------------------------------------------------------------------------
(* The theorems *)

\* The inductive invariant
IniInv == IniTypes /\ ActiveInv /\ Means

LEMMA IniStart ==
    ASSUME Init
    PROVE  IniInv
<1>1. /\ text \in Texts /\ next = 1 /\ line = [k \in 1..Size |-> NUL] /\ section = NULL /\ sections = 0
      /\ active = [c \in DOMAIN Implements |-> NULL] /\ status = "loading"
  BY DEF Init, Size
<1>2. IniTypes
  <2>1. Len(text) \in Nat \ {0}
    BY <1>1, LinesAre
  <2>2. Buffer(line)
    BY <1>1, SizeIs DEF Buffer, Char
  <2> QED BY <1>1, <2>1, <2>2 DEF IniTypes
<1>3. ActiveInv
  BY <1>1 DEF ActiveInv, ActiveExists, ActiveIsRunnable
<1>4. Meant(0) = [c \in DOMAIN Implements |-> NULL] /\ MeantSection(0) = NULL
  <2>1. \A i \in 1..0 : FALSE
    OBVIOUS
  <2>2. MeantSection(0) = NULL
    BY <2>1 DEF MeantSection
  <2>3. Meant(0) = [c \in DOMAIN Implements |-> NULL]
    BY <2>1 DEF Meant
  <2> QED BY <2>2, <2>3
<1>5. Means
  BY <1>1, <1>4 DEF Means
<1> QED BY <1>2, <1>3, <1>5 DEF IniInv

\* While any string is loaded, the buffer stays a buffer, what is active exists and can
\* run, and if of no line less is read than of the one above it, it is what the lines
\* say as far as they are read.
THEOREM IniInvariance == Spec => []IniInv
<1>1. IniInv /\ [Next]_vars => IniInv'
  BY TypesStep, ActiveStep, MeansStep DEF IniInv, ActiveInv
<1> QED BY <1>1, IniStart, PTL DEF Spec

\* The buffer keeps its last character, the section in force its string, and only what
\* exists is active.
THEOREM IniTypesHold == Spec => []TypeOK
<1>1. IniInv => TypeOK
  <2> SUFFICES ASSUME IniInv PROVE TypeOK
    OBVIOUS
  <2>1. IniTypes /\ ActiveExists
    BY DEF IniInv, ActiveInv
  <2>2. Len(line) = Size /\ line[Size] = NUL
    BY <2>1, BufferIsSeq DEF IniTypes, Buffer
  <2>3. section # NULL => \A k \in DOMAIN section : section[k] # NUL
    <3>1. ASSUME section # NULL, NEW k \in DOMAIN section PROVE section[k] # NUL
      <4>1. section \in Seq(Chars)
        BY <2>1, <3>1 DEF IniTypes
      <4>2. section[k] \in Chars
        BY <3>1, <4>1, LenProperties, ElementOfSeq
      <4> QED BY <4>2, CharactersAre
    <3> QED BY <3>1
  <2> QED BY <2>1, <2>2, <2>3 DEF TypeOK, IniTypes, ActiveExists, Size
<1> QED BY <1>1, IniInvariance, PTL

\* No implement is activated that needs what the CPU lacks.
THEOREM LoadedIsRunnable == Spec => []ActiveIsRunnable
<1>1. IniInv => ActiveIsRunnable
  BY DEF IniInv, ActiveInv
<1> QED BY <1>1, IniInvariance, PTL

\* A string of lines of none of which less is read than of the one above it activates what
\* these say as far as they are read, although every line is parsed in the buffer of the one
\* before.
THEOREM LoadedAsMeant == Spec => []LoadsAsMeant
<1>1. IniInv => LoadsAsMeant
  BY DEF IniInv, Means, LoadsAsMeant, AsMeant
<1> QED BY <1>1, IniInvariance, PTL
=============================================================================
