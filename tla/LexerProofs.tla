---------------------------- MODULE LexerProofs ----------------------------
(***************************************************************************)
(* Proofs about lex_file (src/lexer.c), for every text and every table of  *)
(* characters and words: its positions are those of the text, no character *)
(* is lost or read twice, numbers with a prefix have the value that is     *)
(* written, and every round moves on.                                      *)
(***************************************************************************)
EXTENDS Lexer, Extremes, FiniteSetTheorems, SequenceTheorems, TLAPS

(* Positions *)

breaksBefore(i) == {j \in 0..(i-1) : at(j) = "\n"}

LEMMA PositionZero == posOf(0) = [idx |-> 0, line |-> 1, col |-> 1]
<1> DEFINE breaks == {j \in 0..(0-1) : at(j) = "\n"}
           before == CHOOSE j \in breaks \cup {-1} : \A m \in breaks : m <= j
<1>1. breaks = {}
  OBVIOUS
<1>2. Cardinality(breaks) = 0
  BY <1>1, FS_EmptySet
<1>3. before = -1
  BY <1>1
<1>4. posOf(0) = [idx |-> 0, line |-> 1 + Cardinality(breaks), col |-> 0 - before]
  BY DEF posOf
<1> HIDE DEF breaks, before
<1> QED BY <1>2, <1>3, <1>4

\* eat_character counts as the text does.
LEMMA PositionNext ==
  ASSUME NEW i \in Nat
  PROVE  posOf(i + 1) = eat_character(posOf(i))
<1> DEFINE breaks == breaksBefore(i)
           more == breaksBefore(i + 1)
           before == CHOOSE j \in breaks \cup {-1} : \A m \in breaks : m <= j
           after == CHOOSE j \in more \cup {-1} : \A m \in more : m <= j
<1>1. /\ posOf(i) = [idx |-> i, line |-> 1 + Cardinality(breaks), col |-> i - before]
      /\ posOf(i + 1) = [idx |-> i + 1, line |-> 1 + Cardinality(more), col |-> (i + 1) - after]
  BY DEF posOf, breaksBefore
<1>2. IsFiniteSet(breaks) /\ i \notin breaks /\ breaks \in SUBSET Nat
  <2>1. IsFiniteSet(0..(i-1))
    BY FS_Interval
  <2>2. breaks \subseteq 0..(i-1)
    BY DEF breaksBefore
  <2> QED BY <2>1, <2>2, FS_Subset
<1>3. Cardinality(breaks) \in Nat
  BY <1>2, FS_CardinalityType
<1>4. CASE at(i) = "\n"
  <2>1. more = breaks \cup {i}
    BY <1>4 DEF breaksBefore
  <2>2. Cardinality(more) = Cardinality(breaks) + 1
    BY <1>2, <2>1, FS_AddElement
  <2>3. i \in more \cup {-1} /\ \A m \in more : m <= i
    BY <2>1 DEF breaksBefore
  <2>4. \A j \in more \cup {-1} : (\A m \in more : m <= j) => j = i
    BY <2>1 DEF breaksBefore
  <2>5. after = i
    BY <2>3, <2>4
  <2> HIDE DEF breaks, more, before, after
  <2>6. posOf(i + 1) = [idx |-> i + 1, line |-> (1 + Cardinality(breaks)) + 1, col |-> 1]
    BY <1>1, <1>3, <2>2, <2>5
  <2> QED BY <1>1, <1>4, <2>6 DEF eat_character
<1>5. CASE at(i) # "\n"
  <2>1. more = breaks
    BY <1>5 DEF breaksBefore
  <2>2. after = before
    BY <2>1
  <2>3. before \in Int
    <3>1. \E j \in breaks \cup {-1} : \A m \in breaks : m <= j
      <4>1. CASE breaks = {}
        BY <4>1
      <4>2. CASE breaks # {}
        <5>1. breaks \in SUBSET (0..i)
          BY DEF breaksBefore
        <5> HIDE DEF breaks
        <5> QED BY <4>2, <5>1, GreatestNat
      <4> QED BY <4>1, <4>2
    <3>2. before \in breaks \cup {-1}
      BY <3>1
    <3> HIDE DEF breaks, before
    <3>3. breaks \cup {-1} \subseteq Int
      BY <1>2
    <3> QED BY <3>2, <3>3
  <2> HIDE DEF breaks, more, before, after
  <2>4. posOf(i + 1) = [idx |-> i + 1, line |-> 1 + Cardinality(breaks), col |-> (i - before) + 1]
    BY <1>1, <2>1, <2>2, <2>3
  <2> QED BY <1>1, <1>5, <2>4 DEF eat_character
<1> QED BY <1>4, <1>5

\* So do any number of them.
LEMMA PositionLater ==
  ASSUME NEW i \in Nat, NEW n \in Nat
  PROVE  eat_characters(posOf(i), n) = posOf(i + n)
<1> DEFINE IsAte(f) == f = [k \in 0..n |-> IF k = 0 THEN posOf(i) ELSE eat_character(f[k - 1])]
           g == [k \in 0..n |-> posOf(i + k)]
<1>1. IsAte(g)
  <2>1. ASSUME NEW k \in 0..n PROVE posOf(i + k) = IF k = 0 THEN posOf(i) ELSE eat_character(g[k - 1])
    <3>1. CASE k = 0
      BY <3>1
    <3>2. CASE k # 0
      <4>1. PICK m \in 0..n : m + 1 = k
        <5>1. k - 1 \in 0..n /\ (k - 1) + 1 = k
          BY <3>2
        <5> QED BY <5>1
      <4>2. g[k - 1] = posOf(i + m) /\ i + m \in Nat /\ i + k = (i + m) + 1
        BY <4>1
      <4> QED BY <3>2, <4>2, PositionNext
    <3> QED BY <3>1, <3>2
  <2> QED BY <2>1
<1>2. PICK f : f = (CHOOSE h : IsAte(h)) /\ IsAte(f)
  BY <1>1
<1>3. eat_characters(posOf(i), n) = f[n]
  BY <1>2 DEF eat_characters
<1>5. f = [k \in 0..n |-> IF k = 0 THEN posOf(i) ELSE eat_character(f[k - 1])]
  BY <1>2
<1> DEFINE T == {k \in 0..n : f[k] # posOf(i + k)}
<1>4. T = {}
  <2> SUFFICES ASSUME T # {} PROVE FALSE
    OBVIOUS
  <2>1. PICK k \in T : \A m \in T : k <= m
    <3>1. T \in SUBSET Nat
      OBVIOUS
    <3> HIDE DEF T
    <3> QED BY <3>1, LeastNat
  <2>2. f[0] = posOf(i)
    <3>1. 0 \in 0..n
      OBVIOUS
    <3> QED BY <1>5, <3>1, Zenon
  <2>3. k # 0
    BY <2>2
  <2>4. PICK m \in 0..n : m + 1 = k
    <3>1. k - 1 \in 0..n /\ (k - 1) + 1 = k
      BY <2>3
    <3> QED BY <3>1
  <2>5. f[m] = posOf(i + m)
    BY <2>1, <2>4
  <2>6. f[k] = eat_character(f[k - 1]) /\ k - 1 = m
    <3>1. k \in 0..n /\ k - 1 = m
      BY <2>4
    <3>2. f[k] = IF k = 0 THEN posOf(i) ELSE eat_character(f[k - 1])
      BY <1>5, <3>1, Zenon
    <3> QED BY <2>3, <3>1, <3>2
  <2>7. i + m \in Nat /\ i + k = (i + m) + 1
    BY <2>4
  <2> QED BY <2>5, <2>6, <2>7, PositionNext
<1> QED BY <1>3, <1>4
-----------------------------------------------------------------------------
(* Where things end in the text                                            *)

LEMMA TextEnds ==
  ASSUME text \in Texts
  PROVE  Len(text) \in Nat /\ \A i \in Nat : at(i) = NUL <=> Len(text) <= i
<1>1. text \in Seq(ToSet(text) \ {NUL})
  BY CharactersAssumption
<1>2. Len(text) \in Nat
  BY <1>1
<1>3. ASSUME NEW i \in Nat, i < Len(text) PROVE at(i) # NUL
  <2>1. i + 1 \in 1..Len(text)
    BY <1>2, <1>3
  <2>2. text[i + 1] \in ToSet(text) \ {NUL}
    BY <1>1, <2>1
  <2> QED BY <1>3, <2>2 DEF at
<1> QED BY <1>2, <1>3 DEF at

LEMMA NulApart ==
  NUL \notin {"\n", "'", "\\", QUOTE, "_", " ", "\t", "/", "0", "x", ".", ":"}
<1>1. NUL # QUOTE
  BY Zenon DEF NUL, QUOTE
<1> QED BY <1>1 DEF NUL

LEMMA TextBefore ==
  ASSUME text \in Texts, NEW i \in Nat, at(i) # NUL
  PROVE  i < Len(text)
BY TextEnds

LEMMA CharacterHere ==
  ASSUME here.idx \in Nat
  PROVE  c0 = at(here.idx) /\ c1 = at(here.idx + 1)
<1>1. here.idx + 0 = here.idx
  OBVIOUS
<1> QED BY <1>1 DEF c0, c1, peek_char

\* Of the places where something may stop there is a first.
LEMMA FirstStop ==
  ASSUME NEW n \in Nat, NEW i \in 0..n, NEW T \in SUBSET (i..n), n \in T
  PROVE  \E k \in T : \A j \in i..(k-1) : j \in (i..n) \ T
<1>1. PICK k \in T : \A j \in T : k <= j
  BY LeastNat
<1>2. \A j \in i..(k-1) : j \in i..n /\ ~(k <= j)
  OBVIOUS
<1> QED BY <1>1, <1>2

LEMMA AfterAll ==
  ASSUME text \in Texts, NEW i \in 0..Len(text), NEW S, NUL \notin S
  PROVE  /\ afterAll(i, S) \in i..Len(text) /\ at(afterAll(i, S)) \notin S
         /\ \A j \in i..(afterAll(i, S) - 1) : at(j) \in S
<1> DEFINE T == {k \in i..Len(text) : at(k) \notin S}
<1>1. Len(text) \in Nat /\ Len(text) \in T /\ T \in SUBSET (i..Len(text))
  BY TextEnds
<1>2. PICK k \in T : \A j \in i..(k-1) : j \in (i..Len(text)) \ T
  <2> HIDE DEF T
  <2> QED BY <1>1, FirstStop
<1> QED BY <1>2 DEF afterAll

LEMMA AfterDigits ==
  ASSUME text \in Texts, NEW i \in 0..Len(text)
  PROVE  afterDigits(i) \in i..Len(text)
<1> DEFINE goesOn(j) == is_digit(at(j)) \/ (at(j) = "_" /\ is_digit(at(j + 1)))
           T == {k \in i..Len(text) : ~goesOn(k)}
<1>1. Len(text) \in Nat /\ Len(text) \in T /\ T \in SUBSET (i..Len(text))
  <2>1. ~is_digit(NUL) /\ NUL # "_"
    BY CharactersAssumption, NulApart DEF is_digit
  <2>2. Len(text) \in Nat /\ at(Len(text)) = NUL
    BY TextEnds
  <2>3. ~goesOn(Len(text))
    BY <2>1, <2>2
  <2> HIDE DEF goesOn
  <2> QED BY <2>2, <2>3
<1>2. PICK k \in T : \A j \in i..(k-1) : j \in (i..Len(text)) \ T
  <2> HIDE DEF T
  <2> QED BY <1>1, FirstStop
<1> QED BY <1>2 DEF afterDigits

\* A character ends in the text, whatever is wrong with it.
LEMMA AfterCharacter ==
  ASSUME text \in Texts, here.idx \in Nat, c0 = "'"
  PROVE  afterCharacter.idx \in (here.idx + 1)..Len(text)
<1>1. PICK i \in Nat : i = here.idx + 1
  OBVIOUS
<1>2. Len(text) \in Nat /\ here.idx < Len(text)
  BY TextEnds, TextBefore, CharacterHere, NulApart
<1>3. i \in 0..Len(text)
  BY <1>1, <1>2
<1>4. CASE at(i) = "\\" /\ at(i + 1) = "x" /\ isHex(at(i + 2)) /\ isHex(at(i + 3))
  <2>1. ~isHex(NUL)
    BY CharactersAssumption DEF isHex, digitValue, is_digit
  <2>2. i + 3 < Len(text)
    BY <1>4, <2>1, TextBefore
  <2>3. afterCharacter.idx = i + 4
    BY <1>1, <1>4 DEF afterCharacter
  <2> QED BY <1>1, <1>2, <2>2, <2>3
<1>5. CASE at(i) = "\\" /\ ~(at(i + 1) = "x" /\ isHex(at(i + 2)) /\ isHex(at(i + 3)))
  <2>1. i < Len(text)
    BY <1>5, NulApart, TextBefore
  <2>2. CASE at(i + 1) = NUL
    <3>1. afterCharacter.idx = i + 1
      BY <1>1, <1>5, <2>2 DEF afterCharacter
    <3> QED BY <1>1, <1>2, <2>1, <3>1
  <2>3. CASE at(i + 1) # NUL
    <3>1. afterCharacter.idx = i + 2
      BY <1>1, <1>5, <2>3 DEF afterCharacter
    <3>2. i + 1 < Len(text)
      BY <2>3, TextBefore
    <3> QED BY <1>1, <1>2, <3>1, <3>2
  <2> QED BY <2>2, <2>3
<1>6. CASE at(i) # "\\" /\ at(i) \in {"'", "\n", NUL}
  <2>1. afterCharacter.idx = i
    BY <1>1, <1>6 DEF afterCharacter
  <2> QED BY <1>1, <1>2, <2>1
<1>7. CASE at(i) # "\\" /\ at(i) \notin {"'", "\n", NUL}
  <2>1. i < Len(text)
    BY <1>7, TextBefore
  <2>2. CASE at(i) \in DOMAIN WideBytes
    <3>1. afterCharacter.idx = afterAll(i, DOMAIN WideBytes)
      BY <1>1, <1>7, <2>2 DEF afterCharacter
    <3>2. NUL \notin DOMAIN WideBytes
      BY CharactersAssumption
    <3> QED BY <1>1, <1>3, <3>1, <3>2, AfterAll
  <2>3. CASE at(i) \notin DOMAIN WideBytes
    <3>1. afterCharacter.idx = i + 1
      BY <1>1, <1>7, <2>3 DEF afterCharacter
    <3> QED BY <1>1, <1>2, <2>1, <3>1
  <2> QED BY <2>2, <2>3
<1> QED BY <1>4, <1>5, <1>6, <1>7

LEMMA ClosingQuote ==
  ASSUME text \in Texts, here.idx \in Nat, c0 = QUOTE
  PROVE  closingQuote \in (here.idx + 1)..Len(text)
<1> DEFINE escaped == CHOOSE f : f = [j \in here.idx..Len(text) |->
                         j > here.idx + 1 /\ at(j - 1) = "\\" /\ ~f[j - 1] /\ at(j) # NUL]
           T == {k \in (here.idx + 1)..Len(text) : at(k) = NUL \/ (at(k) = QUOTE /\ ~escaped[k])}
<1>1. closingQuote = CHOOSE k \in (here.idx + 1)..Len(text) :
                       /\ at(k) = NUL \/ (at(k) = QUOTE /\ ~escaped[k])
                       /\ \A j \in (here.idx + 1)..(k - 1) : at(j) # QUOTE \/ escaped[j]
  BY DEF closingQuote
<1> HIDE DEF escaped
<1>2. Len(text) \in Nat /\ here.idx < Len(text)
  BY TextEnds, TextBefore, CharacterHere, NulApart
<1> DEFINE i == here.idx + 1
<1>3. i \in 0..Len(text) /\ Len(text) \in i..Len(text)
  BY <1>2
<1>6. at(Len(text)) = NUL
  BY TextEnds
<1>7. Len(text) \in T /\ T \in SUBSET (i..Len(text))
  BY <1>3, <1>6
<1>4. PICK k \in T : \A j \in i..(k-1) : j \in (i..Len(text)) \ T
  <2> HIDE DEF T, i
  <2> QED BY <1>2, <1>3, <1>7, FirstStop
<1>5. /\ k \in (here.idx + 1)..Len(text)
      /\ at(k) = NUL \/ (at(k) = QUOTE /\ ~escaped[k])
      /\ \A j \in (here.idx + 1)..(k - 1) : at(j) # QUOTE \/ escaped[j]
  BY <1>4
<1> QED BY <1>1, <1>5, Zenon
-----------------------------------------------------------------------------
(* Numbers with a prefix                                                   *)

\* What is read character by character is a function: it can be gone on with for as long as
\* there are characters.
ReadsOn(f, i, k, S, first, step) ==
  f \in [i..k -> S] /\ \A j \in i..k : f[j] = IF j = i THEN first ELSE step[j][f[j - 1]]

LEMMA ReadOn ==
  ASSUME NEW i \in Nat, NEW k \in Nat, NEW S, NEW first \in S, NEW step \in [Nat -> [S -> S]]
  PROVE  \E f : ReadsOn(f, i, k, S, first, step)
<1> DEFINE Reads(f, n) == f = [j \in i..n |-> IF j = i THEN first ELSE step[j][f[j - 1]]]
           T == {n \in Nat : ~\E f \in [i..n -> S] : Reads(f, n)}
<1>1. T = {}
  <2> SUFFICES ASSUME T # {} PROVE FALSE
    OBVIOUS
  <2>1. PICK n \in T : \A m \in T : n <= m
    <3>1. T \in SUBSET Nat
      OBVIOUS
    <3> HIDE DEF T
    <3> QED BY <3>1, LeastNat
  <2>2. CASE n <= i
    <3> DEFINE g == [j \in i..n |-> first]
    <3>1. g \in [i..n -> S] /\ \A j \in i..n : j = i
      BY <2>2
    <3>2. Reads(g, n)
      BY <3>1
    <3> QED BY <3>1, <3>2
  <2>3. CASE i < n
    <3>1. PICK m \in Nat : n = m + 1 /\ i <= m
      <4>1. n - 1 \in Nat /\ n = (n - 1) + 1 /\ i <= n - 1
        BY <2>3
      <4> QED BY <4>1
    <3>2. m \notin T
      <4>1. ~(n <= m)
        BY <3>1
      <4> HIDE DEF T
      <4> QED BY <2>1, <4>1
    <3>3. PICK f \in [i..m -> S] : Reads(f, m)
      BY <3>2
    <3> DEFINE g == [j \in i..n |-> IF j = i THEN first ELSE step[j][f[j - 1]]]
    <3>4. ASSUME NEW j \in i..n, j # i PROVE j \in Nat /\ f[j - 1] \in S /\ j - 1 \in i..m
      <4>1. j - 1 \in i..m /\ j \in Nat
        BY <3>1, <3>4
      <4> QED BY <4>1
    <3>5. g \in [i..n -> S]
      BY <3>4
    <3>6. ASSUME NEW j \in i..m PROVE g[j] = f[j]
      <4>1. f[j] = IF j = i THEN first ELSE step[j][f[j - 1]]
        BY <3>3
      <4>2. j \in i..n
        BY <3>1
      <4> QED BY <4>1, <4>2
    <3>7. ASSUME NEW j \in i..n, j # i PROVE step[j][f[j - 1]] = step[j][g[j - 1]]
      BY <3>4, <3>6, <3>7
    <3>8. Reads(g, n)
      <4>1. \A j \in i..n : (IF j = i THEN first ELSE step[j][f[j - 1]])
                            = IF j = i THEN first ELSE step[j][g[j - 1]]
        BY <3>7
      <4> HIDE DEF Reads
      <4> QED BY <4>1, Zenon DEF Reads
    <3> QED BY <3>5, <3>8
  <2> QED BY <2>2, <2>3
<1>2. PICK f \in [i..k -> S] : Reads(f, k)
  BY <1>1
<1>3. f = [j \in i..k |-> IF j = i THEN first ELSE step[j][f[j - 1]]]
  BY <1>2
<1>4. \A j \in i..k : f[j] = IF j = i THEN first ELSE step[j][f[j - 1]]
  BY <1>3, Zenon
<1> QED BY <1>4 DEF ReadsOn

LEMMA DigitValue ==
  ASSUME NEW c
  PROVE  digitValue(c) \in Nat
<1>1. CASE is_digit(c)
  <2>1. \E n \in 1..Len(Digits) : Digits[n] = c
    BY <1>1, CharactersAssumption DEF is_digit, ToSet
  <2>2. PICK n \in 1..Len(Digits) : n = CHOOSE m \in 1..Len(Digits) : Digits[m] = c
    BY <2>1
  <2>3. Len(Digits) \in Nat
    BY CharactersAssumption
  <2> QED BY <1>1, <2>2, <2>3 DEF digitValue
<1>2. CASE ~is_digit(c) /\ c \in ToSet(HexLetters)
  <2>1. \E n \in 1..Len(HexLetters) : HexLetters[n] = c
    BY <1>2, CharactersAssumption DEF ToSet
  <2>2. PICK n \in 1..Len(HexLetters) : n = CHOOSE m \in 1..Len(HexLetters) : HexLetters[m] = c
    BY <2>1
  <2>3. Len(HexLetters) \in Nat
    BY CharactersAssumption
  <2> QED BY <1>2, <2>2, <2>3 DEF digitValue
<1> QED BY <1>1, <1>2 DEF digitValue

\* The test for overflow, made before the value wraps around: without it nothing does.
LEMMA NoWrap ==
  ASSUME NEW v \in Nat, NEW d \in Nat, NEW b \in Nat \ {0}, NEW W \in Nat \ {0},
         v <= (W - 1 - d) \div b
  PROVE  (v * b + d) % W = v * b + d
<1> DEFINE r == W - 1 - d
           q == r \div b
<1>1. r \in Int /\ q \in Int
  OBVIOUS
<1>2. q * b <= r
  OBVIOUS
<1>8. v <= q
  OBVIOUS
<1> HIDE DEF q
<1>3. v * b <= q * b
  <2>1. PICK n \in Nat : q = v + n
    <3>1. q - v \in Nat /\ q = v + (q - v)
      BY <1>1, <1>8
    <3> QED BY <3>1
  <2>2. (v + n) * b = v * b + n * b
    OBVIOUS
  <2>3. n * b \in Nat /\ v * b \in Nat
    OBVIOUS
  <2> QED BY <2>1, <2>2, <2>3
<1>4. v * b \in Nat
  OBVIOUS
<1>5. PICK p \in Nat : p = v * b
  BY <1>4
<1>6. p + d < W
  BY <1>1, <1>2, <1>3, <1>5
<1>7. (p + d) % W = p + d
  BY <1>6
<1> QED BY <1>5, <1>7

LEMMA AfterDigit ==
  ASSUME NEW base, NEW acc, NEW c
  PROVE  /\ afterDigit(base, acc, c).value = (acc.value * base + digitValue(c)) % 2^Bits
         /\ ~afterDigit(base, acc, c).overflow
              => ~acc.overflow /\ ~(acc.value > (2^Bits - 1 - digitValue(c)) \div base)
BY DEF afterDigit

\* A number that is not said to be too big is what is written.
LEMMA PrefixedValue ==
  ASSUME NEW i \in Nat, NEW k \in Nat, i <= k, NEW base, Positive(base),
         ~afterPrefix(base, i, k).overflow
  PROVE  afterPrefix(base, i, k).value = trueValue(base, i, k)
<1> DEFINE W == 2^Bits
           zero == [value |-> 0, overflow |-> FALSE, bad_digit |-> FALSE]
           Acc == [value : Nat, overflow : BOOLEAN, bad_digit : BOOLEAN]
           Reads(f) == f = [j \in i..k |-> IF j = i THEN zero
                                           ELSE IF at(j - 1) = "_" THEN f[j - 1]
                                           ELSE afterDigit(base, f[j - 1], at(j - 1))]
           Counts(f) == f = [j \in i..k |-> IF j = i THEN 0
                                            ELSE IF at(j - 1) = "_" THEN f[j - 1]
                                            ELSE f[j - 1] * base + digitValue(at(j - 1))]
<1>1. W \in Nat \ {0} /\ base \in Nat \ {0}
  BY CharactersAssumption DEF Positive
<1> HIDE DEF W
<1>2. ASSUME NEW acc \in Acc, NEW c PROVE afterDigit(base, acc, c) \in Acc
  <2>1. (acc.value * base + digitValue(c)) % W \in Nat
    <3>1. PICK d \in Nat : d = digitValue(c)
      BY DigitValue
    <3>2. acc.value * base \in Nat
      BY <1>1
    <3>3. acc.value * base + d \in Nat
      BY <3>1, <3>2
    <3> QED BY <1>1, <3>1, <3>3
  <2> QED BY <2>1 DEF afterDigit, W
<1>3. \E f \in [i..k -> Acc] : Reads(f)
  <2> DEFINE step == [j \in Nat |-> [acc \in Acc |-> IF at(j - 1) = "_" THEN acc
                                                   ELSE afterDigit(base, acc, at(j - 1))]]
  <2>1. step \in [Nat -> [Acc -> Acc]] /\ zero \in Acc
    BY <1>2
  <2>2. PICK f \in [i..k -> Acc] : \A j \in i..k : f[j] = IF j = i THEN zero ELSE step[j][f[j - 1]]
    <3> HIDE DEF step, zero, Acc
    <3>1. \E f : ReadsOn(f, i, k, Acc, zero, step)
      BY <2>1, ReadOn
    <3> QED BY <3>1 DEF ReadsOn
  <2>3. ASSUME NEW j \in i..k, j # i
        PROVE  step[j][f[j - 1]] = IF at(j - 1) = "_" THEN f[j - 1]
                                       ELSE afterDigit(base, f[j - 1], at(j - 1))
    <3>1. j \in Nat /\ f[j - 1] \in Acc
      <4>1. j - 1 \in i..k
        BY <2>3
      <4> QED BY <4>1
    <3> HIDE DEF Acc
    <3> QED BY <3>1
  <2>4. \A j \in i..k : f[j] = IF j = i THEN zero ELSE IF at(j - 1) = "_" THEN f[j - 1]
                                             ELSE afterDigit(base, f[j - 1], at(j - 1))
    BY <2>2, <2>3
  <2> HIDE DEF step, Acc, zero
  <2>5. Reads(f)
    BY <2>4
  <2> QED BY <2>5
<1>4. \E f \in [i..k -> Nat] : Counts(f)
  <2> DEFINE step == [j \in Nat |-> [v \in Nat |-> IF at(j - 1) = "_" THEN v
                                                 ELSE v * base + digitValue(at(j - 1))]]
  <2>1. step \in [Nat -> [Nat -> Nat]]
    <3>1. ASSUME NEW v \in Nat, NEW c PROVE v * base + digitValue(c) \in Nat
      <4>1. digitValue(c) \in Nat
        BY DigitValue
      <4>2. v * base \in Nat
        BY <1>1
      <4> QED BY <4>1, <4>2
    <3> QED BY <3>1
  <2>2. PICK f \in [i..k -> Nat] : \A j \in i..k : f[j] = IF j = i THEN 0 ELSE step[j][f[j - 1]]
    <3> HIDE DEF step
    <3>1. \E f : ReadsOn(f, i, k, Nat, 0, step)
      BY <2>1, ReadOn
    <3> QED BY <3>1 DEF ReadsOn
  <2>3. ASSUME NEW j \in i..k, j # i
        PROVE  step[j][f[j - 1]] = IF at(j - 1) = "_" THEN f[j - 1]
                                       ELSE f[j - 1] * base + digitValue(at(j - 1))
    <3>1. j \in Nat /\ f[j - 1] \in Nat
      <4>1. j - 1 \in i..k
        BY <2>3
      <4> QED BY <4>1
    <3> QED BY <3>1
  <2>4. \A j \in i..k : f[j] = IF j = i THEN 0 ELSE IF at(j - 1) = "_" THEN f[j - 1]
                                          ELSE f[j - 1] * base + digitValue(at(j - 1))
    BY <2>2, <2>3
  <2> HIDE DEF step, Acc, zero
  <2>5. Counts(f)
    BY <2>4
  <2> QED BY <2>5
<1>5. PICK read, true : /\ Reads(read) /\ Counts(true)
                        /\ afterPrefix(base, i, k) = read[k] /\ trueValue(base, i, k) = true[k]
  <2> DEFINE r == CHOOSE f : Reads(f)
             t == CHOOSE f : Counts(f)
  <2>1. afterPrefix(base, i, k) = r[k] /\ trueValue(base, i, k) = t[k]
    BY DEF afterPrefix, trueValue
  <2> HIDE DEF Reads, Counts
  <2>2. Reads(r) /\ Counts(t)
    BY <1>3, <1>4
  <2> QED BY <2>1, <2>2
<1>6. read = [j \in i..k |-> IF j = i THEN zero
                             ELSE IF at(j - 1) = "_" THEN read[j - 1]
                             ELSE afterDigit(base, read[j - 1], at(j - 1))]
  BY <1>5
<1>7. true = [j \in i..k |-> IF j = i THEN 0
                             ELSE IF at(j - 1) = "_" THEN true[j - 1]
                             ELSE true[j - 1] * base + digitValue(at(j - 1))]
  BY <1>5
<1>8. ASSUME NEW j \in i..k
      PROVE  /\ read[j] = IF j = i THEN zero ELSE IF at(j - 1) = "_" THEN read[j - 1]
                          ELSE afterDigit(base, read[j - 1], at(j - 1))
             /\ true[j] = IF j = i THEN 0 ELSE IF at(j - 1) = "_" THEN true[j - 1]
                          ELSE true[j - 1] * base + digitValue(at(j - 1))
  BY <1>6, <1>7, Zenon
<1> DEFINE Right(j) == read[j] \in Acc /\ (~read[j].overflow => read[j].value = true[j])
           T == {j \in i..k : ~Right(j)}
<1>9. T = {}
  <2> SUFFICES ASSUME T # {} PROVE FALSE
    OBVIOUS
  <2>1. PICK j \in T : \A m \in T : j <= m
    <3>1. T \in SUBSET Nat
      OBVIOUS
    <3> HIDE DEF T
    <3> QED BY <3>1, LeastNat
  <2>2. j \in i..k /\ ~Right(j)
    OBVIOUS
  <2>3. CASE j = i
    <3>1. read[j] = zero /\ true[j] = 0
      BY <1>8, <2>2, <2>3
    <3>3. zero \in Acc /\ zero.value = 0
      OBVIOUS
    <3>2. Right(j)
      <4> HIDE DEF zero, Acc
      <4> QED BY <3>1, <3>3
    <3> QED BY <2>2, <3>2
  <2>4. CASE j # i
    <3>1. j - 1 \in i..k /\ ~(j <= j - 1)
      BY <2>2, <2>4
    <3>2. Right(j - 1)
      <4> HIDE DEF Right
      <4> QED BY <2>1, <3>1
    <3>3. PICK acc \in Acc : acc = read[j - 1] /\ (~acc.overflow => acc.value = true[j - 1])
      BY <3>2
    <3> DEFINE c == at(j - 1)
    <3>4. CASE c = "_"
      BY <1>8, <2>2, <2>4, <3>2, <3>4
    <3>5. CASE c # "_"
      <4>1. read[j] = afterDigit(base, acc, c)
        BY <1>8, <2>2, <2>4, <3>3, <3>5
      <4>2. true[j] = true[j - 1] * base + digitValue(c)
        BY <1>8, <2>2, <2>4, <3>5
      <4>3. read[j] \in Acc
        BY <1>2, <4>1
      <4>4. PICK d \in Nat : d = digitValue(c)
        BY DigitValue
      <4>5. ASSUME ~read[j].overflow PROVE read[j].value = true[j]
        <5>1. ~acc.overflow /\ ~(acc.value > (W - 1 - d) \div base) /\ read[j].value = (acc.value * base + d) % W
          BY <4>1, <4>4, <4>5, AfterDigit DEF W
        <5>2. PICK v \in Nat : v = acc.value
          OBVIOUS
        <5>3. v <= (W - 1 - d) \div base
          <6>1. (W - 1 - d) \div base \in Int
            BY <1>1
          <6> QED BY <5>1, <5>2, <6>1
        <5>4. (v * base + d) % W = v * base + d
          BY <1>1, <5>3, NoWrap
        <5> QED BY <3>3, <4>2, <4>4, <5>1, <5>2, <5>4
      <4> QED BY <2>2, <4>3, <4>5
    <3> QED BY <3>4, <3>5
  <2> QED BY <2>3, <2>4
<1>10. k \in i..k
  OBVIOUS
<1>11. Right(k)
  <2> HIDE DEF Right
  <2> QED BY <1>9, <1>10
<1> QED BY <1>5, <1>11
-----------------------------------------------------------------------------
(* Rounds *)

\* Where the lexer is, when all is well
Position == text \in Texts /\ here.idx \in 0..Len(text) /\ here = posOf(here.idx)

Blanks == {" ", "\t", "\n"}

\* What a round may do that isn't the last: it gets to k
GoesOn(k) == /\ here' = posOf(k)
             /\ text' = text /\ lexing' = lexing
             /\ had_errors => had_errors'
PutsToken(k) == \E type, value :
    /\ tokens' = Append(tokens, Token(type, posOf(k), value))
    /\ type = "INTEGER" /\ startsPrefixed /\ ~had_errors' => value = trueValue(Radix[c1], here.idx + 2, k)
PassesOver(k) == /\ tokens' = tokens
                 /\ \/ had_errors'
                    \/ \A i \in here.idx..(k-1) : at(i) \in Blanks
                    \/ startsComment /\ \A i \in here.idx..(k-1) : at(i) # "\n"
GetsTo(k) == k \in (here.idx + 1)..Len(text) /\ GoesOn(k) /\ (PutsToken(k) \/ PassesOver(k))

LEMMA UpTo ==
  ASSUME Position, NEW k \in here.idx..Len(text)
  PROVE  upTo(k) = posOf(k) /\ k \in Nat
<1>1. PICK i \in Nat : i = here.idx /\ here = posOf(i)
  BY DEF Position
<1>2. Len(text) \in Nat
  BY TextEnds DEF Position
<1>3. k - i \in Nat /\ i + (k - i) = k /\ k \in Nat
  BY <1>1, <1>2
<1>4. eat_characters(posOf(i), k - i) = posOf(i + (k - i))
  BY <1>3, PositionLater
<1> QED BY <1>1, <1>3, <1>4 DEF upTo

\* What all rounds that put a token have in common
LEMMA PutToken ==
  ASSUME Position, NEW k \in (here.idx + 1)..Len(text), NEW type, NEW value,
         push_token(type, k, value), had_errors => had_errors',
         type = "INTEGER" /\ startsPrefixed /\ ~had_errors' => value = trueValue(Radix[c1], here.idx + 2, k)
  PROVE  GetsTo(k)
<1>1. here.idx \in Int /\ Len(text) \in Nat
  BY TextEnds DEF Position
<1>2. k \in here.idx..Len(text)
  BY <1>1
<1>3. upTo(k) = posOf(k)
  BY <1>2, UpTo
<1>4. tokens' = Append(tokens, Token(type, posOf(k), value)) /\ here' = posOf(k) /\ text' = text /\ lexing' = lexing
  BY <1>3 DEF push_token
<1>5. PutsToken(k) /\ GoesOn(k)
  BY <1>4 DEF PutsToken, GoesOn
<1> QED BY <1>5 DEF GetsTo

LEMMA HereBefore ==
  ASSUME Position, c0 # NUL
  PROVE  here.idx \in Nat /\ Len(text) \in Nat /\ here.idx + 1 \in 0..Len(text) /\ at(here.idx) = c0
<1>1. here.idx \in Nat /\ Len(text) \in Nat /\ at(here.idx) = c0
  BY TextEnds, CharacterHere DEF Position
<1>2. here.idx < Len(text)
  BY <1>1, TextBefore DEF Position
<1> QED BY <1>1, <1>2

LEMMA BlankRound ==
  ASSUME Position, blank
  PROVE  GetsTo(here.idx + 1)
<1>1. PICK i \in Nat : i = here.idx /\ here = posOf(i)
  BY DEF Position
<1>2. c0 \in Blanks /\ here' = eat_character(here)
  BY DEF blank, Blanks
<1>3. i + 1 \in 0..Len(text) /\ at(i) = c0 /\ Len(text) \in Nat
  BY <1>1, <1>2, HereBefore, NulApart DEF Blanks
<1>4. here' = posOf(i + 1)
  BY <1>1, <1>2, PositionNext
<1>5. \A j \in i..((i + 1) - 1) : at(j) \in Blanks
  <2>1. \A j \in i..((i + 1) - 1) : j = i
    OBVIOUS
  <2> QED BY <1>2, <1>3, <2>1
<1>6. PassesOver(i + 1)
  BY <1>1, <1>5 DEF PassesOver, blank
<1>7. GoesOn(i + 1)
  BY <1>4 DEF GoesOn, blank
<1>8. i + 1 \in (i + 1)..Len(text)
  BY <1>3
<1> QED BY <1>1, <1>6, <1>7, <1>8 DEF GetsTo

LEMMA CommentRound ==
  ASSUME Position, comment
  PROVE  \E k : GetsTo(k)
<1> DEFINE rest == {k \in here.idx..Len(text) : at(k) \in {"\n", NUL}}
<1>1. startsComment /\ here' = upTo(CHOOSE k \in rest : \A j \in rest : k <= j)
  BY DEF comment
<1>2. c0 = "/"
  BY <1>1 DEF startsComment
<1>3. PICK i \in Nat : i = here.idx /\ i + 1 \in 0..Len(text) /\ Len(text) \in Nat /\ at(i) = "/"
  BY <1>2, HereBefore, NulApart
<1>4. Len(text) \in rest /\ rest \in SUBSET Nat
  <2>1. at(Len(text)) = NUL
    BY <1>3, TextEnds DEF Position
  <2> QED BY <1>3, <2>1
<1>5. PICK k \in rest : /\ k = CHOOSE q \in rest : \A j \in rest : q <= j
                        /\ \A j \in rest : k <= j
  <2> HIDE DEF rest
  <2>1. \E q \in rest : \A j \in rest : q <= j
    BY <1>4, LeastNat
  <2> QED BY <2>1
<1>6. k \in i..Len(text) /\ at(k) \in {"\n", NUL}
  BY <1>3
<1>7. k # i
  BY <1>3, <1>6, NulApart
<1>8. k \in (i + 1)..Len(text)
  BY <1>3, <1>6, <1>7
<1>9. ASSUME NEW j \in i..(k-1) PROVE at(j) # "\n"
  <2>1. j \in i..Len(text) /\ ~(k <= j)
    BY <1>3, <1>6
  <2>2. j \notin rest
    <3> HIDE DEF rest
    <3> QED BY <1>5, <2>1
  <2> QED BY <1>3, <2>1, <2>2
<1> HIDE DEF rest
<1>10. here' = posOf(k)
  BY <1>1, <1>3, <1>5, <1>6, UpTo
<1>11. PassesOver(k) /\ GoesOn(k)
  BY <1>1, <1>3, <1>9, <1>10 DEF PassesOver, GoesOn, comment
<1> QED BY <1>3, <1>8, <1>11 DEF GetsTo

LEMMA PrefixedRound ==
  ASSUME Position, prefixed
  PROVE  \E k : GetsTo(k)
<1> DEFINE S == {"_"} \cup Letters \cup ToSet(Digits)
           k == afterAll(here.idx + 2, S)
           result == afterPrefix(Radix[c1], here.idx + 2, k)
<1>1. /\ startsPrefixed
      /\ push_token("INTEGER", k, result.value)
      /\ \E noDigits : had_errors' = (had_errors \/ noDigits \/ result.bad_digit \/ result.overflow)
  BY DEF prefixed
<1>2. c0 = "0" /\ c1 \in DOMAIN Radix /\ c1 # NUL /\ Positive(Radix[c1])
  BY <1>1, CharactersAssumption DEF startsPrefixed
<1>3. PICK i \in Nat : i = here.idx + 2 /\ i \in 0..Len(text) /\ Len(text) \in Nat /\ here.idx \in Nat
  <2>1. here.idx \in Nat /\ Len(text) \in Nat
    BY <1>2, HereBefore, NulApart
  <2>2. here.idx + 1 < Len(text)
    BY <1>2, <2>1, CharacterHere, TextBefore DEF Position
  <2> QED BY <2>1, <2>2
<1>4. k \in i..Len(text)
  <2>1. NUL \notin S
    BY CharactersAssumption, NulApart
  <2> HIDE DEF S
  <2> QED BY <1>3, <2>1, AfterAll DEF Position
<1> HIDE DEF k
<1>5. k \in Nat /\ i <= k /\ k \in (here.idx + 1)..Len(text)
  BY <1>3, <1>4
<1>6. ~had_errors' => result.value = trueValue(Radix[c1], here.idx + 2, k)
  BY <1>1, <1>2, <1>3, <1>5, PrefixedValue
<1>7. had_errors => had_errors'
  BY <1>1, Zenon
<1> HIDE DEF result
<1>8. GetsTo(k)
  BY <1>1, <1>5, <1>6, <1>7, PutToken
<1> QED BY <1>8

LEMMA NumberRound ==
  ASSUME Position, number
  PROVE  \E k : GetsTo(k)
<1>1. is_digit(c0) /\ ~startsPrefixed /\ had_errors' = had_errors
  BY DEF number, unchangedErrors
<1>2. here.idx \in Nat /\ Len(text) \in Nat /\ here.idx + 1 \in 0..Len(text)
  <2>1. c0 # NUL
    BY <1>1, CharactersAssumption DEF is_digit
  <2> QED BY <2>1, HereBefore
<1> DEFINE k == afterDigits(here.idx + 1)
<1>3. k \in (here.idx + 1)..Len(text)
  BY <1>2, AfterDigits DEF Position
<1>4. CASE at(k) = "." /\ at(k + 1) # "."
  <2> DEFINE m == afterDigits(k + 1)
  <2>1. push_token("FLOAT", m, 0)
    BY <1>4 DEF number
  <2> HIDE DEF k
  <2>2. k \in Nat /\ k < Len(text)
    <3>1. k \in Nat
      BY <1>2, <1>3
    <3>2. at(k) # NUL
      BY <1>4, NulApart
    <3> QED BY <3>1, <3>2, TextBefore DEF Position
  <2>3. m \in (k + 1)..Len(text)
    BY <1>2, <2>2, AfterDigits DEF Position
  <2> HIDE DEF m
  <2>4. m \in (here.idx + 1)..Len(text)
    BY <1>2, <1>3, <2>2, <2>3
  <2> QED BY <1>1, <2>1, <2>4, PutToken
<1>5. CASE ~(at(k) = "." /\ at(k + 1) # ".")
  <2>1. push_token("INTEGER", k, decimal(word(here.idx, k)))
    BY <1>5 DEF number
  <2> HIDE DEF k
  <2> QED BY <1>1, <1>3, <2>1, PutToken
<1> QED BY <1>4, <1>5

LEMMA CharacterRound ==
  ASSUME Position, character
  PROVE  \E k : GetsTo(k)
<1> DEFINE k == afterCharacter.idx
           Stops(j) == /\ at(j) \in {"'", "\n", NUL}
                       /\ \A m \in k..(j-1) : at(m) \notin {"'", "\n"}
           stop == CHOOSE j \in k..Len(text) : Stops(j)
           last == IF at(stop) = "'" THEN stop + 1 ELSE k
<1>1. c0 = "'" /\ push_token("INTEGER", last, 0)
  BY DEF character
<1>2. had_errors' = (had_errors \/ ~afterCharacter.good \/ at(k) # "'")
  BY DEF character
<1>3. here.idx \in Nat /\ Len(text) \in Nat /\ here.idx + 1 \in 0..Len(text) /\ ~startsPrefixed
  BY <1>1, HereBefore, NulApart DEF startsPrefixed
<1>4. k \in (here.idx + 1)..Len(text)
  BY <1>1, <1>3, AfterCharacter DEF Position
<1> HIDE DEF k
<1>5. stop \in k..Len(text)
  <2> DEFINE T == {j \in k..Len(text) : at(j) \in {"'", "\n", NUL}}
  <2>1. k \in 0..Len(text) /\ Len(text) \in k..Len(text)
    BY <1>3, <1>4
  <2>2. at(Len(text)) = NUL
    BY TextEnds DEF Position
  <2>3. Len(text) \in T /\ T \in SUBSET (k..Len(text))
    BY <2>1, <2>2
  <2>4. PICK j \in T : \A m \in k..(j-1) : m \in (k..Len(text)) \ T
    <3> HIDE DEF T
    <3> QED BY <1>3, <2>1, <2>3, FirstStop
  <2>5. j \in k..Len(text) /\ Stops(j)
    BY <2>4
  <2> HIDE DEF Stops
  <2> QED BY <2>5
<1> HIDE DEF stop
<1>6. last \in (here.idx + 1)..Len(text)
  <2>1. CASE at(stop) = "'"
    <3>1. stop \in Nat
      BY <1>3, <1>4, <1>5
    <3>2. stop < Len(text)
      BY <2>1, <3>1, TextBefore, NulApart DEF Position
    <3> QED BY <1>3, <1>4, <1>5, <2>1, <3>2
  <2>2. CASE at(stop) # "'"
    BY <1>4, <2>2
  <2> QED BY <2>1, <2>2
<1> HIDE DEF last
<1>7. had_errors => had_errors'
  BY <1>2, Zenon
<1> QED BY <1>1, <1>3, <1>6, <1>7, PutToken

LEMMA StringRound ==
  ASSUME Position, string
  PROVE  \E k : GetsTo(k)
<1> DEFINE k == closingQuote
           last == IF at(k) = NUL THEN k ELSE k + 1
<1>1. c0 = QUOTE /\ push_token("STRING", last, 0)
  BY DEF string
<1>2. had_errors' = (had_errors \/ at(k) = NUL)
  BY DEF string
<1>3. here.idx \in Nat /\ Len(text) \in Nat
  BY <1>1, HereBefore, NulApart
<1>4. k \in (here.idx + 1)..Len(text)
  BY <1>1, <1>3, ClosingQuote DEF Position
<1> HIDE DEF k
<1>5. last \in (here.idx + 1)..Len(text)
  <2>1. CASE at(k) # NUL
    <3>1. k \in Nat
      BY <1>3, <1>4
    <3>2. k < Len(text)
      BY <2>1, <3>1, TextBefore DEF Position
    <3> QED BY <1>3, <1>4, <2>1, <3>2
  <2> QED BY <1>4, <2>1
<1> HIDE DEF last
<1>6. had_errors => had_errors'
  BY <1>2, Zenon
<1> QED BY <1>1, <1>5, <1>6, PutToken

\* A keyword or an identifier takes at least one character.
LEMMA KeywordEnd ==
  ASSUME Position
  PROVE  /\ keywordEnd \in here.idx..Len(text)
         /\ starts_identifier(c0) \/ word(here.idx, keywordEnd) # <<>> => keywordEnd \in (here.idx + 1)..Len(text)
<1> DEFINE S == Letters \cup {"_"} \cup ToSet(Digits)
<1>1. here.idx \in 0..Len(text) /\ Len(text) \in Nat /\ here.idx \in Nat
  BY TextEnds DEF Position
<1>2. keywordEnd \in here.idx..Len(text) /\ at(keywordEnd) \notin S
  <2>1. NUL \notin S
    BY CharactersAssumption, NulApart
  <2>2. keywordEnd = afterAll(here.idx, S)
    BY DEF keywordEnd
  <2> HIDE DEF S
  <2> QED BY <1>1, <2>1, <2>2, AfterAll DEF Position
<1>3. ASSUME keywordEnd = here.idx PROVE ~starts_identifier(c0) /\ word(here.idx, keywordEnd) = <<>>
  <2>1. ~starts_identifier(c0)
    BY <1>1, <1>2, <1>3, CharacterHere DEF starts_identifier
  <2>2. PICK i \in Nat : i = here.idx
    BY <1>1
  <2>3. word(i, i) = <<>>
    <3>1. text \in Seq(ToSet(text) \ {NUL})
      BY CharactersAssumption DEF Position
    <3>2. SubSeq(text, i + 1, i) = <<>>
      BY <3>1
    <3> QED BY <3>2 DEF word
  <2> QED BY <1>3, <2>1, <2>2, <2>3
<1>4. keywordEnd # here.idx => keywordEnd \in (here.idx + 1)..Len(text)
  <2>1. PICK i \in Nat : i = here.idx
    BY <1>1
  <2>2. PICK e \in i..Len(text) : e = keywordEnd
    BY <1>2, <2>1
  <2>3. e # i => e \in (i + 1)..Len(text)
    BY <1>1
  <2> QED BY <2>1, <2>2, <2>3
<1> QED BY <1>2, <1>3, <1>4

LEMMA KeywordRound ==
  ASSUME Position, make_keyword
  PROVE  \E k : GetsTo(k)
<1> DEFINE token == Keywords[word(here.idx, keywordEnd)]
           type == IF token \in {"true", "false"} THEN "BOOLEAN" ELSE token
<1>1. push_token(type, keywordEnd, token) /\ had_errors' = had_errors
  BY DEF make_keyword, unchangedErrors
<1>2. ~startsPrefixed /\ word(here.idx, keywordEnd) \in DOMAIN Keywords
  BY DEF make_keyword, isKeyword, match_keyword
<1>3. keywordEnd \in (here.idx + 1)..Len(text)
  BY <1>2, KeywordEnd, WordsAssumption
<1> HIDE DEF token, type
<1> QED BY <1>1, <1>2, <1>3, PutToken

LEMMA IdentifierRound ==
  ASSUME Position, make_identifier
  PROVE  \E k : GetsTo(k)
<1> DEFINE name == word(here.idx, keywordEnd)
<1>1. push_token("IDENTIFIER", keywordEnd, name) /\ had_errors' = had_errors /\ starts_identifier(c0)
  BY DEF make_identifier, unchangedErrors
<1>2. keywordEnd \in (here.idx + 1)..Len(text)
  BY <1>1, KeywordEnd
<1> HIDE DEF name
<1> QED BY <1>1, <1>2, PutToken

LEMMA OperatorRound ==
  ASSUME Position, operator
  PROVE  \E k : GetsTo(k)
<1> DEFINE k == here.idx + operatorLength
           sign == word(here.idx, k)
<1>1. push_token(Operators[sign], k, 0) /\ had_errors' = had_errors
  BY DEF operator, unchangedErrors
<1>2. PICK i \in Nat : i = here.idx /\ i \in 0..Len(text) /\ Len(text) \in Nat
  BY TextEnds DEF Position
<1>3. operatorLength \in {1, 2, 3} /\ isOperator(operatorLength)
  BY DEF operator, operatorLength
<1>4. PICK m \in Nat : m = k /\ m \in (i + 1)..Len(text) /\ sign \in DOMAIN Operators
  <2>1. PICK n \in {1, 2, 3} : n = operatorLength /\ i + n <= Len(text) /\ word(i, i + n) \in DOMAIN Operators
    BY <1>2, <1>3 DEF isOperator
  <2>2. i + n \in Nat /\ i + n = k /\ i + n \in (i + 1)..Len(text)
    BY <1>2, <2>1
  <2> QED BY <1>2, <2>1, <2>2
<1>5. ~startsPrefixed
  <2>1. sign[1] = c0
    <3>1. text \in Seq(ToSet(text) \ {NUL})
      BY CharactersAssumption DEF Position
    <3>2. sign = SubSeq(text, i + 1, m)
      BY <1>2, <1>4 DEF word
    <3>3. sign[1] = text[i + 1]
      <4>1. SubSeq(text, i + 1, m)[1] = text[(i + 1) + 1 - 1]
        BY <1>2, <1>4, <3>1
      <4>2. (i + 1) + 1 - 1 = i + 1
        OBVIOUS
      <4> QED BY <3>2, <4>1, <4>2
    <3>4. at(i) = text[i + 1]
      BY <1>2, <1>4 DEF at
    <3> QED BY <1>2, <3>3, <3>4, CharacterHere
  <2>2. sign[1] \notin ToSet(Digits) /\ "0" \in ToSet(Digits)
    BY <1>4, WordsAssumption
  <2> QED BY <2>1, <2>2 DEF startsPrefixed
<1> HIDE DEF k, sign
<1> QED BY <1>1, <1>2, <1>4, <1>5, PutToken

LEMMA UnknownRound ==
  ASSUME Position, unknown
  PROVE  \E k : GetsTo(k)
<1> DEFINE length == IF c0 \in DOMAIN WideBytes THEN WideBytes[c0] ELSE 1
           m == here.idx + length
           k == IF m < Len(text) THEN m ELSE Len(text)
<1>1. ~startsToken(c0) /\ here' = upTo(k) /\ had_errors' = TRUE /\ text' = text /\ tokens' = tokens /\ lexing' = lexing
  BY DEF unknown
<1>2. here.idx \in Nat /\ Len(text) \in Nat /\ here.idx + 1 \in 0..Len(text)
  <2>1. c0 # NUL
    BY <1>1 DEF startsToken
  <2> QED BY <2>1, HereBefore
<1>3. length \in Nat \ {0}
  BY CharactersAssumption DEF Positive
<1> HIDE DEF length
<1>4. k \in (here.idx + 1)..Len(text) /\ k \in here.idx..Len(text)
  BY <1>2, <1>3
<1> HIDE DEF k
<1>5. here' = posOf(k)
  BY <1>1, <1>4, UpTo
<1>6. GoesOn(k) /\ PassesOver(k)
  BY <1>1, <1>5 DEF GoesOn, PassesOver
<1>7. GetsTo(k)
  BY <1>4, <1>6 DEF GetsTo
<1> QED BY <1>7

\* A round that isn't the last moves on, to a place where the text is read up to.
LEMMA Round ==
  ASSUME Position, LexStep
  PROVE  end \/ \E k : GetsTo(k)
<1>1. blank => \E k : GetsTo(k)
  BY BlankRound
<1>2. /\ comment => \E k : GetsTo(k)
      /\ prefixed => \E k : GetsTo(k)
      /\ number => \E k : GetsTo(k)
      /\ character => \E k : GetsTo(k)
      /\ string => \E k : GetsTo(k)
      /\ make_keyword => \E k : GetsTo(k)
      /\ make_identifier => \E k : GetsTo(k)
      /\ operator => \E k : GetsTo(k)
      /\ unknown => \E k : GetsTo(k)
  BY CommentRound, PrefixedRound, NumberRound, CharacterRound, StringRound, KeywordRound, IdentifierRound,
     OperatorRound, UnknownRound
<1> QED BY <1>1, <1>2 DEF LexStep
-----------------------------------------------------------------------------
(* The inductive invariant                                                 *)

\* A token is from one place of what was read to a later one
OnText(t) == \E s, e \in 0..here.idx : s <= e /\ t.start = posOf(s) /\ t.end = posOf(e)

TokensInv == /\ tokens \in Seq(ToSet(tokens))
             /\ \A n \in 1..Len(tokens) : OnText(tokens[n])
             /\ \A m, n \in 1..Len(tokens) : m < n => tokens[m].end.idx <= tokens[n].start.idx

ReadSoFar == ~had_errors => \A i \in 0..(here.idx - 1) : inToken(i) \/ at(i) \in Blanks \/ inComment(i)

LexInv == /\ Position /\ TokensInv /\ ReadSoFar /\ PrefixedExact
          /\ ~lexing => here.idx = Len(text)

LEMMA SameText ==
  ASSUME text' = text
  PROVE  /\ \A i : at(i)' = at(i)
         /\ \A i : posOf(i)' = posOf(i)
         /\ \A b, i, k : trueValue(b, i, k)' = trueValue(b, i, k)
<1>1. \A i : at(i)' = at(i)
  BY DEF at
<1>2. \A i : posOf(i)' = posOf(i)
  BY DEF posOf, at
<1>3. \A b, i, k : trueValue(b, i, k)' = trueValue(b, i, k)
  BY DEF trueValue, at
<1> QED BY <1>1, <1>2, <1>3

LEMMA AppendOne ==
  ASSUME NEW list, list \in Seq(ToSet(list)), NEW x
  PROVE  LET longer == Append(list, x)
         IN  /\ longer \in Seq(ToSet(longer)) /\ Len(longer) = Len(list) + 1 /\ Len(list) \in Nat
             /\ longer[Len(list) + 1] = x /\ \A i \in 1..Len(list) : longer[i] = list[i]
<1>1. list \in Seq(ToSet(list) \cup {x}) /\ x \in ToSet(list) \cup {x}
  BY SeqMonotonic
<1> DEFINE longer == Append(list, x)
<1>2. longer \in Seq(ToSet(list) \cup {x}) /\ Len(longer) = Len(list) + 1
  BY <1>1, AppendProperties
<1>3. longer[Len(list) + 1] = x /\ \A i \in 1..Len(list) : longer[i] = list[i]
  BY <1>1, AppendProperties
<1>4. Len(list) \in Nat /\ Len(list) + 1 \in Nat
  OBVIOUS
<1> HIDE DEF longer
<1>5. longer = [i \in 1..(Len(list) + 1) |-> longer[i]]
  BY <1>2
<1>6. longer \in Seq(ToSet(longer))
  <2>1. \A i \in 1..(Len(list) + 1) : longer[i] \in ToSet(longer)
    BY <1>2 DEF ToSet
  <2> QED BY <1>4, <1>5, <2>1
<1> QED BY <1>2, <1>3, <1>4, <1>6 DEF longer

\* Where a token is, as numbers
LEMMA OnTextIdx ==
  ASSUME Position, NEW t, OnText(t)
  PROVE  /\ t.start.idx \in 0..here.idx /\ t.end.idx \in 0..here.idx /\ t.start.idx <= t.end.idx
         /\ t.start = posOf(t.start.idx) /\ t.end = posOf(t.end.idx)
<1>1. PICK s, e \in 0..here.idx : s <= e /\ t.start = posOf(s) /\ t.end = posOf(e)
  BY DEF OnText
<1>2. t.start.idx = s /\ t.end.idx = e
  BY <1>1 DEF posOf
<1> QED BY <1>1, <1>2

\* A token put from here to k: at the end of the file, k is here
LEMMA TokenPut ==
  ASSUME LexInv, text' = text, NEW k \in here.idx..Len(text), here' = posOf(k), NEW type, NEW value,
         tokens' = Append(tokens, Token(type, posOf(k), value)), had_errors => had_errors',
         type = "INTEGER" /\ startsPrefixed /\ ~had_errors' => value = trueValue(Radix[c1], here.idx + 2, k)
  PROVE  Position' /\ TokensInv' /\ ReadSoFar' /\ PrefixedExact'
<1>1. PICK i \in Nat : i = here.idx /\ here = posOf(i) /\ i \in 0..Len(text)
  BY DEF LexInv, Position
<1>2. Len(text) \in Nat /\ k \in Nat /\ i <= k /\ k <= Len(text)
  BY <1>1, TextEnds DEF LexInv, Position
<1>3. here'.idx = k
  BY DEF posOf
<1>4. Position'
  <2>1. text' \in Texts /\ k \in 0..Len(text)
    BY <1>2 DEF LexInv, Position
  <2>2. posOf(k)' = posOf(k)
    BY SameText
  <2> QED BY <1>3, <2>1, <2>2 DEF Position
<1>5. PICK L \in Nat : L = Len(tokens)
  BY AppendOne DEF LexInv, TokensInv
<1>6. /\ tokens' \in Seq(ToSet(tokens')) /\ Len(tokens') = L + 1
      /\ tokens'[L + 1] = Token(type, posOf(k), value)
      /\ \A n \in 1..L : tokens'[n] = tokens[n]
  BY <1>5, AppendOne DEF LexInv, TokensInv
<1>7. /\ tokens'[L + 1].start = posOf(i) /\ tokens'[L + 1].end = posOf(k)
      /\ tokens'[L + 1].start.idx = i /\ tokens'[L + 1].end.idx = k
      /\ tokens'[L + 1].type = type /\ tokens'[L + 1].value = value
  <2>1. posOf(i).idx = i /\ posOf(k).idx = k
    BY DEF posOf
  <2> QED BY <1>1, <1>6, <2>1 DEF Token
<1>8. \A n \in 1..(L + 1) : n \in 1..L \/ n = L + 1
  OBVIOUS
<1>9. ASSUME NEW n \in 1..L
      PROVE  /\ tokens'[n] = tokens[n] /\ OnText(tokens[n])
             /\ tokens[n].start.idx \in 0..i /\ tokens[n].end.idx \in 0..i
             /\ tokens[n].start.idx <= tokens[n].end.idx
  BY <1>1, <1>5, <1>6, OnTextIdx DEF LexInv, TokensInv
<1>10. TokensInv'
  <2>1. ASSUME NEW n \in 1..(L + 1) PROVE OnText(tokens[n])'
    <3>1. CASE n = L + 1
      <4>1. posOf(i)' = posOf(i) /\ posOf(k)' = posOf(k)
        BY SameText
      <4>2. i \in 0..k /\ k \in 0..k
        BY <1>2
      <4> QED BY <1>2, <1>3, <1>7, <3>1, <4>1, <4>2 DEF OnText
    <3>2. CASE n \in 1..L
      <4>1. PICK s, e \in 0..i : s <= e /\ tokens[n].start = posOf(s) /\ tokens[n].end = posOf(e)
        BY <1>1, <1>9, <3>2 DEF OnText
      <4>2. posOf(s)' = posOf(s) /\ posOf(e)' = posOf(e)
        BY SameText
      <4>3. s \in 0..k /\ e \in 0..k
        BY <1>2, <4>1
      <4> QED BY <1>3, <1>9, <3>2, <4>1, <4>2, <4>3 DEF OnText
    <3> QED BY <1>8, <3>1, <3>2
  <2>2. ASSUME NEW m \in 1..(L + 1), NEW n \in 1..(L + 1), m < n
        PROVE  tokens'[m].end.idx <= tokens'[n].start.idx
    <3>1. m \in 1..L
      BY <2>2
    <3>2. CASE n = L + 1
      <4>1. tokens'[n].start.idx = i
        BY <1>7, <3>2
      <4>2. PICK x \in 0..i : tokens'[m].end.idx = x
        BY <1>9, <3>1
      <4>3. x <= i
        BY <1>1
      <4> QED BY <4>1, <4>2, <4>3
    <3>3. CASE n \in 1..L
      BY <1>5, <1>9, <2>2, <3>1, <3>3 DEF LexInv, TokensInv
    <3> QED BY <1>8, <3>2, <3>3
  <2> QED BY <1>6, <2>1, <2>2 DEF TokensInv
<1>11. ReadSoFar'
  <2> SUFFICES ASSUME ~had_errors', NEW j \in 0..(k - 1)
               PROVE  inToken(j)' \/ at(j)' \in Blanks \/ inComment(j)'
    BY <1>3 DEF ReadSoFar
  <2>1. at(j)' = at(j)
    BY SameText
  <2>2. CASE i <= j
    <3>1. covers(L + 1, j)'
      BY <1>2, <1>7, <2>2 DEF covers
    <3> QED BY <1>5, <1>6, <3>1 DEF inToken
  <2>3. CASE j < i
    <3>1. j \in 0..(here.idx - 1)
      BY <1>1, <1>2, <2>3
    <3>2. inToken(j) \/ at(j) \in Blanks \/ inComment(j)
      BY <3>1 DEF LexInv, ReadSoFar
    <3>3. \A n \in 1..L, m \in Nat : covers(n, m)' = covers(n, m)
      BY <1>9 DEF covers
    <3>4. \A m \in 0..j : inToken(m)' => inToken(m)
      <4> SUFFICES ASSUME NEW m \in 0..j, inToken(m)' PROVE inToken(m)
        OBVIOUS
      <4>1. PICK n \in 1..(L + 1) : covers(n, m)'
        BY <1>6 DEF inToken
      <4>2. n # L + 1
        <5> SUFFICES ASSUME n = L + 1 PROVE FALSE
          OBVIOUS
        <5>1. tokens'[L + 1].start.idx <= m
          BY <4>1 DEF covers
        <5>2. i <= m
          BY <1>7, <5>1
        <5> QED BY <1>1, <1>2, <2>3, <5>2
      <4> QED BY <1>5, <1>8, <3>3, <4>1, <4>2 DEF inToken
    <3>5. inToken(j) => inToken(j)'
      <4> SUFFICES ASSUME inToken(j) PROVE inToken(j)'
        OBVIOUS
      <4>1. PICK n \in 1..L : covers(n, j)
        BY <1>5 DEF inToken
      <4>2. n \in 1..(L + 1) /\ covers(n, j)'
        BY <3>3, <4>1
      <4> QED BY <1>6, <4>2 DEF inToken
    <3>6. inComment(j) => inComment(j)'
      BY <3>4, SameText DEF inComment
    <3> QED BY <2>1, <3>2, <3>5, <3>6
  <2> QED BY <1>1, <1>2, <2>2, <2>3
<1>12. PrefixedExact'
  <2> DEFINE Number(n, p, e) == /\ ~had_errors' /\ tokens'[n].type = "INTEGER" /\ p = tokens'[n].start.idx
                                /\ at(p) = "0" /\ at(p + 1) \in DOMAIN Radix /\ e = tokens'[n].end.idx
  <2>1. ASSUME NEW n \in 1..(L + 1), NEW p, NEW e, Number(n, p, e)
        PROVE  tokens'[n].value = trueValue(Radix[at(p + 1)], p + 2, e)
    <3>1. CASE n = L + 1
      <4>1. p = i /\ e = k /\ type = "INTEGER" /\ tokens'[n].value = value
        BY <1>7, <2>1, <3>1
      <4>2. c0 = "0" /\ c1 = at(p + 1)
        BY <1>1, <2>1, <4>1, CharacterHere
      <4> QED BY <1>1, <2>1, <4>1, <4>2 DEF startsPrefixed
    <3>2. CASE n \in 1..L
      <4>1. tokens'[n] = tokens[n] /\ ~had_errors /\ n \in 1..Len(tokens)
        BY <1>5, <1>9, <2>1, <3>2
      <4>2. p = tokens[n].start.idx /\ e = tokens[n].end.idx /\ tokens[n].type = "INTEGER"
        BY <2>1, <4>1
      <4> QED BY <2>1, <4>1, <4>2 DEF LexInv, PrefixedExact
    <3> QED BY <1>8, <3>1, <3>2
  <2>2. \A n \in 1..(L + 1) : \A p, e :
          p = tokens'[n].start.idx /\ e = tokens'[n].end.idx /\ ~had_errors' /\ tokens'[n].type = "INTEGER"
          /\ at(p)' = "0" /\ at(p + 1)' \in DOMAIN Radix => tokens'[n].value = trueValue(Radix[at(p + 1)], p + 2, e)'
    <3>1. \A j : at(j)' = at(j)
      BY SameText
    <3>2. \A p, e : trueValue(Radix[at(p + 1)], p + 2, e)' = trueValue(Radix[at(p + 1)], p + 2, e)
      <4> SUFFICES ASSUME NEW p, NEW e PROVE trueValue(Radix[at(p + 1)], p + 2, e)' = trueValue(Radix[at(p + 1)], p + 2, e)
        OBVIOUS
      <4> QED BY DEF trueValue, at
    <3>3. ASSUME NEW n \in 1..(L + 1), NEW p, NEW e, p = tokens'[n].start.idx, e = tokens'[n].end.idx,
                 ~had_errors', tokens'[n].type = "INTEGER", at(p)' = "0", at(p + 1)' \in DOMAIN Radix
          PROVE  tokens'[n].value = trueValue(Radix[at(p + 1)], p + 2, e)'
      <4>1. Number(n, p, e)
        BY <3>1, <3>3
      <4> HIDE DEF Number
      <4>2. tokens'[n].value = trueValue(Radix[at(p + 1)], p + 2, e)
        BY <2>1, <4>1
      <4> QED BY <3>2, <4>2
    <3> QED BY <3>3
  <2> QED BY <1>6, <2>2 DEF PrefixedExact
<1> QED BY <1>4, <1>10, <1>11, <1>12

\* What is passed over is blank or in a comment, or was reported.
LEMMA NoTokenPut ==
  ASSUME LexInv, NEW k, GetsTo(k), PassesOver(k)
  PROVE  Position' /\ TokensInv' /\ ReadSoFar' /\ PrefixedExact'
<1>1. PICK i \in Nat : i = here.idx /\ here = posOf(i) /\ i \in 0..Len(text)
  BY DEF LexInv, Position
<1>2. /\ Len(text) \in Nat /\ k \in Nat /\ i < k /\ k <= Len(text)
      /\ here' = posOf(k) /\ text' = text /\ tokens' = tokens
      /\ had_errors => had_errors'
  BY <1>1, TextEnds DEF LexInv, Position, GetsTo, GoesOn, PassesOver
<1>3. here'.idx = k
  BY <1>2 DEF posOf
<1>4. Position'
  <2>1. text' \in Texts /\ k \in 0..Len(text)
    BY <1>2 DEF LexInv, Position
  <2>2. posOf(k)' = posOf(k)
    BY <1>2, SameText
  <2> QED BY <1>2, <1>3, <2>1, <2>2 DEF Position
<1>5. ASSUME NEW n \in 1..Len(tokens) PROVE tokens[n].end.idx \in 0..i
  BY <1>1, OnTextIdx DEF LexInv, TokensInv
<1>6. TokensInv'
  <2>1. ASSUME NEW n \in 1..Len(tokens) PROVE OnText(tokens[n])'
    <3>1. PICK s, e \in 0..i : s <= e /\ tokens[n].start = posOf(s) /\ tokens[n].end = posOf(e)
      BY <1>1 DEF LexInv, TokensInv, OnText
    <3>2. posOf(s)' = posOf(s) /\ posOf(e)' = posOf(e)
      BY <1>2, SameText
    <3>3. s \in 0..k /\ e \in 0..k
      BY <1>2, <3>1
    <3> QED BY <1>2, <1>3, <3>1, <3>2, <3>3 DEF OnText
  <2> QED BY <1>2, <2>1 DEF LexInv, TokensInv
<1>7. \A j : inToken(j)' = inToken(j) /\ at(j)' = at(j)
  BY <1>2, SameText DEF inToken, covers
<1>8. \A j : inComment(j)' = inComment(j)
  BY <1>7 DEF inComment
<1>9. ReadSoFar'
  <2>1. ASSUME ~had_errors', NEW j \in 0..(k - 1)
        PROVE  inToken(j) \/ at(j) \in Blanks \/ inComment(j)
    <3>1. CASE j < i
      <4>1. j \in 0..(here.idx - 1)
        BY <1>1, <1>2, <3>1
      <4> QED BY <1>2, <2>1, <4>1 DEF LexInv, ReadSoFar
    <3>2. CASE i <= j
      <4>1. j \in i..(k - 1)
        BY <1>2, <3>2
      <4>2. CASE \A m \in i..(k - 1) : at(m) \in Blanks
        BY <4>1, <4>2
      <4>3. CASE startsComment /\ \A m \in i..(k - 1) : at(m) # "\n"
        <5>1. at(i) = "/" /\ at(i + 1) = "/"
          BY <1>1, <4>3, CharacterHere DEF startsComment
        <5>2. \A m \in i..j : at(m) # "\n"
          BY <1>2, <4>1, <4>3
        <5>3. ASSUME NEW m \in i..j, inToken(m) PROVE FALSE
          <6>1. PICK n \in 1..Len(tokens) : m < tokens[n].end.idx
            BY <5>3 DEF inToken, covers
          <6>2. PICK x \in 0..i : x = tokens[n].end.idx
            BY <1>5
          <6> QED BY <1>2, <6>1, <6>2
        <5>4. i \in 0..j
          BY <1>2, <4>1
        <5> QED BY <5>1, <5>2, <5>3, <5>4 DEF inComment
      <4> QED BY <1>1, <2>1, <4>2, <4>3 DEF PassesOver
    <3> QED BY <1>1, <1>2, <3>1, <3>2
  <2> QED BY <1>3, <1>7, <1>8, <2>1 DEF ReadSoFar
<1>10. PrefixedExact'
  <2>1. \A b, p, e : trueValue(b, p, e)' = trueValue(b, p, e)
    BY <1>2, SameText
  <2> QED BY <1>2, <1>7, <2>1 DEF LexInv, PrefixedExact
<1> QED BY <1>4, <1>6, <1>9, <1>10

LEMMA LexInvInit == lexer_init => LexInv
<1> SUFFICES ASSUME lexer_init PROVE LexInv
  OBVIOUS
<1>1. text \in Texts /\ here = [idx |-> 0, line |-> 1, col |-> 1] /\ here.idx = 0 /\ tokens = <<>> /\ lexing
  BY DEF lexer_init
<1>2. Position
  BY <1>1, TextEnds, PositionZero DEF Position
<1>3. tokens \in Seq(ToSet(tokens)) /\ Len(tokens) = 0
  BY <1>1
<1>4. TokensInv
  BY <1>3 DEF TokensInv
<1>5. ReadSoFar
  BY <1>1 DEF ReadSoFar
<1>6. PrefixedExact
  BY <1>3 DEF PrefixedExact
<1> QED BY <1>1, <1>2, <1>4, <1>5, <1>6 DEF LexInv

LEMMA LexInvNext == LexInv /\ [LexStep]_lexVars => LexInv'
<1> SUFFICES ASSUME LexInv, [LexStep]_lexVars PROVE LexInv'
  OBVIOUS
<1>1. Position
  BY DEF LexInv
<1>2. CASE LexStep
  <2>1. lexing
    BY <1>2 DEF LexStep
  <2>2. CASE end
    <3>1. PICK k \in here.idx..Len(text) : k = here.idx /\ here = posOf(k)
      <4>1. here.idx \in here.idx..Len(text) /\ here = posOf(here.idx)
        BY <1>1, TextEnds DEF Position
      <4> QED BY <4>1
    <3>2. /\ text' = text /\ here' = here /\ had_errors' = had_errors
          /\ tokens' = Append(tokens, Token("END", posOf(k), 0))
      BY <2>2, <3>1 DEF end
    <3>3. Position' /\ TokensInv' /\ ReadSoFar' /\ PrefixedExact'
      BY <3>1, <3>2, TokenPut
    <3>4. here.idx = Len(text)
      <4>1. at(here.idx) = NUL
        BY <1>1, <2>2, CharacterHere, TextEnds DEF end, Position
      <4> QED BY <1>1, <4>1, TextEnds DEF Position
    <3> QED BY <3>2, <3>3, <3>4 DEF LexInv
  <2>3. CASE \E k : GetsTo(k)
    <3>1. PICK k : GetsTo(k)
      BY <2>3
    <3>2. k \in here.idx..Len(text) /\ GoesOn(k) /\ (PutsToken(k) \/ PassesOver(k))
      BY <1>1, <3>1, TextEnds DEF GetsTo, Position
    <3>3. CASE PutsToken(k)
      <4>1. PICK type, value :
               /\ tokens' = Append(tokens, Token(type, posOf(k), value))
               /\ type = "INTEGER" /\ startsPrefixed /\ ~had_errors'
                    => value = trueValue(Radix[c1], here.idx + 2, k)
        BY <3>3 DEF PutsToken
      <4>2. text' = text /\ here' = posOf(k) /\ (had_errors => had_errors')
        BY <3>2 DEF GoesOn
      <4>3. Position' /\ TokensInv' /\ ReadSoFar' /\ PrefixedExact'
        BY <3>2, <4>1, <4>2, TokenPut
      <4> QED BY <2>1, <3>2, <4>3 DEF LexInv, GoesOn
    <3>4. CASE PassesOver(k)
      BY <2>1, <3>1, <3>2, <3>4, NoTokenPut DEF LexInv, GoesOn
    <3> QED BY <3>2, <3>3, <3>4
  <2> QED BY <1>1, <1>2, <2>2, <2>3, Round
<1>3. CASE UNCHANGED lexVars
  <2>1. /\ text' = text /\ here' = here /\ tokens' = tokens /\ had_errors' = had_errors /\ lexing' = lexing
    BY <1>3 DEF lexVars
  <2>2. \A j : at(j)' = at(j) /\ posOf(j)' = posOf(j)
    BY <2>1, SameText
  <2>3. \A b, p, e : trueValue(b, p, e)' = trueValue(b, p, e)
    BY <2>1, SameText
  <2>4. \A j : inToken(j)' = inToken(j)
    BY <2>1 DEF inToken, covers
  <2>5. \A j : inComment(j)' = inComment(j)
    BY <2>2, <2>4 DEF inComment
  <2>6. Position' /\ TokensInv'
    BY <2>1, <2>2 DEF LexInv, Position, TokensInv, OnText
  <2>7. ReadSoFar' /\ PrefixedExact'
    BY <2>1, <2>2, <2>3, <2>4, <2>5 DEF LexInv, ReadSoFar, PrefixedExact
  <2> QED BY <2>1, <2>6, <2>7 DEF LexInv
<1> QED BY <1>2, <1>3
-----------------------------------------------------------------------------
(* What the invariant means                                                *)

LEMMA LexInvExact == LexInv => TokensExact
<1> SUFFICES ASSUME LexInv PROVE TokensExact
  OBVIOUS
<1>1. Position /\ TokensInv
  BY DEF LexInv
<1>2. here.idx <= Len(text) /\ here = posOf(here.idx)
  BY <1>1, TextEnds DEF Position
<1>3. ASSUME NEW n \in 1..Len(tokens)
      PROVE  /\ tokens[n].start = posOf(tokens[n].start.idx) /\ tokens[n].end = posOf(tokens[n].end.idx)
             /\ tokens[n].start.idx \in Nat /\ tokens[n].end.idx \in Nat
  BY <1>1, OnTextIdx DEF TokensInv, Position
<1>4. PositionsRight
  BY <1>2, <1>3 DEF PositionsRight
<1>5. ASSUME NEW i \in 0..(Len(text) - 1)
      PROVE  Cardinality({n \in 1..Len(tokens) : covers(n, i)}) <= 1
  <2> DEFINE over == {n \in 1..Len(tokens) : covers(n, i)}
  <2>1. i \in Nat /\ Len(tokens) \in Nat
    BY <1>1, TextEnds, AppendOne DEF Position, TokensInv
  <2>2. \A m, n \in over : ~(m < n)
    <3> SUFFICES ASSUME NEW m \in over, NEW n \in over, m < n PROVE FALSE
      OBVIOUS
    <3>1. tokens[m].end.idx <= tokens[n].start.idx
      BY <1>1 DEF TokensInv
    <3>2. PICK e, s \in Nat : e = tokens[m].end.idx /\ s = tokens[n].start.idx
      BY <1>3
    <3>3. i < e /\ s <= i
      BY <3>2 DEF covers
    <3> QED BY <2>1, <3>1, <3>2, <3>3
  <2>3. CASE over = {}
    BY <2>3, FS_EmptySet
  <2>4. CASE over # {}
    <3>1. PICK m \in over : TRUE
      BY <2>4
    <3>2. ASSUME NEW n \in over PROVE n = m
      <4>1. n \in Nat /\ m \in Nat
        BY <2>1
      <4> HIDE DEF over
      <4> QED BY <2>2, <4>1
    <3> HIDE DEF over
    <3>3. over = {m}
      BY <3>2
    <3>4. Cardinality({m}) = 1
      BY FS_Singleton
    <3>5. Cardinality(over) = 1
      BY <3>3, <3>4
    <3> QED BY <3>5 DEF over
  <2> QED BY <2>3, <2>4
<1>6. NothingLost
  BY <1>5 DEF NothingLost, LexInv, ReadSoFar, Blanks
<1> QED BY <1>4, <1>6 DEF TokensExact

LEMMA LexInvAlways == LexSpec => []LexInv
<1> QED BY LexInvInit, LexInvNext, PTL DEF LexSpec

\* Of every text, lex_file reads every character once: those of a text without errors are each
\* in one token, or blank, or in a comment, and tokens are where they say they are.
THEOREM TokensExactAlways == LexSpec => []TokensExact
<1> QED BY LexInvAlways, LexInvExact, PTL

\* For every text and every width of a number: what wraps around is reported, and all other
\* numbers in hex, binary and octal have the value that is written.
THEOREM PrefixedExactAlways == LexSpec => []PrefixedExact
<1>1. LexInv => PrefixedExact
  BY DEF LexInv
<1> QED BY <1>1, LexInvAlways, PTL

\* Every round of lex_file takes at least one character, or is the last: there are never more
\* rounds than characters.
THEOREM EveryRoundMovesOn == LexSpec => [][RoundMovesOn]_lexVars
<1>1. LexInv /\ [LexStep]_lexVars => [RoundMovesOn]_lexVars
  <2> SUFFICES ASSUME LexInv, LexStep PROVE RoundMovesOn
    BY DEF RoundMovesOn
  <2>1. CASE end
    BY <2>1 DEF end, RoundMovesOn
  <2>2. ASSUME NEW k, GetsTo(k) PROVE RoundMovesOn
    <3>1. here'.idx = k
      BY <2>2 DEF GetsTo, GoesOn, posOf
    <3>2. here.idx < k
      BY <2>2, TextEnds DEF GetsTo, LexInv, Position
    <3> QED BY <3>1, <3>2 DEF RoundMovesOn
  <2> QED BY <2>1, <2>2, Round DEF LexInv
<1> QED BY <1>1, LexInvAlways, PTL DEF LexSpec
=============================================================================
