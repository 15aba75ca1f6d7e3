----------------------------- MODULE TextProofs -----------------------------
(***************************************************************************)
(* Proofs about what the assembler makes of a text (x64_assemble), for     *)
(* every text and every table of instructions: in the text section are the *)
(* instructions of the lines, one after the other; every jump goes to its  *)
(* label, wherever that is and whichever of the jumps between them are     *)
(* long; and a text is refused exactly for a mistake that it has.          *)
(*                                                                         *)
(* The invariants relate the state to the lines that have been read: the   *)
(* section and the last label are those of the text, each instruction has  *)
(* its item, each label is before the item of the next instruction, and    *)
(* the symbols are the names of the lines.                                 *)
(***************************************************************************)
EXTENDS AssembledProgram, AssemblerProofs, FiniteSetTheorems

-----------------------------------------------------------------------------
(* Numbers                                                                 *)

Fits32(n) == n \in Int /\ -2147483648 <= n /\ n <= 2147483647

\* The first four bytes of a number, each what is left of the ones before it
StartsLike(b, n) == b[1] = n % 256 /\ b[2] = (n \div 256) % 256 /\ b[3] = (n \div 65536) % 256 /\ b[4] = (n \div 16777216) % 256

Quotients(n, b, q1, q2, q3) ==
    /\ n \in Int /\ b[1] \in Int /\ b[2] \in Int /\ b[3] \in Int /\ q1 \in Int /\ q2 \in Int /\ q3 \in -128..127
    /\ n = 256 * q1 + b[1] /\ q1 = 256 * q2 + b[2] /\ q2 = 256 * q3 + b[3] /\ b[4] = (IF q3 < 0 THEN q3 + 256 ELSE q3)

\* A number from its bytes, the highest with a sign.
LEMMA Horner ==
  ASSUME NEW n, NEW b, NEW q1, NEW q2, NEW q3, Quotients(n, b, q1, q2, q3)
  PROVE  SignedOf(b) = n
<1>1. b[4] - (IF b[4] >= 128 THEN 256 ELSE 0) = q3
  BY SMT DEF Quotients
<1> QED BY <1>1, SMT DEF SignedOf, Quotients

\* The first four bytes of a number that fits 32 bits are read as that number.
LEMMA SignedWord ==
  ASSUME NEW n, Fits32(n), NEW b, StartsLike(b, n)
  PROVE  SignedOf(b) = n
<1> DEFINE q1 == n \div 256
           q2 == n \div 65536
           q3 == n \div 16777216
<1>0. n \in Int
  BY SMT DEF Fits32
<1>1. b[1] = n % 256 /\ b[2] = q1 % 256 /\ b[3] = q2 % 256 /\ b[4] = q3 % 256
  BY DEF StartsLike
<1>2. (n % 256) \in Int /\ n = 256 * q1 + (n % 256) /\ q1 \in Int
  BY <1>0, SMT
<1>3. (q1 % 256) \in Int /\ q1 = 256 * q2 + (q1 % 256) /\ q2 \in Int
  BY <1>0, SMT
<1>4. (q2 % 256) \in Int /\ q2 = 256 * q3 + (q2 % 256) /\ q3 \in Int
  BY <1>0, SMT
<1>5. q3 \in -128..127
  BY SMT DEF Fits32
<1> HIDE DEF q1, q2, q3
<1>6. q3 % 256 = (IF q3 < 0 THEN q3 + 256 ELSE q3)
  BY <1>5, SMT
<1>7. Quotients(n, b, q1, q2, q3)
  BY <1>0, <1>1, <1>2, <1>3, <1>4, <1>5, <1>6, SMT DEF Quotients
<1> QED BY <1>7, Horner, Zenon

\* The bytes of a number are bytes.
LEMMA WordBytes ==
  ASSUME NEW n, Fits32(n)
  PROVE  Word(n) \in Seq(0..255) /\ Len(Word(n)) = 8 /\ StartsLike(Word(n), n)
<1> DEFINE high == IF n < 0 THEN 255 ELSE 0
           a == n % 256
           b == (n \div 256) % 256
           c == (n \div 65536) % 256
           d == (n \div 16777216) % 256
<1>1. Word(n) = <<a, b, c, d, high, high, high, high>>
  BY DEF Word
<1>2. n \in Int
  BY SMT DEF Fits32
<1>3. a \in 0..255 /\ b \in 0..255 /\ c \in 0..255 /\ d \in 0..255 /\ high \in 0..255
  BY <1>2, SMT
<1> HIDE DEF a, b, c, d, high
<1>4. Word(n) \in Seq(0..255) /\ Len(Word(n)) = 8 /\ Word(n)[1] = a /\ Word(n)[2] = b /\ Word(n)[3] = c /\ Word(n)[4] = d
  BY <1>1, <1>3, SMT
<1> QED BY <1>4, SMT DEF StartsLike, a, b, c, d

\* The bytes of a part of a sequence
LEMMA Part ==
  ASSUME NEW S, NEW s \in Seq(S), NEW from \in 1..Len(s), NEW to \in from..Len(s)
  PROVE  /\ SubSeq(s, from, to) \in Seq(S) /\ Len(SubSeq(s, from, to)) = to - from + 1
         /\ \A i \in 1..(to - from + 1) : SubSeq(s, from, to)[i] = s[from + i - 1]
<1>1. \A i \in from..to : s[i] \in S
  OBVIOUS
<1>2. from \in Int /\ to \in Int /\ from <= to
  OBVIOUS
<1>3. /\ SubSeq(s, from, to) \in Seq(S)
      /\ Len(SubSeq(s, from, to)) = IF from <= to THEN to - from + 1 ELSE 0
      /\ \A i \in 1..(to - from + 1) : SubSeq(s, from, to)[i] = s[from + i - 1]
  BY <1>1, <1>2, SubSeqProperties
<1> QED BY <1>2, <1>3

\* The byte that a number is extended with
SignByte(byte) == IF byte >= 128 THEN 255 ELSE 0

\* A number that is extended with its sign keeps its bytes.
LEMMA Extending ==
  ASSUME NEW bytes \in Seq(0..255), NEW n \in 1..4, Len(bytes) = n
  PROVE  \A i \in 1..4 : SubSeq(SignExtended(bytes), 1, 4)[i] = IF i <= n THEN bytes[i] ELSE SignByte(bytes[n])
<1> DEFINE with == SignByte(bytes[n])
           w == <<with, with, with, with, with, with, with, with>>
           more == SubSeq(w, 1, 8 - n)
           all == bytes \o more
<1>1. with \in 0..255
  BY DEF SignByte
<1>2. SignExtended(bytes) = all
  <2>1. Last(bytes) = bytes[n]
    BY DEF Last
  <2>2. with = IF Last(bytes) >= 128 THEN 255 ELSE 0
    BY <2>1, Zenon DEF SignByte
  <2> HIDE DEF with
  <2>3. SignExtended(bytes) = extended(bytes, with)
    BY <2>2, Zenon DEF SignExtended
  <2>4. extended(bytes, with) = all
    BY Zenon DEF extended
  <2> QED BY <2>3, <2>4, Zenon
<1> HIDE DEF with
<1>3. w \in Seq(0..255) /\ Len(w) = 8 /\ \A i \in 1..8 : w[i] = with
  BY <1>1
<1> HIDE DEF w
<1>4. PICK m \in 4..7 : m = 8 - n
  OBVIOUS
<1>5. m \in 1..8 /\ 1 \in 1..8 /\ m - 1 + 1 = m
  BY <1>4
<1>6. SubSeq(w, 1, m) \in Seq(0..255) /\ Len(SubSeq(w, 1, m)) = m /\ \A i \in 1..m : SubSeq(w, 1, m)[i] = with
  <2>1. /\ SubSeq(w, 1, m) \in Seq(0..255) /\ Len(SubSeq(w, 1, m)) = m - 1 + 1
        /\ \A i \in 1..(m - 1 + 1) : SubSeq(w, 1, m)[i] = w[1 + i - 1]
    <3>1. 1 \in 1..Len(w) /\ m \in 1..Len(w)
      BY <1>3, <1>5
    <3> QED BY <1>3, <3>1, Part, Zenon
  <2>2. \A i \in 1..m : i \in 1..8 /\ 1 + i - 1 = i
    OBVIOUS
  <2> QED BY <1>3, <1>5, <2>1, <2>2
<1>7. more \in Seq(0..255) /\ Len(more) = m /\ \A i \in 1..m : more[i] = with
  BY <1>4, <1>6
<1> HIDE DEF more
<1>8. /\ all \in Seq(0..255) /\ Len(all) = n + m
      /\ \A i \in 1..(n + m) : all[i] = IF i <= n THEN bytes[i] ELSE more[i - n]
  BY <1>7, ConcatProperties
<1> HIDE DEF all
<1>9. ASSUME NEW i \in 1..4 PROVE all[i] = IF i <= n THEN bytes[i] ELSE with
  <2>1. i \in 1..(n + m) /\ (i <= n \/ i - n \in 1..m)
    BY <1>4
  <2> QED BY <1>7, <1>8, <2>1
<1>10. \A i \in 1..4 : SubSeq(all, 1, 4)[i] = all[i]
  <2>1. Len(all) = 8 /\ 1 \in 1..8 /\ 4 \in 1..8 /\ 4 - 1 + 1 = 4
    BY <1>4, <1>8
  <2>2. \A i \in 1..(4 - 1 + 1) : SubSeq(all, 1, 4)[i] = all[1 + i - 1]
    BY <1>8, <2>1, Part
  <2> QED BY <2>2
<1> QED BY <1>2, <1>9, <1>10 DEF with

\* The displacement of a long jump is read as it was written,
LEMMA LongDisplacement ==
  ASSUME NEW n, Fits32(n), NEW bytes \in Seq(0..255), Len(bytes) = 4, \A i \in 1..4 : bytes[i] = Word(n)[i]
  PROVE  SignedOf(SubSeq(SignExtended(bytes), 1, 4)) = n
<1> DEFINE b == SubSeq(SignExtended(bytes), 1, 4)
<1>1. \A i \in 1..4 : b[i] = bytes[i]
  BY Extending
<1> HIDE DEF b
<1>2. \A i \in 1..4 : b[i] = Word(n)[i]
  BY <1>1
<1>3. StartsLike(Word(n), n)
  BY WordBytes
<1>4. StartsLike(b, n)
  BY <1>2, <1>3, SMT DEF StartsLike
<1> QED BY <1>4, SignedWord DEF b

\* The lowest byte of a small number
LEMMA LowByte ==
  ASSUME NEW n \in -128..127
  PROVE  n % 256 = IF n < 0 THEN n + 256 ELSE n
OBVIOUS

\* and so is the one byte of a short one.
LEMMA ShortDisplacement ==
  ASSUME NEW n \in -128..127, NEW bytes \in Seq(0..255), Len(bytes) = 1, bytes[1] = n % 256
  PROVE  SignedOf(SubSeq(SignExtended(bytes), 1, 4)) = n
<1> DEFINE b == SubSeq(SignExtended(bytes), 1, 4)
           with == SignByte(bytes[1])
<1>1. n % 256 = IF n < 0 THEN n + 256 ELSE n
  BY LowByte
<1>2. b[1] = bytes[1] /\ b[2] = with /\ b[3] = with /\ b[4] = with
  <2>1. \A i \in 1..4 : b[i] = IF i <= 1 THEN bytes[i] ELSE with
    BY Extending
  <2> HIDE DEF b, with
  <2> QED BY <2>1
<1> HIDE DEF b
<1>3. SignedOf(b) = n
  BY <1>1, <1>2, SMT DEF SignedOf, SignByte
<1> QED BY <1>3 DEF b

-----------------------------------------------------------------------------
(* Sequences of sequences                                                  *)

IsFlat(f, m, pieces) == f = [i \in 1..m |-> IF i = 1 THEN pieces[i] ELSE f[i - 1] \o pieces[i]]

\* There is a function like the one that FlattenSeq chooses.
LEMMA FlatExists ==
  ASSUME NEW pieces, NEW n \in Nat
  PROVE  \E f : IsFlat(f, n, pieces)
<1> DEFINE T == {m \in Nat : ~\E f : IsFlat(f, m, pieces)}
<1> SUFFICES ASSUME T # {} PROVE FALSE
  OBVIOUS
<1>1. PICK m \in T : \A k \in T : m <= k
  BY LeastNat
<1>2. m # 0
  <2> DEFINE f == [i \in 1..0 |-> 0]
  <2>1. IsFlat(f, 0, pieces)
    BY DEF IsFlat
  <2> QED BY <2>1
<1>3. m \in Nat /\ m - 1 \in Nat /\ m - 1 \notin T
  BY <1>1, <1>2
<1>4. PICK g : IsFlat(g, m - 1, pieces)
  BY <1>3
<1>5. \A f : ~IsFlat(f, m, pieces)
  OBVIOUS
<1> HIDE DEF T
<1> DEFINE f == [i \in 1..m |-> IF i = 1 THEN pieces[i] ELSE g[i - 1] \o pieces[i]]
<1>6. ASSUME NEW i \in 1..(m - 1) PROVE f[i] = g[i]
  <2>1. i \in 1..m
    BY <1>3
  <2>2. g[i] = IF i = 1 THEN pieces[i] ELSE g[i - 1] \o pieces[i]
    BY <1>4, Zenon DEF IsFlat
  <2> QED BY <2>1, <2>2, Zenon
<1>7. \A i \in 1..m : i # 1 => i - 1 \in 1..(m - 1)
  BY <1>3
<1>8. \A i \in 1..m : i # 1 => f[i - 1] = g[i - 1]
  BY <1>6, <1>7, Zenon
<1>9. f = [i \in 1..m |-> IF i = 1 THEN pieces[i] ELSE f[i - 1] \o pieces[i]]
  BY <1>8, Zenon
<1> QED BY <1>5, <1>9, Zenon DEF IsFlat

\* The first pieces are in a sequence, each after the ones before it. The numbers at say where
Placed(flat, m, pieces, at, S) ==
    /\ flat \in Seq(S) /\ Len(flat) = at[m + 1]
    /\ \A i \in 1..m : at[i] \in Nat /\ \A x \in 1..Len(pieces[i]) : at[i] + x \in 1..at[m + 1] /\ flat[at[i] + x] = pieces[i][x]

\* A piece that is added is after the pieces before it, which stay where they are.
LEMMA PlacedNext ==
  ASSUME NEW S, NEW k \in Nat, NEW pieces, NEW at, NEW flat, Placed(flat, k, pieces, at, S),
         NEW piece \in Seq(S), piece = pieces[k + 1], at[(k + 1) + 1] = at[k + 1] + Len(piece)
  PROVE  Placed(flat \o piece, k + 1, pieces, at, S)
<1> DEFINE all == flat \o piece
<1>1. PICK p \in Nat : p = Len(flat) /\ p = at[k + 1]
  BY DEF Placed
<1>2. PICK q \in Nat : q = Len(piece)
  OBVIOUS
<1>3. flat \in Seq(S) /\ piece \in Seq(S) /\ at[(k + 1) + 1] = p + q
  BY <1>1, <1>2 DEF Placed
<1>4. \A i \in 1..k : at[i] \in Nat /\ \A x \in 1..Len(pieces[i]) : at[i] + x \in 1..p /\ flat[at[i] + x] = pieces[i][x]
  BY <1>1 DEF Placed
<1>5. all \in Seq(S) /\ Len(all) = p + q /\ \A x \in 1..(p + q) : all[x] = IF x <= p THEN flat[x] ELSE piece[x - p]
  <2>1. /\ all \in Seq(S) /\ Len(all) = Len(flat) + Len(piece)
        /\ \A x \in 1..(Len(flat) + Len(piece)) : all[x] = IF x <= Len(flat) THEN flat[x] ELSE piece[x - Len(flat)]
    BY <1>3, ConcatProperties, Zenon
  <2> HIDE DEF all
  <2> QED BY <1>1, <1>2, <2>1
<1> HIDE DEF all
<1>6. ASSUME NEW i \in 1..(k + 1), NEW x \in 1..Len(pieces[i])
      PROVE  at[i] \in Nat /\ at[i] + x \in 1..(p + q) /\ all[at[i] + x] = pieces[i][x]
  <2>1. CASE i = k + 1
    <3>1. x \in 1..q /\ at[i] = p
      BY <1>1, <1>2, <2>1
    <3>2. p + x \in 1..(p + q) /\ ~(p + x <= p) /\ (p + x) - p = x
      BY <3>1
    <3> QED BY <1>5, <2>1, <3>1, <3>2
  <2>2. CASE i # k + 1
    <3>1. i \in 1..k
      BY <2>2
    <3>2. at[i] \in Nat /\ at[i] + x \in 1..p /\ flat[at[i] + x] = pieces[i][x]
      BY <1>4, <3>1
    <3>3. \A y \in 1..p : y \in 1..(p + q) /\ y <= p
      OBVIOUS
    <3> QED BY <1>5, <3>2, <3>3
  <2> QED BY <2>1, <2>2
<1>7. \A i \in 1..(k + 1) : at[i] \in Nat
  BY <1>1, <1>4
<1>8. Placed(all, k + 1, pieces, at, S)
  BY <1>3, <1>5, <1>6, <1>7 DEF Placed
<1> QED BY <1>8 DEF all

\* Every piece is in the flat sequence, where the numbers say.
LEMMA Flattened ==
  ASSUME NEW S, NEW n \in Nat, NEW pieces, pieces = [i \in 1..n |-> pieces[i]], \A i \in 1..n : pieces[i] \in Seq(S),
         NEW at, at[1] = 0, \A i \in 1..n : at[i + 1] = at[i] + Len(pieces[i])
  PROVE  Placed(FlattenSeq(pieces), n, pieces, at, S)
<1>1. Len(pieces) = n
  BY Sequence
<1>2. <<>> \in Seq(S) /\ Len(<<>>) = 0 /\ at[0 + 1] = 0
  OBVIOUS
<1>3. Placed(<<>>, 0, pieces, at, S)
  BY <1>2 DEF Placed
<1>4. CASE n = 0
  <2>1. pieces = <<>>
    BY <1>4
  <2>2. FlattenSeq(pieces) = <<>>
    BY <1>1, <1>4, <2>1 DEF FlattenSeq
  <2> QED BY <1>3, <1>4, <2>2
<1>5. CASE n # 0
  <2> DEFINE f == CHOOSE g : IsFlat(g, n, pieces)
  <2>1. FlattenSeq(pieces) = f[n]
    BY <1>1, <1>5 DEF FlattenSeq, IsFlat
  <2>2. IsFlat(f, n, pieces)
    BY FlatExists, Zenon
  <2> HIDE DEF f
  <2>3. \A i \in 1..n : f[i] = IF i = 1 THEN pieces[i] ELSE f[i - 1] \o pieces[i]
    BY <2>2, Zenon DEF IsFlat
  <2> DEFINE T == {m \in 1..n : ~Placed(f[m], m, pieces, at, S)}
  <2>4. ASSUME NEW m \in T, \A k \in T : m <= k PROVE FALSE
    <3>1. m \in 1..n /\ ~Placed(f[m], m, pieces, at, S) /\ \A k \in 1..n : k < m => Placed(f[k], k, pieces, at, S)
      <4>1. m \in 1..n /\ ~Placed(f[m], m, pieces, at, S)
        BY Zenon
      <4>2. \A k \in 1..n : k \notin T => Placed(f[k], k, pieces, at, S)
        BY Zenon
      <4> HIDE DEF T
      <4>3. \A k \in 1..n : k < m => k \notin T
        BY <2>4, <4>1
      <4> QED BY <4>1, <4>2, <4>3, Zenon
    <3> HIDE DEF T
    <3>2. PICK k \in Nat : k + 1 = m /\ m - 1 = k
      BY <3>1
    <3>3. pieces[k + 1] \in Seq(S) /\ at[(k + 1) + 1] = at[k + 1] + Len(pieces[k + 1])
      BY <3>1, <3>2
    <3>4. CASE k = 0
      <4>1. <<>> \o pieces[k + 1] = pieces[k + 1]
        BY <3>3, ConcatEmptySeq
      <4>2. Placed(<<>> \o pieces[k + 1], k + 1, pieces, at, S)
        BY <1>3, <3>3, <3>4, PlacedNext
      <4>3. f[m] = pieces[k + 1]
        BY <2>3, <3>1, <3>2, <3>4
      <4> QED BY <3>1, <3>2, <4>1, <4>2, <4>3
    <3>5. CASE k # 0
      <4>1. k \in 1..n /\ k < m /\ m # 1
        BY <3>1, <3>2, <3>5
      <4>2. Placed(f[k] \o pieces[k + 1], k + 1, pieces, at, S)
        BY <3>1, <3>3, <4>1, PlacedNext
      <4>3. f[m] = f[k] \o pieces[k + 1]
        BY <2>3, <3>1, <3>2, <4>1
      <4> QED BY <3>1, <3>2, <4>2, <4>3
    <3> QED BY <3>4, <3>5
  <2>5. T = {}
    <3>1. T \in SUBSET Nat
      OBVIOUS
    <3> HIDE DEF T
    <3> QED BY <2>4, <3>1, LeastNat
  <2>6. n \in 1..n
    BY <1>5
  <2>7. Placed(f[n], n, pieces, at, S)
    BY <2>5, <2>6, Zenon
  <2> QED BY <2>1, <2>7
<1> QED BY <1>4, <1>5

-----------------------------------------------------------------------------
(* The text                                                                *)

\* A name that is cut is the start of the name.
LEMMA CutProperties ==
  ASSUME NEW S, NEW s \in Seq(S), NEW n \in Nat, n = Len(s)
  PROVE  /\ Cut(s) \in Seq(S) /\ Len(Cut(s)) = (IF n < NameSize THEN n ELSE NameSize)
         /\ \A i \in 1..(IF n < NameSize THEN n ELSE NameSize) : Cut(s)[i] = s[i]
<1>1. PICK m \in Nat : m = (IF n < NameSize THEN n ELSE NameSize)
  BY NameSizeAssumption
<1>2. Cut(s) = SubSeq(s, 1, m) /\ m <= n
  BY <1>1, NameSizeAssumption DEF Cut
<1>3. \A i \in 1..m : s[i] \in S
  BY <1>2
<1>4. 1 \in Int /\ m \in Int
  OBVIOUS
<1>5. /\ SubSeq(s, 1, m) \in Seq(S) /\ Len(SubSeq(s, 1, m)) = (IF 1 <= m THEN m - 1 + 1 ELSE 0)
      /\ \A i \in 1..(m - 1 + 1) : SubSeq(s, 1, m)[i] = s[1 + i - 1]
  BY <1>3, <1>4, SubSeqProperties
<1>6. m - 1 + 1 = m /\ (IF 1 <= m THEN m - 1 + 1 ELSE 0) = m /\ \A i \in 1..m : 1 + i - 1 = i
  OBVIOUS
<1>7. SubSeq(s, 1, m) \in Seq(S) /\ Len(SubSeq(s, 1, m)) = m /\ \A i \in 1..m : SubSeq(s, 1, m)[i] = s[i]
  BY <1>5, <1>6
<1> QED BY <1>1, <1>2, <1>7

\* A label that starts with '.' gets the same name, whether or not the name before it was cut.
LEMMA CutTwice ==
  ASSUME NEW S, NEW s \in Seq(S), NEW p \in Seq(S)
  PROVE  Cut(Cut(s) \o p) = Cut(s \o p)
<1> DEFINE t == Cut(s)
           m == NameSize
<1>1. PICK n \in Nat, q \in Nat : n = Len(s) /\ q = Len(p)
  OBVIOUS
<1>2. PICK k \in Nat : k = (IF n < m THEN n ELSE m)
  BY NameSizeAssumption
<1>3. t \in Seq(S) /\ Len(t) = k /\ \A i \in 1..k : t[i] = s[i]
  BY <1>1, <1>2, CutProperties
<1> HIDE DEF t
<1>4. /\ t \o p \in Seq(S) /\ Len(t \o p) = k + q /\ \A i \in 1..(k + q) : (t \o p)[i] = IF i <= k THEN t[i] ELSE p[i - k]
  <2>1. /\ t \o p \in Seq(S) /\ Len(t \o p) = Len(t) + Len(p)
        /\ \A i \in 1..(Len(t) + Len(p)) : (t \o p)[i] = IF i <= Len(t) THEN t[i] ELSE p[i - Len(t)]
    BY <1>3, ConcatProperties, Zenon
  <2> QED BY <1>1, <1>3, <2>1, Zenon
<1>5. /\ s \o p \in Seq(S) /\ Len(s \o p) = n + q /\ \A i \in 1..(n + q) : (s \o p)[i] = IF i <= n THEN s[i] ELSE p[i - n]
  <2>1. /\ s \o p \in Seq(S) /\ Len(s \o p) = Len(s) + Len(p)
        /\ \A i \in 1..(Len(s) + Len(p)) : (s \o p)[i] = IF i <= Len(s) THEN s[i] ELSE p[i - Len(s)]
    BY <1>3, ConcatProperties, Zenon
  <2> QED BY <1>1, <2>1, Zenon
<1>6. PICK z \in Nat : z = (IF n + q < m THEN n + q ELSE m)
  BY NameSizeAssumption
<1>7. (IF k + q < m THEN k + q ELSE m) = z /\ z <= k + q /\ z <= n + q /\ (k = n \/ k = z)
  BY <1>2, <1>6, NameSizeAssumption
<1>8. Cut(s \o p) \in Seq(S) /\ Len(Cut(s \o p)) = z /\ \A i \in 1..z : Cut(s \o p)[i] = (s \o p)[i]
  <2>1. n + q \in Nat
    OBVIOUS
  <2> QED BY <1>5, <1>6, <2>1, CutProperties
<1>9. Cut(t \o p) \in Seq(S) /\ Len(Cut(t \o p)) = z /\ \A i \in 1..z : Cut(t \o p)[i] = (t \o p)[i]
  <2>1. k + q \in Nat
    OBVIOUS
  <2> QED BY <1>4, <1>7, <2>1, CutProperties
<1>10. ASSUME NEW i \in 1..z PROVE (t \o p)[i] = (s \o p)[i]
  <2>1. i \in 1..(k + q) /\ i \in 1..(n + q) /\ (i \in 1..k \/ (~(i <= k) /\ k = n))
    BY <1>7
  <2>2. k <= n
    BY <1>2
  <2>3. i \in 1..k => i <= k /\ i <= n
    BY <2>2
  <2> QED BY <1>3, <1>4, <1>5, <2>1, <2>3
<1>11. \A i \in 1..z : Cut(t \o p)[i] = Cut(s \o p)[i]
  BY <1>8, <1>9, <1>10
<1>12. Cut(t \o p) = Cut(s \o p)
  BY <1>8, <1>9, <1>11, SeqEqual
<1> QED BY <1>12 DEF t

\* A set of the numbers before k and its greatest
LEMMA NewMax ==
  ASSUME NEW k \in Nat, NEW T \in SUBSET (1..(k - 1))
  PROVE  Max(T \cup {k}) = k
<1> DEFINE U == T \cup {k}
<1>1. k \in U /\ \A y \in U : k >= y
  OBVIOUS
<1>2. \A x \in U : (\A y \in U : x >= y) => x = k
  OBVIOUS
<1> HIDE DEF U
<1>3. Max(U) = k
  BY <1>1, <1>2 DEF Max
<1> QED BY <1>3 DEF U

\* A text starts in the text section.
LEMMA SectionFirst == SectionAt(1) = "text"
BY DEF SectionAt, SectionBefore

\* A section line is for the lines after it.
LEMMA SectionNext ==
  ASSUME NEW k \in Nat \ {0}
  PROVE  SectionAt(k + 1) = IF source[k].is = "section" THEN sectionOf(source[k].section) ELSE SectionAt(k)
<1> DEFINE before(n) == {j \in 1..(n - 1) : source[j].is = "section"}
<1>1. ASSUME NEW n PROVE SectionAt(n) = IF before(n) = {} THEN "text" ELSE sectionOf(source[Max(before(n))].section)
  BY Zenon DEF SectionAt, SectionBefore
<1>2. before(k + 1) = IF source[k].is = "section" THEN before(k) \cup {k} ELSE before(k)
  <2>1. \A j : j \in 1..((k + 1) - 1) <=> j \in 1..(k - 1) \/ j = k
    OBVIOUS
  <2> QED BY <2>1
<1>3. before(k) \in SUBSET (1..(k - 1)) /\ k \in Nat
  OBVIOUS
<1> HIDE DEF before
<1>4. Max(before(k) \cup {k}) = k
  BY <1>3, NewMax
<1> QED BY <1>1, <1>2, <1>4

\* No label is before the first line.
LEMMA ScopeFirst == ScopeAt(1) = <<>>
BY DEF ScopeAt, LabelsBefore

\* A label that does not start with '.' is the last one for the lines after it.
LEMMA ScopeNext ==
  ASSUME NEW k \in Nat \ {0}
  PROVE  ScopeAt(k + 1) = IF source[k].is = "label" /\ ~source[k].name.dot THEN source[k].name.parts ELSE ScopeAt(k)
<1>1. LabelsBefore(k + 1) = IF source[k].is = "label" /\ ~source[k].name.dot THEN LabelsBefore(k) \cup {k} ELSE LabelsBefore(k)
  <2>1. \A j : j \in 1..((k + 1) - 1) <=> j \in 1..(k - 1) \/ j = k
    OBVIOUS
  <2> QED BY <2>1 DEF LabelsBefore
<1>2. LabelsBefore(k) \in SUBSET (1..(k - 1)) /\ k \in Nat
  BY DEF LabelsBefore
<1>3. Max(LabelsBefore(k) \cup {k}) = k
  BY <1>2, NewMax
<1> QED BY <1>1, <1>3 DEF ScopeAt

\* The items are numbered in the order of their lines.
LEMMA ItemFirst == ItemOf(0) = 0
<1>1. {j \in 1..0 : source[j].is = "instruction"} = {}
  OBVIOUS
<1> QED BY <1>1, FS_EmptySet DEF ItemOf

\* An instruction is the next item, and other lines are none.
LEMMA ItemNext ==
  ASSUME NEW k \in Nat
  PROVE  ItemOf(k) \in Nat /\ ItemOf(k + 1) = IF source[k + 1].is = "instruction" THEN ItemOf(k) + 1 ELSE ItemOf(k)
<1> DEFINE before(n) == {j \in 1..n : source[j].is = "instruction"}
<1>1. before(k + 1) = IF source[k + 1].is = "instruction" THEN before(k) \cup {k + 1} ELSE before(k)
  <2>1. \A j : j \in 1..(k + 1) <=> j \in 1..k \/ j = k + 1
    OBVIOUS
  <2> QED BY <2>1
<1>2. IsFiniteSet(before(k)) /\ k + 1 \notin before(k)
  <2>1. IsFiniteSet(1..k)
    BY FS_Interval
  <2>2. before(k) \in SUBSET (1..k)
    OBVIOUS
  <2>3. k + 1 \notin 1..k
    OBVIOUS
  <2> QED BY <2>1, <2>2, <2>3, FS_Subset
<1>3. ItemOf(k) = Cardinality(before(k)) /\ ItemOf(k + 1) = Cardinality(before(k + 1))
  BY DEF ItemOf
<1> HIDE DEF before
<1>4. Cardinality(before(k)) \in Nat
  BY <1>2, FS_CardinalityType
<1>5. Cardinality(before(k) \cup {k + 1}) = Cardinality(before(k)) + 1
  BY <1>2, FS_AddElement
<1> QED BY <1>1, <1>3, <1>4, <1>5

\* There are no more items before a line than before a later one, and no more than lines.
LEMMA ItemsInOrder ==
  ASSUME NEW k \in Nat, NEW j \in 0..k
  PROVE  ItemOf(j) \in Nat /\ ItemOf(k) \in Nat /\ ItemOf(j) <= ItemOf(k) /\ ItemOf(k) <= k
<1> DEFINE before(n) == {i \in 1..n : source[i].is = "instruction"}
<1>1. ItemOf(j) = Cardinality(before(j)) /\ ItemOf(k) = Cardinality(before(k))
  BY DEF ItemOf
<1>2. before(j) \subseteq before(k) /\ before(k) \subseteq 1..k
  <2>1. \A i \in 1..j : i \in 1..k
    OBVIOUS
  <2> QED BY <2>1
<1> HIDE DEF before
<1>3. IsFiniteSet(1..k) /\ Cardinality(1..k) = k
  BY FS_Interval
<1>4. IsFiniteSet(before(k)) /\ Cardinality(before(k)) <= Cardinality(1..k)
  BY <1>2, <1>3, FS_Subset
<1>5. IsFiniteSet(before(j)) /\ Cardinality(before(j)) <= Cardinality(before(k))
  BY <1>2, <1>4, FS_Subset
<1>6. Cardinality(before(j)) \in Nat /\ Cardinality(before(k)) \in Nat
  BY <1>4, <1>5, FS_CardinalityType
<1> QED BY <1>1, <1>3, <1>4, <1>5, <1>6

-----------------------------------------------------------------------------
(* Jumps                                                                   *)

\* A field of bytes after others
EndsWith(all, p, f, k, m, S) ==
    all \in Seq(S) /\ Len(all) = k + m /\ (\A i \in 1..k : all[i] = p[i]) /\ SubSeq(all, k + 1, k + m) = f

\* The field is where the bytes before it end.
LEMMA FieldAfter ==
  ASSUME NEW S, NEW p \in Seq(S), NEW f \in Seq(S), NEW k \in Nat, k # 0, Len(p) = k, NEW m \in Nat, m # 0, Len(f) = m
  PROVE  EndsWith(p \o f, p, f, k, m, S)
<1> DEFINE all == p \o f
<1>1. /\ all \in Seq(S) /\ Len(all) = k + m
      /\ \A i \in 1..(k + m) : all[i] = IF i <= k THEN p[i] ELSE f[i - k]
  <2>1. /\ all \in Seq(S) /\ Len(all) = Len(p) + Len(f)
        /\ \A i \in 1..(Len(p) + Len(f)) : all[i] = IF i <= Len(p) THEN p[i] ELSE f[i - Len(p)]
    BY ConcatProperties, Zenon
  <2> QED BY <2>1, Zenon
<1> HIDE DEF all
<1>2. \A i \in 1..k : all[i] = p[i]
  <2>1. \A i \in 1..k : i \in 1..(k + m) /\ i <= k
    OBVIOUS
  <2> QED BY <1>1, <2>1
<1>3. PICK a \in Nat, b \in Nat : a = k + 1 /\ b = k + m
  OBVIOUS
<1>4. a \in 1..b /\ b \in a..b /\ b - a + 1 = m
  BY <1>3
<1>5. SubSeq(all, a, b) \in Seq(S) /\ Len(SubSeq(all, a, b)) = m /\ \A i \in 1..m : SubSeq(all, a, b)[i] = all[a + i - 1]
  <2>1. a \in 1..Len(all) /\ b \in a..Len(all)
    BY <1>1, <1>3, <1>4
  <2>2. /\ SubSeq(all, a, b) \in Seq(S) /\ Len(SubSeq(all, a, b)) = b - a + 1
        /\ \A i \in 1..(b - a + 1) : SubSeq(all, a, b)[i] = all[a + i - 1]
    BY <1>1, <2>1, Part, Zenon
  <2> QED BY <1>4, <2>2
<1>6. \A i \in 1..m : all[a + i - 1] = f[i]
  <2>1. \A i \in 1..m : a + i - 1 \in 1..(k + m) /\ ~(a + i - 1 <= k) /\ (a + i - 1) - k = i
    BY <1>3
  <2> QED BY <1>1, <2>1
<1>7. SubSeq(all, a, b) = f
  BY <1>5, <1>6, SeqEqual
<1>8. EndsWith(all, p, f, k, m, S)
  BY <1>1, <1>2, <1>3, <1>7 DEF EndsWith
<1> QED BY <1>8 DEF all

\* What DecodeJump() makes of the three kinds of jumps
FieldAt(bytes) == IF bytes[1] = 15 THEN 3 ELSE 2
FieldLength(bytes) == IF bytes[1] = 15 \/ bytes[1] = 233 THEN 4 ELSE 1
JumpDo(bytes) == CASE bytes[1] \in {233, 235} -> "jump"
                   [] bytes[1] = 15 -> "jump" \o ToString(bytes[2] - 128)
                   [] OTHER -> "jump" \o ToString(bytes[1] - 112)
\* The length, the kind and the number of what DecodeJump() reads, of each of the three.
LEMMA DecodedAs ==
  ASSUME NEW bytes, NEW at, NEW size, NEW do, at = FieldAt(bytes), size = FieldLength(bytes), do = JumpDo(bytes)
  PROVE  /\ DecodeJump(bytes).length = at + size - 1 /\ DecodeJump(bytes).meaning.do = do
         /\ DecodeJump(bytes).meaning.args[1].number = SignExtended(SubSeq(bytes, at, at + size - 1))
<1> DEFINE number == SignExtended(SubSeq(bytes, at, at + size - 1))
<1>1. DecodeJump(bytes) = [meaning |-> Meant(do, size, <<NumberArg(number)>>), length |-> at + size - 1]
  BY Zenon DEF DecodeJump, FieldAt, FieldLength, JumpDo
<1> HIDE DEF number
<1>2. NumberArg(number).number = number
  BY DEF NumberArg, Nothing
<1>3. Meant(do, size, <<NumberArg(number)>>).do = do /\ Meant(do, size, <<NumberArg(number)>>).args[1] = NumberArg(number)
  BY DEF Meant
<1>4. DecodeJump(bytes).length = at + size - 1 /\ DecodeJump(bytes).meaning = Meant(do, size, <<NumberArg(number)>>)
  BY <1>1
<1>5. /\ DecodeJump(bytes).length = at + size - 1 /\ DecodeJump(bytes).meaning.do = do
      /\ DecodeJump(bytes).meaning.args[1].number = number
  BY <1>2, <1>3, <1>4, Zenon
<1> QED BY <1>5 DEF number

\* What asm_finish_text() writes for a jump over n bytes
EncodedJump(condition, short, n) ==
    IF short THEN <<IF condition < 0 THEN 235 ELSE 112 + condition>> \o SubSeq(Word(n), 1, 1)
    ELSE (IF condition < 0 THEN <<233>> ELSE <<15, 128 + condition>>) \o SubSeq(Word(n), 1, 4)
MeansJump(bytes, condition, n) ==
    /\ IsJumpTo(bytes)
    /\ DecodeJump(bytes).length = Len(bytes)
    /\ DecodeJump(bytes).meaning.do = IF condition < 0 THEN "jump" ELSE "jump" \o ToString(condition)
    /\ SignedOf(SubSeq(DecodeJump(bytes).meaning.args[1].number, 1, 4)) = n

\* The first bytes of a number
LEMMA WordStart ==
  ASSUME NEW n, Fits32(n), NEW m \in {1, 4}
  PROVE  /\ SubSeq(Word(n), 1, m) \in Seq(0..255) /\ Len(SubSeq(Word(n), 1, m)) = m
         /\ \A i \in 1..m : SubSeq(Word(n), 1, m)[i] = Word(n)[i]
<1>1. PICK w \in Seq(0..255) : w = Word(n) /\ Len(w) = 8
  BY WordBytes
<1>2. 1 \in 1..Len(w) /\ m \in 1..Len(w) /\ m - 1 + 1 = m
  BY <1>1
<1>3. /\ SubSeq(w, 1, m) \in Seq(0..255) /\ Len(SubSeq(w, 1, m)) = m - 1 + 1
      /\ \A i \in 1..(m - 1 + 1) : SubSeq(w, 1, m)[i] = w[1 + i - 1]
  BY <1>2, Part, Zenon
<1>4. \A i \in 1..m : 1 + i - 1 = i
  OBVIOUS
<1> QED BY <1>1, <1>2, <1>3, <1>4

\* The processor reads it as that jump.
LEMMA JumpDecoded ==
  ASSUME NEW condition \in -1..15, NEW short \in BOOLEAN, NEW n, Fits32(n), short => n \in -128..127,
         NEW bytes, bytes = EncodedJump(condition, short, n)
  PROVE  /\ bytes \in Seq(0..255) /\ Len(bytes) = jumpSize([is_short |-> short, condition |-> condition])
         /\ MeansJump(bytes, condition, n)
<1> DEFINE m == IF short THEN 1 ELSE 4
           f == SubSeq(Word(n), 1, m)
           p == IF short THEN <<IF condition < 0 THEN 235 ELSE 112 + condition>> ELSE IF condition < 0 THEN <<233>> ELSE <<15, 128 + condition>>
           k == IF short \/ condition < 0 THEN 1 ELSE 2
           do == IF condition < 0 THEN "jump" ELSE "jump" \o ToString(condition)
<1>1. m \in {1, 4} /\ m \in Nat \ {0} /\ k \in {1, 2} /\ k \in Nat \ {0}
  OBVIOUS
<1>2. bytes = p \o f
  BY DEF EncodedJump
<1>3. p \in Seq(0..255) /\ Len(p) = k
  <2>1. condition < 0 \/ (112 + condition \in 0..255 /\ 128 + condition \in 0..255)
    OBVIOUS
  <2>2. CASE short /\ condition < 0
    BY <2>2
  <2>3. CASE short /\ ~(condition < 0)
    BY <2>1, <2>3
  <2>4. CASE ~short /\ condition < 0
    BY <2>4
  <2>5. CASE ~short /\ ~(condition < 0)
    BY <2>1, <2>5
  <2> QED BY <2>2, <2>3, <2>4, <2>5
<1>4. p[1] = (IF short THEN IF condition < 0 THEN 235 ELSE 112 + condition ELSE IF condition < 0 THEN 233 ELSE 15)
      /\ (k = 2 => p[2] = 128 + condition)
  OBVIOUS
<1>5. f \in Seq(0..255) /\ Len(f) = m /\ \A i \in 1..m : f[i] = Word(n)[i]
  BY <1>1, WordStart
<1>6. condition < 0 \/ ((112 + condition) - 112 = condition /\ (128 + condition) - 128 = condition /\ condition \in 0..15)
  OBVIOUS
<1>7. m = 4 \/ n \in -128..127
  OBVIOUS
<1>8. jumpSize([is_short |-> short, condition |-> condition]) = k + m
  BY DEF jumpSize
<1>a. short <=> m = 1
  OBVIOUS
<1>b. k = (IF short \/ condition < 0 THEN 1 ELSE 2)
  OBVIOUS
<1> HIDE DEF m, f, p, k
<1>9. /\ bytes \in Seq(0..255) /\ Len(bytes) = k + m /\ (\A i \in 1..k : bytes[i] = p[i])
      /\ SubSeq(bytes, k + 1, k + m) = f
  <2>0. PICK B : B = 0..255
    OBVIOUS
  <2>1. k \in Nat /\ k # 0 /\ m \in Nat /\ m # 0 /\ p \in Seq(B) /\ Len(p) = k /\ f \in Seq(B) /\ Len(f) = m
    BY <1>1, <1>3, <1>5, <2>0
  <2>2. EndsWith(p \o f, p, f, k, m, B)
    BY ONLY <2>1, FieldAfter, Zenon
  <2> QED BY <1>2, <2>0, <2>2 DEF EndsWith
<1>10. bytes[1] = p[1] /\ (k = 2 => bytes[2] = p[2])
  BY <1>1, <1>9
<1>11. IsJumpTo(bytes)
  BY <1>4, <1>6, <1>10, <1>b DEF IsJumpTo
<1>12. k + 1 = FieldAt(bytes) /\ m = FieldLength(bytes)
  BY <1>1, <1>4, <1>6, <1>10, <1>a, <1>b DEF FieldAt, FieldLength
<1>13. do = JumpDo(bytes)
  <2>1. CASE condition < 0
    <3>1. bytes[1] \in {233, 235}
      BY <1>4, <1>10, <2>1
    <3> QED BY <2>1, <3>1 DEF JumpDo
  <2>2. CASE ~(condition < 0) /\ short
    <3>1. bytes[1] \notin {233, 235} /\ bytes[1] # 15 /\ bytes[1] - 112 = condition
      BY <1>4, <1>6, <1>10, <2>2
    <3> QED BY <2>2, <3>1 DEF JumpDo
  <2>3. CASE ~(condition < 0) /\ ~short
    <3>1. bytes[1] \notin {233, 235} /\ bytes[1] = 15 /\ bytes[2] - 128 = condition
      BY <1>4, <1>6, <1>10, <1>b, <2>3
    <3> QED BY <2>3, <3>1 DEF JumpDo
  <2> QED BY <2>1, <2>2, <2>3
<1> HIDE DEF do
<1>14. /\ DecodeJump(bytes).length = k + m /\ DecodeJump(bytes).meaning.do = do
       /\ DecodeJump(bytes).meaning.args[1].number = SignExtended(f)
  <2>1. PICK at : at = k + 1
    OBVIOUS
  <2>2. /\ DecodeJump(bytes).length = at + m - 1 /\ DecodeJump(bytes).meaning.do = do
        /\ DecodeJump(bytes).meaning.args[1].number = SignExtended(SubSeq(bytes, at, at + m - 1))
    BY <1>12, <1>13, <2>1, DecodedAs, Zenon
  <2>3. at + m - 1 = k + m
    BY <1>1, <2>1
  <2> QED BY <1>9, <2>1, <2>2, <2>3
<1>15. SignedOf(SubSeq(SignExtended(f), 1, 4)) = n
  <2>1. CASE m = 4
    BY <1>5, <2>1, LongDisplacement
  <2>2. CASE m = 1
    <3>0. n \in -128..127
      BY <1>7, <2>2
    <3>1. Word(n)[1] = n % 256
      BY WordBytes DEF StartsLike
    <3>2. f[1] = n % 256
      BY <1>5, <2>2, <3>1
    <3> QED BY <1>5, <2>2, <3>0, <3>2, ShortDisplacement, Zenon
  <2> QED BY <1>1, <2>1, <2>2
<1> QED BY <1>8, <1>9, <1>11, <1>14, <1>15 DEF MeansJump, do

\* A condition is one of the sixteen of the processor.
LEMMA Conditions ==
  ASSUME NEW cc, asm_condition(cc) >= 0
  PROVE  asm_condition(cc) \in 0..15 /\ asm_condition(cc) = ConditionOf(cc) /\ cc \in ConditionNames[asm_condition(cc) + 1]
<1> DEFINE names == {"o", "no", "b", "c", "nae", "ae", "nb", "nc", "e", "z", "ne", "nz", "be", "na", "a", "nbe", "s", "ns", "p", "pe",
                     "np", "po", "l", "nge", "ge", "nl", "le", "ng", "g", "nle"}
           n == asm_condition(cc)
<1>1. cc \in names
  BY DEF asm_condition
<1>2. cc \in {"o"} => n = 0
  BY DEF asm_condition
<1>3. cc \in {"no"} => n = 1
  BY DEF asm_condition
<1>4. cc \in {"b", "c", "nae"} => n = 2
  BY DEF asm_condition
<1>5. cc \in {"ae", "nb", "nc"} => n = 3
  BY DEF asm_condition
<1>6. cc \in {"e", "z"} => n = 4
  BY DEF asm_condition
<1>7. cc \in {"ne", "nz"} => n = 5
  BY DEF asm_condition
<1>8. cc \in {"be", "na"} => n = 6
  BY DEF asm_condition
<1>9. cc \in {"a", "nbe"} => n = 7
  BY DEF asm_condition
<1>10. cc \in {"s"} => n = 8
  BY DEF asm_condition
<1>11. cc \in {"ns"} => n = 9
  BY DEF asm_condition
<1>12. cc \in {"p", "pe"} => n = 10
  BY DEF asm_condition
<1>13. cc \in {"np", "po"} => n = 11
  BY DEF asm_condition
<1>14. cc \in {"l", "nge"} => n = 12
  BY DEF asm_condition
<1>15. cc \in {"ge", "nl"} => n = 13
  BY DEF asm_condition
<1>16. cc \in {"le", "ng"} => n = 14
  BY DEF asm_condition
<1>17. cc \in {"g", "nle"} => n = 15
  BY DEF asm_condition
<1> HIDE DEF n
<1>18. /\ ConditionNames[0 + 1] = {"o"}
       /\ ConditionNames[1 + 1] = {"no"}
       /\ ConditionNames[2 + 1] = {"b", "c", "nae"}
       /\ ConditionNames[3 + 1] = {"ae", "nb", "nc"}
       /\ ConditionNames[4 + 1] = {"e", "z"}
       /\ ConditionNames[5 + 1] = {"ne", "nz"}
       /\ ConditionNames[6 + 1] = {"be", "na"}
       /\ ConditionNames[7 + 1] = {"a", "nbe"}
       /\ ConditionNames[8 + 1] = {"s"}
       /\ ConditionNames[9 + 1] = {"ns"}
       /\ ConditionNames[10 + 1] = {"p", "pe"}
       /\ ConditionNames[11 + 1] = {"np", "po"}
       /\ ConditionNames[12 + 1] = {"l", "nge"}
       /\ ConditionNames[13 + 1] = {"ge", "nl"}
       /\ ConditionNames[14 + 1] = {"le", "ng"}
       /\ ConditionNames[15 + 1] = {"g", "nle"}
  BY DEF ConditionNames
<1>19. n \in 0..15 /\ cc \in ConditionNames[n + 1]
  BY <1>1, <1>2, <1>3, <1>4, <1>5, <1>6, <1>7, <1>8, <1>9, <1>10, <1>11, <1>12, <1>13, <1>14, <1>15, <1>16, <1>17, <1>18
<1>20. \A m \in 0..15 : cc \in ConditionNames[m + 1] => m = n
  BY <1>2, <1>3, <1>4, <1>5, <1>6, <1>7, <1>8, <1>9, <1>10, <1>11, <1>12, <1>13, <1>14, <1>15, <1>16, <1>17, <1>18
<1> QED BY <1>19, <1>20 DEF ConditionOf, n

-----------------------------------------------------------------------------
(* The symbols                                                             *)

SymbolsOK(symbols) ==
    /\ symbols \in Seq(Range(symbols))
    /\ \A i \in 1..Len(symbols) : {"name", "section", "offset", "is_global", "is_extern"} \subseteq DOMAIN symbols[i]

\* The first symbol with a name
IsFirst(symbols, name, i) ==
    i \in 1..Len(symbols) /\ symbols[i].name = name /\ \A j \in 1..Len(symbols) : j < i => symbols[j].name # name
IsDefined(symbols, name) == \E i \in 1..Len(symbols) : IsFirst(symbols, name, i) /\ symbols[i].section # "none"

\* No symbol is taken away, and what is defined stays so
Kept(old, new) ==
    /\ SymbolsOK(new)
    /\ Len(old) <= Len(new)
    /\ \A i \in 1..Len(old) : new[i].name = old[i].name /\ (old[i].section # "none" => new[i].section # "none")

\* Nothing is lost when nothing changes.
LEMMA KeptSame == ASSUME NEW old, SymbolsOK(old) PROVE Kept(old, old)
BY DEF Kept, SymbolsOK

\* What two steps keep, they keep together.
LEMMA KeptTwice ==
  ASSUME NEW old, NEW mid, NEW new, SymbolsOK(old), Kept(old, mid), Kept(mid, new)
  PROVE  Kept(old, new)
<1>1. PICK m \in Nat, n \in Nat, p \in Nat : m = Len(old) /\ n = Len(mid) /\ p = Len(new)
  BY DEF Kept, SymbolsOK
<1>2. m <= n /\ n <= p
  BY <1>1 DEF Kept
<1>3. \A i \in 1..m : i \in 1..n
  BY <1>2
<1> QED BY <1>1, <1>2, <1>3 DEF Kept

\* A name that is defined stays defined.
LEMMA KeptDefined ==
  ASSUME NEW old, NEW new, SymbolsOK(old), Kept(old, new), NEW name, IsDefined(old, name)
  PROVE  IsDefined(new, name)
<1>1. PICK m \in Nat, n \in Nat : m = Len(old) /\ n = Len(new) /\ m <= n
  BY DEF Kept, SymbolsOK
<1>2. PICK i \in 1..m : IsFirst(old, name, i) /\ old[i].section # "none"
  BY <1>1 DEF IsDefined
<1>3. i \in 1..n /\ new[i].name = name /\ new[i].section # "none"
  BY <1>1, <1>2 DEF Kept, IsFirst
<1>4. ASSUME NEW j \in 1..n, j < i PROVE new[j].name # name
  <2>1. j \in 1..m
    BY <1>2, <1>4
  <2> QED BY <1>1, <1>2, <1>4, <2>1 DEF Kept, IsFirst
<1> QED BY <1>1, <1>3, <1>4 DEF IsDefined, IsFirst

\* The index of a name is that of the first symbol with it.
LEMMA SymbolFound ==
  ASSUME NEW symbols, SymbolsOK(symbols), NEW name, NEW i, IsFirst(symbols, name, i)
  PROVE  symbolIndex(symbols, name) = i
<1> DEFINE U == {j \in 1..Len(symbols) : symbols[j].name = name}
<1>1. Len(symbols) \in Nat
  BY DEF SymbolsOK
<1>2. symbolIndex(symbols, name) = IF U # {} THEN Min(U) ELSE 0
  BY DEF symbolIndex, SelectInSeq
<1>3. i \in U /\ \A j \in U : ~(j < i)
  BY DEF IsFirst
<1>4. \A j \in U : j \in Int
  BY <1>1
<1> HIDE DEF U
<1>5. \A x \in U : (x \in U /\ \A y \in U : x <= y) <=> x = i
  BY <1>3, <1>4
<1>6. Min(U) = i
  BY <1>3, <1>5 DEF Min
<1> QED BY <1>2, <1>3, <1>6

\* The index of a name is 0 only when no symbol has it.
LEMMA SymbolIs ==
  ASSUME NEW symbols, SymbolsOK(symbols), NEW name
  PROVE  \/ IsFirst(symbols, name, symbolIndex(symbols, name))
         \/ symbolIndex(symbols, name) = 0 /\ \A i \in 1..Len(symbols) : symbols[i].name # name
<1> DEFINE U == {j \in 1..Len(symbols) : symbols[j].name = name}
<1>1. Len(symbols) \in Nat
  BY DEF SymbolsOK
<1>2. symbolIndex(symbols, name) = IF U # {} THEN Min(U) ELSE 0
  BY DEF symbolIndex, SelectInSeq
<1>3. CASE U = {}
  BY <1>2, <1>3
<1>4. CASE U # {}
  <2>1. U \in SUBSET Nat
    BY <1>1
  <2>2. PICK i \in U : \A j \in U : i <= j
    <3> HIDE DEF U
    <3> QED BY <1>4, <2>1, LeastNat
  <2>3. i \in 1..Len(symbols) /\ symbols[i].name = name
    BY <2>2
  <2>4. \A j \in 1..Len(symbols) : j < i => symbols[j].name # name
    <3>1. \A j \in 1..Len(symbols) : symbols[j].name = name => j \in U
      OBVIOUS
    <3> HIDE DEF U
    <3> QED BY <1>1, <2>2, <2>3, <3>1
  <2>5. IsFirst(symbols, name, i)
    BY <2>3, <2>4 DEF IsFirst
  <2> QED BY <2>5, SymbolFound
<1> QED BY <1>3, <1>4

\* asm_symbol() keeps the symbols, and there is one with the name after it.
LEMMA SymbolMade ==
  ASSUME NEW symbols, SymbolsOK(symbols), NEW name
  PROVE  LET more == asm_symbol(symbols, name)
         IN  Kept(symbols, more) /\ IsFirst(more, name, symbolIndex(more, name))
<1> DEFINE more == asm_symbol(symbols, name)
<1>1. Kept(symbols, more) /\ \E i : IsFirst(more, name, i)
  <2>1. CASE symbolIndex(symbols, name) # 0
    <3>1. more = symbols
      BY <2>1 DEF asm_symbol
    <3>2. IsFirst(symbols, name, symbolIndex(symbols, name))
      BY <2>1, SymbolIs
    <3> HIDE DEF more
    <3> QED BY <3>1, <3>2, KeptSame
  <2>2. CASE symbolIndex(symbols, name) = 0
    <3>1. more = Append(symbols, Symbol(name))
      BY <2>2 DEF asm_symbol
    <3>2. PICK n \in Nat : n = Len(symbols)
      BY DEF SymbolsOK
    <3>3. \A i \in 1..n : symbols[i].name # name
      <4>1. ~IsFirst(symbols, name, 0)
        BY <3>2 DEF IsFirst
      <4> QED BY <2>2, <3>2, <4>1, SymbolIs
    <3> HIDE DEF more
    <3>4. /\ more \in Seq(Range(more)) /\ Len(more) = n + 1
          /\ more[n + 1] = Symbol(name) /\ \A i \in 1..n : more[i] = symbols[i]
      BY <3>1, <3>2, AppendOne DEF SymbolsOK
    <3>5. /\ Symbol(name).name = name
          /\ {"name", "section", "offset", "is_global", "is_extern"} \subseteq DOMAIN Symbol(name)
      BY DEF Symbol
    <3>6. \A i \in 1..(n + 1) : i \in 1..n \/ i = n + 1
      BY <3>2
    <3>7. SymbolsOK(more)
      BY <3>2, <3>4, <3>5, <3>6 DEF SymbolsOK
    <3>8. Kept(symbols, more)
      BY <3>2, <3>4, <3>7 DEF Kept
    <3>9. IsFirst(more, name, n + 1)
      BY <3>2, <3>3, <3>4, <3>5, <3>6 DEF IsFirst
    <3> QED BY <3>8, <3>9
  <2> QED BY <2>1, <2>2
<1> HIDE DEF more
<1>2. IsFirst(more, name, symbolIndex(more, name))
  BY <1>1, SymbolFound DEF Kept
<1> QED BY <1>1, <1>2 DEF more

\* A symbol that is marked, or gets its place, is still that symbol.
LEMMA KeptChanged ==
  ASSUME NEW symbols, SymbolsOK(symbols), NEW i \in 1..Len(symbols), NEW s,
         DOMAIN s = DOMAIN symbols[i], s.name = symbols[i].name, symbols[i].section # "none" => s.section # "none"
  PROVE  Kept(symbols, [symbols EXCEPT ![i] = s])
<1> DEFINE new == [symbols EXCEPT ![i] = s]
<1>1. PICK n \in Nat : n = Len(symbols) /\ DOMAIN symbols = 1..n
  BY DEF SymbolsOK
<1>2. new = [j \in 1..n |-> IF j = i THEN s ELSE symbols[j]]
  BY <1>1
<1> HIDE DEF new
<1>3. new \in Seq(Range(new)) /\ Len(new) = n
  <2>1. new = [j \in 1..n |-> new[j]]
    BY <1>2
  <2> QED BY <1>1, <2>1, Sequence
<1>4. \A j \in 1..n : new[j] = IF j = i THEN s ELSE symbols[j]
  BY <1>2
<1>5. SymbolsOK(new)
  BY <1>1, <1>3, <1>4 DEF SymbolsOK
<1>6. Kept(symbols, new)
  BY <1>1, <1>3, <1>4, <1>5 DEF Kept
<1> QED BY <1>6 DEF new

\* The symbols of some relocations are made one after the other.
AreMade(f, n, symbols, relocs) == f = [i \in 0..n |-> IF i = 0 THEN symbols ELSE asm_symbol(f[i - 1], relocs[i].symbol)]

\* There is a function like the one that asm_symbols chooses.
LEMMA MadeExist ==
  ASSUME NEW symbols, NEW relocs, NEW n \in Nat
  PROVE  \E f : AreMade(f, n, symbols, relocs)
<1> DEFINE T == {m \in Nat : ~\E f : AreMade(f, m, symbols, relocs)}
<1> SUFFICES ASSUME T # {} PROVE FALSE
  OBVIOUS
<1>1. PICK m \in T : \A k \in T : m <= k
  BY LeastNat
<1>2. m # 0
  <2> DEFINE f == [i \in 0..0 |-> symbols]
  <2>1. f = [i \in 0..0 |-> IF i = 0 THEN symbols ELSE asm_symbol(f[i - 1], relocs[i].symbol)]
    OBVIOUS
  <2>2. AreMade(f, 0, symbols, relocs)
    BY <2>1, Zenon DEF AreMade
  <2> QED BY <2>2
<1>3. m \in Nat /\ m - 1 \in Nat /\ m - 1 \notin T
  BY <1>1, <1>2
<1>4. PICK g : AreMade(g, m - 1, symbols, relocs)
  BY <1>3
<1>5. \A f : ~AreMade(f, m, symbols, relocs)
  OBVIOUS
<1> HIDE DEF T
<1> DEFINE f == [i \in 0..m |-> IF i = 0 THEN symbols ELSE asm_symbol(g[i - 1], relocs[i].symbol)]
<1>6. ASSUME NEW i \in 0..(m - 1) PROVE f[i] = g[i]
  <2>1. i \in 0..m
    BY <1>3
  <2>2. g[i] = IF i = 0 THEN symbols ELSE asm_symbol(g[i - 1], relocs[i].symbol)
    BY <1>4, Zenon DEF AreMade
  <2> QED BY <2>1, <2>2, Zenon
<1>7. \A i \in 0..m : i # 0 => i - 1 \in 0..(m - 1)
  BY <1>3
<1>8. \A i \in 0..m : i # 0 => f[i - 1] = g[i - 1]
  BY <1>6, <1>7, Zenon
<1>9. f = [i \in 0..m |-> IF i = 0 THEN symbols ELSE asm_symbol(f[i - 1], relocs[i].symbol)]
  BY <1>8, Zenon
<1> QED BY <1>5, <1>9, Zenon DEF AreMade

\* Making the symbols of relocations keeps those there are.
LEMMA SymbolsMade ==
  ASSUME NEW symbols, SymbolsOK(symbols), NEW relocs, NEW n \in Nat, n = Len(relocs)
  PROVE  Kept(symbols, asm_symbols(symbols, relocs))
<1> DEFINE f == CHOOSE g : AreMade(g, n, symbols, relocs)
<1>1. asm_symbols(symbols, relocs) = f[n]
  BY DEF asm_symbols, AreMade
<1>2. AreMade(f, n, symbols, relocs)
  BY MadeExist, Zenon
<1> HIDE DEF f
<1>3. \A i \in 0..n : f[i] = IF i = 0 THEN symbols ELSE asm_symbol(f[i - 1], relocs[i].symbol)
  BY <1>2, Zenon DEF AreMade
<1> DEFINE T == {m \in 0..n : ~Kept(symbols, f[m])}
<1>4. ASSUME NEW m \in T, \A k \in T : m <= k PROVE FALSE
  <2>1. m \in 0..n /\ ~Kept(symbols, f[m])
    BY Zenon
  <2>2. \A k \in 0..n : k \notin T => Kept(symbols, f[k])
    BY Zenon
  <2> HIDE DEF T
  <2>3. \A k \in 0..n : k < m => k \notin T
    BY <1>4, <2>1
  <2>4. m # 0
    BY <1>3, <2>1, KeptSame
  <2>5. PICK k \in 0..n : k = m - 1 /\ k < m
    BY <2>1, <2>4
  <2>6. Kept(symbols, f[k])
    BY <2>2, <2>3, <2>5, Zenon
  <2>7. f[m] = asm_symbol(f[k], relocs[m].symbol)
    BY <1>3, <2>1, <2>4, <2>5
  <2>8. Kept(f[k], f[m])
    BY <2>6, <2>7, SymbolMade DEF Kept
  <2> QED BY <2>1, <2>6, <2>8, KeptTwice
<1>5. T = {}
  <2>1. T \in SUBSET Nat
    OBVIOUS
  <2> HIDE DEF T
  <2> QED BY <1>4, <2>1, LeastNat
<1>6. Kept(symbols, f[n])
  BY <1>5
<1> QED BY <1>1, <1>6

\* How long the pieces of a sequence are together
LEMMA FlatLength ==
  ASSUME NEW S, NEW n \in Nat, NEW pieces, pieces = [i \in 1..n |-> pieces[i]], \A i \in 1..n : pieces[i] \in Seq(S)
  PROVE  FlattenSeq(pieces) \in Seq(S) /\ Len(FlattenSeq(pieces)) \in Nat
<1> DEFINE list == [i \in 1..n |-> [size |-> Len(pieces[i])]]
           at == itemOffsets(list)
<1>1. Len(list) = n
  <2>1. list = [i \in 1..n |-> list[i]]
    OBVIOUS
  <2> HIDE DEF list
  <2> QED BY <2>1, Sequence
<1>2. \A i \in 1..n : list[i].size = Len(pieces[i])
  OBVIOUS
<1> HIDE DEF list
<1>3. at[1] = 0 /\ \A i \in 1..n : at[i + 1] = at[i] + Len(pieces[i])
  BY <1>1, <1>2, OffsetSteps
<1> HIDE DEF at
<1>4. Placed(FlattenSeq(pieces), n, pieces, at, S)
  BY <1>3, Flattened
<1> QED BY <1>4 DEF Placed

\* The line adds the symbols that its relocations name.
LEMMA DataSymbols ==
  ASSUME NEW symbols, SymbolsOK(symbols), NEW values, values = text.values, values \in Seq(Range(values))
  PROVE  Kept(symbols, asm_symbols(symbols, dataRelocs))
<1> DEFINE reloc(i) == valueReloc(text.values[i].name, Len(obj.sections[section]) + text.size * (i - 1))
           n == Len(values)
           pieces == [i \in DOMAIN text.values |-> IF text.values[i].is = "number" THEN <<>> ELSE <<reloc(i)>>]
           S == {reloc(i) : i \in 1..n}
<1>1. n \in Nat /\ DOMAIN values = 1..n
  OBVIOUS
<1>2. \A i \in 1..n : reloc(i) \in S
  OBVIOUS
<1> HIDE DEF n
<1>3. dataRelocs = FlattenSeq(pieces)
  BY Zenon DEF dataRelocs
<1>4. pieces = [i \in 1..n |-> IF text.values[i].is = "number" THEN <<>> ELSE <<reloc(i)>>]
  BY <1>1
<1> HIDE DEF pieces, reloc, S
<1>5. \A i \in 1..n : pieces[i] = IF text.values[i].is = "number" THEN <<>> ELSE <<reloc(i)>>
  BY <1>4, Zenon
<1>6. \A i \in 1..n : pieces[i] \in Seq(S)
  <2>1. <<>> \in Seq(S) /\ \A x \in S : <<x>> \in Seq(S)
    OBVIOUS
  <2> QED BY <1>2, <1>5, <2>1, Zenon
<1>7. pieces = [i \in 1..n |-> pieces[i]]
  BY <1>4
<1>8. Len(dataRelocs) \in Nat
  BY <1>1, <1>3, <1>6, <1>7, FlatLength
<1> QED BY <1>8, SymbolsMade

-----------------------------------------------------------------------------
(* What has been read                                                      *)

CutName(k) == Cut(FullName(source[k].name, k))
LabelsTo(n) == {j \in 1..n : source[j].is = "label"}
TextLabels(n) == {j \in LabelsTo(n) : SectionAt(j) = "text"}

\* The line of a jump, and of another instruction, has that item
JumpRead(k, item) ==
    /\ item.is_jump /\ item.target = Cut(FullName(nameOf(source[k].ops[1]), k))
    /\ item.condition = (IF source[k].m = "jmp" THEN -1 ELSE ConditionOf(source[k].cc))
    /\ source[k].m # "jmp" => item.condition >= 0
LineRead(k) ==
    /\ source[k].is = "align" => SectionAt(k) # "text"
    /\ source[k].is = "instruction" => /\ SectionAt(k) = "text"
                                       /\ IsJump(k) => JumpRead(k, items[ItemOf(k)])
ItemRight(item) == IF item.is_jump THEN item.condition \in -1..15
                   ELSE item.bytes \in Seq(0..255) /\ item.size = Len(item.bytes) /\ item.size <= LongestInstruction

\* Each label of the code is before the next item, and no two labels have the same name
LabelsRead(n) ==
    /\ DOMAIN label_item = {CutName(k) : k \in TextLabels(n)}
    /\ \A k \in TextLabels(n) : label_item[CutName(k)] = ItemOf(k) + 1
    /\ \A j, k \in LabelsTo(n) : CutName(j) = CutName(k) => j = k
LinesRead(n) ==
    /\ Len(items) = ItemOf(n)
    /\ \A k \in 1..n : LineRead(k)
    /\ \A i \in 1..Len(items) : ItemRight(items[i])
    /\ LabelsRead(n)

\* The labels of data are the symbols that are defined before the code is
DataDefined(n) == \A k \in LabelsTo(n) : SectionAt(k) # "text" => IsDefined(obj.symbols, CutName(k))
ObjOK ==
    /\ {"sections", "symbols", "relocs"} \subseteq DOMAIN obj
    /\ {"text", "data", "rdata"} \subseteq DOMAIN obj.sections
    /\ obj.sections.text = <<>>
    /\ SymbolsOK(obj.symbols)
Reading(n) ==
    /\ section = SectionAt(n + 1) /\ scope = Cut(ScopeAt(n + 1)) /\ ScopeAt(n + 1) \in Seq(Range(ScopeAt(n + 1)))
    /\ LinesRead(n) /\ DataDefined(n)

\* While the text stays, so does what is read off it.
LEMMA SameText ==
  ASSUME source' = source
  PROVE  /\ \A k : SectionAt(k)' = SectionAt(k) /\ ScopeAt(k)' = ScopeAt(k) /\ ItemOf(k)' = ItemOf(k)
         /\ \A k : CutName(k)' = CutName(k) /\ LabelsTo(k)' = LabelsTo(k) /\ TextLabels(k)' = TextLabels(k) /\ (IsJump(k)' <=> IsJump(k))
         /\ \A name, k : FullName(name, k)' = FullName(name, k)
         /\ \A k : (Unknown(k)' <=> Unknown(k)) /\ NamesIn(k)' = NamesIn(k)
<1>1. \A k : SectionAt(k)' = SectionAt(k)
  BY Zenon DEF SectionAt, SectionBefore
<1>2. \A k : ScopeAt(k)' = ScopeAt(k)
  BY Zenon DEF ScopeAt, LabelsBefore
<1>3. \A k : ItemOf(k)' = ItemOf(k)
  BY Zenon DEF ItemOf
<1>4. \A name, k : FullName(name, k)' = FullName(name, k)
  BY <1>2, Zenon DEF FullName
<1>5. \A k : CutName(k)' = CutName(k)
  BY <1>2, Zenon DEF CutName, Cut, FullName
<1>6. \A k : LabelsTo(k)' = LabelsTo(k)
  BY Zenon DEF LabelsTo
<1>7. \A k : TextLabels(k)' = TextLabels(k)
  BY <1>1, <1>6, Zenon DEF TextLabels
<1>8. \A k : IsJump(k)' <=> IsJump(k)
  BY Zenon DEF IsJump
<1>9. \A k : Unknown(k)' <=> Unknown(k)
  BY <1>2, Zenon DEF Unknown, Cut
<1>10. \A k : NamesIn(k)' = NamesIn(k)
  BY <1>4, Zenon DEF NamesIn, SymbolOperands
<1> QED BY <1>1, <1>2, <1>3, <1>4, <1>5, <1>6, <1>7, <1>8, <1>9, <1>10, Zenon

\* The name of a label or of an operand is the one it has in the text, cut.
LEMMA NameRead ==
  ASSUME NEW name, IsName(name), NEW k, ScopeAt(k) \in Seq(Range(ScopeAt(k))), scope = Cut(ScopeAt(k))
  PROVE  asm_symbol_name(name, scope) = Cut(FullName(name, k))
<1>1. PICK p, s, S : p = name.parts /\ s = ScopeAt(k) /\ S = Range(p) \cup Range(s)
  OBVIOUS
<1>2. s \in Seq(S) /\ p \in Seq(S)
  BY <1>1, SeqMonotonic DEF IsName
<1>3. Cut(Cut(s) \o p) = Cut(s \o p)
  BY <1>2, CutTwice
<1>4. asm_symbol_name(name, scope) = Cut(IF name.dot THEN scope \o name.parts ELSE name.parts)
  BY Zenon DEF asm_symbol_name, Cut
<1>5. FullName(name, k) = IF name.dot THEN ScopeAt(k) \o name.parts ELSE name.parts
  BY DEF FullName
<1> QED BY <1>1, <1>3, <1>4, <1>5, Zenon

\* The name that an operand is or has is one, also that of a word.
LEMMA OperandName ==
  ASSUME NEW op, IsOperand(op), op.is \in {"word", "name", "rel"}
  PROVE  IsName(nameOf(op))
<1>1. CASE op.is = "word"
  <2>1. PICK word : word = op.word
    OBVIOUS
  <2>2. <<word>> \in Seq(Range(<<word>>))
    BY DEF Range
  <2>3. nameOf(op).parts = <<word>>
    BY <1>1, <2>1 DEF nameOf
  <2> QED BY <2>2, <2>3 DEF IsName
<1>2. CASE op.is \in {"name", "rel"}
  BY <1>2 DEF IsOperand, nameOf
<1> QED BY <1>1, <1>2

\* An operand that can be jumped to is a name, or a word that is no register.
LEMMA LabelOperand ==
  ASSUME NEW op, op.is \in {"word", "number", "name", "memory", "rel"}, asm_parse_operand(op, scope).kind = "label"
  PROVE  /\ op.is = "name" \/ (op.is = "word" /\ ~asm_parse_register(op.word).ok)
         /\ asm_parse_operand(op, scope).symbol = asm_symbol_name(nameOf(op), scope)
<1>1. Operand.kind = "none" /\ DOMAIN Operand = {"ok", "kind", "reg", "width", "high8", "base", "index", "disp", "symbol", "imm"}
  BY DEF Operand
<1>2. BadOperand.kind = "none" /\ DOMAIN BadOperand = DOMAIN Operand
  BY <1>1 DEF BadOperand
<1>3. \A names, name, width : registerOf(names, name, width).kind = "reg" /\ DOMAIN registerOf(names, name, width) = DOMAIN Operand
  BY <1>1 DEF registerOf
<1>4. \A name : asm_parse_register(name).kind # "label"
  BY <1>1, <1>2, <1>3 DEF asm_parse_register
<1>5. asm_parse_memory(op).kind # "label" /\ DOMAIN asm_parse_memory(op) = DOMAIN Operand
  BY <1>1, <1>2 DEF asm_parse_memory
<1>6. CASE op.is = "memory"
  <2>1. asm_parse_operand(op, scope) = [asm_parse_memory(op) EXCEPT !.width = widthOf(op.size)]
    BY <1>6 DEF asm_parse_operand
  <2>2. asm_parse_operand(op, scope).kind = asm_parse_memory(op).kind
    BY <1>1, <1>5, <2>1
  <2> QED BY <1>5, <2>2
<1>7. CASE op.is = "rel"
  BY <1>1, <1>7 DEF asm_parse_operand
<1>8. CASE op.is = "word" /\ asm_parse_register(op.word).ok
  BY <1>4, <1>8 DEF asm_parse_operand
<1>9. CASE op.is = "number"
  BY <1>1, <1>9 DEF asm_parse_operand
<1>10. CASE op.is = "name" \/ (op.is = "word" /\ ~asm_parse_register(op.word).ok)
  <2>1. asm_parse_operand(op, scope) = [Operand EXCEPT !.kind = "label", !.symbol = asm_symbol_name(nameOf(op), scope)]
    BY <1>10 DEF asm_parse_operand
  <2> QED BY <1>1, <1>10, <2>1
<1> QED BY <1>6, <1>7, <1>8, <1>9, <1>10

\* The labels of one line more
LEMMA LabelsNext ==
  ASSUME NEW n \in Nat
  PROVE  /\ LabelsTo(n + 1) = IF source[n + 1].is = "label" THEN LabelsTo(n) \cup {n + 1} ELSE LabelsTo(n)
         /\ TextLabels(n + 1) = IF source[n + 1].is = "label" /\ SectionAt(n + 1) = "text" THEN TextLabels(n) \cup {n + 1} ELSE TextLabels(n)
<1>1. \A j : j \in 1..(n + 1) <=> j \in 1..n \/ j = n + 1
  OBVIOUS
<1>2. LabelsTo(n + 1) = IF source[n + 1].is = "label" THEN LabelsTo(n) \cup {n + 1} ELSE LabelsTo(n)
  BY <1>1 DEF LabelsTo
<1>3. TextLabels(n + 1) = IF source[n + 1].is = "label" /\ SectionAt(n + 1) = "text" THEN TextLabels(n) \cup {n + 1} ELSE TextLabels(n)
  BY <1>2 DEF TextLabels
<1> QED BY <1>2, <1>3

\* The item of an instruction is one of those of the lines that are read.
LEMMA ItemNumber ==
  ASSUME NEW n \in Nat, NEW k \in 1..n, source[k].is = "instruction"
  PROVE  ItemOf(k) \in 1..ItemOf(n) /\ ItemOf(n) \in Nat
<1>1. PICK j \in Nat : j + 1 = k
  <2>1. k - 1 \in Nat /\ (k - 1) + 1 = k
    OBVIOUS
  <2> QED BY <2>1
<1>2. ItemOf(j) \in Nat /\ ItemOf(k) = ItemOf(j) + 1
  BY <1>1, ItemNext
<1>3. k \in 0..n
  OBVIOUS
<1>4. ItemOf(k) \in Nat /\ ItemOf(n) \in Nat /\ ItemOf(k) <= ItemOf(n)
  BY <1>3, ItemsInOrder
<1> QED BY <1>2, <1>4

\* The items, and the labels, of the lines that are read stay those lines' when others follow.
LEMMA LinesStay ==
  ASSUME NEW n \in Nat, \A k \in 1..n : LineRead(k), Len(items) = ItemOf(n), source' = source,
         \A i \in 1..Len(items) : items'[i] = items[i]
  PROVE  \A k \in 1..n : LineRead(k)'
<1> SUFFICES ASSUME NEW k \in 1..n PROVE LineRead(k)'
  OBVIOUS
<1>1. LineRead(k)
  OBVIOUS
<1>2. SectionAt(k)' = SectionAt(k) /\ ItemOf(k)' = ItemOf(k) /\ (IsJump(k)' <=> IsJump(k)) /\ \A name : FullName(name, k)' = FullName(name, k)
  BY SameText
<1>3. source[k].is = "instruction" => items'[ItemOf(k)] = items[ItemOf(k)]
  BY ItemNumber
<1>4. \A item : JumpRead(k, item)' <=> JumpRead(k, item)
  BY <1>2 DEF JumpRead, Cut
<1> QED BY <1>1, <1>2, <1>3 DEF LineRead, JumpRead, Cut

\* A line that is neither a label nor an instruction leaves the items and the labels of the code.
LEMMA PlainNext ==
  ASSUME NEW n \in Nat, LinesRead(n), source' = source, items' = items, label_item' = label_item,
         source[n + 1].is \notin {"label", "instruction"}, source[n + 1].is = "align" => SectionAt(n + 1) # "text"
  PROVE  LinesRead(n + 1)'
<1>1. ItemOf(n + 1) = ItemOf(n) /\ LabelsTo(n + 1) = LabelsTo(n) /\ TextLabels(n + 1) = TextLabels(n)
  BY ItemNext, LabelsNext
<1>2. \A k \in 1..(n + 1) : k \in 1..n \/ k = n + 1
  OBVIOUS
<1>3. \A k \in 1..n : LineRead(k)'
  BY LinesStay DEF LinesRead
<1>4. LineRead(n + 1)'
  BY SameText DEF LineRead
<1>6. Len(items') = ItemOf(n + 1)' /\ \A i \in 1..Len(items') : ItemRight(items[i])'
  BY <1>1, SameText DEF LinesRead, ItemRight
<1>7. LabelsRead(n + 1)'
  BY <1>1, SameText DEF LinesRead, LabelsRead
<1> QED BY <1>2, <1>3, <1>4, <1>6, <1>7 DEF LinesRead

\* A label with a name that no other one has
LEMMA LabelNext ==
  ASSUME NEW n \in Nat, LinesRead(n), source' = source, items' = items, source[n + 1].is = "label",
         \A k \in LabelsTo(n) : CutName(k) # CutName(n + 1),
         label_item' = IF SectionAt(n + 1) = "text"
                       THEN [name \in DOMAIN label_item \cup {CutName(n + 1)} |-> IF name = CutName(n + 1) THEN Len(items) + 1 ELSE label_item[name]]
                       ELSE label_item
  PROVE  LinesRead(n + 1)'
<1>1. /\ ItemOf(n + 1) = ItemOf(n) /\ LabelsTo(n + 1) = LabelsTo(n) \cup {n + 1}
      /\ TextLabels(n + 1) = IF SectionAt(n + 1) = "text" THEN TextLabels(n) \cup {n + 1} ELSE TextLabels(n)
  BY ItemNext, LabelsNext
<1>2. \A k \in 1..(n + 1) : k \in 1..n \/ k = n + 1
  OBVIOUS
<1>3. \A k \in 1..n : LineRead(k)'
  BY LinesStay DEF LinesRead
<1>4. LineRead(n + 1)'
  BY SameText DEF LineRead
<1>6. Len(items') = ItemOf(n + 1)' /\ \A i \in 1..Len(items') : ItemRight(items[i])'
  BY <1>1, SameText DEF LinesRead, ItemRight
<1>7. LabelsRead(n + 1)'
  <2>1. Len(items) = ItemOf(n + 1)
    BY <1>1 DEF LinesRead
  <2>2. \A k \in TextLabels(n) : k \in LabelsTo(n)
    BY DEF TextLabels
  <2>3. DOMAIN label_item' = {CutName(k) : k \in TextLabels(n + 1)}
    BY <1>1 DEF LinesRead, LabelsRead
  <2>4. \A k \in TextLabels(n + 1) : label_item'[CutName(k)] = ItemOf(k) + 1
    BY <1>1, <2>1, <2>2 DEF LinesRead, LabelsRead
  <2>5. \A j, k \in LabelsTo(n + 1) : CutName(j) = CutName(k) => j = k
    BY <1>1 DEF LinesRead, LabelsRead
  <2>6. /\ TextLabels(n + 1)' = TextLabels(n + 1) /\ LabelsTo(n + 1)' = LabelsTo(n + 1)
        /\ \A k : CutName(k)' = CutName(k) /\ ItemOf(k)' = ItemOf(k)
    BY SameText
  <2> QED BY ONLY <2>3, <2>4, <2>5, <2>6, Zenon DEF LabelsRead
<1> QED BY <1>2, <1>3, <1>4, <1>6, <1>7 DEF LinesRead

\* An instruction with the item of it
LEMMA InstructionNext ==
  ASSUME NEW n \in Nat, LinesRead(n), source' = source, label_item' = label_item, source[n + 1].is = "instruction", SectionAt(n + 1) = "text",
         NEW item, Len(items') = Len(items) + 1, items'[Len(items) + 1] = item, \A i \in 1..Len(items) : items'[i] = items[i],
         ItemRight(item), IsJump(n + 1) => JumpRead(n + 1, item)
  PROVE  LinesRead(n + 1)'
<1>1. ItemOf(n) \in Nat /\ ItemOf(n + 1) = ItemOf(n) + 1 /\ LabelsTo(n + 1) = LabelsTo(n) /\ TextLabels(n + 1) = TextLabels(n)
  BY ItemNext, LabelsNext
<1>2. \A k \in 1..(n + 1) : k \in 1..n \/ k = n + 1
  OBVIOUS
<1>3. \A k \in 1..n : LineRead(k)'
  BY LinesStay DEF LinesRead
<1>4. Len(items) = ItemOf(n) /\ items'[ItemOf(n + 1)] = item
  BY <1>1 DEF LinesRead
<1>5. LineRead(n + 1)'
  BY <1>4, SameText DEF LineRead, JumpRead, Cut
<1>6. Len(items') = ItemOf(n + 1)' /\ \A i \in 1..Len(items') : ItemRight(items[i])'
  <2>1. \A i \in 1..(ItemOf(n) + 1) : i \in 1..ItemOf(n) \/ i = ItemOf(n) + 1
    BY <1>1
  <2>2. \A i \in 1..(ItemOf(n) + 1) : ItemRight(items'[i])
    BY <1>4, <2>1 DEF LinesRead
  <2> QED BY <1>1, <1>4, <2>2, SameText DEF ItemRight
<1>7. LabelsRead(n + 1)'
  BY <1>1, SameText DEF LinesRead, LabelsRead
<1> QED BY <1>2, <1>3, <1>5, <1>6, <1>7 DEF LinesRead

\* The labels of data stay defined, and one more is when its line has been read.
LEMMA DataNext ==
  ASSUME NEW n \in Nat, DataDefined(n), SymbolsOK(obj.symbols), Kept(obj.symbols, obj'.symbols), source' = source,
         source[n + 1].is = "label" /\ SectionAt(n + 1) # "text" => IsDefined(obj'.symbols, CutName(n + 1))
  PROVE  DataDefined(n + 1)'
<1>1. LabelsTo(n + 1) = IF source[n + 1].is = "label" THEN LabelsTo(n) \cup {n + 1} ELSE LabelsTo(n)
  BY LabelsNext
<1>2. PICK new : new = obj'.symbols
  OBVIOUS
<1>3. \A name : IsDefined(obj.symbols, name) => IsDefined(new, name)
  BY <1>2, KeptDefined
<1>4. \A k \in LabelsTo(n + 1) : SectionAt(k) # "text" => IsDefined(new, CutName(k))
  BY <1>1, <1>2, <1>3 DEF DataDefined
<1>5. \A k : CutName(k)' = CutName(k) /\ LabelsTo(k)' = LabelsTo(k) /\ SectionAt(k)' = SectionAt(k)
  BY SameText
<1> QED BY <1>2, <1>4, <1>5 DEF DataDefined, IsDefined, IsFirst

\* The section and the last label, of the line after one
LEMMA PlaceNext ==
  ASSUME NEW n \in Nat, Reading(n), source' = source, IsLine(source[n + 1]),
         section' = (IF source[n + 1].is = "section" THEN sectionOf(source[n + 1].section) ELSE section),
         scope' = (IF source[n + 1].is = "label" /\ ~source[n + 1].name.dot THEN CutName(n + 1) ELSE scope),
         LinesRead(n + 1)', DataDefined(n + 1)'
  PROVE  Reading(n + 1)'
<1>1. n + 1 \in Nat \ {0}
  OBVIOUS
<1>2. SectionAt((n + 1) + 1) = IF source[n + 1].is = "section" THEN sectionOf(source[n + 1].section) ELSE SectionAt(n + 1)
  BY <1>1, SectionNext
<1>3. ScopeAt((n + 1) + 1) = IF source[n + 1].is = "label" /\ ~source[n + 1].name.dot THEN source[n + 1].name.parts ELSE ScopeAt(n + 1)
  BY <1>1, ScopeNext
<1>4. section' = SectionAt((n + 1) + 1)
  BY <1>2 DEF Reading
<1>5. scope' = Cut(ScopeAt((n + 1) + 1))
  BY <1>3 DEF Reading, CutName, FullName
<1>6. ScopeAt((n + 1) + 1) \in Seq(Range(ScopeAt((n + 1) + 1)))
  <2>1. CASE source[n + 1].is = "label" /\ ~source[n + 1].name.dot
    BY <1>3, <2>1 DEF IsLine, IsName
  <2>2. CASE ~(source[n + 1].is = "label" /\ ~source[n + 1].name.dot)
    BY <1>3, <2>2 DEF Reading
  <2> QED BY <2>1, <2>2
<1>7. SectionAt((n + 1) + 1)' = SectionAt((n + 1) + 1) /\ ScopeAt((n + 1) + 1)' = ScopeAt((n + 1) + 1)
  BY SameText
<1> QED BY <1>4, <1>5, <1>6, <1>7 DEF Reading, Cut

\* There are three sections.
LEMMA Sections == ASSUME NEW n \in Nat PROVE SectionAt(n) \in {"text", "data", "rdata"}
BY DEF SectionAt, SectionBefore, sectionOf

\* What every line has in common
AtLine(n) ==
    /\ n \in Nat /\ n < Len(source) /\ line = n + 1 /\ text = source[n + 1] /\ pc = "lines"
    /\ source \in Sources /\ IsText(source) /\ IsLine(text) /\ n + 1 \in DOMAIN source
    /\ text.is = "instruction" => IsEncoding(Encode(text.m, text.cc, operandsOf(text, scope)), text, operandsOf(text, scope))
    /\ Reading(n) /\ ObjOK
ReadAfter(n) == pc' = "lines" => Reading(n + 1)' /\ ObjOK'

\* section_line reads its line.
LEMMA SectionLineRead ==
  ASSUME NEW n, AtLine(n), section_line
  PROVE  ReadAfter(n)
<1> SUFFICES ASSUME pc' = "lines" PROVE Reading(n + 1)' /\ ObjOK'
  BY DEF ReadAfter
<1>1. n \in Nat /\ text = source[n + 1] /\ Reading(n) /\ ObjOK /\ IsLine(source[n + 1])
  BY DEF AtLine
<1>2. /\ source' = source /\ source[n + 1].is = "section" /\ obj' = obj /\ scope' = scope /\ items' = items /\ label_item' = label_item
  BY <1>1 DEF section_line, reading
<1>3. section' = sectionOf(source[n + 1].section)
  BY <1>1 DEF section_line, asm_fail
<1>4. ObjOK'
  BY <1>1, <1>2 DEF ObjOK
<1>5. LinesRead(n + 1)'
  BY <1>1, <1>2, PlainNext DEF Reading
<1>6. DataDefined(n + 1)'
  BY <1>1, <1>2, DataNext, KeptSame DEF Reading, ObjOK
<1>7. Reading(n + 1)'
  BY <1>1, <1>2, <1>3, <1>5, <1>6, PlaceNext
<1> QED BY <1>4, <1>7

\* The lines that add only symbols and data
LEMMA DataLineRead ==
  ASSUME NEW n \in Nat, Reading(n), ObjOK, IsLine(source[n + 1]), source' = source,
         section' = section, scope' = scope, items' = items, label_item' = label_item,
         source[n + 1].is \notin {"label", "instruction", "section"}, source[n + 1].is = "align" => SectionAt(n + 1) # "text",
         Kept(obj.symbols, obj'.symbols)
  PROVE  Reading(n + 1)'
<1>1. LinesRead(n + 1)'
  BY PlainNext DEF Reading
<1>2. DataDefined(n + 1)'
  BY DataNext DEF Reading, ObjOK
<1> QED BY <1>1, <1>2, PlaceNext

\* declare_line reads its line: it makes a symbol, or marks the one there is.
LEMMA DeclareRead ==
  ASSUME NEW n, AtLine(n), declare_line
  PROVE  ReadAfter(n)
<1>1. n \in Nat /\ text = source[n + 1] /\ Reading(n) /\ ObjOK /\ IsLine(source[n + 1])
  BY DEF AtLine
<1>2. /\ source' = source /\ source[n + 1].is \in {"extern", "global"}
      /\ section' = section /\ scope' = scope /\ items' = items /\ label_item' = label_item
  BY <1>1 DEF declare_line, reading
<1>3. PICK symbols, i, new : /\ symbols = asm_symbol(obj.symbols, asm_symbol_name(text.name, <<>>))
                             /\ i = symbolIndex(symbols, asm_symbol_name(text.name, <<>>))
                             /\ new = IF text.is = "extern" THEN [symbols EXCEPT ![i].is_extern = TRUE] ELSE [symbols EXCEPT ![i].is_global = TRUE]
                             /\ obj' = [obj EXCEPT !.symbols = new]
  BY DEF declare_line
<1>4. Kept(obj.symbols, symbols) /\ SymbolsOK(symbols) /\ i \in 1..Len(symbols)
  BY <1>1, <1>3, SymbolMade DEF ObjOK, Kept, IsFirst
<1>5. Kept(symbols, new)
  <2> DEFINE s == symbols[i]
             marked == IF text.is = "extern" THEN [s EXCEPT !.is_extern = TRUE] ELSE [s EXCEPT !.is_global = TRUE]
  <2>1. new = [symbols EXCEPT ![i] = marked]
    BY <1>3
  <2>2. {"name", "section", "offset", "is_global", "is_extern"} \subseteq DOMAIN s
    BY <1>4 DEF SymbolsOK
  <2>3. DOMAIN marked = DOMAIN s /\ marked.name = s.name /\ marked.section = s.section
    BY <2>2
  <2> HIDE DEF marked
  <2> QED BY <1>4, <2>1, <2>3, KeptChanged
<1>6. Kept(obj.symbols, new)
  BY <1>1, <1>4, <1>5, KeptTwice DEF ObjOK
<1>7. /\ obj'.symbols = new /\ obj'.sections = obj.sections /\ DOMAIN obj' = DOMAIN obj
  BY <1>1, <1>3 DEF ObjOK
<1>8. ObjOK'
  BY <1>1, <1>6, <1>7 DEF ObjOK, Kept, SymbolsOK
<1>9. Reading(n + 1)'
  BY <1>1, <1>2, <1>6, <1>7, DataLineRead
<1> QED BY <1>8, <1>9 DEF ReadAfter

-----------------------------------------------------------------------------
(* The lines                                                               *)

\* What changes an object by a line of data
LEMMA ObjData ==
  ASSUME ObjOK, NEW where \in {"data", "rdata"}, NEW bytes, NEW symbols, SymbolsOK(symbols),
         obj'.sections = [obj.sections EXCEPT ![where] = bytes], obj'.symbols = symbols, DOMAIN obj' = DOMAIN obj
  PROVE  ObjOK'
<1>1. obj'.sections.text = <<>> /\ DOMAIN obj'.sections = DOMAIN obj.sections
  BY DEF ObjOK
<1> QED BY <1>1 DEF ObjOK, SymbolsOK

\* Lines with data are in a section of data.
LEMMA DataSection ==
  ASSUME NEW n, AtLine(n), source[n + 1].is \in {"data", "times"} \/ SectionAt(n + 1) # "text"
  PROVE  section \in {"data", "rdata"}
<1>1. n + 1 \in Nat /\ section = SectionAt(n + 1) /\ n + 1 \in DOMAIN source /\ IsText(source)
  BY DEF AtLine, Reading
<1>2. SectionAt(n + 1) # "text"
  BY <1>1 DEF IsText, SectionAt
<1> QED BY <1>1, <1>2, Sections

\* asm_data_line reads its line.
LEMMA DataRead ==
  ASSUME NEW n, AtLine(n), asm_data_line
  PROVE  ReadAfter(n)
<1> SUFFICES ASSUME pc' = "lines" PROVE Reading(n + 1)' /\ ObjOK'
  BY DEF ReadAfter
<1>1. n \in Nat /\ text = source[n + 1] /\ Reading(n) /\ ObjOK /\ IsLine(source[n + 1]) /\ SymbolsOK(obj.symbols)
  BY DEF AtLine, ObjOK
<1>2. /\ source' = source /\ text.is = "data" /\ source[n + 1].is = "data"
      /\ section' = section /\ scope' = scope /\ items' = items /\ label_item' = label_item
  BY <1>1 DEF asm_data_line, reading
<1>3. PICK bytes, symbols, relocs : /\ bytes = obj.sections[section] \o dataBytes /\ symbols = asm_symbols(obj.symbols, dataRelocs)
                                    /\ relocs = obj.relocs \o dataRelocs
  OBVIOUS
<1>4. obj' = [obj EXCEPT !.sections[section] = bytes, !.symbols = symbols, !.relocs = relocs]
  BY <1>3, Zenon DEF asm_data_line, asm_fail
<1>5. Kept(obj.symbols, symbols)
  <2>1. PICK values : values = text.values /\ values \in Seq(Range(values))
    BY <1>1, <1>2 DEF IsLine
  <2> QED BY <1>1, <1>3, <2>1, DataSymbols
<1>6. section \in {"data", "rdata"}
  BY <1>2, DataSection
<1>7. obj'.symbols = symbols /\ obj'.sections = [obj.sections EXCEPT ![section] = bytes] /\ DOMAIN obj' = DOMAIN obj
  BY <1>1, <1>4 DEF ObjOK
<1>8. ObjOK'
  BY <1>1, <1>5, <1>6, <1>7, ObjData DEF Kept
<1>9. Reading(n + 1)'
  BY <1>1, <1>2, <1>5, <1>7, DataLineRead
<1> QED BY <1>8, <1>9

\* times_line reads its line.
LEMMA TimesRead ==
  ASSUME NEW n, AtLine(n), times_line
  PROVE  ReadAfter(n)
<1>1. n \in Nat /\ text = source[n + 1] /\ Reading(n) /\ ObjOK /\ IsLine(source[n + 1]) /\ SymbolsOK(obj.symbols)
  BY DEF AtLine, ObjOK
<1>2. /\ source' = source /\ source[n + 1].is = "times"
      /\ section' = section /\ scope' = scope /\ items' = items /\ label_item' = label_item
  BY <1>1 DEF times_line, reading
<1>3. PICK bytes : obj' = [obj EXCEPT !.sections[section] = bytes]
  BY DEF times_line
<1>4. section \in {"data", "rdata"}
  BY <1>2, DataSection
<1>5. obj'.symbols = obj.symbols /\ obj'.sections = [obj.sections EXCEPT ![section] = bytes] /\ DOMAIN obj' = DOMAIN obj
  BY <1>1, <1>3 DEF ObjOK
<1>6. ObjOK'
  BY <1>1, <1>4, <1>5, ObjData
<1>7. Reading(n + 1)'
  BY <1>1, <1>2, <1>5, DataLineRead, KeptSame
<1> QED BY <1>6, <1>7 DEF ReadAfter

\* align_line reads its line, or fails in the text section.
LEMMA AlignRead ==
  ASSUME NEW n, AtLine(n), align_line
  PROVE  ReadAfter(n)
<1> SUFFICES ASSUME pc' = "lines" PROVE Reading(n + 1)' /\ ObjOK'
  BY DEF ReadAfter
<1>1. n \in Nat /\ text = source[n + 1] /\ Reading(n) /\ ObjOK /\ IsLine(source[n + 1]) /\ SymbolsOK(obj.symbols)
  BY DEF AtLine, ObjOK
<1>2. /\ source' = source /\ source[n + 1].is = "align"
      /\ section' = section /\ scope' = scope /\ items' = items /\ label_item' = label_item
  BY <1>1 DEF align_line, reading
<1>3. PICK to, bytes : section # "text" /\ obj' = [[obj EXCEPT !.alignment[section] = to] EXCEPT !.sections[section] = bytes]
  BY DEF align_line, asm_fail
<1>4. SectionAt(n + 1) # "text" /\ section \in {"data", "rdata"}
  BY <1>1, <1>3, DataSection DEF Reading
<1>5. obj'.symbols = obj.symbols /\ obj'.sections = [obj.sections EXCEPT ![section] = bytes] /\ DOMAIN obj' = DOMAIN obj
  BY <1>1, <1>3 DEF ObjOK
<1>6. ObjOK'
  BY <1>1, <1>4, <1>5, ObjData
<1>7. Reading(n + 1)'
  BY <1>1, <1>2, <1>4, <1>5, DataLineRead, KeptSame
<1> QED BY <1>6, <1>7

\* label reads its line: it fails exactly when the name is taken, so that names stay different.
LEMMA LabelRead ==
  ASSUME NEW n, AtLine(n), label
  PROVE  ReadAfter(n)
<1> SUFFICES ASSUME pc' = "lines" PROVE Reading(n + 1)' /\ ObjOK'
  BY DEF ReadAfter
<1>1. n \in Nat /\ text = source[n + 1] /\ Reading(n) /\ ObjOK /\ IsLine(source[n + 1]) /\ SymbolsOK(obj.symbols)
  BY DEF AtLine, ObjOK
<1>2. source' = source /\ text.is = "label" /\ source[n + 1].is = "label" /\ section' = section /\ items' = items
  BY <1>1 DEF label, reading
<1>3. PICK name, symbols, i : /\ name = asm_symbol_name(text.name, scope) /\ symbols = asm_symbol(obj.symbols, name)
                              /\ i = symbolIndex(symbols, name)
  OBVIOUS
<1>4. name = CutName(n + 1)
  BY <1>1, <1>2, <1>3, NameRead DEF Reading, CutName, IsLine
<1>5. Kept(obj.symbols, symbols) /\ SymbolsOK(symbols) /\ IsFirst(symbols, name, i) /\ i \in 1..Len(symbols)
  BY <1>1, <1>3, SymbolMade DEF Kept, IsFirst
<1>6. /\ ~(symbols[i].section # "none" \/ name \in DOMAIN label_item)
      /\ scope' = IF text.name.dot THEN scope ELSE name
      /\ IF section = "text"
         THEN /\ label_item' = [x \in DOMAIN label_item \cup {name} |-> IF x = name THEN Len(items) + 1 ELSE label_item[x]]
              /\ obj' = [obj EXCEPT !.symbols = symbols]
         ELSE /\ obj' = [obj EXCEPT !.symbols = [symbols EXCEPT ![i].section = section, ![i].offset = Len(obj.sections[section])]]
              /\ label_item' = label_item
  BY <1>3 DEF label, asm_fail
<1>7. section = SectionAt(n + 1) /\ section # "none"
  BY <1>1, Sections DEF Reading
\* The name is of no label before
<1>8. ASSUME NEW k \in LabelsTo(n), CutName(k) = name PROVE FALSE
  <2>1. CASE SectionAt(k) = "text"
    <3>1. k \in TextLabels(n)
      BY <2>1 DEF TextLabels
    <3> QED BY <1>1, <1>6, <1>8, <3>1 DEF Reading, LinesRead, LabelsRead
  <2>2. CASE SectionAt(k) # "text"
    <3>1. IsDefined(obj.symbols, name)
      BY <1>1, <1>8, <2>2 DEF Reading, DataDefined
    <3>2. IsDefined(symbols, name)
      BY <1>1, <1>5, <3>1, KeptDefined
    <3>3. PICK j \in 1..Len(symbols) : IsFirst(symbols, name, j) /\ symbols[j].section # "none"
      BY <3>2 DEF IsDefined
    <3>4. j = i
      BY <1>3, <1>5, <3>3, SymbolFound
    <3> QED BY <1>6, <3>3, <3>4
  <2> QED BY <2>1, <2>2
<1>9. PICK new : obj' = [obj EXCEPT !.symbols = new] /\ Kept(symbols, new) /\ (section # "text" => IsDefined(new, name))
  <2>1. CASE section = "text"
    BY <1>5, <1>6, <2>1, KeptSame
  <2>2. CASE section # "text"
    <3> DEFINE s == symbols[i]
               new == [symbols EXCEPT ![i].section = section, ![i].offset = Len(obj.sections[section])]
               placedHere == [s EXCEPT !.section = section, !.offset = Len(obj.sections[section])]
    <3>1. symbols \in Seq(Range(symbols)) /\ DOMAIN symbols = 1..Len(symbols)
      BY <1>5 DEF SymbolsOK
    <3>2. new = [symbols EXCEPT ![i] = placedHere]
      BY <1>5, <3>1
    <3>3. {"name", "section", "offset", "is_global", "is_extern"} \subseteq DOMAIN s
      BY <1>5 DEF SymbolsOK
    <3>4. DOMAIN placedHere = DOMAIN s /\ placedHere.name = s.name /\ placedHere.section = section
      BY <3>3
    <3> HIDE DEF placedHere
    <3>5. Kept(symbols, new)
      BY <1>5, <1>7, <3>2, <3>4, KeptChanged
    <3>6. obj' = [obj EXCEPT !.symbols = new]
      BY <1>6, <2>2
    <3>7. new[i] = placedHere /\ DOMAIN new = DOMAIN symbols
      BY <1>5, <3>1, <3>2
    <3> HIDE DEF new
    <3>8. Len(new) = Len(symbols)
      BY <3>1, <3>5, <3>7 DEF Kept, SymbolsOK
    <3>9. IsFirst(new, name, i)
      BY <1>5, <3>5, <3>8 DEF IsFirst, Kept
    <3>10. IsDefined(new, name)
      BY <1>5, <1>7, <3>4, <3>7, <3>8, <3>9 DEF IsDefined
    <3> QED BY <3>5, <3>6, <3>10
  <2> QED BY <2>1, <2>2
<1>10. Kept(obj.symbols, new)
  BY <1>1, <1>5, <1>9, KeptTwice
<1>11. obj'.symbols = new /\ obj'.sections = obj.sections /\ DOMAIN obj' = DOMAIN obj
  BY <1>1, <1>9 DEF ObjOK
<1>12. ObjOK'
  BY <1>1, <1>10, <1>11 DEF ObjOK, Kept, SymbolsOK
<1>13. LinesRead(n + 1)'
  BY <1>1, <1>2, <1>4, <1>6, <1>7, <1>8, LabelNext DEF Reading
<1>14. DataDefined(n + 1)'
  BY <1>1, <1>2, <1>4, <1>7, <1>9, <1>10, <1>11, DataNext DEF Reading
<1>15. Reading(n + 1)'
  BY <1>1, <1>2, <1>4, <1>6, <1>13, <1>14, PlaceNext
<1> QED BY <1>12, <1>15

\* asm_instruction reads its line: its item is a jump to the name in it, or has the bytes of the table.
LEMMA InstructionRead ==
  ASSUME NEW n, AtLine(n), ItemsOK, asm_instruction
  PROVE  ReadAfter(n)
<1> SUFFICES ASSUME pc' = "lines" PROVE Reading(n + 1)' /\ ObjOK'
  BY DEF ReadAfter
<1>1. /\ n \in Nat /\ text = source[n + 1] /\ Reading(n) /\ ObjOK /\ IsLine(source[n + 1]) /\ SymbolsOK(obj.symbols)
      /\ section = SectionAt(n + 1)
  BY DEF AtLine, ObjOK, Reading
<1>2. source' = source /\ text.is = "instruction" /\ section' = section /\ scope' = scope /\ label_item' = label_item
  BY DEF asm_instruction, reading
<1>3. PICK ops, table, e, cc : /\ ops = operandsOf(text, scope) /\ table = Encode(text.m, text.cc, operandsOf(text, scope)) /\ e = enc_finish(table)
                               /\ cc = IF text.m = "j" THEN asm_condition(text.cc) ELSE -1
  OBVIOUS
<1> DEFINE isJump == (text.m = "jmp" \/ cc >= 0) /\ Len(ops) = 1 /\ Last(ops).kind = "label"
<1>4. /\ section = "text"
      /\ \/ isJump /\ items' = Append(items, Jump(cc, ops[1].symbol)) /\ obj' = [obj EXCEPT !.symbols = asm_symbol(@, ops[1].symbol)]
         \/ ~isJump /\ e.ok /\ items' = Append(items, Item(e)) /\ obj' = [obj EXCEPT !.symbols = asm_symbols(@, e.relocs)]
  BY <1>3 DEF asm_instruction, asm_fail
<1>5. IsEncoding(table, text, ops)
  BY <1>2, <1>3 DEF AtLine
<1>6. PICK bytes, relocs, ok : bytes = table.bytes /\ relocs = table.relocs /\ ok = table.ok
  OBVIOUS
<1>7. /\ bytes \in Seq(0..255) /\ Len(bytes) <= LongestInstruction /\ relocs \in Seq(Range(relocs))
      /\ (text.m \in {"jmp", "j"} => ~ok) /\ {"ok", "bytes", "relocs"} \subseteq DOMAIN table
  BY <1>5, <1>6 DEF IsEncoding
<1>8. e.bytes = bytes /\ e.ok = ok /\ Len(e.relocs) \in Nat
  <2>1. PICK more : e = [table EXCEPT !.relocs = more] /\ DOMAIN more = DOMAIN relocs /\ more = [i \in DOMAIN relocs |-> more[i]]
    <3> DEFINE moved(i) == IF relocs[i].offset = table.rip THEN [relocs[i] EXCEPT !.trailing = Len(bytes) - (table.rip + 4)] ELSE relocs[i]
               list == [i \in DOMAIN relocs |-> moved(i)]
    <3>1. e = [table EXCEPT !.relocs = list]
      BY <1>3, <1>6 DEF enc_finish
    <3> HIDE DEF moved
    <3>2. DOMAIN list = DOMAIN relocs /\ list = [i \in DOMAIN relocs |-> list[i]]
      OBVIOUS
    <3> QED BY <3>1, <3>2
  <2>2. PICK m \in Nat : DOMAIN relocs = 1..m
    BY <1>7
  <2>3. Len(more) = m
    BY <2>1, <2>2, Sequence
  <2>4. e.relocs = more /\ e.bytes = bytes /\ e.ok = ok
    BY <1>6, <1>7, <2>1
  <2> QED BY <2>2, <2>3, <2>4
\* The operand of a jump, and its label
<1>9. ASSUME isJump PROVE IsJump(n + 1) /\ ops[1].symbol = Cut(FullName(nameOf(source[n + 1].ops[1]), n + 1))
  <2>1. /\ text.ops \in Seq(Range(text.ops))
        /\ \A op \in Range(text.ops) : IsOperand(op) /\ op.is \in {"word", "number", "name", "memory", "rel"}
    BY <1>1, <1>2 DEF IsLine, IsOperand
  <2>2. PICK given : given = text.ops
    OBVIOUS
  <2>3. ops = [i \in DOMAIN given |-> asm_parse_operand(given[i], scope)]
    BY <1>3, <2>2 DEF operandsOf
  <2>4. PICK m \in Nat : DOMAIN given = 1..m
    BY <2>1, <2>2
  <2>5. Len(ops) = m
    <3>1. ops = [i \in 1..m |-> ops[i]]
      BY <2>3, <2>4
    <3> QED BY <3>1, Sequence
  <2>6. 1 \in DOMAIN given /\ ops[1] = asm_parse_operand(given[1], scope) /\ ops[1].kind = "label"
    BY <1>9, <2>3, <2>4, <2>5 DEF Last
  <2>7. given[1] \in Range(given)
    BY <2>6 DEF Range
  <2>8. ops[1].symbol = asm_symbol_name(nameOf(given[1]), scope) /\ IsName(nameOf(given[1]))
    BY <2>1, <2>2, <2>6, <2>7, LabelOperand, OperandName
  <2>9. ops[1].symbol = Cut(FullName(nameOf(given[1]), n + 1))
    BY <1>1, <2>8, NameRead DEF Reading
  <2>10. IsJump(n + 1)
    BY <1>1, <1>2, <1>3, <1>9 DEF IsJump
  <2> QED BY <1>1, <2>2, <2>9, <2>10
<1>10. ASSUME ~isJump, e.ok PROVE ~IsJump(n + 1)
  BY <1>1, <1>7, <1>8, <1>10 DEF IsJump
<1>11. PICK item, new : /\ items' = Append(items, item) /\ obj' = [obj EXCEPT !.symbols = new] /\ Kept(obj.symbols, new)
                        /\ ItemRight(item) /\ (IsJump(n + 1) => JumpRead(n + 1, item))
  <2>1. CASE isJump /\ items' = Append(items, Jump(cc, ops[1].symbol)) /\ obj' = [obj EXCEPT !.symbols = asm_symbol(@, ops[1].symbol)]
    <3>1. /\ cc = IF source[n + 1].m = "jmp" THEN -1 ELSE ConditionOf(source[n + 1].cc)
          /\ source[n + 1].m # "jmp" => cc >= 0
      BY <1>1, <1>3, <2>1, Conditions
    <3>2. cc \in -1..15
      BY <1>3, <2>1, Conditions
    <3> HIDE DEF isJump
    <3>3. ItemRight(Jump(cc, ops[1].symbol))
      BY <3>2 DEF ItemRight, Jump
    <3>4. JumpRead(n + 1, Jump(cc, ops[1].symbol))
      BY <1>9, <2>1, <3>1 DEF JumpRead, Jump
    <3>5. Kept(obj.symbols, asm_symbol(obj.symbols, ops[1].symbol))
      BY <1>1, SymbolMade
    <3>6. obj' = [obj EXCEPT !.symbols = asm_symbol(obj.symbols, ops[1].symbol)]
      BY <2>1
    <3> QED BY <2>1, <3>3, <3>4, <3>5, <3>6
  <2>2. CASE ~isJump /\ e.ok /\ items' = Append(items, Item(e)) /\ obj' = [obj EXCEPT !.symbols = asm_symbols(@, e.relocs)]
    <3> HIDE DEF isJump
    <3>1. ItemRight(Item(e))
      BY <1>7, <1>8 DEF ItemRight, Item
    <3>2. ~IsJump(n + 1)
      BY <1>10, <2>2
    <3>3. Kept(obj.symbols, asm_symbols(obj.symbols, e.relocs))
      BY <1>1, <1>8, SymbolsMade
    <3>4. obj' = [obj EXCEPT !.symbols = asm_symbols(obj.symbols, e.relocs)]
      BY <2>2
    <3> QED BY <2>2, <3>1, <3>2, <3>3, <3>4
  <2> HIDE DEF isJump
  <2> QED BY <1>4, <2>1, <2>2
<1>12. obj'.symbols = new /\ obj'.sections = obj.sections /\ DOMAIN obj' = DOMAIN obj
  BY <1>1, <1>11 DEF ObjOK
<1>13. ObjOK'
  BY <1>1, <1>11, <1>12 DEF ObjOK, Kept, SymbolsOK
<1>14. items \in Seq(Range(items))
  BY DEF ItemsOK
<1>15. Len(items') = Len(items) + 1 /\ items'[Len(items) + 1] = item /\ \A i \in 1..Len(items) : items'[i] = items[i]
  BY <1>11, <1>14, AppendOne
<1>16. LinesRead(n + 1)'
  BY <1>1, <1>2, <1>4, <1>11, <1>15, InstructionNext DEF Reading
<1>17. DataDefined(n + 1)'
  BY <1>1, <1>2, <1>11, <1>12, DataNext DEF Reading
<1>18. Reading(n + 1)'
  BY <1>1, <1>2, <1>16, <1>17, PlaceNext
<1> QED BY <1>13, <1>18

-----------------------------------------------------------------------------
(* The layout                                                              *)

\* A round changes how long the jumps are and nothing else.
LEMMA SameLines ==
  ASSUME NEW n \in Nat, LinesRead(n), source' = source, label_item' = label_item, Len(items') = Len(items),
         \A i \in 1..Len(items) : /\ items'[i].is_jump = items[i].is_jump /\ items'[i].target = items[i].target
                                  /\ items'[i].condition = items[i].condition /\ (~items[i].is_jump => items'[i] = items[i])
  PROVE  LinesRead(n)'
<1>1. \A k \in 1..n : LineRead(k)'
  <2> SUFFICES ASSUME NEW k \in 1..n PROVE LineRead(k)'
    OBVIOUS
  <2>1. LineRead(k) /\ Len(items) = ItemOf(n)
    BY DEF LinesRead
  <2>2. SectionAt(k)' = SectionAt(k) /\ ItemOf(k)' = ItemOf(k) /\ (IsJump(k)' <=> IsJump(k)) /\ \A name : FullName(name, k)' = FullName(name, k)
    BY SameText
  <2>3. source[k].is = "instruction" => ItemOf(k) \in 1..Len(items)
    BY <2>1, ItemNumber
  <2> QED BY <2>1, <2>2, <2>3 DEF LineRead, JumpRead, Cut
<1>2. Len(items') = ItemOf(n)' /\ \A i \in 1..Len(items') : ItemRight(items[i])'
  BY SameText DEF LinesRead, ItemRight
<1>3. LabelsRead(n)'
  BY SameText DEF LinesRead, LabelsRead
<1> QED BY <1>1, <1>2, <1>3 DEF LinesRead

\* The jumps have the sizes that the offsets are made with.
Laid ==
    /\ offsets = itemOffsets(items)
    /\ \A i \in 1..Len(items) : items[i].is_jump => items[i].size = jumpSize(items[i]) /\ (items[i].is_short => reachesShort(items[i], i, offsets))

\* After a round the lines have the items they had, and after the last one the jumps have their sizes.
LEMMA LayoutLines ==
  ASSUME AsmInv, AsmInv', asm_layout, NEW n \in Nat, LinesRead(n)
  PROVE  LinesRead(n)' /\ (pc' = "finish" => Laid')
<1>1. ItemsOK
  BY DEF AsmInv, LayoutInv, Shapes
<1>2. PICK m \in Nat : m = Len(items) /\ Len(items') = m /\ DOMAIN items = 1..m /\ DOMAIN items' = 1..m
  BY <1>1, Sized, Grown
<1>3. source' = source /\ label_item' = label_item
  BY DEF asm_layout
<1>4. ASSUME NEW i \in 1..m, ~items[i].is_jump PROVE items'[i] = items[i]
  <2>1. items'[i] = sizedItems[i]
    BY <1>1, <1>2, <1>4, Grown
  <2>2. sizedItems[i] = items[i]
    BY <1>2, <1>4 DEF sizedItems
  <2> QED BY <2>1, <2>2
<1>5. LinesRead(n)'
  BY <1>1, <1>2, <1>3, <1>4, Grown, SameLines
<1>6. ASSUME pc' = "finish" PROVE Laid'
  <2>1. items' = sizedItems
    BY <1>6 DEF asm_layout
  <2>2. offsets' = itemOffsets(items') /\ \A i \in ShortJumps' : reachesShort(items[i], i, offsets)'
    BY <1>6 DEF AsmInv, LayoutInv, ShortJumpsReach
  <2>3. ASSUME NEW i \in 1..m, items'[i].is_jump
        PROVE  items'[i].size = jumpSize(items[i])' /\ (items'[i].is_short => reachesShort(items[i], i, offsets)')
    <3>1. items[i].is_jump /\ items'[i].condition = items[i].condition
      BY <1>1, <1>2, <2>3, Grown
    <3>2. ItemOK(items[i])
      BY <1>1, <1>2 DEF ItemsOK
    <3>3. items'[i] = [items[i] EXCEPT !.size = jumpSize(items[i])]
      BY <1>2, <2>1, <3>1 DEF sizedItems
    <3>4. items'[i].size = jumpSize(items[i]) /\ items'[i].is_short = items[i].is_short
      BY <3>2, <3>3 DEF ItemOK
    <3>5. items'[i].size = jumpSize(items[i])'
      BY <3>1, <3>4 DEF jumpSize
    <3>6. items'[i].is_short => i \in ShortJumps'
      BY <1>2, <2>3 DEF ShortJumps, JumpItems
    <3> QED BY <2>2, <3>5, <3>6
  <2> QED BY <1>2, <2>2, <2>3 DEF Laid
<1> QED BY <1>5, <1>6

\* No item is farther than the longest instructions take it.
LEMMA OffsetsBounded ==
  ASSUME NEW list, NEW n \in Nat, n = Len(list), \A i \in 1..n : list[i].size \in 0..15
  PROVE  \A i \in 1..(n + 1) : itemOffsets(list)[i] \in 0..(15 * (i - 1))
<1> DEFINE at == itemOffsets(list)
           T == {i \in 1..(n + 1) : ~(at[i] \in 0..(15 * (i - 1)))}
<1>0. at[1] = 0 /\ \A i \in 1..n : at[i + 1] = at[i] + list[i].size
  BY OffsetSteps
<1> HIDE DEF at
<1>1. ASSUME NEW m \in T, \A k \in T : m <= k PROVE FALSE
  <2>1. m \in 1..(n + 1) /\ ~(at[m] \in 0..(15 * (m - 1)))
    OBVIOUS
  <2>2. m # 1
    BY <1>0, <2>1
  <2>3. PICK k \in 1..n : k + 1 = m
    <3>1. m - 1 \in 1..n /\ (m - 1) + 1 = m
      BY <2>1, <2>2
    <3> QED BY <3>1
  <2>4. k \in 1..(n + 1) /\ k \notin T
    BY <1>1, <2>1, <2>3
  <2>5. at[k] \in 0..(15 * (k - 1))
    BY <2>4
  <2> HIDE DEF T
  <2>6. PICK p \in Nat, s \in 0..15 : p = at[k] /\ s = list[k].size
    BY <2>5
  <2>7. at[m] = p + s
    BY <1>0, <2>3, <2>6
  <2>8. p <= 15 * (k - 1)
    BY <2>5, <2>6
  <2>9. p + s \in 0..(15 * ((k + 1) - 1))
    BY <2>8
  <2> QED BY <2>1, <2>3, <2>7, <2>9
<1>2. T = {}
  <2>1. T \in SUBSET Nat
    OBVIOUS
  <2> HIDE DEF T
  <2> QED BY <1>1, <2>1, LeastNat
<1> QED BY <1>2 DEF at

\* The jumps have labels
JumpsKnown == \A i \in 1..Len(items) : items[i].is_jump => items[i].target \in DOMAIN label_item
ReadyToWrite == Shapes /\ source \in Sources /\ (\E n \in Nat : n = Len(source) /\ LinesRead(n)) /\ Laid /\ JumpsKnown
Displacement(i) == offsets[label_item[items[i].target]] - (offsets[i] + items[i].size)

\* No item is longer than an instruction can be.
LEMMA Sizes ==
  ASSUME ReadyToWrite
  PROVE  \A i \in 1..Len(items) : items[i].size \in 0..15
<1> SUFFICES ASSUME NEW i \in 1..Len(items) PROVE items[i].size \in 0..15
  OBVIOUS
<1>1. ItemOK(items[i]) /\ ItemRight(items[i])
  BY DEF ReadyToWrite, Shapes, ItemsOK, LinesRead
<1>2. CASE items[i].is_jump
  BY <1>2 DEF ReadyToWrite, Laid, jumpSize
<1>3. CASE ~items[i].is_jump
  BY <1>1, <1>3 DEF ItemOK, ItemRight, LongestInstruction
<1> QED BY <1>2, <1>3

\* A displacement fits 32 bits, as the text isn't longer than they reach.
LEMMA Displacements ==
  ASSUME ReadyToWrite, NEW i \in 1..Len(items), items[i].is_jump
  PROVE  Fits32(Displacement(i)) /\ (items[i].is_short => Displacement(i) \in -128..127)
<1>1. PICK n \in Nat : n = Len(source) /\ LinesRead(n)
  BY DEF ReadyToWrite
<1>2. 15 * n <= 2147483647
  BY <1>1, SourcesAssumption DEF ReadyToWrite, IsText, LongestInstruction
<1>3. PICK m \in Nat : m = Len(items) /\ m = ItemOf(n) /\ m <= n
  <2>1. 0 \in 0..n
    OBVIOUS
  <2>2. ItemOf(n) \in Nat /\ ItemOf(n) <= n
    BY <2>1, ItemsInOrder
  <2> QED BY <1>1, <2>2 DEF LinesRead
<1>4. \A j \in 1..(m + 1) : offsets[j] \in 0..(15 * (j - 1))
  BY <1>3, Sizes, OffsetsBounded DEF ReadyToWrite, Laid
<1>5. PICK l \in 1..(m + 1) : l = label_item[items[i].target] /\ items[i].target \in DOMAIN label_item
  BY <1>3 DEF ReadyToWrite, JumpsKnown, Shapes, LabelsInText
<1>6. PICK p \in Int, q \in Int, s \in 0..15 : p = offsets[l] /\ q = offsets[i] /\ s = items[i].size
  BY <1>3, <1>4, Sizes
<1>7. 0 <= p /\ p <= 2147483647 /\ 0 <= q + s /\ q + s <= 2147483647
  <2>1. p \in 0..(15 * (l - 1)) /\ q \in 0..(15 * (i - 1))
    BY <1>3, <1>4, <1>6
  <2>2. 15 * (l - 1) <= 15 * n /\ 15 * (i - 1) + 15 <= 15 * n
    BY <1>3
  <2> QED BY <1>2, <1>3, <2>1, <2>2, SMT
<1>8. Displacement(i) = p - (q + s)
  BY <1>5, <1>6 DEF Displacement
<1>9. Fits32(Displacement(i))
  BY <1>7, <1>8, SMT DEF Fits32
<1>10. ASSUME items[i].is_short PROVE Displacement(i) \in -128..127
  <2>1. reachesShort(items[i], i, offsets) /\ items[i].size = jumpSize(items[i])
    BY <1>10 DEF ReadyToWrite, Laid
  <2>2. items[i].size = 2
    BY <1>10, <2>1 DEF jumpSize
  <2> QED BY <2>1, <2>2 DEF reachesShort, Displacement
<1> QED BY <1>9, <1>10

\* An item has as many bytes as its size says, and those of a jump are that jump.
LEMMA ItemBytes ==
  ASSUME ReadyToWrite, NEW i \in 1..Len(items)
  PROVE  /\ itemBytes(i) \in Seq(0..255) /\ Len(itemBytes(i)) = items[i].size
         /\ items[i].is_jump => MeansJump(itemBytes(i), items[i].condition, Displacement(i))
<1>1. ItemOK(items[i]) /\ ItemRight(items[i])
  BY DEF ReadyToWrite, Shapes, ItemsOK, LinesRead
<1>2. CASE ~items[i].is_jump
  BY <1>1, <1>2 DEF ItemRight, itemBytes
<1>3. CASE items[i].is_jump
  <2>1. PICK condition, short, n, bytes : condition = items[i].condition /\ short = items[i].is_short /\ n = Displacement(i) /\ bytes = itemBytes(i)
    OBVIOUS
  <2>2. condition \in -1..15 /\ short \in BOOLEAN /\ Fits32(n) /\ (short => n \in -128..127)
    BY <1>1, <1>3, <2>1, Displacements DEF ItemOK, ItemRight
  <2>3. bytes = EncodedJump(condition, short, n)
    BY <1>3, <2>1, <2>2 DEF itemBytes, jumpBytes, EncodedJump, Displacement
  <2>4. /\ bytes \in Seq(0..255) /\ Len(bytes) = jumpSize([is_short |-> short, condition |-> condition])
        /\ MeansJump(bytes, condition, n)
    BY <2>2, <2>3, JumpDecoded
  <2>5. jumpSize([is_short |-> short, condition |-> condition]) = jumpSize(items[i])
    BY <2>1 DEF jumpSize
  <2>6. items[i].size = jumpSize(items[i])
    BY <1>3 DEF ReadyToWrite, Laid
  <2> QED BY <2>1, <2>4, <2>5, <2>6
<1> QED BY <1>2, <1>3

\* The bytes of each item are where its offset says.
LEMMA TextPlaced ==
  ASSUME ReadyToWrite
  PROVE  Placed(textBytes(Len(items)), Len(items), [i \in 1..Len(items) |-> itemBytes(i)], offsets, 0..255)
<1>1. PICK n \in Nat : n = Len(items)
  BY DEF ReadyToWrite, Shapes, ItemsOK
<1> DEFINE pieces == [i \in 1..n |-> itemBytes(i)]
<1>2. \A i \in 1..n : itemBytes(i) \in Seq(0..255) /\ Len(itemBytes(i)) = items[i].size
  BY <1>1, ItemBytes
<1>3. \A i \in 1..n : pieces[i] = itemBytes(i)
  OBVIOUS
<1>4. pieces = [i \in 1..n |-> pieces[i]]
  OBVIOUS
<1>5. textBytes(n) = FlattenSeq(pieces)
  BY DEF textBytes
<1> HIDE DEF pieces
<1>6. offsets[1] = 0 /\ \A i \in 1..n : offsets[i + 1] = offsets[i] + Len(pieces[i])
  <2>1. offsets = itemOffsets(items) /\ Len(items) \in Nat
    BY <1>1 DEF ReadyToWrite, Laid
  <2>2. offsets[1] = 0 /\ \A i \in 1..n : offsets[i + 1] = offsets[i] + items[i].size
    BY <1>1, <2>1, OffsetSteps
  <2> QED BY <1>2, <1>3, <2>2
<1>7. \A i \in 1..n : pieces[i] \in Seq(0..255)
  BY <1>2, <1>3
<1>8. Placed(FlattenSeq(pieces), n, pieces, offsets, 0..255)
  BY <1>4, <1>6, <1>7, Flattened
<1> QED BY <1>1, <1>5, <1>8 DEF pieces

-----------------------------------------------------------------------------
(* The invariant                                                           *)

\* The invariant: what has been read while the lines are, and then what the text section has.
TextRead ==
    /\ pc = "lines" => \E n \in Nat : n <= Len(source) /\ line = n + 1 /\ Reading(n) /\ ObjOK
    /\ pc \in {"layout", "finish", "check"} => source \in Sources /\ \E n \in Nat : n = Len(source) /\ LinesRead(n)
    /\ pc \in {"layout", "finish"} => ObjOK
    /\ pc \in {"finish", "check"} => Laid
    /\ pc = "check" => JumpsKnown /\ obj.sections.text = textBytes(Len(items))

\* Nothing has been read in the first state.
LEMMA TextReadInit == Init => TextRead
<1> SUFFICES ASSUME Init PROVE TextRead
  OBVIOUS
<1>1. CASE pc # "lines"
  <2>1. pc = "object"
    BY <1>1 DEF Init, assembler_init
  <2> QED BY <2>1 DEF TextRead
<1>2. CASE pc = "lines"
  <2>1. /\ source \in Sources /\ line = 1 /\ obj = EmptyObject /\ section = "text" /\ scope = <<>> /\ items = <<>> /\ label_item = <<>>
    BY <1>2 DEF Init, assembler_init
  <2> HIDE DEF Init
  <2>2. source \in Seq(Range(source))
    BY <2>1, SourcesAssumption DEF IsText
  <2>3. PICK n \in Nat : n = 0
    OBVIOUS
  <2>4. n <= Len(source) /\ line = n + 1 /\ n + 1 = 1 /\ Len(items) = 0 /\ 1..n = {} /\ DOMAIN label_item = {} /\ Len(items) = n
    BY <2>1, <2>2, <2>3
  <2>5. ObjOK
    <3>1. SymbolsOK(<<>>)
      <4>1. <<>> \in Seq(Range(<<>>)) /\ Len(<<>>) = 0
        OBVIOUS
      <4> QED BY <4>1 DEF SymbolsOK
    <3> QED BY <2>1, <3>1 DEF ObjOK, EmptyObject
  <2>6. LabelsTo(n) = {} /\ TextLabels(n) = {}
    BY <2>4 DEF LabelsTo, TextLabels
  <2>7. LinesRead(n)
    <3>1. LabelsRead(n)
      BY <2>4, <2>6 DEF LabelsRead
    <3>2. Len(items) = ItemOf(n)
      BY <2>3, <2>4, ItemFirst
    <3>3. 1..Len(items) = {}
      BY <2>3, <2>4
    <3> QED BY <2>4, <3>1, <3>2, <3>3 DEF LinesRead
  <2>8. DataDefined(n)
    BY <2>6 DEF DataDefined
  <2>9. SectionAt(n + 1) = "text" /\ ScopeAt(n + 1) = <<>> /\ ScopeAt(n + 1) \in Seq(Range(ScopeAt(n + 1)))
    <3>1. <<>> \in Seq(Range(<<>>))
      OBVIOUS
    <3>2. SectionAt(n + 1) = "text" /\ ScopeAt(n + 1) = <<>>
      BY <2>4, SectionFirst, ScopeFirst, Zenon
    <3> QED BY <3>1, <3>2, Zenon
  <2>10. Cut(<<>>) = <<>>
    <3>1. Cut(<<>>) \in Seq({}) /\ Len(Cut(<<>>)) = 0
      <4>1. <<>> \in Seq({}) /\ 0 = Len(<<>>) /\ (IF 0 < NameSize THEN 0 ELSE NameSize) = 0
        BY NameSizeAssumption
      <4> QED BY <4>1, CutProperties
    <3> QED BY <3>1
  <2>11. Reading(n)
    BY <2>1, <2>7, <2>8, <2>9, <2>10 DEF Reading
  <2> QED BY <1>2, <2>4, <2>5, <2>11 DEF TextRead
<1> QED BY <1>1, <1>2

\* A line that is read is followed by another one, or fails.
LEMMA LineFate ==
  ASSUME label \/ section_line \/ declare_line \/ asm_data_line \/ times_line \/ align_line \/ asm_instruction
  PROVE  pc = "lines" /\ line <= Len(source) /\ line' = line + 1 /\ source' = source /\ pc' \in {"lines", "failed"}
<1>1. pc = "lines" /\ line <= Len(source) /\ line' = line + 1 /\ source' = source
  BY DEF label, section_line, declare_line, asm_data_line, times_line, align_line, asm_instruction, reading
<1>2. CASE label
  BY <1>1, <1>2 DEF label, asm_fail, going
<1>3. CASE section_line
  BY <1>1, <1>3 DEF section_line, asm_fail, going
<1>4. CASE declare_line
  BY <1>1, <1>4 DEF declare_line, going
<1>5. CASE asm_data_line
  BY <1>1, <1>5 DEF asm_data_line, asm_fail, going
<1>6. CASE times_line
  BY <1>1, <1>6 DEF times_line, going
<1>7. CASE align_line
  BY <1>1, <1>7 DEF align_line, asm_fail, going
<1>8. CASE asm_instruction
  BY <1>1, <1>8 DEF asm_instruction, asm_fail, going
<1> QED BY <1>2, <1>3, <1>4, <1>5, <1>6, <1>7, <1>8

\* What the next line is
LEMMA LineReached ==
  ASSUME AsmInv, pc = "lines", line <= Len(source), NEW n \in Nat, line = n + 1, Reading(n), ObjOK
  PROVE  AtLine(n) /\ scope \in Scopes(source) /\ source \in Seq(Range(source))
<1>1. /\ source \in Sources /\ IsText(source) /\ IsLine(text) /\ scope \in Scopes(source)
      /\ text.is = "instruction" => IsEncoding(Encode(text.m, text.cc, operandsOf(text, scope)), text, operandsOf(text, scope))
  BY TextIsLine DEF AsmInv, TextInv
<1>2. source \in Seq(Range(source))
  BY <1>1 DEF IsText
<1>3. n < Len(source) /\ n + 1 \in DOMAIN source
  BY <1>2
<1>4. text = source[n + 1]
  BY DEF text
<1> QED BY <1>1, <1>2, <1>3, <1>4 DEF AtLine

\* A line is read.
LEMMA LineStep ==
  ASSUME AsmInv, TextRead, label \/ section_line \/ declare_line \/ asm_data_line \/ times_line \/ align_line \/ asm_instruction
  PROVE  TextRead'
<1>1. pc = "lines" /\ line <= Len(source) /\ line' = line + 1 /\ source' = source /\ pc' \in {"lines", "failed"}
  BY LineFate
<1>2. PICK n \in Nat : n <= Len(source) /\ line = n + 1 /\ Reading(n) /\ ObjOK
  BY <1>1 DEF TextRead
<1>3. AtLine(n) /\ source \in Seq(Range(source))
  BY <1>1, <1>2, LineReached
<1>4. ItemsOK
  BY DEF AsmInv, LayoutInv, Shapes
<1>5. ReadAfter(n)
  BY <1>3, <1>4, LabelRead, SectionLineRead, DeclareRead, DataRead, TimesRead, AlignRead, InstructionRead
<1>6. n + 1 \in Nat /\ n + 1 <= Len(source)
  BY <1>1, <1>2
<1>7. pc' = "lines" => n + 1 \in Nat /\ n + 1 <= Len(source') /\ line' = (n + 1) + 1 /\ Reading(n + 1)' /\ ObjOK'
  BY <1>1, <1>2, <1>5, <1>6 DEF ReadAfter
<1> QED BY <1>1, <1>7 DEF TextRead

\* All of the lines are.
LEMMA EndStep ==
  ASSUME AsmInv, TextRead, end_of_source
  PROVE  TextRead'
<1>1. /\ pc = "lines" /\ line > Len(source) /\ pc' = "layout" /\ source' = source /\ obj' = obj
      /\ items' = items /\ label_item' = label_item
  BY DEF end_of_source
<1>2. PICK n \in Nat : n <= Len(source) /\ line = n + 1 /\ Reading(n) /\ ObjOK
  BY <1>1 DEF TextRead
<1>3. source \in Sources /\ source \in Seq(Range(source))
  BY <1>1, SourcesAssumption DEF AsmInv, TextInv, IsText
<1>4. n = Len(source)
  BY <1>1, <1>2, <1>3
<1>5. LinesRead(n)'
  <2>1. Len(items') = Len(items)
    BY <1>1
  <2> QED BY <1>1, <1>2, <2>1, SameLines DEF Reading
<1>6. ObjOK'
  BY <1>1, <1>2 DEF ObjOK
<1> QED BY <1>1, <1>3, <1>4, <1>5, <1>6 DEF TextRead

\* A round of asm_layout
LEMMA RoundStep ==
  ASSUME AsmInv, AsmInv', TextRead, asm_layout
  PROVE  TextRead'
<1>1. pc = "layout" /\ pc' \in {"layout", "finish"} /\ source' = source /\ obj' = obj
  BY DEF asm_layout
<1>2. PICK n \in Nat : n = Len(source) /\ LinesRead(n)
  BY <1>1 DEF TextRead
<1>3. LinesRead(n)' /\ (pc' = "finish" => Laid')
  BY <1>2, LayoutLines
<1>4. source \in Sources /\ ObjOK'
  BY <1>1 DEF TextRead, ObjOK
<1> QED BY <1>1, <1>2, <1>3, <1>4 DEF TextRead

\* The bytes of the items depend on the layout alone.
LEMMA SameBytes ==
  ASSUME items' = items, offsets' = offsets, label_item' = label_item
  PROVE  textBytes(Len(items))' = textBytes(Len(items)) /\ (JumpsKnown' <=> JumpsKnown) /\ (Laid' <=> Laid)
<1>1. \A i : jumpBytes(items[i], i)' = jumpBytes(items[i], i)
  BY Zenon DEF jumpBytes
<1>2. \A i : itemBytes(i)' = itemBytes(i)
  BY <1>1, Zenon DEF itemBytes
<1>3. \A n : textBytes(n)' = textBytes(n)
  BY <1>2, Zenon DEF textBytes
<1>4. JumpsKnown' <=> JumpsKnown
  BY Zenon DEF JumpsKnown
<1>5. \A i : reachesShort(items[i], i, offsets)' <=> reachesShort(items[i], i, offsets)
  BY Zenon DEF reachesShort
<1>6. \A i : jumpSize(items[i])' = jumpSize(items[i])
  BY Zenon DEF jumpSize
<1>7. Laid' <=> Laid
  BY <1>5, <1>6, Zenon DEF Laid
<1> QED BY <1>3, <1>4, <1>7, Zenon

\* asm_finish_text writes the bytes of the items into the text section.
LEMMA FinishStep ==
  ASSUME AsmInv, TextRead, asm_finish_text
  PROVE  TextRead'
<1>1. /\ pc = "finish" /\ source' = source /\ items' = items /\ label_item' = label_item /\ offsets' = offsets
      /\ pc' \in {"failed", "check"}
  BY DEF asm_finish_text, asm_fail
<1> SUFFICES ASSUME pc' = "check" PROVE TextRead'
  BY <1>1 DEF TextRead
<1>2. PICK n \in Nat : n = Len(source) /\ LinesRead(n)
  BY <1>1 DEF TextRead
<1>3. source \in Sources /\ ObjOK /\ Laid
  BY <1>1 DEF TextRead
<1>4. DOMAIN items = 1..Len(items)
  BY DEF AsmInv, LayoutInv, Shapes, ItemsOK
<1>5. PICK relocs, symbols : /\ JumpsKnown
                             /\ obj' = [obj EXCEPT !.sections.text = @ \o textBytes(Len(items)), !.relocs = relocs, !.symbols = symbols]
  <2>1. ~(\E i \in DOMAIN items : items[i].is_jump /\ items[i].target \notin DOMAIN label_item)
    BY DEF asm_finish_text, asm_fail
  <2>2. JumpsKnown
    BY <1>4, <2>1 DEF JumpsKnown
  <2>3. obj' = [obj EXCEPT !.sections.text = @ \o textBytes(Len(items)), !.relocs = @ \o textRelocs, !.symbols = [i \in DOMAIN @ |-> placedSymbol(@[i])]]
    BY <2>1, Zenon DEF asm_finish_text
  <2>4. PICK relocs, symbols : relocs = obj.relocs \o textRelocs /\ symbols = [i \in DOMAIN obj.symbols |-> placedSymbol(obj.symbols[i])]
    OBVIOUS
  <2>5. obj' = [obj EXCEPT !.sections.text = @ \o textBytes(Len(items)), !.relocs = relocs, !.symbols = symbols]
    BY <2>3, <2>4, Zenon
  <2> QED BY <2>2, <2>5
<1>6. ReadyToWrite
  BY <1>2, <1>3, <1>5 DEF ReadyToWrite, AsmInv, LayoutInv
<1>7. PICK bytes \in Seq(0..255) : bytes = textBytes(Len(items))
  BY <1>6, TextPlaced DEF Placed
<1>8. <<>> \o bytes = bytes
  BY <1>7, ConcatEmptySeq
<1>9. obj'.sections.text = bytes
  <2>1. PICK sections : sections = obj.sections
    OBVIOUS
  <2>2. "text" \in DOMAIN sections /\ sections.text = <<>>
    BY <1>3, <2>1 DEF ObjOK
  <2>3. obj' = [obj EXCEPT !.sections = [sections EXCEPT !.text = <<>> \o bytes], !.relocs = relocs, !.symbols = symbols]
    BY <1>5, <1>7, <2>1, <2>2
  <2>4. obj'.sections = [sections EXCEPT !.text = <<>> \o bytes]
    BY <1>3, <2>3 DEF ObjOK
  <2> QED BY <1>8, <2>2, <2>4
<1>10. textBytes(Len(items))' = bytes /\ JumpsKnown' /\ Laid'
  BY <1>1, <1>3, <1>5, <1>7, SameBytes
<1>11. LinesRead(n)'
  <2>1. Len(items') = Len(items)
    BY <1>1
  <2> QED BY <1>1, <1>2, <2>1, SameLines
<1> QED BY <1>1, <1>2, <1>3, <1>9, <1>10, <1>11 DEF TextRead

\* What is read stays while the state does.
LEMMA ReadingStays ==
  ASSUME NEW n \in Nat, Reading(n), ObjOK, UNCHANGED <<source, obj, section, scope, items, label_item>>
  PROVE  Reading(n)' /\ ObjOK'
<1>1. source' = source /\ obj' = obj /\ section' = section /\ scope' = scope /\ items' = items /\ label_item' = label_item
  OBVIOUS
<1>2. Len(items') = Len(items)
  BY <1>1
<1>3. LinesRead(n)'
  BY <1>1, <1>2, SameLines DEF Reading
<1>4. ObjOK'
  BY <1>1 DEF ObjOK
<1>5. DataDefined(n)'
  BY <1>1, SameText DEF Reading, DataDefined
<1> QED BY <1>1, <1>3, <1>4, <1>5, SameText DEF Reading, Cut

\* Every step keeps the invariant.
LEMMA TextReadStep == AsmInv /\ AsmInv' /\ TextRead /\ [Next]_vars => TextRead'
<1> SUFFICES ASSUME AsmInv, AsmInv', TextRead, [Next]_vars PROVE TextRead'
  OBVIOUS
<1>1. CASE assemble
  <2>1. CASE label \/ section_line \/ declare_line \/ asm_data_line \/ times_line \/ align_line \/ asm_instruction
    BY <2>1, LineStep
  <2>2. CASE end_of_source
    BY <2>2, EndStep
  <2>3. CASE asm_layout
    BY <2>3, RoundStep
  <2>4. CASE asm_finish_text
    BY <2>4, FinishStep
  <2>5. CASE check_symbols
    <3>1. pc' \in {"failed", "assembled"}
      BY <2>5 DEF check_symbols, asm_fail
    <3> QED BY <3>1 DEF TextRead
  <2> QED BY <1>1, <2>1, <2>2, <2>3, <2>4, <2>5 DEF assemble, x64_assemble
<1>2. CASE write_exe \/ write_elf \/ write_coff \/ read_coff \/ link
  <2>1. pc' \in {"unwritten", "written", "linking", "object", "read"}
    BY <1>2 DEF write_exe, write_elf, write_coff, read_coff, link, refuse
  <2> QED BY <2>1 DEF TextRead
<1>3. CASE finished \/ UNCHANGED vars
  <2>1. UNCHANGED vars
    BY <1>3 DEF finished
  <2>2. /\ source' = source /\ line' = line /\ pc' = pc /\ obj' = obj /\ section' = section /\ scope' = scope
        /\ items' = items /\ label_item' = label_item /\ offsets' = offsets /\ Len(items') = Len(items)
    BY <2>1 DEF vars
  <2>3. \A n \in Nat : LinesRead(n) => LinesRead(n)'
    <3> SUFFICES ASSUME NEW n \in Nat, LinesRead(n) PROVE LinesRead(n)'
      OBVIOUS
    <3> QED BY <2>2, SameLines
  <2>4. ObjOK => ObjOK'
    BY <2>2 DEF ObjOK
  <2>5. \A n \in Nat : Reading(n) /\ ObjOK => Reading(n)'
    BY <2>2, ReadingStays
  <2>6. textBytes(Len(items))' = textBytes(Len(items)) /\ (JumpsKnown' <=> JumpsKnown) /\ (Laid' <=> Laid)
    BY <2>2, SameBytes
  <2> QED BY <2>2, <2>3, <2>4, <2>5, <2>6 DEF TextRead
<1> QED BY <1>1, <1>2, <1>3 DEF Next

-----------------------------------------------------------------------------
(* Where the lines are                                                     *)

LinesAt(f, m, where) ==
    f = [j \in 1..m |-> IF j = 1 THEN 0 ELSE IF SectionAt(j - 1) = where THEN EndOfLine(f[j - 1], j - 1) ELSE f[j - 1]]

\* There is a function like the one that OffsetOf chooses.
LEMMA LinesAtExist ==
  ASSUME NEW where, NEW n \in Nat
  PROVE  \E f : LinesAt(f, n, where)
<1> DEFINE T == {m \in Nat : ~\E f : LinesAt(f, m, where)}
<1> SUFFICES ASSUME T # {} PROVE FALSE
  OBVIOUS
<1>1. PICK m \in T : \A k \in T : m <= k
  BY LeastNat
<1>2. m # 0
  <2> DEFINE f == [i \in 1..0 |-> 0]
  <2>1. LinesAt(f, 0, where)
    BY DEF LinesAt
  <2> QED BY <2>1
<1>3. m \in Nat /\ m - 1 \in Nat /\ m - 1 \notin T
  BY <1>1, <1>2
<1>4. PICK g : LinesAt(g, m - 1, where)
  BY <1>3
<1>5. \A f : ~LinesAt(f, m, where)
  OBVIOUS
<1> HIDE DEF T
<1> DEFINE next(f, j) == IF j = 1 THEN 0 ELSE IF SectionAt(j - 1) = where THEN EndOfLine(f[j - 1], j - 1) ELSE f[j - 1]
           f == [j \in 1..m |-> next(g, j)]
<1>6. ASSUME NEW i \in 1..(m - 1) PROVE f[i] = g[i]
  <2>1. i \in 1..m
    BY <1>3
  <2>2. g[i] = next(g, i)
    BY <1>4, Zenon DEF LinesAt
  <2> QED BY <2>1, <2>2, Zenon
<1>7. \A i \in 1..m : i # 1 => i - 1 \in 1..(m - 1)
  BY <1>3
<1>8. \A i \in 1..m : i # 1 => f[i - 1] = g[i - 1]
  BY <1>6, <1>7, Zenon
<1>9. f = [j \in 1..m |-> next(f, j)]
  BY <1>8, Zenon
<1> QED BY <1>5, <1>9, Zenon DEF LinesAt

\* A line of the code is where the item of the next instruction is: only instructions take up room in the text section.
LEMMA LineAt ==
  ASSUME ReadyToWrite, NEW k \in 1..Len(source), SectionAt(k) = "text"
  PROVE  OffsetOf(k) = offsets[ItemOf(k - 1) + 1]
<1> DEFINE f == CHOOSE g : LinesAt(g, k, "text")
<1>1. OffsetOf(k) = f[k]
  BY DEF OffsetOf, LinesAt
<1>2. LinesAt(f, k, "text")
  <2>1. k \in Nat
    OBVIOUS
  <2> HIDE DEF f
  <2>2. \E g : LinesAt(g, k, "text")
    BY <2>1, LinesAtExist
  <2> QED BY <2>2, Zenon DEF f
<1> HIDE DEF f
<1>3. \A j \in 1..k : f[j] = IF j = 1 THEN 0 ELSE IF SectionAt(j - 1) = "text" THEN EndOfLine(f[j - 1], j - 1) ELSE f[j - 1]
  BY <1>2, Zenon DEF LinesAt
<1>4. PICK n \in Nat : n = Len(source) /\ LinesRead(n)
  BY DEF ReadyToWrite
<1>5. Len(items) \in Nat /\ Len(items) = ItemOf(n) /\ offsets = itemOffsets(items)
  BY <1>4 DEF ReadyToWrite, Shapes, ItemsOK, Laid, LinesRead
<1>6. offsets[1] = 0 /\ \A i \in 1..Len(items) : offsets[i + 1] = offsets[i] + items[i].size
  BY <1>5, OffsetSteps
<1>7. f[0 + 1] = offsets[ItemOf(0) + 1]
  <2>1. 1 \in 1..k /\ 0 + 1 = 1
    OBVIOUS
  <2>2. ItemOf(0) + 1 = 1
    BY ItemFirst
  <2> QED BY <1>3, <1>6, <2>1, <2>2
\* One line more
<1>8. ASSUME NEW p \in Nat, p + 1 \in 1..k, p + 1 < k, f[p + 1] = offsets[ItemOf(p) + 1]
      PROVE  f[(p + 1) + 1] = offsets[ItemOf(p + 1) + 1]
  <2> DEFINE j == p + 1
  <2>1. j \in 1..n /\ j + 1 \in 1..k /\ j + 1 # 1 /\ (j + 1) - 1 = j /\ j \in Nat
    BY <1>4, <1>8
  <2>2. f[j + 1] = IF SectionAt(j) = "text" THEN EndOfLine(f[j], j) ELSE f[j]
    BY <1>3, <2>1
  <2>3. ItemOf(p) \in Nat /\ ItemOf(j) = IF source[j].is = "instruction" THEN ItemOf(p) + 1 ELSE ItemOf(p)
    BY ItemNext
  <2>4. LineRead(j)
    BY <1>4, <2>1 DEF LinesRead
  <2>5. source[j].is \in {"data", "times"} => SectionAt(j) # "text"
    <3>1. IsText(source)
      BY SourcesAssumption DEF ReadyToWrite
    <3>2. j \in DOMAIN source
      BY <1>4, <2>1, <3>1 DEF IsText
    <3> QED BY <3>1, <3>2 DEF IsText, SectionAt
  <2>6. source[j].is = "instruction" => ItemOf(j) \in 1..Len(items)
    BY <1>4, <1>5, <2>1, ItemNumber
  <2>7. f[j] = offsets[ItemOf(p) + 1]
    BY <1>8
  <2> HIDE DEF j
  <2>8. CASE source[j].is = "instruction"
    <3>1. SectionAt(j) = "text"
      BY <2>4, <2>8 DEF LineRead
    <3>2. EndOfLine(f[j], j) = f[j] + items[ItemOf(j)].size
      BY <2>8 DEF EndOfLine
    <3>3. ItemOf(j) = ItemOf(p) + 1
      BY <2>3, <2>8
    <3>4. offsets[ItemOf(j) + 1] = offsets[ItemOf(j)] + items[ItemOf(j)].size
      BY <1>6, <2>6, <2>8
    <3>5. f[j + 1] = offsets[ItemOf(j) + 1]
      BY <2>2, <2>7, <3>1, <3>2, <3>3, <3>4
    <3> QED BY <3>5 DEF j
  <2>9. CASE source[j].is # "instruction"
    <3>1. ItemOf(j) = ItemOf(p)
      BY <2>3, <2>9
    <3>2. SectionAt(j) = "text" => EndOfLine(f[j], j) = f[j]
      BY <2>4, <2>5, <2>9 DEF EndOfLine, LineRead
    <3>3. f[j + 1] = offsets[ItemOf(j) + 1]
      BY <2>2, <2>7, <3>1, <3>2
    <3> QED BY <3>3 DEF j
  <2> QED BY <2>8, <2>9
<1> DEFINE T == {p \in 0..(k - 1) : f[p + 1] # offsets[ItemOf(p) + 1]}
<1>9. ASSUME NEW m \in T, \A q \in T : m <= q PROVE FALSE
  <2>1. m \in 0..(k - 1) /\ f[m + 1] # offsets[ItemOf(m) + 1]
    OBVIOUS
  <2>2. \A q \in 0..(k - 1) : q < m => f[q + 1] = offsets[ItemOf(q) + 1]
    <3>1. \A q \in 0..(k - 1) : q \notin T => f[q + 1] = offsets[ItemOf(q) + 1]
      OBVIOUS
    <3> HIDE DEF T
    <3> QED BY <1>9, <2>1, <3>1
  <2> HIDE DEF T
  <2>3. m # 0
    BY <1>7, <2>1, Zenon
  <2>4. PICK p \in Nat : p + 1 = m
    <3>1. m - 1 \in Nat /\ (m - 1) + 1 = m
      BY <2>1, <2>3
    <3> QED BY <3>1
  <2>5. p \in 0..(k - 1) /\ p < m /\ p + 1 \in 1..k /\ p + 1 < k
    BY <2>1, <2>4
  <2>6. f[p + 1] = offsets[ItemOf(p) + 1]
    BY <2>2, <2>5
  <2>7. f[(p + 1) + 1] = offsets[ItemOf(p + 1) + 1]
    BY <1>8, <2>5, <2>6
  <2> QED BY <2>1, <2>4, <2>7
<1>10. T = {}
  <2>1. T \in SUBSET Nat
    OBVIOUS
  <2> HIDE DEF T
  <2> QED BY <1>9, <2>1, LeastNat
<1>11. k - 1 \in 0..(k - 1) /\ (k - 1) + 1 = k
  OBVIOUS
<1>12. f[(k - 1) + 1] = offsets[ItemOf(k - 1) + 1]
  BY <1>10, <1>11
<1> QED BY <1>1, <1>11, <1>12

\* The bytes of an item are in the text where its offset says.
LEMMA BytesInText ==
  ASSUME ReadyToWrite, NEW flat, flat = textBytes(Len(items)), NEW i \in 1..Len(items), items[i].is_jump
  PROVE  SubSeq(flat, offsets[i] + 1, offsets[i] + items[i].size) = itemBytes(i)
<1>1. PICK n \in Nat : n = Len(items)
  BY DEF ReadyToWrite, Shapes, ItemsOK
<1> DEFINE pieces == [j \in 1..n |-> itemBytes(j)]
<1>2. Placed(flat, n, pieces, offsets, 0..255)
  BY <1>1, TextPlaced, Zenon
<1>3. PICK piece, s : piece = itemBytes(i) /\ s = items[i].size
  OBVIOUS
<1>4. pieces[i] = piece
  BY <1>1, <1>3
<1> HIDE DEF pieces
<1>5. piece \in Seq(0..255) /\ Len(piece) = s
  BY <1>3, ItemBytes
<1>6. s \in Nat /\ s # 0
  BY <1>3 DEF ReadyToWrite, Laid, jumpSize
<1>7. PICK at, z : at \in Nat /\ at = offsets[i] /\ z = Len(flat) /\ z = offsets[n + 1]
  BY <1>1, <1>2 DEF Placed
<1>8. flat \in Seq(0..255) /\ \A x \in 1..s : at + x \in 1..z /\ flat[at + x] = piece[x]
  BY <1>1, <1>2, <1>4, <1>5, <1>7 DEF Placed
<1>9. z \in Nat
  <2>1. flat \in Seq(0..255)
    BY <1>8
  <2>2. Len(flat) \in Nat
    BY ONLY <2>1
  <2> QED BY <1>7, <2>2
<1>10. PICK from \in Nat, to \in Nat : from = at + 1 /\ to = at + s
  BY <1>6, <1>7
<1>11. from \in 1..z /\ to \in from..z /\ to - from + 1 = s
  <2>1. 1 \in 1..s /\ s \in 1..s
    BY <1>6
  <2>2. at + 1 \in 1..z /\ at + s \in 1..z
    BY <1>8, <2>1
  <2> QED BY <1>6, <1>7, <1>9, <1>10, <2>2
<1>12. /\ SubSeq(flat, from, to) \in Seq(0..255) /\ Len(SubSeq(flat, from, to)) = s
       /\ \A x \in 1..s : SubSeq(flat, from, to)[x] = flat[from + x - 1]
  <2>1. PICK B : B = 0..255
    OBVIOUS
  <2>2. flat \in Seq(B) /\ from \in 1..Len(flat) /\ to \in from..Len(flat)
    BY <1>7, <1>8, <1>11, <2>1
  <2>3. /\ SubSeq(flat, from, to) \in Seq(B) /\ Len(SubSeq(flat, from, to)) = to - from + 1
        /\ \A x \in 1..(to - from + 1) : SubSeq(flat, from, to)[x] = flat[from + x - 1]
    BY <2>2, Part, Zenon
  <2> QED BY <1>11, <2>1, <2>3
<1>13. \A x \in 1..s : from + x - 1 = at + x
  BY <1>7, <1>10
<1>14. \A x \in 1..s : SubSeq(flat, from, to)[x] = piece[x]
  BY <1>8, <1>12, <1>13
<1>15. SubSeq(flat, from, to) = piece
  <2>1. PICK B, part : B = 0..255 /\ part = SubSeq(flat, from, to)
    OBVIOUS
  <2>2. part \in Seq(B) /\ piece \in Seq(B) /\ Len(part) = Len(piece) /\ \A x \in 1..Len(part) : part[x] = piece[x]
    BY <1>5, <1>12, <1>14, <2>1
  <2>3. part = piece
    BY ONLY <2>2, SeqEqual
  <2> QED BY <2>1, <2>3
<1> QED BY <1>3, <1>7, <1>10, <1>15

\* The item of a jump goes to the item that its label is before.
LEMMA JumpTarget ==
  ASSUME ReadyToWrite, NEW k \in 1..Len(source), source[k].is = "instruction", IsJump(k), NEW i, i = ItemOf(k)
  PROVE  \E t \in 1..Len(source) :
            /\ source[t].is = "label" /\ SectionAt(t) = "text" /\ CutName(t) = Cut(FullName(nameOf(source[k].ops[1]), k))
            /\ items[i].target = CutName(t) /\ offsets[label_item[items[i].target]] = OffsetOf(t)
            /\ \A u \in 1..Len(source) : source[u].is = "label" /\ CutName(u) = CutName(t) => u = t
<1>1. PICK n \in Nat : n = Len(source) /\ LinesRead(n)
  BY DEF ReadyToWrite
<1>2. i \in 1..Len(items) /\ Len(items) = ItemOf(n)
  BY <1>1, ItemNumber DEF LinesRead
<1>3. JumpRead(k, items[i])
  BY <1>1 DEF LinesRead, LineRead
<1>4. items[i].target \in DOMAIN label_item
  BY <1>2, <1>3 DEF ReadyToWrite, JumpsKnown, JumpRead
<1>5. PICK t \in TextLabels(n) : CutName(t) = items[i].target
  BY <1>1, <1>4 DEF LinesRead, LabelsRead
<1>6. t \in 1..n /\ source[t].is = "label" /\ SectionAt(t) = "text" /\ t \in LabelsTo(n)
  BY DEF TextLabels, LabelsTo
<1>7. label_item[CutName(t)] = ItemOf(t) + 1
  BY <1>1 DEF LinesRead, LabelsRead
<1>8. OffsetOf(t) = offsets[ItemOf(t - 1) + 1]
  BY <1>1, <1>6, LineAt
<1>9. ItemOf(t - 1) = ItemOf(t)
  <2>1. PICK p \in Nat : p + 1 = t /\ p = t - 1
    <3>1. t - 1 \in Nat /\ (t - 1) + 1 = t
      BY <1>6
    <3> QED BY <3>1
  <2>2. ItemOf(p + 1) = ItemOf(p)
    BY <1>6, <2>1, ItemNext
  <2> QED BY <2>1, <2>2
<1>10. \A u \in 1..n : source[u].is = "label" /\ CutName(u) = CutName(t) => u = t
  <2>1. \A u \in 1..n : source[u].is = "label" => u \in LabelsTo(n)
    BY DEF LabelsTo
  <2> QED BY <1>1, <1>6, <2>1 DEF LinesRead, LabelsRead
<1> QED BY <1>1, <1>3, <1>5, <1>6, <1>7, <1>8, <1>9, <1>10 DEF JumpRead

\* Each jump of the text goes to its label.
LEMMA JumpsReach ==
  ASSUME ReadyToWrite, obj.sections.text = textBytes(Len(items)), NEW k \in CodeLines, IsJump(k)
  PROVE  JumpLands(k)
<1>1. PICK n \in Nat : n = Len(source) /\ LinesRead(n)
  BY DEF ReadyToWrite
<1>2. Lines = 1..n
  BY <1>1, SourcesAssumption DEF ReadyToWrite, IsText, Lines
<1>3. k \in 1..n /\ source[k].is = "instruction"
  BY <1>2 DEF CodeLines
<1>4. PICK i : i = ItemOf(k)
  OBVIOUS
<1>5. i \in 1..Len(items) /\ Len(items) = ItemOf(n)
  BY <1>1, <1>3, <1>4, ItemNumber DEF LinesRead
<1>6. SectionAt(k) = "text" /\ JumpRead(k, items[i])
  BY <1>1, <1>3, <1>4 DEF LinesRead, LineRead
<1>7. OffsetOf(k) = offsets[i]
  <2>1. PICK p \in Nat : p + 1 = k /\ p = k - 1
    <3>1. k - 1 \in Nat /\ (k - 1) + 1 = k
      BY <1>3
    <3> QED BY <3>1
  <2>2. ItemOf(p + 1) = ItemOf(p) + 1
    BY <1>3, <2>1, ItemNext
  <2>3. OffsetOf(k) = offsets[ItemOf(k - 1) + 1]
    BY <1>1, <1>3, <1>6, LineAt
  <2> QED BY <1>4, <2>1, <2>2, <2>3
<1>8. PICK at, s, bytes, d : at = offsets[i] /\ s = items[i].size /\ bytes = itemBytes(i) /\ d = Displacement(i)
  OBVIOUS
<1>9. /\ SubSeq(obj.sections.text, OffsetOf(k) + 1, OffsetOf(k) + items[ItemOf(k)].size) = bytes
      /\ Len(bytes) = s /\ MeansJump(bytes, items[i].condition, d)
  <2>1. items[i].is_jump
    BY <1>6 DEF JumpRead
  <2>2. SubSeq(obj.sections.text, offsets[i] + 1, offsets[i] + items[i].size) = itemBytes(i)
    BY <1>5, <2>1, BytesInText
  <2>3. Len(itemBytes(i)) = items[i].size /\ MeansJump(itemBytes(i), items[i].condition, Displacement(i))
    BY <1>5, <2>1, ItemBytes
  <2> QED BY <1>4, <1>7, <1>8, <2>2, <2>3
<1>10. PICK t \in 1..n : /\ source[t].is = "label" /\ SectionAt(t) = "text" /\ CutName(t) = Cut(FullName(nameOf(source[k].ops[1]), k))
                         /\ items[i].target = CutName(t) /\ offsets[label_item[items[i].target]] = OffsetOf(t)
                         /\ \A u \in 1..n : source[u].is = "label" /\ CutName(u) = CutName(t) => u = t
  BY <1>1, <1>3, <1>4, JumpTarget
<1>11. at + s + d = OffsetOf(t)
  <2>1. \A j \in 1..Len(items) : items[j].size \in 0..15
    BY Sizes
  <2>0. Len(items) \in Nat
    BY DEF ReadyToWrite, Shapes, ItemsOK
  <2>2. \A j \in 1..(Len(items) + 1) : offsets[j] \in 0..(15 * (j - 1))
    BY <2>0, <2>1, OffsetsBounded DEF ReadyToWrite, Laid
  <2>3. label_item[items[i].target] \in 1..(Len(items) + 1)
    BY <1>5, <1>6 DEF ReadyToWrite, JumpsKnown, JumpRead, Shapes, LabelsInText
  <2>4. PICK to \in Int : to = OffsetOf(t)
    BY <1>10, <2>2, <2>3
  <2>5. at \in Int /\ s \in Int
    <3>1. i \in 1..(Len(items) + 1)
      BY <1>5, <2>0
    <3>2. offsets[i] \in 0..(15 * (i - 1)) /\ items[i].size \in 0..15
      BY <1>5, <2>1, <2>2, <3>1
    <3> QED BY <1>8, <3>2
  <2>6. d = to - (at + s)
    BY <1>8, <1>10, <2>4 DEF Displacement
  <2> QED BY <2>4, <2>5, <2>6
\* The label is one that the text has for the name
<1> DEFINE name == FullName(nameOf(source[k].ops[1]), k)
<1>12. t \in IF LabelNamed(name) # {} THEN LabelNamed(name) ELSE CutTo(name)
  <2>1. t \in LabelLines /\ Cut(FullName(source[t].name, t)) = Cut(name)
    BY <1>2, <1>10 DEF LabelLines, CutName
  <2>2. t \in CutTo(name)
    BY <2>1 DEF CutTo
  <2>3. ASSUME NEW u \in LabelNamed(name) PROVE t = u
    <3>1. u \in 1..n /\ source[u].is = "label" /\ FullName(source[u].name, u) = name
      BY <1>2 DEF LabelNamed, LabelLines
    <3>2. CutName(u) = CutName(t)
      BY <1>10, <3>1 DEF CutName
    <3> QED BY <1>10, <3>1, <3>2
  <2> HIDE DEF name
  <2>4. LabelNamed(name) # {} => t \in LabelNamed(name)
    BY <2>3
  <2> QED BY <2>2, <2>4
<1> HIDE DEF name
<1>13. /\ IsJumpTo(bytes) /\ DecodeJump(bytes).length = s
       /\ DecodeJump(bytes).meaning.do = (IF source[k].m = "jmp" THEN "jump" ELSE "jump" \o ToString(ConditionOf(source[k].cc)))
       /\ SignedOf(SubSeq(DecodeJump(bytes).meaning.args[1].number, 1, 4)) = d
  <2>1. PICK condition : condition = items[i].condition
    OBVIOUS
  <2>2. source[k].m = "jmp" => condition = -1
    BY <1>6, <2>1 DEF JumpRead
  <2>3. source[k].m # "jmp" => condition = ConditionOf(source[k].cc) /\ ~(condition < 0)
    <3>1. ItemRight(items[i])
      BY <1>1, <1>5 DEF LinesRead
    <3> QED BY <1>6, <2>1, <3>1 DEF JumpRead, ItemRight
  <2>4. -1 < 0
    OBVIOUS
  <2> QED BY <1>9, <2>1, <2>2, <2>3, <2>4 DEF MeansJump
<1>14. /\ IsJumpTo(bytes)
       /\ DecodeJump(bytes).meaning.do = (IF source[k].m = "jmp" THEN "jump" ELSE "jump" \o ToString(ConditionOf(source[k].cc)))
       /\ DecodeJump(bytes).length = items[ItemOf(k)].size
       /\ \E target \in IF LabelNamed(name) # {} THEN LabelNamed(name) ELSE CutTo(name) :
             /\ SectionAt(target) = "text"
             /\ OffsetOf(k) + DecodeJump(bytes).length + SignedOf(SubSeq(DecodeJump(bytes).meaning.args[1].number, 1, 4)) = OffsetOf(target)
  BY <1>4, <1>7, <1>8, <1>10, <1>11, <1>12, <1>13, Zenon
<1> QED BY <1>9, <1>14, Zenon DEF JumpLands, name

\* Every jump of the finished text goes to its label. The invariant relates what
\* has been read to the lines: the section, the last label, the item of each
\* instruction and the item that each label of the code is before.
THEOREM JumpsLandAlways == Spec => []JumpsLand
<1>1. AsmInv /\ TextRead => JumpsLand
  <2> SUFFICES ASSUME AsmInv, TextRead PROVE JumpsLand
    OBVIOUS
  <2>1. JumpsShortest
    BY DEF AsmInv, LayoutInv, NoneTooLong, JumpsShortest
  <2>2. ASSUME pc = "check", NEW k \in CodeLines, IsJump(k) PROVE JumpLands(k)
    <3>1. ReadyToWrite /\ obj.sections.text = textBytes(Len(items))
      BY <2>2 DEF TextRead, ReadyToWrite, AsmInv, LayoutInv
    <3> QED BY <2>2, <3>1, JumpsReach
  <2> QED BY <2>1, <2>2 DEF JumpsLand
<1> QED BY AsmInit, AsmStep, TextReadInit, TextReadStep, <1>1, PTL DEF Spec

-----------------------------------------------------------------------------
(* The table of symbols                                                    *)

\* The table has one symbol for each name, which says whether it is an extern and whether it is defined
Table(symbols, names, externs, defined) ==
    /\ SymbolsOK(symbols)
    /\ externs \subseteq names /\ defined \subseteq names
    /\ \A i, j \in 1..Len(symbols) : symbols[i].name = symbols[j].name => i = j
    /\ \A name \in names : \E i \in 1..Len(symbols) : symbols[i].name = name
    /\ \A i \in 1..Len(symbols) : /\ symbols[i].name \in names
                                  /\ symbols[i].is_extern <=> symbols[i].name \in externs
                                  /\ symbols[i].section # "none" <=> symbols[i].name \in defined

\* asm_symbol() adds a name, of which nothing is known, or has it already.
LEMMA TableSymbol ==
  ASSUME NEW symbols, NEW N, NEW E, NEW D, Table(symbols, N, E, D), NEW name
  PROVE  Table(asm_symbol(symbols, name), N \cup {name}, E, D)
<1> DEFINE more == asm_symbol(symbols, name)
<1>0. SymbolsOK(symbols)
  BY DEF Table
<1>1. CASE symbolIndex(symbols, name) # 0
  <2>1. more = symbols
    BY <1>1 DEF asm_symbol
  <2>2. IsFirst(symbols, name, symbolIndex(symbols, name))
    BY <1>0, <1>1, SymbolIs
  <2>3. name \in N
    BY <2>2 DEF Table, IsFirst
  <2>4. N \cup {name} = N
    BY <2>3
  <2> HIDE DEF more
  <2> QED BY <2>1, <2>4 DEF more
<1>2. CASE symbolIndex(symbols, name) = 0
  <2>1. more = Append(symbols, Symbol(name))
    BY <1>2 DEF asm_symbol
  <2>2. PICK n \in Nat : n = Len(symbols)
    BY <1>0 DEF SymbolsOK
  <2>3. \A i \in 1..n : symbols[i].name # name
    <3>1. ~IsFirst(symbols, name, 0)
      BY <2>2 DEF IsFirst
    <3> QED BY <1>0, <1>2, <2>2, <3>1, SymbolIs
  <2>4. SymbolsOK(more)
    BY <1>0, SymbolMade DEF Kept
  <2> HIDE DEF more
  <2>5. Len(more) = n + 1 /\ more[n + 1] = Symbol(name) /\ \A i \in 1..n : more[i] = symbols[i]
    BY <1>0, <2>1, <2>2, AppendOne DEF SymbolsOK
  <2>6. Symbol(name).name = name /\ Symbol(name).section = "none" /\ ~Symbol(name).is_extern
    BY DEF Symbol
  <2>7. name \notin N
    BY <2>2, <2>3 DEF Table
  <2>8. \A i \in 1..(n + 1) : i \in 1..n \/ i = n + 1
    BY <2>2
  <2>9. n + 1 \in 1..(n + 1) /\ \A i \in 1..n : i \in 1..(n + 1)
    BY <2>2
  <2>10. \A i, j \in 1..(n + 1) : more[i].name = more[j].name => i = j
    BY <2>2, <2>3, <2>5, <2>6, <2>8 DEF Table
  <2>11. \A x \in N \cup {name} : \E i \in 1..(n + 1) : more[i].name = x
    <3>1. CASE \A x \in N : \E i \in 1..n : more[i].name = x
      BY <2>5, <2>6, <2>9, <3>1
    <3> QED BY <2>2, <2>5, <3>1 DEF Table
  <2>12. \A i \in 1..(n + 1) : /\ more[i].name \in N \cup {name} /\ (more[i].is_extern <=> more[i].name \in E)
                              /\ (more[i].section # "none" <=> more[i].name \in D)
    <3>1. name \notin E /\ name \notin D
      BY <2>7 DEF Table
    <3>2. \A i \in 1..n : /\ more[i].name \in N /\ (more[i].is_extern <=> more[i].name \in E)
                          /\ (more[i].section # "none" <=> more[i].name \in D)
      BY <2>2, <2>5 DEF Table
    <3> QED BY <2>5, <2>6, <2>8, <3>1, <3>2
  <2>13. E \subseteq N \cup {name} /\ D \subseteq N \cup {name}
    BY DEF Table
  <2> QED BY <2>4, <2>5, <2>10, <2>11, <2>12, <2>13 DEF Table, more
<1> QED BY <1>1, <1>2

\* The names of the first relocations
RelocNames(relocs, n) == {relocs[i].symbol : i \in 1..n}

\* asm_symbols() adds the names of the relocations.
LEMMA TableSymbols ==
  ASSUME NEW symbols, NEW N, NEW E, NEW D, Table(symbols, N, E, D), NEW relocs, NEW n \in Nat, n = Len(relocs)
  PROVE  Table(asm_symbols(symbols, relocs), N \cup RelocNames(relocs, n), E, D)
<1> DEFINE f == CHOOSE g : AreMade(g, n, symbols, relocs)
<1>1. asm_symbols(symbols, relocs) = f[n]
  BY DEF asm_symbols, AreMade
<1>2. AreMade(f, n, symbols, relocs)
  BY MadeExist, Zenon
<1> HIDE DEF f
<1>3. \A i \in 0..n : f[i] = IF i = 0 THEN symbols ELSE asm_symbol(f[i - 1], relocs[i].symbol)
  BY <1>2, Zenon DEF AreMade
<1> DEFINE T == {m \in 0..n : ~Table(f[m], N \cup RelocNames(relocs, m), E, D)}
<1>4. ASSUME NEW m \in T, \A k \in T : m <= k PROVE FALSE
  <2>1. m \in 0..n /\ ~Table(f[m], N \cup RelocNames(relocs, m), E, D)
    BY Zenon
  <2>2. \A k \in 0..n : k \notin T => Table(f[k], N \cup RelocNames(relocs, k), E, D)
    BY Zenon
  <2> HIDE DEF T
  <2>3. \A k \in 0..n : k < m => k \notin T
    BY <1>4, <2>1
  <2>4. m # 0
    <3>1. N \cup RelocNames(relocs, 0) = N
      BY DEF RelocNames
    <3>2. f[0] = symbols
      BY <1>3
    <3> QED BY <2>1, <3>1, <3>2
  <2>5. PICK k \in 0..n : k = m - 1 /\ k < m
    BY <2>1, <2>4
  <2>6. Table(f[k], N \cup RelocNames(relocs, k), E, D)
    BY <2>2, <2>3, <2>5, Zenon
  <2>7. f[m] = asm_symbol(f[k], relocs[m].symbol)
    BY <1>3, <2>1, <2>4, <2>5
  <2>8. (N \cup RelocNames(relocs, k)) \cup {relocs[m].symbol} = N \cup RelocNames(relocs, m)
    <3>1. \A i : i \in 1..m <=> i \in 1..k \/ i = m
      BY <2>1, <2>5
    <3> QED BY <3>1 DEF RelocNames
  <2>9. Table(f[m], (N \cup RelocNames(relocs, k)) \cup {relocs[m].symbol}, E, D)
    BY <2>6, <2>7, TableSymbol
  <2> QED BY <2>1, <2>8, <2>9
<1>5. T = {}
  <2>1. T \in SUBSET Nat
    OBVIOUS
  <2> HIDE DEF T
  <2> QED BY <1>4, <2>1, LeastNat
<1>6. n \in 0..n
  OBVIOUS
<1>7. Table(f[n], N \cup RelocNames(relocs, n), E, D)
  BY <1>5, <1>6, Zenon
<1> QED BY <1>1, <1>7

\* A symbol that is marked, or gets its place
LEMMA TableChanged ==
  ASSUME NEW symbols, NEW N, NEW E, NEW D, Table(symbols, N, E, D), NEW i \in 1..Len(symbols), NEW s,
         DOMAIN s = DOMAIN symbols[i], s.name = symbols[i].name, NEW E1, NEW D1,
         E1 \in {E, E \cup {s.name}}, D1 \in {D, D \cup {s.name}},
         s.is_extern <=> s.name \in E1, s.section # "none" <=> s.name \in D1
  PROVE  Table([symbols EXCEPT ![i] = s], N, E1, D1)
<1> DEFINE new == [symbols EXCEPT ![i] = s]
<1>0. SymbolsOK(symbols)
  BY DEF Table
<1>1. PICK n \in Nat : n = Len(symbols) /\ DOMAIN symbols = 1..n
  BY <1>0 DEF SymbolsOK
<1>2. new = [j \in 1..n |-> IF j = i THEN s ELSE symbols[j]]
  BY <1>1
<1> HIDE DEF new
<1>3. new \in Seq(Range(new)) /\ Len(new) = n
  <2>1. new = [j \in 1..n |-> new[j]]
    BY <1>2
  <2> QED BY <1>1, <2>1, Sequence
<1>4. \A j \in 1..n : new[j] = IF j = i THEN s ELSE symbols[j]
  BY <1>2
<1>5. SymbolsOK(new)
  BY <1>0, <1>1, <1>3, <1>4 DEF SymbolsOK
<1>6. \A j \in 1..n : new[j].name = symbols[j].name
  BY <1>4
<1>7. s.name \in N /\ \A j \in 1..n : j # i => symbols[j].name # s.name
  BY <1>1 DEF Table
<1>8. E1 \subseteq N /\ D1 \subseteq N /\ \A x : x # s.name => (x \in E1 <=> x \in E) /\ (x \in D1 <=> x \in D)
  BY <1>7 DEF Table
<1>9. \A j \in 1..n : /\ new[j].name \in N /\ (new[j].is_extern <=> new[j].name \in E1)
                      /\ (new[j].section # "none" <=> new[j].name \in D1)
  <2> SUFFICES ASSUME NEW j \in 1..n
               PROVE  /\ new[j].name \in N /\ (new[j].is_extern <=> new[j].name \in E1)
                      /\ (new[j].section # "none" <=> new[j].name \in D1)
    OBVIOUS
  <2>1. CASE j = i
    BY <1>4, <1>7, <2>1
  <2>2. CASE j # i
    <3>1. new[j] = symbols[j] /\ symbols[j].name # s.name
      BY <1>4, <1>7, <2>2
    <3>2. /\ symbols[j].name \in N /\ (symbols[j].is_extern <=> symbols[j].name \in E)
          /\ (symbols[j].section # "none" <=> symbols[j].name \in D)
      BY <1>1 DEF Table
    <3> QED BY <1>8, <3>1, <3>2
  <2> QED BY <2>1, <2>2
<1>10. \A j, k \in 1..n : new[j].name = new[k].name => j = k
  BY <1>1, <1>6 DEF Table
<1>11. \A name \in N : \E j \in 1..n : new[j].name = name
  BY <1>1, <1>6 DEF Table
<1>12. Table(new, N, E1, D1)
  BY <1>3, <1>5, <1>8, <1>9, <1>10, <1>11 DEF Table
<1> QED BY <1>12 DEF new

\* The name of a symbol that has been found
LEMMA TableFound ==
  ASSUME NEW symbols, NEW N, NEW E, NEW D, Table(symbols, N, E, D), NEW name \in N
  PROVE  LET i == symbolIndex(symbols, name) IN i \in 1..Len(symbols) /\ symbols[i].name = name
<1>1. SymbolsOK(symbols) /\ \E i \in 1..Len(symbols) : symbols[i].name = name
  BY DEF Table
<1>2. IsFirst(symbols, name, symbolIndex(symbols, name))
  BY <1>1, SymbolIs
<1> QED BY <1>2 DEF IsFirst

\* asm_finish_text() defines the labels of the code.
LEMMA TablePlaced ==
  ASSUME NEW symbols, NEW N, NEW E, NEW D, Table(symbols, N, E, D)
  PROVE  Table([i \in DOMAIN symbols |-> placedSymbol(symbols[i])], N, E, D \cup (DOMAIN label_item \cap N))
<1> DEFINE new == [i \in DOMAIN symbols |-> placedSymbol(symbols[i])]
           D1 == D \cup (DOMAIN label_item \cap N)
<1>0. SymbolsOK(symbols)
  BY DEF Table
<1>1. PICK n \in Nat : n = Len(symbols) /\ DOMAIN symbols = 1..n
  BY <1>0 DEF SymbolsOK
<1>2. new = [i \in 1..n |-> placedSymbol(symbols[i])]
  BY <1>1
<1> HIDE DEF new
<1>3. new \in Seq(Range(new)) /\ Len(new) = n
  <2>1. new = [j \in 1..n |-> new[j]]
    BY <1>2
  <2> QED BY <1>1, <2>1, Sequence
<1>4. \A i \in 1..n : /\ DOMAIN new[i] = DOMAIN symbols[i] /\ new[i].name = symbols[i].name /\ new[i].is_extern = symbols[i].is_extern
                      /\ (new[i].section # "none" <=> symbols[i].section # "none" \/ symbols[i].name \in DOMAIN label_item)
  <2> SUFFICES ASSUME NEW i \in 1..n
               PROVE  /\ DOMAIN new[i] = DOMAIN symbols[i] /\ new[i].name = symbols[i].name /\ new[i].is_extern = symbols[i].is_extern
                      /\ (new[i].section # "none" <=> symbols[i].section # "none" \/ symbols[i].name \in DOMAIN label_item)
    OBVIOUS
  <2>1. PICK s : s = symbols[i] /\ {"name", "section", "offset", "is_global", "is_extern"} \subseteq DOMAIN s
    BY <1>0, <1>1 DEF SymbolsOK
  <2>2. new[i] = placedSymbol(s)
    BY <1>2, <2>1
  <2>3. CASE s.name \in DOMAIN label_item
    <3>1. PICK at : new[i] = [s EXCEPT !.section = "text", !.offset = at]
      BY <2>2, <2>3 DEF placedSymbol
    <3> QED BY <2>1, <2>3, <3>1
  <2>4. CASE s.name \notin DOMAIN label_item
    BY <2>1, <2>2, <2>4 DEF placedSymbol
  <2> QED BY <2>3, <2>4
<1>5. SymbolsOK(new)
  BY <1>0, <1>1, <1>3, <1>4 DEF SymbolsOK
<1>6. \A j, k \in 1..n : new[j].name = new[k].name => j = k
  BY <1>1, <1>4 DEF Table
<1>7. \A name \in N : \E j \in 1..n : new[j].name = name
  BY <1>1, <1>4 DEF Table
<1>8. E \subseteq N /\ D1 \subseteq N
  BY DEF Table
<1>9. \A j \in 1..n : /\ new[j].name \in N /\ (new[j].is_extern <=> new[j].name \in E)
                      /\ (new[j].section # "none" <=> new[j].name \in D1)
  <2> SUFFICES ASSUME NEW j \in 1..n
               PROVE  /\ new[j].name \in N /\ (new[j].is_extern <=> new[j].name \in E)
                      /\ (new[j].section # "none" <=> new[j].name \in D1)
    OBVIOUS
  <2>1. /\ symbols[j].name \in N /\ (symbols[j].is_extern <=> symbols[j].name \in E)
        /\ (symbols[j].section # "none" <=> symbols[j].name \in D)
    BY <1>1 DEF Table
  <2> QED BY <1>4, <2>1
<1> HIDE DEF D1
<1>10. Table(new, N, E, D1)
  BY <1>3, <1>5, <1>6, <1>7, <1>8, <1>9 DEF Table
<1> QED BY <1>10 DEF new, D1

\* check_symbols() finds a symbol exactly when a name is neither defined nor an extern.
LEMMA TableUndefined ==
  ASSUME NEW symbols, NEW N, NEW E, NEW D, Table(symbols, N, E, D)
  PROVE  (\E s \in Range(symbols) : s.section = "none" /\ ~s.is_extern) <=> \E name \in N : name \notin D \cup E
<1>1. PICK n \in Nat : n = Len(symbols) /\ DOMAIN symbols = 1..n
  BY DEF Table, SymbolsOK
<1>2. \A i \in 1..n : /\ symbols[i].name \in N
                      /\ (symbols[i].section = "none" /\ ~symbols[i].is_extern <=> symbols[i].name \notin D \cup E)
  BY <1>1 DEF Table
<1>3. \A name \in N : \E i \in 1..n : symbols[i].name = name
  BY <1>1 DEF Table
<1>4. ASSUME NEW s \in Range(symbols), s.section = "none", ~s.is_extern PROVE \E name \in N : name \notin D \cup E
  <2>1. PICK i \in 1..n : s = symbols[i]
    BY <1>1 DEF Range
  <2> QED BY <1>2, <1>4, <2>1
<1>5. ASSUME NEW name \in N, name \notin D \cup E PROVE \E s \in Range(symbols) : s.section = "none" /\ ~s.is_extern
  <2>1. PICK i \in 1..n : symbols[i].name = name
    BY <1>3
  <2>2. symbols[i] \in Range(symbols)
    BY <1>1 DEF Range
  <2> QED BY <1>2, <1>5, <2>1, <2>2
<1> QED BY <1>4, <1>5

-----------------------------------------------------------------------------
(* The names of the lines                                                  *)

\* The names a line makes symbols for, and those of the first lines
LineNames(k) ==
    CASE source[k].is = "label" -> {CutName(k)}
      [] source[k].is = "extern" -> {Cut(source[k].name.parts)}
      [] OTHER -> {Cut(name) : name \in NamesIn(k)}
NamesTo(n) == UNION {LineNames(k) : k \in 1..n}
ExternsTo(n) == UNION {LineNames(k) : k \in {j \in 1..n : source[j].is = "extern"}}
DataNames(n) == UNION {LineNames(k) : k \in {j \in 1..n : source[j].is = "label" /\ SectionAt(j) # "text"}}
JumpNames(n) == UNION {LineNames(k) : k \in {j \in 1..n : IsJump(j)}}

\* Nothing is wrong with a line on its own
Faultless(k) ==
    /\ source[k].is = "section" => source[k].section \in sectionNames
    /\ source[k].is = "data" => source[k].size = 8 \/ \A v \in Range(source[k].values) : v.is = "number"
    /\ source[k].is = "instruction" => (\A op \in Range(source[k].ops) : ~BadArg(op)) /\ ~Unknown(k)

\* One line more
LEMMA NamesNext ==
  ASSUME NEW n \in Nat
  PROVE  /\ NamesTo(n + 1) = NamesTo(n) \cup LineNames(n + 1)
         /\ ExternsTo(n + 1) = IF source[n + 1].is = "extern" THEN ExternsTo(n) \cup LineNames(n + 1) ELSE ExternsTo(n)
         /\ DataNames(n + 1) = IF source[n + 1].is = "label" /\ SectionAt(n + 1) # "text" THEN DataNames(n) \cup LineNames(n + 1) ELSE DataNames(n)
         /\ JumpNames(n + 1) = IF IsJump(n + 1) THEN JumpNames(n) \cup LineNames(n + 1) ELSE JumpNames(n)
<1>1. \A j : j \in 1..(n + 1) <=> j \in 1..n \/ j = n + 1
  OBVIOUS
<1>2. NamesTo(n + 1) = NamesTo(n) \cup LineNames(n + 1)
  BY <1>1, Zenon DEF NamesTo
<1>3. ExternsTo(n + 1) = IF source[n + 1].is = "extern" THEN ExternsTo(n) \cup LineNames(n + 1) ELSE ExternsTo(n)
  BY <1>1 DEF ExternsTo
<1>4. DataNames(n + 1) = IF source[n + 1].is = "label" /\ SectionAt(n + 1) # "text" THEN DataNames(n) \cup LineNames(n + 1) ELSE DataNames(n)
  BY <1>1 DEF DataNames
<1>5. JumpNames(n + 1) = IF IsJump(n + 1) THEN JumpNames(n) \cup LineNames(n + 1) ELSE JumpNames(n)
  BY <1>1 DEF JumpNames
<1> QED BY <1>2, <1>3, <1>4, <1>5

\* While the text stays, so do its names and what is wrong with it.
LEMMA SameNames ==
  ASSUME source' = source
  PROVE  /\ \A k : (Faultless(k)' <=> Faultless(k))
         /\ \A n : NamesTo(n)' = NamesTo(n) /\ ExternsTo(n)' = ExternsTo(n) /\ DataNames(n)' = DataNames(n) /\ JumpNames(n)' = JumpNames(n)
<1>1. \A k : NamesIn(k)' = NamesIn(k) /\ (Unknown(k)' <=> Unknown(k))
  BY SameText
<1>2. \A k : LineNames(k)' = LineNames(k)
  <2>1. \A k : CutName(k)' = CutName(k)
    BY SameText
  <2> QED BY <1>1, <2>1, Zenon DEF LineNames, Cut
<1>3. \A n : NamesTo(n)' = NamesTo(n) /\ ExternsTo(n)' = ExternsTo(n)
  BY <1>2, Zenon DEF NamesTo, ExternsTo
<1>4. \A n : DataNames(n)' = DataNames(n)
  <2>1. \A k : SectionAt(k)' = SectionAt(k)
    BY SameText
  <2> QED BY <1>2, <2>1, Zenon DEF DataNames
<1>5. \A n : JumpNames(n)' = JumpNames(n)
  <2>1. \A k : IsJump(k)' <=> IsJump(k)
    BY SameText
  <2> QED BY <1>2, <2>1, Zenon DEF JumpNames
<1>6. \A k : Faultless(k)' <=> Faultless(k)
  BY <1>1, Zenon DEF Faultless
<1> QED BY <1>3, <1>4, <1>5, <1>6

-----------------------------------------------------------------------------
(* The mistakes                                                            *)

\* A text has one of the mistakes when one of its lines, or two of them, have what it is for.
LEMMA MistakesAre ==
  ASSUME NEW m
  PROVE  m \in Mistakes <=>
           \/ m = "label already defined" /\ \E j, k \in LabelLines : j < k /\ CutName(j) = CutName(k)
           \/ m = "unknown section" /\ \E k \in Lines : source[k].is = "section" /\ source[k].section \notin sectionNames
           \/ m = "not a number" /\ \E k \in Lines : source[k].is = "data" /\ source[k].size # 8 /\ \E v \in Range(source[k].values) : v.is = "name"
           \/ m = "align in the text section" /\ \E k \in Lines : source[k].is = "align" /\ SectionAt(k) = "text"
           \/ m = "outside of the text section" /\ \E k \in CodeLines : SectionAt(k) # "text"
           \/ m = "unknown operand" /\ \E k \in CodeLines : \E a \in Range(source[k].ops) : BadArg(a)
           \/ m = "unknown instruction" /\ \E k \in CodeLines : Unknown(k)
           \/ m = "a jump to what isn't a label of the code" /\ \E k \in CodeLines : IsJump(k) /\ \E name \in NamesIn(k) : Cut(name) \notin CutLabels({"text"})
           \/ m = "not defined" /\ \E k \in Lines : \E name \in NamesIn(k) : Cut(name) \notin CutLabels(All) \cup Externs
<1>1. \A x, y : \A P \in BOOLEAN : x \in {z \in {y} : P} <=> x = y /\ P
  OBVIOUS
<1> QED BY Zenon DEF Mistakes, CutName, sectionNames

\* The mistakes are those of the text.
LEMMA SameMistakes == ASSUME source' = source PROVE Mistakes' = Mistakes
<1>1. /\ \A k : SectionAt(k)' = SectionAt(k) /\ (IsJump(k)' <=> IsJump(k))
      /\ \A name, k : FullName(name, k)' = FullName(name, k)
  BY SameText
<1>2. Lines' = Lines /\ LabelLines' = LabelLines /\ CodeLines' = CodeLines /\ Externs' = Externs
  BY Zenon DEF Lines, LabelLines, CodeLines, Externs, Cut
<1>3. \A k : NamesIn(k)' = NamesIn(k) /\ (Unknown(k)' <=> Unknown(k))
  BY SameText
<1>4. \A where : CutLabels(where)' = CutLabels(where)
  BY <1>1, <1>2, Zenon DEF CutLabels, Cut
<1> DEFINE
      Twice == {m \in {"label already defined"} : \E j, k \in LabelLines : j < k /\ Cut(FullName(source[j].name, j)) = Cut(FullName(source[k].name, k))}
      OfLines == {m \in {"unknown section"} : \E k \in Lines : source[k].is = "section" /\ source[k].section \notin {".text", ".data", ".rdata", ".rodata"}}
                 \cup {m \in {"not a number"} : \E k \in Lines : source[k].is = "data" /\ source[k].size # 8 /\ \E v \in Range(source[k].values) : v.is = "name"}
                 \cup {m \in {"align in the text section"} : \E k \in Lines : source[k].is = "align" /\ SectionAt(k) = "text"}
      OfCode == {m \in {"outside of the text section"} : \E k \in CodeLines : SectionAt(k) # "text"}
                \cup {m \in {"unknown operand"} : \E k \in CodeLines : \E a \in Range(source[k].ops) : BadArg(a)}
                \cup {m \in {"unknown instruction"} : \E k \in CodeLines : Unknown(k)}
      OfJumps == {m \in {"a jump to what isn't a label of the code"} : \E k \in CodeLines : IsJump(k) /\ \E n \in NamesIn(k) : Cut(n) \notin CutLabels({"text"})}
      OfNames == {m \in {"not defined"} : \E k \in Lines : \E n \in NamesIn(k) : Cut(n) \notin CutLabels(All) \cup Externs}
<1>5. Mistakes = Twice \cup OfLines \cup OfCode \cup OfJumps \cup OfNames /\ Mistakes' = Twice' \cup OfLines' \cup OfCode' \cup OfJumps' \cup OfNames'
  BY DEF Mistakes
<1>6. Twice' = Twice
  BY <1>1, <1>2, Zenon DEF Cut
<1>7. OfLines' = OfLines
  BY <1>1, <1>2, Zenon
<1>8. OfCode' = OfCode
  BY <1>1, <1>2, <1>3, Zenon
<1>9. OfJumps' = OfJumps
  BY <1>1, <1>2, <1>3, <1>4, Zenon DEF Cut
<1>10. OfNames' = OfNames
  BY <1>2, <1>3, <1>4, Zenon DEF Cut, All
<1> HIDE DEF Twice, OfLines, OfCode, OfJumps, OfNames
<1> QED BY <1>5, <1>6, <1>7, <1>8, <1>9, <1>10

\* The lines of a text, and its labels and externs, by their numbers
LEMMA TextNames ==
  ASSUME NEW n \in Nat, Lines = 1..n
  PROVE  /\ LabelLines = LabelsTo(n) /\ Externs = ExternsTo(n)
         /\ CutLabels({"text"}) = {CutName(k) : k \in TextLabels(n)}
         /\ CutLabels(All) = {CutName(k) : k \in LabelsTo(n)}
<1>1. LabelLines = LabelsTo(n)
  BY DEF LabelLines, LabelsTo
<1>2. Externs = ExternsTo(n)
  <2>1. \A k \in 1..n : source[k].is = "extern" => LineNames(k) = {Cut(source[k].name.parts)}
    BY DEF LineNames
  <2> QED BY <2>1 DEF Externs, ExternsTo
<1>3. CutLabels({"text"}) = {CutName(k) : k \in TextLabels(n)}
  BY <1>1 DEF CutLabels, CutName, TextLabels
<1>4. CutLabels(All) = {CutName(k) : k \in LabelsTo(n)}
  <2>1. \A k \in 1..n : SectionAt(k) \in All
    BY Sections DEF All
  <2>2. \A k \in LabelsTo(n) : k \in 1..n
    BY DEF LabelsTo
  <2>3. {j \in LabelsTo(n) : SectionAt(j) \in All} = LabelsTo(n)
    BY <2>1, <2>2, Zenon
  <2> QED BY <1>1, <2>3, Zenon DEF CutLabels, CutName
<1> QED BY <1>1, <1>2, <1>3, <1>4

JumpTargets == {items[i].target : i \in JumpItems}

\* What has been checked of the lines that are read
CheckedTo(n) ==
    /\ \A k \in 1..n : Faultless(k)
    /\ JumpTargets = JumpNames(n)
    /\ Table(obj.symbols, NamesTo(n), ExternsTo(n), DataNames(n))
CheckedAfter(n) == (pc' = "lines" => CheckedTo(n + 1)') /\ (pc' = "failed" => error' \in Mistakes)

\* One line more, with its names and its jump
LEMMA CheckedNext ==
  ASSUME NEW n \in Nat, CheckedTo(n), source' = source, Faultless(n + 1),
         NEW names, names = LineNames(n + 1),
         JumpTargets' = IF IsJump(n + 1) THEN JumpTargets \cup names ELSE JumpTargets,
         Table(obj'.symbols, NamesTo(n) \cup names, IF source[n + 1].is = "extern" THEN ExternsTo(n) \cup names ELSE ExternsTo(n),
               IF source[n + 1].is = "label" /\ SectionAt(n + 1) # "text" THEN DataNames(n) \cup names ELSE DataNames(n))
  PROVE  CheckedTo(n + 1)'
<1>1. /\ NamesTo(n + 1) = NamesTo(n) \cup names
      /\ ExternsTo(n + 1) = IF source[n + 1].is = "extern" THEN ExternsTo(n) \cup names ELSE ExternsTo(n)
      /\ DataNames(n + 1) = IF source[n + 1].is = "label" /\ SectionAt(n + 1) # "text" THEN DataNames(n) \cup names ELSE DataNames(n)
      /\ JumpNames(n + 1) = IF IsJump(n + 1) THEN JumpNames(n) \cup names ELSE JumpNames(n)
  BY NamesNext
<1>2. /\ \A k : (Faultless(k)' <=> Faultless(k))
      /\ \A k : NamesTo(k)' = NamesTo(k) /\ ExternsTo(k)' = ExternsTo(k) /\ DataNames(k)' = DataNames(k) /\ JumpNames(k)' = JumpNames(k)
  BY SameNames
<1>3. \A k \in 1..(n + 1) : Faultless(k)'
  <2>1. \A k \in 1..(n + 1) : k \in 1..n \/ k = n + 1
    OBVIOUS
  <2> QED BY <1>2, <2>1 DEF CheckedTo
<1>4. JumpTargets' = JumpNames(n + 1)
  BY <1>1 DEF CheckedTo
<1>5. Table(obj'.symbols, NamesTo(n + 1), ExternsTo(n + 1), DataNames(n + 1))
  BY <1>1, Zenon
<1> QED BY <1>2, <1>3, <1>4, <1>5, Zenon DEF CheckedTo

\* While the items stay, so do the jumps.
LEMMA SameTargets == ASSUME items' = items PROVE JumpTargets' = JumpTargets
BY DEF JumpTargets, JumpItems

\* A line that adds no name
LEMMA QuietNext ==
  ASSUME NEW n \in Nat, CheckedTo(n), source' = source, Faultless(n + 1), items' = items, obj'.symbols = obj.symbols,
         source[n + 1].is \in {"section", "times", "align"}
  PROVE  CheckedTo(n + 1)'
<1>1. LineNames(n + 1) = {}
  BY DEF LineNames, NamesIn
<1>2. ~IsJump(n + 1)
  BY DEF IsJump
<1>3. Table(obj'.symbols, NamesTo(n) \cup {}, ExternsTo(n), DataNames(n))
  BY DEF CheckedTo
<1> QED BY <1>1, <1>2, <1>3, SameTargets, CheckedNext

\* section_line fails for a section it doesn't know.
LEMMA SectionLineChecked ==
  ASSUME NEW n, AtLine(n), CheckedTo(n), section_line
  PROVE  CheckedAfter(n)
<1>1. n \in Nat /\ text = source[n + 1] /\ n + 1 \in Lines /\ pc = "lines"
  BY DEF AtLine, Lines
<1>2. source' = source /\ source[n + 1].is = "section" /\ obj' = obj /\ items' = items
  BY <1>1 DEF section_line, reading
<1>3. CASE source[n + 1].section \in sectionNames
  <2>1. pc' = "lines"
    BY <1>1, <1>3 DEF section_line, going
  <2>2. Faultless(n + 1)
    BY <1>2, <1>3 DEF Faultless
  <2>3. CheckedTo(n + 1)'
    BY <1>1, <1>2, <2>2, QuietNext
  <2> QED BY <2>1, <2>3 DEF CheckedAfter
<1>4. CASE source[n + 1].section \notin sectionNames
  <2>1. pc' = "failed" /\ error' = "unknown section"
    BY <1>1, <1>4 DEF section_line, asm_fail
  <2>2. error' \in Mistakes
    BY <1>1, <1>2, <1>4, <2>1, MistakesAre
  <2> QED BY <2>1, <2>2 DEF CheckedAfter
<1> QED BY <1>3, <1>4

\* times_line doesn't fail,
LEMMA TimesChecked ==
  ASSUME NEW n, AtLine(n), CheckedTo(n), times_line
  PROVE  CheckedAfter(n)
<1>1. n \in Nat /\ text = source[n + 1] /\ pc = "lines" /\ ObjOK
  BY DEF AtLine
<1>2. source' = source /\ source[n + 1].is = "times" /\ items' = items /\ pc' = "lines"
  BY <1>1 DEF times_line, reading, going
<1>3. PICK bytes : obj' = [obj EXCEPT !.sections[section] = bytes]
  BY DEF times_line
<1>4. obj'.symbols = obj.symbols
  BY <1>1, <1>3 DEF ObjOK
<1>5. Faultless(n + 1)
  BY <1>2 DEF Faultless
<1>6. CheckedTo(n + 1)'
  BY <1>1, <1>2, <1>4, <1>5, QuietNext
<1> QED BY <1>2, <1>6 DEF CheckedAfter

\* and align_line does in the text section.
LEMMA AlignChecked ==
  ASSUME NEW n, AtLine(n), CheckedTo(n), align_line
  PROVE  CheckedAfter(n)
<1>1. n \in Nat /\ text = source[n + 1] /\ n + 1 \in Lines /\ pc = "lines" /\ ObjOK /\ section = SectionAt(n + 1)
  BY DEF AtLine, Lines, Reading
<1>2. source' = source /\ source[n + 1].is = "align" /\ items' = items
  BY <1>1 DEF align_line, reading
<1>3. CASE section = "text"
  <2>1. pc' = "failed" /\ error' = "align in the text section"
    BY <1>3 DEF align_line, asm_fail
  <2>2. error' \in Mistakes
    BY <1>1, <1>2, <1>3, <2>1, MistakesAre
  <2> QED BY <2>1, <2>2 DEF CheckedAfter
<1>4. CASE section # "text"
  <2>0. pc' = "lines"
    BY <1>1, <1>4 DEF align_line, going
  <2>1. PICK to, bytes : obj' = [[obj EXCEPT !.alignment[section] = to] EXCEPT !.sections[section] = bytes]
    BY <1>4 DEF align_line
  <2>2. obj'.symbols = obj.symbols
    BY <1>1, <2>1 DEF ObjOK
  <2>3. Faultless(n + 1)
    BY <1>2 DEF Faultless
  <2>4. CheckedTo(n + 1)'
    BY <1>1, <1>2, <2>2, <2>3, QuietNext
  <2> QED BY <2>0, <2>4 DEF CheckedAfter
<1> QED BY <1>3, <1>4

\* A name that is declared is cut like others.
LEMMA DeclaredName ==
  ASSUME NEW name, IsName(name)
  PROVE  asm_symbol_name(name, <<>>) = Cut(name.parts)
<1>1. PICK p, S : p = name.parts /\ S = Range(p)
  OBVIOUS
<1>2. p \in Seq(S)
  BY <1>1 DEF IsName
<1>3. <<>> \o p = p
  BY <1>2, ConcatEmptySeq
<1>4. (IF name.dot THEN <<>> \o name.parts ELSE name.parts) = p
  BY <1>1, <1>3
<1> QED BY <1>1, <1>4, Zenon DEF asm_symbol_name, Cut

\* declare_line doesn't fail: it makes a symbol of the name, or marks the one there is.
LEMMA DeclareChecked ==
  ASSUME NEW n, AtLine(n), CheckedTo(n), declare_line
  PROVE  CheckedAfter(n)
<1>1. n \in Nat /\ text = source[n + 1] /\ pc = "lines" /\ ObjOK /\ IsLine(source[n + 1])
  BY DEF AtLine
<1>2. source' = source /\ source[n + 1].is \in {"extern", "global"} /\ items' = items /\ pc' = "lines"
  BY <1>1 DEF declare_line, reading, going
<1>3. PICK name : name = asm_symbol_name(text.name, <<>>) /\ name = Cut(source[n + 1].name.parts)
  BY <1>1, <1>2, DeclaredName DEF IsLine
<1>4. PICK symbols, i, new : /\ symbols = asm_symbol(obj.symbols, name) /\ i = symbolIndex(symbols, name)
                             /\ new = IF text.is = "extern" THEN [symbols EXCEPT ![i].is_extern = TRUE] ELSE [symbols EXCEPT ![i].is_global = TRUE]
                             /\ obj' = [obj EXCEPT !.symbols = new]
  BY <1>3 DEF declare_line
<1>5. obj'.symbols = new
  BY <1>1, <1>4 DEF ObjOK
<1>6. LineNames(n + 1) = {name}
  BY <1>2, <1>3 DEF LineNames, NamesIn
<1>7. PICK N, E, D : N = NamesTo(n) \cup {name} /\ E = ExternsTo(n) /\ D = DataNames(n)
  OBVIOUS
<1>8. Table(symbols, N, E, D)
  BY <1>4, <1>7, TableSymbol DEF CheckedTo
<1>9. i \in 1..Len(symbols) /\ symbols[i].name = name /\ {"name", "section", "offset", "is_global", "is_extern"} \subseteq DOMAIN symbols[i]
  <2>1. name \in N
    BY <1>7
  <2>2. i \in 1..Len(symbols) /\ symbols[i].name = name
    BY <1>4, <1>8, <2>1, TableFound
  <2> QED BY <1>8, <2>2 DEF Table, SymbolsOK
<1>10. (symbols[i].is_extern <=> name \in E) /\ (symbols[i].section # "none" <=> name \in D)
  BY <1>8, <1>9 DEF Table
<1>11. Table(new, N, IF source[n + 1].is = "extern" THEN E \cup {name} ELSE E, D)
  <2>1. CASE text.is = "extern"
    <3>1. PICK s : s = [symbols[i] EXCEPT !.is_extern = TRUE]
      OBVIOUS
    <3>2. new = [symbols EXCEPT ![i] = s]
      BY <1>4, <2>1, <3>1
    <3>3. DOMAIN s = DOMAIN symbols[i] /\ s.name = name /\ s.section = symbols[i].section /\ s.is_extern
      BY <1>9, <3>1
    <3>4. E \cup {name} \in {E, E \cup {s.name}} /\ D \in {D, D \cup {s.name}}
      BY <3>3
    <3>5. Table([symbols EXCEPT ![i] = s], N, E \cup {name}, D)
      BY <1>8, <1>9, <1>10, <3>3, <3>4, TableChanged
    <3> QED BY <1>1, <2>1, <3>2, <3>5
  <2>2. CASE text.is # "extern"
    <3>1. PICK s : s = [symbols[i] EXCEPT !.is_global = TRUE]
      OBVIOUS
    <3>2. new = [symbols EXCEPT ![i] = s]
      BY <1>4, <2>2, <3>1
    <3>3. DOMAIN s = DOMAIN symbols[i] /\ s.name = name /\ s.section = symbols[i].section /\ s.is_extern = symbols[i].is_extern
      BY <1>9, <3>1
    <3>4. E \in {E, E \cup {s.name}} /\ D \in {D, D \cup {s.name}}
      OBVIOUS
    <3>5. Table([symbols EXCEPT ![i] = s], N, E, D)
      BY <1>8, <1>9, <1>10, <3>3, <3>4, TableChanged
    <3> QED BY <1>1, <2>2, <3>2, <3>5
  <2> QED BY <2>1, <2>2
<1>12. Faultless(n + 1) /\ ~IsJump(n + 1) /\ source[n + 1].is # "label"
  BY <1>2 DEF Faultless, IsJump
<1>13. CheckedTo(n + 1)'
  BY <1>1, <1>2, <1>5, <1>6, <1>7, <1>11, <1>12, SameTargets, CheckedNext
<1> QED BY <1>2, <1>13 DEF CheckedAfter

\* The relocations of a line of data are for the names in it.
LEMMA DataNamed ==
  ASSUME NEW values, values = text.values, values \in Seq(Range(values)), \A v \in Range(values) : v.is \in {"number", "name"}
  PROVE  /\ Len(dataRelocs) \in Nat
         /\ RelocNames(dataRelocs, Len(dataRelocs)) = {asm_symbol_name(v.name, scope) : v \in {u \in Range(values) : u.is = "name"}}
<1> DEFINE reloc(i) == valueReloc(text.values[i].name, Len(obj.sections[section]) + text.size * (i - 1))
           n == Len(values)
           named == {i \in 1..n : values[i].is # "number"}
           pieces == [i \in DOMAIN text.values |-> IF text.values[i].is = "number" THEN <<>> ELSE <<reloc(i)>>]
           S == {reloc(i) : i \in named}
           list == [i \in 1..n |-> [size |-> Len(pieces[i])]]
           at == itemOffsets(list)
<1>1. n \in Nat /\ DOMAIN values = 1..n
  OBVIOUS
<1>2. \A i \in named : reloc(i) \in S
  OBVIOUS
<1>3. \A x \in S : \E i \in named : x = reloc(i)
  OBVIOUS
<1>4. \A i \in 1..n : i \in named <=> values[i].is # "number"
  OBVIOUS
<1>5. named \subseteq 1..n
  OBVIOUS
<1>6. \A i : reloc(i).symbol = asm_symbol_name(values[i].name, scope)
  BY DEF valueReloc, Reloc
<1> HIDE DEF n
<1>7. dataRelocs = FlattenSeq(pieces)
  BY Zenon DEF dataRelocs
<1>8. pieces = [i \in 1..n |-> IF values[i].is = "number" THEN <<>> ELSE <<reloc(i)>>]
  BY <1>1
<1>9. list = [i \in 1..n |-> list[i]] /\ \A i \in 1..n : list[i].size = Len(pieces[i])
  OBVIOUS
<1> HIDE DEF pieces, reloc, S, named, list
<1>10. \A i \in 1..n : pieces[i] = IF values[i].is = "number" THEN <<>> ELSE <<reloc(i)>>
  BY <1>8, Zenon
<1>11. \A i \in 1..n : pieces[i] \in Seq(S)
  <2>1. <<>> \in Seq(S) /\ \A x \in S : <<x>> \in Seq(S)
    OBVIOUS
  <2> QED BY <1>2, <1>4, <1>10, <2>1, Zenon
<1>12. pieces = [i \in 1..n |-> pieces[i]]
  BY <1>8
<1>13. at[1] = 0 /\ \A i \in 1..n : at[i + 1] = at[i] + Len(pieces[i])
  <2>1. Len(list) = n
    BY <1>1, <1>9, Sequence
  <2> QED BY <1>1, <1>9, <2>1, OffsetSteps
<1> HIDE DEF at
<1>14. Placed(dataRelocs, n, pieces, at, S)
  BY <1>1, <1>7, <1>11, <1>12, <1>13, Flattened
<1>15. PICK flat, m : flat = dataRelocs /\ m = Len(flat)
  OBVIOUS
<1>16. flat \in Seq(S) /\ m = at[n + 1]
  BY <1>14, <1>15 DEF Placed
<1>17. m \in Nat /\ \A x \in 1..m : flat[x] \in S
  <2>1. m = Len(flat) /\ flat \in Seq(S)
    BY <1>15, <1>16
  <2> QED BY ONLY <2>1
<1>18. ASSUME NEW i \in named PROVE \E x \in 1..m : flat[x] = reloc(i)
  <2>1. i \in 1..n /\ pieces[i] = <<reloc(i)>>
    BY <1>4, <1>5, <1>10
  <2>2. 1 \in 1..Len(pieces[i]) /\ pieces[i][1] = reloc(i)
    BY <2>1
  <2>3. at[i] + 1 \in 1..m /\ flat[at[i] + 1] = pieces[i][1]
    BY <1>14, <1>15, <1>16, <2>1, <2>2 DEF Placed
  <2> QED BY <2>2, <2>3
<1>19. \A name : (\E x \in 1..m : name = flat[x].symbol) <=> \E i \in named : name = reloc(i).symbol
  BY <1>3, <1>17, <1>18
<1>20. \A name : (\E i \in named : name = reloc(i).symbol) <=> \E v \in {u \in Range(values) : u.is = "name"} : name = asm_symbol_name(v.name, scope)
  <2>1. ASSUME NEW i \in named PROVE \E v \in {u \in Range(values) : u.is = "name"} : reloc(i).symbol = asm_symbol_name(v.name, scope)
    <3>1. values[i] \in Range(values) /\ values[i].is # "number"
      BY <1>1, <1>4, <1>5 DEF Range
    <3>2. values[i].is = "name"
      BY <3>1
    <3> QED BY <1>6, <3>1, <3>2
  <2>2. ASSUME NEW v \in Range(values), v.is = "name" PROVE \E i \in named : reloc(i).symbol = asm_symbol_name(v.name, scope)
    <3>1. PICK i \in 1..n : v = values[i]
      BY <1>1 DEF Range
    <3>2. i \in named
      BY <1>4, <2>2, <3>1
    <3> QED BY <1>6, <3>1, <3>2
  <2> QED BY <2>1, <2>2
<1>21. RelocNames(flat, m) = {asm_symbol_name(v.name, scope) : v \in {u \in Range(values) : u.is = "name"}}
  <2> DEFINE hasName(name) == \E i \in named : name = reloc(i).symbol
  <2>1. RelocNames(flat, m) = {flat[x].symbol : x \in 1..m}
    BY DEF RelocNames
  <2>2. \A name : hasName(name) <=> \E x \in 1..m : name = flat[x].symbol
    BY <1>19, Zenon
  <2>3. \A name : hasName(name) <=> \E v \in {u \in Range(values) : u.is = "name"} : name = asm_symbol_name(v.name, scope)
    BY <1>20, Zenon
  <2> HIDE DEF hasName
  <2>4. \A name : hasName(name) <=> name \in {flat[x].symbol : x \in 1..m}
    BY <2>2
  <2>5. \A name : hasName(name) <=> name \in {asm_symbol_name(v.name, scope) : v \in {u \in Range(values) : u.is = "name"}}
    BY <2>3
  <2>6. ASSUME NEW A, NEW B, \A name : hasName(name) <=> name \in A, \A name : hasName(name) <=> name \in B PROVE A = B
    BY <2>6, Zenon
  <2> QED BY <2>1, <2>4, <2>5, <2>6, Zenon
<1> QED BY <1>15, <1>17, <1>21

\* asm_data_line fails for a name in data that isn't as long as an address.
LEMMA DataChecked ==
  ASSUME NEW n, AtLine(n), CheckedTo(n), asm_data_line
  PROVE  CheckedAfter(n)
<1>1. n \in Nat /\ text = source[n + 1] /\ n + 1 \in Lines /\ pc = "lines" /\ ObjOK /\ IsLine(source[n + 1]) /\ Reading(n)
  BY DEF AtLine, Lines
<1>2. source' = source /\ source[n + 1].is = "data" /\ items' = items
  BY <1>1 DEF asm_data_line, reading
<1>3. PICK values : /\ values = text.values /\ values \in Seq(Range(values))
                    /\ \A v \in Range(values) : v.is \in {"number", "name"} /\ (v.is = "name" => IsName(v.name))
  BY <1>1, <1>2 DEF IsLine
<1>4. CASE text.size # 8 /\ \E v \in Range(text.values) : v.is # "number"
  <2>1. pc' = "failed" /\ error' = "not a number"
    BY <1>4 DEF asm_data_line, asm_fail
  <2>2. \E v \in Range(source[n + 1].values) : v.is = "name"
    BY <1>1, <1>3, <1>4
  <2>3. error' \in Mistakes
    BY <1>1, <1>2, <1>4, <2>1, <2>2, MistakesAre
  <2> QED BY <2>1, <2>3 DEF CheckedAfter
<1>5. CASE ~(text.size # 8 /\ \E v \in Range(text.values) : v.is # "number")
  <2>1. pc' = "lines"
    BY <1>1, <1>5 DEF asm_data_line, going
  <2>2. PICK bytes, symbols, relocs : /\ bytes = obj.sections[section] \o dataBytes /\ symbols = asm_symbols(obj.symbols, dataRelocs)
                                      /\ relocs = obj.relocs \o dataRelocs
    OBVIOUS
  <2>3. obj' = [obj EXCEPT !.sections[section] = bytes, !.symbols = symbols, !.relocs = relocs]
    BY <1>5, <2>2, Zenon DEF asm_data_line
  <2>4. obj'.symbols = symbols
    BY <1>1, <2>3 DEF ObjOK
  <2>5. PICK names : names = RelocNames(dataRelocs, Len(dataRelocs))
    OBVIOUS
  <2>6. Len(dataRelocs) \in Nat /\ names = {asm_symbol_name(v.name, scope) : v \in {u \in Range(values) : u.is = "name"}}
    BY <1>3, <2>5, DataNamed
  <2>7. names = LineNames(n + 1)
    <3>1. \A v \in Range(values) : v.is = "name" => asm_symbol_name(v.name, scope) = Cut(FullName(v.name, n + 1))
      BY <1>1, <1>3, NameRead DEF Reading
    <3>2. NamesIn(n + 1) = {FullName(v.name, n + 1) : v \in {u \in Range(values) : u.is = "name"}}
      BY <1>1, <1>2, <1>3 DEF NamesIn
    <3>3. LineNames(n + 1) = {Cut(name) : name \in NamesIn(n + 1)}
      BY <1>2 DEF LineNames
    <3>4. \A x : x \in LineNames(n + 1) <=> \E v \in Range(values) : v.is = "name" /\ x = Cut(FullName(v.name, n + 1))
      BY <3>2, <3>3
    <3>5. \A x : x \in names <=> \E v \in Range(values) : v.is = "name" /\ x = Cut(FullName(v.name, n + 1))
      BY <2>6, <3>1
    <3> QED BY <3>4, <3>5
  <2>8. Table(symbols, NamesTo(n) \cup names, ExternsTo(n), DataNames(n))
    BY <2>2, <2>5, <2>6, TableSymbols DEF CheckedTo
  <2>9. Faultless(n + 1) /\ ~IsJump(n + 1)
    BY <1>1, <1>2, <1>5 DEF Faultless, IsJump
  <2>10. CheckedTo(n + 1)'
    BY <1>1, <1>2, <2>4, <2>7, <2>8, <2>9, SameTargets, CheckedNext
  <2> QED BY <2>1, <2>10 DEF CheckedAfter
<1> QED BY <1>4, <1>5

\* label fails for a name that is taken, by a label of the code or of data.
LEMMA LabelChecked ==
  ASSUME NEW n, AtLine(n), CheckedTo(n), label
  PROVE  CheckedAfter(n)
<1>1. n \in Nat /\ text = source[n + 1] /\ n + 1 \in Lines /\ pc = "lines" /\ Reading(n) /\ ObjOK /\ IsLine(source[n + 1])
  BY DEF AtLine, Lines
<1>2. source' = source /\ source[n + 1].is = "label" /\ items' = items /\ text.is = "label"
  BY <1>1 DEF label, reading
<1>3. PICK name, symbols, i : /\ name = asm_symbol_name(text.name, scope) /\ symbols = asm_symbol(obj.symbols, name)
                              /\ i = symbolIndex(symbols, name)
  OBVIOUS
<1>4. name = CutName(n + 1)
  BY <1>1, <1>2, <1>3, NameRead DEF Reading, CutName, IsLine
<1>5. PICK N, E, D : N = NamesTo(n) \cup {name} /\ E = ExternsTo(n) /\ D = DataNames(n)
  OBVIOUS
<1>6. Table(symbols, N, E, D) /\ name \in N
  BY <1>3, <1>5, TableSymbol DEF CheckedTo
<1>7. i \in 1..Len(symbols) /\ symbols[i].name = name /\ {"name", "section", "offset", "is_global", "is_extern"} \subseteq DOMAIN symbols[i]
  <2>1. i \in 1..Len(symbols) /\ symbols[i].name = name
    BY <1>3, <1>6, TableFound
  <2> QED BY <1>6, <2>1 DEF Table, SymbolsOK
<1>8. (symbols[i].is_extern <=> name \in E) /\ (symbols[i].section # "none" <=> name \in D)
  BY <1>6, <1>7 DEF Table
<1>9. section = SectionAt(n + 1) /\ section # "none"
  BY <1>1, Sections DEF Reading
<1>10. LineNames(n + 1) = {name} /\ ~IsJump(n + 1) /\ Faultless(n + 1)
  BY <1>2, <1>4 DEF LineNames, IsJump, Faultless
<1>11. CASE symbols[i].section # "none" \/ name \in DOMAIN label_item
  <2>1. pc' = "failed" /\ error' = "label already defined"
    BY <1>3, <1>11, Zenon DEF label, asm_fail
  <2>2. \E k \in 1..n : source[k].is = "label" /\ CutName(k) = name
    <3>1. CASE name \in DOMAIN label_item
      <4>1. PICK k \in TextLabels(n) : name = CutName(k)
        BY <1>1, <3>1 DEF Reading, LinesRead, LabelsRead
      <4> QED BY <4>1 DEF TextLabels, LabelsTo
    <3>2. CASE symbols[i].section # "none"
      <4>1. name \in DataNames(n)
        BY <1>5, <1>8, <3>2
      <4>2. PICK k \in 1..n : source[k].is = "label" /\ name \in LineNames(k)
        BY <4>1 DEF DataNames
      <4> QED BY <4>2 DEF LineNames
    <3> QED BY <1>11, <3>1, <3>2
  <2>3. PICK k \in 1..n : source[k].is = "label" /\ CutName(k) = name
    BY <2>2
  <2>4. k \in LabelLines /\ n + 1 \in LabelLines /\ k < n + 1
    BY <1>1, <1>2, <2>3 DEF LabelLines, Lines, AtLine, IsText
  <2>5. error' \in Mistakes
    BY <1>4, <2>1, <2>3, <2>4, MistakesAre
  <2> QED BY <2>1, <2>5 DEF CheckedAfter
<1>12. CASE ~(symbols[i].section # "none" \/ name \in DOMAIN label_item)
  <2>1. /\ pc' = "lines"
        /\ IF section = "text" THEN obj' = [obj EXCEPT !.symbols = symbols]
           ELSE obj' = [obj EXCEPT !.symbols = [symbols EXCEPT ![i].section = section, ![i].offset = Len(obj.sections[section])]]
    BY <1>1, <1>3, <1>12 DEF label, going
  <2>2. Table(obj'.symbols, N, E, IF SectionAt(n + 1) # "text" THEN D \cup {name} ELSE D)
    <3>1. CASE section = "text"
      <4>1. obj'.symbols = symbols
        BY <1>1, <2>1, <3>1 DEF ObjOK
      <4> QED BY <1>6, <1>9, <3>1, <4>1
    <3>2. CASE section # "text"
      <4>1. PICK s, t : s = symbols[i] /\ t = [s EXCEPT !.section = section, !.offset = Len(obj.sections[section])]
        OBVIOUS
      <4>2. obj'.symbols = [symbols EXCEPT ![i] = t]
        <5>1. symbols \in Seq(Range(symbols)) /\ DOMAIN symbols = 1..Len(symbols)
          BY <1>6 DEF Table, SymbolsOK
        <5>2. [symbols EXCEPT ![i].section = section, ![i].offset = Len(obj.sections[section])] = [symbols EXCEPT ![i] = t]
          BY <1>7, <4>1, <5>1
        <5> QED BY <1>1, <2>1, <3>2, <5>2 DEF ObjOK
      <4>3. DOMAIN t = DOMAIN symbols[i] /\ t.name = name /\ t.section = section /\ t.is_extern = symbols[i].is_extern
        BY <1>7, <4>1
      <4>4. E \in {E, E \cup {t.name}} /\ D \cup {name} \in {D, D \cup {t.name}}
        BY <4>3
      <4>5. Table([symbols EXCEPT ![i] = t], N, E, D \cup {name})
        BY <1>6, <1>7, <1>8, <1>9, <4>3, <4>4, TableChanged
      <4> QED BY <1>9, <3>2, <4>2, <4>5
    <3> QED BY <3>1, <3>2
  <2>3. CheckedTo(n + 1)'
    BY <1>1, <1>2, <1>5, <1>10, <2>2, SameTargets, CheckedNext
  <2> QED BY <2>1, <2>3 DEF CheckedAfter
<1> QED BY <1>11, <1>12

-----------------------------------------------------------------------------
(* The operands                                                            *)

\* The registers that an address can have
AddressRegisters == {name \in DOMAIN WidthOfName : WidthOfName[name] = 8}

\* Whether a sequence has an element
LEMMA ContainsRange ==
  ASSUME NEW s, DOMAIN s = 1..Len(s), NEW x
  PROVE  Contains(s, x) <=> x \in Range(s)
BY DEF Contains, Range

\* asm_parse_register() knows the registers of the manual.
LEMMA RegisterOk ==
  ASSUME NEW name
  PROVE  /\ asm_parse_register(name).ok <=> name \in Registers
         /\ asm_parse_register(name).kind = "reg" /\ asm_parse_register(name).width = 8 <=> name \in AddressRegisters
<1> DEFINE r == asm_parse_register(name)
           other == Range(asm_reg32) \cup Range(asm_reg16) \cup Range(asm_reg8) \cup Range(asm_xmm)
<1>1. Operand.ok /\ DOMAIN Operand = {"ok", "kind", "reg", "width", "high8", "base", "index", "disp", "symbol", "imm"}
  BY DEF Operand
<1>2. ~BadOperand.ok /\ BadOperand.kind = "none"
  BY <1>1 DEF BadOperand, Operand
<1>3. ASSUME NEW names, NEW width
      PROVE  LET found == registerOf(names, name, width)
             IN  found.ok /\ found.kind = "reg" /\ found.width = width /\ DOMAIN found = DOMAIN Operand
  BY <1>1 DEF registerOf
<1>4. /\ Contains(asm_reg64, name) <=> name \in Range(asm_reg64)
      /\ Contains(asm_reg32, name) <=> name \in Range(asm_reg32)
      /\ Contains(asm_reg16, name) <=> name \in Range(asm_reg16)
      /\ Contains(asm_reg8, name) <=> name \in Range(asm_reg8)
      /\ Contains(asm_xmm, name) <=> name \in Range(asm_xmm)
  <2>1. /\ DOMAIN asm_reg64 = 1..Len(asm_reg64) /\ DOMAIN asm_reg32 = 1..Len(asm_reg32) /\ DOMAIN asm_reg16 = 1..Len(asm_reg16)
        /\ DOMAIN asm_reg8 = 1..Len(asm_reg8) /\ DOMAIN asm_xmm = 1..Len(asm_xmm)
    BY DEF asm_reg64, asm_reg32, asm_reg16, asm_reg8, asm_xmm
  <2> QED BY <2>1, ContainsRange
<1>5. Range(asm_reg64) \cap other = {}
  BY DEF Range, asm_reg64, asm_reg32, asm_reg16, asm_reg8, asm_xmm
<1>6. Registers = Range(asm_reg64) \cup other /\ AddressRegisters = Range(asm_reg64)
  BY RegistersAssumption DEF Registers, AddressRegisters
<1>7. CASE name \in Range(asm_reg64)
  <2>1. r = registerOf(asm_reg64, name, 8)
    BY <1>4, <1>5, <1>7 DEF asm_parse_register
  <2> HIDE DEF r, other
  <2>2. r.ok /\ r.kind = "reg" /\ r.width = 8
    BY <1>3, <2>1
  <2> QED BY <1>6, <1>7, <2>2 DEF r
<1>8. CASE name \in other
  <2>1. r \in {registerOf(asm_reg32, name, 4), registerOf(asm_reg16, name, 2),
              [registerOf(asm_reg8, name, 1) EXCEPT !.high8 = registerOf(asm_reg8, name, 1).reg \in 4..7],
              [registerOf(asm_xmm, name, 16) EXCEPT !.kind = "xmm"]}
    BY <1>4, <1>5, <1>8 DEF asm_parse_register
  <2> HIDE DEF r, other
  <2>2. r.ok /\ r.width # 8
    <3>1. /\ registerOf(asm_reg32, name, 4).ok /\ registerOf(asm_reg32, name, 4).width = 4
          /\ registerOf(asm_reg16, name, 2).ok /\ registerOf(asm_reg16, name, 2).width = 2
      BY <1>3
    <3>2. /\ registerOf(asm_reg8, name, 1).ok /\ registerOf(asm_reg8, name, 1).width = 1 /\ DOMAIN registerOf(asm_reg8, name, 1) = DOMAIN Operand
          /\ registerOf(asm_xmm, name, 16).ok /\ registerOf(asm_xmm, name, 16).width = 16 /\ DOMAIN registerOf(asm_xmm, name, 16) = DOMAIN Operand
      BY <1>3
    <3>3. PICK high, wide : /\ high = [registerOf(asm_reg8, name, 1) EXCEPT !.high8 = registerOf(asm_reg8, name, 1).reg \in 4..7]
                            /\ wide = [registerOf(asm_xmm, name, 16) EXCEPT !.kind = "xmm"]
      OBVIOUS
    <3>4. high.ok /\ high.width = 1
      BY <1>1, <3>2, <3>3
    <3>5. wide.ok /\ wide.width = 16
      BY <1>1, <3>2, <3>3
    <3>6. r \in {registerOf(asm_reg32, name, 4), registerOf(asm_reg16, name, 2), high, wide}
      BY <2>1, <3>3, Zenon
    <3> QED BY <3>1, <3>4, <3>5, <3>6
  <2> QED BY <1>5, <1>6, <1>8, <2>2 DEF r
<1>9. CASE name \notin Range(asm_reg64) \cup other
  <2>1. r = BadOperand
    BY <1>4, <1>9 DEF asm_parse_register
  <2> HIDE DEF r, other
  <2> QED BY <1>2, <1>6, <1>9, <2>1 DEF r
<1> HIDE DEF other
<1> QED BY <1>7, <1>8, <1>9

\* rsp, the only register that can't be an index, is the one with the number 4.
LEMMA RegisterRsp ==
  ASSUME NEW name \in AddressRegisters
  PROVE  asm_parse_register(name).reg = 4 <=> name = "rsp"
<1> DEFINE U == {i \in 1..Len(asm_reg64) : asm_reg64[i] = name}
<1>1. /\ DOMAIN asm_reg64 = 1..16 /\ Len(asm_reg64) = 16 /\ asm_reg64[5] = "rsp"
      /\ \A i, j \in 1..16 : asm_reg64[i] = asm_reg64[j] => i = j
  BY DEF asm_reg64
<1>2. name \in Range(asm_reg64)
  BY RegistersAssumption DEF AddressRegisters
<1>3. PICK i \in 1..16 : asm_reg64[i] = name
  BY <1>1, <1>2 DEF Range
<1>4. U = {i}
  BY <1>1, <1>3
<1>5. Contains(asm_reg64, name)
  BY <1>1, <1>3 DEF Contains
<1>6. asm_parse_register(name).reg = SelectInSeq(asm_reg64, LAMBDA x : x = name) - 1
  <2>1. ~(Contains(asm_reg32, name) \/ Contains(asm_reg16, name) \/ Contains(asm_reg8, name) \/ Contains(asm_xmm, name))
    BY <1>2 DEF Range, Contains, asm_reg64, asm_reg32, asm_reg16, asm_reg8, asm_xmm
  <2>2. asm_parse_register(name) = registerOf(asm_reg64, name, 8)
    BY <1>5, <2>1 DEF asm_parse_register
  <2>3. PICK index : index = SelectInSeq(asm_reg64, LAMBDA x : x = name)
    OBVIOUS
  <2>4. registerOf(asm_reg64, name, 8) = [Operand EXCEPT !.kind = "reg", !.reg = index - 1, !.width = 8]
    BY <2>3, Zenon DEF registerOf
  <2>5. registerOf(asm_reg64, name, 8).reg = index - 1
    BY <2>4 DEF Operand
  <2> QED BY <2>2, <2>3, <2>5
<1>7. SelectInSeq(asm_reg64, LAMBDA x : x = name) = IF U # {} THEN Min(U) ELSE 0
  BY DEF SelectInSeq
<1>8. Min(U) = i
  <2> HIDE DEF U
  <2>1. \A x \in U : (x \in U /\ \A y \in U : x <= y) <=> x = i
    BY <1>3, <1>4
  <2> QED BY <1>4, <2>1 DEF Min
<1>9. asm_parse_register(name).reg = i - 1
  BY <1>4, <1>6, <1>7, <1>8
<1>10. i - 1 = 4 <=> i = 5
  BY <1>3
<1> QED BY <1>1, <1>3, <1>9, <1>10

\* The assembler has an encoding for an address exactly when its base and its index are registers that can be those.
LEMMA MemoryOk ==
  ASSUME NEW op, op.is = "memory", IsOperand(op)
  PROVE  asm_parse_memory(op).ok <=> ~BadArg(op)
<1> DEFINE base == asm_parse_register(op.base)
           terms == op.terms
           added == {i \in DOMAIN terms : terms[i].is # "number"}
           index(i) == asm_parse_register(terms[i].reg)
           isIndex(i) == terms[i].sign = "+" /\ index(i).kind = "reg" /\ index(i).width = 8 /\ index(i).reg # 4
           bad == base.kind # "reg" \/ base.width # 8 \/ \E i, j \in added : i # j \/ ~isIndex(i)
<1>1. asm_parse_memory(op).ok <=> ~bad
  <2>1. bad => asm_parse_memory(op) = BadOperand
    BY DEF asm_parse_memory
  <2>2. ~bad => \E i, d : asm_parse_memory(op) = [Operand EXCEPT !.kind = "mem", !.base = base.reg, !.index = i, !.disp = d]
    BY DEF asm_parse_memory
  <2> HIDE DEF bad, base
  <2>3. ~bad => asm_parse_memory(op).ok
    BY <2>2 DEF Operand
  <2>4. ~BadOperand.ok
    BY DEF BadOperand, Operand
  <2> QED BY <2>1, <2>3, <2>4
<1>2. base.kind # "reg" \/ base.width # 8 <=> op.base \notin AddressRegisters
  BY RegisterOk
<1>3. \A t \in Range(terms) : t.is \in {"register", "number"} /\ t.sign \in {"+", "-"}
  BY DEF IsOperand
<1>4. ASSUME NEW i \in added PROVE ~isIndex(i) <=> BadTerm(terms[i])
  <2>1. terms[i].is = "register"
    BY <1>3, <1>4 DEF Range
  <2>2. isIndex(i) <=> terms[i].sign = "+" /\ terms[i].reg \in AddressRegisters /\ terms[i].reg # "rsp"
    BY RegisterOk, RegisterRsp
  <2> QED BY <2>1, <2>2 DEF BadTerm, AddressRegisters
<1>5. added = {i \in DOMAIN terms : terms[i].is = "register"}
  BY <1>3 DEF Range
<1>6. (\E i \in added : BadTerm(terms[i])) <=> \E t \in Range(terms) : BadTerm(t)
  BY <1>5 DEF Range, BadTerm
<1>7. op.base \notin AddressRegisters <=> op.base \notin DOMAIN WidthOfName \/ WidthOfName[op.base] # 8
  BY DEF AddressRegisters
<1>8. bad <=> \/ op.base \notin DOMAIN WidthOfName \/ WidthOfName[op.base] # 8
              \/ \E i, j \in added : i # j
              \/ \E t \in Range(terms) : BadTerm(t)
  <2> HIDE DEF isIndex, base
  <2> QED BY <1>2, <1>4, <1>6, <1>7
<1> HIDE DEF bad, added
<1> QED BY <1>1, <1>5, <1>8 DEF BadArg

\* asm_parse_operand() has an operand exactly for what isn't bad.
LEMMA OperandOk ==
  ASSUME NEW op, IsOperand(op), NEW last
  PROVE  asm_parse_operand(op, last).ok <=> ~BadArg(op)
<1>1. Operand.ok /\ ~BadOperand.ok /\ DOMAIN BadOperand = DOMAIN Operand
      /\ DOMAIN Operand = {"ok", "kind", "reg", "width", "high8", "base", "index", "disp", "symbol", "imm"}
  BY DEF Operand, BadOperand
<1>2. CASE op.is = "memory"
  <2>1. asm_parse_operand(op, last) = [asm_parse_memory(op) EXCEPT !.width = widthOf(op.size)]
    BY <1>2 DEF asm_parse_operand
  <2>2. DOMAIN asm_parse_memory(op) = DOMAIN Operand
    BY <1>1 DEF asm_parse_memory
  <2>3. PICK parsed : parsed = asm_parse_memory(op)
    OBVIOUS
  <2>4. asm_parse_operand(op, last).ok = parsed.ok
    BY <1>1, <2>1, <2>2, <2>3
  <2> QED BY <1>2, <2>3, <2>4, MemoryOk
<1>3. CASE op.is = "word" /\ asm_parse_register(op.word).ok
  <2>1. asm_parse_operand(op, last) = asm_parse_register(op.word)
    BY <1>3 DEF asm_parse_operand
  <2>2. ~BadArg(op)
    BY <1>3 DEF BadArg
  <2> QED BY <1>3, <2>1, <2>2
<1>4. CASE op.is \in {"number", "name", "rel"} \/ (op.is = "word" /\ ~asm_parse_register(op.word).ok)
  <2>1. asm_parse_operand(op, last).ok
    BY <1>1, <1>4 DEF asm_parse_operand
  <2>2. ~BadArg(op)
    BY <1>4 DEF BadArg
  <2> QED BY <2>1, <2>2
<1> QED BY <1>2, <1>3, <1>4 DEF IsOperand

\* The names of an instruction are the symbols of its operands, a word that is no register among them.
LEMMA OperandSymbol ==
  ASSUME NEW op, op.is = "rel" \/ IsSymbol(op), NEW last
  PROVE  asm_parse_operand(op, last).symbol = asm_symbol_name(nameOf(op), last) /\ (IsSymbol(op) => asm_parse_operand(op, last).kind = "label")
<1>1. CASE op.is = "rel"
  BY <1>1 DEF asm_parse_operand, Operand, IsSymbol, nameOf
<1>2. CASE IsSymbol(op)
  <2>1. op.is = "name" \/ (op.is = "word" /\ ~asm_parse_register(op.word).ok)
    BY <1>2, RegisterOk DEF IsSymbol
  <2>2. asm_parse_operand(op, last) = [Operand EXCEPT !.kind = "label", !.symbol = asm_symbol_name(nameOf(op), last)]
    BY <2>1 DEF asm_parse_operand
  <2> QED BY <2>2 DEF Operand
<1> QED BY <1>1, <1>2

\* A condition is one of the processor's exactly when the assembler knows it.
LEMMA ConditionKnown ==
  ASSUME NEW cc
  PROVE  asm_condition(cc) >= 0 <=> cc \in UNION Range(ConditionNames)
<1>1. DOMAIN ConditionNames = 1..16
  BY DEF ConditionNames
<1>2. ASSUME asm_condition(cc) >= 0 PROVE cc \in UNION Range(ConditionNames)
  <2>1. PICK n \in 0..15 : cc \in ConditionNames[n + 1]
    BY <1>2, Conditions
  <2>2. n + 1 \in DOMAIN ConditionNames
    BY <1>1
  <2> QED BY <2>1, <2>2 DEF Range
<1>3. ASSUME cc \in UNION Range(ConditionNames) PROVE asm_condition(cc) >= 0
  <2>1. cc \in {"o", "no", "b", "c", "nae", "ae", "nb", "nc", "e", "z", "ne", "nz", "be", "na", "a", "nbe", "s", "ns", "p", "pe",
                     "np", "po", "l", "nge", "ge", "nl", "le", "ng", "g", "nle"}
    BY <1>3 DEF Range, ConditionNames
  <2> QED BY <2>1 DEF asm_condition
<1> QED BY <1>2, <1>3

-----------------------------------------------------------------------------
(* The instructions                                                        *)

\* enc_finish() keeps what the relocations are for.
LEMMA FinishKeeps ==
  ASSUME NEW table, {"ok", "bytes", "relocs"} \subseteq DOMAIN table, NEW relocs, relocs = table.relocs, relocs \in Seq(Range(relocs)),
         \A r \in Range(relocs) : {"symbol", "offset"} \subseteq DOMAIN r
  PROVE  LET e == enc_finish(table)
         IN  e.ok = table.ok /\ Len(e.relocs) \in Nat /\ RelocNames(e.relocs, Len(e.relocs)) = {r.symbol : r \in Range(relocs)}
<1> DEFINE moved(i) == IF relocs[i].offset = table.rip THEN [relocs[i] EXCEPT !.trailing = Len(table.bytes) - (table.rip + 4)] ELSE relocs[i]
           list == [i \in DOMAIN relocs |-> moved(i)]
           e == enc_finish(table)
<1>1. e = [table EXCEPT !.relocs = list]
  BY DEF enc_finish
<1>2. e.ok = table.ok /\ e.relocs = list
  BY <1>1
<1>3. PICK m \in Nat : DOMAIN relocs = 1..m
  OBVIOUS
<1>4. \A i \in 1..m : moved(i).symbol = relocs[i].symbol
  <2> SUFFICES ASSUME NEW i \in 1..m PROVE moved(i).symbol = relocs[i].symbol
    OBVIOUS
  <2>1. PICK r : r = relocs[i] /\ "symbol" \in DOMAIN r
    BY <1>3 DEF Range
  <2>2. \A trailing : [r EXCEPT !.trailing = trailing].symbol = r.symbol
    BY <2>1
  <2> QED BY <2>1, <2>2
<1>5. list = [i \in 1..m |-> moved(i)]
  BY <1>3
<1> HIDE DEF list, moved, e
<1>6. \A i \in 1..m : list[i] = moved(i)
  BY <1>5
<1>7. list = [i \in 1..m |-> list[i]]
  BY <1>5
<1>8. Len(list) = m
  BY <1>7, Sequence
<1>9. RelocNames(list, m) = {r.symbol : r \in Range(relocs)}
  <2>1. \A x : (\E i \in 1..m : x = list[i].symbol) <=> \E r \in Range(relocs) : x = r.symbol
    BY <1>3, <1>4, <1>6 DEF Range
  <2> QED BY <2>1 DEF RelocNames
<1> QED BY <1>2, <1>8, <1>9 DEF e

\* One item more
LEMMA TargetsNext ==
  ASSUME ItemsOK, NEW item, items' = Append(items, item)
  PROVE  JumpTargets' = IF item.is_jump THEN JumpTargets \cup {item.target} ELSE JumpTargets
<1>1. items \in Seq(Range(items)) /\ Len(items) \in Nat /\ DOMAIN items = 1..Len(items)
  BY DEF ItemsOK
<1>2. PICK n \in Nat : n = Len(items)
  BY <1>1
<1>3. items' \in Seq(Range(items')) /\ Len(items') = n + 1 /\ items'[n + 1] = item /\ \A i \in 1..n : items'[i] = items[i]
  BY <1>1, <1>2, AppendOne
<1>4. DOMAIN items' = 1..(n + 1)
  BY <1>3
<1>5. \A i : i \in 1..(n + 1) <=> i \in 1..n \/ i = n + 1
  OBVIOUS
<1>6. \A i : i \in JumpItems' <=> i \in JumpItems \/ (item.is_jump /\ i = n + 1)
  BY <1>1, <1>2, <1>3, <1>4, <1>5 DEF JumpItems
<1>7. \A i \in JumpItems : items'[i] = items[i]
  BY <1>1, <1>2, <1>3 DEF JumpItems
<1>8. \A x : (\E i \in JumpItems' : x = items'[i].target) <=> (\E i \in JumpItems : x = items[i].target) \/ (item.is_jump /\ x = item.target)
  BY <1>3, <1>6, <1>7
<1>9. \A x : x \in JumpTargets' <=> x \in JumpTargets \/ (item.is_jump /\ x = item.target)
  <2> SUFFICES ASSUME NEW x PROVE x \in JumpTargets' <=> x \in JumpTargets \/ (item.is_jump /\ x = item.target)
    OBVIOUS
  <2>1. x \in JumpTargets' <=> \E i \in JumpItems' : x = items'[i].target
    BY DEF JumpTargets
  <2>2. x \in JumpTargets <=> \E i \in JumpItems : x = items[i].target
    BY DEF JumpTargets
  <2>3. (\E i \in JumpItems' : x = items'[i].target) <=> (\E i \in JumpItems : x = items[i].target) \/ (item.is_jump /\ x = item.target)
    BY <1>8
  <2> QED BY <2>1, <2>2, <2>3
<1> QED BY <1>9

\* The operands of a line are read as the assembler has them.
LEMMA OperandsRead ==
  ASSUME NEW n, AtLine(n), text.is = "instruction", NEW ops, ops = operandsOf(text, scope)
  PROVE  /\ Len(ops) = Len(text.ops) /\ Len(ops) \in Nat
         /\ (\A op \in Range(ops) : op.ok) <=> \A op \in Range(text.ops) : ~BadArg(op)
         /\ Len(ops) = 1 /\ Last(ops).kind = "label" <=> Len(text.ops) = 1 /\ IsSymbol(text.ops[1])
         /\ Len(ops) = 1 /\ Last(ops).kind = "label" => LineNames(n + 1) = {ops[1].symbol}
         /\ NamedIn(text, ops) = LineNames(n + 1)
<1>1. n \in Nat /\ text = source[n + 1] /\ source[n + 1].is = "instruction" /\ Reading(n)
  BY DEF AtLine
<1>2. PICK given : given = text.ops /\ given \in Seq(Range(given)) /\ \A op \in Range(given) : IsOperand(op)
  BY DEF AtLine, IsLine
<1>3. PICK m \in Nat : m = Len(given) /\ DOMAIN given = 1..m
  BY <1>2
<1>4. ops = [i \in 1..m |-> asm_parse_operand(given[i], scope)]
  BY <1>2, <1>3 DEF operandsOf
<1>5. Len(ops) = m /\ DOMAIN ops = 1..m /\ \A i \in 1..m : ops[i] = asm_parse_operand(given[i], scope)
  <2>1. ops = [i \in 1..m |-> ops[i]]
    BY <1>4
  <2> QED BY <1>4, <2>1, Sequence
<1>6. \A i \in 1..m : given[i] \in Range(given) /\ IsOperand(given[i])
  BY <1>2, <1>3 DEF Range
<1>7. (\A op \in Range(ops) : op.ok) <=> \A op \in Range(given) : ~BadArg(op)
  <2>1. \A i \in 1..m : ops[i].ok <=> ~BadArg(given[i])
    BY <1>5, <1>6, OperandOk
  <2>2. (\A op \in Range(ops) : op.ok) <=> \A i \in 1..m : ops[i].ok
    BY <1>5 DEF Range
  <2>3. (\A op \in Range(given) : ~BadArg(op)) <=> \A i \in 1..m : ~BadArg(given[i])
    BY <1>3 DEF Range
  <2> QED BY <2>1, <2>2, <2>3
<1> DEFINE named(i) == given[i].is = "rel" \/ IsSymbol(given[i])
<1>8. \A i \in 1..m : ops[i].kind = "label" <=> IsSymbol(given[i])
  <2> SUFFICES ASSUME NEW i \in 1..m PROVE ops[i].kind = "label" <=> IsSymbol(given[i])
    OBVIOUS
  <2>1. given[i].is \in {"word", "number", "name", "memory", "rel"} /\ ops[i] = asm_parse_operand(given[i], scope)
    BY <1>5, <1>6 DEF IsOperand
  <2>2. ops[i].kind = "label" => given[i].is = "name" \/ (given[i].is = "word" /\ ~asm_parse_register(given[i].word).ok)
    BY <2>1, LabelOperand
  <2>3. ops[i].kind = "label" => IsSymbol(given[i])
    BY <2>2, RegisterOk DEF IsSymbol
  <2> QED BY <2>1, <2>3, OperandSymbol
<1>9. \A i \in 1..m : named(i) => ops[i].symbol = Cut(FullName(nameOf(given[i]), n + 1))
  <2>1. ASSUME NEW i \in 1..m, named(i) PROVE ops[i].symbol = Cut(FullName(nameOf(given[i]), n + 1))
    <3>1. ops[i].symbol = asm_symbol_name(nameOf(given[i]), scope)
      BY <1>5, <2>1, OperandSymbol
    <3>2. IsName(nameOf(given[i]))
      BY <1>6, <2>1, OperandName DEF IsSymbol
    <3> QED BY <1>1, <3>1, <3>2, NameRead DEF Reading
  <2> QED BY <2>1
<1>10. Len(ops) = 1 => (Last(ops).kind = "label" <=> IsSymbol(given[1]))
  BY <1>5, <1>8 DEF Last
<1>11. NamedIn(text, ops) = LineNames(n + 1)
  <2>1. NamesIn(n + 1) = {FullName(nameOf(op), n + 1) : op \in {o \in Range(given) : o.is = "rel" \/ IsSymbol(o)}}
    BY <1>1, <1>2 DEF NamesIn, SymbolOperands
  <2>2. LineNames(n + 1) = {Cut(name) : name \in NamesIn(n + 1)}
    BY <1>1 DEF LineNames
  <2>3. \A x : x \in LineNames(n + 1) <=> \E i \in 1..m : named(i) /\ x = Cut(FullName(nameOf(given[i]), n + 1))
    <3>1. \A x : x \in LineNames(n + 1) <=> \E op \in Range(given) : (op.is = "rel" \/ IsSymbol(op)) /\ x = Cut(FullName(nameOf(op), n + 1))
      BY <2>1, <2>2
    <3> QED BY <1>3, <3>1 DEF Range
  <2>4. NamedIn(text, ops) = {ops[i].symbol : i \in {j \in 1..m : named(j)}}
    <3>1. NamedIn(text, ops) = {ops[i].symbol : i \in {j \in 1..m : given[j].is = "rel" \/ ops[j].kind = "label"}}
      BY <1>2, <1>3 DEF NamedIn
    <3>2. {j \in 1..m : given[j].is = "rel" \/ ops[j].kind = "label"} = {j \in 1..m : named(j)}
      BY <1>8
    <3> QED BY <3>1, <3>2
  <2>5. \A x : x \in NamedIn(text, ops) <=> \E i \in 1..m : named(i) /\ x = ops[i].symbol
    BY <2>4
  <2> QED BY <1>9, <2>3, <2>5
<1>12. Len(ops) = 1 /\ Last(ops).kind = "label" => LineNames(n + 1) = {ops[1].symbol}
  <2> SUFFICES ASSUME m = 1, IsSymbol(given[1]) PROVE LineNames(n + 1) = {ops[1].symbol}
    BY <1>5, <1>10
  <2>1. \A i \in 1..m : i = 1
    OBVIOUS
  <2>2. NamedIn(text, ops) = {ops[1].symbol}
    BY <1>2, <1>3, <1>8, <2>1 DEF NamedIn
  <2> QED BY <1>11, <2>2
<1> QED BY <1>2, <1>3, <1>5, <1>7, <1>10, <1>11, <1>12

\* asm_instruction fails outside of the text, for a bad operand, and for what isn't in the table.
LEMMA InstructionChecked ==
  ASSUME NEW n, AtLine(n), ItemsOK, CheckedTo(n), asm_instruction
  PROVE  CheckedAfter(n)
<1>1. /\ n \in Nat /\ text = source[n + 1] /\ n + 1 \in Lines /\ pc = "lines" /\ ObjOK /\ IsLine(source[n + 1]) /\ section = SectionAt(n + 1)
      /\ source \in Sources
  BY DEF AtLine, Lines, Reading
<1>2. source' = source /\ text.is = "instruction" /\ source[n + 1].is = "instruction"
  BY <1>1 DEF asm_instruction, reading
<1>3. PICK ops, table, e, cc : /\ ops = operandsOf(text, scope) /\ table = Encode(text.m, text.cc, operandsOf(text, scope)) /\ e = enc_finish(table)
                               /\ cc = IF text.m = "j" THEN asm_condition(text.cc) ELSE -1
  OBVIOUS
<1> DEFINE isJump == (text.m = "jmp" \/ cc >= 0) /\ Len(ops) = 1 /\ Last(ops).kind = "label"
           right == \A op \in Range(ops) : op.ok
<1>4. IsEncoding(table, text, ops)
  BY <1>2, <1>3 DEF AtLine
<1>5. /\ e.ok = table.ok /\ Len(e.relocs) \in Nat
      /\ e.ok => RelocNames(e.relocs, Len(e.relocs)) = NamedIn(text, ops)
  BY <1>3, <1>4, FinishKeeps DEF IsEncoding
<1>6. right <=> \A op \in Range(text.ops) : ~BadArg(op)
  BY <1>2, <1>3, OperandsRead
<1>7. isJump <=> JumpsToName(text)
  <2>1. text.m = "jmp" \/ cc >= 0 <=> text.m = "jmp" \/ (text.m = "j" /\ text.cc \in UNION Range(ConditionNames))
    BY <1>3, ConditionKnown
  <2>2. Len(ops) = 1 /\ Last(ops).kind = "label" <=> Len(text.ops) = 1 /\ IsSymbol(text.ops[1])
    BY <1>2, <1>3, OperandsRead
  <2> QED BY <2>1, <2>2 DEF JumpsToName
<1>8. n + 1 \in CodeLines
  BY <1>1, <1>2 DEF CodeLines
<1>9. right => (Unknown(n + 1) <=> ~isJump /\ ~e.ok)
  <2>1. scope = Cut(ScopeAt(n + 1))
    BY DEF AtLine, Reading
  <2>2. Unknown(n + 1) <=> (\A op \in Range(text.ops) : ~BadArg(op)) /\ ~JumpsToName(text) /\ ~table.ok
    BY <1>1, <1>3, <2>1 DEF Unknown
  <2> HIDE DEF isJump, right
  <2> QED BY <1>5, <1>6, <1>7, <2>2
<1>10. CASE section # "text"
  <2>1. pc' = "failed" /\ error' = "outside of the text section"
    BY <1>10 DEF asm_instruction, asm_fail
  <2>2. error' \in Mistakes
    BY <1>1, <1>8, <1>10, <2>1, MistakesAre
  <2> QED BY <2>1, <2>2 DEF CheckedAfter
<1>11. CASE section = "text" /\ ~right
  <2>1. pc' = "failed" /\ error' = "unknown operand"
    BY <1>3, <1>11 DEF asm_instruction, asm_fail
  <2>2. \E a \in Range(source[n + 1].ops) : BadArg(a)
    BY <1>1, <1>6, <1>11
  <2>3. error' \in Mistakes
    BY <1>8, <2>1, <2>2, MistakesAre
  <2> QED BY <2>1, <2>3 DEF CheckedAfter
<1>12. CASE section = "text" /\ right /\ isJump
  <2>1. /\ pc' = "lines" /\ items' = Append(items, Jump(cc, ops[1].symbol)) /\ obj' = [obj EXCEPT !.symbols = asm_symbol(@, ops[1].symbol)]
    BY <1>1, <1>3, <1>12 DEF asm_instruction, going
  <2>2. obj'.symbols = asm_symbol(obj.symbols, ops[1].symbol)
    BY <1>1, <2>1 DEF ObjOK
  <2>3. LineNames(n + 1) = {ops[1].symbol}
    BY <1>2, <1>3, <1>12, OperandsRead
  <2>4. JumpTargets' = JumpTargets \cup {ops[1].symbol}
    <3>1. Jump(cc, ops[1].symbol).is_jump /\ Jump(cc, ops[1].symbol).target = ops[1].symbol
      BY DEF Jump
    <3> QED BY <2>1, <3>1, TargetsNext
  <2>5. Table(obj'.symbols, NamesTo(n) \cup {ops[1].symbol}, ExternsTo(n), DataNames(n))
    BY <2>2, TableSymbol DEF CheckedTo
  <2>6. IsJump(n + 1)
    BY <1>1, <1>2, <1>7, <1>12 DEF IsJump, JumpsToName
  <2>7. Faultless(n + 1)
    BY <1>1, <1>2, <1>6, <1>9, <1>12 DEF Faultless
  <2>8. CheckedTo(n + 1)'
    BY <1>1, <1>2, <2>3, <2>4, <2>5, <2>6, <2>7, CheckedNext
  <2> QED BY <2>1, <2>8 DEF CheckedAfter
<1>13. CASE section = "text" /\ right /\ ~isJump /\ ~e.ok
  <2>1. pc' = "failed" /\ error' = "unknown instruction"
    BY <1>3, <1>13 DEF asm_instruction, asm_fail
  <2>2. Unknown(n + 1)
    BY <1>1, <1>9, <1>13
  <2>3. error' \in Mistakes
    BY <1>8, <2>1, <2>2, MistakesAre
  <2> QED BY <2>1, <2>3 DEF CheckedAfter
<1>14. CASE section = "text" /\ right /\ ~isJump /\ e.ok
  <2>1. /\ pc' = "lines" /\ items' = Append(items, Item(e)) /\ obj' = [obj EXCEPT !.symbols = asm_symbols(@, e.relocs)]
    BY <1>1, <1>3, <1>14 DEF asm_instruction, going
  <2>2. obj'.symbols = asm_symbols(obj.symbols, e.relocs)
    BY <1>1, <2>1 DEF ObjOK
  <2>3. LineNames(n + 1) = RelocNames(e.relocs, Len(e.relocs))
    BY <1>2, <1>3, <1>5, <1>14, OperandsRead
  <2>4. JumpTargets' = JumpTargets
    <3>1. ~Item(e).is_jump
      BY DEF Item
    <3> QED BY <2>1, <3>1, TargetsNext
  <2>5. Table(obj'.symbols, NamesTo(n) \cup RelocNames(e.relocs, Len(e.relocs)), ExternsTo(n), DataNames(n))
    <3>1. PICK relocs, size : relocs = e.relocs /\ size = Len(relocs) /\ size \in Nat
      BY <1>5
    <3>2. Table(obj.symbols, NamesTo(n), ExternsTo(n), DataNames(n))
      BY DEF CheckedTo
    <3>3. Table(asm_symbols(obj.symbols, relocs), NamesTo(n) \cup RelocNames(relocs, size), ExternsTo(n), DataNames(n))
      BY <3>1, <3>2, TableSymbols
    <3> QED BY <2>2, <3>1, <3>3
  <2>6. ~IsJump(n + 1)
    BY <1>1, <1>4, <1>5, <1>14 DEF IsJump, IsEncoding
  <2>7. Faultless(n + 1)
    BY <1>1, <1>2, <1>6, <1>9, <1>14 DEF Faultless
  <2>8. CheckedTo(n + 1)'
    BY <1>1, <1>2, <2>3, <2>4, <2>5, <2>6, <2>7, CheckedNext
  <2> QED BY <2>1, <2>8 DEF CheckedAfter
<1> QED BY <1>10, <1>11, <1>12, <1>13, <1>14

-----------------------------------------------------------------------------
(* The invariant                                                           *)

LabelNames(n) == {CutName(k) : k \in LabelsTo(n)}
CheckedText(n) ==
    /\ \A k \in 1..n : Faultless(k)
    /\ JumpNames(n) \subseteq {CutName(k) : k \in TextLabels(n)}
    /\ Table(obj.symbols, NamesTo(n), ExternsTo(n), LabelNames(n))

\* What has been checked: the lines that are read, then the jumps, and nothing is left to find when the text is assembled
Checked ==
    /\ pc = "lines" => \E n \in Nat : line = n + 1 /\ CheckedTo(n)
    /\ pc \in {"layout", "finish"} => \E n \in Nat : n = Len(source) /\ CheckedTo(n)
    /\ pc = "check" => \E n \in Nat : n = Len(source) /\ CheckedText(n)
    /\ RefusedRightly

\* A text with nothing in it has no mistake, and nothing has been read of another one.
LEMMA CheckedInit == Init => Checked
<1> SUFFICES ASSUME Init PROVE Checked
  OBVIOUS
<1>1. CASE pc = "object"
  <2>1. source = <<>>
    BY <1>1 DEF Init, assembler_init
  <2>2. Lines = {}
    BY <2>1 DEF Lines
  <2>3. LabelLines = {} /\ CodeLines = {}
    BY <2>2 DEF LabelLines, CodeLines
  <2>4. \A m : m \notin Mistakes
    BY <2>2, <2>3, MistakesAre
  <2>5. RefusedRightly
    BY <1>1, <2>4 DEF RefusedRightly
  <2> QED BY <1>1, <2>5 DEF Checked
<1>2. CASE pc = "lines"
  <2>1. line = 1 /\ items = <<>> /\ obj = EmptyObject
    BY <1>2 DEF Init, assembler_init
  <2>2. NamesTo(0) = {} /\ ExternsTo(0) = {} /\ DataNames(0) = {} /\ JumpNames(0) = {}
    BY DEF NamesTo, ExternsTo, DataNames, JumpNames
  <2>3. JumpTargets = {}
    BY <2>1 DEF JumpTargets, JumpItems
  <2>4. Table(obj.symbols, {}, {}, {})
    BY <2>1 DEF Table, SymbolsOK, EmptyObject
  <2>5. CheckedTo(0)
    BY <2>2, <2>3, <2>4 DEF CheckedTo
  <2>6. line = 0 + 1
    BY <2>1
  <2>7. RefusedRightly
    BY <1>2 DEF RefusedRightly
  <2> QED BY <1>2, <2>5, <2>6, <2>7 DEF Checked
<1> QED BY <1>1, <1>2 DEF Init, assembler_init

\* Every line is checked as it is read.
LEMMA CheckedLine ==
  ASSUME AsmInv, TextRead, Checked, label \/ section_line \/ declare_line \/ asm_data_line \/ times_line \/ align_line \/ asm_instruction
  PROVE  Checked'
<1>1. pc = "lines" /\ line <= Len(source) /\ line' = line + 1 /\ source' = source /\ pc' \in {"lines", "failed"}
  BY LineFate
<1>2. PICK n \in Nat : n <= Len(source) /\ line = n + 1 /\ Reading(n) /\ ObjOK
  BY <1>1 DEF TextRead
<1>3. AtLine(n) /\ scope \in Scopes(source)
  BY <1>1, <1>2, LineReached
<1>4. ItemsOK
  BY DEF AsmInv, LayoutInv, Shapes
<1>5. CheckedTo(n)
  <2>1. PICK m \in Nat : line = m + 1 /\ CheckedTo(m)
    BY <1>1 DEF Checked
  <2>2. m = n
    BY <1>2, <2>1
  <2> QED BY <2>1, <2>2
<1>6. CheckedAfter(n)
  BY <1>3, <1>4, <1>5, LabelChecked, SectionLineChecked, DeclareChecked, DataChecked, TimesChecked, AlignChecked, InstructionChecked
<1>7. CASE pc' = "lines"
  <2>1. n + 1 \in Nat /\ line' = (n + 1) + 1
    BY <1>1, <1>2
  <2>2. CheckedTo(n + 1)'
    BY <1>6, <1>7 DEF CheckedAfter
  <2>3. \E m \in Nat : line' = m + 1 /\ CheckedTo(m)'
    BY <2>1, <2>2
  <2> QED BY <1>7, <2>3 DEF Checked, RefusedRightly
<1>8. CASE pc' = "failed"
  <2>1. (error \in Mistakes)'
    <3>1. error' \in Mistakes
      BY <1>6, <1>8 DEF CheckedAfter
    <3> QED BY <1>1, <3>1, SameMistakes
  <2> QED BY <1>8, <2>1 DEF Checked, RefusedRightly
<1> QED BY <1>1, <1>7, <1>8

\* What has been checked of the lines stays while they, their symbols and the names of the jumps do.
LEMMA CheckedStays ==
  ASSUME NEW n \in Nat, source' = source
  PROVE  /\ CheckedTo(n) /\ obj'.symbols = obj.symbols /\ JumpTargets' = JumpTargets => CheckedTo(n)'
         /\ CheckedText(n) /\ obj'.symbols = obj.symbols => CheckedText(n)'
         /\ LabelNames(n)' = LabelNames(n)
<1>1. /\ \A k : (Faultless(k)' <=> Faultless(k))
      /\ \A k : NamesTo(k)' = NamesTo(k) /\ ExternsTo(k)' = ExternsTo(k) /\ DataNames(k)' = DataNames(k) /\ JumpNames(k)' = JumpNames(k)
  BY SameNames
<1>2. \A k : CutName(k)' = CutName(k) /\ LabelsTo(k)' = LabelsTo(k) /\ TextLabels(k)' = TextLabels(k)
  BY SameText
<1>3. LabelNames(n)' = LabelNames(n)
  BY <1>2, Zenon DEF LabelNames
<1>4. {CutName(k) : k \in TextLabels(n)}' = {CutName(k) : k \in TextLabels(n)}
  BY <1>2, Zenon
<1>5. ASSUME CheckedTo(n), obj'.symbols = obj.symbols, JumpTargets' = JumpTargets PROVE CheckedTo(n)'
  BY <1>1, <1>5 DEF CheckedTo
<1>6. ASSUME CheckedText(n), obj'.symbols = obj.symbols PROVE CheckedText(n)'
  <2>1. \A k \in 1..n : Faultless(k)'
    BY <1>1, <1>6 DEF CheckedText
  <2>2. JumpNames(n)' \subseteq {CutName(k) : k \in TextLabels(n)}'
    BY <1>1, <1>4, <1>6 DEF CheckedText
  <2>3. Table(obj'.symbols, NamesTo(n)', ExternsTo(n)', LabelNames(n)')
    BY <1>1, <1>3, <1>6 DEF CheckedText
  <2> QED BY <2>1, <2>2, <2>3, Zenon DEF CheckedText
<1> QED BY <1>3, <1>5, <1>6

\* A round of asm_layout makes no jump go elsewhere, and the end of the text changes nothing.
LEMMA CheckedRound ==
  ASSUME AsmInv, TextRead, Checked, end_of_source \/ asm_layout
  PROVE  Checked'
<1>1. source' = source /\ obj' = obj /\ pc \in {"lines", "layout"} /\ pc' \in {"layout", "finish"}
  BY DEF end_of_source, asm_layout
<1>2. PICK n \in Nat : n = Len(source) /\ CheckedTo(n)
  <2>1. CASE end_of_source
    <3>1. pc = "lines" /\ line > Len(source)
      BY <2>1 DEF end_of_source
    <3>2. PICK n \in Nat : n <= Len(source) /\ line = n + 1
      BY <3>1 DEF TextRead
    <3>3. PICK m \in Nat : line = m + 1 /\ CheckedTo(m)
      BY <3>1 DEF Checked
    <3>4. source \in Seq(Range(source))
      BY <3>1, SourcesAssumption DEF AsmInv, TextInv, IsText
    <3>5. m = Len(source)
      BY <3>1, <3>2, <3>3, <3>4
    <3> QED BY <3>3, <3>5
  <2>2. CASE asm_layout
    BY <2>2 DEF asm_layout, Checked
  <2> QED BY <2>1, <2>2
<1>3. JumpTargets' = JumpTargets
  <2>1. CASE end_of_source
    BY <2>1, SameTargets DEF end_of_source
  <2>2. CASE asm_layout
    <3>1. ItemsOK
      BY DEF AsmInv, LayoutInv, Shapes
    <3>2. JumpItems' = JumpItems
      BY <2>2, <3>1, SameChoices
    <3>3. \A i \in JumpItems : items'[i].target = items[i].target
      BY <2>2, <3>1, Grown, Sized DEF JumpItems
    <3>4. \A x : x \in JumpTargets' <=> \E i \in JumpItems' : x = items'[i].target
      BY DEF JumpTargets
    <3> QED BY <3>2, <3>3, <3>4 DEF JumpTargets
  <2> QED BY <2>1, <2>2
<1>4. CheckedTo(n)'
  BY <1>1, <1>2, <1>3, CheckedStays
<1> QED BY <1>1, <1>2, <1>4 DEF Checked, RefusedRightly

\* asm_finish_text() finds a jump to what isn't a label of the code, or defines all of the labels.
LEMMA CheckedFinish ==
  ASSUME AsmInv, TextRead, Checked, asm_finish_text
  PROVE  Checked'
<1>1. pc = "finish" /\ source' = source /\ pc' \in {"failed", "check"}
  BY DEF asm_finish_text, asm_fail
<1>2. PICK n \in Nat : n = Len(source) /\ CheckedTo(n) /\ LinesRead(n) /\ ObjOK
  BY <1>1 DEF Checked, TextRead
<1>3. Lines = 1..n /\ source \in Sources
  BY <1>1, <1>2, SourcesAssumption DEF Lines, TextRead, IsText
<1>4. DOMAIN label_item = {CutName(k) : k \in TextLabels(n)} /\ DOMAIN label_item = CutLabels({"text"})
  BY <1>2, <1>3, TextNames DEF LinesRead, LabelsRead
<1>5. (\E i \in DOMAIN items : items[i].is_jump /\ items[i].target \notin DOMAIN label_item) <=> ~(JumpNames(n) \subseteq DOMAIN label_item)
  <2>1. JumpNames(n) = JumpTargets
    BY <1>2 DEF CheckedTo
  <2> QED BY <2>1 DEF JumpTargets, JumpItems
<1>6. CASE ~(JumpNames(n) \subseteq DOMAIN label_item)
  <2>1. pc' = "failed" /\ error' = "a jump to what isn't a label of the code"
    BY <1>5, <1>6 DEF asm_finish_text, asm_fail
  <2>2. PICK x \in JumpNames(n) : x \notin CutLabels({"text"})
    BY <1>4, <1>6
  <2>3. PICK k \in 1..n : IsJump(k) /\ x \in LineNames(k)
    BY <2>2 DEF JumpNames
  <2>4. k \in CodeLines /\ LineNames(k) = {Cut(name) : name \in NamesIn(k)}
    BY <1>3, <2>3 DEF IsJump, CodeLines, LineNames
  <2>5. \E name \in NamesIn(k) : Cut(name) \notin CutLabels({"text"})
    BY <2>2, <2>3, <2>4
  <2>6. error' \in Mistakes
    BY <2>1, <2>3, <2>4, <2>5, MistakesAre
  <2>7. (error \in Mistakes)'
    BY <1>1, <2>6, SameMistakes
  <2> QED BY <2>1, <2>7 DEF Checked, RefusedRightly
<1>7. CASE JumpNames(n) \subseteq DOMAIN label_item
  <2>1. /\ pc' = "check"
        /\ obj' = [obj EXCEPT !.sections.text = @ \o textBytes(Len(items)), !.relocs = @ \o textRelocs, !.symbols = [i \in DOMAIN @ |-> placedSymbol(@[i])]]
    BY <1>5, <1>7, Zenon DEF asm_finish_text
  <2>2. PICK bytes, relocs, symbols : /\ bytes = textBytes(Len(items)) /\ relocs = obj.relocs \o textRelocs
                                      /\ symbols = [i \in DOMAIN obj.symbols |-> placedSymbol(obj.symbols[i])]
    OBVIOUS
  <2>3. obj' = [obj EXCEPT !.sections.text = @ \o bytes, !.relocs = relocs, !.symbols = symbols]
    BY <2>1, <2>2, Zenon
  <2>4. obj'.symbols = symbols
    BY <1>2, <2>3 DEF ObjOK
  <2>5. Table(symbols, NamesTo(n), ExternsTo(n), DataNames(n) \cup (DOMAIN label_item \cap NamesTo(n)))
    BY <1>2, <2>2, TablePlaced DEF CheckedTo
  <2>6. DataNames(n) \cup (DOMAIN label_item \cap NamesTo(n)) = LabelNames(n)
    <3>1. \A k \in LabelsTo(n) : k \in 1..n /\ source[k].is = "label" /\ LineNames(k) = {CutName(k)}
      BY DEF LabelsTo, LineNames
    <3>2. \A x : x \in DataNames(n) <=> \E k \in LabelsTo(n) : SectionAt(k) # "text" /\ x = CutName(k)
      BY <3>1 DEF DataNames, LabelsTo
    <3>3. \A x : x \in DOMAIN label_item <=> \E k \in LabelsTo(n) : SectionAt(k) = "text" /\ x = CutName(k)
      BY <1>4 DEF TextLabels
    <3>4. \A k \in LabelsTo(n) : CutName(k) \in NamesTo(n)
      BY <3>1 DEF NamesTo
    <3> QED BY <3>2, <3>3, <3>4 DEF LabelNames
  <2>7. (/\ \A k \in 1..n : Faultless(k)
         /\ JumpNames(n) \subseteq {CutName(k) : k \in TextLabels(n)}
         /\ Table(symbols, NamesTo(n), ExternsTo(n), LabelNames(n)))
    BY <1>2, <1>4, <1>7, <2>5, <2>6 DEF CheckedTo
  <2>8. CheckedText(n)'
    <3>1. /\ \A k : (Faultless(k)' <=> Faultless(k))
          /\ \A k : NamesTo(k)' = NamesTo(k) /\ ExternsTo(k)' = ExternsTo(k) /\ JumpNames(k)' = JumpNames(k)
      BY <1>1, SameNames
    <3>2. \A k : CutName(k)' = CutName(k) /\ TextLabels(k)' = TextLabels(k)
      BY <1>1, SameText
    <3>3. {CutName(k) : k \in TextLabels(n)}' = {CutName(k) : k \in TextLabels(n)}
      BY <3>2, Zenon
    <3>4. LabelNames(n)' = LabelNames(n)
      BY <1>1, CheckedStays
    <3>5. \A k \in 1..n : Faultless(k)'
      BY <2>7, <3>1
    <3>6. JumpNames(n)' \subseteq {CutName(k) : k \in TextLabels(n)}'
      BY <2>7, <3>1, <3>3
    <3>7. Table(obj'.symbols, NamesTo(n)', ExternsTo(n)', LabelNames(n)')
      BY <2>4, <2>7, <3>1, <3>4
    <3> QED BY <3>5, <3>6, <3>7, Zenon DEF CheckedText
  <2>9. \E m \in Nat : m = Len(source') /\ CheckedText(m)'
    BY <1>1, <1>2, <2>8
  <2> QED BY <2>1, <2>9 DEF Checked, RefusedRightly
<1> QED BY <1>6, <1>7

\* A name of the text that isn't defined is that of an instruction, of data or of a global.
LEMMA UndefinedNames ==
  ASSUME NEW n \in Nat, Lines = 1..n
  PROVE  (\E x \in NamesTo(n) : x \notin LabelNames(n) \cup ExternsTo(n)) <=>
         \E k \in Lines : \E name \in NamesIn(k) : Cut(name) \notin CutLabels(All) \cup Externs
<1>1. CutLabels(All) = LabelNames(n) /\ Externs = ExternsTo(n)
  BY TextNames DEF LabelNames
<1>2. ASSUME NEW x \in NamesTo(n), x \notin LabelNames(n) \cup ExternsTo(n)
      PROVE  \E k \in Lines : \E name \in NamesIn(k) : Cut(name) \notin CutLabels(All) \cup Externs
  <2>1. PICK k \in 1..n : x \in LineNames(k)
    BY DEF NamesTo
  <2>2. source[k].is # "label"
    BY <1>2, <2>1 DEF LineNames, LabelNames, LabelsTo
  <2>3. source[k].is # "extern"
    BY <1>2, <2>1 DEF ExternsTo
  <2>4. LineNames(k) = {Cut(name) : name \in NamesIn(k)}
    BY <2>2, <2>3 DEF LineNames
  <2>5. PICK name \in NamesIn(k) : x = Cut(name)
    BY <2>1, <2>4
  <2> QED BY <1>1, <1>2, <2>5
<1>3. ASSUME NEW k \in Lines, NEW name \in NamesIn(k), Cut(name) \notin CutLabels(All) \cup Externs
      PROVE  \E x \in NamesTo(n) : x \notin LabelNames(n) \cup ExternsTo(n)
  <2>1. source[k].is \in {"instruction", "data", "global"}
    BY DEF NamesIn
  <2>2. LineNames(k) = {Cut(other) : other \in NamesIn(k)}
    BY <2>1 DEF LineNames
  <2>3. Cut(name) \in LineNames(k)
    BY <2>2
  <2>4. Cut(name) \in NamesTo(n)
    BY <2>3 DEF NamesTo
  <2> QED BY <1>1, <1>3, <2>4
<1> QED BY <1>2, <1>3

\* check_symbols() finds a name that isn't defined, or there is nothing left to find.
LEMMA CheckedSymbols ==
  ASSUME AsmInv, TextRead, Checked, check_symbols
  PROVE  Checked'
<1>1. pc = "check" /\ source' = source /\ pc' \in {"failed", "assembled"}
  BY DEF check_symbols, asm_fail
<1>2. PICK n \in Nat : n = Len(source) /\ CheckedText(n) /\ LinesRead(n)
  BY <1>1 DEF Checked, TextRead
<1>3. Lines = 1..n
  BY <1>1, <1>2, SourcesAssumption DEF Lines, TextRead, IsText
<1>4. (\E s \in Range(obj.symbols) : s.section = "none" /\ ~s.is_extern) <=> \E x \in NamesTo(n) : x \notin LabelNames(n) \cup ExternsTo(n)
  BY <1>2, TableUndefined DEF CheckedText
<1>5. CASE \E s \in Range(obj.symbols) : s.section = "none" /\ ~s.is_extern
  <2>1. pc' = "failed" /\ error' = "not defined"
    BY <1>5 DEF check_symbols, asm_fail
  <2>2. error' \in Mistakes
    BY <1>3, <1>4, <1>5, <2>1, UndefinedNames, MistakesAre
  <2>3. (error \in Mistakes)'
    BY <1>1, <2>2, SameMistakes
  <2> QED BY <2>1, <2>3 DEF Checked, RefusedRightly
<1>6. CASE ~(\E s \in Range(obj.symbols) : s.section = "none" /\ ~s.is_extern)
  <2>1. pc' = "assembled"
    BY <1>6 DEF check_symbols
  <2>2. ~\E k \in Lines : \E name \in NamesIn(k) : Cut(name) \notin CutLabels(All) \cup Externs
    BY <1>3, <1>4, <1>6, UndefinedNames
  <2>3. ~\E j, k \in LabelLines : j < k /\ CutName(j) = CutName(k)
    <3>1. LabelLines = LabelsTo(n)
      BY <1>3, TextNames
    <3>2. \A j \in LabelsTo(n) : j \in Nat
      BY DEF LabelsTo
    <3> QED BY <1>2, <3>1, <3>2 DEF LinesRead, LabelsRead
  <2>4. \A k \in Lines : Faultless(k) /\ LineRead(k)
    BY <1>2, <1>3 DEF CheckedText, LinesRead
  <2>5. ~\E k \in Lines : source[k].is = "section" /\ source[k].section \notin sectionNames
    BY <2>4 DEF Faultless
  <2>6. ~\E k \in Lines : source[k].is = "data" /\ source[k].size # 8 /\ \E v \in Range(source[k].values) : v.is = "name"
    BY <2>4 DEF Faultless
  <2>7. ~\E k \in Lines : source[k].is = "align" /\ SectionAt(k) = "text"
    BY <2>4 DEF LineRead
  <2>8. \A k \in CodeLines : k \in Lines /\ source[k].is = "instruction"
    BY DEF CodeLines
  <2>9. ~\E k \in CodeLines : SectionAt(k) # "text"
    BY <2>4, <2>8 DEF LineRead
  <2>10. ~\E k \in CodeLines : (\E a \in Range(source[k].ops) : BadArg(a)) \/ Unknown(k)
    BY <2>4, <2>8 DEF Faultless
  <2>11. ~\E k \in CodeLines : IsJump(k) /\ \E name \in NamesIn(k) : Cut(name) \notin CutLabels({"text"})
    <3> SUFFICES ASSUME NEW k \in CodeLines, IsJump(k), NEW name \in NamesIn(k) PROVE Cut(name) \in CutLabels({"text"})
      OBVIOUS
    <3>1. LineNames(k) = {Cut(other) : other \in NamesIn(k)}
      BY <2>8 DEF LineNames
    <3>2. Cut(name) \in JumpNames(n)
      BY <1>3, <2>8, <3>1 DEF JumpNames
    <3> QED BY <1>2, <1>3, <3>2, TextNames DEF CheckedText
  <2>12. \A m : m \notin Mistakes
    BY <2>2, <2>3, <2>5, <2>6, <2>7, <2>9, <2>10, <2>11, MistakesAre
  <2>13. (Mistakes = {})'
    BY <1>1, <2>12, SameMistakes
  <2> QED BY <2>1, <2>13 DEF Checked, RefusedRightly
<1> QED BY <1>5, <1>6

\* Every step keeps the invariant. While the program is made of the object, the text has no mistake.
LEMMA CheckedStep == AsmInv /\ TextRead /\ Checked /\ [Next]_vars => Checked'
<1> SUFFICES ASSUME AsmInv, TextRead, Checked, [Next]_vars PROVE Checked'
  OBVIOUS
<1>1. CASE assemble
  <2>1. CASE label \/ section_line \/ declare_line \/ asm_data_line \/ times_line \/ align_line \/ asm_instruction
    BY <2>1, CheckedLine
  <2>2. CASE end_of_source \/ asm_layout
    BY <2>2, CheckedRound
  <2>3. CASE asm_finish_text
    BY <2>3, CheckedFinish
  <2>4. CASE check_symbols
    BY <2>4, CheckedSymbols
  <2> QED BY <1>1, <2>1, <2>2, <2>3, <2>4 DEF assemble, x64_assemble
<1>2. CASE write_exe \/ write_elf \/ write_coff \/ read_coff \/ link
  <2>1. pc \in {"assembled", "read", "object", "linking"} /\ pc' \in {"unwritten", "written", "linking", "object", "read"} /\ source' = source
    BY <1>2 DEF write_exe, write_elf, write_coff, read_coff, link, refuse, done
  <2>2. Mistakes = {}
    BY <2>1 DEF Checked, RefusedRightly
  <2>3. (Mistakes = {})'
    BY <2>1, <2>2, SameMistakes
  <2> QED BY <2>1, <2>3 DEF Checked, RefusedRightly
<1>3. CASE finished \/ UNCHANGED vars
  <2>1. UNCHANGED vars
    BY <1>3 DEF finished
  <2>2. source' = source /\ line' = line /\ pc' = pc /\ error' = error /\ obj' = obj /\ items' = items
    BY <2>1 DEF vars
  <2>3. \A n \in Nat : (CheckedTo(n) => CheckedTo(n)') /\ (CheckedText(n) => CheckedText(n)')
    <3> SUFFICES ASSUME NEW n \in Nat PROVE (CheckedTo(n) => CheckedTo(n)') /\ (CheckedText(n) => CheckedText(n)')
      OBVIOUS
    <3> QED BY <2>2, CheckedStays, SameTargets
  <2>4. RefusedRightly'
    BY <2>2, SameMistakes DEF Checked, RefusedRightly
  <2> QED BY <2>2, <2>3, <2>4 DEF Checked
<1> QED BY <1>1, <1>2, <1>3 DEF Next

\* The assembler stops exactly for a mistake that the text has. The invariant
\* relates the table of symbols to the names of the lines that have been read,
\* and the targets of the jumps to the names in their lines; a line on its own
\* is without fault when it has been read.
THEOREM RefusedRightlyAlways == Spec => []RefusedRightly
<1>1. Checked => RefusedRightly
  BY DEF Checked
<1> QED BY AsmInit, AsmStep, TextReadInit, TextReadStep, CheckedInit, CheckedStep, <1>1, PTL DEF Spec
=============================================================================
