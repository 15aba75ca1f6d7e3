---------------------------- MODULE Characters ----------------------------
(***************************************************************************)
(* What lex_file (src/lexer.c) knows of characters and words. A text ends  *)
(* at its NUL, so there is none in it.                                     *)
(***************************************************************************)
EXTENDS Integers, Sequences, FiniteSets, SequencesExt

CONSTANTS Texts,         \* the files to look at
          Letters,       \* a-z, A-Z
          Digits,        \* the digits, in the order of their values
          HexLetters,    \* of the letters, a to f in the order of their values
          Radix,         \* the bases of 0x, 0b and 0o by their letter
          Keywords,      \* the token of each keyword
          Operators,     \* the token of each operator, of one to three characters
          WideBytes,     \* for each byte from 0x80 on, the bytes its character has
          Escapes,       \* what may follow a backslash in a character
          Bits           \* the width of unsigned long long

NUL == "NUL"
QUOTE == "\""

Positive(n) == n \in Nat \ {0}

ASSUME CharactersAssumption ==
    /\ \A text \in Texts : text \in Seq(ToSet(text) \ {NUL})
    /\ Digits \in Seq(ToSet(Digits)) /\ HexLetters \in Seq(ToSet(HexLetters))
    /\ NUL \notin Letters \cup ToSet(Digits) \cup ToSet(HexLetters) \cup DOMAIN Radix \cup DOMAIN WideBytes
    /\ \A c \in DOMAIN Radix : Positive(Radix[c])
    /\ \A c \in DOMAIN WideBytes : Positive(WideBytes[c])
    /\ Positive(2^Bits)

\* No keyword is empty, and no operator starts like a number
ASSUME WordsAssumption ==
    /\ <<>> \notin DOMAIN Keywords
    /\ "0" \in ToSet(Digits) /\ \A word \in DOMAIN Operators : word[1] \notin ToSet(Digits)
=============================================================================
