------------------------------- MODULE Lexer -------------------------------
(***************************************************************************)
(* lex_file (src/lexer.c): the tokens of a text, each with the positions   *)
(* it starts and ends at. A text is a sequence of characters; indices are  *)
(* from 0 as in the code. One round of the loop is one step.               *)
(***************************************************************************)
EXTENDS Characters

VARIABLES text,        \* lexer->file_text
          here,        \* get_current_position: char_idx, line_number and col
          tokens, had_errors,
          lexing       \* lex_file has not returned

lexVars == <<text, here, tokens, had_errors, lexing>>

at(i) == IF i < Len(text) THEN text[i + 1] ELSE NUL
peek_char(n) == at(here.idx + n)

eat_character(p) == IF at(p.idx) = "\n" THEN [idx |-> p.idx + 1, line |-> p.line + 1, col |-> 1]
                                        ELSE [idx |-> p.idx + 1, line |-> p.line, col |-> p.col + 1]
eat_characters(p, n) == LET ate[k \in 0..n] == IF k = 0 THEN p ELSE eat_character(ate[k - 1]) IN ate[n]

is_digit(c) == c \in ToSet(Digits)
starts_identifier(c) == c \in Letters \cup {"_"}
proceeds_identifier(c) == starts_identifier(c) \/ is_digit(c)

\* The first index from i on whose character is not one of S
afterAll(i, S) == CHOOSE k \in i..Len(text) : at(k) \notin S /\ \A j \in i..(k-1) : at(j) \in S

\* Digits with '_' between them, from i on
afterDigits(i) == CHOOSE k \in i..Len(text) :
                    LET goesOn(j) == is_digit(at(j)) \/ (at(j) = "_" /\ is_digit(at(j + 1)))
                    IN  ~goesOn(k) /\ \A j \in i..(k-1) : goesOn(j)

upTo(k) == eat_characters(here, k - here.idx)
word(i, k) == SubSeq(text, i + 1, k)

Token(type, end, value) == [type |-> type, start |-> here, end |-> end, value |-> value]

\* A token from here to k
push_token(type, k, value) == /\ tokens' = Append(tokens, Token(type, upTo(k), value))
                              /\ here' = upTo(k)
                              /\ UNCHANGED <<text, lexing>>
unchangedErrors == UNCHANGED had_errors

lexer_init == /\ text \in Texts
              /\ here = [idx |-> 0, line |-> 1, col |-> 1]
              /\ tokens = <<>>
              /\ had_errors = FALSE
              /\ lexing = TRUE
-----------------------------------------------------------------------------
c0 == peek_char(0)
c1 == peek_char(1)

startsComment == c0 = "/" /\ c1 = "/"
startsPrefixed == c0 = "0" /\ c1 \in DOMAIN Radix
digitValue(c) == IF is_digit(c) THEN (CHOOSE n \in 1..Len(Digits) : Digits[n] = c) - 1
                 ELSE IF c \in ToSet(HexLetters) THEN (CHOOSE n \in 1..Len(HexLetters) : HexLetters[n] = c) + 9
                 ELSE 35

blank == /\ c0 \in {" ", "\t", "\n"}
         /\ here' = eat_character(here)
         /\ UNCHANGED <<text, tokens, had_errors, lexing>>

comment == /\ startsComment
           /\ here' = LET rest == {k \in here.idx..Len(text) : at(k) \in {"\n", NUL}}
                      IN  upTo(CHOOSE k \in rest : \A j \in rest : k <= j)
           /\ UNCHANGED <<text, tokens, had_errors, lexing>>

\* Mutant: overflow is looked for after the value wrapped around
afterDigitWrapped(base, acc, c) ==
    LET digit == digitValue(c)
        value == (acc.value * base + digit) % 2^Bits
    IN  [value     |-> value,
         overflow  |-> acc.overflow \/ value < acc.value,
         bad_digit |-> acc.bad_digit \/ digit >= base]

\* The digits of 0xff, 0b10 and 0o17 one by one: value wraps around, overflow is
\* noted before it does
afterDigit(base, acc, c) ==
    LET digit == digitValue(c)
    IN  [value     |-> (acc.value * base + digit) % 2^Bits,
         overflow  |-> acc.overflow \/ acc.value > (2^Bits - 1 - digit) \div base,
         bad_digit |-> acc.bad_digit \/ digit >= base]

\* What there is of the number after the digits from i to k; a '_' is passed over
afterPrefix(base, i, k) ==
    LET read[j \in i..k] == IF j = i THEN [value |-> 0, overflow |-> FALSE, bad_digit |-> FALSE]
                            ELSE IF at(j - 1) = "_" THEN read[j - 1]
                            ELSE afterDigit(base, read[j - 1], at(j - 1))
    IN  read[k]

prefixed == /\ startsPrefixed
            /\ LET end    == afterAll(here.idx + 2, {"_"} \cup Letters \cup ToSet(Digits))
                   result == afterPrefix(Radix[c1], here.idx + 2, end)
                   noDigits == \A i \in (here.idx + 2)..(end - 1) : at(i) = "_"
               IN  /\ push_token("INTEGER", end, result.value)
                   /\ had_errors' = (had_errors \/ noDigits \/ result.bad_digit \/ result.overflow)

\* strtoull: the biggest value stands for all that are too big
decimal(digits) == LET n == FoldLeft(LAMBDA acc, c : IF acc >= 2^Bits THEN acc ELSE acc * 10 + digitValue(c), 0,
                                     SelectSeq(digits, LAMBDA c : c # "_"))
                   IN  IF n < 2^Bits THEN n ELSE 2^Bits - 1

number == /\ is_digit(c0) /\ ~startsPrefixed
          /\ LET k == afterDigits(here.idx + 1)
             IN  IF at(k) = "." /\ at(k + 1) # "."
                 THEN push_token("FLOAT", afterDigits(k + 1), 0)
                 ELSE push_token("INTEGER", k, decimal(word(here.idx, k)))
          /\ unchangedErrors

isHex(c) == digitValue(c) < 16

\* Where a character ends after its quote, before the quote that should follow
afterCharacter ==
    LET i == here.idx + 1 IN
    IF at(i) = "\\" THEN
        IF at(i + 1) = "x" /\ isHex(at(i + 2)) /\ isHex(at(i + 3)) THEN [idx |-> i + 4, good |-> TRUE]
        ELSE IF at(i + 1) = NUL THEN [idx |-> i + 1, good |-> FALSE]
        ELSE [idx |-> i + 2, good |-> at(i + 1) \in Escapes]
    ELSE IF at(i) \in {"'", "\n", NUL} THEN [idx |-> i, good |-> FALSE]
    ELSE IF at(i) \in DOMAIN WideBytes THEN [idx |-> afterAll(i, DOMAIN WideBytes), good |-> FALSE]
    ELSE [idx |-> i + 1, good |-> TRUE]

\* What is between the character and a ' on the same line is taken in
character == /\ c0 = "'"
             /\ LET k    == afterCharacter.idx
                    stop == CHOOSE j \in k..Len(text) : /\ at(j) \in {"'", "\n", NUL}
                                                        /\ \A m \in k..(j-1) : at(m) \notin {"'", "\n"}
                IN  /\ push_token("INTEGER", IF at(stop) = "'" THEN stop + 1 ELSE k, 0)
                    /\ had_errors' = (had_errors \/ ~afterCharacter.good \/ at(k) # "'")

\* The " that ends the string, or the end of the file
closingQuote == CHOOSE k \in (here.idx + 1)..Len(text) :
    LET escaped[j \in here.idx..Len(text)] ==
            j > here.idx + 1 /\ at(j - 1) = "\\" /\ ~escaped[j - 1] /\ at(j) # NUL
    IN  /\ at(k) = NUL \/ (at(k) = QUOTE /\ ~escaped[k])
        /\ \A j \in (here.idx + 1)..(k - 1) : at(j) # QUOTE \/ escaped[j]

string == /\ c0 = QUOTE
          /\ LET k == closingQuote
             IN  /\ push_token("STRING", IF at(k) = NUL THEN k ELSE k + 1, 0)
                 /\ had_errors' = (had_errors \/ at(k) = NUL)

keywordEnd == afterAll(here.idx, Letters \cup {"_"} \cup ToSet(Digits))

after_dot == tokens # <<>> /\ Last(tokens).type = "."
declared(token, k) == token \notin {"true", "false", "null"} /\ at(afterAll(k, {" ", "\t"})) = ":"

match_keyword == /\ ~startsPrefixed /\ ~is_digit(c0)
                 /\ word(here.idx, keywordEnd) \in DOMAIN Keywords

isKeyword == match_keyword /\ ~after_dot /\ ~declared(Keywords[word(here.idx, keywordEnd)], keywordEnd)

make_keyword == /\ isKeyword
                /\ LET token == Keywords[word(here.idx, keywordEnd)]
                   IN  push_token(IF token \in {"true", "false"} THEN "BOOLEAN" ELSE token, keywordEnd, token)
                /\ unchangedErrors

make_identifier == /\ starts_identifier(c0) /\ ~isKeyword
                   /\ push_token("IDENTIFIER", keywordEnd, word(here.idx, keywordEnd))
                   /\ unchangedErrors

\* An operator of n characters starts here
isOperator(n) == here.idx + n <= Len(text) /\ word(here.idx, here.idx + n) \in DOMAIN Operators
\* is_triple_character_token, then is_double and is_single_character_token
operatorLength == IF isOperator(3) THEN 3 ELSE IF isOperator(2) THEN 2 ELSE IF isOperator(1) THEN 1 ELSE 0

operator == /\ ~startsComment
            /\ operatorLength > 0
            /\ push_token(Operators[word(here.idx, here.idx + operatorLength)], here.idx + operatorLength, 0)
            /\ unchangedErrors

startsToken(c) == \/ c \in {" ", "\t", "\n", "'", QUOTE, NUL} \/ proceeds_identifier(c) \/ operatorLength > 0

\* Mutant: the rest of the file is left out
unknownEatsOn == /\ ~startsToken(c0)
                 /\ here' = upTo(Len(text))
                 /\ UNCHANGED <<text, tokens, lexing, had_errors>>

\* A character of UTF-8 is all of its bytes
unknown == /\ ~startsToken(c0)
           /\ LET length == IF c0 \in DOMAIN WideBytes THEN WideBytes[c0] ELSE 1
                  k      == here.idx + length
              IN  here' = upTo(IF k < Len(text) THEN k ELSE Len(text))
           /\ had_errors' = TRUE
           /\ UNCHANGED <<text, tokens, lexing>>

end == /\ c0 = NUL /\ lexing
       /\ tokens' = Append(tokens, Token("END", here, 0))
       /\ lexing' = FALSE
       /\ UNCHANGED <<text, here, had_errors>>

LexStep == /\ lexing
           /\ \/ blank \/ comment \/ prefixed \/ number \/ character \/ string
              \/ make_keyword \/ make_identifier \/ operator \/ unknown \/ end

LexSpec == lexer_init /\ [][LexStep]_lexVars
-----------------------------------------------------------------------------
(* Properties *)

\* What is a line and a column, counted in the text.
posOf(i) == LET breaks == {j \in 0..(i-1) : at(j) = "\n"}
                before == CHOOSE j \in breaks \cup {-1} : \A m \in breaks : m <= j
            IN  [idx |-> i, line |-> 1 + Cardinality(breaks), col |-> i - before]

\* Errors, hovers and the debugger's lines are where the tokens say they are: the
\* positions that lex_file counts along are those of the text, also after line
\* breaks in strings and characters, and it never goes past the end of the file.
PositionsRight == /\ here.idx <= Len(text) /\ here = posOf(here.idx)
                  /\ \A k \in 1..Len(tokens) : /\ tokens[k].start = posOf(tokens[k].start.idx)
                                               /\ tokens[k].end = posOf(tokens[k].end.idx)

covers(k, i) == tokens[k].start.idx <= i /\ i < tokens[k].end.idx
inToken(i) == \E k \in 1..Len(tokens) : covers(k, i)
inComment(i) == \E j \in 0..i : /\ at(j) = "/" /\ at(j + 1) = "/"
                               /\ \A m \in j..i : at(m) # "\n" /\ ~inToken(m)

\* Every character of a text without errors is in one token, or blank, or in a
\* comment: none is skipped silently, whatever follows it, and none is read twice.
NothingLost ==
    ~lexing => /\ \A i \in 0..(Len(text)-1) : Cardinality({k \in 1..Len(tokens) : covers(k, i)}) <= 1
               /\ ~had_errors => \A i \in 0..(Len(text)-1) : inToken(i) \/ at(i) \in {" ", "\t", "\n"} \/ inComment(i)

\* Every character of a text without errors is in one token, or blank, or in a comment, and
\* the positions of the tokens, which lex_file counts along, are those of the text, also after
\* errors and after line breaks in strings
TokensExact == PositionsRight /\ NothingLost

\* The number that the digits from i to k stand for, without a limit
trueValue(base, i, k) ==
    LET read[j \in i..k] == IF j = i THEN 0
                            ELSE IF at(j - 1) = "_" THEN read[j - 1]
                            ELSE read[j - 1] * base + digitValue(at(j - 1))
    IN  read[k]

\* A number in hex, binary or octal that was accepted has the value that is
\* written: "The number is bigger than 64 bits" is reported for all that would
\* wrap around, although the test is made with arithmetic that wraps around.
PrefixedExact ==
    ~had_errors => \A n \in 1..Len(tokens) :
        LET i == tokens[n].start.idx
        IN  tokens[n].type = "INTEGER" /\ at(i) = "0" /\ at(i + 1) \in DOMAIN Radix
              => tokens[n].value = trueValue(Radix[at(i + 1)], i + 2, tokens[n].end.idx)

\* A round of lex_file moves on in the text or is the last: whatever the text is, it ends
RoundMovesOn == lexing => here'.idx > here.idx \/ ~lexing'
=============================================================================
