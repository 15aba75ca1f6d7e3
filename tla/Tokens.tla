------------------------------- MODULE Tokens -------------------------------
(***************************************************************************)
(* What the parser (src/parser.c) knows of a file before it parses it: the *)
(* tokens, and the looks ahead by which it tells apart what starts alike.  *)
(* A token is its type, its line and whether it is the first of the line   *)
(* (column 1); a name is its own type. Indices are from 1, and from the    *)
(* end of the file on all is "END". A look ahead that gives an index gives *)
(* 0 for the -1 of the code.                                               *)
(***************************************************************************)
EXTENDS Integers, Sequences, FiniteSets, FiniteSetsExt, SequencesExt

CONSTANT Names         \* the identifiers

VARIABLE toks          \* the tokens of the file, without its end

t(i) == IF i \in 1..Len(toks) THEN toks[i].t ELSE "END"
lineOf(i) == IF i \in 1..Len(toks) THEN toks[i].line ELSE 0
firstOfLine(i) == i \in 1..Len(toks) /\ toks[i].col = 1

isName(i) == t(i) \in Names

Strings == {"STRING", "C"}     \* C stands for what an extern block can name
Literals == {"BOOL", "INT", "FLOAT", "NULL"} \cup Strings
Primitives == {"int", "f64", "bool", "void"}
AssignmentOperators == {"=", "+=", "-=", "*=", "/=", "%=", "^=", "|=", "&=", "<<=", ">>="}
KeywordTokens == {"import", "use", "namespace", "extern", "struct", "union", "enum", "method", "return", "try", "catch", "throw",
             "defer", "break", "continue", "assert", "if", "else", "switch", "case", "for", "in", "while", "as", "xx",
             "typeof", "sizeof", "new", "string", "any", "BOOL", "NULL"} \cup Primitives

is_primitive_type_token(i) == t(i) \in Primitives
is_assignment_operator(i) == t(i) \in AssignmentOperators
keyword_as_name(i) == t(i) \in KeywordTokens
starts_line(i) == lineOf(i - 1) < lineOf(i)

\* The bitwise operators bind tighter than the comparisons
binaryPrecedence == [o \in {"||"} |-> 1] @@ [o \in {"&&"} |-> 2] @@ [o \in {"==", "!="} |-> 3]
                 @@ [o \in {">", "<", ">=", "<="} |-> 4] @@ [o \in {"|"} |-> 5] @@ [o \in {"^"} |-> 6]
                 @@ [o \in {"&"} |-> 7] @@ [o \in {"<<", ">>", "??"} |-> 8] @@ [o \in {"-", "+"} |-> 9]
                 @@ [o \in {"*", "/", "%"} |-> 10] @@ [o \in {".", "?.", "[", "("} |-> 14]
unaryPrecedence == [o \in {"!", "~"} |-> 12] @@ [o \in {"-", "&", "*", "..."} |-> 13]
AsPrecedence == 13
MIN_PRECEDENCE == 0

is_binary_operator(i) == t(i) \in DOMAIN binaryPrecedence
ends_expression(i) == t(i) \in {"END", ")", ";", "]", "{", "}", ",", "..", "..."} \cup AssignmentOperators

\* Only the declarations at the top of a file start at the start of a line
starts_top_level_declaration(i) ==
    /\ firstOfLine(i)
    /\ \/ t(i) \in {"import", "use", "extern", "@"}
       \/ isName(i) /\ t(i + 1) \in {"::", ":", ":="}

\* The first index from i on that does not satisfy P
firstNot(i, P(_)) == CHOOSE k \in i..(Len(toks) + 1) : ~P(k) /\ \A j \in i..(k-1) : P(j)
                     \* P is never true of the end

\* The end of a list of names with commas between them: the index after the last name
afterNames(i) == LET ends == {k \in i..Len(toks) : \A j \in i..k : IF (j - i) % 2 = 0 THEN isName(j) ELSE t(j) = ","}
                     names == {k \in ends : (k - i) % 2 = 0}
                 IN  IF names = {} THEN 0 ELSE Max(names) + 1

\* a, b := and the like. A comma that no name follows ends it too
starts_declaration(i) == isName(i) /\ t(afterNames(i)) \in {":", ":=", "::"}

starts_function_defn_at(i) ==
    LET j == IF t(i) = "method" THEN (IF t(i + 1) = "*" THEN i + 2 ELSE i + 1) ELSE i
    IN  \/ /\ t(j) = "<"
           /\ LET k == firstNot(j + 1, LAMBDA m : isName(m) \/ t(m) = ",")
              IN  t(k) = ">" /\ t(k + 1) = "("
        \/ /\ t(j) = "("
           /\ IF t(j + 1) = ")" THEN t(j + 2) \in {"->", "{"} ELSE starts_declaration(j + 1)

\* From the '<' at i, the index after its '>'. A '>>' closes two
InTypeArguments == {"<", ">", ">>", "INT", "string", "any", "..", ".", "*", "?", "[", "]", ",", "(", ")", "->"}
                       \cup Names \cup Primitives
scan_type_arguments(i) ==
    LET change(j) == CASE t(j) = "<" -> 1 [] t(j) = ">" -> -1 [] t(j) = ">>" -> -2 [] OTHER -> 0
        depth[k \in (i-1)..Len(toks)] == IF k < i THEN 0 ELSE depth[k-1] + change(k)
        ends == {k \in i..Len(toks) : depth[k] <= 0 /\ \A j \in i..k : t(j) \in InTypeArguments}
    IN  IF ends = {} THEN 0 ELSE Min(ends) + 1

\* The index at which the brackets opened from i on are closed again, or of the end
closingAt(i, opens, closes) ==
    LET depth[k \in (i-1)..Len(toks)] == IF k < i THEN 0 ELSE depth[k-1] + (IF t(k) \in opens THEN 1 ELSE IF t(k) \in closes THEN -1 ELSE 0)
        ends == {k \in i..Len(toks) : t(k) \in closes /\ depth[k] = 0}
    IN  IF ends = {} THEN Len(toks) + 1 ELSE Min(ends)

\* 'Name :: <tokens>' declares another name of a type, from i on
starts_type_alias(i, extern) ==
    CASE t(i) \in Primitives \cup {"string", "any", "*", "?"} -> TRUE
      [] isName(i) -> t(i + 1) = "<" /\ t(scan_type_arguments(i + 1)) = ";"
      [] t(i) = "[" -> \/ t(i + 1) \in {"]", ".."}
                       \/ LET k == closingAt(i, {"["}, {"]"})
                          IN  /\ \A j \in i..k : t(j) \notin {"END", ";"}
                              /\ t(k + 1) \in Names \cup Primitives \cup {"*", "[", "string", "any"}
      [] t(i) = "(" -> /\ ~extern /\ starts_function_defn_at(i)
                       /\ LET depth[k \in (i-1)..Len(toks)] ==
                                  IF k < i THEN 0
                                  ELSE depth[k-1] + (IF t(k) \in {"(", "["} THEN 1 ELSE IF t(k) \in {")", "]"} THEN -1 ELSE 0)
                              ends == {k \in i..Len(toks) : depth[k] = 0 /\ t(k) \in {"{", ";"}}
                          IN  ends # {} /\ t(Min(ends)) = ";"
      [] OTHER -> FALSE

\* x =>, (a, b) => or () =>. closed says that it can't be here: in the header of a
\* statement and not in the arguments of a call
starts_short_lambda(i, closed) ==
    /\ ~closed
    /\ \/ isName(i) /\ t(i + 1) = "=>"
       \/ t(i) = "(" /\ t(i + 1) = ")" /\ t(i + 2) = "=>"
       \/ t(i) = "(" /\ isName(i + 1) /\ LET k == afterNames(i + 1) IN t(k) = ")" /\ t(k + 1) = "=>"

\* After the first of the names of a.b.c, where the last is
lastOfDotted(i) == LET ks == {k \in i..Len(toks) : (k - i) % 2 = 0 /\ \A j \in i..k : IF (j - i) % 2 = 0 THEN isName(j) ELSE t(j) = "."}
                   IN  Max(ks)

starts_struct_literal(i, closed) ==
    /\ ~closed
    /\ \/ t(i) = "{"
       \/ isName(i) /\ LET k == lastOfDotted(i) + 1
                       IN  t(k) = "{" \/ (t(k) = "<" /\ t(scan_type_arguments(k)) = "{")

\* new(Point) and new(*int, a), unlike new(Point{1, 2})
new_takes_type(i) ==
    \/ t(i + 1) \in {"*", "[", "?"}
    \/ is_primitive_type_token(i + 1) /\ t(i + 2) \in {")", ","}
    \/ isName(i + 1) /\ t(lastOfDotted(i + 1) + 1) \in {")", ",", "<"}
=============================================================================
