------------------------------- MODULE Syntax -------------------------------
(***************************************************************************)
(* The text of a tree: what a programmer writes for it, with parentheses   *)
(* only where the precedence of the operators asks for them, and a line of *)
(* its own for every statement. Text is the reference the parser is        *)
(* checked against: a file with the text of some trees has those trees.    *)
(* A "written" node has its tokens and its tree, for what the parser makes *)
(* into something else.                                                    *)
(* "NL" starts a line, "TOP" one that is not indented.                     *)
(***************************************************************************)
EXTENDS Integers, Sequences, SequencesExt

\* The operators between two operands, those that bind tightest last
ByPrecedence == <<{"||"}, {"&&"}, {"==", "!="}, {"<", "<=", ">", ">="}, {"|"}, {"^"}, {"&"},
                  {"<<", ">>", "??"}, {"+", "-"}, {"*", "/", "%"}>>
Prefix  == Len(ByPrecedence) + 1    \* -a, xx a and a as int
Postfix == Prefix + 1               \* a.b, a[b] and a(b)
Level(n) == CASE n.k = "binary" -> CHOOSE l \in DOMAIN ByPrecedence : n.v \in ByPrecedence[l]
              [] n.k \in {"unary", "xx", "as"} -> Prefix
              [] n.k = "function" -> 0
              [] OTHER -> Postfix

RECURSIVE Text(_), Lines(_, _), Prefixed(_, _)

\* The texts of some trees, with some tokens before each
Prefixed(list, before) == IF list = <<>> THEN <<>> ELSE before \o Text(Head(list)) \o Prefixed(Tail(list), before)
Commas(list) == IF list = <<>> THEN <<>> ELSE Text(Head(list)) \o Prefixed(Tail(list), <<",">>)

\* What an operand of an operator is written like, when it has to bind at least as level
Operand(n, level) == IF Level(n) >= level THEN Text(n) ELSE <<"(">> \o Text(n) \o <<")">>
Named(n, sign) == IF n.v = "" THEN Text(n.c[1]) ELSE <<n.v, sign>> \o Text(n.c[1])
Dotted(n) == FlattenSeq([j \in DOMAIN n.c |-> <<n.c[j].v, ".">>]) \o <<n.v>>
Block(n) == <<"{">> \o Lines(n.c, <<"NL">>) \o <<"NL", "}">>

\* <A, B>. The lexer makes one token of two '>'
Angles(list) ==
    LET inner == <<"<">> \o Commas(list.c)
    IN  IF list.c = <<>> THEN <<>> ELSE IF Last(inner) = ">" THEN Front(inner) \o <<">>">> ELSE Append(inner, ">")

\* In the type of a function, what it returns has parentheses, as a comma can follow.
\* Parameters of a function need none
Returns(list, bare) == IF list.c[1].v = "void" THEN <<>>
                       ELSE IF bare /\ Len(list.c) = 1 /\ list.c[1].k # "function type" THEN <<"->">> \o Text(list.c[1])
                       ELSE <<"->", "(">> \o Commas(list.c) \o <<")">>
RECURSIVE Parameters(_)
Parameters(list) ==
    LET n == Head(list)
        type == n.c[2]
    IN  CASE list = <<>> -> <<>>
          [] OTHER -> (IF n.v = "variable" /\ type.k = "function type"
                       THEN <<n.c[1].c[1].v, ":", "(">> \o Commas(type.c[1].c) \o <<")">> \o Returns(type.c[2], TRUE) ELSE Text(n))
                      \o (IF Len(list) > 1 THEN <<",">> \o Parameters(Tail(list)) ELSE <<>>)

ExpressionText(n) ==
    CASE n.k = "literal" -> <<n.v>>
      [] n.k = ";"       -> <<>>
      [] n.k = "builtin" -> <<n.v>>
      [] n.k = "is"      -> <<n.v, "==", ".", n.c[1].v>>
      [] n.k = "is not"  -> <<n.v, "!=", ".", n.c[1].v>>
      [] n.k = "binary"  -> LET l == Level(n) IN Operand(n.c[1], l) \o <<n.v>> \o Operand(n.c[2], l + 1)
      [] n.k \in {"unary"} -> <<n.v>> \o Operand(n.c[1], Prefix)
      [] n.k = "xx"      -> <<"xx">> \o Operand(n.c[1], Prefix)
      [] n.k = "as"      -> Operand(n.c[1], Postfix) \o <<"as">> \o Text(n.c[2])
      [] n.k = "member"  -> Operand(n.c[1], Postfix) \o <<n.v>> \o Text(n.c[2])
      [] n.k = "index"   -> Operand(n.c[1], Postfix) \o <<"[">> \o Text(n.c[2]) \o <<"]">>
      [] n.k = "call"    -> Text(n.c[1]) \o Angles(n.c[3]) \o <<"(">> \o Commas(n.c[2].c) \o <<")">>
      [] n.k \in {"argument", "initializer"} -> Named(n, ":")
      [] n.k = "entry"   -> Text(n.c[1]) \o <<":">> \o Text(n.c[2])
      [] n.k = "array literal" -> <<"[">> \o Commas(n.c) \o <<"]">>
      [] n.k = "map"     -> IF n.c = <<>> THEN <<"[", ":", "]">> ELSE <<"[">> \o Commas(n.c) \o <<"]">>
      [] n.k = "struct literal" -> (IF n.c[1].k = "none" THEN <<>> ELSE Text(n.c[1])) \o <<"{">> \o Commas(n.c[2].c) \o <<"}">>
      [] n.k = "enum value" -> (IF n.c[1].k = "none" THEN <<>> ELSE Text(n.c[1])) \o <<".", n.v>>
      [] n.k = "range"   -> Text(n.c[1]) \o <<n.v>> \o Text(n.c[2])
      [] n.k \in {"typeof", "sizeof", "assert"} -> <<n.k, "(">> \o Text(n.c[1]) \o <<")">>
      [] n.k = "function" /\ n.v = "=>" -> <<"(">> \o Commas(n.c[1].c) \o <<")", "=>">> \o Text(n.c[2])
      [] n.k = "function" /\ n.v # "=>" ->
            (IF n.v = "method *" THEN <<"method", "*">> ELSE IF n.v = "method" THEN <<"method">> ELSE <<>>)
            \o Angles(n.c[1]) \o <<"(">> \o Parameters(SelectSeq(n.c[2].c, LAMBDA q : q.c[2].v # "self")) \o <<")">>
            \o Returns(n.c[3], TRUE) \o (IF n.c[4].k = "none" THEN <<>> ELSE Block(n.c[4]))

TypeText(n) ==
    CASE n.k = "name"      -> Dotted(n)
      [] n.k = "type"      -> IF n.c = <<>> THEN <<n.v>> ELSE Dotted(n.c[1])
      [] n.k = "instance"  -> Text(n.c[1]) \o Angles(n.c[2])
      [] n.k = "slice"     -> <<"[", "]">> \o Text(n.c[2])
      [] n.k = "list of"   -> <<"[", "..", "]">> \o Text(n.c[2])
      [] n.k = "array"     -> <<"[">> \o Text(n.c[1]) \o <<"]">> \o Text(n.c[2])
      [] n.k = "optional"  -> <<"?">> \o Text(n.c[1])
      [] n.k = "pointer"   -> <<"*">> \o Text(n.c[1])
      [] n.k = "variadic"  -> <<"...">> \o Text(n.c[1])
      [] n.k = "function type" -> <<"(">> \o Commas(n.c[1].c) \o <<")">> \o Returns(n.c[2], FALSE)
      [] n.k = "enumerator" -> <<n.v>> \o (IF n.c = <<>> THEN <<>> ELSE <<"=">> \o Text(n.c[1]))
      [] n.k = "enum type" -> <<"enum", "{">> \o Commas(n.c) \o <<"}">>
      [] n.k = "struct type" -> <<"struct", "{">> \o Lines(n.c, <<>>) \o <<"}">>

\* without its ';'
DeclarationText(n) ==
    LET values == Commas(n.c[3].c) IN
    IF n.c[1].c = <<>> THEN Text(n.c[2])
    ELSE (IF Len(n.c) > 3 THEN Prefixed(n.c[4].c, <<"@">>) ELSE <<>>) \o Commas(n.c[1].c) \o
    CASE n.v = "infer"    -> <<":=">> \o values
      [] n.v = "typed"    -> <<":">> \o Text(n.c[2]) \o <<"=">> \o values
      [] n.v = "variable" -> <<":">> \o Text(n.c[2])
      [] n.v = "constant" -> <<"::">> \o values
      [] n.v = "alias"    -> <<"::">> \o Text(n.c[2])

CaseText(n) == IF n.c[1].c[1].k = "else" THEN <<"NL", "else">>
               ELSE Prefixed(n.c[1].c, <<"NL", "case">>)

StatementText(n) ==
    CASE n.k = "declare" -> DeclarationText(n)
      [] n.k = "if"      -> <<"if">> \o Text(n.c[1]) \o Block(n.c[2])
                            \o Prefixed(SubSeq(n.c, 3, Len(n.c)), <<"else">>)
      [] n.k = "else if" -> <<"if">> \o Text(n.c[1]) \o Block(n.c[2])
      [] n.k = "while"   -> <<"while">> \o Text(n.c[1]) \o Block(n.c[2])
      [] n.k = "for"     -> <<"for">> \o (IF n.v = "*" THEN <<"*">> ELSE <<>>)
                            \o (IF n.c[1].c = <<>> THEN <<>>
                                ELSE IF n.c[1].c[1].v = "$it" THEN Text(n.c[2]) ELSE Commas(n.c[1].c) \o <<"in">> \o Text(n.c[2]))
                            \o Block(n.c[3])
      [] n.k = "switch"  -> <<"switch">> \o (IF n.v = "" THEN <<>> ELSE <<n.v, "in">>) \o Text(n.c[1]) \o <<"{">>
                            \o Prefixed(n.c[2].c, <<>>) \o <<"NL", "}">>
      [] n.k = "case"    -> CaseText(n) \o (IF n.c[2].k = "block" THEN Block(n.c[2]) ELSE <<"=>">> \o Text(n.c[2]) \o <<";">>)
      [] n.k \in {"return", "throw"} -> <<n.k>> \o Commas(n.c)
      [] n.k \in {"break", "continue"} -> <<n.k>>
      [] n.k = "defer"   -> <<"defer">> \o Text(n.c[1])
      [] n.k = "expr"    -> Text(n.c[1])
      [] n.k = "assign"  -> Text(n.c[1]) \o <<n.v>> \o Text(n.c[2])
      [] n.k = "block"   -> Block(n)
      [] n.k = "try"     -> <<"try">> \o Block(n.c[1]) \o <<"catch", "(", n.v, ")">> \o Block(n.c[2])
      [] n.k \in {"struct", "union"} -> <<n.v, "::", n.k, "{">> \o Lines(n.c, <<"NL">>) \o <<"NL", "}">>
      [] n.k = "enum"    -> <<n.v, "::", "enum", "{">> \o Commas(n.c) \o <<"}">>
      [] n.k = "#if"     -> <<"#", "if">> \o Text(n.c[1]) \o Block(n.c[2])
                            \o (IF Len(n.c) = 2 THEN <<>> ELSE <<"else">> \o (IF n.c[3].k = "#if" THEN Text(n.c[3]) ELSE Block(n.c[3])))
      [] n.k = "written" -> [j \in DOMAIN n.c[1].c |-> n.c[1].c[j].v]
      [] n.k = "extern"  -> <<"extern", "C", "{">> \o Lines(n.c, <<"NL">>) \o <<"NL", "}">>
      [] n.k \in {"import", "use"} -> IF n.c = <<>> THEN <<n.k, n.v>>
                                      ELSE <<n.k>> \o Text(n.c[1]) \o (IF n.v = "" THEN <<>> ELSE <<"as", n.v>>)

Statements == {"declare", "if", "else if", "while", "for", "switch", "case", "return", "throw", "break", "continue", "defer", "expr",
               "assign", "block", "try", "struct", "union", "enum", "extern", "import", "use", "#if", "written"}
Types == {"name", "type", "instance", "slice", "list of", "array", "optional", "pointer", "variadic", "function type",
          "enumerator", "enum type", "struct type"}
Text(n) == IF n.k \in Statements THEN StatementText(n) ELSE IF n.k \in Types THEN TypeText(n) ELSE ExpressionText(n)

\* A body ends a statement, and so does the text of a function
RECURSIVE NeedsSemicolon(_)
NeedsSemicolon(n) == \/ n.k \in {"return", "throw", "break", "continue", "expr", "assign", "import", "use", "assert"}
                     \/ n.k = "declare" /\ ~(n.v = "constant" /\ \E j \in DOMAIN n.c[3].c : n.c[3].c[j].k = "function")
                     \/ n.k = "defer" /\ NeedsSemicolon(n.c[1])
Statement(n) == Text(n) \o (IF NeedsSemicolon(n) THEN <<";">> ELSE <<>>)
Lines(list, start) == IF list = <<>> THEN <<>> ELSE start \o Statement(Head(list)) \o Lines(Tail(list), start)
TopLines(list) == Lines(list, <<"TOP">>)

\* What the condition of an #if says of a target
RECURSIVE Holds(_, _)
Holds(n, target_) == CASE n.k = "literal" -> n.v = "true"
                       [] n.k = "is"      -> target_[n.v] = n.c[1].v
                       [] n.k = "is not"  -> target_[n.v] # n.c[1].v
                       [] n.k = "unary"   -> ~Holds(n.c[1], target_)
                       [] n.k = "binary" /\ n.v = "&&" -> Holds(n.c[1], target_) /\ Holds(n.c[2], target_)
                       [] n.k = "binary" /\ n.v = "||" -> Holds(n.c[1], target_) \/ Holds(n.c[2], target_)

\* What some statements mean on a target: those of the branches that hold are in the place of an #if
RECURSIVE Meaning(_, _)
Meaning(list, target_) ==
    IF list = <<>> THEN <<>>
    ELSE LET n == Head(list)
             these == CASE n.k = "#if" /\ Holds(n.c[1], target_)  -> Meaning(n.c[2].c, target_)
                        [] n.k = "#if" /\ ~Holds(n.c[1], target_) ->
                              IF Len(n.c) = 2 THEN <<>> ELSE Meaning(IF n.c[3].k = "#if" THEN <<n.c[3]>> ELSE n.c[3].c, target_)
                        [] n.k = "written" -> Tail(n.c)
                        [] OTHER -> <<[n EXCEPT !.c = Meaning(n.c, target_)]>>
         IN  these \o Meaning(Tail(list), target_)

\* The tokens with their lines. Only the first of a line that is not indented has column 1
Marks == {"NL", "TOP"}
Layout(text) ==
    LET kept  == SelectSeq([j \in DOMAIN text |-> j], LAMBDA j : text[j] \notin Marks)
        line[j \in 0..Len(text)] == IF j = 0 THEN 1 ELSE line[j-1] + (IF text[j] \in Marks THEN 1 ELSE 0)
    IN  [j \in DOMAIN kept |-> [t |-> text[kept[j]], line |-> line[kept[j]],
                                col |-> IF kept[j] > 1 /\ text[kept[j] - 1] = "TOP" THEN 1 ELSE 2]]
=============================================================================
