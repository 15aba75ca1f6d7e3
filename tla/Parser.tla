------------------------------- MODULE Parser -------------------------------
(***************************************************************************)
(* parse_file (src/parser.c): the tokens of a file made into its           *)
(* statements. The parser is recursive descent, so its functions are       *)
(* operators on the state of the parser, p: where it is (i), the flags it  *)
(* keeps in the Parser and not in its calls, and the node that was made    *)
(* last (n). A syntax error is the node Fail: returning NULL and           *)
(* stop_parsing's longjmp both end in the block or the file the statement  *)
(* is in, which skips it. One step is one statement of the file.           *)
(***************************************************************************)
EXTENDS Tokens, IfPass

VARIABLES parser,      \* the Parser between two statements of the file
          statements,  \* file->statements
          file         \* how far parse_file is: "read", "new", "open", "parsed" or "failed"

parseVars == <<toks, parser, statements, file>>

Node(k, v, c) == [k |-> k, v |-> v, c |-> c]
Leaf(k, v) == Node(k, v, <<>>)
Fail == Leaf("fail", "")
None == Leaf("none", "")

ok(p) == p.n # Fail
fail(p) == [p EXCEPT !.n = Fail]
give(p, node) == [p EXCEPT !.n = node]
eat(p, k) == [p EXCEPT !.i = @ + k]
Then(p, K(_)) == IF ok(p) THEN K(p) ELSE p

\* expect() one of types, and eat it
expect(p, types) == IF t(p.i) \in types THEN eat(p, 1) ELSE fail(p)

\* A literal, or a name used as one
is_place_expression(e) == e.k \in {"name", "member", "index", "unary"}
RECURSIVE reads_nothing(_)
reads_nothing(e) == e.k \in {"literal", "enum value", "function"} \/ (e.k = "unary" /\ reads_nothing(e.c[1]))
is_callee_name(e) == e.k = "name" \/ (e.k = "member" /\ e.c[2].k = "name")
\* A declaration has its names, its type and its values
isConstant(n) == n.k = "declare" /\ n.v \in {"constant", "alias"}
isConstantFunction(n) == /\ n.k = "declare" /\ n.v = "constant"
                         /\ \E j \in DOMAIN n.c[1].c : j <= Len(n.c[3].c) /\ n.c[3].c[j].k = "function"

-----------------------------------------------------------------------------
(* Scopes (src/scope.c). The scopes that are open, the innermost last *)

Scope(owner) == [names |-> {}, owner |-> owner, statics |-> {}, type_params |-> {}]
new_block(p, owner) == [p EXCEPT !.scopes = Append(@, Scope(owner))]
close_block(p) == [p EXCEPT !.scopes = Front(@)]
current_scope(p) == Last(p.scopes)
inStruct(p) == current_scope(p).owner # ""

add_identifier_to_scope(p, name) ==
    IF name \in current_scope(p).names THEN fail(p)
    ELSE [p EXCEPT !.scopes[Len(p.scopes)].names = @ \cup {name}]
addStatic(p, name) ==
    IF name \in current_scope(p).statics THEN fail(p)
    ELSE [p EXCEPT !.scopes[Len(p.scopes)].statics = @ \cup {name}]

\* '_' can be declared any number of times
add_declaration_to_scope(p, names, static) ==
    FoldLeft(LAMBDA q, name : IF ~ok(q) THEN q
                              ELSE IF name = "_" /\ "_" \in current_scope(q).names THEN q
                              ELSE IF static THEN addStatic(q, name) ELSE add_identifier_to_scope(q, name),
             p, names)
-----------------------------------------------------------------------------
(* Recovery *)

\* The names that a statement from i on starts with: a, b := ;
namesDeclaredOne(i) == IF isName(i) THEN {t(i)} ELSE {}
namesDeclared(i) == IF ~isName(i) THEN {}
                    ELSE LET k == afterNames(i)
                             all == {t(j) : j \in {m \in i..(k-1) : isName(m)}}
                         IN  IF t(k) \in {",", ":", "::", ":="} THEN all ELSE all \ {t(k - 1)}

\* The line of the error starts like a statement of its own
startsStatement(i) == \/ t(i) \in {"if", "for", "while", "return", "defer", "try", "throw", "switch", "break", "continue"}
                      \/ isName(i) /\ t(i + 1) \in {":=", ":", "::", "("} \cup AssignmentOperators

braces(from, to) == LET is(b) == Cardinality({j \in from..to : t(j) = b}) IN is("{") - is("}")

firstOnLine(i) == CHOOSE f \in 1..i : /\ \A j \in f..i : lineOf(j) = lineOf(i)
                                      /\ f = 1 \/ lineOf(f - 1) # lineOf(i)

\* Where parsing goes on after the statement from `from` on failed at `failed`
RECURSIVE skipFrom(_, _, _, _, _)
skipFrom(i, depth, from, failed, top) ==
    IF \/ t(i) = "END"
       \/ i = failed /\ failed > from /\ depth = 0 /\ t(i - 1) \in {";", "}"}
       \/ top /\ i > failed /\ depth > 0 /\ starts_top_level_declaration(i)
    THEN i
    ELSE IF t(i) = "}" /\ depth = 0 THEN (IF top THEN i + 1 ELSE i)
    ELSE IF t(i) = "}" /\ depth = 1 /\ i > failed THEN (IF t(i + 1) = ";" THEN i + 2 ELSE i + 1)
    ELSE IF t(i) = ";" /\ depth = 0 /\ i >= failed THEN i + 1
    ELSE skipFrom(i + 1, depth + (IF t(i) = "{" THEN 1 ELSE IF t(i) = "}" THEN -1 ELSE 0), from, failed, top)

resumeAtFailed(from, failed, top) ==
    LET first == firstOnLine(failed)
        i     == skipFrom(from, 0, from, failed, top)
    IN  IF top THEN failed
        ELSE IF /\ ~top /\ failed <= Len(toks) /\ lineOf(failed) > lineOf(from)
           /\ first > from /\ braces(from, first - 1) = 0 /\ startsStatement(first)
        THEN first
        ELSE IF i <= from /\ t(i) # "END" /\ (top \/ t(i) # "}") THEN from + 1 ELSE i
resumeAt(from, failed, top) ==
    LET first == firstOnLine(failed)
        i     == skipFrom(from, 0, from, failed, top)
    IN  IF /\ ~top /\ failed <= Len(toks) /\ lineOf(failed) > lineOf(from)
           /\ first > from /\ braces(from, first - 1) = 0 /\ startsStatement(first)
        THEN first
        ELSE IF i <= from /\ t(i) # "END" /\ (top \/ t(i) # "}") THEN from + 1 ELSE i

\* p is the state before the statement and q the one where it failed. Constants of a
\* struct are in a scope of their own, which is not cleared
skip_failed_statement(p, q, top) ==
    LET to       == resumeAt(p.i, q.i, top)
        here     == Len(p.scopes)
        declared == q.scopes[here].names \ p.scopes[here].names
    IN  [p EXCEPT !.i = to,
                  !.split = 0,
                  !.n = None,
                  !.scopes[here].statics = q.scopes[here].statics,
                  !.poisoned = q.poisoned \cup declared \cup namesDeclared(p.i),
                  !.skips = Append(q.skips, [from |-> p.i, failed |-> q.i, to |-> to, top |-> top])]
-----------------------------------------------------------------------------
(* Types *)

\* What nests in what: types, expressions, blocks and statements go to one another through parse
RECURSIVE parse(_, _, _)
aType(p) == parse("type", p, 0)
anExpression(p, min_prec) == parse("expression", p, min_prec)
aBlock(p) == parse("block", p, 0)
aStatement(p) == parse("statement", p, 0)

RECURSIVE parse_function_defn(_), parse_function_signature(_, _), parse_struct_literal_body(_, _, _), parse_switch(_, _), parse_leaf(_), parse_declaration(_)

List(nodes) == Node("list", "", nodes)

parse_dotted_name(p) ==
    IF ~isName(p.i) THEN fail(p)
    ELSE LET k == lastOfDotted(p.i) IN give([p EXCEPT !.i = k + 1], Node("name", t(k), [m \in 1..((k - p.i) \div 2) |-> Leaf("name", t(p.i + 2 * (m - 1)))]))

\* A '>>' ends this list and the one around it: the inner list leaves it, and notes where
\* it is; the outer one eats it
RECURSIVE typeArguments(_, _)
typeArguments(p, args) ==
    Then(aType(p), LAMBDA q :
      LET list == Append(args, q.n) IN
      CASE t(q.i) = ","  -> typeArguments(eat(q, 1), list)
        [] t(q.i) = ">"  -> give(eat(q, 1), List(list))
        [] t(q.i) = ">>" -> give(IF q.split = q.i THEN [eat(q, 1) EXCEPT !.split = 0] ELSE [q EXCEPT !.split = q.i],
                                 List(list))
        [] OTHER         -> fail(q))
parse_type_arguments(p) == typeArguments(eat(p, 1), <<>>)

\* <K, V>, without one twice
RECURSIVE typeParameters(_, _)
typeParameters(p, names) ==
    IF ~isName(p.i) THEN fail(p)
    ELSE IF t(p.i) \in ToSet(names) THEN fail(eat(p, 1))
    ELSE LET list == Append(names, t(p.i)) IN
         CASE t(p.i + 1) = "," -> typeParameters(eat(p, 2), list)
           [] t(p.i + 1) = ">" -> give(eat(p, 2), List([j \in DOMAIN list |-> Leaf("name", list[j])]))
           [] OTHER            -> fail(eat(p, 1))
parse_type_parameters(p) == Then(expect(p, {"<"}), LAMBDA q : typeParameters(q, <<>>))

namedType(p) ==
    Then(parse_dotted_name(p), LAMBDA q :
      IF t(q.i) = "<" /\ scan_type_arguments(q.i) # 0
      THEN Then(parse_type_arguments(q), LAMBDA a : give(a, Node("instance", "", <<q.n, a.n>>)))
      ELSE give(q, Node("type", "", <<q.n>>)))

arrayType(p) ==
    LET rest(q, kind, size) == Then(expect(q, {"]"}), LAMBDA r :
                                 Then(aType(r), LAMBDA e : give(e, Node(kind, "", <<size, e.n>>))))
    IN  CASE t(p.i + 1) = ".." -> rest(eat(p, 2), "list of", None)
          [] t(p.i + 1) = "]"  -> rest(eat(p, 1), "slice", None)
          [] OTHER             -> Then(anExpression(eat(p, 1), MIN_PRECEDENCE), LAMBDA q : rest(q, "array", q.n))

prefixType(p, kind) == Then(aType(eat(p, 1)), LAMBDA q : give(q, Node(kind, "", <<q.n>>)))

\* The enumerators between '{' and '}'. A keyword can be the name of one, and a comma
\* can follow the last
RECURSIVE enumerators(_, _)
enumerators(p, list) ==
    LET named == isName(p.i) \/ keyword_as_name(p.i)
        after(q, e) == CASE t(q.i) = "}" -> enumerators(q, Append(list, e))
                         [] t(q.i) = "," -> enumerators(eat(q, 1), Append(list, e))
                         [] OTHER        -> fail(q)
    IN  CASE t(p.i) = "}"   -> give(eat(p, 1), List(list))
          [] t(p.i) = "END" -> fail(p)
          [] named /\ t(p.i + 1) = "=" ->
                Then(anExpression(eat(p, 2), MIN_PRECEDENCE), LAMBDA q : after(q, Node("enumerator", t(p.i), <<q.n>>)))
          [] named /\ t(p.i + 1) # "=" -> after(eat(p, 1), Leaf("enumerator", t(p.i)))
          [] OTHER  -> fail(p)
parse_enumerators(p) == Then(expect(p, {"{"}), LAMBDA q : enumerators(q, <<>>))

parse_anonymous_enum_type(p) == Then(parse_enumerators(eat(p, 1)), LAMBDA q : give(q, Node("enum type", "", q.n.c)))

\* Anonymous structs have only members
parse_anonymous_struct_type(p) ==
    IF t(p.i + 1) = "<" THEN fail(eat(p, 1))
    ELSE Then(aBlock(new_block(eat(p, 1), "struct")), LAMBDA q :
           IF \E j \in DOMAIN q.n.c : isConstant(q.n.c[j]) THEN fail(q)
           ELSE give(close_block(q), Node("struct type", "", q.n.c)))

parse_type(p) ==
    CASE t(p.i) \in Primitives \cup {"string", "any"} -> give(eat(p, 1), Leaf("type", t(p.i)))
      [] t(p.i) = "struct" -> parse_anonymous_struct_type(p)
      [] t(p.i) = "enum"   -> parse_anonymous_enum_type(p)
      [] isName(p.i)       -> namedType(p)
      [] starts_function_defn_at(p.i) -> parse_function_signature(p, FALSE)
      [] t(p.i) = "(" /\ ~starts_function_defn_at(p.i) -> parse_function_signature(p, TRUE)
      [] t(p.i) = "?"      -> prefixType(p, "optional")
      [] t(p.i) = "*"      -> prefixType(p, "pointer")
      [] t(p.i) = "..."    -> Then(prefixType(p, "variadic"), LAMBDA q : IF q.params THEN q ELSE fail(q))
      [] t(p.i) = "["      -> arrayType(p)
      [] OTHER             -> fail(p)
-----------------------------------------------------------------------------
(* Functions and declarations *)

enclosing(p) == p.fns # <<>>
block(p) == Then(aBlock(new_block(p, "")), LAMBDA q : close_block(q))
hasDefault(decl) == decl.v \in {"infer", "typed"}

RECURSIVE parameters(_, _, _)
parameters(p, list, unnamed) ==
    LET after(q, decl) ==
            LET all == Append(list, decl) IN
            IF isConstant(decl) \/ (~hasDefault(decl) /\ \E j \in DOMAIN list : hasDefault(list[j])) THEN fail(q)
            ELSE CASE t(q.i) = ")" -> give(eat(q, 1), List(all))
                   [] t(q.i) = "," -> parameters(eat(q, 1), all, unnamed)
                   [] OTHER        -> fail(q)
    IN  IF list = <<>> /\ t(p.i) = ")" THEN give(eat(p, 1), List(<<>>))
        ELSE IF unnamed THEN Then(aType(p), LAMBDA q : after(q, Node("declare", "variable", <<List(<<>>), q.n, List(<<>>)>>)))
        ELSE Then(parse_declaration(p), LAMBDA q : after(q, q.n))

\* The scope of the body is opened for the parameters. In a function type, the function is
\* not one that encloses; around is the functions around the one of this list
parse_parameter_list(p, unnamed, around) ==
    Then(expect(p, {"("}), LAMBDA q :
      LET own    == Len(q.fns) > Len(around)
          marked == IF own THEN [q EXCEPT !.fns[Len(q.fns)].params = TRUE] ELSE q
      IN  Then(parameters(new_block([marked EXCEPT !.params = TRUE], ""), <<>>, unnamed), LAMBDA r :
            [r EXCEPT !.fns = q.fns, !.params = around # <<>> /\ Last(around).params]))

\* In a list of parameters, a comma ends return types that have no parentheses
RECURSIVE returnTypes(_, _, _)
returnTypes(p, list, wrapped) ==
    LET opens == t(p.i) = "(" /\ ~wrapped
        inner == wrapped \/ opens
    IN  Then(aType(IF opens THEN eat(p, 1) ELSE p), LAMBDA q :
          LET all == Append(list, q.n) IN
          IF t(q.i) = "," /\ ~(q.params /\ ~inner) THEN returnTypes(eat(q, 1), all, inner)
          ELSE give(IF inner /\ t(q.i) = ")" THEN eat(q, 1) ELSE q, List(all)))
parse_function_return_types(p) ==
    IF t(p.i) = "->" THEN returnTypes(eat(p, 1), <<>>, FALSE) ELSE give(p, List(<<Leaf("type", "void")>>))

parse_function_signature(p, unnamed) ==
    Then(parse_parameter_list(p, unnamed, p.fns), LAMBDA q :
      Then(parse_function_return_types(q), LAMBDA r :
        give(close_block(r), Node("function type", "", <<q.n, r.n>>))))

selfParameter == Node("declare", "variable", <<List(<<Leaf("name", "self")>>), Leaf("type", "self"), List(<<>>)>>)
declares(decl, name) == \E j \in DOMAIN decl.c[1].c : decl.c[1].c[j].v = name

\* 'self' comes first, whatever the parameters are
add_implicit_self(p) == IF \E j \in DOMAIN p.n.c : declares(p.n.c[j], "self") THEN fail(p)
                        ELSE give(add_identifier_to_scope(p, "self"), List(<<selfParameter>> \o p.n.c))

parse_function_defn(p) ==
    LET isMethod == t(p.i) = "method"
        mutable  == isMethod /\ t(p.i + 1) = "*"
        inside   == isMethod /\ inStruct(p)
        start    == eat(p, IF mutable THEN 2 ELSE IF isMethod THEN 1 ELSE 0)
        generic  == IF t(start.i) = "<" THEN parse_type_parameters(start) ELSE give(start, List(<<>>))
        clashes(g) == inside /\ \E j \in DOMAIN g.n.c : g.n.c[j].v \in current_scope(p).type_params
        body(r)  == IF r.extern THEN give(r, None) ELSE aBlock(r)
    IN  IF mutable /\ ~inside THEN fail(start)
        ELSE Then(generic, LAMBDA g :
          IF clashes(g) \/ (p.extern /\ g.n.c # <<>>) THEN fail(g)
          ELSE Then(parse_parameter_list([g EXCEPT !.fns = Append(@, [params |-> FALSE, self |-> inside])], FALSE, p.fns), LAMBDA q :
            Then(IF inside THEN add_implicit_self(q) ELSE q, LAMBDA m :
              IF isMethod /\ m.n.c = <<>> THEN fail(m)
              ELSE Then(parse_function_return_types(m), LAMBDA r :
                Then(body(r), LAMBDA b :
                  give([close_block(b) EXCEPT !.fns = p.fns],
                       Node("function", IF mutable THEN "method *" ELSE IF isMethod THEN "method" ELSE "", <<g.n, m.n, r.n, b.n>>)))))))

\* The values get their types from where the lambda is used
parse_short_lambda(p) ==
    LET single == isName(p.i)
        k      == IF single THEN p.i + 1 ELSE IF t(p.i + 1) = ")" THEN p.i + 1 ELSE afterNames(p.i + 1)
        names  == SelectSeq([j \in 1..(k - p.i) |-> t(p.i + j - 1)], LAMBDA x : x \in Names)
        start  == [p EXCEPT !.i = IF single THEN k ELSE k + 1]
    IN  Then(expect(start, {"=>"}), LAMBDA q :
          Then(add_declaration_to_scope(new_block([q EXCEPT !.fns = Append(@, [params |-> FALSE, self |-> FALSE]),
                                                            !.header = FALSE, !.args = FALSE], ""), names, FALSE), LAMBDA r :
            Then(anExpression(r, MIN_PRECEDENCE), LAMBDA e :
              give([close_block(e) EXCEPT !.fns = p.fns, !.header = p.header, !.args = p.args],
                   Node("function", "=>", <<List([j \in DOMAIN names |-> Leaf("name", names[j])]), e.n>>)))))

\* In a list of parameters there is one expression
RECURSIVE expressionList(_, _)
expressionList(p, list) ==
    Then(anExpression(p, MIN_PRECEDENCE), LAMBDA q :
      IF ~q.params /\ t(q.i) = "," THEN expressionList(eat(q, 1), Append(list, q.n))
      ELSE give(q, List(Append(list, q.n))))
parse_expression_list(p) == expressionList(p, <<>>)

has_values(list) == \A j \in DOMAIN list.c : list.c[j].k # ";"

declarationValues(p) == Then(parse_expression_list(p), LAMBDA q : IF has_values(q.n) THEN q ELSE fail(q))

RECURSIVE parse_identifiers(_, _)
parse_identifiers(p, names) ==
    IF ~isName(p.i) \/ (t(p.i) = "self" /\ \E j \in DOMAIN p.fns : p.fns[j].self) THEN fail(p)
    ELSE IF t(p.i + 1) = "," THEN parse_identifiers(eat(p, 2), Append(names, Leaf("name", t(p.i))))
    ELSE give(eat(p, 1), List(Append(names, Leaf("name", t(p.i)))))

\* Methods are added to their struct by the typer
isMethodAt(decl, j) == decl.v = "constant" /\ j <= Len(decl.c[3].c) /\ decl.c[3].c[j].k = "function" /\ decl.c[3].c[j].v \in {"method", "method *"}

declare(p) ==
    LET names == p.n.c[1].c
        added == SelectSeq([j \in DOMAIN names |-> IF isMethodAt(p.n, j) THEN "" ELSE names[j].v], LAMBDA name : name # "")
    IN  add_declaration_to_scope(p, added, inStruct(p) /\ isConstant(p.n))

parse_declaration(p) ==
    Then(parse_identifiers(p, <<>>), LAMBDA q :
      LET alias == t(q.i) = "::" /\ Len(q.n.c) = 1 /\ starts_type_alias(q.i + 1, q.extern)
          made(r, kind, type, values) == declare(give(r, Node("declare", kind, <<q.n, type, values>>)))
          here == eat(q, 1)
      IN  CASE t(q.i) = ":=" -> Then(declarationValues(here), LAMBDA v : made(v, "infer", None, v.n))
            [] t(q.i) = ":"  -> Then(aType(here), LAMBDA y :
                                  IF t(y.i) = "=" THEN Then(declarationValues(eat(y, 1)), LAMBDA v : made(v, "typed", y.n, v.n))
                                  ELSE made(y, "variable", y.n, List(<<>>)))
            [] alias -> IF inStruct(q) THEN fail(here) ELSE Then(aType(here), LAMBDA y : made(y, "alias", y.n, List(<<>>)))
            [] t(q.i) = "::" /\ ~alias -> Then(declarationValues(here), LAMBDA v : made(v, "constant", None, v.n))
            [] OTHER         -> fail(q))
-----------------------------------------------------------------------------
(* Expressions *)

\* In the header of a statement a '{' is the block, unless in the arguments of a call
closed(p) == p.header /\ ~p.args

\* {age: 18} or (name: "id"), from the bracket on
RECURSIVE initializers(_, _, _)
initializers(p, list, close) ==
    LET named == isName(p.i) /\ t(p.i + 1) = ":"
    IN  CASE t(p.i) = close -> give(eat(p, 1), List(list))
          [] t(p.i) = "END" -> fail(p)
          [] isName(p.i) /\ t(p.i + 1) = "=" -> fail(p)
          [] OTHER -> Then(anExpression(IF named THEN eat(p, 2) ELSE p, MIN_PRECEDENCE), LAMBDA q :
                        LET all == Append(list, Node("initializer", IF named THEN t(p.i) ELSE "", <<q.n>>)) IN
                        CASE t(q.i) = ","   -> initializers(eat(q, 1), all, close)
                          [] t(q.i) = close -> initializers(q, all, close)
                          [] OTHER          -> fail(q))
parse_struct_literal_body(p, type, brackets) ==
    Then(expect(p, {brackets[1]}), LAMBDA q :
      Then(initializers(q, <<>>, brackets[2]), LAMBDA r : give(r, Node("struct literal", "", <<type, r.n>>))))

parse_struct_literal(p) ==
    IF isName(p.i) \/ t(p.i) = "struct"
    THEN Then(aType(p), LAMBDA q : parse_struct_literal_body(q, q.n, <<"{", "}">>))
    ELSE parse_struct_literal_body(p, None, <<"{", "}">>)

\* The first entry decides if it is a map
RECURSIVE elements(_, _, _)
elements(p, list, isMap) ==
    LET after(q, e, map) ==
            CASE t(q.i) = "," -> elements(eat(q, 1), Append(list, e), map)
              [] t(q.i) = "]" -> elements(q, Append(list, e), map)
              [] OTHER        -> fail(q)
    IN  CASE t(p.i) = "]"   -> give(eat(p, 1), Node(IF isMap THEN "map" ELSE "array literal", "", list))
          [] t(p.i) = "END" -> fail(p)
          [] OTHER -> Then(anExpression(p, MIN_PRECEDENCE), LAMBDA q :
                        LET map == isMap \/ (list = <<>> /\ t(q.i) = ":") IN
                        IF ~map THEN after(q, q.n, FALSE)
                        ELSE IF t(q.i) # ":" THEN fail(q)
                        ELSE Then(anExpression(eat(q, 1), MIN_PRECEDENCE), LAMBDA v : after(v, Node("entry", "", <<q.n, v.n>>), TRUE)))
parse_array_literal(p) == IF t(p.i + 1) = ":" /\ t(p.i + 2) = "]" THEN elements(eat(p, 2), <<>>, TRUE) ELSE elements(eat(p, 1), <<>>, FALSE)

parse_array_access(p) ==
    Then(anExpression(eat(p, 1), MIN_PRECEDENCE), LAMBDA q :
      Then(expect(q, {"]"}), LAMBDA r : give(r, Node("index", "", <<p.n, q.n>>))))

\* After the first argument there is a ',' before each, and one can be last
RECURSIVE arguments(_, _)
arguments(p, list) ==
    LET start == IF list # <<>> THEN eat(p, 1) ELSE p
        named == isName(start.i) /\ t(start.i + 1) = ":"
        namedSeen == \E j \in DOMAIN list : list[j].v # ""
    IN  IF t(p.i) = ")" THEN give(eat(p, 1), List(list))
        ELSE IF list # <<>> /\ t(p.i) # "," THEN fail(p)
        ELSE IF t(start.i) = ")" THEN give(eat(start, 1), List(list))
        ELSE IF (isName(start.i) /\ t(start.i + 1) = "=") \/ (~named /\ namedSeen) THEN fail(start)
        ELSE Then(anExpression(IF named THEN eat(start, 2) ELSE start, MIN_PRECEDENCE), LAMBDA q :
               arguments(q, Append(list, Node("argument", IF named THEN t(start.i) ELSE "", <<q.n>>))))

\* p.n is what is called. The flag is cleared after the call, also in a call around it
parse_function_callOpen(p, types) ==
    IF p.n.k \notin {"name", "literal", "member"} THEN fail(p)
    ELSE Then(expect(p, {"("}), LAMBDA q :
           Then(arguments([q EXCEPT !.args = TRUE], <<>>), LAMBDA r :
             give(r, Node("call", "", <<p.n, r.n, types>>))))
parse_function_call(p, types) ==
    IF p.n.k \notin {"name", "literal", "member"} THEN fail(p)
    ELSE Then(expect(p, {"("}), LAMBDA q :
           Then(arguments([q EXCEPT !.args = TRUE], <<>>), LAMBDA r :
             give([r EXCEPT !.args = FALSE], Node("call", "", <<p.n, r.n, types>>))))

call(name, args, types) == Node("call", "", <<Leaf("name", name), List([j \in DOMAIN args |-> Node("argument", "", <<args[j]>>)]), List(types)>>)

\* new is a call of the prelude
parse_new(p) ==
    IF t(p.i + 1) = "(" /\ new_takes_type(p.i + 1)
    THEN Then(aType(eat(p, 2)), LAMBDA q :
           IF t(q.i) = "," THEN Then(anExpression(eat(q, 1), MIN_PRECEDENCE), LAMBDA a :
                                  Then(expect(a, {")"}), LAMBDA r : give(r, call("allocateNew", <<a.n>>, <<q.n>>))))
           ELSE Then(expect(q, {")"}), LAMBDA r : give(r, call("allocateNew", <<>>, <<q.n>>))))
    ELSE Then(anExpression(eat(p, 1), MIN_PRECEDENCE), LAMBDA q : give(q, call("allocateCopy", <<q.n>>, <<>>)))

\* typeof(e), sizeof(T) and assert(e)
inParentheses(p, Inner(_)) == Then(expect(eat(p, 1), {"("}), LAMBDA q :
                                Then(Inner(q), LAMBDA r : Then(expect(r, {")"}), LAMBDA e : give(e, Node(t(p.i), "", <<r.n>>)))))
parse_typeof(p) == inParentheses(p, LAMBDA q : anExpression(q, MIN_PRECEDENCE))
parse_sizeof(p) == inParentheses(p, LAMBDA q : aType(q))
parse_assert(p) == inParentheses(p, LAMBDA q : anExpression(q, MIN_PRECEDENCE))

parse_auto_cast(p) == Then(anExpression(eat(p, 1), AsPrecedence), LAMBDA q : give(q, Node("xx", "", <<q.n>>)))

parse_range_or_normal_expression(p) ==
    Then(anExpression(p, MIN_PRECEDENCE), LAMBDA q :
      IF t(q.i) \in {"..", "..."}
      THEN Then(anExpression(eat(q, 1), MIN_PRECEDENCE), LAMBDA r : give(r, Node("range", t(q.i), <<q.n, r.n>>)))
      ELSE q)

anonymousStruct(p) ==
    IF t(p.i + 1) # "{" \/ t(closingAt(p.i + 1, {"{"}, {"}"}) + 1) # "{" THEN fail(p) ELSE parse_struct_literal(p)

anonymousEnum(p) ==
    Then(parse_anonymous_enum_type(p), LAMBDA q :
      IF t(q.i) = "." /\ isName(q.i + 1) THEN give(eat(q, 2), Node("enum value", t(q.i + 1), <<q.n>>)) ELSE fail(q))

parenthesis(p) == Then(anExpression(eat(p, 1), MIN_PRECEDENCE), LAMBDA q : IF t(q.i) = ")" THEN eat(q, 1) ELSE fail(q))

unaryLoose(p) == Then(anExpression(eat(p, 1), MIN_PRECEDENCE), LAMBDA q : give(q, Node("unary", t(p.i), <<q.n>>)))
unary(p) == Then(anExpression(eat(p, 1), unaryPrecedence[t(p.i)]), LAMBDA q : give(q, Node("unary", t(p.i), <<q.n>>)))

parse_leaf(p) ==
    IF      t(p.i) \in Literals                   THEN give(eat(p, 1), Leaf("literal", t(p.i)))
    ELSE IF t(p.i) = ";"                          THEN give(p, Leaf(";", ""))
    ELSE IF starts_short_lambda(p.i, closed(p))   THEN parse_short_lambda(p)
    ELSE IF starts_function_defn_at(p.i)          THEN parse_function_defn(p)
    ELSE IF t(p.i) = "("                          THEN parenthesis(p)
    ELSE IF t(p.i) \in DOMAIN unaryPrecedence     THEN unary(p)
    ELSE IF t(p.i) = "struct"                     THEN anonymousStruct(p)
    ELSE IF t(p.i) = "enum"                       THEN anonymousEnum(p)
    ELSE IF t(p.i) = "switch"                     THEN parse_switch(p, TRUE)
    ELSE IF starts_struct_literal(p.i, closed(p)) THEN parse_struct_literal(p)
    ELSE IF t(p.i) = "["                          THEN parse_array_literal(p)
    ELSE IF t(p.i) = "xx"                         THEN parse_auto_cast(p)
    ELSE IF t(p.i) = "." /\ isName(p.i + 1)       THEN give(eat(p, 2), Node("enum value", t(p.i + 1), <<None>>))
    ELSE IF t(p.i) = "typeof"                     THEN parse_typeof(p)
    ELSE IF t(p.i) = "sizeof"                     THEN parse_sizeof(p)
    ELSE IF t(p.i) = "new"                        THEN parse_new(p)
    ELSE IF isName(p.i)                           THEN give(eat(p, 1), Leaf("name", t(p.i)))
    ELSE fail(p)

RECURSIVE expressionFrom(_, _)

\* What follows the operand p.n, which can be a call with type arguments or an operator
afterOperand(p, min_prec) ==
    LET op    == t(p.i)
        types == op = "<" /\ is_callee_name(p.n) /\ t(scan_type_arguments(p.i)) = "("
        on(q) == expressionFrom(q, min_prec)
    IN  IF types THEN Then(parse_type_arguments(p), LAMBDA a : Then(parse_function_call(give(a, p.n), a.n), LAMBDA c : on(c)))
        ELSE IF ends_expression(p.i) \/ ~is_binary_operator(p.i) \/ binaryPrecedence[op] <= min_prec THEN p
        ELSE CASE op \in {".", "?."} -> Then(parse_leaf(eat(p, 1)), LAMBDA r : on(give(r, Node("member", op, <<p.n, r.n>>))))
               [] op = "[" -> Then(parse_array_access(p), LAMBDA r : on(r))
               [] op = "(" -> Then(parse_function_call(p, List(<<>>)), LAMBDA r : on(r))
               [] OTHER    -> Then(anExpression(eat(p, 1), binaryPrecedence[op]), LAMBDA r : on(give(r, Node("binary", op, <<p.n, r.n>>))))

expressionFrom(p, min_prec) ==
    IF t(p.i) = "as"
    THEN Then(aType(eat(p, 1)), LAMBDA q : afterOperand(give(q, Node("as", "", <<p.n, q.n>>)), min_prec))
    ELSE afterOperand(p, min_prec)

parse_expression(p, min_prec) ==
    Then(parse_leaf(p), LAMBDA q : IF ends_expression(q.i) THEN q ELSE expressionFrom(q, min_prec))
-----------------------------------------------------------------------------
(* Statements *)

\* An expression between a keyword and a block
header(p, Parse(_)) == Then(Parse([p EXCEPT !.header = TRUE]), LAMBDA q : [q EXCEPT !.header = FALSE])
expression(p) == anExpression(p, MIN_PRECEDENCE)

\* header { ... }
headed(p, kind) == Then(header(p, expression), LAMBDA q : Then(block(q), LAMBDA b : give(b, Node(kind, "", <<q.n, b.n>>))))

parse_while(p) == headed(eat(p, 1), "while")

RECURSIVE elseIfs(_, _)
elseIfs(p, parts) ==
    IF t(p.i) # "else" THEN give(p, Node("if", "", parts))
    ELSE IF t(p.i + 1) = "if" THEN Then(headed(eat(p, 2), "else if"), LAMBDA q : elseIfs(q, Append(parts, q.n)))
    ELSE Then(block(eat(p, 1)), LAMBDA q : give(q, Node("if", "", Append(parts, q.n))))
parse_if(p) == Then(headed(eat(p, 1), "if"), LAMBDA q : elseIfs(q, q.n.c))

\* The values of a loop are names of its body
loopBody(p, kind, names, iterable) ==
    LET opened == FoldLeft(LAMBDA q, name : IF name \in current_scope(q).names THEN q ELSE add_identifier_to_scope(q, name), new_block(p, ""), names)
    IN  Then(aBlock(opened), LAMBDA b :
          give(close_block(b), Node("for", kind, <<List([j \in DOMAIN names |-> Leaf("name", names[j])]), iterable, b.n>>)))

parse_for(p) ==
    LET pointer == t(p.i + 1) = "*"
        start   == [eat(p, IF pointer THEN 2 ELSE 1) EXCEPT !.header = TRUE]
        star    == IF pointer THEN "*" ELSE ""
        i       == start.i
        over(q, names) == Then(parse_range_or_normal_expression(q), LAMBDA e : loopBody([e EXCEPT !.header = FALSE], star, names, e.n))
    IN  IF isName(i) /\ t(i + 1) = "in" THEN over(eat(start, 2), <<t(i)>>)
        ELSE IF isName(i) /\ t(i + 1) = ","
        THEN IF ~isName(i + 2) THEN fail(eat(start, 2))
             ELSE IF t(i + 3) # "in" THEN fail(eat(start, 3))
             ELSE over(eat(start, 4), <<t(i), t(i + 2)>>)
        ELSE IF t(i) = "{" THEN loopBody([start EXCEPT !.header = FALSE], star, <<>>, None)
        ELSE Then(parse_range_or_normal_expression(start), LAMBDA e :
               IF t(e.i) # "{" THEN fail(e) ELSE loopBody([e EXCEPT !.header = FALSE], star, <<"$it">>, e.n))

RECURSIVE caseValues(_, _), cases(_, _, _)
\* One value per case, each on its own line; the last has the block of those before it
caseValues(p, values) ==
    Then(header(eat(p, 1), parse_range_or_normal_expression), LAMBDA q :
      LET all == Append(values, q.n) IN
      CASE t(q.i) = ","    -> fail(q)
        [] t(q.i) = "case" -> IF starts_line(q.i) THEN caseValues(q, all) ELSE fail(q)
        [] OTHER           -> give(q, List(all)))

caseBody(p, is_expression) ==
    IF is_expression
    THEN Then(expect(p, {"=>"}), LAMBDA q : Then(expression(q), LAMBDA e : Then(expect(e, {";"}), LAMBDA r : r)))
    ELSE IF t(p.i) = "=>" THEN fail(p) ELSE block(p)

cases(p, list, is_expression) ==
    LET body(q, values) == Then(caseBody(q, is_expression), LAMBDA b : cases(b, Append(list, Node("case", "", <<values, b.n>>)), is_expression))
    IN  IF t(p.i) = "}" THEN give(eat(p, 1), List(list))
        ELSE IF t(p.i) \notin {"else", "case"} \/ ~starts_line(p.i) THEN fail(p)
        ELSE IF t(p.i) = "else" THEN body(eat(p, 1), List(<<Leaf("else", "")>>))
        ELSE Then(caseValues(p, <<>>), LAMBDA v : body(v, v.n))

parse_switch(p, is_expression) ==
    LET binds == isName(p.i + 1) /\ t(p.i + 2) = "in"
        start == eat(p, IF binds THEN 3 ELSE 1)
    IN  IF t(start.i) = "{" THEN fail(start)
        ELSE Then(header(start, expression), LAMBDA s :
               Then(expect(s, {"{"}), LAMBDA q :
                 Then(cases(q, <<>>, is_expression), LAMBDA c :
                   give(c, Node("switch", IF binds THEN t(p.i + 1) ELSE "", <<s.n, c.n>>)))))

RECURSIVE returnValues(_, _)
returnValues(p, list) ==
    Then(expression(p), LAMBDA q :
      IF t(q.i) = "," THEN returnValues(eat(q, 1), Append(list, q.n)) ELSE give(q, Node("return", "", Append(list, q.n))))
parse_return(p) == IF ~enclosing(p) THEN fail(p)
                   ELSE IF t(p.i + 1) = "}" THEN fail(eat(p, 1))
                   ELSE returnValues(eat(p, 1), <<>>)

\* p.n is the place
parse_assignment(p) ==
    IF ~is_place_expression(p.n) THEN fail(eat(p, 1))
    ELSE Then(expression(eat(p, 1)), LAMBDA q : give(q, Node("assign", t(p.i), <<p.n, q.n>>)))

\* a, b = b, a takes the values before it gives them: a block that declares names for
\* the values, and assigns the names
valueName == <<"$value1", "$value2", "$value3">>
multiAssignment(places, values) ==
    LET fromCall == Len(values) = 1 /\ Len(places) > 1
        held(j)  == fromCall \/ ~reads_nothing(values[j])
        heldAt   == SelectSeq([j \in DOMAIN places |-> j], LAMBDA j : held(j))
        name(j)  == Leaf("name", valueName[j])
        given(j) == IF held(j) THEN name(j) ELSE values[j]
        decl     == Node("declare", "infer", <<List([j \in DOMAIN heldAt |-> name(heldAt[j])]), None,
                                               List(IF fromCall THEN values ELSE [j \in DOMAIN heldAt |-> values[heldAt[j]]])>>)
        gives    == SelectSeq([j \in DOMAIN places |-> Node("assign", "=", <<places[j], given(j)>>)], LAMBDA a : a.c[1] # Leaf("name", "_"))
    IN  Node("block", "multi", (IF heldAt = <<>> THEN <<>> ELSE <<decl>>) \o gives)

RECURSIVE places(_, _)
places(p, list) == IF t(p.i) = "," THEN Then(expression(eat(p, 1)), LAMBDA q : places(q, Append(list, q.n))) ELSE give(p, List(list))

parse_multi_assignment(p) ==
    Then(places(p, <<p.n>>), LAMBDA q :
      IF t(q.i) # "=" \/ \E j \in DOMAIN q.n.c : ~is_place_expression(q.n.c[j]) THEN fail(q)
      ELSE Then(parse_expression_list(eat(q, 1)), LAMBDA v :
             IF Len(v.n.c) \notin {1, Len(q.n.c)} THEN fail(v) ELSE give(v, multiAssignment(q.n.c, v.n.c))))

parse_import(p) ==
    IF isName(p.i + 1)
    THEN Then(parse_dotted_name(eat(p, 1)), LAMBDA q :
           CASE t(q.i) # "as"     -> give(q, Node(t(p.i), "", <<q.n>>))
             [] t(q.i) = "as" /\ t(p.i) = "use" -> fail(q)
             [] t(q.i) = "as" /\ t(p.i) # "use" -> IF isName(q.i + 1) THEN give(eat(q, 2), Node("import", t(q.i + 1), <<q.n>>)) ELSE fail(eat(q, 1)))
    ELSE IF t(p.i) = "use" \/ t(p.i + 1) \notin Strings THEN fail(eat(p, 1))
    ELSE give(eat(p, 2), Leaf("import", t(p.i + 1)))

\* The functions of the block are visible around it
parse_extern(p) ==
    IF t(p.i + 1) # "C" THEN fail(eat(p, 1))
    ELSE Then(aBlock([eat(p, 2) EXCEPT !.extern = TRUE]), LAMBDA q : give([q EXCEPT !.extern = FALSE], Node("extern", "", q.n.c)))

\* A union holds a tag before its variants
parse_struct_defn(p) ==
    LET isUnion  == t(p.i + 2) = "union"
        open(q, types) == LET s == [new_block(q, IF isUnion THEN "union" ELSE "struct") EXCEPT
                                        !.scopes[Len(q.scopes) + 1].type_params = {types.c[j].v : j \in DOMAIN types.c}]
                          IN  IF isUnion THEN add_identifier_to_scope(s, "$tag") ELSE s
        generic(q) == IF t(q.i) = "<" THEN parse_type_parameters(q) ELSE give(q, List(<<>>))
    IN  Then(add_identifier_to_scope(eat(p, 1), t(p.i)), LAMBDA d :
          Then(generic(eat(d, 2)), LAMBDA g :
            Then(aBlock(open(g, g.n)), LAMBDA b :
              LET members == current_scope(b) IN
              IF \/ isUnion /\ (members.names = {"$tag"} \/ "kind" \in members.names)
                 \/ g.n.c # <<>> /\ members.statics # {}
              THEN fail(close_block(b))
              ELSE give(close_block(b), Node(t(p.i + 2), t(p.i), b.n.c)))))

parse_enum_defn(p) ==
    LET flags == t(p.i + 3) = "flags" /\ t(p.i + 4) = "{"
    IN  Then(add_identifier_to_scope(eat(p, 1), t(p.i)), LAMBDA d :
          Then(parse_enumerators(eat(d, IF flags THEN 3 ELSE 2)), LAMBDA q : give(q, Node("enum", t(p.i), q.n.c))))

parse_try(p) ==
    IF ~enclosing(p) THEN fail(eat(p, 1))
    ELSE Then(block(eat(p, 1)), LAMBDA b :
           IF t(b.i) # "catch" THEN fail(b)
           ELSE IF t(b.i + 1) # "(" \/ ~isName(b.i + 2) \/ t(b.i + 3) # ")" THEN fail(eat(b, 1))
           ELSE Then(aBlock(add_identifier_to_scope(new_block(eat(b, 4), ""), t(b.i + 2))), LAMBDA h :
                  give(close_block(h), Node("try", t(b.i + 2), <<b.n, h.n>>))))

known_attributes == {"private", "deprecated", "attribute", "embed", "threadLocal"}

RECURSIVE attributes(_, _)
attributes(p, list) ==
    LET known  == t(p.i + 1) \in known_attributes /\ t(p.i + 2) # "."
        named  == [eat(p, 2) EXCEPT !.n = None]
        on(q, a) == attributes(q, Append(list, a))
    IN  IF t(p.i) # "@" THEN give(p, List(list))
        ELSE IF ~isName(p.i + 1) THEN fail(eat(p, 1))
        ELSE IF ~known
        THEN Then(aType(eat(p, 1)), LAMBDA q :
               IF t(q.i) = "(" THEN Then(parse_struct_literal_body(q, q.n, <<"(", ")">>), LAMBDA v : on(v, Node("custom", "", <<v.n>>)))
               ELSE on(q, Node("custom", "", <<q.n>>)))
        ELSE IF \E j \in DOMAIN list : list[j].v = t(p.i + 1) THEN fail(named)
        ELSE IF t(named.i) # "(" THEN on(named, Leaf("builtin", t(p.i + 1)))
        ELSE IF t(p.i + 1) # "deprecated" THEN fail(named)
        ELSE IF t(named.i + 1) \notin Strings THEN fail(eat(named, 1))
        ELSE IF t(named.i + 2) # ")" THEN fail(eat(named, 2))
        ELSE on(eat(named, 3), Leaf("builtin", "deprecated"))

\* Which attributes a declaration takes
takesAttributes(stmt, list, member) ==
    LET has(name) == \E j \in DOMAIN list : list[j].v = name
        custom    == \E j \in DOMAIN list : list[j].k = "custom"
        builtin   == \E j \in DOMAIN list : list[j].k = "builtin"
        isType    == stmt.k \in {"struct", "union", "enum"}
        variable  == stmt.k = "declare" /\ ~isConstant(stmt)
        one       == isConstantFunction(stmt) /\ Len(stmt.c[1].c) = 1
    IN  IF variable /\ member THEN ~\E name \in known_attributes \ {"embed"} : has(name)
        ELSE /\ isType \/ isConstant(stmt) \/ (variable /\ builtin /\ ~custom /\ ~has("attribute"))
             /\ ~has("embed")
             /\ has("threadLocal") => variable
             /\ custom => one
             /\ has("attribute") => stmt.k \in {"struct", "union"}

parse_attributed_declaration(p) ==
    Then(attributes(p, <<>>), LAMBDA q :
      IF enclosing(q) THEN fail(q)
      ELSE Then(aStatement(q), LAMBDA s :
             IF takesAttributes(s.n, q.n.c, inStruct(s)) THEN give(s, [s.n EXCEPT !.c = Append(@, q.n)]) ELSE fail(s)))

\* An expression, or what is assigned to it
expressionStatement(p) ==
    Then(expression(p), LAMBDA q :
      CASE t(q.i) = ","                   -> parse_multi_assignment(q)
        [] is_assignment_operator(q.i)    -> parse_assignment(q)
        [] t(q.i) = ";"                   -> give(q, Node("expr", "", <<q.n>>))
        [] OTHER                          -> fail(q))

\* Statements that end with a ';' or not
semicolon(p) == Then(p, LAMBDA q : expect(q, {";"}))

parse_statement(p) ==
    LET first  == t(p.i)
        type   == IF isName(p.i) /\ t(p.i + 1) = "::" THEN t(p.i + 2) ELSE ""
    IN  CASE first = "@"                   -> parse_attributed_declaration(p)
          [] type \in {"struct", "union"}  -> parse_struct_defn(p)
          [] type = "enum"                 -> parse_enum_defn(p)
          [] starts_declaration(p.i) /\ type \notin {"struct", "union", "enum"} ->
                Then(parse_declaration(p), LAMBDA q : IF isConstantFunction(q.n) THEN q ELSE semicolon(q))
          [] first \in {"import", "use"}   -> semicolon(parse_import(p))
          [] first \in {"namespace", "#"}  -> fail(p)
          [] first = "extern"              -> parse_extern(p)
          [] first = "return"              -> semicolon(parse_return(p))
          [] first = "try"                 -> parse_try(p)
          [] first = "throw"               -> semicolon(Then(expression(eat(p, 1)), LAMBDA q : give(q, Node("throw", "", <<q.n>>))))
          [] first = "defer"               -> IF ~enclosing(p) THEN fail(eat(p, 1))
                                              ELSE Then(aStatement(eat(p, 1)), LAMBDA q : give(q, Node("defer", "", <<q.n>>)))
          [] first \in {"break", "continue"} -> semicolon(give(eat(p, 1), Leaf(first, "")))
          [] first = "assert"              -> semicolon(parse_assert(p))
          [] first = "if"                  -> parse_if(p)
          [] first = "switch"              -> parse_switch(p, FALSE)
          [] first = "for"                 -> parse_for(p)
          [] first = "while"               -> parse_while(p)
          [] first = "{"                   -> block(p)
          [] OTHER                         -> semicolon(expressionStatement(p))

\* A statement of a block. Only members, constants and methods are in a struct, and only
\* functions in an extern block; 'empty;' is a variant of a union without a value
block_statement(p) ==
    IF current_scope(p).owner = "union" /\ isName(p.i) /\ t(p.i + 1) = ";"
    THEN add_identifier_to_scope(give(eat(p, 2), Node("declare", "variable", <<List(<<Leaf("name", t(p.i))>>), Leaf("type", "void"), List(<<>>)>>)), t(p.i))
    ELSE Then(aStatement(p), LAMBDA q :
           IF \/ q.n.k \in {"import", "use"}
              \/ inStruct(p) /\ q.n.k \notin {"declare", "expr"}
              \/ q.extern /\ ~isConstantFunction(q.n) /\ q.n.k # "expr"
           THEN fail(q) ELSE q)

\* A block ends at its '}'. When that is missing, it ends with the file, or before a
\* declaration at the start of a line
RECURSIVE blockFrom(_, _, _)
blockFromOn(p, list, open) ==
    LET q == block_statement(p)
    IN  IF t(p.i) = "}" THEN give(eat(p, 1), Node("block", "", list))
        ELSE IF t(p.i) = "END"
        THEN give([p EXCEPT !.unclosed = @ \cup {open}], Node("block", "", list))
        ELSE IF ok(q) THEN blockFrom(q, Append(list, q.n), open)
        ELSE blockFrom(skip_failed_statement(p, q, FALSE), list, open)
blockFrom(p, list, open) ==
    LET q == block_statement(p)
    IN  IF t(p.i) = "}" THEN give(eat(p, 1), Node("block", "", list))
        ELSE IF t(p.i) = "END" \/ (~p.extern /\ starts_top_level_declaration(p.i))
        THEN give([p EXCEPT !.unclosed = @ \cup {open}], Node("block", "", list))
        ELSE IF ok(q) THEN blockFrom(q, Append(list, q.n), open)
        ELSE blockFrom(skip_failed_statement(p, q, FALSE), list, open)
parse_block(p) == Then(expect(p, {"{"}), LAMBDA q : blockFrom(q, <<>>, p.i))

parse(what, p, min_prec) ==
    CASE what = "type" -> parse_type(p)
      [] what = "expression" -> parse_expression(p, min_prec)
      [] what = "block" -> parse_block(p)
      [] what = "statement" -> parse_statement(p)
-----------------------------------------------------------------------------
(* The file *)

parser_init == [i |-> 1, n |-> None, header |-> FALSE, params |-> FALSE, args |-> FALSE, extern |-> FALSE,
                fns |-> <<>>, scopes |-> <<Scope("")>>, split |-> 0,
                poisoned |-> {}, skips |-> <<>>, unclosed |-> {}, badIf |-> FALSE]

\* A file that lex_file made tokens of
ParserInit(tokens) == /\ toks = tokens
                      /\ parser = parser_init
                      /\ statements = <<>>
                      /\ file = "read"

\* #if: only the tokens of the branches that hold are parsed
compile_time_ifs ==
    /\ file = "read"
    /\ LET pass == apply_compile_time_ifs(toks)
       IN  /\ toks' = pass.out
           /\ parser' = [parser EXCEPT !.badIf = pass.failed]
    /\ file' = "new"
    /\ UNCHANGED statements

\* namespace game.physics; a file is not parsed further when its namespace is wrong
parse_namespace ==
    /\ file = "new"
    /\ LET q == IF t(1) = "namespace" THEN semicolon(parse_dotted_name(eat(parser, 1))) ELSE parser
       IN  /\ file' = IF ok(q) THEN "open" ELSE "failed"
           /\ parser' = IF ok(q) THEN give(q, None) ELSE parser
    /\ UNCHANGED <<toks, statements>>

\* What can only be in a function
is_statement_of_a_function(n) ==
    \/ n.k \in {"return", "defer", "try", "throw", "if", "switch", "for", "while", "break", "continue", "block", "assign", "assert"}
    \/ n.k = "expr" /\ n.c[1].k # ";"

file_statement ==
    /\ file = "open" /\ t(parser.i) # "END"
    /\ LET q == aStatement(parser)
       IN  IF ok(q) /\ ~is_statement_of_a_function(q.n)
           THEN parser' = give(q, None) /\ statements' = Append(statements, q.n)
           ELSE parser' = skip_failed_statement(parser, q, TRUE) /\ UNCHANGED statements
    /\ UNCHANGED <<toks, file>>

file_end == /\ file = "open" /\ t(parser.i) = "END"
            /\ file' = "parsed"
            /\ UNCHANGED <<toks, parser, statements>>

ParserNext == compile_time_ifs \/ parse_namespace \/ file_statement \/ file_end
=============================================================================
