------------------------------ MODULE MCParser ------------------------------
EXTENDS ReadBack, TLC

N(x) == Leaf("name", x)
L(list) == List(list)
One == Leaf("literal", "INT")
a == N("a")
b == N("b")
Bin(op, x, y) == Node("binary", op, <<x, y>>)
Un(op, x) == Node("unary", op, <<x>>)
Arg(x) == Node("argument", "", <<x>>)
CallOf(f, args) == Node("call", "", <<f, L([j \in DOMAIN args |-> Arg(args[j])]), L(<<>>)>>)
Prim(x) == Leaf("type", x)
NamedType(x) == Node("type", "", <<N(x)>>)

Ops == {"||", "&&", "==", "<", ">", "|", "^", "&", "??", ">>", "-", "*"}
Forms(X, Y) == {Bin(op, x, y) : op \in Ops, x \in X, y \in Y} \cup {Un(op, x) : op \in {"!", "-", "&"}, x \in X}
         \cup {Node("member", ".", <<x, b>>) : x \in X} \cup {Node("index", "", <<x, y>>) : x \in X, y \in Y}
         \cup {CallOf(Node("member", ".", <<x, b>>), <<y>>) : x \in X, y \in Y} \cup {CallOf(b, <<x, y>>) : x \in X, y \in Y}
         \cup {Node("as", "", <<x, Prim("int")>>) : x \in X} \cup {Node("xx", "", <<x>>) : x \in X}
Flat == Forms({a}, {One})
Deep == Forms(Flat, {One}) \cup Forms({a}, Flat)

Inst(args) == Node("instance", "", <<N("T"), L(args)>>)
Decl(kind, names, type, values) == Node("declare", kind, <<L([j \in DOMAIN names |-> N(names[j])]), type, L(values)>>)
Var(x, type) == Decl("variable", <<x>>, type, <<>>)
Unnamed(type) == Decl("variable", <<>>, type, <<>>)
FnType(params, rets) == Node("function type", "", <<L(params), L(rets)>>)
Void == Prim("void")
Blk(list) == Node("block", "", list)
Fn(params, rets, body) == Node("function", "", <<L(<<>>), L(params), L(rets), Blk(body)>>)
Lambda(names, e) == Node("function", "=>", <<L([j \in DOMAIN names |-> N(names[j])]), e>>)
Lit(type, values) == Node("struct literal", "", <<type, L([j \in DOMAIN values |-> Node("initializer", "", <<values[j]>>)])>>)

\* Between '<' and '>' there are no names of parameters and no braces
Plain(X) == {x \in X : /\ x.k \notin {"struct type", "enum type"}
                       /\ x.k = "function type" => \A j \in DOMAIN x.c[1].c : x.c[1].c[j].c[1].c = <<>>}
TypeForms(X, Y) ==
    {Node(k, "", <<x>>) : k \in {"pointer", "optional"}, x \in X}
    \cup {Node(k, "", <<None, x>>) : k \in {"slice", "list of"}, x \in X}
    \cup {Node("array", "", <<One, x>>) : x \in X}
    \cup {Inst(<<x>>) : x \in Plain(X)} \cup {Inst(<<x, y>>) : x \in Plain(X), y \in Plain(Y)}
    \cup {FnType(<<Unnamed(x)>>, <<y>>) : x \in X, y \in Y}
    \cup {FnType(<<Var("a", x)>>, <<y>>) : x \in X, y \in Y}
    \cup {FnType(<<Var("a", x), Var("b", y)>>, <<y>>) : x \in X, y \in Y}
    \cup {FnType(<<>>, <<y, x>>) : x \in X, y \in Y} \cup {FnType(<<>>, <<x>>) : x \in X}
    \cup {Node("struct type", "", <<Var("a", x)>>) : x \in X}
    \cup {Node("enum type", "", <<Leaf("enumerator", "a"), Node("enumerator", "as", <<One>>)>>)}
FlatTypes == {Prim("int"), NamedType("P"), Node("type", "", <<Node("name", "T", <<N("P")>>)>>)}
DeepTypes == TypeForms(TypeForms({Prim("int")}, {Prim("bool")}), {NamedType("P")}) \cup TypeForms({Prim("int")}, TypeForms({Prim("int")}, {Prim("bool")})) \cup FlatTypes

Let(e) == Decl("infer", <<"x">>, None, <<e>>)

\* Expressions that are not operators
Others(X) == {Lambda(<<>>, x) : x \in X} \cup {Lambda(<<"a", "b">>, x) : x \in X}
        \cup {Lit(None, <<x>>) : x \in X} \cup {Lit(NamedType("P"), <<x, One>>) : x \in X} \cup {Lit(Inst(<<Prim("int")>>), <<x>>) : x \in X}
        \cup {Node("array literal", "", <<x, a>>) : x \in X} \cup {Node("map", "", <<Node("entry", "", <<x, a>>)>>) : x \in X}
        \cup {Node("map", "", <<>>), Node("enum value", "b", <<None>>), Node("enum value", "b", <<Node("enum type", "", <<Leaf("enumerator", "b")>>)>>)}
        \cup {Node("typeof", "", <<x>>) : x \in X} \cup {Node("sizeof", "", <<Prim("int")>>)}
        \cup {Fn(<<Var("a", Prim("int")), Decl("typed", <<"b">>, Prim("int"), <<x>>)>>, <<Prim("int")>>, <<Node("return", "", <<x>>)>>) : x \in X}
        \cup {Node("call", "", <<b, L(<<Arg(x), Node("argument", "a", <<x>>)>>), L(<<Inst(<<Prim("int")>>)>>)>>) : x \in X}
\* In its header, a '{' is the one of the switch
Switches(X) == {Node("switch", "", <<x, L(<<Node("case", "", <<L(<<One, a>>), b>>), Node("case", "", <<L(<<Leaf("else", "")>>), a>>)>>)>>) : x \in X}
Wide == Others({a} \cup Flat) \cup Others(Others({a})) \cup Forms(Others({a}), {One}) \cup Forms({a}, Others({a}))
        \cup Switches({a} \cup Flat)

Simple == {Node("expr", "", <<CallOf(b, <<a>>)>>), Node("assign", "+=", <<Node("index", "", <<a, One>>), b>>), Node("return", "", <<Leaf(";", "")>>),
           Node("return", "", <<a, b>>), Let(a), Node("break", "", <<>>), Node("throw", "", <<a>>), Node("assert", "", <<a>>), Var("y", Prim("int"))}
Heads == {a, Bin("<", a, b), CallOf(b, <<Lit(NamedType("P"), <<One>>)>>)}
StatementForms(S) ==
    {Node("if", "", <<h, Blk(<<s>>)>>) : h \in Heads, s \in S}
    \cup {Node("if", "", <<a, Blk(<<s>>), Node("else if", "", <<b, Blk(<<s>>)>>), Blk(<<s, s2>>)>>) : s \in S, s2 \in Simple \ {Let(a), Var("y", Prim("int"))}}
    \cup {Node("while", "", <<h, Blk(<<s>>)>>) : h \in Heads, s \in S}
    \cup {Node("for", v, <<L(x), Node("range", "..", <<One, a>>), Blk(<<s>>)>>) : v \in {"", "*"}, x \in {<<N("$it")>>, <<N("a")>>, <<N("a"), N("b")>>}, s \in S}
    \cup {Node("for", "", <<L(<<>>), None, Blk(<<s>>)>>) : s \in S}
    \cup {Node("switch", v, <<a, L(<<Node("case", "", <<L(<<One, a>>), Blk(<<s>>)>>), Node("case", "", <<L(<<Leaf("else", "")>>), Blk(<<>>)>>)>>)>>) : v \in {"", "b"}, s \in S}
    \cup {Node("try", "f", <<Blk(<<s>>), Blk(<<s>>)>>) : s \in S} \cup {Blk(<<s>>) : s \in S}
    \cup {Node("defer", "", <<s>>) : s \in S}
SomeStatements == Simple \cup StatementForms(Simple \cup StatementForms({Node("return", "", <<a>>)}))
Function(name, body) == Decl("constant", <<name>>, None, <<Fn(<<>>, <<Void>>, body)>>)

Method(v, params) == Decl("constant", <<"f">>, None, <<Node("function", v, <<L(<<>>), L(<<selfParameter>> \o params), L(<<Void>>), Blk(<<>>)>>)>>)
Decls == {Node("struct", "P", <<Var("a", Prim("int")), Method("method *", <<>>), Method("method", <<Var("b", Prim("int"))>>), Decl("constant", <<"x">>, None, <<One>>)>>),
          Node("union", "P", <<Var("a", Prim("int")), Var("b", Void)>>),
          Node("enum", "P", <<Leaf("enumerator", "a"), Node("enumerator", "b", <<One>>)>>),
          Node("extern", "", <<Decl("constant", <<"f">>, None, <<Node("function", "", <<L(<<>>), L(<<Var("a", Prim("int"))>>), L(<<Prim("int")>>), None>>)>>), Node("expr", "", <<Leaf(";", "")>>)>>),
          Leaf("import", "STRING"), Node("import", "y", <<Node("name", "T", <<N("P")>>)>>), Node("use", "", <<N("T")>>),
          Decl("alias", <<"T">>, Node("pointer", "", <<NamedType("P")>>), <<>>), Decl("alias", <<"T">>, Inst(<<Inst(<<Prim("int")>>)>>), <<>>),
          Decl("infer", <<"a", "b">>, None, <<One, One>>), Decl("typed", <<"x">>, Prim("int"), <<Bin("-", a, One)>>),
          Function("y", <<Let(a), Node("return", "", <<Leaf(";", "")>>)>>)}


Is(os) == Node("is", "OS", <<Leaf("value", os)>>)
FlatConds == {Is("linux"), Is("windows"), Leaf("literal", "true"), Node("is not", "ARCH", <<Leaf("value", "x64")>>)}
Conds == FlatConds \cup {Un("!", c) : c \in FlatConds}
         \cup {Bin(op, c, d) : op \in {"&&", "||"}, c, d \in FlatConds \cup {Un("!", Is("linux")), Bin("||", Is("windows"), Is("linux")), Bin("&&", Is("linux"), Is("windows"))}}
Ifdef(c, yes, no) == Node("#if", "", <<c, Blk(yes), no>>)
IfFiles == {<<Let(a), Ifdef(c, <<Var("a", Prim("int"))>>, Blk(<<Function("f", <<>>)>>))>> : c \in Conds}
           \cup {<<Function("f", <<Ifdef(c, <<Let(a)>>, Ifdef(d, <<Node("if", "", <<a, Blk(<<Let(b)>>)>>)>>, Blk(<<Ifdef(e, <<Node("break", "", <<>>)>>, Blk(<<>>))>>)))>>)>>
                   : c, d, e \in FlatConds}

Middle == Decls \cup {Function("f", <<Let(a), s, Node("return", "", <<a>>)>>) : s \in Simple \cup StatementForms({Node("return", "", <<a>>)})}
MCBroken == {<<Var("u", Prim("int")), d, Function("w", <<Node("return", "", <<Leaf(";", "")>>)>>)>> : d \in Middle}
\* A function that takes functions
Takes == {Decl("constant", <<"f">>, None, <<Fn(<<Var("a", x), Var("b", y)>>, <<Prim("int")>>, <<>>)>>)
             : x, y \in {FnType(<<>>, <<Prim("int")>>), FnType(<<Unnamed(Prim("int"))>>, <<Void>>), FnType(<<>>, <<Prim("int"), Prim("bool")>>)}}
Written(text, trees) == Node("written", "", <<L([j \in DOMAIN text |-> Leaf("token", text[j])])>> \o trees)
Values(names, values) == Decl("infer", names, None, values)
Multi(list) == Node("block", "multi", list)
Set(place, value) == Node("assign", "=", <<place, value>>)
Generic == Node("function", "", <<L(<<N("T"), N("P")>>), L(<<Var("a", NamedType("T"))>>), L(<<Node("pointer", "", <<NamedType("P")>>)>>), Blk(<<>>)>>)
New(f, args, types) == Node("expr", "", <<Node("call", "", <<N(f), L([j \in DOMAIN args |-> Arg(args[j])]), L(types)>>)>>)
\* a, b = b, a takes both values before it gives one
InBody == {Written(<<"a", ",", "b", "=", "b", ",", "a", ";">>,
                   <<Multi(<<Values(<<"$value1", "$value2">>, <<b, a>>), Set(a, N("$value1")), Set(b, N("$value2"))>>)>>),
           Written(<<"a", ",", "b", "=", "b", ",", "INT", ";">>,
                   <<Multi(<<Values(<<"$value1">>, <<b>>), Set(a, N("$value1")), Set(b, One)>>)>>),
           Written(<<"_", ",", "b", "=", "f", "(", ")", ";">>,
                   <<Multi(<<Values(<<"$value1", "$value2">>, <<CallOf(N("f"), <<>>)>>), Set(b, N("$value2"))>>)>>),
           Written(<<"new", "(", "P", ")", ";">>, <<New("allocateNew", <<>>, <<NamedType("P")>>)>>),
           Written(<<"new", "(", "*", "int", ",", "a", ")", ";">>, <<New("allocateNew", <<a>>, <<Node("pointer", "", <<Prim("int")>>)>>)>>),
           Written(<<"new", "P", "{", "INT", "}", ";">>, <<New("allocateCopy", <<Lit(NamedType("P"), <<One>>)>>, <<>>)>>),
           Node("expr", "", <<CallOf(Node("member", "?.", <<Node("member", "?.", <<a, b>>), b>>), <<>>)>>)}
AtTop == {Written(<<"namespace", "T", ".", "P", ";">>, <<>>),
          Written(<<"P", "::", "struct", "<", "T", ">", "{", "a", ":", "T", ";", "}">>, <<Node("struct", "P", <<Var("a", NamedType("T"))>>)>>),
          Written(<<"P", "::", "enum", "flags", "{", "a", ",", "}">>, <<Node("enum", "P", <<Leaf("enumerator", "a")>>)>>),
          Written(<<"@", "private", "@", "deprecated", "(", "STRING", ")", "x", ":=", "INT", ";">>,
                  <<[Let(One) EXCEPT !.c = Append(@, L(<<Leaf("builtin", "private"), Leaf("builtin", "deprecated")>>))]>>),
          Decl("constant", <<"f">>, None, <<Generic>>)}
MCSources == {<<Function("f", <<s>>)>> : s \in InBody} \cup {<<s>> : s \in AtTop} \cup {<<Let(e)>> : e \in Flat \cup Deep \cup Wide} \cup {<<Var("x", y)>> : y \in DeepTypes} \cup {<<Function("f", <<s>>)>> : s \in SomeStatements}
             \cup {<<d>> : d \in Decls \cup Takes} \cup IfFiles
NoSources == {}
Variables == {<<Var("u", Prim("int")), Let(One), Decl("infer", <<"w">>, None, <<One>>)>>}
MCNames == {"a", "b", "x", "y", "u", "w", "f", "P", "T", "self", "_", "flags", "kind", "private", "deprecated"}
MCTarget == [OS |-> "linux", ARCH |-> "arm64"]
MCKnown == [OS |-> {"linux", "windows"}, ARCH |-> {"x64", "arm64"}]
=============================================================================
