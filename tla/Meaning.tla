------------------------------- MODULE Meaning -------------------------------
(***************************************************************************)
(* What a program of the language means, as the README and the tests have  *)
(* it: the reference the lowered program is compared with.  Nothing here   *)
(* knows of blocks, slots, bytes or flags.                                 *)
(*                                                                         *)
(* S is the state of the run: cells (one value for each variable and       *)
(* temporary), env (the cell of a name), what it did (did), what is left   *)
(* to be chosen (picks), how it goes on (way: "run", "throw", "return" or  *)
(* "leave") and v, the value or place of the last expression.  A place is  *)
(* a cell and a path of members and elements in it.                        *)
(***************************************************************************)
EXTENDS Lower, Bitwise

Num(n) == [k |-> "num", n |-> n]
At(cell, path) == [k |-> "at", cell |-> cell, path |-> path]
Parts(seq) == [k |-> "parts", parts |-> seq]
Text(text) == [k |-> "text", text |-> text]
FnOf(f) == [k |-> "fn", fn |-> f]

\* An integer as its type holds it
fit(type, n) ==
  LET t == ir_type_of(type)
      m == wrap(t, n)
  IN  IF type_is_signed(type) THEN signedValue(t, m) ELSE m
RECURSIVE zeroOf(_)
zeroOf(type) ==
  CASE type.k = "struct" -> Parts([i \in 1 .. Len(type.members) |-> zeroOf(type.members[i].type)])
    [] type.k = "array" -> Parts([i \in 1 .. type.n |-> zeroOf(type.elem)])
    [] type.k = "string" -> Text(<<>>)
    [] type.k = "slice" -> [k |-> "slice", at |-> At(0, <<>>), n |-> 0]
    [] OTHER -> Num(0)
RECURSIVE readAt(_, _), writeAt(_, _, _)
readAt(v, path) == IF path = <<>> THEN v ELSE readAt(v.parts[Head(path)], Tail(path))
writeAt(v, path, new) ==
  IF path = <<>> THEN new ELSE [v EXCEPT !.parts[Head(path)] = writeAt(@, Tail(path), new)]

is(S, v) == [S EXCEPT !.v = v]
running(S) == S.way = "run"
\* What comes next, when the part before it didn't leave
Then(S, F(_)) == IF running(S) THEN F(S) ELSE S
fetch(S) == is(S, readAt(S.cells[S.v.cell], S.v.path))
set(S, place, v) == [S EXCEPT !.cells[place.cell] = writeAt(@, place.path, v)]
cell(S, v) == [S EXCEPT !.cells = Append(@, v), !.v = At(Len(S.cells) + 1, <<>>)]
named(S, n, v) == LET C == cell(S, v) IN [C EXCEPT !.env = (n :> C.v.cell) @@ @]
does(S, event) == [S EXCEPT !.did = Append(@, event)]
\* An error leaves the function it is thrown in, which is added to its trace
throws(S, err) == does([S EXCEPT !.way = "throw", !.err = err], [k |-> "frame", fn |-> S.fn])
panics(S, what) == throws(S, [k |-> "panic", what |-> what])

arithmetic(op, x, y) ==
  LET quotient == (IF (x < 0) = (y < 0) THEN 1 ELSE -1) * ((IF x < 0 THEN -x ELSE x) \div (IF y < 0 THEN -y ELSE y))
  IN  CASE op = "+" -> x + y [] op = "-" -> x - y [] op = "*" -> x * y
        [] op = "/" -> quotient [] op = "%" -> x - y * quotient
        [] op = "&" -> x & y [] op = "|" -> x | y [] op = "^" -> x ^^ y
        [] op = "<<" -> x * 2 ^ y [] op = ">>" -> x \div 2 ^ y
compare(op, x, y) ==
  CASE op = "==" -> x = y [] op = "!=" -> x # y
    [] op = "<" -> x < y [] op = "<=" -> x <= y [] op = ">" -> x > y [] op = ">=" -> x >= y
flag(test) == Num(IF test THEN 1 ELSE 0)
true(v) == v # Num(0)

RECURSIVE eval(_, _), place(_, _), evalAs(_, _, _), exec(_, _), block(_, _), callWith(_, _, _), defaultOf(_, _)
RECURSIVE evalEach(_, _, _, _), convert(_, _, _, _), defaultEach(_, _, _), embeddedPath(_, _), execEach(_, _), initEach(_, _, _)
\* The value of a variable of the type that is declared without one, or of a member that a literal leaves out
defaultOf(S, type) ==
  CASE type.k = "struct" -> defaultEach(is(S, Parts(<<>>)), type.members, <<>>)
    [] type.k = "array" -> LET D == defaultOf(S, type.elem) IN is(D, Parts([i \in 1 .. type.n |-> D.v]))
    [] OTHER -> is(S, zeroOf(type))
defaultEach(S, members, soFar) ==
  IF members = <<>> THEN is(S, Parts(soFar))
  ELSE LET m == Head(members)
           D == IF m.value # <<>> THEN evalAs(S, m.value[1], m.type) ELSE defaultOf(S, m.type)
       IN  defaultEach(D, Tail(members), Append(soFar, D.v))

\* The path of a struct that another embeds
embeddedPath(outer, inner) ==
  LET holds(i) == outer.members[i].embedded /\ (same(outer.members[i].type, inner) \/ embeddedPath(outer.members[i].type, inner) # <<>>)
      found == {i \in 1 .. Len(outer.members) : holds(i)}
      i == CHOOSE j \in found : TRUE
  IN  IF found = {} THEN <<>>
      ELSE <<i>> \o (IF same(outer.members[i].type, inner) THEN <<>> ELSE embeddedPath(outer.members[i].type, inner))
convert(S, v, from, to) ==
  LET boxed == cell(S, v) IN
  CASE same(from, to) -> is(S, v)
    [] ~same(from, to) /\ is_optional_type(to) ->
         IF from.k = "null" THEN is(S, zeroOf(to))
         ELSE LET C == convert(S, v, from, to.members[1].type) IN is(C, Parts(<<C.v, Num(1)>>))
    [] to.k = "any" /\ from.k # "any" -> is(boxed, [k |-> "any", type |-> from, at |-> boxed.v])
    [] from.k = "any" /\ to.k # "any" -> fetch(is(S, v.at))
    [] from.k # "bool" /\ to.k = "bool" -> is(S, flag(true(v)))
    [] from.k = "ptr" /\ to.k = "ptr" /\ ~same(from, to) ->
         is(S, IF from.to.k = "struct" /\ to.to.k = "struct" THEN [v EXCEPT !.path = @ \o embeddedPath(from.to, to.to)] ELSE v)
    [] enum_backing_type(to).k = "int" /\ v.k = "num" -> is(S, Num(fit(to, v.n)))
    [] OTHER -> is(S, v)
evalAs(S, e, type) ==
  LET P == place(S, e) IN
  IF type.k = "slice" /\ e.type.k = "array"
  THEN Then(P, LAMBDA A : is(A, [k |-> "slice", at |-> A.v, n |-> e.type.n]))
  ELSE Then(eval(S, e), LAMBDA A : convert(A, A.v, e.type, type))
\* The values of es, each as its type, from left to right
evalEach(S, es, types, soFar) ==
  IF es = <<>> THEN is(S, soFar)
  ELSE Then(evalAs(S, Head(es), Head(types)),
            LAMBDA A : evalEach(A, Tail(es), Tail(types), Append(soFar, A.v)))
initEach(S, inits, type) ==
  IF inits = <<>> THEN S
  ELSE LET parts == S.v.parts
           m == Head(inits).m
       IN  Then(evalAs(S, Head(inits).e, type.members[m].type),
                LAMBDA A : initEach(is(A, Parts([parts EXCEPT ![m] = A.v])), Tail(inits), type))

IsPlace(e) == e.k \in {"id", "member", "index", "inside"} \/ (e.k = "un" /\ e.op = "*")
\* Where the value of e is: a temporary when it has no place of its own
place(S, e) ==
  LET temporary == Then(eval(S, e), LAMBDA A : cell(A, A.v))
      structure == IF e.e.type.k = "ptr" THEN eval(S, e.e) ELSE place(S, e.e)
      element(A, i) ==
        LET n == CASE e.e.type.k = "array" -> e.e.type.n [] e.e.type.k = "slice" -> A.v.n [] OTHER -> Len(A.v.text)
            list == IF e.e.type.k = "slice" THEN A.v.at ELSE A.v
        IN  CASE i < 0 \/ i >= n -> panics(A, "panicIndexOutOfBounds")
              [] i \in 0 .. n - 1 /\ e.e.type.k = "string" -> cell(A, Num(A.v.text[i + 1]))
              [] i \in 0 .. n - 1 /\ e.e.type.k # "string" -> is(A, At(list.cell, Append(list.path, i + 1)))
      list == IF e.e.type.k = "array" THEN place(S, e.e) ELSE eval(S, e.e)
  IN  CASE e.k = "id" /\ e.n \in DOMAIN S.env -> is(S, At(S.env[e.n], <<>>))
        [] e.k = "inside" -> is(S, S.inside)
        [] e.k = "un" /\ e.op = "*" -> eval(S, e.e)
        [] e.k = "member" /\ e.e.type.k \in {"struct", "ptr"} -> Then(structure, LAMBDA A : is(A, At(A.v.cell, Append(A.v.path, e.m))))
        [] e.k = "index" -> Then(list, LAMBDA A : Then(evalAs(A, e.i, I64), LAMBDA B : element(is(B, A.v), B.v.n)))
        [] OTHER -> temporary

binary(S, e) ==
  LET operand(A, x) == IF e.op \in Comparisons THEN eval(A, x) ELSE evalAs(A, x, e.type)
      optional == is_optional_type(e.l.type)
      right(A) == IF optional THEN evalAs(A, e.r, e.l.type) ELSE operand(A, e.r)
      both(F(_, _, _)) == Then(operand(S, e.l), LAMBDA A : Then(right(A), LAMBDA B : F(B, A.v, B.v)))
      ordered == e.l.type.k \notin {"struct", "string", "ptr"} /\ e.op \notin {"==", "!="}
      tests(A, x, y) == is(A, flag(IF ordered THEN compare(e.op, x.n, y.n) ELSE (x = y) = (e.op = "==")))
      counts(A, x, y) ==
        IF e.op \in {"/", "%"} /\ y.n = 0 THEN panics(A, "panicDivisionByZero")
        ELSE is(A, Num(fit(e.type, arithmetic(e.op, x.n, y.n))))
  IN  CASE e.op = "&&" -> Then(eval(S, e.l), LAMBDA A : IF true(A.v) THEN evalAs(A, e.r, Bool) ELSE A)
        [] e.op = "||" -> Then(eval(S, e.l), LAMBDA A : IF true(A.v) THEN is(A, Num(1)) ELSE evalAs(A, e.r, Bool))
        [] e.op = "??" -> Then(eval(S, e.l), LAMBDA A :
             IF A.v.parts[2] = Num(0) THEN evalAs(A, e.r, e.type)
             ELSE is(A, IF is_optional_type(e.type) THEN A.v ELSE A.v.parts[1]))
        [] e.op \in Comparisons -> both(tests)
        [] OTHER -> both(counts)
\* a?.b: the part after ?. only when there is something in a
chain(S, e) ==
  LET absent(A) == IF e.type.k = "void" THEN A ELSE is(A, zeroOf(e.type))
      inner(A, at) == Then(eval([A EXCEPT !.inside = at], e.inner),
                           LAMBDA B : IF e.type.k = "void" THEN B ELSE convert(B, B.v, e.inner.type, e.type))
      there(A) == readAt(A.cells[A.v.cell], A.v.path).parts[2] # Num(0)
  IN  IF e.pointer
      THEN Then(eval(S, e.e), LAMBDA A : IF A.v = Num(0) THEN absent(A) ELSE LET C == cell(A, A.v) IN inner(C, C.v))
      ELSE Then(place(S, e.e), LAMBDA A : IF there(A) THEN inner(A, At(A.v.cell, Append(A.v.path, 1))) ELSE absent(A))

eval(S, e) ==
  LET literal == initEach(defaultOf(S, e.type), e.inits, e.type)
      each == evalEach(S, e.elems, [i \in 1 .. Len(e.elems) |-> e.type.elem], <<>>)
      operand == evalAs(S, e.e, e.type)
      switch == block([S EXCEPT !.arm = zeroOf(e.type)], e.block)
      callee == IF e.direct THEN is(S, FnOf(e.fn)) ELSE eval(S, e.callee)
      types == [i \in 1 .. Len(e.args) |-> IF i > Len(e.sig.params) THEN e.args[i].type ELSE e.sig.params[i].type]
      listed(A) == LET C == cell(A, Parts(A.v)) IN is(C, [k |-> "slice", at |-> C.v, n |-> Len(e.elems)])
      result(A) == IF e.throws /\ Last(A.v) # Num(0) THEN throws(A, Last(A.v)) ELSE is(A, IF A.v = <<>> THEN Num(0) ELSE A.v[1])
  IN  CASE e.k \in {"lit", "enum"} -> is(S, Num(IF e.type.k = "bool" THEN e.v ELSE fit(e.type, e.v)))
        [] e.k = "null" -> is(S, Num(0))
        [] e.k = "str" -> is(S, Text(e.text))
        [] e.k = "fn" -> is(S, FnOf(e.fn))
        [] e.k = "sizeof" -> is(S, Num(e.of.size))
        [] e.k = "id" /\ e.n \in DOMAIN S.prog.constants -> evalAs(S, S.prog.constants[e.n].value, S.prog.constants[e.n].type)
        [] e.k = "member" /\ e.e.type.k = "array" -> is(S, Num(e.e.type.n))
        [] e.k = "member" /\ e.e.type.k \in {"slice", "string"} ->
             Then(eval(S, e.e), LAMBDA A : is(A, Num(IF e.e.type.k = "slice" THEN A.v.n ELSE Len(A.v.text))))
        [] e.k = "un" /\ e.op = "&" -> place(S, e.e)
        [] e.k = "un" /\ e.op = "!" -> Then(eval(S, e.e), LAMBDA A : is(A, flag(~true(A.v))))
        [] e.k = "un" /\ e.op = "-" -> Then(operand, LAMBDA A : is(A, Num(fit(e.type, -A.v.n))))
        [] e.k = "un" /\ e.op = "~" -> Then(operand, LAMBDA A : is(A, Num(fit(e.type, -A.v.n - 1))))
        [] e.k = "bin" -> binary(S, e)
        [] e.k = "cast" -> operand
        [] e.k = "chain" -> chain(S, e)
        [] e.k = "struct" -> literal
        [] e.k = "array" -> Then(each, LAMBDA A : IF e.type.k = "array" THEN is(A, Parts(A.v)) ELSE listed(A))
        [] e.k = "switch" -> Then(switch, LAMBDA A : [A EXCEPT !.v = A.arm, !.arm = S.arm])
        [] e.k = "call" -> Then(callee, LAMBDA A : Then(evalEach(A, e.args, types, <<>>), LAMBDA B :
                             Then(callWith(B, A.v.fn, B.v), result)))
        [] OTHER -> Then(place(S, e), fetch)

\* The results of a call, in S.v
callWith(S, f, args) ==
  LET defn == S.prog.functions[f]
      RECURSIVE bind(_, _, _)
      bind(A, params, values) ==
        IF params = <<>> THEN A ELSE bind(named(A, Head(params).n, Head(values)), Tail(params), Tail(values))
      B == block([bind(S, defn.params, args) EXCEPT !.fn = f, !.results = <<>>], defn.block)
      back == [B EXCEPT !.env = S.env, !.fn = S.fn, !.results = S.results, !.inside = S.inside, !.arm = S.arm]
  IN  CASE f = "out" -> is(does(S, [k |-> "out", n |-> wrap("i64", args[1].n)]), <<>>)
        [] f = "pick" -> IF S.picks = <<>> THEN [S EXCEPT !.way = "lost"]
                           ELSE [S EXCEPT !.v = <<Num(Head(S.picks))>>, !.picks = Tail(@)]
        [] f = "start" -> is(S, <<>>)
        [] f = "ping" -> is(does(S, [k |-> "out", n |-> 99]), <<>>)
        [] f \notin {"out", "pick", "ping", "start"} ->
             IF B.way = "throw" THEN throws(back, B.err) ELSE [back EXCEPT !.way = "run", !.v = B.results]

\* ---- Statements ------------------------------------------------------------
\* One round of the loop s: a break leaves it as "broke"
turn(S, s) ==
  LET B == block(S, s.block)
      mine == B.way = "leave" /\ B.loop = s.id
  IN  IF mine THEN [B EXCEPT !.way = IF B.break THEN "broke" ELSE "run"] ELSE B
outOf(S) == IF S.way = "broke" THEN [S EXCEPT !.way = "run"] ELSE S
RECURSIVE rounds(_, _), range(_, _, _, _), each(_, _, _, _, _)
rounds(S, s) ==
  Then(IF s.k = "while" THEN eval(S, s.e) ELSE is(S, Num(1)), LAMBDA A :
    IF ~true(A.v) THEN A ELSE LET B == turn(A, s) IN IF running(B) THEN rounds(B, s) ELSE outOf(B))
index(S, s, i) == IF s.index.n = "" THEN S ELSE named(S, s.index.n, Num(fit(s.index.type, i)))
range(S, s, end, i) ==
  LET it == At(S.env[s.it.n], <<>>)
      now == readAt(S.cells[it.cell], <<>>)
      B == turn(index(S, s, i), s)
      C == is(B, readAt(B.cells[it.cell], <<>>))
  IN  CASE ~compare(IF s.inclusive THEN "<=" ELSE "<", now.n, end.n) -> S
        [] compare(IF s.inclusive THEN "<=" ELSE "<", now.n, end.n) ->
             IF running(B) THEN range(set(C, it, Num(fit(s.it.type, C.v.n + 1))), s, end, i + 1) ELSE outOf(B)
each(S, s, list, n, i) ==
  LET at == At(list.cell, Append(list.path, i + 1))
      N == named(S, s.it.n, IF s.byPointer THEN at ELSE readAt(S.cells[at.cell], at.path))
      B == turn(index(N, s, i), s)
  IN  IF i = n THEN S ELSE IF running(B) THEN each(B, s, list, n, i + 1) ELSE outOf(B)
forLoop(S, s) ==
  LET list == IF s.e.type.k = "array" THEN place(S, s.e) ELSE eval(S, s.e) IN
  CASE s.over = "forever" -> rounds(S, s)
    [] s.over = "range" -> Then(evalAs(S, s.start, s.it.type), LAMBDA A :
         LET N == named(A, s.it.n, A.v) IN Then(evalAs(N, s.end, s.it.type), LAMBDA B : range(B, s, B.v, 0)))
    [] s.over = "elements" -> Then(list, LAMBDA A :
         LET bytes == cell(A, Parts([i \in 1 .. Len(A.v.text) |-> Num(A.v.text[i])])) IN
         CASE s.e.type.k = "array" -> each(A, s, A.v, s.e.type.n, 0)
           [] s.e.type.k = "slice" -> each(A, s, A.v.at, A.v.n, 0)
           [] s.e.type.k = "string" -> each(bytes, s, bytes.v, Len(A.v.text), 0))

\* The deferred statements of a block, the last one first, whichever way it is left. One that throws changes the way
RECURSIVE runEach(_, _)
runEach(S, defers) ==
  LET R == exec([S EXCEPT !.way = "run"], Last(defers))
      back == [R EXCEPT !.way = S.way, !.err = S.err, !.results = S.results, !.loop = S.loop, !.break = S.break]
  IN  IF defers = <<>> THEN S ELSE runEach(IF running(R) THEN back ELSE R, Front(defers))
execEach(S, stmts) == IF stmts = <<>> THEN S ELSE Then(exec(S, Head(stmts)), LAMBDA A : execEach(A, Tail(stmts)))
block(S, stmts) ==
  LET R == execEach([S EXCEPT !.defers = <<>>], stmts)
  IN  [runEach([R EXCEPT !.defers = <<>>], R.defers) EXCEPT !.defers = S.defers]

RECURSIVE arms(_, _, _), declare(_, _, _), declareDefaults(_, _)
arms(S, list, rest) ==
  IF list = <<>> THEN block(S, rest)
  ELSE Then(eval(S, Head(list).e), LAMBDA A : IF true(A.v) THEN block(A, Head(list).block) ELSE arms(A, Tail(list), rest))
declare(S, names, values) ==
  IF names = <<>> THEN S ELSE declare(named(S, Head(names).n, Head(values)), Tail(names), Tail(values))
declareDefaults(S, names) ==
  IF names = <<>> THEN S
  ELSE LET D == defaultOf(S, Head(names).type) IN declareDefaults(named(D, Head(names).n, D.v), Tail(names))
\* The results of a call with several
tuple(S, e) ==
  LET types == [i \in 1 .. Len(e.args) |-> e.sig.params[i].type]
  IN  Then(evalEach(S, e.args, types, <<>>), LAMBDA A : callWith(A, e.fn, A.v))
returns(S) == [S EXCEPT !.way = "return", !.results = S.v]
exec(S, s) ==
  LET names == [i \in 1 .. Len(s.names) |-> s.names[i].type]
      rets == S.prog.functions[S.fn].rets
      T == block(S, s.block)
      \* A compound assignment reads the place before the value
      compound(P, old) ==
        Then(evalAs(P, s.r, s.l.type), LAMBDA B :
          IF s.op \in {"/", "%"} /\ B.v.n = 0 THEN panics(B, "panicDivisionByZero")
          ELSE set(B, P.v, Num(fit(s.l.type, arithmetic(s.op, old.n, B.v.n)))))
  IN  CASE s.k = "decl" ->
             IF s.values = <<>> THEN declareDefaults(S, s.names)
             ELSE Then(IF Len(s.values) < Len(s.names) THEN tuple(S, s.values[1]) ELSE evalEach(S, s.values, names, <<>>),
                       LAMBDA A : declare(A, s.names, A.v))
        [] s.k = "assign" -> Then(place(S, s.l), LAMBDA P :
             IF s.op = "=" THEN Then(evalAs(P, s.r, s.l.type), LAMBDA B : set(B, P.v, B.v))
             ELSE compound(P, fetch(P).v))
        [] s.k = "expr" -> eval(S, s.e)
        [] s.k = "block" -> T
        [] s.k = "assert" -> Then(eval(S, s.e), LAMBDA A : IF true(A.v) THEN A ELSE panics(A, "panicAssertion"))
        [] s.k = "if" -> arms(S, s.arms, s.rest)
        [] s.k = "arm" -> Then(evalAs(S, s.e, s.type), LAMBDA A : [A EXCEPT !.arm = A.v])
        [] s.k = "while" -> rounds(S, s)
        [] s.k = "for" -> forLoop(S, s)
        [] s.k = "leave" -> [S EXCEPT !.way = "leave", !.loop = s.loop, !.break = s.break]
        [] s.k = "return" -> Then(IF s.tuple THEN tuple(S, s.values[1]) ELSE evalEach(S, s.values, rets, <<>>), returns)
        [] s.k = "defer" -> [S EXCEPT !.defers = Append(@, s.s)]
        [] s.k = "try" -> IF T.way # "throw" THEN T ELSE block(named([T EXCEPT !.way = "run"], s.error, T.err), s.handler)
        [] s.k = "throw" -> Then(evalAs(S, s.e, ErrorType), LAMBDA A : IF A.v = Num(0) THEN A ELSE throws(A, A.v))

\* ---- A run of the program ----------------------------------------------------
RECURSIVE globals(_, _)
globals(S, variables) ==
  IF variables = {} THEN S
  ELSE LET n == CHOOSE x \in variables : TRUE
           v == S.prog.globals[n]
           D == IF v.value # <<>> THEN evalAs(S, v.value[1], v.type) ELSE defaultOf(S, v.type)
       IN  globals(named(D, n, D.v), variables \ {n})
RECURSIVE locals(_, _)
locals(S, variables) ==
  IF variables = <<>> THEN S
  ELSE LET v == Head(variables)
           D == IF v.value # <<>> THEN evalAs(S, v.value[1], v.type) ELSE defaultOf(S, v.type)
       IN  locals(named(D, v.n, D.v), Tail(variables))
\* What the program does when pick() gives these values: its events, and whether f ends or an error leaves it
Did(prog, f, picks) ==
  LET S == [prog |-> prog, cells |-> <<>>, env |-> <<>>, did |-> <<>>, picks |-> picks, way |-> "run", err |-> Num(0),
            results |-> <<>>, loop |-> 0, break |-> FALSE, inside |-> At(0, <<>>), arm |-> Num(0), defers |-> <<>>,
            fn |-> f, v |-> Num(0)]
      G == locals(globals(S, DOMAIN prog.globals), prog.threadLocals)
      R == block(G, prog.functions[f].block)
  IN  Append(R.did, [k |-> CASE R.way = "throw" -> "uncaught" [] R.way = "lost" -> "lost" [] OTHER -> "end"])
=============================================================================
