------------------------------ MODULE MCLowering ------------------------------
(***************************************************************************)
(* Programs for the lowering.  WaysOut is every nesting of two of try,     *)
(* loop, defer and if around every way to leave them; the others each use  *)
(* a part of the language.                                                 *)
(***************************************************************************)
EXTENDS Lowering

WidthOf == [i8 |-> 4, i16 |-> 6, i32 |-> 8, i64 |-> 12]

\* ---- Trees ----------------------------------------------------------------
n(v, type) == [k |-> "lit", v |-> v, type |-> type]
num(v) == n(v, I32)
id(x, type) == [k |-> "id", n |-> x, type |-> type]
bin(op, x, y, type) == [k |-> "bin", op |-> op, l |-> x, r |-> y, type |-> type]
un(op, x, type) == [k |-> "un", op |-> op, e |-> x, type |-> type]
member(x, m, type) == [k |-> "member", e |-> x, m |-> m, type |-> type]
elem(x, i, type) == [k |-> "index", e |-> x, i |-> i, type |-> type]
castTo(x, type) == [k |-> "cast", e |-> x, type |-> type]
null == [k |-> "null", type |-> Null]
structOf(type, inits) == [k |-> "struct", inits |-> inits, type |-> type]
arrayOf(type, elems) == [k |-> "array", elems |-> elems, type |-> type]
fnValue(f, sig) == [k |-> "fn", fn |-> f, type |-> Function(sig)]
Sig(params, rets, extern) == [params |-> params, rets |-> rets, extern |-> extern]
P(x, type) == [n |-> x, type |-> type]
OutSig == Sig(<<P("n", I64)>>, <<>>, TRUE)
callOf(f, sig, list) ==
  [k |-> "call", fn |-> f, direct |-> TRUE, callee |-> 0, sig |-> sig, args |-> list, throws |-> FALSE,
   type |-> IF sig.rets = <<>> THEN Void ELSE sig.rets[1]]
callValue(x, sig, list) ==
  [k |-> "call", fn |-> "", direct |-> FALSE, callee |-> x, sig |-> sig, args |-> list, throws |-> FALSE,
   type |-> IF sig.rets = <<>> THEN Void ELSE sig.rets[1]]
do(e) == [k |-> "expr", e |-> e]
o(e) == do(callOf("out", OutSig, <<e>>))
on(v) == o(num(v))
pick == callOf("pick", Sig(<<>>, <<Bool>>, TRUE), <<>>)
let(x, type, e) == [k |-> "decl", names |-> <<P(x, type)>>, values |-> <<e>>]
var(x, type) == [k |-> "decl", names |-> <<P(x, type)>>, values |-> <<>>]
assign(op, x, e) == [k |-> "assign", op |-> op, l |-> x, r |-> e]
if(e, then) == [k |-> "if", arms |-> <<[e |-> e, block |-> then]>>, rest |-> <<>>]
ifElse(e, then, else) == [k |-> "if", arms |-> <<[e |-> e, block |-> then]>>, rest |-> else]
defer(s) == [k |-> "defer", s |-> s]
ret(values) == [k |-> "return", values |-> values, tuple |-> FALSE]
try(list, handler) == [k |-> "try", block |-> list, error |-> "e", handler |-> handler]
throw(e) == [k |-> "throw", e |-> e]
blockOfS(list) == [k |-> "block", block |-> list]
NoIndex == P("", I32)
forRange(x, type, from, to, inclusive, list) ==
  [k |-> "for", over |-> "range", id |-> x, it |-> P(x, type), index |-> NoIndex, start |-> from, end |-> to,
   inclusive |-> inclusive, block |-> list]
forEach(x, type, e, byPointer, idx, list) ==
  [k |-> "for", over |-> "elements", id |-> x, it |-> P(x, type), index |-> idx, e |-> e, byPointer |-> byPointer, block |-> list]
leave(x, break) == [k |-> "leave", loop |-> x, break |-> break]

\* ---- Programs ----------------------------------------------------------------
M(type, e) == [type |-> type, value |-> e]
ErrorStruct == [name |-> "Error", k |-> "struct", size |-> 4, align |-> 4, optional |-> FALSE,
                members |-> <<[off |-> 0, type |-> I32, value |-> <<>>, embedded |-> FALSE]>>]
Fn(params, rets, list) == [symbol |-> "f", extern |-> FALSE, params |-> params, rets |-> rets, block |-> list]
CFn(name, params, rets) == [symbol |-> name, extern |-> TRUE, params |-> params, rets |-> rets, block |-> <<>>]
CFunctions ==
  ("out" :> CFn("out", <<P("n", I64)>>, <<>>)) @@ ("ping" :> CFn("ping", <<>>, <<>>)) @@
  ("pick" :> CFn("pick", <<>>, <<Bool>>)) @@ ("start" :> CFn("start", <<P("f", Pointer(Void))>>, <<>>))
ThrownError == [n |-> "thrownError", type |-> ErrorType, value |-> <<>>]
Program(functions, constants, globals_, threadLocals, second) ==
  [functions |-> functions @@ CFunctions, constants |-> constants, threadLocals |-> threadLocals, second |-> second,
   globals |-> ("err" :> [type |-> ErrorStruct, value |-> <<>>]) @@ ("other" :> [type |-> ErrorStruct, value |-> <<>>]) @@ globals_]
Simple(functions) == Program(functions, <<>>, <<>>, <<ThrownError>>, "")
Main(list) == [Fn(<<>>, <<>>, list) EXCEPT !.symbol = "main"]
err == castTo(un("&", id("err", ErrorStruct), Pointer(ErrorStruct)), ErrorType)
other == castTo(un("&", id("other", ErrorStruct), Pointer(ErrorStruct)), ErrorType)
IsErr == bin("==", id("e", ErrorType), err, Bool)

\* ---- Ways out of blocks ---------------------------------------------------------
\* f leaves in the middle of two constructs, and main sees how. g may throw
IntSig == Sig(<<>>, <<I32>>, FALSE)
callG == do(callOf("g", IntSig, <<>>))
Leaves == {<<if(pick, <<throw(err)>>)>>, <<ret(<<num(5)>>)>>, <<callG>>,
           <<let("q", I32, bin("/", num(7), castTo(pick, I32), I32))>>}
LoopLeaves == {<<if(pick, <<leave("i", TRUE)>>)>>, <<if(pick, <<leave("i", FALSE)>>)>>}
Loop(x, list) == <<forRange(x, I32, num(0), num(2), FALSE, list \o <<on(20)>>)>>
Tries(list) == <<try(list \o <<on(11)>>, <<ifElse(IsErr, <<on(12)>>, <<on(13)>>)>>)>>
DeferThrows(list) == <<blockOfS(<<defer(callG)>> \o list)>>
Shapes(list) ==
  {Tries(list), DeferThrows(list),
   <<blockOfS(<<defer(on(14))>> \o list \o <<on(15)>>)>>,
   <<blockOfS(<<defer(try(<<throw(other)>>, <<on(16)>>))>> \o list)>>,
   <<ifElse(pick, list, <<on(17)>>)>>}
\* A return in a try that runs a defer from outside of the try, which throws
ReturnsThroughTry == DeferThrows(Tries(<<ret(<<num(5)>>)>>))
Bodies ==
  LET inLoop == UNION {Shapes(l) : l \in Leaves \cup LoopLeaves}
      plain == UNION {Shapes(l) : l \in Leaves}
  IN  UNION {Shapes(s) : s \in plain} \cup UNION {{Loop("i", s), Tries(Loop("i", s))} : s \in inLoop}
FOf(list) == Fn(<<>>, <<I32>>, <<defer(on(1))>> \o list \o <<on(2), ret(<<num(6)>>)>>)
GOf == Fn(<<>>, <<I32>>, <<defer(on(3)), if(pick, <<throw(other)>>), ret(<<num(4)>>)>>)
WayOut(list) ==
  Simple(("f" :> FOf(list)) @@ ("g" :> GOf) @@
         ("main" :> Main(<<try(<<o(callOf("f", IntSig, <<>>))>>, <<ifElse(IsErr, <<on(8)>>, <<on(9)>>)>>)>>)))
WaysOut == {WayOut(s) : s \in Bodies \ {ReturnsThroughTry}}

\* ---- Parts of the language ---------------------------------------------------------
Mem(off, type, value) == [off |-> off, type |-> type, value |-> value, embedded |-> FALSE]
Struct(name, size, members) ==
  [name |-> name, k |-> "struct", size |-> size, align |-> 8, optional |-> FALSE, members |-> members]
Optional(inner, off, size) ==
  [Struct("?" \o inner.name, size, <<Mem(0, inner, <<>>), Mem(off, Bool, <<>>)>>) EXCEPT !.optional = TRUE]
OptInt == Optional(I32, 4, 8)
Pair == Struct("Pair", 16, <<Mem(0, I32, <<num(5)>>), Mem(4, I8, <<>>), Mem(8, I64, <<n(3, I64)>>)>>)
OptPair == Optional(Pair, 16, 24)
Outer == Struct("Outer", 24, <<Mem(0, I64, <<n(1, I64)>>), [Mem(8, Pair, <<>>) EXCEPT !.embedded = TRUE]>>)
Color == [name |-> "Color", k |-> "enum", size |-> 1, backing |-> U8]
init(m, e) == [m |-> m, e |-> e]
x == id("x", I32)
In(x_, type, m) == o(member(id(x_, type), m, type.members[m].type))
Test(list) == Simple("main" :> Main(list))
eq(y, z) == bin("==", y, z, Bool)
not(y) == un("!", y, Bool)
none(y, z) == bin("??", y, z, I32)
oi(y) == id(y, OptInt)

Optionals == Simple(
  ("main" :> Main(<<
     var("a", OptInt), let("b", OptInt, num(5)), o(none(oi("a"), num(7))), o(none(oi("b"), num(7))),
     if(eq(oi("a"), null), <<on(1)>>), if(eq(oi("b"), num(5)), <<on(2)>>), if(bin("!=", oi("b"), oi("a"), Bool), <<on(3)>>),
     if(pick, <<assign("=", oi("a"), oi("b"))>>), o(none(bin("??", oi("a"), oi("a"), OptInt), num(9))),
     let("c", OptInt, callOf("f", Sig(<<P("p", OptInt)>>, <<OptInt>>, FALSE), <<oi("a")>>)), o(none(oi("c"), num(4))),
     assign("=", oi("b"), null), o(none(oi("b"), callOf("h", IntSig, <<>>)))>>)) @@
  ("f" :> Fn(<<P("p", OptInt)>>, <<OptInt>>, <<if(eq(oi("p"), null), <<ret(<<num(3)>>)>>), ret(<<null>>)>>)) @@
  ("h" :> Fn(<<>>, <<I32>>, <<if(pick, <<throw(err)>>), ret(<<num(2)>>)>>)))
pairX == id("x", Pair)
Structs == Simple(
  ("main" :> Main(<<
     var("x", Pair), In("x", Pair, 1), In("x", Pair, 2), In("x", Pair, 3),
     let("y", Pair, structOf(Pair, <<init(2, n(-3, I8))>>)), In("y", Pair, 1), In("y", Pair, 2), In("y", Pair, 3),
     assign("=", pairX, id("y", Pair)), assign("=", member(pairX, 1, I32), num(6)), In("x", Pair, 1), In("y", Pair, 1),
     let("z", Pair, callOf("f", Sig(<<P("p", Pair)>>, <<Pair>>, FALSE), <<pairX>>)), In("x", Pair, 3), In("z", Pair, 3),
     if(eq(pairX, id("z", Pair)), <<on(1)>>), if(bin("!=", pairX, pairX, Bool), <<on(2)>>),
     \* The value uses the place it goes to
     assign("=", pairX, structOf(Pair, <<init(1, num(1)), init(3, castTo(member(pairX, 1, I32), I64))>>)), In("x", Pair, 3),
     var("w", Outer), In("w", Outer, 1), o(member(member(id("w", Outer), 2, Pair), 3, I64)),
     let("q", Pointer(Pair), castTo(un("&", id("w", Outer), Pointer(Outer)), Pointer(Pair))),
     assign("=", member(id("q", Pointer(Pair)), 1, I32), num(8)), o(member(member(id("w", Outer), 2, Pair), 1, I32)),
     assign("=", un("*", id("q", Pointer(Pair)), Pair), pairX), o(member(member(id("w", Outer), 2, Pair), 1, I32))>>)) @@
  ("f" :> Fn(<<P("p", Pair)>>, <<Pair>>, <<assign("+", member(id("p", Pair), 3, I64), n(1, I64)), ret(<<id("p", Pair)>>)>>)))
Ints3 == Array(I32, 3)
arr == id("a", Ints3)
Sum == Fn(<<P("s", Slice(I32))>>, <<I32>>, <<let("t", I32, num(0)),
         forEach("v", I32, id("s", Slice(I32)), FALSE, NoIndex, <<assign("+", id("t", I32), id("v", I32))>>), ret(<<id("t", I32)>>)>>)
SumSig == Sig(<<P("s", Slice(I32))>>, <<I32>>, FALSE)
Pairs(k) == Array(Pair, k)
Arrays == Simple(
  ("main" :> Main(<<
     let("a", Ints3, arrayOf(Ints3, <<num(4), num(5), num(6)>>)), o(elem(arr, num(1), I32)),
     let("i", I32, castTo(pick, I32)), assign("+", elem(arr, id("i", I32), I32), callOf("f", IntSig, <<>>)),
     forEach("v", I32, arr, FALSE, P("k", I32), <<o(bin("+", id("v", I32), id("k", I32), I32))>>),
     forEach("p", Pointer(I32), arr, TRUE, NoIndex, <<assign("*", un("*", id("p", Pointer(I32)), I32), num(2))>>),
     o(callOf("sum", SumSig, <<arr>>)), o(member(arr, 2, I64)),
     let("s", Slice(I32), arrayOf(Slice(I32), <<num(1), num(2)>>)), o(callOf("sum", SumSig, <<id("s", Slice(I32))>>)),
     assign("=", elem(id("s", Slice(I32)), num(0), I32), num(7)), o(elem(id("s", Slice(I32)), id("i", I32), I32)),
     let("empty", Slice(I32), arrayOf(Slice(I32), <<>>)), o(member(id("empty", Slice(I32)), 2, I64)),
     try(<<o(elem(arr, bin("+", id("i", I32), num(2), I32), I32)), on(1)>>, <<on(2)>>),
     try(<<o(elem(arr, un("-", id("i", I32), I32), I32))>>, <<on(3)>>)>>)) @@
  ("f" :> Fn(<<>>, <<I32>>, <<on(10), ret(<<num(3)>>)>>)) @@ ("sum" :> Sum))
Defaults == Test(<<
  var("a", Pairs(2)), o(member(elem(id("a", Pairs(2)), num(1), Pair), 3, I64)),
  var("b", Pairs(5)), forEach("v", Pair, id("b", Pairs(5)), FALSE, NoIndex, <<In("v", Pair, 1), In("v", Pair, 2)>>),
  let("c", Array(OptInt, 2), arrayOf(Array(OptInt, 2), <<num(1), null>>)), o(none(elem(id("c", Array(OptInt, 2)), num(1), OptInt), num(6))),
  var("d", Array(I64, 9)), o(elem(id("d", Array(I64, 9)), num(8), I64)),
  \* A variable of a loop starts anew in each round
  forRange("i", I32, num(0), num(1), TRUE, <<var("e", Pair), In("e", Pair, 1), assign("=", member(id("e", Pair), 1, I32), num(9))>>)>>)
text(list) == [k |-> "str", text |-> list, type |-> StringType]
Strings == Test(<<
  let("s", StringType, text(<<3, 4, 5>>)), o(member(id("s", StringType), 2, I64)), o(elem(id("s", StringType), num(1), U8)),
  forEach("b", U8, id("s", StringType), FALSE, P("k", I32), <<o(bin("-", castTo(id("b", U8), I32), id("k", I32), I32))>>),
  if(eq(id("s", StringType), text(<<3, 4, 5>>)), <<on(1)>>), if(eq(id("s", StringType), text(<<3, 4>>)), <<on(2)>>),
  if(bin("!=", id("s", StringType), text(<<>>), Bool), <<on(3)>>),
  try(<<o(elem(id("s", StringType), castTo(bin("+", castTo(pick, I32), num(2), I32), I64), U8))>>, <<on(4)>>)>>)
Conversions == Test(<<
  let("a", I8, n(-3, I8)), let("b", U8, castTo(id("a", I8), U8)), o(id("a", I8)), o(id("b", U8)), o(castTo(id("b", U8), I32)),
  let("c", I32, num(21)), o(castTo(id("c", I32), I8)), o(castTo(un("-", id("c", I32), I32), U8)), o(un("~", id("b", U8), U8)),
  let("d", Bool, castTo(id("c", I32), Bool)), if(id("d", Bool), <<on(1)>>), if(id("c", I32), <<on(1)>>), o(bin("/", un("-", id("c", I32), I32), num(2), I32)),
  o(bin("%", un("-", id("c", I32), I32), num(4), I32)), o(bin("/", id("b", U8), n(2, U8), U8)), o(bin(">>", id("b", U8), n(1, U8), U8)),
  o(bin(">>", id("a", I8), n(1, I8), I8)), o(bin("<<", id("b", U8), n(1, U8), U8)), o(bin("&", id("c", I32), num(7), I32)),
  o(bin("|", id("c", I32), num(8), I32)), o(bin("^", id("c", I32), num(1), I32)), o(bin("*", id("b", U8), id("b", U8), U8)),
  if(bin("<", id("a", I8), n(1, UntypedInt), Bool), <<on(2)>>), if(bin(">", id("b", U8), n(7, UntypedInt), Bool), <<on(3)>>),
  let("e", Color, [k |-> "enum", v |-> 2, type |-> Color]), if(bin(">=", id("e", Color), [k |-> "enum", v |-> 2, type |-> Color], Bool), <<on(4)>>),
  o(castTo(id("e", Color), I32)), o([k |-> "sizeof", of |-> Pair, type |-> I64]),
  let("f", AnyType, num(9)), o(castTo(id("f", AnyType), I32)), let("g", AnyType, castTo(structOf(Pair, <<>>), AnyType)),
  let("h", Pair, castTo(id("g", AnyType), Pair)), In("h", Pair, 3),
  let("p", Pointer(I32), un("&", id("c", I32), Pointer(I32))), assign("-", un("*", id("p", Pointer(I32)), I32), num(20)), o(id("c", I32)),
  assign("=", id("p", Pointer(I32)), null), if(eq(id("p", Pointer(I32)), null), <<on(5)>>), if(not(id("p", Pointer(I32))), <<on(6)>>),
  do(callOf("out", OutSig, <<num(7), id("a", I8), id("b", U8)>>)),
  [k |-> "assert", e |-> bin("<=", id("c", I32), num(1), Bool)], try(<<[k |-> "assert", e |-> eq(id("c", I32), num(2))]>>, <<on(8)>>)>>)
VoidSig == Sig(<<>>, <<>>, FALSE)
fv == id("v", Function(VoidSig))
\* ping is a function of C: what it leaves in the flag's register is not an error.
FunctionValues == Simple(
  ("main" :> Main(<<
     let("v", Function(VoidSig), fnValue("f", VoidSig)), try(<<do(callValue(fv, VoidSig, <<>>)), on(1)>>, <<on(2)>>),
     assign("=", fv, fnValue("ping", VoidSig)), do(callValue(fv, VoidSig, <<>>)), on(3),
     do(callOf("ping", Sig(<<>>, <<>>, TRUE), <<>>)),
     do(callOf("twice", Sig(<<P("c", Function(VoidSig))>>, <<>>, FALSE), <<fv>>))>>)) @@
  ("f" :> Fn(<<>>, <<>>, <<if(pick, <<throw(err)>>)>>)) @@
  ("twice" :> Fn(<<P("c", Function(VoidSig))>>, <<>>, <<do(callValue(id("c", Function(VoidSig)), VoidSig, <<>>)), on(4)>>)))
switch(id_, type, list) == [k |-> "switch", id |-> id_, type |-> type, block |-> list]
arm(owner, type, e) == [k |-> "arm", owner |-> owner, type |-> type, e |-> e]
cases(type, y, z) == switch("s", type, <<ifElse(pick, <<arm("s", type, y)>>, <<arm("s", type, z)>>)>>)
hSig == Sig(<<>>, <<I32>>, FALSE)
Switches == Simple(
  ("main" :> Main(<<
     let("a", I32, cases(I32, num(3), callOf("h", hSig, <<>>))), o(id("a", I32)),
     let("b", OptInt, cases(OptInt, num(6), null)), o(none(oi("b"), num(2)))>>)) @@
  ("h" :> Fn(<<>>, <<I32>>, <<if(pick, <<throw(err)>>), ret(<<num(7)>>)>>)))
inside_(type) == [k |-> "inside", type |-> type]
opChain(e, pointer, within, inner, type) ==
  [k |-> "chain", e |-> e, pointer |-> pointer, inside |-> within, inner |-> inner, type |-> type]
PtrPair == Pointer(Pair)
Chains == Test(<<
  var("a", OptPair), if(pick, <<assign("=", id("a", OptPair), structOf(Pair, <<init(1, num(2))>>))>>),
  o(none(opChain(id("a", OptPair), FALSE, Pair, member(inside_(Pair), 1, I32), OptInt), num(8))),
  var("p", PtrPair), if(pick, <<var("c", Pair), assign("=", id("p", PtrPair), un("&", id("c", Pair), PtrPair))>>),
  o(none(opChain(id("p", PtrPair), TRUE, PtrPair, member(inside_(PtrPair), 1, I32), OptInt), num(9))),
  do(opChain(id("a", OptPair), FALSE, Pair, callOf("out", OutSig, <<member(inside_(Pair), 1, I32)>>), Void))>>)
TwoSig == Sig(<<>>, <<I32, Pair>>, FALSE)
FailSig == Sig(<<>>, <<I32, ErrorType>>, FALSE)
Results == Simple(
  ("main" :> Main(<<
     [k |-> "decl", names |-> <<P("a", I64), P("b", Pair)>>, values |-> <<callOf("two", TwoSig, <<>>)>>], o(id("a", I64)), In("b", Pair, 2),
     [k |-> "decl", names |-> <<P("c", I32), P("d", Pair)>>, values |-> <<callOf("pass", TwoSig, <<>>)>>], In("d", Pair, 3),
     [k |-> "decl", names |-> <<P("e", I32), P("f", I8)>>, values |-> <<num(2), n(1, I8)>>], o(id("f", I8)),
     try(<<o([callOf("fail", FailSig, <<>>) EXCEPT !.throws = TRUE]), on(2)>>, <<on(3)>>),
     o(callOf("late", IntSig, <<>>))>>)) @@
  ("two" :> Fn(<<>>, <<I32, Pair>>, <<ret(<<num(1), structOf(Pair, <<init(2, n(4, I8))>>)>>)>>)) @@
  ("pass" :> Fn(<<>>, <<I32, Pair>>, <<defer(on(6)), [k |-> "return", values |-> <<callOf("two", TwoSig, <<>>)>>, tuple |-> TRUE]>>)) @@
  ("fail" :> Fn(<<>>, <<I32, ErrorType>>, <<if(pick, <<ret(<<num(4), err>>)>>), ret(<<num(5), null>>)>>)) @@
  \* What is returned is evaluated before the defers run
  ("late" :> Fn(<<>>, <<I32>>, <<let("x", I32, num(1)), defer(assign("=", x, num(2))), ret(<<x>>)>>)))
says(v) == callOf("b", Sig(<<P("m", I32), P("g", Bool)>>, <<Bool>>, FALSE), <<num(v), pick>>)
both(op, y, z) == bin(op, y, z, Bool)
Logic == Simple(
  ("main" :> Main(<<
     let("a", Bool, both("&&", says(1), both("||", says(2), not(says(3))))), if(id("a", Bool), <<on(4)>>),
     [k |-> "if", arms |-> <<[e |-> both("||", not(both("&&", says(5), says(6))), id("a", Bool)), block |-> <<on(7)>>],
                             [e |-> says(8), block |-> <<on(9)>>]>>, rest |-> <<on(10)>>]>>)) @@
  ("b" :> Fn(<<P("m", I32), P("g", Bool)>>, <<Bool>>, <<o(id("m", I32)), ret(<<id("g", Bool)>>)>>)))
while(x_, e, list) == [k |-> "while", id |-> x_, e |-> e, block |-> list]
forever(x_, list) == [k |-> "for", over |-> "forever", id |-> x_, block |-> list]
Loops == Simple(
  ("main" :> Main(<<
     let("x", I32, num(0)), while("w", bin("<", x, num(3), Bool), <<assign("+", x, num(1)), if(eq(x, num(2)), <<leave("w", FALSE)>>), o(x)>>),
     forever("r", <<assign("-", x, num(1)), defer(o(x)), if(eq(x, num(0)), <<leave("r", TRUE)>>)>>),
     [forRange("i", U8, n(0, U8), n(2, U8), FALSE, <<
        forRange("j", I32, num(1), num(3), TRUE, <<
          defer(on(7)), if(eq(id("j", I32), num(2)), <<leave("i", TRUE)>>), o(id("j", I32))>>),
        on(8)>>) EXCEPT !.index = P("m", I64)],
     forEach("k", I32, arrayOf(Ints3, <<num(1), num(2), num(3)>>), FALSE, NoIndex, <<
       if(eq(id("k", I32), num(1)), <<leave("k", FALSE)>>), if(pick, <<leave("k", TRUE)>>), o(id("k", I32))>>),
     o(callOf("f", Sig(<<P("d", I32)>>, <<I32>>, FALSE), <<num(2)>>))>>)) @@
  \* A return out of two loops, with a defer in each, and a recursive call
  ("f" :> Fn(<<P("d", I32)>>, <<I32>>, <<
     if(eq(id("d", I32), num(0)), <<ret(<<num(3)>>)>>),
     forever("g", <<defer(on(5)), while("h", n(1, Bool), <<defer(on(6)),
       ret(<<bin("+", callOf("f", Sig(<<P("d", I32)>>, <<I32>>, FALSE), <<bin("-", id("d", I32), num(1), I32)>>), num(1), I32)>>)>>)>>)>>)))
\* Constants, global variables, and names that functions of C have too
GlobalData == Program(
  ("main" :> Main(<<
     o(id("K", I32)), In("S", Pair, 1), In("S", Pair, 3), o(elem(id("T", Ints3), num(2), I32)), o(id("K", I32)),
     do(callValue(id("F", Function(VoidSig)), VoidSig, <<>>)), o(elem(id("T", Ints3), castTo(pick, I32), I32)),
     o(id("g", I8)), assign("+", id("g", I8), n(1, I8)), do(callOf("f", VoidSig, <<>>)), In("h", Pair, 1), o(member(id("u", StringType), 2, I64)),
     o(member(elem(id("w", Pairs(2)), num(1), Pair), 1, I32)), o(id("t", I32)), do(callOf("f2", VoidSig, <<>>)), o(id("t", I32)),
     do(callOf("ping", Sig(<<>>, <<>>, TRUE), <<>>)), do(callOf("own", VoidSig, <<>>)), do(callOf("own2", VoidSig, <<>>))>>)) @@
  ("f" :> Fn(<<>>, <<>>, <<o(id("g", I8))>>)) @@
  ("f2" :> Fn(<<>>, <<>>, <<assign("*", id("t", I32), num(3))>>)) @@
  ("own" :> [Fn(<<>>, <<>>, <<on(1), do(callOf("own2", VoidSig, <<>>))>>) EXCEPT !.symbol = "ping"]) @@
  ("own2" :> [Fn(<<>>, <<>>, <<on(2)>>) EXCEPT !.symbol = "out"]),
  ("K" :> [type |-> I32, value |-> num(11)]) @@ ("F" :> [type |-> Function(VoidSig), value |-> fnValue("own", VoidSig)]) @@
  ("S" :> [type |-> Pair, value |-> structOf(Pair, <<init(1, id("K", I32)), init(3, un("-", n(2, I64), I64))>>)]) @@
  ("T" :> [type |-> Ints3, value |-> arrayOf(Ints3, <<num(1), num(2), num(3)>>)]),
  ("g" :> [type |-> I8, value |-> <<n(4, I8)>>]) @@ ("h" :> [type |-> Pair, value |-> <<>>]) @@ ("w" :> [type |-> Pairs(2), value |-> <<>>]) @@
  ("u" :> [type |-> StringType, value |-> <<text(<<7, 7>>)>>]),
  <<[n |-> "t", type |-> I32, value |-> <<num(2)>>], ThrownError>>, "")
Own2First == [GlobalData EXCEPT !.functions["main"].block = <<do(callOf("own", VoidSig, <<>>)), do(callOf("own2", VoidSig, <<>>))>> \o @]
\* Two threads that throw, each with its own error and its own t
TwoThreads == Program(
  ("main" :> Main(<<do(callOf("start", Sig(<<P("f", Pointer(Void))>>, <<>>, TRUE), <<castTo(fnValue("work", VoidSig), Pointer(Void))>>)),
                    try(<<throw(err)>>, <<if(IsErr, <<assign("+", id("t", I32), num(1)), o(id("t", I32))>>)>>)>>)) @@
  ("work" :> Fn(<<>>, <<>>, <<assign("=", id("t", I32), num(5)), defer(o(id("t", I32))), throw(other)>>)),
  <<>>, <<>>, <<[n |-> "t", type |-> I32, value |-> <<num(2)>>], ThrownError>>, "work")
Uncaught == Simple(("main" :> Main(<<defer(on(1)), callG, on(2)>>)) @@ ("g" :> GOf))

Others == {Optionals, Structs, Arrays, Defaults, Strings, Conversions, FunctionValues, Switches, Chains, Results, Logic, Loops,
           GlobalData, Own2First, TwoThreads, Uncaught}
TestPrograms == WaysOut \cup Others

\* ---- Where the code differs ----------------------------------------------------------
DeferInTry == {WayOut(ReturnsThroughTry)}
\* A deferred statement runs with only the defers below it active, e.g an error it throws doesn't run it again
\* (emit_defers): out(3) is the mark of the deferred call
DeferRunsOnce == Cardinality({i \in 1 .. Len(did[1]) : did[1][i] = [k |-> "out", n |-> 3]}) <= 1

\* A global variable and a constant of a struct literal that leaves members out
LiteralGlobals == {Program(
  ("main" :> Main(<<In("h", Pair, 1), In("S", Pair, 3)>>)),
  ("S" :> [type |-> Pair, value |-> structOf(Pair, <<init(1, num(2))>>)]),
  ("h" :> [type |-> Pair, value |-> <<structOf(Pair, <<init(2, n(4, I8))>>)>>]), <<ThrownError>>, "")}
=============================================================================
