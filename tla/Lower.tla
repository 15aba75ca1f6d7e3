-------------------------------- MODULE Lower --------------------------------
(***************************************************************************)
(* The lowering of a typed program to the IR (ir_lower.c).  An operator    *)
(* has the name of its function.  The Lowerer is the record L that each    *)
(* takes and gives back; the result of an operator is in L.r: a vreg, an   *)
(* address or a value.                                                     *)
(*                                                                         *)
(* The program is the tree the typer leaves: expressions and statements    *)
(* are records of a kind k; identifiers have different names when they are *)
(* different variables.  Floats, source lines, alignments of slots, and    *)
(* the reports of what the backend does not implement are left out.        *)
(***************************************************************************)
EXTENDS Ir

\* ---- Types -------------------------------------------------------------
Void == [name |-> "void", k |-> "void", size |-> 0]
Bool == [name |-> "bool", k |-> "bool", size |-> 1]
Integer(name, size, signed) == [name |-> name, k |-> "int", size |-> size, signed |-> signed, untyped |-> FALSE]
I8 == Integer("i8", 1, TRUE)
U8 == Integer("u8", 1, FALSE)
I32 == Integer("int", 4, TRUE)
U32 == Integer("u32", 4, FALSE)
I64 == Integer("i64", 8, TRUE)
UntypedInt == [I32 EXCEPT !.name = "untyped", !.untyped = TRUE]
Pointer(to) == [name |-> "*" \o to.name, k |-> "ptr", size |-> 8, to |-> to]
Function(sig) == [name |-> "fn", k |-> "fn", size |-> 8, sig |-> sig]
Null == [name |-> "null", k |-> "null", size |-> 8]
ErrorType == [name |-> "error", k |-> "ptr", size |-> 8, to |-> Void]
AnyType == [name |-> "any", k |-> "any", size |-> 16]
StringType == [name |-> "string", k |-> "string", size |-> 16]
Array(elem, n) == [name |-> "[]" \o elem.name, k |-> "array", size |-> n * elem.size, elem |-> elem, n |-> n]
Slice(elem) == [name |-> "[..]" \o elem.name, k |-> "slice", size |-> 16, elem |-> elem]

same(s, t) == s.name = t.name
type_is_aggregate(t) == t.k \in {"struct", "string", "array", "slice", "any"}
is_fixed_array(t) == t.k = "array"
enum_backing_type(t) == IF t.k = "enum" THEN t.backing ELSE t
type_is_signed(t) == LET s == enum_backing_type(t) IN s.k = "int" /\ (s.untyped \/ s.signed)
ir_type_of(t) ==
  LET s == enum_backing_type(t) IN
  CASE s.k = "bool" -> "i8"
    [] s.k = "int" -> IF s.untyped THEN "i64" ELSE int_ir_type_of_size(s.size)
    [] s.k \in {"ptr", "fn", "null"} -> "ptr"
    [] OTHER -> "void"
least(x, y) == IF x < y THEN x ELSE y
most(x, y) == IF x > y THEN x ELSE y
RECURSIVE type_alignment(_)
type_alignment(t) ==
  CASE t.k = "struct" -> IF t.align > 0 THEN t.align ELSE 8
    [] t.k \in {"string", "any", "slice"} -> 8
    [] t.k = "array" -> type_alignment(t.elem)
    [] OTHER -> most(1, least(8, t.size))
is_optional_type(t) == t.k = "struct" /\ t.optional
optional_inner_type(t) == t.members[1].type
optional_present_offset(t) == t.members[2].off

classify_argument(t) ==
  CASE ~type_is_aggregate(t) -> "scalar"
    [] t.size \in {1, 2, 4, 8} -> "value"
    [] OTHER -> "reference"
ir_param_type(t) ==
  CASE classify_argument(t) = "scalar" -> ir_type_of(t)
    [] classify_argument(t) = "value" -> int_ir_type_of_size(t.size)
    [] OTHER -> "ptr"
type_storage_size(t) == IF type_is_aggregate(t) THEN t.size ELSE most(t.size, ir_type_size(ir_type_of(t)))

\* A *Outer as a *Inner that it embeds
RECURSIVE embedded_offset(_, _)
embedded_offset(outer, inner) ==
  LET m == {i \in 1 .. Len(outer.members) :
              outer.members[i].embedded /\ (same(outer.members[i].type, inner) \/ embedded_offset(outer.members[i].type, inner) >= 0)}
      i == CHOOSE j \in m : \A l \in m : j <= l
  IN  IF m = {} THEN -1
      ELSE outer.members[i].off + (IF same(outer.members[i].type, inner) THEN 0 ELSE embedded_offset(outer.members[i].type, inner))

\* ---- Emission -----------------------------------------------------------
give(L, r) == [L EXCEPT !.r = r]
push_inst(L, op, type, dst, args, x) ==
  [L EXCEPT !.func.blocks[L.block].insts =
     Append(@, [op |-> op, type |-> type, dst |-> dst, args |-> args, x |-> x])]
emit_with_dst(L, op, type, args, x) ==
  LET dst == Len(L.func.vregs) + 1
      M == [L EXCEPT !.func = ir_new_vreg(@, IF op = "icmp" THEN "i8" ELSE type), !.r = dst]
  IN  push_inst(M, op, type, dst, args, x)
emit_const(L, type, n) == emit_with_dst(L, "const", type, <<>>, n)
emit_load(L, type, addr) == emit_with_dst(L, "load", type, <<>>, addr)
emit_store(L, type, addr, v) == push_inst(L, "store", type, 0, <<v>>, addr)
emit_memcpy(L, dst, src, size) == IF size <= 0 THEN L ELSE push_inst(L, "memcpy", "void", 0, <<dst, src>>, size)
emit_memset(L, dst, size) == IF size <= 0 THEN L ELSE push_inst(L, "memset", "void", 0, <<dst>>, size)
emit_call(L, type, x, args) ==
  IF type = "void" THEN push_inst(L, "call", type, 0, args, x) ELSE emit_with_dst(L, "call", type, args, x)
\* op(a, n) and a cmp n, with a constant n
withConst(L, op, type, v, n, x) == LET C == emit_const(L, type, n) IN emit_with_dst(C, op, type, <<v, C.r>>, x)

terminated(L) == L.func.blocks[L.block].term.kind # "none"
set_block(L, b) ==
  [L EXCEPT !.block = b, !.func.layout = IF b \in Range(@) THEN @ ELSE Append(@, b)]
create_block(L) == LET f == ir_block_new(L.func) IN [L EXCEPT !.func = f, !.r = Len(f.blocks)]
\* As many new blocks as n: their ids are blockOf(L, 1) .. blockOf(L, n), where L is the Lowerer before
RECURSIVE create_blocks(_, _)
create_blocks(L, n) == IF n = 0 THEN L ELSE create_blocks(create_block(L), n - 1)
blockOf(L, i) == Len(L.func.blocks) + i
terminate(L, term) == IF terminated(L) THEN L ELSE [L EXCEPT !.func.blocks[L.block].term = term]
terminate_jmp(L, b) == terminate(L, [kind |-> "jmp", target |-> b])
terminate_br(L, cond, yes, no) == terminate(L, [kind |-> "br", cond |-> cond, target |-> yes, other |-> no])
terminate_ret(L, v) == terminate(L, [kind |-> "ret", value |-> v])
terminate_return(L, threw) ==
  IF terminated(L) THEN L ELSE LET C == emit_const(L, "i32", IF threw THEN 1 ELSE 0) IN terminate_ret(C, C.r)
start_unreachable_block(L) == LET C == create_block(L) IN set_block(C, C.r)

\* ---- Values and places --------------------------------------------------
value_none == [kind |-> "none", type |-> Void]
value_scalar(v, type) == [kind |-> "scalar", vreg |-> v, type |-> type]
value_place(addr, type) == [kind |-> "place", addr |-> addr, type |-> type, temporary |-> FALSE]
scalarOf(L, type) == give(L, value_scalar(L.r, type))
addr_slot(slot) == [kind |-> "slot", base |-> slot, off |-> 0]
addr_vreg(v) == [kind |-> "vreg", base |-> v, off |-> 0]
addr_global(g) == [kind |-> "global", base |-> g, off |-> 0]
addr_add(addr, n) == [addr EXCEPT !.off = @ + n]
newSlot(L, size) == LET f == ir_new_slot(L.func, size) IN [L EXCEPT !.func = f, !.r = Len(f.slots)]
temp_place(L, type) ==
  LET M == newSlot(L, type_storage_size(type))
  IN  give(M, [value_place(addr_slot(M.r), type) EXCEPT !.temporary = TRUE])
addr_to_ptr(L, addr) ==
  LET B == CASE addr.kind = "slot" -> emit_with_dst(L, "slot_addr", "ptr", <<>>, addr.base)
             [] addr.kind = "global" -> emit_with_dst(L, "global_addr", "ptr", <<>>, addr.base)
             [] addr.kind = "vreg" -> give(L, addr.base)
      C == emit_const(B, "i64", addr.off)
  IN  IF addr.off = 0 THEN B ELSE emit_with_dst(C, "ptradd", "ptr", <<B.r, C.r>>, 0)
value_to_scalar(L, value) ==
  IF value.kind = "scalar" THEN give(L, value.vreg) ELSE emit_load(L, ir_type_of(value.type), value.addr)
value_to_place(L, value) ==
  IF value.kind = "place" THEN give(L, value)
  ELSE LET T == temp_place(L, value.type)
       IN  emit_store(T, T.func.vregs[value.vreg], T.r.addr, value.vreg)

\* Mutant: the value itself is the condition, whatever its type
emit_to_boolAsIs(L, v, from) == give(L, v)
emit_to_bool(L, v, from) ==
  IF from.k = "bool" THEN give(L, v) ELSE withConst(L, "icmp", L.func.vregs[v], v, 0, "ne")
convert_scalar(L, v, from, to) ==
  LET src == L.func.vregs[v]
      dst == ir_type_of(to)
      Extend(M, u, type) == emit_with_dst(M, IF type_is_signed(from) THEN "sext" ELSE "zext", type, <<u>>, 0)
      embeds == /\ from.k = "ptr" /\ to.k = "ptr" /\ from.to.k = "struct" /\ to.to.k = "struct"
                /\ ~same(from.to, to.to) /\ embedded_offset(from.to, to.to) > 0
      C == emit_const(L, "i64", embedded_offset(from.to, to.to))
      AsInt == emit_with_dst(L, "bitcast", "i64", <<v>>, 0)
      Wide == IF src = "i64" THEN give(L, v) ELSE Extend(L, v, "i64")
  IN  CASE embeds -> emit_with_dst(C, "ptradd", "ptr", <<v, C.r>>, 0)
        [] to.k = "bool" /\ from.k # "bool" -> emit_to_bool(L, v, from)
        [] ~embeds /\ ~(to.k = "bool" /\ from.k # "bool") ->
             CASE src = dst -> give(L, v)
               [] ir_type_is_int(src) /\ ir_type_is_int(dst) /\ src # dst ->
                    IF ir_type_size(src) < ir_type_size(dst) THEN Extend(L, v, dst)
                    ELSE emit_with_dst(L, "trunc", dst, <<v>>, 0)
               [] src = "ptr" /\ ir_type_is_int(dst) ->
                    IF dst = "i64" THEN AsInt ELSE emit_with_dst(AsInt, "trunc", dst, <<AsInt.r>>, 0)
               [] ir_type_is_int(src) /\ dst = "ptr" -> emit_with_dst(Wide, "bitcast", "ptr", <<Wide.r>>, 0)

\* ---- The globals of the module -------------------------------------------
ir_global_new(L, kind, name) ==
  LET g == Len(L.globals) + 1
  IN  [L EXCEPT !.globals = Append(@, [kind |-> kind, name |-> name, data |-> <<>>, fn |-> "", saad |-> FALSE]),
                !.names = IF name \in DOMAIN @ THEN @ ELSE (name :> g) @@ @,
                !.r = g]
ir_global_data(L, size) ==
  LET M == ir_global_new(L, "data", "__data" \o ToString(Len(L.globals)))
  IN  [M EXCEPT !.globals[M.r].data = bytesOf(IntV(0), size)]
taken(L, name, n) == (IF n = 1 THEN name ELSE name \o "__" \o ToString(n)) \in DOMAIN L.names
ir_unique_name(L, name, from) ==
  LET n == CHOOSE i \in from .. Len(L.globals) + 2 : ~taken(L, name, i) /\ \A j \in from .. i - 1 : taken(L, name, j)
  IN  IF n = 1 THEN name ELSE name \o "__" \o ToString(n)
\* Mutant: a function of the program with the name of the C function is taken for it
ir_find_or_add_externShared(L, name) ==
  IF name \in DOMAIN L.names THEN give(L, L.names[name]) ELSE ir_global_new(L, "extern", name)
\* A C function. A function of the program with its name gets another
ir_find_or_add_extern(L, name) ==
  LET g == L.names[name]
      unique == ir_unique_name(L, name, 2)
      N == ir_global_new(L, "extern", name)
  IN  CASE name \notin DOMAIN L.names -> ir_global_new(L, "extern", name)
        [] name \in DOMAIN L.names /\ ~L.globals[g].saad -> give(L, g)
        [] name \in DOMAIN L.names /\ L.globals[g].saad ->
             [N EXCEPT !.names = (unique :> g) @@ [@ EXCEPT ![name] = N.r], !.globals[g].name = unique]
\* The symbol of a function. One of the program is queued for lowering the first time it is referred to
function_global(L, f) ==
  LET defn == L.prog.functions[f]
      E == ir_find_or_add_extern(L, defn.symbol)
      N == ir_global_new(L, "extern", ir_unique_name(L, defn.symbol, 1))
      g == IF defn.extern THEN E.r ELSE N.r
      M == IF defn.extern THEN [E EXCEPT !.globals[g].fn = f]
           ELSE [N EXCEPT !.globals[g].saad = TRUE, !.globals[g].fn = f, !.pending = Append(@, f)]
  IN  IF f \in DOMAIN L.queued THEN give(L, L.queued[f])
      ELSE [M EXCEPT !.queued = (f :> g) @@ @, !.r = g]
function_address(L, f, type) ==
  LET G == function_global(L, f) IN scalarOf(emit_with_dst(G, "global_addr", "ptr", <<>>, G.r), type)

writeBytes(L, g, off, bytes) == [L EXCEPT !.globals[g].data = replaceAt(@, off, bytes)]
write_int_bytes(L, g, off, n, size) ==
  writeBytes(L, g, off, bytesOf(IntV(wrap(int_ir_type_of_size(size), n)), size))
reloc(L, g, off, target) == writeBytes(L, g, off, bytesOf(PtrV(<<0, target>>, 0), 8))
string_data_global(L, text) ==
  LET D == ir_global_data(L, Len(text) + 1)
  IN  [D EXCEPT !.globals[D.r].data =
         [i \in 1 .. Len(text) + 1 |-> bytesOf(IntV(IF i > Len(text) THEN 0 ELSE text[i]), 1)[1]]]
string_global(L, text) ==
  LET D == string_data_global(L, text)
      S == ir_global_data(D, 16)
  IN  write_int_bytes(reloc(S, S.r, 0, D.r), S.r, 8, Len(text), 8)

RECURSIVE write_constant(_, _, _, _, _)
RECURSIVE write_members(_, _, _, _, _)
RECURSIVE write_elements(_, _, _, _, _)
write_constant(L, g, off, e, type) ==
  LET D == string_data_global(L, e.text)
      F == function_global(L, e.fn)
      R == reloc(D, g, off, D.r)
  IN  CASE e.k \in {"lit", "enum"} -> write_int_bytes(L, g, off, e.v, enum_backing_type(type).size)
        [] e.k = "null" -> L
        [] e.k = "str" -> IF type.k = "string" THEN write_int_bytes(R, g, off + 8, Len(e.text), 8) ELSE R
        [] e.k = "id" -> write_constant(L, g, off, L.prog.constants[e.n].value, type)
        [] e.k = "un" -> write_int_bytes(L, g, off, -e.e.v, enum_backing_type(type).size)
        [] e.k = "cast" -> write_constant(L, g, off, e.e, type)
        [] e.k = "struct" -> write_members(L, g, off, e.inits, e.type)
        [] e.k = "array" -> write_elements(L, g, off, e.elems, type.elem)
        [] e.k = "fn" -> writeBytes(F, g, off, bytesOf(FnV(F.r), 8))
write_members(L, g, off, inits, type) ==
  IF inits = <<>> THEN L
  ELSE LET m == type.members[Head(inits).m]
       IN  write_members(write_constant(L, g, off + m.off, Head(inits).e, m.type), g, off, Tail(inits), type)
write_elements(L, g, off, elems, type) ==
  IF elems = <<>> THEN L
  ELSE write_elements(write_constant(L, g, off, Head(elems), type), g, off + type.size, Tail(elems), type)

\* A global of a constant, a variable or an enum's list, made once: Make(L) fills it in
cached(L, key) == key \in DOMAIN L.consts
remember(L, key, g) == [L EXCEPT !.consts = (key :> g) @@ @]
aggregate_constant_global(L, n) ==
  LET c == L.prog.constants[n]
      G == ir_global_data(L, c.type.size)
      W == write_constant(remember(G, n, G.r), G.r, 0, c.value, c.type)
  IN  IF cached(L, n) THEN give(L, L.consts[n]) ELSE give(W, G.r)

RECURSIVE write_default_constants(_, _, _, _)
RECURSIVE write_defaults_of(_, _, _, _)
write_default_constants(L, g, off, type) ==
  CASE type.k = "struct" -> write_defaults_of(L, g, off, type.members)
    [] type.k = "array" ->
         write_defaults_of(L, g, off, [i \in 1 .. type.n |->
           [off |-> (i - 1) * type.elem.size, type |-> type.elem, value |-> <<>>, embedded |-> FALSE]])
    [] OTHER -> L
write_defaults_of(L, g, off, members) ==
  IF members = <<>> THEN L
  ELSE LET m == Head(members)
           M == IF m.value # <<>> THEN write_constant(L, g, off + m.off, m.value[1], m.type)
                ELSE write_default_constants(L, g, off + m.off, m.type)
       IN  write_defaults_of(M, g, off, Tail(members))
startValue(L, g, off, variable) ==
  IF variable.value # <<>> THEN write_constant(L, g, off, variable.value[1], variable.type)
  ELSE write_default_constants(L, g, off, variable.type)
global_variable(L, n) ==
  LET v == L.prog.globals[n]
      G == ir_global_data(L, most(1, type_storage_size(v.type)))
  IN  IF cached(L, n) THEN give(L, L.consts[n]) ELSE give(startValue(remember(G, n, G.r), G.r, 0, v), G.r)

\* ---- @threadLocal globals ------------------------------------------------
RECURSIVE threadOffset(_, _)
threadOffset(locals, i) ==
  IF i = 1 THEN 0
  ELSE LET end == threadOffset(locals, i - 1) + type_storage_size(locals[i - 1].type)
           align == type_alignment(locals[i].type)
       IN  ((end + align - 1) \div align) * align
RECURSIVE threadStart(_, _, _, _)
threadStart(L, g, locals, i) ==
  IF i > Len(locals) THEN L ELSE threadStart(startValue(L, g, threadOffset(locals, i), locals[i]), g, locals, i + 1)
layout_thread_locals(L) ==
  LET locals == L.prog.threadLocals
      size == threadOffset(locals, Len(locals)) + type_storage_size(Last(locals).type)
      T == ir_global_data(L, size)
  IN  [threadStart(T, T.r, locals, 1) EXCEPT !.template = T.r, !.blockSize = size]
threadLocalIndex(L, n) == {i \in 1 .. Len(L.prog.threadLocals) : L.prog.threadLocals[i].n = n}

emit_errors_call(L, name, args, about) ==
  emit_call(L, "void", [kind |-> "errors", callee |-> name, about |-> about], args)
emit_lookup_thread_block(L) ==
  LET get(M) == emit_call(M, "ptr", [kind |-> "errors", callee |-> "pthread_getspecific", about |-> ""], <<>>)
      S == newSlot(L, 8)
      at == addr_slot(S.r)
      G == get(S)
      make == blockOf(L, 1)
      done == blockOf(L, 2)
      C == withConst(create_blocks(emit_store(G, "ptr", at, G.r), 2), "icmp", "ptr", G.r, 0, "eq")
      M == emit_errors_call(set_block(terminate_br(C, C.r, make, done), make), "newThreadBlock", <<>>, "")
      N == get(M)
  IN  emit_load(set_block(terminate_jmp(emit_store(N, "ptr", at, N.r), done), done), "ptr", at)
thread_block(L, rare) ==
  LET S == IF L.threadSlot > 0 THEN L ELSE LET N == newSlot(L, 8) IN [N EXCEPT !.threadSlot = N.r]
  IN  IF rare THEN emit_lookup_thread_block(L) ELSE emit_load(S, "ptr", addr_slot(S.threadSlot))
global_variable_addr_of(L, n, rare) ==
  LET i == threadLocalIndex(L, n)
      B == thread_block(L, rare)
      G == global_variable(L, n)
  IN  IF i = {} THEN give(G, addr_global(G.r))
      ELSE give(B, addr_add(addr_vreg(B.r), threadOffset(L.prog.threadLocals, CHOOSE x \in i : TRUE)))
thrown_error_addr(L) == global_variable_addr_of(L, "thrownError", TRUE)
loadThrown(L) == LET A == thrown_error_addr(L) IN emit_load(A, "ptr", A.r)
storeThrown(L, v) == LET A == thrown_error_addr(L) IN emit_store(A, "ptr", A.r, v)
clearThrown(L) == LET A == thrown_error_addr(L) C == emit_const(A, "ptr", 0) IN emit_store(C, "ptr", A.r, C.r)

\* ---- Zeroing, defaults and copies ----------------------------------------
RECURSIVE zeroFrom(_, _, _, _, _)
zeroFrom(L, addr, off, size, zeros) ==
  IF off >= size THEN L
  ELSE LET rest == size - off
           t == CASE rest >= 8 -> "i64" [] rest \in 4 .. 7 -> "i32" [] rest \in 2 .. 3 -> "i16" [] rest = 1 -> "i8"
           Z == IF t \in DOMAIN zeros THEN give(L, zeros[t]) ELSE emit_const(L, t, 0)
       IN  zeroFrom(emit_store(Z, t, addr_add(addr, off), Z.r), addr, off + ir_type_size(t), size, (t :> Z.r) @@ zeros)
emit_zero(L, addr, size) ==
  IF size > 64 THEN LET P == addr_to_ptr(L, addr) IN emit_memset(P, P.r, size) ELSE zeroFrom(L, addr, 0, size, <<>>)

RECURSIVE has_default_values(_)
has_default_values(type) ==
  CASE type.k = "struct" -> \E i \in 1 .. Len(type.members) :
                              type.members[i].value # <<>> \/ has_default_values(type.members[i].type)
    [] type.k = "array" -> has_default_values(type.elem)
    [] OTHER -> FALSE

RECURSIVE lower_expr(_, _), store_expr(_, _, _, _, _), lower_scalar_as(_, _, _), lower_condition(_, _, _, _)
RECURSIVE lower_block(_, _), lower_statement(_, _), store_value(_, _, _, _), lower_call(_, _), emit_unwind(_)
RECURSIVE emit_default_values(_, _, _), defaultMembers(_, _, _, _)
\* The defaults of the members of a struct that are not in 'given'
defaultMembers(L, addr, members, given) ==
  IF members = <<>> THEN L
  ELSE LET i == Len(members)
           m == Last(members)
           M == defaultMembers(L, addr, Front(members), given)
       IN  CASE i \in given -> M
             [] i \notin given /\ m.value # <<>> -> store_expr(M, addr_add(addr, m.off), m.type, m.value[1], TRUE)
             [] i \notin given /\ m.value = <<>> -> emit_default_values(M, addr_add(addr, m.off), m.type)
UnrolledElements == 4
RECURSIVE unrolled(_, _, _, _)
unrolled(L, addr, type, i) ==
  IF i = type.n THEN L
  ELSE unrolled(emit_default_values(L, addr_add(addr, i * type.elem.size), type.elem), addr, type, i + 1)
elementLoop(L, addr, type) ==
  LET P == addr_to_ptr(L, addr)
      S == newSlot(P, 8)
      at == addr_slot(S.r)
      C == emit_const(S, "i64", 0)
      B == create_blocks(emit_store(C, "i64", at, C.r), 3)
      I == emit_load(set_block(terminate_jmp(B, blockOf(C, 1)), blockOf(C, 1)), "i64", at)
      T == withConst(I, "icmp", "i64", I.r, type.n, "slt")
      O == withConst(set_block(terminate_br(T, T.r, blockOf(C, 2), blockOf(C, 3)), blockOf(C, 2)), "mul", "i64", I.r, type.elem.size, 0)
      E == emit_with_dst(O, "ptradd", "ptr", <<P.r, O.r>>, 0)
      N == withConst(emit_default_values(E, addr_vreg(E.r), type.elem), "add", "i64", I.r, 1, 0)
  IN  set_block(terminate_jmp(emit_store(N, "i64", at, N.r), blockOf(C, 1)), blockOf(C, 3))
emit_default_values(L, addr, type) ==
  CASE ~has_default_values(type) -> L
    [] has_default_values(type) /\ type.k = "struct" -> defaultMembers(L, addr, type.members, {})
    [] has_default_values(type) /\ type.k = "array" ->
         IF type.n <= UnrolledElements THEN unrolled(L, addr, type, 0) ELSE elementLoop(L, addr, type)
\* Mutant: what has no default keeps what was in the slot
emit_default_initOver(L, addr, type) == emit_default_values(L, addr, type)
emit_default_init(L, addr, type) == emit_default_values(emit_zero(L, addr, type_storage_size(type)), addr, type)

copy_aggregate(L, dst, src, size) ==
  LET P == value_to_place(L, src)
      small == int_ir_type_of_size(size)
      V == emit_load(P, small, P.r.addr)
      D == addr_to_ptr(P, dst)
      S == addr_to_ptr(D, P.r.addr)
  IN  CASE size <= 0 -> P
        [] small # "void" -> emit_store(V, small, dst, V.r)
        [] size > 0 /\ small = "void" -> emit_memcpy(S, D.r, S.r, size)

wrap_in_optional(L, value, type) ==
  LET T == temp_place(L, type)
      Z == emit_zero(T, T.r.addr, type_storage_size(type))
      V == store_value(Z, T.r.addr, optional_inner_type(type), value)
      C == emit_const(V, "i8", 1)
  IN  give(IF value.type.k = "null" THEN Z
           ELSE emit_store(C, "i8", addr_add(T.r.addr, optional_present_offset(type)), C.r), T.r)
\* A descriptor of each type, made once
type_info_global(L, type) ==
  LET key == "typeinfo " \o type.name
      G == ir_global_data(L, 16)
  IN  IF cached(L, key) THEN give(L, L.consts[key]) ELSE give(remember(G, key, G.r), G.r)
box_to_any(L, value) ==
  LET B == temp_place(L, value.type)
      P == store_value(B, B.r.addr, value.type, value)
      D == addr_to_ptr(P, B.r.addr)
      G == type_info_global(D, value.type)
      I == emit_with_dst(G, "global_addr", "ptr", <<>>, G.r)
      T == temp_place(I, AnyType)
  IN  give(emit_store(emit_store(T, "ptr", T.r.addr, D.r), "ptr", addr_add(T.r.addr, 8), I.r), T.r)
unbox_any(L, value, to) ==
  LET P == value_to_place(L, value)
      D == emit_load(P, "ptr", P.r.addr)
  IN  give(D, value_place(addr_vreg(D.r), to))
fixedToSlice(L, value, to) ==
  LET S == temp_place(L, to)
      D == addr_to_ptr(S, value.addr)
      C == emit_const(emit_store(D, "ptr", S.r.addr, D.r), "i64", value.type.n)
  IN  give(emit_store(C, "i64", addr_add(S.r.addr, 8), C.r), S.r)
convert_aggregate(L, value, to) ==
  LET from == value.type
      P == value_to_place(L, value)
  IN  CASE same(from, to) -> give(L, value)
        [] ~same(from, to) /\ is_optional_type(to) /\ ~is_optional_type(from) -> wrap_in_optional(L, value, to)
        [] to.k = "slice" /\ from.k = "array" -> fixedToSlice(P, P.r, to)
        [] to.k = "any" /\ from.k # "any" -> box_to_any(P, P.r)
        [] from.k = "any" /\ to.k # "any" -> unbox_any(P, P.r, to)
        [] OTHER -> give(P, [P.r EXCEPT !.type = to])
store_value(L, dst, type, src) ==
  LET S == value_to_scalar(L, src)
      V == convert_scalar(S, S.r, src.type, type)
      A == convert_aggregate(L, src, type)
  IN  IF type_is_aggregate(type) THEN copy_aggregate(A, dst, A.r, type.size)
      ELSE emit_store(V, ir_type_of(type), dst, V.r)

\* ---- Literals ---------------------------------------------------------------
RECURSIVE storeMembers(_, _, _, _), storeElements(_, _, _, _)
storeMembers(L, dst, inits, type) ==
  IF inits = <<>> THEN L
  ELSE LET m == type.members[Head(inits).m]
       IN  storeMembers(store_expr(L, addr_add(dst, m.off), m.type, Head(inits).e, TRUE), dst, Tail(inits), type)
lower_struct_literal_into(L, e, dst) ==
  LET Z == emit_zero(L, dst, e.type.size)
      D == defaultMembers(Z, dst, e.type.members, {e.inits[i].m : i \in 1 .. Len(e.inits)})
  IN  storeMembers(D, dst, e.inits, e.type)
storeElements(L, dst, elems, type) ==
  IF elems = <<>> THEN L
  ELSE storeElements(store_expr(L, dst, type, Head(elems), TRUE), addr_add(dst, type.size), Tail(elems), type)
lower_array_literal_into(L, e, dst) ==
  LET n == Len(e.elems)
      B == newSlot(L, n * e.type.elem.size)
      D == IF n = 0 THEN emit_const(L, "ptr", 0)
           ELSE emit_with_dst(storeElements(B, addr_slot(B.r), e.elems, e.type.elem), "slot_addr", "ptr", <<>>, B.r)
      C == emit_const(emit_store(D, "ptr", dst, D.r), "i64", n)
  IN  IF e.type.k = "array" THEN storeElements(emit_zero(L, dst, e.type.size), dst, e.elems, e.type.elem)
      ELSE emit_store(C, "i64", addr_add(dst, 8), C.r)
literalInto(L, e, dst) ==
  IF e.k = "struct" THEN lower_struct_literal_into(L, e, dst) ELSE lower_array_literal_into(L, e, dst)
lowersInto(e, type) == same(e.type, type) /\ e.k \in {"struct", "array"}
store_expr(L, dst, type, e, fresh) ==
  LET S == lower_scalar_as(L, e, type)
      V == lower_expr(L, e)
  IN  CASE ~type_is_aggregate(type) -> emit_store(S, ir_type_of(type), dst, S.r)
        [] type_is_aggregate(type) /\ fresh /\ lowersInto(e, type) -> literalInto(L, e, dst)
        [] type_is_aggregate(type) /\ ~(fresh /\ lowersInto(e, type)) -> store_value(V, dst, type, V.r)
lower_literal(L, e) ==
  LET G == string_global(L, e.text)
      D == string_data_global(L, e.text)
  IN  CASE e.k \in {"lit", "enum"} -> scalarOf(emit_const(L, ir_type_of(e.type), e.v), e.type)
        [] e.k = "null" -> scalarOf(emit_const(L, "ptr", 0), e.type)
        [] e.k = "str" ->
             IF e.type.k = "string" THEN give(G, value_place(addr_global(G.r), e.type))
             ELSE scalarOf(emit_with_dst(D, "global_addr", "ptr", <<>>, D.r), e.type)

\* ---- Identifiers, members and elements --------------------------------------
lower_place(L, e) == LET V == lower_expr(L, e) IN value_to_place(V, V.r)
lower_constant(L, n) ==
  LET c == L.prog.constants[n]
      G == aggregate_constant_global(L, n)
      S == lower_scalar_as(L, c.value, c.value.type)
  IN  CASE c.value.k = "fn" -> function_address(L, c.value.fn, c.type)
        [] c.value.k # "fn" /\ type_is_aggregate(c.type) -> give(G, value_place(addr_global(G.r), c.type))
        [] c.value.k # "fn" /\ ~type_is_aggregate(c.type) -> scalarOf(S, c.value.type)
lower_identifier(L, e) ==
  LET A == global_variable_addr_of(L, e.n, FALSE) IN
  CASE e.n \in DOMAIN L.prog.constants -> lower_constant(L, e.n)
    [] e.n \in DOMAIN L.prog.globals \/ threadLocalIndex(L, e.n) # {} -> give(A, value_place(A.r, e.type))
    [] e.n \in DOMAIN L.locals -> give(L, value_place(addr_slot(L.locals[e.n]), e.type))
member_base(L, e) ==
  LET V == lower_expr(L, e)
      P == value_to_scalar(V, V.r)
      W == value_to_place(V, V.r)
  IN  IF e.type.k = "ptr" THEN give(P, addr_vreg(P.r)) ELSE give(W, W.r.addr)
lower_member_access(L, e) ==
  LET B == member_base(L, e.e)
      W == lower_place(L, e.e)
      struct == IF e.e.type.k = "ptr" THEN e.e.type.to ELSE e.e.type
  IN  CASE is_fixed_array(e.e.type) /\ e.m = 1 -> scalarOf(addr_to_ptr(W, W.r.addr), e.type)
        [] is_fixed_array(e.e.type) /\ e.m = 2 -> scalarOf(emit_const(L, ir_type_of(e.type), e.e.type.n), e.type)
        [] struct.k \in {"slice", "string"} -> give(B, value_place(addr_add(B.r, (e.m - 1) * 8), e.type))
        [] struct.k = "struct" -> give(B, value_place(addr_add(B.r, struct.members[e.m].off), e.type))

\* Adds the function to the trace of the error that is being thrown
emit_trace_frame(L) == emit_errors_call(L, "traceThrow", <<>>, L.fn)
\* Throws a Panic in the block b, and goes on in the block after it
panicIn(L, b, name, args, after) ==
  set_block(emit_unwind(emit_trace_frame(emit_errors_call(set_block(L, b), name, args, ""))), after)

array_access_addr(L, e) ==
  LET left == e.e.type
      W == lower_place(L, e.e)
      V == lower_expr(L, e.e)
      \* The data pointer, and the vreg of the count: 0 for a pointer, which has none
      D == CASE left.k = "ptr" -> value_to_scalar(V, V.r)
             [] is_fixed_array(left) -> addr_to_ptr(W, W.r.addr)
             [] OTHER -> emit_load(W, "ptr", W.r.addr)
      C == CASE left.k = "ptr" -> give(D, 0)
             [] is_fixed_array(left) -> emit_const(D, "i64", left.n)
             [] OTHER -> emit_load(D, "i64", addr_add(W.r.addr, 8))
      I == lower_scalar_as(C, e.i, I64)
      B == create_blocks(I, 2)
      T == emit_with_dst(B, "icmp", "i64", <<I.r, C.r>>, "ult")
      J == terminate_br(T, T.r, blockOf(I, 2), blockOf(I, 1))
      K == IF C.r = 0 THEN I ELSE panicIn(J, blockOf(I, 1), "panicIndexOutOfBounds", <<I.r, C.r>>, blockOf(I, 2))
      O == withConst(K, "mul", "i64", I.r, e.type.size, 0)
      A == emit_with_dst(O, "ptradd", "ptr", <<D.r, O.r>>, 0)
  IN  IF is_fixed_array(left) /\ e.i.k = "lit" THEN give(W, addr_add(W.r.addr, e.i.v * e.type.size))
      ELSE give(A, addr_vreg(A.r))

\* ---- Operators ----------------------------------------------------------------
emit_arithmetic(L, op, type, x, y) ==
  LET t == ir_type_of(type)
      signed == type_is_signed(type)
      Z == withConst(create_blocks(L, 2), "icmp", t, y, 0, "eq")
      D == panicIn(terminate_br(Z, Z.r, blockOf(L, 1), blockOf(L, 2)), blockOf(L, 1), "panicDivisionByZero", <<>>, blockOf(L, 2))
      name == CASE op = "+" -> "add" [] op = "-" -> "sub" [] op = "*" -> "mul"
                [] op = "/" -> IF signed THEN "sdiv" ELSE "udiv"
                [] op = "%" -> IF signed THEN "srem" ELSE "urem"
                [] op = "&" -> "and" [] op = "|" -> "or" [] op = "^" -> "xor" [] op = "<<" -> "shl"
                [] op = ">>" -> IF signed THEN "ashr" ELSE "lshr"
  IN  emit_with_dst(IF op \in {"/", "%"} THEN D ELSE L, name, t, <<x, y>>, 0)

Comparisons == {"==", "!=", "<", "<=", ">", ">="}
comparison_type(left, right) ==
  LET l == enum_backing_type(left)
      r == enum_backing_type(right)
  IN  IF l.k = "int" /\ r.k = "int"
      THEN CASE l.untyped -> right
             [] ~l.untyped /\ r.untyped -> left
             [] ~l.untyped /\ ~r.untyped -> IF l.size >= r.size THEN left ELSE right
      ELSE left
comparison_predicate(op, signed) ==
  CASE op = "==" -> "eq" [] op = "!=" -> "ne"
    [] op = "<" -> IF signed THEN "slt" ELSE "ult" [] op = "<=" -> IF signed THEN "sle" ELSE "ule"
    [] op = ">" -> IF signed THEN "sgt" ELSE "ugt" [] op = ">=" -> IF signed THEN "sge" ELSE "uge"
invert(L, v) == withConst(L, "xor", "i8", v, 1, 0)
negatedIf(L, op) == IF op = "!=" THEN invert(L, L.r) ELSE L

compareStrings(L, x, y, cmp) ==
  LET A == addr_to_ptr(L, x)
      B == addr_to_ptr(A, y)
      C == emit_call(B, "i32", [kind |-> "errors", callee |-> "runtime_compare_strings", about |-> ""], <<A.r, B.r>>)
  IN  withConst(C, "icmp", "i32", C.r, 0, cmp)
RECURSIVE emit_values_equal(_, _, _, _), membersEqual(_, _, _, _, _)
emit_values_equal(L, x, y, type) ==
  LET C == emit_const(L, "i8", 1)
      t == ir_type_of(type)
      A == emit_load(L, t, x)
      B == emit_load(A, t, y)
  IN  CASE type.k = "struct" -> membersEqual(C, x, y, type.members, C.r)
        [] type.k = "string" -> compareStrings(L, x, y, "eq")
        [] t # "void" -> emit_with_dst(B, "icmp", t, <<A.r, B.r>>, "eq")
membersEqual(L, x, y, members, soFar) ==
  IF members = <<>> THEN give(L, soFar)
  ELSE LET m == Head(members)
           E == emit_values_equal(L, addr_add(x, m.off), addr_add(y, m.off), m.type)
           R == emit_with_dst(E, "and", "i8", <<soFar, E.r>>, 0)
       IN  membersEqual(R, x, y, Tail(members), R.r)
compareOptional(L, e) ==
  LET optional == IF is_optional_type(e.l.type) THEN e.l ELSE e.r
      other == IF is_optional_type(e.l.type) THEN e.r ELSE e.l
      A == lower_place(L, optional)
      P == emit_load(A, "i8", addr_add(A.r.addr, optional_present_offset(optional.type)))
      O == lower_expr(A, other)
      K == convert_aggregate(O, O.r, optional.type)
      B == value_to_place(K, K.r)
  IN  negatedIf(IF other.type.k = "null" THEN invert(P, P.r)
                ELSE emit_values_equal(B, A.r.addr, B.r.addr, optional.type), e.op)
lower_comparison(L, e) ==
  LET A == lower_place(L, e.l)
      B == lower_place(A, e.r)
      type == comparison_type(e.l.type, e.r.type)
      X == lower_scalar_as(L, e.l, type)
      Y == lower_scalar_as(X, e.r, type)
      either == is_optional_type(e.l.type) \/ is_optional_type(e.r.type)
  IN  CASE either -> compareOptional(L, e)
        [] ~either /\ e.l.type.k = "struct" -> negatedIf(emit_values_equal(B, A.r.addr, B.r.addr, e.l.type), e.op)
        [] e.l.type.k = "string" -> compareStrings(B, A.r.addr, B.r.addr, comparison_predicate(e.op, TRUE))
        [] OTHER -> emit_with_dst(Y, "icmp", ir_type_of(type), <<X.r, Y.r>>, comparison_predicate(e.op, type_is_signed(type)))

\* && and || as a value
lower_logical_value(L, e) ==
  LET S == newSlot(L, 1)
      at == addr_slot(S.r)
      C == lower_condition(create_blocks(S, 3), e, blockOf(L, 1), blockOf(L, 2))
      Arm(M, b, n) == LET K == emit_const(set_block(M, b), "i8", n)
                      IN  terminate_jmp(emit_store(K, "i8", at, K.r), blockOf(L, 3))
  IN  emit_load(set_block(Arm(Arm(C, blockOf(L, 1), 1), blockOf(L, 2), 0), blockOf(L, 3)), "i8", at)

\* a ?? b
lower_optional_default(L, e) ==
  LET A == lower_place(L, e.l)
      left == A.r
      T == temp_place(A, e.type)
      P == emit_load(create_blocks(T, 3), "i8", addr_add(left.addr, optional_present_offset(e.l.type)))
      H == set_block(terminate_br(P, P.r, blockOf(T, 1), blockOf(T, 2)), blockOf(T, 1))
      V == store_value(H, T.r.addr, e.type,
                       IF is_optional_type(e.type) THEN left ELSE value_place(left.addr, optional_inner_type(e.l.type)))
      F == lower_expr(set_block(terminate_jmp(V, blockOf(T, 3)), blockOf(T, 2)), e.r)
      G == store_value(F, T.r.addr, e.type, F.r)
  IN  give(set_block(terminate_jmp(G, blockOf(T, 3)), blockOf(T, 3)), T.r)

\* a?.b: e.inner has the value inside a as [k |-> "inside", type]
lower_optional_chain(L, e) ==
  LET gives == e.type.k # "void"
      R == IF gives THEN temp_place(L, e.type) ELSE give(L, value_none)
      V == lower_expr(R, e.e)
      S == value_to_scalar(V, V.r)
      Q == withConst(S, "icmp", "ptr", S.r, 0, "ne")
      W == value_to_place(V, V.r)
      P == IF e.pointer THEN Q ELSE emit_load(W, "i8", addr_add(W.r.addr, optional_present_offset(e.e.type)))
      inside == IF e.pointer THEN value_scalar(S.r, e.inside) ELSE value_place(W.r.addr, e.inside)
      B == create_blocks(P, 3)
      H == set_block(terminate_br(B, P.r, blockOf(P, 1), blockOf(P, 2)), blockOf(P, 1))
      I == lower_expr([H EXCEPT !.inside = <<inside>> \o @], e.inner)
      J == IF gives THEN store_value(I, R.r.addr, e.type, I.r) ELSE I
      E == set_block(terminate_jmp([J EXCEPT !.inside = Tail(@)], blockOf(P, 3)), blockOf(P, 2))
      Z == IF gives THEN emit_zero(E, R.r.addr, type_storage_size(e.type)) ELSE E
  IN  give(set_block(terminate_jmp(Z, blockOf(P, 3)), blockOf(P, 3)), R.r)

lower_binary(L, e) ==
  LET X == lower_scalar_as(L, e.l, e.type)
      Y == lower_scalar_as(X, e.r, e.type)
  IN  CASE e.op = "??" -> lower_optional_default(L, e)
        [] e.op \in {"&&", "||"} -> scalarOf(lower_logical_value(L, e), e.type)
        [] e.op \in Comparisons -> scalarOf(lower_comparison(L, e), e.type)
        [] OTHER -> scalarOf(emit_arithmetic(Y, e.op, e.type, X.r, Y.r), e.type)
lower_unary(L, e) ==
  LET V == lower_expr(L, e.e)
      S == lower_scalar_as(L, e.e, e.type)
      X == value_to_scalar(V, V.r)
      P == value_to_place(V, V.r)
  IN  CASE e.op = "-" -> scalarOf(emit_with_dst(S, "neg", ir_type_of(e.type), <<S.r>>, 0), e.type)
        [] e.op = "~" -> scalarOf(emit_with_dst(S, "not", ir_type_of(e.type), <<S.r>>, 0), e.type)
        [] e.op = "!" -> scalarOf(IF e.e.type.k = "bool" THEN invert(X, X.r)
                                  ELSE withConst(X, "icmp", X.func.vregs[X.r], X.r, 0, "eq"), e.type)
        [] e.op = "&" -> scalarOf(addr_to_ptr(P, P.r.addr), e.type)
        [] e.op = "*" -> give(X, value_place(addr_vreg(X.r), e.type))
lower_cast(L, e) ==
  LET from == e.e.type
      V == lower_expr(L, e.e)
      W == value_to_place(V, V.r)
      D == addr_to_ptr(W, W.r.addr)
  IN  CASE e.type.k = "any" /\ from.k # "any" -> box_to_any(V, V.r)
        [] from.k = "any" /\ e.type.k # "any" -> unbox_any(W, W.r, e.type)
        [] from.k # "any" /\ e.type.k # "any" /\ type_is_aggregate(from) ->
             IF type_is_aggregate(e.type) THEN convert_aggregate(V, V.r, e.type)
             ELSE scalarOf(IF is_fixed_array(from) THEN D ELSE emit_load(W, "ptr", W.r.addr), e.type)
        [] OTHER -> scalarOf(lower_scalar_as(L, e.e, e.type), e.type)

\* ---- Throwing -------------------------------------------------------------------
isMain(L) == L.fn = "main"
\* Runs the deferred statements above downTo, the last one first, each with only the ones below it active
RECURSIVE runDefers(_, _, _, _)
runDefers(L, kept, i, downTo) ==
  IF i <= downTo \/ terminated(L) THEN L
  ELSE runDefers(lower_statement([L EXCEPT !.defers = SubSeq(kept, 1, i - 1)], kept[i]), kept, i - 1, downTo)
emit_defers(L, downTo) == [runDefers(L, L.defers, Len(L.defers), downTo) EXCEPT !.defers = L.defers]
\* Mutant: the error stays in thrownError while the defers run
emit_defersUnparked(L, downTo) == emit_defers(L, downTo)
emit_defers_while_throwing(L, downTo) ==
  LET S == newSlot(L, 8)
      V == loadThrown(S)
      D == emit_defers(clearThrown(emit_store(V, "ptr", addr_slot(S.r), V.r)), downTo)
      P == emit_load(D, "ptr", addr_slot(S.r))
  IN  CASE Len(L.defers) <= downTo -> L
        [] Len(L.defers) > downTo -> IF terminated(D) THEN D ELSE storeThrown(P, P.r)
emit_unwind(L) ==
  LET D == emit_defers_while_throwing(L, 0) IN
  IF L.tries # <<>>
  THEN terminate_jmp(emit_defers_while_throwing(L, Last(L.tries).defers), Last(L.tries).catch)
  ELSE terminate_return(IF isMain(L) THEN emit_errors_call(D, "reportUncaught", <<>>, "") ELSE D, TRUE)
emit_throw_check(L, threw, confirm) ==
  LET throwing == blockOf(L, 1)
      goOn == blockOf(L, 2)
      F == withConst(create_blocks(L, 2), "icmp", "i32", threw, 0, "ne")
      K == create_block(F)
      T == loadThrown(set_block(terminate_br(K, F.r, K.r, goOn), K.r))
      C == withConst(T, "icmp", "ptr", T.r, 0, "ne")
      B == IF confirm THEN terminate_br(C, C.r, throwing, goOn) ELSE terminate_br(F, F.r, throwing, goOn)
  IN  IF terminated(L) THEN L ELSE set_block(emit_unwind(emit_trace_frame(set_block(B, throwing))), goOn)
emit_throw(L, err) ==
  LET C == withConst(create_blocks(L, 2), "icmp", "ptr", err, 0, "ne")
      T == storeThrown(set_block(terminate_br(C, C.r, blockOf(L, 1), blockOf(L, 2)), blockOf(L, 1)), err)
  IN  set_block(emit_unwind(emit_trace_frame(T)), blockOf(L, 2))

\* ---- Calls ------------------------------------------------------------------------
lower_argument(L, e, paramType, vararg) ==
  LET type == IF vararg THEN e.type ELSE paramType
      S == lower_scalar_as(L, e, type)
      V == lower_expr(L, e)
      A == convert_aggregate(V, V.r, type)
      P == value_to_place(A, A.r)
      C == temp_place(P, type)
      Q == IF P.r.temporary THEN P ELSE give(copy_aggregate(C, C.r.addr, P.r, type.size), C.r)
  IN  CASE classify_argument(type) = "scalar" ->
             IF vararg /\ S.func.vregs[S.r] \in {"i8", "i16"}
             THEN emit_with_dst(S, IF type_is_signed(type) THEN "sext" ELSE "zext", "i32", <<S.r>>, 0) ELSE S
        [] classify_argument(type) = "value" -> emit_load(P, int_ir_type_of_size(type.size), P.r.addr)
        [] classify_argument(type) = "reference" -> addr_to_ptr(Q, Q.r.addr)
RECURSIVE returnSlots(_, _, _), arguments(_, _, _, _, _)
\* The out-pointers of the results: L.r is the vregs, and the slots are the last Len(rets) ones of L.func
returnSlots(L, rets, vregs) ==
  IF rets = <<>> THEN give(L, vregs)
  ELSE LET S == newSlot(L, type_storage_size(Head(rets)))
           A == emit_with_dst(S, "slot_addr", "ptr", <<>>, S.r)
       IN  returnSlots(A, Tail(rets), Append(vregs, A.r))
arguments(L, args, params, fixed, vregs) ==
  IF args = <<>> THEN give(L, vregs)
  ELSE LET vararg == fixed = 0
           A == lower_argument(L, Head(args), IF vararg THEN Head(args).type ELSE Head(params).type, vararg)
       IN  arguments(A, Tail(args), IF vararg THEN params ELSE Tail(params), IF vararg THEN 0 ELSE fixed - 1, Append(vregs, A.r))
\* The results are in slots: L.r is [value, slots]
lower_call(L, e) ==
  LET sig == e.sig
      G == function_global(L, e.fn)
      V == lower_expr(L, e.callee)
      S == value_to_scalar(V, V.r)
      C == IF e.direct THEN G ELSE S
      callee == [kind |-> IF e.direct THEN "direct" ELSE "vreg", callee |-> C.r]
      rets == IF sig.extern THEN <<>> ELSE sig.rets
      cType == IF sig.rets = <<>> THEN Void ELSE sig.rets[1]
      irType == CASE ~sig.extern -> "i32"
                  [] sig.extern /\ cType.k = "void" -> "void"
                  [] sig.extern /\ cType.k # "void" -> IF type_is_aggregate(cType) THEN int_ir_type_of_size(cType.size) ELSE ir_type_of(cType)
      R == returnSlots(C, rets, <<>>)
      slots == [i \in 1 .. Len(rets) |-> Len(C.func.slots) + i]
      A == arguments(R, e.args, sig.params, Len(sig.params), R.r)
      K == emit_call(A, irType, callee, A.r)
      T == emit_throw_check(K, K.r, ~e.direct)
      E == emit_load(T, "ptr", addr_slot(Last(slots)))
      N == IF e.throws /\ rets # <<>> THEN emit_throw(E, E.r) ELSE T
      place == [value_place(addr_slot(slots[1]), rets[1]) EXCEPT !.temporary = TRUE]
      M == temp_place(K, cType)
  IN  CASE ~sig.extern -> give(N, [value |-> IF rets # <<>> THEN place ELSE value_scalar(K.r, I32), slots |-> slots])
        [] sig.extern /\ irType = "void" -> give(K, [value |-> value_none, slots |-> <<>>])
        [] sig.extern /\ irType # "void" ->
             IF type_is_aggregate(cType) THEN give(emit_store(M, irType, M.r.addr, K.r), [value |-> M.r, slots |-> <<>>])
             ELSE give(K, [value |-> value_scalar(K.r, cType), slots |-> <<>>])

\* ---- Expressions ------------------------------------------------------------------
lower_expr(L, e) ==
  LET C == lower_call(L, e)
      A == array_access_addr(L, e)
      T == temp_place(L, e.type)
      S == newSlot(L, type_storage_size(e.type))
      Z == emit_zero(S, addr_slot(S.r), type_storage_size(e.type))
      B == lower_block([Z EXCEPT !.switches = (e.id :> S.r) @@ @], e.block)
  IN  CASE e.k = "id" -> lower_identifier(L, e)
        [] e.k \in {"lit", "enum", "null", "str"} -> lower_literal(L, e)
        [] e.k = "bin" -> lower_binary(L, e)
        [] e.k = "un" -> lower_unary(L, e)
        [] e.k = "cast" -> lower_cast(L, e)
        [] e.k = "call" -> give(C, C.r.value)
        [] e.k = "fn" -> function_address(L, e.fn, e.type)
        [] e.k = "member" -> lower_member_access(L, e)
        [] e.k = "chain" -> lower_optional_chain(L, e)
        [] e.k = "inside" -> give(L, Head(L.inside))
        [] e.k = "index" -> give(A, value_place(A.r, e.type))
        [] e.k \in {"struct", "array"} -> give(literalInto(T, e, T.r.addr), T.r)
        [] e.k = "sizeof" -> scalarOf(emit_const(L, ir_type_of(e.type), e.of.size), e.type)
        [] e.k = "switch" -> give(B, value_place(addr_slot(S.r), e.type))
lower_scalar_as(L, e, target) ==
  LET V == lower_expr(L, e)
      S == value_to_scalar(V, V.r)
      t == ir_type_of(target)
  IN  CASE e.k = "lit" /\ e.type.k = "int" /\ target.k # "bool" /\ ir_type_is_int(t) -> emit_const(L, t, e.v)
        [] e.k = "null" /\ t = "ptr" -> emit_const(L, "ptr", 0)
        [] OTHER -> convert_scalar(S, S.r, V.r.type, target)
lower_condition(L, e, yes, no) ==
  LET B == create_block(L)
      V == lower_expr(L, e)
      S == value_to_scalar(V, V.r)
      C == emit_to_bool(S, S.r, V.r.type)
      op == IF e.k \in {"bin", "un"} THEN e.op ELSE ""
      negates == e.k = "un" /\ op = "!" /\ e.e.type.k = "bool"
  IN  CASE op = "&&" -> lower_condition(set_block(lower_condition(B, e.l, B.r, no), B.r), e.r, yes, no)
        [] op = "||" -> lower_condition(set_block(lower_condition(B, e.l, yes, B.r), B.r), e.r, yes, no)
        [] negates -> lower_condition(L, e.e, no, yes)
        [] op \notin {"&&", "||"} /\ ~negates -> terminate_br(C, C.r, yes, no)

\* ---- Statements ---------------------------------------------------------------------
declare_local(L, n, type) ==
  LET S == newSlot(L, type_storage_size(type)) IN [S EXCEPT !.locals = (n :> S.r) @@ @]
RECURSIVE takeResults(_, _, _, _), declareEach(_, _, _)
takeResults(L, names, slots, rets) ==
  IF names = <<>> THEN L
  ELSE LET D == declare_local(L, Head(names).n, Head(names).type)
           V == store_value(D, addr_slot(D.r), Head(names).type, value_place(addr_slot(Head(slots)), Head(rets)))
       IN  takeResults(V, Tail(names), Tail(slots), Tail(rets))
declareEach(L, names, values) ==
  IF names = <<>> THEN L
  ELSE LET D == declare_local(L, Head(names).n, Head(names).type)
           M == IF values # <<>> THEN store_expr(D, addr_slot(D.r), Head(names).type, Head(values), TRUE)
                ELSE emit_default_init(D, addr_slot(D.r), Head(names).type)
       IN  declareEach(M, Tail(names), IF values = <<>> THEN values ELSE Tail(values))
lower_declaration(L, s) ==
  LET C == lower_call(L, s.values[1]) IN
  IF Len(s.values) = 1 /\ Len(s.names) > 1 THEN takeResults(C, s.names, C.r.slots, s.values[1].sig.rets)
  ELSE declareEach(L, s.names, s.values)
lower_assignment(L, s) ==
  LET type == s.l.type
      P == lower_place(L, s.l)
      V == value_to_scalar(P, P.r)
      R == lower_scalar_as(V, s.r, type)
      A == emit_arithmetic(R, s.op, type, V.r, R.r)
  IN  IF s.op = "=" THEN store_expr(P, P.r.addr, type, s.r, FALSE)
      ELSE emit_store(A, ir_type_of(type), P.r.addr, A.r)
lower_assert(L, s) ==
  panicIn(lower_condition(create_blocks(L, 2), s.e, blockOf(L, 2), blockOf(L, 1)), blockOf(L, 1), "panicAssertion", <<>>, blockOf(L, 2))
\* s.arms: <<[e, block], ...>>, s.rest: the block of else or <<>>
RECURSIVE lowerArms(_, _, _, _)
lowerArms(L, arms, rest, done) ==
  IF arms = <<>> THEN set_block(terminate_jmp(lower_block(L, rest), done), done)
  ELSE LET C == lower_condition(create_blocks(L, 2), Head(arms).e, blockOf(L, 1), blockOf(L, 2))
           T == terminate_jmp(lower_block(set_block(C, blockOf(L, 1)), Head(arms).block), done)
       IN  lowerArms(set_block(T, blockOf(L, 2)), Tail(arms), rest, done)
lower_if(L, s) == LET B == create_block(L) IN lowerArms(B, s.arms, s.rest, B.r)
push_loop(L, loop, break, continue) ==
  [L EXCEPT !.loops = Append(@, [loop |-> loop, break |-> break, continue |-> continue, defers |-> Len(L.defers)])]
loopBody(L, s, break, continue) ==
  terminate_jmp([lower_block(push_loop(L, s.id, break, continue), s.block) EXCEPT !.loops = L.loops], continue)
lower_while(L, s) ==
  LET cond == blockOf(L, 1)
      C == lower_condition(set_block(terminate_jmp(create_blocks(L, 3), cond), cond), s.e, blockOf(L, 2), blockOf(L, 3))
  IN  set_block(loopBody(set_block(C, blockOf(L, 2)), s, blockOf(L, 3), cond), blockOf(L, 3))
\* slot := slot + 1
increment(L, type, slot) ==
  LET V == emit_load(L, type, addr_slot(slot))
      N == withConst(V, "add", type, V.r, 1, 0)
  IN  emit_store(N, type, addr_slot(slot), N.r)
lowerForever(L, s) ==
  LET b == blockOf(L, 2)
  IN  set_block(loopBody(set_block(terminate_jmp(create_blocks(L, 4), b), b), s, blockOf(L, 4), b), blockOf(L, 4))
lowerRange(L, s) ==
  LET cond == blockOf(L, 1) bodyBlock == blockOf(L, 2) post == blockOf(L, 3) done == blockOf(L, 4)
      t == ir_type_of(s.it.type)
      D == declare_local(create_blocks(L, 4), s.it.n, s.it.type)
      it == D.r
      E == newSlot(D, ir_type_size(t))
      end == E.r
      A == lower_scalar_as(E, s.start, s.it.type)
      B == lower_scalar_as(emit_store(A, t, addr_slot(it), A.r), s.end, s.it.type)
      C == emit_store(B, t, addr_slot(end), B.r)
      I == declare_local(C, s.index.n, s.index.type)
      Z == emit_const(I, ir_type_of(s.index.type), 0)
      J == IF s.index.n = "" THEN C ELSE emit_store(Z, ir_type_of(s.index.type), addr_slot(I.r), Z.r)
      X == emit_load(set_block(terminate_jmp(J, cond), cond), t, addr_slot(it))
      Y == emit_load(X, t, addr_slot(end))
      T == emit_with_dst(Y, "icmp", t, <<X.r, Y.r>>, comparison_predicate(IF s.inclusive THEN "<=" ELSE "<", type_is_signed(s.it.type)))
      F == loopBody(set_block(terminate_br(T, T.r, bodyBlock, done), bodyBlock), s, done, post)
      N == increment(set_block(F, post), t, it)
      M == IF s.index.n = "" THEN N ELSE increment(N, ir_type_of(s.index.type), I.r)
  IN  set_block(terminate_jmp(M, cond), done)
lowerElements(L, s) ==
  LET cond == blockOf(L, 1) bodyBlock == blockOf(L, 2) post == blockOf(L, 3) done == blockOf(L, 4)
      over == s.e.type
      elem == IF over.k = "string" THEN U8 ELSE over.elem
      P == lower_place(create_blocks(L, 4), s.e)
      D == IF is_fixed_array(over) THEN addr_to_ptr(P, P.r.addr) ELSE emit_load(P, "ptr", P.r.addr)
      C == IF is_fixed_array(over) THEN emit_const(D, "i64", over.n) ELSE emit_load(D, "i64", addr_add(P.r.addr, 8))
      S == newSlot(newSlot(newSlot(C, 8), 8), 8)
      dataSlot == S.r - 2  countSlot == S.r - 1  counter == S.r
      K == emit_const(emit_store(emit_store(S, "ptr", addr_slot(dataSlot), D.r), "i64", addr_slot(countSlot), C.r), "i64", 0)
      I == declare_local(emit_store(K, "i64", addr_slot(counter), K.r), s.it.n, s.it.type)
      X == IF s.index.n = "" THEN I ELSE declare_local(I, s.index.n, s.index.type)
      A == emit_load(set_block(terminate_jmp(X, cond), cond), "i64", addr_slot(counter))
      B == emit_load(A, "i64", addr_slot(countSlot))
      T == emit_with_dst(B, "icmp", "i64", <<A.r, B.r>>, "slt")
      N == emit_load(set_block(terminate_br(T, T.r, bodyBlock, done), bodyBlock), "i64", addr_slot(counter))
      Q == emit_load(N, "ptr", addr_slot(dataSlot))
      O == withConst(Q, "mul", "i64", N.r, elem.size, 0)
      E == emit_with_dst(O, "ptradd", "ptr", <<Q.r, O.r>>, 0)
      V == IF s.byPointer THEN emit_store(E, "ptr", addr_slot(I.r), E.r)
           ELSE store_value(E, addr_slot(I.r), s.it.type, value_place(addr_vreg(E.r), elem))
      G == convert_scalar(V, N.r, I64, s.index.type)
      W == IF s.index.n = "" THEN V ELSE emit_store(G, ir_type_of(s.index.type), addr_slot(X.r), G.r)
  IN  set_block(terminate_jmp(increment(set_block(loopBody(W, s, done, post), post), "i64", counter), cond), done)
lower_for(L, s) ==
  CASE s.over = "forever" -> lowerForever(L, s) [] s.over = "range" -> lowerRange(L, s) [] s.over = "elements" -> lowerElements(L, s)
lower_break_or_continue(L, s) ==
  LET i == CHOOSE j \in 1 .. Len(L.loops) : L.loops[j].loop = s.loop
      D == emit_defers(L, L.loops[i].defers)
  IN  start_unreachable_block(terminate_jmp(D, IF s.break THEN L.loops[i].break ELSE L.loops[i].continue))
outPointer(L, i) == emit_load(L, "ptr", addr_slot(L.locals["$ret" \o ToString(i)]))
RECURSIVE returnEach(_, _, _), passOn(_, _, _, _)
returnEach(L, values, i) ==
  IF i > Len(values) THEN L
  ELSE LET P == outPointer(L, i)
       IN  returnEach(store_expr(P, addr_vreg(P.r), L.prog.functions[L.fn].rets[i], values[i], FALSE), values, i + 1)
passOn(L, slots, rets, i) ==
  IF i > Len(slots) THEN L
  ELSE LET P == outPointer(L, i)
       IN  passOn(store_value(P, addr_vreg(P.r), L.prog.functions[L.fn].rets[i], value_place(addr_slot(slots[i]), rets[i])), slots, rets, i + 1)
\* Mutant: the defers run before the values are evaluated
lower_returnLate(L, s) ==
  LET D == emit_defers(L, 0)
      C == lower_call(D, s.values[1])
      V == IF s.tuple THEN passOn(C, C.r.slots, s.values[1].sig.rets, 1) ELSE returnEach(D, s.values, 1)
  IN  start_unreachable_block(terminate_return(V, FALSE))
lower_return(L, s) ==
  LET C == lower_call(L, s.values[1])
      V == IF s.tuple THEN passOn(C, C.r.slots, s.values[1].sig.rets, 1) ELSE returnEach(L, s.values, 1)
  IN  start_unreachable_block(terminate_return(emit_defers(V, 0), FALSE))
lower_try(L, s) ==
  LET catch == blockOf(L, 1) done == blockOf(L, 2)
      T == [create_blocks(L, 2) EXCEPT !.tries = Append(@, [catch |-> catch, defers |-> Len(L.defers)])]
      B == terminate_jmp([lower_block(T, s.block) EXCEPT !.tries = L.tries], done)
      E == loadThrown(set_block(B, catch))
      D == declare_local(clearThrown(E), s.error, ErrorType)
      H == lower_block(emit_store(D, "ptr", addr_slot(D.r), E.r), s.handler)
  IN  set_block(terminate_jmp(H, done), done)
lower_statement(L, s) ==
  LET T == lower_scalar_as(L, s.e, s.e.type) IN
  CASE s.k = "decl" -> lower_declaration(L, s)
    [] s.k = "assign" -> lower_assignment(L, s)
    [] s.k = "expr" -> lower_expr(L, s.e)
    [] s.k = "block" -> lower_block(L, s.block)
    [] s.k = "assert" -> lower_assert(L, s)
    [] s.k = "if" -> lower_if(L, s)
    [] s.k = "arm" -> store_expr(L, addr_slot(L.switches[s.owner]), s.type, s.e, FALSE)
    [] s.k = "while" -> lower_while(L, s)
    [] s.k = "for" -> lower_for(L, s)
    [] s.k = "leave" -> lower_break_or_continue(L, s)
    [] s.k = "return" -> lower_return(L, s)
    [] s.k = "defer" -> [L EXCEPT !.defers = Append(@, s.s)]
    [] s.k = "try" -> lower_try(L, s)
    [] s.k = "throw" -> emit_throw(T, T.r)
RECURSIVE lowerEach(_, _)
lowerEach(L, stmts) ==   \* a block is never 0: the test has L evaluated before the statement, not inside of it
  IF stmts = <<>> \/ L.block = 0 THEN L ELSE lowerEach(lower_statement(L, Head(stmts)), Tail(stmts))
lower_block(L, stmts) == [emit_defers(lowerEach(L, stmts), Len(L.defers)) EXCEPT !.defers = L.defers]

\* ---- Functions and the module ----------------------------------------------------------
loweredParams(defn) ==
  [i \in 1 .. Len(defn.rets) |-> [n |-> "$ret" \o ToString(i), type |-> Pointer(defn.rets[i])]] \o defn.params
RECURSIVE takeParams(_, _)
takeParams(L, params) ==
  IF params = <<>> THEN L
  ELSE LET p == Head(params)
           v == Len(L.func.vregs) + 1
           V == [L EXCEPT !.func = [ir_new_vreg(@, ir_param_type(p.type)) EXCEPT !.params = Append(@, v)]]
           D == declare_local(V, p.n, p.type)
           A == emit_with_dst(D, "slot_addr", "ptr", <<>>, D.r)
       IN  takeParams(IF classify_argument(p.type) = "reference" THEN emit_memcpy(A, A.r, v, p.type.size)
                      ELSE emit_store(D, ir_param_type(p.type), addr_slot(D.r), v), Tail(params))
startFunction(L, f) ==
  [L EXCEPT !.func = ir_function_new(f), !.fn = f, !.loops = <<>>, !.defers = <<>>, !.tries = <<>>,
            !.locals = <<>>, !.threadSlot = 0, !.switches = <<>>]
\* The prologue is the first block, filled in when the rest is lowered
prologue(L, f) ==
  LET T == emit_with_dst(L, "global_addr", "ptr", <<>>, L.template)
      S == emit_const(T, "i64", L.blockSize)
      M == IF f = "main" THEN emit_errors_call(S, "startThreadBlocks", <<T.r, S.r>>, "") ELSE L
      B == emit_lookup_thread_block(M)
      N == IF L.threadSlot > 0 THEN emit_store(B, "ptr", addr_slot(L.threadSlot), B.r) ELSE M
  IN  terminate_jmp(N, 2)
lower_function(L, f) ==
  LET defn == L.prog.functions[f]
      E == set_block(set_block(create_blocks(startFunction(L, f), 2), 1), 2)
      B == terminate_return(lower_block(takeParams(E, loweredParams(defn)), defn.block), FALSE)
      P == prologue(set_block(B, 1), f)
  IN  [P EXCEPT !.funcs = (f :> ir_function_finalize(P.func)) @@ @, !.globals[P.queued[f]].kind = "function"]

newLowerer(prog) ==
  [prog |-> prog, func |-> ir_function_new(""), block |-> 0, fn |-> "", locals |-> <<>>, loops |-> <<>>,
   defers |-> <<>>, tries |-> <<>>, inside |-> <<>>, switches |-> <<>>, threadSlot |-> 0, template |-> 0, blockSize |-> 0,
   consts |-> <<>>, globals |-> <<>>, names |-> <<>>, queued |-> <<>>, pending |-> <<>>, funcs |-> <<>>, r |-> 0]
\* lower_program before its loop: main is queued, and each step of the loop lowers the next queued function
startProgram(prog) == function_global(layout_thread_locals(newLowerer(prog)), "main")
=============================================================================
