--------------------------------- MODULE Ir ---------------------------------
(***************************************************************************)
(* The intermediate representation of the compiler (ir.h, ir.c): how a     *)
(* function is built, ir_function_finalize, and the rules of ir_verify.    *)
(* An instruction is [op, type, dst, args, x]: args are the vregs it       *)
(* reads, dst is 0 when it defines none, and x is the rest (an address, a  *)
(* constant, a predicate, a callee).  Floats, debug names and alignments   *)
(* are left out.                                                           *)
(***************************************************************************)
EXTENDS Integers, Sequences, FiniteSets, SequencesExt

ir_type_size(t) ==
  CASE t = "i8" -> 1 [] t = "i16" -> 2 [] t = "i32" -> 4 [] t \in {"i64", "ptr"} -> 8 [] OTHER -> 0
ir_type_is_int(t) == t \in {"i8", "i16", "i32", "i64"}

\* ---- Values in vregs and in memory ---------------------------------------
CONSTANT Bits            \* how many bits an integer type has: fewer than in the code, in the same order
wrap(type, n) == n % (2 ^ Bits[type])
signedValue(type, n) == IF n >= 2 ^ (Bits[type] - 1) THEN n - 2 ^ Bits[type] ELSE n
IntV(n) == [k |-> "int", n |-> n]
PtrV(object, offset) == [k |-> "ptr", object |-> object, offset |-> offset]
FnV(global) == [k |-> "fn", global |-> global]
Undef == [k |-> "undef"]
\* A byte of memory is a part of a value that was stored: the i-th of its size. All bytes of 0 are the same
bytesOf(v, size) ==
  CASE v.k = "mixed" -> v.bytes
    [] v = IntV(0) \/ v = Undef -> [i \in 1 .. size |-> [v |-> v, i |-> 1, size |-> 1]]
    [] OTHER -> [i \in 1 .. size |-> [v |-> v, i |-> i, size |-> size]]
\* What a load of these bytes gives: the value they are all of, or a mixture that can only be copied
valueOf(bytes) ==
  LET v == bytes[1].v IN
  CASE bytes = bytesOf(v, Len(bytes)) -> v
    [] OTHER -> [k |-> "mixed", bytes |-> bytes]
replaceAt(bytes, offset, new) ==
  [i \in 1 .. Len(bytes) |-> IF i \in offset + 1 .. offset + Len(new) THEN new[i - offset] ELSE bytes[i]]

int_ir_type_of_size(n) ==
  CASE n = 1 -> "i8" [] n = 2 -> "i16" [] n = 4 -> "i32" [] n = 8 -> "i64" [] OTHER -> "void"

\* ---- Construction -------------------------------------------------------
NoTerm == [kind |-> "none"]
ir_function_new(name) ==
  [name |-> name, vregs |-> <<>>, params |-> <<>>, slots |-> <<>>, blocks |-> <<>>, layout |-> <<>>]
ir_new_vreg(f, type) == [f EXCEPT !.vregs = Append(@, type)]
ir_new_slot(f, size) == [f EXCEPT !.slots = Append(@, IF size > 0 THEN size ELSE 1)]
ir_block_new(f) == [f EXCEPT !.blocks = Append(@, [insts |-> <<>>, term |-> NoTerm])]

successors(term) ==
  CASE term.kind = "jmp" -> {term.target} [] term.kind = "br" -> {term.target, term.other} [] OTHER -> {}

\* The blocks reachable from the first of the layout, wave by wave
reachable(f) ==
  LET grow[n \in 0 .. Len(f.blocks)] ==
        IF n = 0 THEN {f.layout[1]}
        ELSE LET before == grow[n - 1] IN before \cup UNION {successors(f.blocks[b].term) : b \in before}
  IN  grow[Len(f.blocks)]

ir_function_finalize(f) == LET kept == reachable(f) IN [f EXCEPT !.layout = SelectSeq(@, LAMBDA b : b \in kept)]

\* ---- The vregs an instruction and a terminator read ---------------------
addressBase(inst) == IF inst.op \in {"load", "store"} /\ inst.x.kind = "vreg" THEN {inst.x.base} ELSE {}
calleeVreg(inst) == IF inst.op = "call" /\ inst.x.kind = "vreg" THEN {inst.x.callee} ELSE {}
ir_inst_uses(inst) == Range(inst.args) \cup addressBase(inst) \cup calleeVreg(inst)
ir_term_uses(term) == CASE term.kind = "br" -> {term.cond} [] term.kind = "ret" -> {term.value} [] OTHER -> {}

\* ---- ir_verify ----------------------------------------------------------
Arithmetic == {"add", "sub", "mul", "sdiv", "udiv", "srem", "urem", "and", "or", "xor", "shl", "lshr", "ashr"}
NoResult == {"store", "memcpy", "memset"}

\* The types of the operands and of the result fit the operation
ir_verify_inst(f, inst) ==
  LET t == inst.type
      arg(i) == f.vregs[inst.args[i]]
      has(types) == Len(inst.args) = Len(types) /\ \A i \in 1 .. Len(types) : arg(i) = types[i]
      place == CASE inst.x.kind = "vreg" -> f.vregs[inst.x.base] = "ptr"
                 [] inst.x.kind = "slot" -> inst.x.base \in 1 .. Len(f.slots)
                 [] OTHER -> TRUE
  IN /\ ir_inst_uses(inst) \subseteq 1 .. Len(f.vregs)
     /\ inst.op \notin NoResult \cup {"call"} => inst.dst # 0
     /\ inst.dst # 0 /\ inst.op \notin {"icmp", "call"} => f.vregs[inst.dst] = t
     /\ CASE inst.op = "const" -> ir_type_is_int(t) \/ t = "ptr"
          [] inst.op = "slot_addr" -> t = "ptr" /\ inst.x \in 1 .. Len(f.slots)
          [] inst.op = "global_addr" -> t = "ptr"
          [] inst.op = "load" -> t # "void" /\ place
          [] inst.op = "store" -> t # "void" /\ has(<<t>>) /\ place
          [] inst.op = "ptradd" -> has(<<"ptr", "i64">>)
          [] inst.op = "memcpy" -> has(<<"ptr", "ptr">>) /\ inst.x > 0
          [] inst.op = "memset" -> has(<<"ptr">>) /\ inst.x > 0
          [] inst.op \in Arithmetic -> ir_type_is_int(t) /\ has(<<t, t>>)
          [] inst.op \in {"neg", "not"} -> ir_type_is_int(t) /\ has(<<t>>)
          [] inst.op = "icmp" -> (ir_type_is_int(t) \/ t = "ptr") /\ has(<<t, t>>) /\ f.vregs[inst.dst] = "i8"
          [] inst.op \in {"sext", "zext"} -> ir_type_is_int(arg(1)) /\ ir_type_is_int(t) /\ ir_type_size(arg(1)) < ir_type_size(t)
          [] inst.op = "trunc" -> ir_type_is_int(arg(1)) /\ ir_type_is_int(t) /\ ir_type_size(arg(1)) > ir_type_size(t)
          [] inst.op = "bitcast" -> ir_type_size(arg(1)) = ir_type_size(t) /\ arg(1) # t
          [] inst.op = "call" -> /\ inst.x.kind = "vreg" => f.vregs[inst.x.callee] = "ptr"
                                 /\ IF t = "void" THEN inst.dst = 0 ELSE inst.dst # 0 /\ f.vregs[inst.dst] = t

ir_verify_term(f, term) ==
  /\ term.kind # "none"
  /\ successors(term) \subseteq Range(f.layout)
  /\ term.kind = "br" => f.vregs[term.cond] = "i8"
  /\ term.kind = "ret" => f.vregs[term.value] = "i32"

instsOf(f, b) == f.blocks[b].insts
definitions(f, v) ==
  Cardinality({i \in 1 .. Len(f.params) : f.params[i] = v})
    + Cardinality({p \in UNION {{<<b, i>> : i \in 1 .. Len(instsOf(f, b))} : b \in Range(f.layout)} :
                     instsOf(f, p[1])[p[2]].dst = v})

\* What is read in a block before it is defined there
upward(f, b) ==
  {v \in 1 .. Len(f.vregs) :
     \/ \E i \in 1 .. Len(instsOf(f, b)) :
          v \in ir_inst_uses(instsOf(f, b)[i]) /\ \A j \in 1 .. i - 1 : instsOf(f, b)[j].dst # v
     \/ v \in ir_term_uses(f.blocks[b].term) /\ \A j \in 1 .. Len(instsOf(f, b)) : instsOf(f, b)[j].dst # v}

\* The blocks that are reached from the entry without a definition of v before them
undefinedAt(f, v) ==
  LET defines(b) == \E i \in 1 .. Len(instsOf(f, b)) : instsOf(f, b)[i].dst = v
      grow[n \in 0 .. Len(f.blocks)] ==
        IF n = 0 THEN {f.layout[1]}
        ELSE LET before == grow[n - 1]
             IN  before \cup UNION {successors(f.blocks[b].term) : b \in {c \in before : ~defines(c)}}
  IN  grow[Len(f.blocks)]

\* A vreg that is live into the entry block (ir_compute_liveness, whose sweeps are the module Liveness) is used on
\* some path before it is defined
liveIntoEntry(f) ==
  {v \in UNION {upward(f, b) : b \in Range(f.layout)} : \E b \in undefinedAt(f, v) : v \in upward(f, b)}

ir_verify_function(f) ==
  /\ \A b \in Range(f.layout) :
       /\ \A i \in 1 .. Len(instsOf(f, b)) : ir_verify_inst(f, instsOf(f, b)[i])
       /\ ir_verify_term(f, f.blocks[b].term)
  /\ \A v \in 1 .. Len(f.vregs) : definitions(f, v) <= 1
  /\ liveIntoEntry(f) \subseteq Range(f.params)
=============================================================================
