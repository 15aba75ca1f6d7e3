------------------------------- MODULE Lowering -------------------------------
(***************************************************************************)
(* A program is lowered, function by function (lower_program), and then    *)
(* run, an instruction of the IR at a time, against what it means.         *)
(*                                                                         *)
(* The functions of C and of std/prelude/errors.sd that the lowered code   *)
(* calls are steps of the machine: out(n) and ping() are what can be seen  *)
(* of the program, pick() gives 0 or 1, start(f) runs f in a thread.  A    *)
(* function of C leaves anything in the register of the throw flag.        *)
(***************************************************************************)
EXTENDS Meaning

CONSTANTS Programs,      \* the programs that are lowered and run
          MaxSteps,      \* more instructions than any of them takes
          Compile(_, _), \* the compiler: the Lowerer after it lowered a function (lower_function)
          Verified(_),   \* what the compiler asserts of each function it made (ir_verify_function)
          Means(_, _, _) \* the language: what a function of a program does, given what pick() gives it (Did)

VARIABLES L,             \* the Lowerer
          stacks,        \* for each thread, its frames, the innermost one last
          objects,       \* the memory: bytes of globals <<0, g>>, slots <<frame, slot>> and of the heap <<-1, n>>
          blocks,        \* the value of pthread_getspecific in each thread
          did, picks,    \* what the threads did, and what pick() gave to each
          calls, steps,  \* how many frames there were in each thread, and steps in all
          bad            \* what no program may do, when one did it
vars == <<L, stacks, objects, blocks, did, picks, calls, steps, bad>>

Threads == {1, 2}
lowered == L.pending = <<>>
Init ==
  /\ \E prog \in Programs : L = startProgram(prog)
  /\ stacks = [t \in Threads |-> <<>>]
  /\ objects = <<>>
  /\ blocks = [t \in Threads |-> IntV(0)]
  /\ did = [t \in Threads |-> <<>>]
  /\ picks = [t \in Threads |-> <<>>]
  /\ calls = [t \in Threads |-> 0] /\ steps = 0 /\ bad = ""

\* ---- Lowering -----------------------------------------------------------------
LowerFunction ==
  /\ ~lowered
  /\ L' = Compile([L EXCEPT !.pending = Tail(@)], Head(L.pending))
  /\ UNCHANGED <<stacks, objects, blocks, did, picks, calls, steps, bad>>

\* ---- Values of the machine ------------------------------------------------------
frameOf(id, f, args, dst) ==
  LET func == L.funcs[f]
  IN  [id |-> id, fn |-> f, block |-> func.layout[1], pc |-> 1, dst |-> dst,
       regs |-> [v \in 1 .. Len(func.vregs) |->
                   IF v \in Range(func.params) THEN args[CHOOSE i \in 1 .. Len(func.params) : func.params[i] = v] ELSE Undef]]
slotsOf(id, f) ==
  LET slots == L.funcs[f].slots
  IN  [o \in {<<id, s>> : s \in 1 .. Len(slots)} |-> bytesOf(Undef, slots[o[2]])]
top(t) == Last(stacks[t])
code(t) == L.funcs[top(t).fn].blocks[top(t).block]
inst(t) == code(t).insts[top(t).pc]
atInst(t) == stacks[t] # <<>> /\ top(t).pc <= Len(code(t).insts)
atTerm(t) == stacks[t] # <<>> /\ top(t).pc > Len(code(t).insts)
val(t, v) == top(t).regs[v]
arg(t, i) == val(t, inst(t).args[i])

usable(v) == v.k \in {"int", "ptr", "fn"}
offset(p, n) == IF p.k = "ptr" THEN PtrV(p.object, p.offset + n) ELSE p
pointerTo(t, addr) ==
  CASE addr.kind = "slot" -> PtrV(<<top(t).id, addr.base>>, addr.off)
    [] addr.kind = "global" -> PtrV(<<0, addr.base>>, addr.off)
    [] addr.kind = "vreg" -> offset(val(t, addr.base), addr.off)
\* The bytes a pointer is used for are all in its object, which is still there
inside(p, size) ==
  p.k = "ptr" /\ p.object \in DOMAIN objects /\ p.offset >= 0 /\ p.offset + size <= Len(objects[p.object])
bytesAt(p, size) == SubSeq(objects[p.object], p.offset + 1, p.offset + size)
written(p, bytes) == [objects EXCEPT ![p.object] = replaceAt(@, p.offset, bytes)]
\* A function and a global of data have addresses of different kinds
addressOf(g) == IF L.globals[g].kind = "data" THEN PtrV(<<0, g>>, 0) ELSE FnV(g)

operation(op, type, x, y) ==
  LET sx == signedValue(type, x)
      sy == signedValue(type, y)
  IN  CASE op = "add" -> x + y [] op = "sub" -> x - y [] op = "mul" -> x * y
        [] op = "sdiv" -> arithmetic("/", sx, sy) [] op = "srem" -> arithmetic("%", sx, sy)
        [] op = "udiv" -> x \div y [] op = "urem" -> x % y
        [] op = "and" -> x & y [] op = "or" -> x | y [] op = "xor" -> x ^^ y
        [] op = "shl" -> x * 2 ^ y [] op = "lshr" -> x \div 2 ^ y [] op = "ashr" -> sx \div 2 ^ y
predicate(cmp, type, x, y) ==
  LET s(v) == signedValue(IF type = "ptr" THEN "i64" ELSE type, v.n) IN
  CASE cmp = "eq" -> x = y [] cmp = "ne" -> x # y
    [] cmp = "slt" -> s(x) < s(y) [] cmp = "sle" -> s(x) <= s(y) [] cmp = "sgt" -> s(x) > s(y) [] cmp = "sge" -> s(x) >= s(y)
    [] cmp = "ult" -> x.n < y.n [] cmp = "ule" -> x.n <= y.n [] cmp = "ugt" -> x.n > y.n [] cmp = "uge" -> x.n >= y.n

\* ---- The steps -------------------------------------------------------------------
advanced(t, dst, v) == [stacks EXCEPT ![t][Len(stacks[t])].pc = @ + 1,
                                      ![t][Len(stacks[t])].regs = IF dst = 0 THEN @ ELSE [@ EXCEPT ![dst] = v]]
\* The instruction gives v, unless what it needs isn't so
gives(t, ok, v) ==
  /\ bad' = IF ok THEN bad ELSE inst(t).op
  /\ stacks' = IF ok THEN advanced(t, inst(t).dst, v) ELSE stacks
Silent == UNCHANGED <<L, blocks, did, picks, calls>>

Value(t) ==
  LET i == inst(t)
      int(v) == IF v.k = "int" THEN v.n ELSE 0
  IN
  /\ atInst(t)
  /\ CASE i.op = "const" -> gives(t, TRUE, IntV(IF i.type = "ptr" THEN i.x ELSE wrap(i.type, i.x)))
       [] i.op = "slot_addr" -> gives(t, TRUE, PtrV(<<top(t).id, i.x>>, 0))
       [] i.op = "global_addr" -> gives(t, TRUE, addressOf(i.x))
       [] i.op = "ptradd" -> gives(t, arg(t, 1).k = "ptr" /\ arg(t, 2).k = "int", offset(arg(t, 1), signedValue("i64", int(arg(t, 2)))))
       [] i.op \in Arithmetic ->
            gives(t, arg(t, 1).k = "int" /\ arg(t, 2).k = "int" /\ (i.op \in {"sdiv", "udiv", "srem", "urem"} => int(arg(t, 2)) # 0),
                  IntV(wrap(i.type, operation(i.op, i.type, int(arg(t, 1)), int(arg(t, 2))))))
       [] i.op = "neg" -> gives(t, arg(t, 1).k = "int", IntV(wrap(i.type, -int(arg(t, 1)))))
       [] i.op = "not" -> gives(t, arg(t, 1).k = "int", IntV(wrap(i.type, -int(arg(t, 1)) - 1)))
       [] i.op \in {"zext", "trunc"} -> gives(t, arg(t, 1).k = "int", IntV(wrap(i.type, int(arg(t, 1)))))
       [] i.op = "sext" ->
            gives(t, arg(t, 1).k = "int", IntV(wrap(i.type, signedValue(L.funcs[top(t).fn].vregs[i.args[1]], int(arg(t, 1))))))
       [] i.op = "bitcast" -> gives(t, TRUE, arg(t, 1))
       [] i.op = "icmp" ->
            gives(t, usable(arg(t, 1)) /\ usable(arg(t, 2)) /\ (i.x \in {"eq", "ne"} \/ (arg(t, 1).k = "int" /\ arg(t, 2).k = "int")),
                  IntV(IF predicate(i.x, i.type, arg(t, 1), arg(t, 2)) THEN 1 ELSE 0))
       [] OTHER -> FALSE
  /\ UNCHANGED objects
  /\ Silent

Load(t) ==
  LET p == pointerTo(t, inst(t).x)
      size == ir_type_size(inst(t).type)
  IN
  /\ atInst(t) /\ inst(t).op = "load"
  /\ gives(t, inside(p, size), valueOf(bytesAt(p, size)))
  /\ UNCHANGED objects
  /\ Silent

Store(t) ==
  LET p == pointerTo(t, inst(t).x)
      size == ir_type_size(inst(t).type)
  IN
  /\ atInst(t) /\ inst(t).op = "store"
  /\ gives(t, inside(p, size), Undef)
  /\ objects' = IF inside(p, size) THEN written(p, bytesOf(arg(t, 1), size)) ELSE objects
  /\ Silent

\* memcpy and memset
Copy(t) ==
  LET size == inst(t).x
      p == arg(t, 1)
      ok == inside(p, size) /\ (inst(t).op = "memcpy" => inside(arg(t, 2), size))
      bytes == IF inst(t).op = "memcpy" THEN bytesAt(arg(t, 2), size) ELSE bytesOf(IntV(0), size)
  IN
  /\ atInst(t) /\ inst(t).op \in {"memcpy", "memset"}
  /\ gives(t, ok, Undef)
  /\ objects' = IF ok THEN written(p, bytes) ELSE objects
  /\ Silent

isCall(t) == atInst(t) /\ inst(t).op = "call"
argsOf(t) == [i \in 1 .. Len(inst(t).args) |-> arg(t, i)]
\* The function that is called: a global of the module
calleeOf(t) ==
  CASE inst(t).x.kind = "direct" -> FnV(inst(t).x.callee)
    [] inst(t).x.kind = "vreg" -> val(t, inst(t).x.callee)
    [] inst(t).x.kind = "errors" -> Undef
calledFn(t) == IF calleeOf(t).k = "fn" THEN L.globals[calleeOf(t).global].fn ELSE ""
frameId(t) == 2 * calls[t] + t
enters(t, frames, f, given, dst) ==
  /\ calls' = [calls EXCEPT ![t] = @ + 1]
  /\ stacks' = [frames EXCEPT ![t] = Append(@, frameOf(frameId(t), f, given, dst))]
  /\ objects' = slotsOf(frameId(t), f) @@ objects

Call(t) ==
  /\ isCall(t) /\ inst(t).x.kind # "errors"
  /\ IF calledFn(t) = "" THEN bad' = "call" /\ UNCHANGED <<stacks, objects, calls>>     \* not a function
     ELSE /\ ~L.prog.functions[calledFn(t)].extern
          /\ enters(t, advanced(t, 0, Undef), calledFn(t), argsOf(t), inst(t).dst)
          /\ UNCHANGED bad
  /\ UNCHANGED <<L, blocks, did, picks>>

event(t, e) == did' = [did EXCEPT ![t] = Append(@, e)]
\* What a function of C leaves where the caller of a Saad function looks for the throw flag
garbage(t, n) == gives(t, TRUE, IntV(n))
calledC(t) == IF isCall(t) /\ calledFn(t) # "" /\ L.prog.functions[calledFn(t)].extern THEN calledFn(t) ELSE ""
CallC(t) ==
  /\ CASE calledC(t) = "out" -> gives(t, arg(t, 1).k = "int", Undef) /\ event(t, [k |-> "out", n |-> IF arg(t, 1).k = "int" THEN arg(t, 1).n ELSE 0]) /\ UNCHANGED picks
       [] calledC(t) = "ping" -> (\E n \in {0, 1} : garbage(t, n)) /\ event(t, [k |-> "out", n |-> 99]) /\ UNCHANGED picks
       [] calledC(t) = "pick" -> \E n \in {0, 1} : gives(t, TRUE, IntV(n)) /\ picks' = [picks EXCEPT ![t] = Append(@, n)] /\ UNCHANGED did
       [] OTHER -> FALSE
  /\ UNCHANGED <<L, objects, blocks, calls>>
\* start(f): f runs in the second thread
CallStart(t) ==
  /\ calledC(t) = "start"
  /\ enters(2, advanced(t, 0, Undef), L.globals[arg(t, 1).global].fn, <<>>, 0)
  /\ UNCHANGED <<L, blocks, did, picks, bad>>

\* ---- The functions of errors.sd ----------------------------------------------------
blockObject(t) == <<-1, t>>
panicObject(t) == <<-2, t>>
\* The block of the thread is there, made from the template when it was not
withBlock(t) == IF blocks[t].k = "ptr" THEN objects ELSE (blockObject(t) :> L.globals[L.template].data) @@ objects
errorsCall(t, name) == isCall(t) /\ inst(t).x.kind = "errors" /\ inst(t).x.callee = name
thrownAt(t) == PtrV(blockObject(t), threadOffset(L.prog.threadLocals, CHOOSE i \in threadLocalIndex(L, "thrownError") : TRUE))
thrown(t) == IF blocks[t].k = "ptr" THEN valueOf(bytesAt(thrownAt(t), 8)) ELSE IntV(0)
Panic(t) ==
  /\ \E name \in {"panicIndexOutOfBounds", "panicDivisionByZero", "panicAssertion"} : errorsCall(t, name)
  /\ gives(t, TRUE, Undef)
  /\ objects' = (panicObject(t) :> bytesOf(IntV(0), 1)) @@
                [withBlock(t) EXCEPT ![blockObject(t)] = replaceAt(@, thrownAt(t).offset, bytesOf(PtrV(panicObject(t), 0), 8))]
  /\ blocks' = [blocks EXCEPT ![t] = PtrV(blockObject(t), 0)]
  /\ UNCHANGED <<L, did, picks, calls>>
TraceThrow(t) ==
  /\ errorsCall(t, "traceThrow")
  /\ gives(t, TRUE, Undef)
  /\ IF thrown(t) = IntV(0) THEN UNCHANGED did ELSE event(t, [k |-> "frame", fn |-> inst(t).x.about])
  /\ UNCHANGED <<L, objects, blocks, picks, calls>>
ReportUncaught(t) ==
  /\ errorsCall(t, "reportUncaught")
  /\ IF thrown(t) = IntV(0) THEN gives(t, TRUE, Undef) /\ UNCHANGED did
     ELSE event(t, [k |-> "uncaught"]) /\ stacks' = [u \in Threads |-> <<>>] /\ UNCHANGED bad
  /\ UNCHANGED <<L, objects, blocks, picks, calls>>
ThreadBlock(t) ==
  /\ \/ errorsCall(t, "startThreadBlocks") /\ gives(t, TRUE, Undef) /\ UNCHANGED <<objects, blocks>>
     \/ errorsCall(t, "pthread_getspecific") /\ gives(t, TRUE, blocks[t]) /\ UNCHANGED <<objects, blocks>>
     \/ /\ errorsCall(t, "newThreadBlock")
        /\ gives(t, TRUE, Undef)
        /\ objects' = withBlock(t)
        /\ blocks' = [blocks EXCEPT ![t] = PtrV(blockObject(t), 0)]
  /\ UNCHANGED <<L, did, picks, calls>>
\* The bytes of a string that is in memory
stringAt(p) == bytesAt(valueOf(bytesAt(p, 8)), valueOf(bytesAt(offset(p, 8), 8)).n)
CompareStrings(t) ==
  /\ errorsCall(t, "runtime_compare_strings")
  /\ gives(t, TRUE, IntV(IF stringAt(arg(t, 1)) = stringAt(arg(t, 2)) THEN 0 ELSE 1))
  /\ UNCHANGED objects
  /\ Silent

\* ---- The ends of blocks ---------------------------------------------------------------
goTo(t, b) == stacks' = [stacks EXCEPT ![t][Len(stacks[t])].block = b, ![t][Len(stacks[t])].pc = 1]
Jump(t) ==
  LET term == code(t).term IN
  /\ atTerm(t) /\ term.kind \in {"jmp", "br"}
  /\ \/ term.kind = "jmp" /\ goTo(t, term.target) /\ UNCHANGED bad
     \/ /\ term.kind = "br"
        /\ bad' = IF val(t, term.cond).k = "int" THEN bad ELSE "br"
        /\ goTo(t, IF val(t, term.cond) = IntV(0) THEN term.other ELSE term.target)
  /\ UNCHANGED <<L, objects, blocks, did, picks, calls>>
\* The flag that is returned is what the caller's call gives
Return(t) ==
  LET term == code(t).term
      caller == Len(stacks[t]) - 1
      rest == SubSeq(stacks[t], 1, caller)
  IN
  /\ atTerm(t) /\ term.kind = "ret"
  /\ objects' = [o \in {x \in DOMAIN objects : x[1] # top(t).id} |-> objects[o]]
  /\ stacks' = [stacks EXCEPT ![t] =
       IF caller = 0 \/ top(t).dst = 0 THEN rest ELSE [rest EXCEPT ![caller].regs[top(t).dst] = val(t, term.value)]]
  /\ did' = IF caller = 0 /\ t = 1 THEN [did EXCEPT ![t] = Append(@, [k |-> "end"])] ELSE did
  /\ UNCHANGED <<L, blocks, picks, calls, bad>>

\* main is called when everything is lowered
Start ==
  /\ lowered /\ calls[1] = 0
  /\ calls' = [calls EXCEPT ![1] = 1] /\ steps' = 1
  /\ stacks' = [stacks EXCEPT ![1] = <<frameOf(frameId(1), "main", <<>>, 0)>>]
  /\ objects' = [o \in {<<0, g>> : g \in {h \in 1 .. Len(L.globals) : L.globals[h].kind = "data"}} |-> L.globals[o[2]].data]
                  @@ slotsOf(frameId(1), "main")
  /\ UNCHANGED <<L, blocks, did, picks, bad>>
Step(t) ==
  /\ bad = "" /\ steps < MaxSteps
  /\ steps' = steps + 1
  /\ \/ Value(t) \/ Load(t) \/ Store(t) \/ Copy(t) \/ Call(t) \/ CallC(t) \/ CallStart(t)
     \/ Panic(t) \/ TraceThrow(t) \/ ReportUncaught(t) \/ ThreadBlock(t) \/ CompareStrings(t) \/ Jump(t) \/ Return(t)

ended == calls[1] > 0 /\ \A t \in Threads : stacks[t] = <<>>
Done == ended /\ UNCHANGED vars
Next == LowerFunction \/ Start \/ (\E t \in Threads : Step(t)) \/ Done
Spec == Init /\ [][Next]_vars

\* ---- Properties -----------------------------------------------------------------------
\* Every function that lower_function makes passes ir_verify: operands of the right types, every block of the layout
\* ended, each vreg defined once, and no way from the entry to a use of a vreg that is not defined on it
LoweredVerifies == calls[1] = 0 => \A f \in DOMAIN L.funcs : Verified(L.funcs[f])

\* A program that was lowered does what its tree means, in the same order: the calls it makes, with which values, which
\* way errors go through defers, catches and functions, and how it ends; and it does end, as every way out of a loop leaves it
SameEffects ==
  /\ steps < MaxSteps
  /\ ended => /\ did[1] = Means(L.prog, "main", picks[1])
              /\ calls[2] > 0 => did[2] = Front(Means(L.prog, L.prog.second, picks[2]))

\* No instruction uses a value that was never stored, or memory outside of an object or of a frame that is gone: slots
\* are not cleared when a function starts, so the lowering has to give each its value on every path
NothingUndefined == bad = ""

\* An error that is being thrown is put aside while the program's code runs: no function is called with one in
\* thrownError, as the check after a call in it would take the error for the callee's
ErrorParked == \A t \in Threads : isCall(t) /\ inst(t).x.kind # "errors" => thrown(t) = IntV(0)

\* Every symbol is defined once, each function has its own, and a function of C keeps the name it is linked by, whichever
\* was referred to first
SymbolsRight ==
  /\ \A f, h \in DOMAIN L.queued : L.queued[f] = L.queued[h] => f = h
  /\ \A g, h \in 1 .. Len(L.globals) : L.globals[g].name = L.globals[h].name => g = h
  /\ \A f \in DOMAIN L.queued : L.prog.functions[f].extern => L.globals[L.queued[f]].name = L.prog.functions[f].symbol
=============================================================================
