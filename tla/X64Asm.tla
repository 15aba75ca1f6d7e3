------------------------------- MODULE X64Asm -------------------------------
(***************************************************************************)
(* The encoder of the assembler (x64_asm.c): what a line with an           *)
(* instruction becomes. A 64-bit number is the sequence of its 8 bytes,    *)
(* the lowest first. A register is a name, and a symbol a sequence of      *)
(* parts: a name that starts with '.' is [dot |-> TRUE], and belongs to    *)
(* the label before it. An operand of the text is one of                   *)
(*                                                                         *)
(*   [is |-> "word", word]          rax, or a name without the '$'         *)
(*   [is |-> "number", negative, digits]                                   *)
(*   [is |-> "name", name]          $f, .L3                                *)
(*   [is |-> "memory", size, base, terms]     qword [rbp-8], [r8 + r9]     *)
(*   [is |-> "rel", size, name, addend]       [rel $name+8]                *)
(*                                                                         *)
(* A word that atoi() reads as another one (xmm05) is written like that    *)
(* one (xmm5), and operands after the third, which nothing reads, are left *)
(* out.                                                                    *)
(***************************************************************************)
EXTENDS Integers, Sequences, SequencesExt

CONSTANT NameSize       \* The parts of a name that fit in a symbol
ASSUME NameSizeAssumption == NameSize \in Nat \ {0}

\* The 64-bit number of a small integer, and arithmetic on such numbers
Word(n) == LET high == IF n < 0 THEN 255 ELSE 0 IN <<n % 256, (n \div 256) % 256, (n \div 65536) % 256, (n \div 16777216) % 256, high, high, high, high>>
Plus(v, w) ==
    LET sum(i, below) == v[i] + w[i] + (below \div 256)
        s1 == sum(1, 0)  s2 == sum(2, s1)  s3 == sum(3, s2)  s4 == sum(4, s3)
        s5 == sum(5, s4) s6 == sum(6, s5)  s7 == sum(7, s6)  s8 == sum(8, s7)
    IN  <<s1 % 256, s2 % 256, s3 % 256, s4 % 256, s5 % 256, s6 % 256, s7 % 256, s8 % 256>>
Complement(v) == <<255 - v[1], 255 - v[2], 255 - v[3], 255 - v[4], 255 - v[5], 255 - v[6], 255 - v[7], 255 - v[8]>>
Negated(v) == Plus(Complement(v), Word(1))
extended(bytes, with) == bytes \o SubSeq(<<with, with, with, with, with, with, with, with>>, 1, 8 - Len(bytes))
SignExtended(bytes) == extended(bytes, IF Last(bytes) >= 128 THEN 255 ELSE 0)
ZeroExtended(bytes) == extended(bytes, 0)

\* The mistake of taking the byte as unsigned
fits_i8Unsigned(v) == v = ZeroExtended(SubSeq(v, 1, 1))
fits_i8(v) == v = SignExtended(SubSeq(v, 1, 1))
fits_i32(v) == v = SignExtended(SubSeq(v, 1, 4))
fits_u32(v) == v = ZeroExtended(SubSeq(v, 1, 4))

-----------------------------------------------------------------------------
(* Operands                                                                *)

asm_reg64 == <<"rax", "rcx", "rdx", "rbx", "rsp", "rbp", "rsi", "rdi", "r8", "r9", "r10", "r11", "r12", "r13", "r14", "r15">>
asm_reg32 == <<"eax", "ecx", "edx", "ebx", "esp", "ebp", "esi", "edi", "r8d", "r9d", "r10d", "r11d", "r12d", "r13d", "r14d", "r15d">>
asm_reg16 == <<"ax", "cx", "dx", "bx", "sp", "bp", "si", "di", "r8w", "r9w", "r10w", "r11w", "r12w", "r13w", "r14w", "r15w">>
asm_reg8 == <<"al", "cl", "dl", "bl", "spl", "bpl", "sil", "dil", "r8b", "r9b", "r10b", "r11b", "r12b", "r13b", "r14b", "r15b">>
asm_xmm == <<"xmm0", "xmm1", "xmm2", "xmm3", "xmm4", "xmm5", "xmm6", "xmm7", "xmm8", "xmm9", "xmm10", "xmm11", "xmm12", "xmm13", "xmm14", "xmm15">>

\* An operand: base and index are -1 for none, a base of -1 is rip-relative
Operand == [ok |-> TRUE, kind |-> "none", reg |-> 0, width |-> 0, high8 |-> FALSE, base |-> -1, index |-> -1, disp |-> Word(0), symbol |-> <<>>, imm |-> Word(0)]
BadOperand == [Operand EXCEPT !.ok = FALSE]

registerOf(names, name, width) == [Operand EXCEPT !.kind = "reg", !.reg = SelectInSeq(names, LAMBDA x : x = name) - 1, !.width = width]

asm_parse_register(name) ==
    CASE Contains(asm_reg64, name) -> registerOf(asm_reg64, name, 8)
      [] Contains(asm_reg32, name) -> registerOf(asm_reg32, name, 4)
      [] Contains(asm_reg16, name) -> registerOf(asm_reg16, name, 2)
      [] Contains(asm_reg8, name) -> LET op == registerOf(asm_reg8, name, 1) IN [op EXCEPT !.high8 = op.reg \in 4..7]
      [] Contains(asm_xmm, name) -> [registerOf(asm_xmm, name, 16) EXCEPT !.kind = "xmm"]
      [] OTHER -> BadOperand

asm_parse_number(text) == IF text.negative THEN Negated(text.digits) ELSE text.digits

\* The mistake of leaving out the function that a label belongs to
asm_symbol_nameAlone(name, scope) == SubSeq(name.parts, 1, IF Len(name.parts) < NameSize THEN Len(name.parts) ELSE NameSize)

\* A name that is too long for the symbol is cut off
asm_symbol_name(name, scope) ==
    LET full == IF name.dot THEN scope \o name.parts ELSE name.parts IN SubSeq(full, 1, IF Len(full) < NameSize THEN Len(full) ELSE NameSize)

\* The name that an operand is or has
nameOf(text) == IF text.is = "word" THEN [dot |-> FALSE, parts |-> <<text.word>>] ELSE text.name

widthOf(size) == CASE size = "byte" -> 1 [] size = "word" -> 2 [] size = "dword" -> 4 [] size = "qword" -> 8 [] OTHER -> 0

\* The terms after the base: one register can be added, numbers are added and subtracted
asm_parse_memory(text) ==
    LET base == asm_parse_register(text.base)
        added == {i \in DOMAIN text.terms : text.terms[i].is # "number"}
        index(i) == asm_parse_register(text.terms[i].reg)
        isIndex(i) == text.terms[i].sign = "+" /\ index(i).kind = "reg" /\ index(i).width = 8 /\ index(i).reg # 4
        sum(v, t) == IF t.is # "number" THEN v ELSE Plus(v, IF t.sign = "-" THEN Negated(t.digits) ELSE t.digits)
    IN  IF base.kind # "reg" \/ base.width # 8 \/ \E i, j \in added : i # j \/ ~isIndex(i) THEN BadOperand
        ELSE [Operand EXCEPT !.kind = "mem", !.base = base.reg, !.index = IF added = {} THEN -1 ELSE index(CHOOSE i \in added : TRUE).reg, !.disp = FoldLeft(sum, Word(0), text.terms)]

\* What is neither an address nor a register nor a number is a name
asm_parse_operand(text, scope) ==
    CASE text.is = "memory" -> [asm_parse_memory(text) EXCEPT !.width = widthOf(text.size)]
      [] text.is = "rel" -> [Operand EXCEPT !.kind = "mem", !.symbol = asm_symbol_name(text.name, scope), !.disp = asm_parse_number(text.addend), !.width = widthOf(text.size)]
      [] text.is = "word" /\ asm_parse_register(text.word).ok -> asm_parse_register(text.word)
      [] text.is = "number" -> [Operand EXCEPT !.kind = "imm", !.imm = asm_parse_number(text)]
      [] OTHER -> [Operand EXCEPT !.kind = "label", !.symbol = asm_symbol_name(nameOf(text), scope)]

-----------------------------------------------------------------------------
(* Encoding                                                                *)

\* The relocations of an instruction have offsets in it. rip is the field of a rip-relative address, or -1
Encoded(bytes) == [ok |-> TRUE, bytes |-> bytes, relocs |-> <<>>, rip |-> -1]
Refused == [Encoded(<<>>) EXCEPT !.ok = FALSE]
Reloc(offset, kind, symbol, addend) == [section |-> "text", offset |-> offset, kind |-> kind, symbol |-> symbol, addend |-> addend, trailing |-> 0]

enc_imm(e, value, size) == [e EXCEPT !.bytes = @ \o SubSeq(value, 1, size)]

bit(holds, value) == IF holds THEN value ELSE 0
opt(holds, byte) == IF holds THEN <<byte>> ELSE <<>>

enc_modrm(prefix, rex_w, opcode, reg, reg_high8, rm) ==
    LET isRegister == rm.kind \in {"reg", "xmm"}
        rex == \h40 + bit(rex_w, 8) + bit(reg >= 8, 4) + bit(~isRegister /\ rm.index >= 8, 2) + bit((IF isRegister THEN rm.reg ELSE rm.base) >= 8, 1)
        need_rex == rex # \h40 \/ reg_high8 \/ (rm.kind = "reg" /\ rm.high8)
        opcodes == prefix \o opt(need_rex, rex) \o opcode
        r == (reg % 8) * 8
        base == rm.base % 8
        mod == IF rm.disp = Word(0) /\ base # 5 THEN 0 ELSE IF fits_i8(rm.disp) THEN 1 ELSE 2
        sib == CASE rm.index >= 0 -> <<(rm.index % 8) * 8 + base>>
                 [] base = 4 -> <<\h24>>
                 [] OTHER -> <<>>
        modrm == mod * 64 + r + (IF sib = <<>> THEN base ELSE 4)
    IN  CASE isRegister -> Encoded(opcodes \o <<\hC0 + r + (rm.reg % 8)>>)
          [] rm.kind = "mem" /\ rm.base < 0 ->
                [Encoded(opcodes \o <<5 + r, 0, 0, 0, 0>>) EXCEPT
                    !.rip = Len(opcodes) + 1, !.relocs = <<Reloc(Len(opcodes) + 1, "rel32", rm.symbol, rm.disp)>>]
          [] rm.kind = "mem" /\ rm.base >= 0 /\ fits_i32(rm.disp) ->
                enc_imm(Encoded(opcodes \o <<modrm>> \o sib), rm.disp, CASE mod = 0 -> 0 [] mod = 1 -> 1 [] mod = 2 -> 4)
          [] OTHER -> Refused

enc_finish(e) == [e EXCEPT !.relocs = [i \in DOMAIN @ |-> IF @[i].offset = e.rip THEN [@[i] EXCEPT !.trailing = Len(e.bytes) - (e.rip + 4)] ELSE @[i]]]

is_rm(op) == op.kind \in {"reg", "mem"}
is_xm(op) == op.kind \in {"xmm", "mem"}

asm_width(a, b) ==
    CASE a.kind = "reg" -> a.width
      [] a.kind # "reg" /\ b.kind = "reg" -> b.width
      [] a.kind = "mem" /\ b.kind # "reg" /\ a.width # 0 -> a.width
      [] a.kind # "reg" /\ ~(a.kind = "mem" /\ a.width # 0) /\ b.kind = "mem" -> b.width
      [] OTHER -> 0

prefix16(width) == opt(width = 2, \h66)
enc_gpr(width, opcode8, opcode, reg, reg_high8, rm) == enc_modrm(prefix16(width), width = 8, <<IF width = 1 THEN opcode8 ELSE opcode>>, reg, reg_high8, rm)

\* An instruction with an immediate after its operand
withImm(e, imm, size) == IF e.ok THEN enc_imm(e, imm, size) ELSE e

asm_condition(cc) ==
    LET codes == [o |-> 0, no |-> 1, b |-> 2, c |-> 2, nae |-> 2, ae |-> 3, nb |-> 3, nc |-> 3, e |-> 4, z |-> 4,
                  ne |-> 5, nz |-> 5, be |-> 6, na |-> 6, a |-> 7, nbe |-> 7, s |-> 8, ns |-> 9, p |-> 10, pe |-> 10,
                  np |-> 11, po |-> 11, l |-> 12, nge |-> 12, ge |-> 13, nl |-> 13, le |-> 14, ng |-> 14, g |-> 15, nle |-> 15]
    IN  IF cc \in DOMAIN codes THEN codes[cc] ELSE -1

-----------------------------------------------------------------------------
(* One group of instructions each. a and b are the operands, of kind none  *)
(* when there are fewer                                                    *)

encPlain(m) ==
    LET opcodes == [ret |-> <<\hC3>>, leave |-> <<\hC9>>, cqo |-> <<\h48, \h99>>, cdq |-> <<\h99>>, nop |-> <<\h90>>]
    IN  IF m \in DOMAIN opcodes THEN Encoded(opcodes[m]) ELSE Refused

alu == <<"add", "or", "adc", "sbb", "and", "sub", "xor", "cmp">>

\* An immediate that fits a byte is one, and rax has a form of its own for the others
encAlu(m, a, b) ==
    LET op == SelectInSeq(alu, LAMBDA x : x = m) - 1
        width == asm_width(a, b)
        immSize == IF width = 2 THEN 2 ELSE 4
    IN  CASE is_rm(a) /\ b.kind = "reg" -> enc_gpr(width, op * 8, op * 8 + 1, b.reg, b.high8, a)
          [] a.kind = "reg" /\ b.kind = "mem" -> enc_gpr(width, op * 8 + 2, op * 8 + 3, a.reg, a.high8, b)
          [] is_rm(a) /\ b.kind = "imm" /\ width # 0 ->
               (CASE width = 1 -> withImm(enc_gpr(1, \h80, \h80, op, FALSE, a), b.imm, 1)
                  [] width # 1 /\ fits_i8(b.imm) -> withImm(enc_gpr(width, \h83, \h83, op, FALSE, a), b.imm, 1)
                  [] width # 1 /\ ~fits_i8(b.imm) /\ a.kind = "reg" /\ a.reg = 0 ->
                        enc_imm(Encoded(prefix16(width) \o opt(width = 8, \h48) \o <<op * 8 + 5>>), b.imm, immSize)
                  [] OTHER -> withImm(enc_gpr(width, \h81, \h81, op, FALSE, a), b.imm, immSize))
          [] OTHER -> Refused

\* A number that fits 32 bits without a sign goes to the 32-bit register, which clears the upper half
movImm(a, imm) ==
    LET width == IF a.width = 8 /\ fits_u32(imm) THEN 4 ELSE a.width
        rex == \h40 + bit(width = 8, 8) + bit(a.reg >= 8, 1)
    IN  IF width = 8 /\ fits_i32(imm) THEN withImm(enc_gpr(8, \hC7, \hC7, 0, FALSE, a), imm, 4)
        ELSE enc_imm(Encoded(prefix16(width) \o opt(rex # \h40 \/ a.high8, rex) \o <<(IF width = 1 THEN \hB0 ELSE \hB8) + (a.reg % 8)>>), imm, width)

encMov(a, b) ==
    LET width == asm_width(a, b) IN
    CASE is_rm(a) /\ b.kind = "reg" -> enc_gpr(width, \h88, \h89, b.reg, b.high8, a)
      [] a.kind = "reg" /\ b.kind = "mem" -> enc_gpr(width, \h8A, \h8B, a.reg, a.high8, b)
      [] a.kind = "reg" /\ b.kind = "imm" -> movImm(a, b.imm)
      [] a.kind = "mem" /\ b.kind = "imm" /\ width # 0 -> withImm(enc_gpr(width, \hC6, \hC7, 0, FALSE, a), b.imm, IF width = 8 THEN 4 ELSE width)
      [] OTHER -> Refused

\* lea, movzx, movsx, movsxd, imul: a general register from another or from memory
encLoad(m, a, b) ==
    LET into(opcode) == enc_modrm(prefix16(a.width), a.width = 8, opcode, a.reg, FALSE, b) IN
    CASE m = "lea" /\ b.kind = "mem" -> into(<<\h8D>>)
      [] m = "imul" -> into(<<\h0F, \hAF>>)
      [] m = "movsxd" -> enc_modrm(<<>>, TRUE, <<\h63>>, a.reg, FALSE, b)
      [] m \in {"movzx", "movsx"} /\ b.width \in {1, 2} -> into(<<\h0F, (IF m = "movzx" THEN \hB6 ELSE \hBE) + bit(b.width = 2, 1)>>)
      [] OTHER -> Refused

unaryOps == [not |-> <<\hF6, 2>>, neg |-> <<\hF6, 3>>, mul |-> <<\hF6, 4>>, div |-> <<\hF6, 6>>, idiv |-> <<\hF6, 7>>, inc |-> <<\hFE, 0>>, dec |-> <<\hFE, 1>>]
encUnary(m, a) ==
    IF is_rm(a) /\ a.width # 0 THEN enc_gpr(a.width, unaryOps[m][1], unaryOps[m][1] + 1, unaryOps[m][2], FALSE, a) ELSE Refused

shifts == [rol |-> 0, ror |-> 1, shl |-> 4, sal |-> 4, shr |-> 5, sar |-> 7]
encShift(m, a, b) ==
    CASE ~is_rm(a) \/ a.width = 0 -> Refused
      [] is_rm(a) /\ a.width # 0 /\ b.kind = "reg" /\ b.reg = 1 /\ b.width = 1 -> enc_gpr(a.width, \hD2, \hD3, shifts[m], FALSE, a)
      [] is_rm(a) /\ a.width # 0 /\ b.kind = "imm" ->
            IF b.imm = Word(1) THEN enc_gpr(a.width, \hD0, \hD1, shifts[m], FALSE, a)
            ELSE withImm(enc_gpr(a.width, \hC0, \hC1, shifts[m], FALSE, a), b.imm, 1)
      [] OTHER -> Refused

bits == [bt |-> 4, bts |-> 5, btr |-> 6, btc |-> 7]
encBits(m, a, b) ==
    IF is_rm(a) /\ b.kind = "imm" THEN withImm(enc_modrm(prefix16(a.width), a.width = 8, <<\h0F, \hBA>>, bits[m], FALSE, a), b.imm, 1) ELSE Refused

encSet(cc, a) == IF is_rm(a) /\ asm_condition(cc) >= 0 THEN enc_modrm(<<>>, FALSE, <<\h0F, \h90 + asm_condition(cc)>>, 0, FALSE, a) ELSE Refused

encStack(m, a) ==
    IF a.kind = "reg" /\ a.width = 8 THEN Encoded(opt(a.reg >= 8, \h41) \o <<(IF m = "push" THEN \h50 ELSE \h58) + (a.reg % 8)>>) ELSE Refused

encCall(a) ==
    CASE is_rm(a) -> enc_modrm(<<>>, FALSE, <<\hFF>>, 2, FALSE, a)
      [] a.kind = "label" -> [Encoded(<<\hE8, 0, 0, 0, 0>>) EXCEPT !.relocs = <<Reloc(1, "rel32", a.symbol, Word(0))>>]
      [] OTHER -> Refused

\* The moves of xmm registers: how the load and the store are prefixed, and their opcodes
sseMoves == [movsd |-> <<<<\hF2>>, \h10, \h11>>, movss |-> <<<<\hF3>>, \h10, \h11>>, movaps |-> <<<<>>, \h28, \h29>>, movups |-> <<<<>>, \h10, \h11>>]
encSseMove(m, a, b) ==
    CASE m \in DOMAIN sseMoves /\ a.kind = "xmm" /\ is_xm(b) -> enc_modrm(sseMoves[m][1], FALSE, <<\h0F, sseMoves[m][2]>>, a.reg, FALSE, b)
      [] m \in DOMAIN sseMoves /\ a.kind = "mem" /\ b.kind = "xmm" -> enc_modrm(sseMoves[m][1], FALSE, <<\h0F, sseMoves[m][3]>>, b.reg, FALSE, a)
      [] m \in {"movq", "movd"} /\ a.kind = "xmm" /\ is_rm(b) -> enc_modrm(<<\h66>>, m = "movq", <<\h0F, \h6E>>, a.reg, FALSE, b)
      [] m \in {"movq", "movd"} /\ is_rm(a) /\ b.kind = "xmm" -> enc_modrm(<<\h66>>, m = "movq", <<\h0F, \h7E>>, b.reg, FALSE, a)
      [] OTHER -> Refused

asm_sse_arith ==
    [addsd |-> <<<<\hF2>>, \h58>>, addss |-> <<<<\hF3>>, \h58>>, subsd |-> <<<<\hF2>>, \h5C>>, subss |-> <<<<\hF3>>, \h5C>>,
     mulsd |-> <<<<\hF2>>, \h59>>, mulss |-> <<<<\hF3>>, \h59>>, divsd |-> <<<<\hF2>>, \h5E>>, divss |-> <<<<\hF3>>, \h5E>>,
     ucomisd |-> <<<<\h66>>, \h2E>>, ucomiss |-> <<<<>>, \h2E>>, xorps |-> <<<<>>, \h57>>,
     cvtss2sd |-> <<<<\hF3>>, \h5A>>, cvtsd2ss |-> <<<<\hF2>>, \h5A>>, sqrtsd |-> <<<<\hF2>>, \h51>>, sqrtss |-> <<<<\hF3>>, \h51>>]
encSse(m, a, b) ==
    IF a.kind = "xmm" /\ is_xm(b) THEN enc_modrm(asm_sse_arith[m][1], FALSE, <<\h0F, asm_sse_arith[m][2]>>, a.reg, FALSE, b) ELSE Refused

conversions == [cvtsi2sd |-> \hF2, cvtsi2ss |-> \hF3, cvttsd2si |-> \hF2, cvttss2si |-> \hF3]
encConvert(m, a, b) ==
    CASE m \in {"cvtsi2sd", "cvtsi2ss"} /\ a.kind = "xmm" /\ is_rm(b) -> enc_modrm(<<conversions[m]>>, b.width = 8, <<\h0F, \h2A>>, a.reg, FALSE, b)
      [] m \in {"cvttsd2si", "cvttss2si"} /\ a.kind = "reg" /\ is_xm(b) -> enc_modrm(<<conversions[m]>>, a.width = 8, <<\h0F, \h2C>>, a.reg, FALSE, b)
      [] OTHER -> Refused

asm_encode(m, cc, ops) ==
    LET n == Len(ops)
        a == IF n > 0 THEN ops[1] ELSE Operand
        b == IF n > 1 THEN ops[2] ELSE Operand
    IN  CASE n = 0 -> encPlain(m)
          [] n = 2 /\ Contains(alu, m) -> encAlu(m, a, b)
          [] n = 2 /\ m = "test" /\ is_rm(a) /\ b.kind = "reg" -> enc_gpr(asm_width(a, b), \h84, \h85, b.reg, b.high8, a)
          [] n = 2 /\ m = "mov" -> encMov(a, b)
          [] n = 2 /\ m \in {"lea", "movzx", "movsx", "movsxd", "imul"} /\ a.kind = "reg" /\ is_rm(b) -> encLoad(m, a, b)
          [] n = 1 /\ m \in DOMAIN unaryOps -> encUnary(m, a)
          [] n = 2 /\ m \in DOMAIN shifts -> encShift(m, a, b)
          [] n = 2 /\ m \in DOMAIN bits -> encBits(m, a, b)
          [] n = 1 /\ m = "set" -> encSet(cc, a)
          [] n = 1 /\ m \in {"push", "pop"} -> encStack(m, a)
          [] n = 1 /\ m = "call" -> encCall(a)
          [] n = 2 /\ m \in DOMAIN sseMoves \cup {"movq", "movd"} -> encSseMove(m, a, b)
          [] n = 2 /\ m \in DOMAIN asm_sse_arith -> encSse(m, a, b)
          [] n = 2 /\ m \in DOMAIN conversions -> encConvert(m, a, b)
          [] OTHER -> Refused
=============================================================================
