----------------------------- MODULE X64Decode -----------------------------
(***************************************************************************)
(* What the processor does with the bytes of an instruction, after its     *)
(* manual and not after the assembler: the meaning (see X64Manual), and    *)
(* the length. Jumps by a number of bytes are in X64Manual.                *)
(***************************************************************************)
EXTENDS X64Manual

AluOf == <<"add", "or", "adc", "sbb", "and", "sub", "xor", "cmp">>
ShiftOf == <<"rol", "ror", "rcl", "rcr", "shl", "shr", "sal", "sar">>
UnaryOf == <<"test", "test", "not", "neg", "mul", "imul", "div", "idiv">>
BitOf == <<"", "", "", "", "bt", "bts", "btr", "btc">>
Scalar(prefix, sd, ss, other) == CASE prefix = \hF2 -> sd [] prefix = \hF3 -> ss [] OTHER -> other

\* The instruction that starts at the first of the bytes
Decode(bytes) ==
    LET prefix == IF bytes[1] \in {\h66, \hF2, \hF3} THEN bytes[1] ELSE 0
        r0 == IF prefix = 0 THEN 1 ELSE 2
        hasRex == bytes[r0] \in \h40..\h4F
        rex == IF hasRex THEN bytes[r0] - \h40 ELSE 0
        rexW == rex \div 8
        rexR == (rex \div 4) % 2
        rexX == (rex \div 2) % 2
        rexB == rex % 2
        o == IF hasRex THEN r0 + 1 ELSE r0
        two == bytes[o] = \h0F
        op == IF two THEN bytes[o + 1] ELSE bytes[o]
        m == IF two THEN o + 2 ELSE o + 1               \* Where the ModRM byte is
        w == IF rexW = 1 THEN 8 ELSE IF prefix = \h66 THEN 2 ELSE 4
        wOf(code) == IF code % 2 = 0 THEN 1 ELSE w
        mod == bytes[m] \div 64
        ext == (bytes[m] \div 8) % 8
        reg == ext + 8 * rexR
        low == bytes[m] % 8
        hasSib == mod # 3 /\ low = 4
        sib == bytes[m + 1]
        d == IF hasSib THEN m + 2 ELSE m + 1            \* Where the displacement is
        isRip == mod = 0 /\ low = 5
        noBase == hasSib /\ mod = 0 /\ sib % 8 = 5
        dispSize == CASE mod = 3 -> 0 [] mod = 1 -> 1 [] mod = 2 -> 4 [] mod = 0 -> IF isRip \/ noBase THEN 4 ELSE 0
        after == d + dispSize                           \* Where an immediate is
        index == ((sib \div 8) % 8) + 8 * rexX
        address == IF isRip THEN [Nothing EXCEPT !.is = "rip", !.field = d - 1]
                   ELSE [Nothing EXCEPT !.is = "address",
                         !.base = IF noBase THEN "" ELSE RegisterName((IF hasSib THEN sib % 8 ELSE low) + 8 * rexB, 8, TRUE),
                         !.index = IF hasSib /\ index # 4 THEN RegisterName(index, 8, TRUE) ELSE "",
                         !.number = IF dispSize = 0 THEN Word(0) ELSE SignExtended(SubSeq(bytes, d, after - 1))]
        rm(size) == IF mod = 3 THEN RegisterArg(RegisterName(low + 8 * rexB, size, hasRex)) ELSE address
        xm == IF mod = 3 THEN RegisterArg(XmmName(low + 8 * rexB)) ELSE address
        gpr(size) == RegisterArg(RegisterName(reg, size, hasRex))
        xmm == RegisterArg(XmmName(reg))
        imm(at, size) == NumberArg(SignExtended(SubSeq(bytes, at, at + size - 1)))
        cut(arg, size) == NumberArg(AtWidth(arg.number, size))
        immSize == IF w = 2 THEN 2 ELSE 4
        opened == RegisterName((op % 8) + 8 * rexB, 8, TRUE)      \* The register in the opcode
        is(do, size, args, length) == [meaning |-> Meant(do, size, args), length |-> length]
        plain(do, args) == is(do, 0, args, after - 1)
        oneByte ==
            CASE op < \h40 /\ op % 8 \in {0, 1} -> is(AluOf[op \div 8 + 1], wOf(op), <<rm(wOf(op)), gpr(wOf(op))>>, after - 1)
              [] op < \h40 /\ op % 8 \in {2, 3} -> is(AluOf[op \div 8 + 1], wOf(op), <<gpr(wOf(op)), rm(wOf(op))>>, after - 1)
              [] op < \h40 /\ op % 8 = 5 -> is(AluOf[op \div 8 + 1], w, <<RegisterArg(RegisterName(0, w, TRUE)), cut(imm(m, immSize), w)>>, m + immSize - 1)
              [] op \in \h50..\h57 -> is("push", 8, <<RegisterArg(opened)>>, m - 1)
              [] op \in \h58..\h5F -> is("pop", 8, <<RegisterArg(opened)>>, m - 1)
              [] op = \h63 -> is("movsxd", w, <<gpr(8), rm(4)>>, after - 1)
              [] op = \h80 -> is(AluOf[ext + 1], 1, <<rm(1), cut(imm(after, 1), 1)>>, after)
              [] op = \h81 -> is(AluOf[ext + 1], w, <<rm(w), cut(imm(after, immSize), w)>>, after + immSize - 1)
              [] op = \h83 -> is(AluOf[ext + 1], w, <<rm(w), cut(imm(after, 1), w)>>, after)
              [] op \in {\h84, \h85} -> is("test", wOf(op), <<rm(wOf(op)), gpr(wOf(op))>>, after - 1)
              [] op \in {\h88, \h89} -> is("mov", wOf(op), <<rm(wOf(op)), gpr(wOf(op))>>, after - 1)
              [] op \in {\h8A, \h8B} -> is("mov", wOf(op), <<gpr(wOf(op)), rm(wOf(op))>>, after - 1)
              [] op = \h8D -> is("lea", w, <<gpr(w), rm(8)>>, after - 1)
              [] op = \h90 -> is("nop", 0, <<>>, m - 1)
              [] op = \h99 -> is(IF rexW = 1 THEN "cqo" ELSE "cdq", 0, <<>>, m - 1)
              [] op \in \hB0..\hB7 -> is("set", 1, <<RegisterArg(RegisterName((op % 8) + 8 * rexB, 1, hasRex)), cut(imm(m, 1), 1)>>, m)
              [] op \in \hB8..\hBF ->
                    IF w = 2 THEN is("set", 2, <<RegisterArg(RegisterName((op % 8) + 8 * rexB, 2, TRUE)), cut(imm(m, 2), 2)>>, m + 1)
                    ELSE is("set", 8, <<RegisterArg(opened), cut(imm(m, w), w)>>, m + w - 1)
              [] op \in {\hC0, \hC1} -> is(ShiftOf[ext + 1], wOf(op), <<rm(wOf(op)), cut(imm(after, 1), 1)>>, after)
              [] op = \hC3 -> is("ret", 0, <<>>, m - 1)
              [] op \in {\hC6, \hC7} /\ ext = 0 ->
                    LET size == wOf(op) read == IF size = 1 THEN 1 ELSE immSize IN
                    IF mod = 3 /\ size = 8 THEN is("set", 8, <<rm(8), imm(after, 4)>>, after + 3)
                    ELSE is("mov", size, <<rm(size), cut(imm(after, read), size)>>, after + read - 1)
              [] op = \hC9 -> is("leave", 0, <<>>, m - 1)
              [] op = \hCC -> is("int3", 0, <<>>, m - 1)
              [] op \in {\hD0, \hD1} -> is(ShiftOf[ext + 1], wOf(op), <<rm(wOf(op)), NumberArg(Word(1))>>, after - 1)
              [] op \in {\hD2, \hD3} -> is(ShiftOf[ext + 1], wOf(op), <<rm(wOf(op)), RegisterArg("cl")>>, after - 1)
              [] op = \hE8 -> is("call", 8, <<[Nothing EXCEPT !.is = "symbol", !.field = m - 1]>>, m + 3)
              [] op \in {\hF6, \hF7} /\ ext > 1 -> is(UnaryOf[ext + 1], wOf(op), <<rm(wOf(op))>>, after - 1)
              [] op \in {\hFE, \hFF} /\ ext < 2 -> is(IF ext = 0 THEN "inc" ELSE "dec", wOf(op), <<rm(wOf(op))>>, after - 1)
              [] op = \hFF /\ ext = 2 -> is("call", 8, <<rm(8)>>, after - 1)
              [] op = \hFF /\ ext = 4 -> is("jump", 8, <<rm(8)>>, after - 1)
              [] OTHER -> is("unknown", 0, <<>>, 1)
        twoBytes ==
            CASE op = \h10 /\ prefix = 0 -> plain("movups", <<xmm, xm>>)
              [] op = \h10 /\ prefix # 0 -> plain(Scalar(prefix, "movsd", "movss", ""), <<xmm, xm>>)
              [] op = \h11 /\ prefix = 0 -> plain("movups", <<xm, xmm>>)
              [] op = \h11 /\ prefix # 0 -> plain(Scalar(prefix, "movsd", "movss", ""), <<xm, xmm>>)
              [] op = \h28 -> plain("movaps", <<xmm, xm>>)
              [] op = \h29 -> plain("movaps", <<xm, xmm>>)
              [] op = \h2A -> is(Scalar(prefix, "cvtsi2sd", "cvtsi2ss", ""), w, <<xmm, rm(w)>>, after - 1)
              [] op = \h2C -> is(Scalar(prefix, "cvttsd2si", "cvttss2si", ""), w, <<gpr(w), xm>>, after - 1)
              [] op = \h2E -> plain(IF prefix = \h66 THEN "ucomisd" ELSE "ucomiss", <<xmm, xm>>)
              [] op = \h51 -> plain(Scalar(prefix, "sqrtsd", "sqrtss", ""), <<xmm, xm>>)
              [] op = \h57 /\ prefix = 0 -> plain("xorps", <<xmm, xm>>)
              [] op = \h58 -> plain(Scalar(prefix, "addsd", "addss", ""), <<xmm, xm>>)
              [] op = \h59 -> plain(Scalar(prefix, "mulsd", "mulss", ""), <<xmm, xm>>)
              [] op = \h5A -> plain(Scalar(prefix, "cvtsd2ss", "cvtss2sd", ""), <<xmm, xm>>)
              [] op = \h5C -> plain(Scalar(prefix, "subsd", "subss", ""), <<xmm, xm>>)
              [] op = \h5E -> plain(Scalar(prefix, "divsd", "divss", ""), <<xmm, xm>>)
              [] op = \h6E /\ prefix = \h66 -> plain(IF rexW = 1 THEN "movq" ELSE "movd", <<xmm, rm(IF rexW = 1 THEN 8 ELSE 4)>>)
              [] op = \h7E /\ prefix = \h66 -> plain(IF rexW = 1 THEN "movq" ELSE "movd", <<rm(IF rexW = 1 THEN 8 ELSE 4), xmm>>)
              [] op \in \h90..\h9F -> is("set" \o ToString(op - \h90), 1, <<rm(1)>>, after - 1)
              [] op = \hAF -> is("imul", w, <<gpr(w), rm(w)>>, after - 1)
              [] op \in {\hB6, \hB7} -> is("movzx" \o ToString(op - \hB5), w, <<gpr(w), rm(op - \hB5)>>, after - 1)
              [] op = \hBA /\ ext >= 4 -> is(BitOf[ext + 1], w, <<rm(w), cut(imm(after, 1), 1)>>, after)
              [] op \in {\hBE, \hBF} -> is("movsx" \o ToString(op - \hBD), w, <<gpr(w), rm(op - \hBD)>>, after - 1)
              [] OTHER -> is("unknown", 0, <<>>, 1)
    IN  IF two THEN twoBytes ELSE oneByte
=============================================================================
