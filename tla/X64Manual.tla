----------------------------- MODULE X64Manual -----------------------------
(***************************************************************************)
(* What instructions mean, after the processor's manual and not after the  *)
(* assembler: Read gives the meaning of a line of assembly, and DecodeJump *)
(* where jumps by a number of bytes go; Decode, the meaning of other       *)
(* bytes, is in X64Decode. A meaning names what is done, at which width,   *)
(* and with which operands, so that two encodings of the same instruction  *)
(* have the same meaning. An operand is a register by its name, an         *)
(* address, or a number.                                                   *)
(***************************************************************************)
EXTENDS X64Asm, TLC

Legacy == <<"ax", "cx", "dx", "bx", "sp", "bp", "si", "di">>
LowBytes == <<"al", "cl", "dl", "bl", "spl", "bpl", "sil", "dil">>
HighBytes == <<"ah", "ch", "dh", "bh">>

\* The name of general register n at a width. Without a REX prefix, bytes 4 to 7 are the second bytes of the first four
RegisterName(n, w, hasRex) ==
    CASE n < 8 /\ w = 8 -> "r" \o Legacy[n + 1]
      [] n < 8 /\ w = 4 -> "e" \o Legacy[n + 1]
      [] n < 8 /\ w = 2 -> Legacy[n + 1]
      [] n < 8 /\ w = 1 -> IF n >= 4 /\ ~hasRex THEN HighBytes[n - 3] ELSE LowBytes[n + 1]
      [] OTHER -> "r" \o ToString(n) \o (CASE w = 8 -> "" [] w = 4 -> "d" [] w = 2 -> "w" [] w = 1 -> "b")
XmmName(n) == "xmm" \o ToString(n)
WidthOfName == [name \in {RegisterName(n, w, TRUE) : n \in 0..15, w \in {1, 2, 4, 8}} |->
                   CHOOSE w \in {1, 2, 4, 8} : \E n \in 0..15 : RegisterName(n, w, TRUE) = name]
Wide(name) == RegisterName(CHOOSE n \in 0..15 : \E w \in {1, 2, 4, 8} : RegisterName(n, w, TRUE) = name, 8, TRUE)

\* A word is a register or a name
Registers == DOMAIN WidthOfName \cup {XmmName(n) : n \in 0..15}
IsRegister(text) == text.is = "word" /\ text.word \in Registers
IsSymbol(text) == text.is = "name" \/ (text.is = "word" /\ text.word \notin Registers)

Nothing == [is |-> "", reg |-> "", base |-> "", index |-> "", number |-> Word(0), symbol |-> <<>>, field |-> -1]
RegisterArg(name) == [Nothing EXCEPT !.is = "register", !.reg = name]
NumberArg(v) == [Nothing EXCEPT !.is = "number", !.number = v]
Meant(do, w, args) == [do |-> do, w |-> w, args |-> args]

AluNames == {"add", "or", "adc", "sbb", "and", "sub", "xor", "cmp"}
ConditionNames == <<{"o"}, {"no"}, {"b", "c", "nae"}, {"ae", "nb", "nc"}, {"e", "z"}, {"ne", "nz"}, {"be", "na"}, {"a", "nbe"},
                    {"s"}, {"ns"}, {"p", "pe"}, {"np", "po"}, {"l", "nge"}, {"ge", "nl"}, {"le", "ng"}, {"g", "nle"}>>
ConditionOf(cc) == CHOOSE n \in 0..15 : cc \in ConditionNames[n + 1]

\* The first bytes of a number, as the processor sees it at a width
AtWidth(v, w) == ZeroExtended(SubSeq(v, 1, w))

-----------------------------------------------------------------------------
(* Lines                                                                   *)

ReadNumber(text) == IF text.negative THEN Negated(text.digits) ELSE text.digits
ReadArg(text, scope) ==
    LET added == SelectSeq(text.terms, LAMBDA t : t.is = "register")
        sum == FoldLeft(LAMBDA v, t : IF t.is = "number" THEN Plus(v, IF t.sign = "-" THEN Negated(t.digits) ELSE t.digits) ELSE v, Word(0), text.terms)
        symbol == LET name == nameOf(text) IN IF name.dot THEN scope \o name.parts ELSE name.parts
    IN  CASE IsRegister(text) -> RegisterArg(text.word)
          [] text.is = "number" -> NumberArg(ReadNumber(text))
          [] IsSymbol(text) -> [Nothing EXCEPT !.is = "symbol", !.symbol = symbol]
          [] text.is = "rel" -> [Nothing EXCEPT !.is = "rip", !.symbol = symbol, !.number = ReadNumber(text.addend)]
          [] text.is = "memory" -> [Nothing EXCEPT !.is = "address", !.base = text.base, !.number = sum, !.index = IF added = <<>> THEN "" ELSE added[1].reg]

IsGpr(text) == text.is = "word" /\ text.word \in DOMAIN WidthOfName
SizeOf(text) ==
    CASE IsGpr(text) -> WidthOfName[text.word]
      [] text.is \in {"memory", "rel"} -> (CASE text.size = "byte" -> 1 [] text.size = "word" -> 2 [] text.size = "dword" -> 4 [] text.size = "qword" -> 8 [] OTHER -> 0)
      [] OTHER -> 0

Read(m, cc, ops, scope) ==
    LET args == [i \in DOMAIN ops |-> ReadArg(ops[i], scope)]
        w == CASE ops = <<>> -> 0
               [] ops # <<>> /\ IsGpr(ops[1]) -> SizeOf(ops[1])
               [] ops # <<>> /\ ~IsGpr(ops[1]) /\ Len(ops) = 2 /\ IsGpr(Last(ops)) -> SizeOf(ops[2])
               [] OTHER -> SizeOf(ops[1])
        number == args[2].number
        counted(bytes) == Meant(m, w, <<args[1], NumberArg(AtWidth(number, bytes))>>)
        byNumber == Len(args) = 2 /\ args[2].is = "number"
    IN  CASE m \in {"cqo", "cdq", "ret", "leave", "nop"} -> Meant(m, 0, <<>>)
          [] m = "mov" /\ byNumber /\ IsGpr(ops[1]) ->          \* Writing 32 bits clears the upper half
                IF w >= 4 THEN Meant("set", 8, <<RegisterArg(Wide(ops[1].word)), NumberArg(AtWidth(number, w))>>)
                ELSE Meant("set", w, <<args[1], NumberArg(AtWidth(number, w))>>)
          [] m \in AluNames \cup {"mov"} /\ byNumber /\ ~(m = "mov" /\ IsGpr(ops[1])) -> counted(w)
          [] m \in {"rol", "ror", "shl", "sal", "shr", "sar"} ->
                Meant(IF m = "sal" THEN "shl" ELSE m, SizeOf(ops[1]), <<args[1], IF byNumber THEN NumberArg(AtWidth(number, 1)) ELSE RegisterArg("cl")>>)
          [] m \in {"bt", "bts", "btr", "btc"} -> counted(1)
          [] m = "set" -> Meant("set" \o ToString(ConditionOf(cc)), 1, args)
          [] m \in {"movzx", "movsx"} -> Meant(m \o ToString(SizeOf(ops[2])), w, args)
          [] m = "movsxd" -> Meant(m, 8, args)
          [] m \in {"cvtsi2sd", "cvtsi2ss"} -> Meant(m, SizeOf(ops[2]), args)
          [] m \in {"cvttsd2si", "cvttss2si"} -> Meant(m, w, args)
          [] m \in {"push", "pop", "call"} -> Meant(m, 8, args)
          [] \E text \in Range(ops) : IsRegister(text) /\ ~IsGpr(text) -> Meant(m, 0, args)
          [] OTHER -> Meant(m, w, args)

-----------------------------------------------------------------------------
(* Bytes                                                                   *)

\* The signed number of the bytes of a 32-bit field
SignedOf(bytes) == bytes[1] + 256 * (bytes[2] + 256 * (bytes[3] + 256 * (bytes[4] - (IF bytes[4] >= 128 THEN 256 ELSE 0))))

\* A jump by a number of bytes: its meaning, and its length
IsJumpTo(bytes) == bytes[1] \in {\hE9, \hEB} \cup \h70..\h7F \/ (bytes[1] = \h0F /\ bytes[2] \in \h80..\h8F)
DecodeJump(bytes) ==
    LET two == bytes[1] = \h0F
        at == IF two THEN 3 ELSE 2
        size == IF two \/ bytes[1] = \hE9 THEN 4 ELSE 1
        do == CASE bytes[1] \in {\hE9, \hEB} -> "jump"
                [] two -> "jump" \o ToString(bytes[2] - \h80)
                [] OTHER -> "jump" \o ToString(bytes[1] - \h70)
    IN  [meaning |-> Meant(do, size, <<NumberArg(SignExtended(SubSeq(bytes, at, at + size - 1)))>>), length |-> at + size - 1]
=============================================================================
