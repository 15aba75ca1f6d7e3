---------------------------- MODULE MCAssembling ----------------------------
EXTENDS AssembledProgram, X64Decode

\* Operands
R(name) == [is |-> "word", word |-> name]
Number(digits) == [is |-> "number", negative |-> FALSE, digits |-> digits]
Minus(digits) == [is |-> "number", negative |-> TRUE, digits |-> digits]
I(n) == IF n < 0 THEN Minus(Word(-n)) ELSE Number(Word(n))
Plain(x) == [dot |-> FALSE, parts |-> <<x>>]
Dotted(x) == [dot |-> TRUE, parts |-> <<x>>]
To(name) == [is |-> "name", name |-> name]
Rel(size, x, n) == [is |-> "rel", size |-> size, name |-> Plain(x), addend |-> I(n)]
Add(name) == [is |-> "register", sign |-> "+", reg |-> name]
Off(n) == [is |-> "number", sign |-> IF n < 0 THEN "-" ELSE "+", digits |-> Word(IF n < 0 THEN -n ELSE n)]
At(size, base, terms) == [is |-> "memory", size |-> size, base |-> base, terms |-> terms]
Do(m, ops) == [is |-> "instruction", m |-> m, cc |-> "", ops |-> ops]
If(m, cc, op) == [is |-> "instruction", m |-> m, cc |-> cc, ops |-> <<op>>]
SizeWord == [w \in {1, 2, 4, 8} |-> CASE w = 1 -> "byte" [] w = 2 -> "word" [] w = 4 -> "dword" [] w = 8 -> "qword"]

\* Registers of each kind of encoding: the first, the ones with a meaning of their own, and the ones with a prefix
Numbers == {0, 1, 4, 5, 6, 8, 12, 13, 15}
Gpr(w) == {R(RegisterName(n, w, TRUE)) : n \in Numbers}
SomeGpr(w) == {R(RegisterName(n, w, TRUE)) : n \in {0, 6, 9}}
Xmm == {R("xmm0"), R("xmm7"), R("xmm8"), R("xmm15")}
Widths == {1, 2, 4, 8}

Displacements == {<<>>} \cup {<<Off(d)>> : d \in {0, 8, 127, 128, -128, -129, 4096}}
Addresses(size) == {At(size, b, t) : b \in {"rax", "rsp", "rbp", "r12", "r13", "rsi"}, t \in Displacements}
                   \cup {At(size, b, <<Add(i)>> \o t) : b \in {"rax", "rbp", "r13", "r12"}, i \in {"rcx", "rbp", "r12", "r15"}, t \in {<<>>, <<Off(-8)>>, <<Off(300)>>}}
                   \cup {At(size, "rbx", <<Off(8), Off(-16), Off(1)>>), Rel(size, "f", 0), Rel(size, "f", 8), Rel(size, "f", -4)}
SomeAddresses(size) == {At(size, "rbp", <<Off(-8)>>), At(size, "r13", <<>>), At(size, "rax", <<Add("r12")>>), At(size, "rsp", <<Off(200)>>), Rel(size, "f", 8)}
Rm(w) == SomeGpr(w) \cup SomeAddresses(SizeWord[w])

\* Numbers that fit a byte, 16, 32 bits with and without a sign, and more
Small == {I(n) : n \in {0, 1, 127, 128, 255, -1, -128, -129}}
Half == {I(n) : n \in {4096, 65535, -32768}}
Middle == {I(n) : n \in {4096, 65536, 2147483647, -2147483647}} \cup {Minus(<<0, 0, 0, 128, 0, 0, 0, 0>>)}
Unsigned == {Number(<<0, 0, 0, 128, 0, 0, 0, 0>>), Number(<<255, 255, 255, 255, 0, 0, 0, 0>>)}
Big == {Number(<<0, 0, 0, 0, 1, 0, 0, 0>>), Minus(<<1, 0, 0, 128, 0, 0, 0, 0>>), Number(<<1, 2, 3, 4, 5, 6, 7, 128>>)}
Immediates(w) == CASE w = 1 -> Small [] w = 2 -> Small \cup Half [] w = 4 -> Small \cup Middle \cup Unsigned [] w = 8 -> Small \cup Middle

Instructions ==
    UNION {{Do(m, <<a, b>>) : m \in {"add", "cmp", "mov", "test"}, a \in Gpr(w), b \in Gpr(w)} : w \in Widths}
    \cup UNION {{Do(m, <<a, b>>) : m \in Range(alu), a \in Rm(w), b \in SomeGpr(w)} : w \in Widths}
    \cup UNION {{Do(m, <<a, b>>) : m \in {"sub", "mov"}, a \in SomeGpr(w), b \in SomeAddresses("")} : w \in Widths}
    \cup UNION {{Do(m, <<a, b>>) : m \in {"and", "sub", "cmp"}, a \in Rm(w), b \in Immediates(w)} : w \in Widths}
    \cup {Do("mov", <<a, b>>) : a \in Gpr(8) \cup Gpr(4), b \in Small \cup Middle \cup Unsigned}
    \cup {Do("mov", <<a, b>>) : a \in Gpr(8), b \in Big}
    \cup {Do("mov", <<a, b>>) : a \in Gpr(1), b \in Small} \cup {Do("mov", <<a, b>>) : a \in Gpr(2), b \in Half}
    \cup UNION {{Do("mov", <<a, b>>) : a \in SomeAddresses(SizeWord[w]), b \in Immediates(w)} : w \in Widths}
    \cup {Do("mov", <<R("rax"), a>>) : a \in Addresses("qword")} \cup {Do("mov", <<a, R("r15b")>>) : a \in Addresses("")}
    \cup {Do("movsd", <<R("xmm9"), a>>) : a \in Addresses("qword")} \cup {Do("lea", <<R("r9"), a>>) : a \in Addresses("")}
    \cup UNION {{Do(m, <<a, b>>) : m \in {"movzx", "movsx"}, a \in SomeGpr(4) \cup SomeGpr(8), b \in Gpr(w) \cup SomeAddresses(SizeWord[w])} : w \in {1, 2}}
    \cup {Do("movsxd", <<a, b>>) : a \in Gpr(8), b \in Rm(4)}
    \cup UNION {{Do("imul", <<a, b>>) : a \in Gpr(w), b \in Rm(w)} : w \in {2, 4, 8}}
    \cup UNION {{Do(m, <<a>>) : m \in DOMAIN unaryOps, a \in Gpr(w) \cup Rm(w)} : w \in Widths}
    \cup UNION {{Do(m, <<a, b>>) : m \in DOMAIN shifts, a \in Rm(w), b \in {R("cl"), I(1), I(3)}} : w \in Widths}
    \cup UNION {{Do(m, <<a, b>>) : m \in DOMAIN bits, a \in Rm(w), b \in {I(63), I(0)}} : w \in {2, 4, 8}}
    \cup {If("set", cc, a) : cc \in UNION Range(ConditionNames), a \in {R("al"), R("sil"), R("r8b"), Rel("byte", "f", 0)}}
    \cup {Do(m, <<a>>) : m \in {"push", "pop"}, a \in Gpr(8)} \cup {Do("call", <<a>>) : a \in Gpr(8) \cup SomeAddresses("qword") \cup {To(Plain("f")), R("f")}}
    \cup {Do(m, <<>>) : m \in {"ret", "leave", "cqo", "cdq", "nop"}}
    \cup {Do(m, <<a, b>>) : m \in DOMAIN sseMoves \cup DOMAIN asm_sse_arith, a \in Xmm, b \in Xmm \cup SomeAddresses("")}
    \cup {Do(m, <<a, b>>) : m \in DOMAIN sseMoves, a \in SomeAddresses(""), b \in Xmm}
    \cup {Do("movq", <<a, b>>) : a \in Xmm, b \in Rm(8)} \cup {Do("movq", <<b, a>>) : a \in Xmm, b \in Rm(8)}
    \cup {Do("movd", <<a, b>>) : a \in Xmm, b \in Rm(4)} \cup {Do("movd", <<b, a>>) : a \in Xmm, b \in Rm(4)}
    \cup {Do(m, <<a, b>>) : m \in {"cvtsi2sd", "cvtsi2ss"}, a \in Xmm, b \in Rm(4) \cup Rm(8)}
    \cup {Do(m, <<a, b>>) : m \in {"cvttsd2si", "cvttss2si"}, a \in Gpr(4) \cup Gpr(8), b \in Xmm \cup SomeAddresses("")}

\* Lines that have to be refused
MCUnsupported == {Do("bogus", <<R("rax")>>), Do("ret", <<R("rax")>>), Do("push", <<R("eax")>>), Do("mov", <<At("", "rax", <<>>), I(1)>>),
                  Do("add", <<R("rax")>>), Do("lea", <<R("rax"), R("rcx")>>), Do("movzx", <<R("eax"), R("ecx")>>), Do("neg", <<At("", "rax", <<>>)>>),
                  Do("shl", <<R("rax"), R("rcx")>>), Do("btc", <<R("rax"), R("rcx")>>), If("set", "xx", R("al")), If("j", "xx", To(Dotted("L"))),
                  Do("call", <<I(1)>>), Do("movsd", <<R("rax"), R("xmm0")>>), Do("addsd", <<R("rax"), R("xmm0")>>), Do("cvtsi2sd", <<R("rax"), R("rcx")>>),
                  Do("mov", <<R("rax"), [is |-> "memory", size |-> "", base |-> "rbp", terms |-> <<[is |-> "number", sign |-> "+", digits |-> <<0, 0, 0, 128, 0, 0, 0, 0>>]>>]>>),
                  Do("inc", <<R("xmm0")>>), Do("movd", <<R("rax"), R("rcx")>>), Do("mov", <<I(1), I(1)>>), Do("test", <<R("rax"), I(1)>>),
                  Do("mov", <<R("rax"), R("rzx")>>), Do("mov", <<R("f"), R("rax")>>), Do("push", <<R("f")>>), Do("movq", <<R("xmm0"), R("xmm16")>>), Do("jmp", <<R("rax")>>)}
BadOperands == {Do("mov", <<R("rax"), a>>) :
                   a \in {At("", "rzx", <<>>), At("", "eax", <<>>), At("", "rax", <<[Add("rcx") EXCEPT !.sign = "-"]>>), At("", "rax", <<Add("rcx"), Add("rdx")>>)}
                         \cup {At("", "rax", <<Add(x)>>) : x \in {"rzx", "rsp", "ecx"}}}

Label(name) == [is |-> "label", name |-> name]
Section(name) == [is |-> "section", section |-> name]
Extern(x) == [is |-> "extern", name |-> Plain(x)]
Data(size, values) == [is |-> "data", size |-> size, values |-> values]
Align(n) == [is |-> "align", to |-> n]

OneInstruction == {<<Extern("f"), i>> : i \in Instructions \cup MCUnsupported \cup BadOperands}

\* Code of a number of bytes, and jumps over it that have to become long or just reach
Twelve == Do("mov", <<At("qword", "r12", <<Add("r13"), Off(300)>>), I(1)>>)
Padding(n) == [i \in 1..(n \div 12) |-> Twelve] \o [i \in 1..(n % 12) |-> Do("leave", <<>>)]
Jumps == {Label(Dotted("a")), Label(Dotted("b")), Do("jmp", <<To(Dotted("a"))>>), If("j", "e", To(Dotted("b"))), If("j", "nz", To(Dotted("a")))}
Orders == {p \in [1..5 -> Jumps] : \A i, j \in 1..5 : i # j => p[i] # p[j]}
JumpPrograms == {<<Label(Plain("main")), p[1], p[2]>> \o Padding(n) \o <<p[3], p[4], Do("leave", <<>>), p[5]>> : p \in Orders, n \in {115} \cup 119..128}

\* A program that has one of everything, in which a line is left out or another one is inserted
Everything == <<
    Extern("printf"), Extern("open"), [is |-> "global", name |-> Plain("main")],
    Section(".data"), Align(16), Label(Plain("g")), Data(8, <<To(Plain("f")), To(Plain("g"))>>), [is |-> "times", count |-> 3, value |-> 7], Align(8),
    Label(Plain("h")), Data(4, <<I(5), I(-1)>>), Data(8, <<To(Plain("printf"))>>),
    Section(".rdata"), Data(1, <<I(1)>>), Align(16), Label(Plain("r")), Data(8, <<I(7), To(Plain("g"))>>),
    Section(".text"), Label(Plain("main")), Do("call", <<To(Plain("f"))>>), Do("cmp", <<Rel("dword", "h", 4), I(1000)>>), If("j", "e", To(Dotted("L"))),
    Do("mov", <<Rel("byte", "g", 16), I(1)>>), Do("call", <<To(Plain("printf"))>>), Label(Dotted("L")), Do("call", <<To(Plain("open"))>>), Do("ret", <<>>),
    Label(Plain("f")), Label(Dotted("L")), Do("lea", <<R("rax"), Rel("", "r", 8)>>), Do("jmp", <<To(Dotted("L"))>>), Do("ret", <<>>)>>
Inserted == {Label(Plain("f")), Label(Dotted("L")), Label([dot |-> FALSE, parts |-> <<"f", "L">>]),
             Section(".data"), Section(".rodata"), Section(".bss"), Extern("exit"), Extern("g"), Extern("third"), Align(8), Data(4, <<To(Plain("g"))>>),
             Label(Plain("exit")), If("j", "l", To(Plain("g"))), Do("call", <<To(Plain("nowhere"))>>),
             Do("call", <<R("nowhere")>>), Do("call", <<R("printf")>>), If("j", "z", R("f")), Do("jmp", <<R("rzx")>>), [is |-> "global", name |-> Plain("f")], [is |-> "global", name |-> Plain("h")], Do("leave", <<>>)}
LeftOut == {SubSeq(Everything, 1, i - 1) \o SubSeq(Everything, i + 1, Len(Everything)) : i \in DOMAIN Everything}
WithOneMore == {SubSeq(Everything, 1, i) \o <<l>> \o SubSeq(Everything, i + 1, Len(Everything)) : i \in 0..Len(Everything), l \in Inserted}

\* Names that are as long as a symbol can be, or longer
Long == [dot |-> FALSE, parts |-> <<"very", "long", "name">>]
Longer == [dot |-> FALSE, parts |-> <<"very", "long", "name", "too">>]
LongNames == {<<[is |-> "global", name |-> Plain("main")], Label(Plain("main")), Do("call", <<To(Long)>>), Do("ret", <<>>), Label(Long)>> \o rest :
                 rest \in {<<Do("ret", <<>>)>>, <<Label(Dotted("L")), Do("jmp", <<To(Dotted("L"))>>)>>, <<Do("jmp", <<To(Dotted("L"))>>), Label(Dotted("L"))>>, <<Do("ret", <<>>), Label(Longer)>>, <<Do("jmp", <<To(Longer)>>)>>}}
MCSources == OneInstruction \cup JumpPrograms \cup {Everything} \cup {lines \in LeftOut \cup WithOneMore : IsText(lines)} \cup LongNames

-----------------------------------------------------------------------------
(* Object files like the ones of LLVM                                      *)

Header(name, bytes, align) == [name |-> name, extra |-> FALSE, code |-> FALSE, write |-> FALSE, bss |-> FALSE, dropped |-> FALSE, align |-> align, bytes |-> bytes, relocs |-> <<>>]
Counted(n, from) == [i \in 1..n |-> from + i]
Field8 == <<3, 0, 0, 0, 0, 0, 0, 0>>
Field4 == <<5, 0, 0, 0>>
Parts == <<
    [Header(".text", <<1>> \o Field8 \o <<2>>, 16) EXCEPT !.code = TRUE],
    [Header(".data", Field8 \o Counted(5, 20), 8) EXCEPT !.write = TRUE],
    [Header(".text", Counted(3, 40) \o Field8, 4) EXCEPT !.code = TRUE],
    [Header(".bss", zeros(12), 16) EXCEPT !.write = TRUE, !.bss = TRUE],
    Header(".rdata", Counted(3, 60) \o Field8, 8),
    [Header(".drectve", Counted(4, 70), 1) EXCEPT !.dropped = TRUE],
    [Header(".pdata", Field4 \o Field8, 4) EXCEPT !.extra = TRUE],
    [Header(".debug_info", Counted(2, 80) \o Field8, 1) EXCEPT !.extra = TRUE],
    [Header(".pdata", Counted(1, 90) \o Field8, 4) EXCEPT !.extra = TRUE]>>
Entry(name, k, value, external, aux) == [name |-> <<name>>, section |-> k, value |-> value, external |-> external, aux |-> aux]
Entries == <<Entry(".text", 1, 0, FALSE, 1), Entry("more", 9, 9, TRUE, 0), Entry("main", 1, 4, TRUE, 0), Entry("local", 2, 3, FALSE, 0), Entry("local", 3, 5, FALSE, 0),
             Entry("printf", 0, 0, TRUE, 0), Entry("absolute", -1, 9, FALSE, 0), Entry("dropped", 6, 0, FALSE, 0), Entry("zeros", 4, 4, TRUE, 1), Entry("more", 0, 0, TRUE, 0),
             Entry("open", 0, 0, TRUE, 0), Entry("f", 3, 1, TRUE, 0), Entry("f", 0, 0, TRUE, 0), Entry("table", 7, 4, FALSE, 0), Entry("r", 5, 3, TRUE, 0)>>
FieldAt == <<1, 0, 3, 0, 3, 0, 4, 2, 1>>
Targets == {1, 3, 4, 5, 6, 7, 8, 9, 11, 12, 13, 14, 15}
WithReloc(k, type, target) == [NoFile EXCEPT !.sections = [Parts EXCEPT ![k].relocs = <<[offset |-> FieldAt[k], target |-> target, type |-> type]>>], !.symbols = Entries]
MCObjects == {WithReloc(k, type, target) : k \in {1, 2, 3, 5, 7, 8, 9}, type \in {1, 2, 3, 4, 5, 8, 11}, target \in Targets \ {6, 11}}
             \cup {WithReloc(k, type, target) : k \in {1, 2, 9}, type \in {1, 3, 4, 8}, target \in {6, 11}}
             \cup {[WithReloc(1, 4, 3) EXCEPT !.sections[k].name = ".xdata", !.sections[k].extra = TRUE] : k \in {5, 9}}
             \cup {[WithReloc(1, 4, 6) EXCEPT !.symbols[3].name = <<"start">>], [WithReloc(1, 4, 6) EXCEPT !.symbols[3].section = 2]}

MCLibraries == <<"open">> :> "a.dll" @@ <<"third">> :> "b.dll"
MCSpelling(name) ==
    LET parts == [printf |-> <<112, 114>>, open |-> <<111, 112, 101>>, exit |-> <<101, 120, 105, 116>>, third |-> <<116>>, f |-> <<102>>, g |-> <<103>>]
        files == "msvcrt.dll" :> <<109, 115>> @@ "a.dll" :> <<97>> @@ "b.dll" :> <<98, 46>>
    IN  (parts @@ files)[name[1]]
=============================================================================
