-------------------------- MODULE AssembledProgram --------------------------
(***************************************************************************)
(* What the text of the assembly, or an object file, says of the program   *)
(* that is made of it: what each line means, where each label is, and      *)
(* which address each reference has to hold. It is read off the text and   *)
(* the file, without the symbols and relocations of the assembler.         *)
(***************************************************************************)
EXTENDS Assembling, X64Manual

CONSTANTS
    Unsupported,        \* Lines with an instruction that the assembler has no encoding for
    Executed(_)         \* What the processor does with some bytes (Decode, after the manual of it)

Lines == DOMAIN source

\* The section and the last label before a line
SectionAt(k) == SectionBefore(source, k)
LabelsBefore(k) == {j \in 1..(k - 1) : source[j].is = "label" /\ ~source[j].name.dot}
ScopeAt(k) == IF LabelsBefore(k) = {} THEN <<>> ELSE source[Max(LabelsBefore(k))].name.parts
FullName(name, k) == IF name.dot THEN ScopeAt(k) \o name.parts ELSE name.parts
Cut(name) == SubSeq(name, 1, IF Len(name) < NameSize THEN Len(name) ELSE NameSize)

\* Where the code or data of a line is in its section. Code has the size it was given
ItemOf(k) == Cardinality({j \in 1..k : source[j].is = "instruction"})
EndOfLine(n, j) ==      \* The end of a line that is at n
    CASE source[j].is = "data" -> n + source[j].size * Len(source[j].values)
      [] source[j].is = "times" -> n + source[j].count
      [] source[j].is = "align" -> n + ((-n) % source[j].to)
      [] source[j].is = "instruction" -> n + items[ItemOf(j)].size
      [] OTHER -> n
OffsetOf(k) == LET at[j \in 1..k] == IF j = 1 THEN 0 ELSE IF SectionAt(j - 1) = SectionAt(k) THEN EndOfLine(at[j - 1], j - 1) ELSE at[j - 1] IN at[k]

IsJump(k) == source[k].is = "instruction" /\ source[k].m \in {"jmp", "j"}
CodeLines == {k \in Lines : source[k].is = "instruction"}
LabelLines == {k \in Lines : source[k].is = "label"}
LabelNamed(name) == {k \in LabelLines : FullName(source[k].name, k) = name}
CutTo(name) == {k \in LabelLines : Cut(FullName(source[k].name, k)) = Cut(name)}    \* A name that is too long is the same as another one
Externs == {Cut(source[k].name.parts) : k \in {j \in Lines : source[j].is = "extern"}}

-----------------------------------------------------------------------------
(* Encoding                                                                *)

\* A symbol in the meaning of a line is a field of the bytes that a relocation is for
SameArg(meant, read, item) ==
    IF meant.is \in {"symbol", "rip"}
    THEN /\ read.is = meant.is
         /\ \E r \in Range(item.relocs) : /\ r.offset = read.field /\ r.kind = "rel32"
                                          /\ r.symbol = Cut(meant.symbol) /\ r.addend = meant.number
                                          /\ r.trailing = item.size - (read.field + 4)
    ELSE read = meant

\* What asm_encode() writes for a line is one instruction, which does what the line says
EncodedLine(k) ==
    LET item == items[ItemOf(k)]
        decoded == Executed(item.bytes)
        meant == Read(source[k].m, source[k].cc, source[k].ops, FullName([dot |-> TRUE, parts |-> <<>>], k))
    IN  /\ decoded.length = Len(item.bytes)
        /\ decoded.meaning.do = meant.do
        /\ decoded.meaning.w = meant.w
        /\ Len(decoded.meaning.args) = Len(meant.args)
        /\ \A i \in DOMAIN meant.args : SameArg(meant.args[i], decoded.meaning.args[i], item)

\* Every instruction that the assembler accepts is encoded as bytes that the processor reads as that instruction, with
\* the same registers, widths, addresses and numbers: the REX prefix for r8 to r15 and spl to dil, the displacement of
\* rbp and r13, the SIB byte of rsp and r12, the short forms of immediates and moves, and the fields that relocations
\* fill in, also when an immediate comes after them (asm_encode, enc_modrm and enc_finish of x64_asm.c). No other line is
\* taken for an instruction, also one with a word that is no register, and none with an encoding is refused for it.
EncodedRight ==
    /\ pc = "layout" => \A k \in CodeLines : source[k] \notin Unsupported /\ (IsJump(k) \/ EncodedLine(k))
    /\ pc = "failed" /\ error = "unknown instruction" => source[line - 1] \in Unsupported

-----------------------------------------------------------------------------
(* Jumps                                                                   *)

\* The bytes of a jump are that jump, and its displacement is the one to the label, in the function the jump is in
JumpLands(k) ==
    LET at == OffsetOf(k)
        bytes == SubSeq(obj.sections.text, at + 1, at + items[ItemOf(k)].size)
        decoded == DecodeJump(bytes)
        name == FullName(nameOf(source[k].ops[1]), k)
    IN  /\ IsJumpTo(bytes)
        /\ decoded.meaning.do = (IF source[k].m = "jmp" THEN "jump" ELSE "jump" \o ToString(ConditionOf(source[k].cc)))
        /\ decoded.length = items[ItemOf(k)].size
        /\ \E target \in IF LabelNamed(name) # {} THEN LabelNamed(name) ELSE CutTo(name) :
              SectionAt(target) = "text" /\ at + decoded.length + SignedOf(SubSeq(decoded.meaning.args[1].number, 1, 4)) = OffsetOf(target)

\* Every jump of the finished text goes to the code after its label, in the function the jump is in, also when jumps
\* between them became long (asm_layout and asm_finish_text); and the jumps are as short as they can be, as the header
\* of x64_asm.c says: no choice of short jumps in which all of them reach has one that is long here.
JumpsLand ==
    /\ pc = "check" => \A k \in CodeLines : IsJump(k) => JumpLands(k)
    /\ JumpsShortest

-----------------------------------------------------------------------------
(* Programs                                                                *)

\* Reading the memory of a program
HoldsAt(img, at) == CHOOSE s \in DOMAIN img.sections : at \in img.rva[s]..(img.rva[s] + Len(img.sections[s]) - 1)
BytesAt(img, at, n) == LET s == HoldsAt(img, at) IN SubSeq(img.sections[s], at - img.rva[s] + 1, at - img.rva[s] + n)
NumberAt(img, at) == SignedOf(BytesAt(img, at, 4))
EndsAt(img, at) == LET s == HoldsAt(img, at) IN CHOOSE n \in at..(img.rva[s] + Len(img.sections[s]) - 1) :
    BytesAt(img, n, 1) = <<0>> /\ \A m \in at..(n - 1) : BytesAt(img, m, 1) # <<0>>
StringAt(img, at) == BytesAt(img, at, EndsAt(img, at) - at)

\* What Windows does when it loads a program: the entries of the directory until an empty one, each a library and the
\* functions whose addresses go to its slots, until an empty one
FirstEmpty(img, empty(_)) == CHOOSE n \in 0..Len(img.sections.rdata) : empty(n) /\ \A m \in 0..(n - 1) : ~empty(m)
SlotsOf(img, e) ==
    LET n == FirstEmpty(img, LAMBDA i : BytesAt(img, e.lookup + 8 * i, 8) = Word(0))
    IN  {[slot |-> e.slot + 8 * i, library |-> e.library, name |-> StringAt(img, NumberAt(img, e.lookup + 8 * i) + 2)] : i \in 0..(n - 1)}
DirectoryOf(img, at) ==
    LET n == FirstEmpty(img, LAMBDA i : NumberAt(img, at + 20 * i + 12) = 0)
        entry(e) == [library |-> StringAt(img, NumberAt(img, e + 12)), lookup |-> NumberAt(img, e), slot |-> NumberAt(img, e + 16)]
    IN  UNION {SlotsOf(img, e) : e \in {entry(at + 20 * i) : i \in 0..(n - 1)}}

LibraryNamed(name) == IF name \in DOMAIN Libraries THEN Libraries[name] ELSE "msvcrt.dll"

\* An extern is reached at the thunk that jumps to what the loader put into its slot, or where the linker put it
IsExternAt(img, at, name) ==
    IF img.externs # <<>> THEN at \in DOMAIN img.externs /\ img.externs[at] = <<"ms_">> \o name
    ELSE LET thunk == Executed(BytesAt(img, at, 6)) IN
         /\ thunk.meaning.do = "jump" /\ thunk.meaning.args[1].is = "rip"
         /\ \E s \in DirectoryOf(img, img.directory) :
               s.slot = at + 6 + NumberAt(img, at + thunk.meaning.args[1].field) /\ s.name = Spelling(name) /\ s.library = Spelling(<<LibraryNamed(name)>>)

\* The address of what the text, or an object file, calls by a name
IsAt(img, at, name) ==
    IF LabelNamed(name) # {} THEN \E k \in LabelNamed(name) : at = img.rva[SectionAt(k)] + OffsetOf(k) ELSE IsExternAt(img, at, name)

\* The addresses in the code and in the data of the text
SymbolOperands(k) == {op \in Range(source[k].ops) : op.is = "rel" \/ IsSymbol(op)}
CodeReaches(img, k) ==
    LET op == CHOOSE o \in SymbolOperands(k) : TRUE
        item == items[ItemOf(k)]
        at == img.rva.text + OffsetOf(k)
        field == (CHOOSE arg \in Range(Executed(item.bytes).meaning.args) : arg.is \in {"symbol", "rip"}).field
        addend == IF op.is = "rel" THEN SignedOf(SubSeq(ReadNumber(op.addend), 1, 4)) ELSE 0
    IN  \E target \in {at + item.size + NumberAt(img, at + field) - addend} : IsAt(img, target, FullName(nameOf(op), k))
DataReaches(img, k) ==
    \A i \in DOMAIN source[k].values : source[k].values[i].is = "name" =>
        \E bytes \in {BytesAt(img, img.rva[SectionAt(k)] + OffsetOf(k) + 8 * (i - 1), 8)} :
        \E address \in {Plus(bytes, Negated(img.base))} :
            fits_i32(address) /\ IsAt(img, SignedOf(SubSeq(address, 1, 4)), FullName(source[k].values[i].name, k))

\* An object file has the names of globals and externs only
Visible(name) == placed = <<>> \/ \E k \in Lines : source[k].is \in {"global", "extern"} /\ source[k].name.parts = name

\* The entry point calls main, and exit() with what main returns
Enters(img, isMain(_), isExit(_)) ==
    LET at == img.entry
        calls(n) == Executed(BytesAt(img, n, 5)).meaning.do = "call"
        target(n) == n + 5 + NumberAt(img, n + 1)
    IN  /\ Executed(BytesAt(img, at, 4)).meaning = Meant("sub", 8, <<RegisterArg("rsp"), NumberArg(Word(40))>>)
        /\ calls(at + 4) /\ isMain(target(at + 4))
        /\ Executed(BytesAt(img, at + 9, 2)).meaning = Meant("mov", 4, <<RegisterArg("ecx"), RegisterArg("eax")>>)
        /\ calls(at + 11) /\ isExit(target(at + 11))

Overlaps(s, t) == image.rva[s] < image.rva[t] + Len(image.sections[t]) /\ image.rva[t] < image.rva[s] + Len(image.sections[s])
SectionsApart == \A s, t \in DOMAIN image.sections : s # t => ~Overlaps(s, t)

\* What can be wrong with a program whose text is right
CutLabels(where) == {Cut(FullName(source[k].name, k)) : k \in {j \in LabelLines : SectionAt(j) \in where}}
All == {"text", "data", "rdata"}
MainFound == /\ \E k \in LabelLines : FullName(source[k].name, k) = <<"main">> /\ SectionAt(k) = "text"
             /\ Visible(<<"main">>)
LibrariesUsed == {LibraryNamed(n) : n \in Externs \ CutLabels(All)} \cup IF <<"exit">> \in CutLabels(All) /\ Visible(<<"exit">>) THEN {} ELSE {LibraryNamed(<<"exit">>)}
ProgramMistakes ==
    {m \in {"no main function"} : ~MainFound} \cup {m \in {"more libraries than fit"} : Cardinality(LibrariesUsed) > MaxLibraries}

\* In the program, whichever way it was made, each call and each address of code or data goes to the label it names, or
\* to the thunk of the extern it names and its library (pe_write, elf_write and coff_write followed by coff_read, of
\* object_writer.c); and the entry point calls main, then exit(), as object_writer.c:331 says. It isn't written exactly when
\* there is no main, or when it uses more libraries than fit.
ReferencesReach ==
    /\ pc = "unwritten" /\ source # <<>> => error \in ProgramMistakes
    /\ pc = "written" /\ source # <<>> =>
        /\ SectionsApart
        /\ image.entry # 0 => ProgramMistakes = {}
        /\ \A k \in CodeLines : ~IsJump(k) /\ SymbolOperands(k) # {} => CodeReaches(image, k)
        /\ \A k \in Lines : source[k].is = "data" => DataReaches(image, k)
        /\ image.entry # 0 => Enters(image, LAMBDA at : IsAt(image, at, <<"main">>),
                                           LAMBDA at : IF Visible(<<"exit">>) THEN IsAt(image, at, <<"exit">>) ELSE IsExternAt(image, at, <<"exit">>))

-----------------------------------------------------------------------------
(* Object files                                                            *)

FieldSize(r) == IF r.type = 1 THEN 8 ELSE 4
InField(h, i) == \E r \in Range(h.relocs) : i \in (r.offset + 1)..(r.offset + FieldSize(r))
PlaceOf(k) == image.rva[placed[k].in] + placed[k].at
KeptSections == {k \in DOMAIN placed : placed[k].in # "none"}

\* The address of a symbol of the file is where its section went, and an extern has the one of its definition if there is one
Definitions(i) ==
    LET e == file.symbols[i] IN
    IF e.section > 0 THEN {e}
    ELSE {file.symbols[j] : j \in {n \in DOMAIN file.symbols : isEntry(file, n) /\ file.symbols[n].section > 0 /\ file.symbols[n].external /\ file.symbols[n].name = e.name}}
EntryIsAt(i, at) ==
    IF Definitions(i) # {} THEN \E d \in Definitions(i) : at = PlaceOf(d.section) + d.value ELSE IsExternAt(image, at, file.symbols[i].name)

FieldReaches(k, r) ==
    LET before == SignedOf(SubSeq(file.sections[k].bytes, r.offset + 1, r.offset + 4))
        at == PlaceOf(k) + r.offset
        address == Plus(BytesAt(image, at, FieldSize(r)), Negated(image.base))
    IN  CASE r.type = 1 -> fits_i32(address) /\ EntryIsAt(r.target, SignedOf(SubSeq(address, 1, 4)) - before)
          [] r.type = 3 -> EntryIsAt(r.target, NumberAt(image, at) - before)
          [] r.type = 11 -> \E d \in Definitions(r.target) : NumberAt(image, at) - before = placed[d.section].at + d.value
          [] r.type \in 4..9 -> EntryIsAt(r.target, at + r.type + NumberAt(image, at) - before)

\* What coff_read() and pe_write() can't read or write
FileMistakes ==
    LET dropped(i) == i > 0 /\ file.sections[i].dropped
        relocs == UNION {Range(file.sections[k].relocs) : k \in {j \in DOMAIN file.sections : ~file.sections[j].dropped}}
        mains == {i \in DOMAIN file.symbols : isEntry(file, i) /\ file.symbols[i].external /\ file.symbols[i].name = <<"main">> /\ file.symbols[i].section > 0}
    IN  {m \in {"a relocation of an unknown type"} : \E r \in relocs : r.type \notin {1, 3, 11} \cup 4..9}
        \cup {m \in {"a relocation to a symbol that was left out"} : \E r \in relocs : file.symbols[r.target].section < 0 \/ dropped(file.symbols[r.target].section)}
        \cup {m \in {"more sections than fit"} : Cardinality({h.name : h \in {g \in Range(file.sections) : g.extra /\ ~g.dropped}}) > MaxExtra}
        \cup {m \in {"no main function"} : ~\E i \in mains : file.sections[file.symbols[i].section].code}

\* What coff_read() reads of an object file is in the program: each section at an address of its alignment, apart from
\* the others, with its bytes, and with every field of a relocation holding the address, or the distance, of the symbol
\* of its entry in the symbol table, also when the symbol is one of several with its name, when entries with more about a
\* symbol come before it, or when the sections of the file were put together. A file is refused exactly for what is wrong in it.
ObjectKept ==
    /\ pc = "unwritten" /\ source = <<>> => error \in FileMistakes
    /\ pc = "written" /\ source = <<>> => FileMistakes = {}
    /\ pc = "written" /\ placed # <<>> =>
        /\ SectionsApart
        /\ \A k \in KeptSections :
              /\ PlaceOf(k) % file.sections[k].align = 0
              /\ \A i \in DOMAIN file.sections[k].bytes :
                    ~InField(file.sections[k], i) => BytesAt(image, PlaceOf(k) + i - 1, 1) = <<IF file.sections[k].bss THEN 0 ELSE file.sections[k].bytes[i]>>
              /\ \A r \in Range(file.sections[k].relocs) : FieldReaches(k, r)
              /\ \A j \in KeptSections \ {k} : ~(PlaceOf(j) \in PlaceOf(k)..(PlaceOf(k) + Len(file.sections[k].bytes) - 1))

-----------------------------------------------------------------------------
(* Errors                                                                  *)

\* The assembler knows the registers by their names in the manual
ASSUME RegistersAssumption ==
    /\ DOMAIN WidthOfName = Range(asm_reg64) \cup Range(asm_reg32) \cup Range(asm_reg16) \cup Range(asm_reg8)
    /\ {name \in DOMAIN WidthOfName : WidthOfName[name] = 8} = Range(asm_reg64)
    /\ {XmmName(n) : n \in 0..15} = Range(asm_xmm)

BadTerm(t) == t.is = "register" /\ (t.sign # "+" \/ t.reg \notin DOMAIN WidthOfName \/ t.reg = "rsp" \/ WidthOfName[t.reg] # 8)
BadArg(op) ==
    /\ op.is = "memory"
    /\ \/ op.base \notin DOMAIN WidthOfName
       \/ WidthOfName[op.base] # 8
       \/ \E i, j \in {n \in DOMAIN op.terms : op.terms[n].is = "register"} : i # j
       \/ \E t \in Range(op.terms) : BadTerm(t)

\* An instruction whose operands are right, and that is neither a jump to a name nor in the table
JumpsToName(l) == /\ l.m = "jmp" \/ (l.m = "j" /\ l.cc \in UNION Range(ConditionNames))
                  /\ Len(l.ops) = 1 /\ IsSymbol(l.ops[1])
Unknown(k) == /\ \A op \in Range(source[k].ops) : ~BadArg(op)
              /\ ~JumpsToName(source[k]) /\ ~Encode(source[k].m, source[k].cc, operandsOf(source[k], Cut(ScopeAt(k)))).ok

NamesIn(k) ==
    CASE source[k].is = "instruction" -> {FullName(nameOf(op), k) : op \in SymbolOperands(k)}
      [] source[k].is = "data" -> {FullName(v.name, k) : v \in {u \in Range(source[k].values) : u.is = "name"}}
      [] source[k].is = "global" -> {source[k].name.parts}
      [] OTHER -> {}

Mistakes ==
    {m \in {"label already defined"} : \E j, k \in LabelLines : j < k /\ Cut(FullName(source[j].name, j)) = Cut(FullName(source[k].name, k))}
    \cup {m \in {"unknown section"} : \E k \in Lines : source[k].is = "section" /\ source[k].section \notin {".text", ".data", ".rdata", ".rodata"}}
    \cup {m \in {"not a number"} : \E k \in Lines : source[k].is = "data" /\ source[k].size # 8 /\ \E v \in Range(source[k].values) : v.is = "name"}
    \cup {m \in {"align in the text section"} : \E k \in Lines : source[k].is = "align" /\ SectionAt(k) = "text"}
    \cup {m \in {"outside of the text section"} : \E k \in CodeLines : SectionAt(k) # "text"}
    \cup {m \in {"unknown operand"} : \E k \in CodeLines : \E a \in Range(source[k].ops) : BadArg(a)}
    \cup {m \in {"unknown instruction"} : \E k \in CodeLines : Unknown(k)}
    \cup {m \in {"a jump to what isn't a label of the code"} : \E k \in CodeLines : IsJump(k) /\ \E n \in NamesIn(k) : Cut(n) \notin CutLabels({"text"})}
    \cup {m \in {"not defined"} : \E k \in Lines : \E n \in NamesIn(k) : Cut(n) \notin CutLabels(All) \cup Externs}

\* The assembler stops with an error exactly for a text that has that mistake: a label twice, also one that starts with
\* '.' in the same function (x64_asm.c:996) or is cut to the same name, a symbol or a jump to what isn't defined, an address
\* of what can't be in one, or an instruction that isn't in its table; and nothing of a text with a mistake is written as a program.
RefusedRightly ==
    /\ pc = "failed" => error \in Mistakes
    /\ pc \in {"assembled", "linking", "object", "read", "written", "unwritten"} => Mistakes = {}

\* The jumps get their sizes in a number of rounds: each one makes a jump long or is the last, so jumps that grow never
\* push each other back and forth (the loop of asm_layout, x64_asm.c:879).
LayoutEnds == pc = "layout" ~> pc = "finish"
=============================================================================
