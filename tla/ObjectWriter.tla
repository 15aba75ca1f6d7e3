---------------------------- MODULE ObjectWriter ----------------------------
(***************************************************************************)
(* The object files and programs (object_writer.c) that are written of an  *)
(* AsmObject, see Assembler. The tables of a file are sequences of         *)
(* records: where they are in it, their headers and the fields that only   *)
(* name a format are left out. The import tables of a program are bytes,   *)
(* as their addresses are part of the code.                                *)
(*                                                                         *)
(* COFF: [sections, symbols]. A section is [name, extra, code, write, bss, *)
(*   dropped, align, bytes, relocs]: name is the part before a '$', extra  *)
(*   whether it is one of unwind tables or debug information, and dropped  *)
(*   whether it is only for the linker. A symbol is [name, section, value, *)
(*   external, aux], section is 0 for an extern and -1 for none, aux the   *)
(*   number of entries after it that belong to it.                         *)
(* ELF: [sections, symbols, rela], with the same numbering as the file.    *)
(***************************************************************************)
EXTENDS X64Asm, TLC

CONSTANTS
    Spelling(_),        \* The bytes of a name
    MaxExtra,           \* ASM_MAX_EXTRA_SECTIONS
    MaxLibraries        \* The libraries that a program can import
ASSUME ExtraAssumption == MaxExtra \in Nat /\ MaxLibraries \in Nat

asm_sections == <<"text", "data", "rdata">>

symbolOf(o, r) == o.symbols[SelectInSeq(o.symbols, LAMBDA s : s.name = r.symbol)]
putAt(bytes, at, field) == [i \in DOMAIN bytes |-> IF i \in (at + 1)..(at + Len(field)) THEN field[i - at] ELSE bytes[i]]
u32(v) == SubSeq(v, 1, 4)
zeros(n) == [i \in 1..n |-> 0]
pad(bytes, align) == bytes \o zeros((-Len(bytes)) % align)
rounded(value, align) == value + ((-value) % align)

\* A rel32 to a symbol of the same section is known without a linker
reloc_is_resolved(o, r) == r.kind = "rel32" /\ symbolOf(o, r).section = r.section
resolve_local_relocs(o) ==
    LET resolve(p, r) == [p EXCEPT !.sections[r.section] =
            putAt(@, r.offset, u32(Plus(r.addend, Word(symbolOf(o, r).offset - (r.offset + 4 + r.trailing)))))]
    IN  FoldLeft(resolve, o, SelectSeq(o.relocs, LAMBDA r : reloc_is_resolved(o, r)))
openRelocs(o) == SelectSeq(o.relocs, LAMBDA r : ~reloc_is_resolved(o, r))

\* The symbols that are in the file. The others are reached through their section
isListed(s) == s.is_global \/ s.is_extern
listed(o) == SelectSeq(o.symbols, isListed)
\* The mistake of a relocation to the section that leaves out where the symbol is in it
addendOfSection(o, r) == r.addend
addendOf(o, r) == LET s == symbolOf(o, r) IN IF isListed(s) THEN r.addend ELSE Plus(r.addend, Word(s.offset))

-----------------------------------------------------------------------------
(* COFF                                                                    *)

sectionNumber(section) == SelectInSeq(asm_sections, LAMBDA s : s = section)      \* 0 when it isn't defined here

coffTarget(o, r) == LET s == symbolOf(o, r) IN
    IF isListed(s) THEN 3 + SelectInSeq(listed(o), LAMBDA l : l.name = s.name) ELSE sectionNumber(s.section)

coff_write(obj) ==
    LET o == resolve_local_relocs(obj)
        field(p, r) == [p EXCEPT !.sections[r.section] = putAt(@, r.offset, IF r.kind = "abs64" THEN addendOf(o, r) ELSE u32(addendOf(o, r)))]
        filled == FoldLeft(field, o, openRelocs(o))
        relocsOf(section) ==
            LET own == SelectSeq(openRelocs(o), LAMBDA r : r.section = section)
            IN  [i \in DOMAIN own |-> [offset |-> own[i].offset, target |-> coffTarget(o, own[i]), type |-> IF own[i].kind = "abs64" THEN 1 ELSE 4 + own[i].trailing]]
        aligned(n) == CHOOSE a \in {2^k : k \in 0..12} : a >= n /\ \A b \in {2^k : k \in 0..12} : b >= n => b >= a
        header(section) == [name |-> "." \o section, extra |-> FALSE, code |-> section = "text", write |-> section = "data", bss |-> FALSE, dropped |-> FALSE,
                            align |-> aligned(o.alignment[section]), bytes |-> filled.sections[section], relocs |-> relocsOf(section)]
        sectionSymbol(k) == [name |-> <<"." \o asm_sections[k]>>, section |-> k, value |-> 0, external |-> FALSE, aux |-> 0]
        symbol(s) == [name |-> s.name, section |-> sectionNumber(s.section), value |-> IF s.section = "none" THEN 0 ELSE s.offset, external |-> TRUE, aux |-> 0]
    IN  [sections |-> [k \in 1..3 |-> header(asm_sections[k])],
         symbols |-> [k \in 1..3 |-> sectionSymbol(k)] \o [i \in DOMAIN listed(o) |-> symbol(listed(o)[i])]]

-----------------------------------------------------------------------------
(* ELF                                                                     *)

elf_write(obj, prefix) ==
    LET o == resolve_local_relocs(obj)
        sections == asm_sections \o obj.extra
        n == Len(sections)
        numberOf(section) == SelectInSeq(sections, LAMBDA s : s = section)
        symbol(s) == [name |-> <<prefix>> \o s.name, section |-> numberOf(s.section), value |-> IF s.section = "none" THEN 0 ELSE s.offset]
        target(r) == LET s == symbolOf(o, r) IN
            IF isListed(s) THEN n + SelectInSeq(listed(o), LAMBDA l : l.name = s.name) ELSE numberOf(s.section)
        entry(r) == CASE r.kind = "abs64" -> [offset |-> r.offset, target |-> target(r), type |-> 1, addend |-> addendOf(o, r)]
                      [] r.kind = "secrel32" -> [offset |-> r.offset, target |-> target(r), type |-> 10, addend |-> addendOf(o, r)]
                      [] OTHER -> [offset |-> r.offset, target |-> target(r), type |-> 2, addend |-> Plus(addendOf(o, r), Word(-(4 + r.trailing)))]
        relaOf(section) == LET own == SelectSeq(openRelocs(o), LAMBDA r : r.section = section) IN [i \in DOMAIN own |-> entry(own[i])]
    IN  [sections |-> [k \in 1..n |-> [name |-> sections[k], bytes |-> o.sections[sections[k]], align |-> IF k <= 3 THEN 16 ELSE 1]],
         symbols |-> [k \in 1..n |-> [name |-> <<>>, section |-> k, value |-> 0]] \o [i \in DOMAIN listed(o) |-> symbol(listed(o)[i])],
         rela |-> [k \in 1..n |-> relaOf(sections[k])]]

-----------------------------------------------------------------------------
(* Reading a COFF file                                                     *)

\* The section of its own that unwind tables or debug information go into
coff_extra_section(o, name) ==
    IF Contains(o.extra, name) THEN o
    ELSE [o EXCEPT !.extra = Append(@, name), !.sections = [s \in DOMAIN @ \cup {name} |-> IF s = name THEN <<>> ELSE @[s]],
                   !.alignment = [s \in DOMAIN @ \cup {name} |-> IF s = name THEN 8 ELSE @[s]]]

\* A section goes after what is already in the one of its kind. p.placed has where the sections went
placeSection(p, h) ==
    LET kind == CASE h.extra -> h.name [] ~h.extra /\ h.code -> "text" [] ~h.extra /\ ~h.code /\ h.write -> "data" [] OTHER -> "rdata"
        o == IF h.extra THEN coff_extra_section(p.o, h.name) ELSE p.o
        start == o.sections[kind] \o [i \in 1..((-Len(o.sections[kind])) % h.align) |-> IF kind = "text" THEN \hCC ELSE 0]
    IN  IF p.error # "" THEN p
        ELSE IF h.dropped THEN [p EXCEPT !.placed = Append(@, [in |-> "none", at |-> 0])]
        ELSE IF Len(o.extra) > MaxExtra THEN [p EXCEPT !.error = "more sections than fit"]
        ELSE [p EXCEPT !.o = [o EXCEPT !.sections[kind] = start \o (IF h.bss THEN zeros(Len(h.bytes)) ELSE h.bytes)],
                       !.placed = Append(@, [in |-> kind, at |-> Len(start)])]

\* The entries of the symbol table that are symbols the program keeps, and not more about the one before
isEntry(file, i) == LET until[j \in 0..i] == IF j = 0 THEN 0 ELSE IF j <= until[j - 1] THEN until[j - 1] ELSE j + file.symbols[j].aux
                    IN  i > until[i - 1]
isKept(file, placed, i) == LET e == file.symbols[i] IN isEntry(file, i) /\ e.section >= 0 /\ (e.section > 0 => placed[e.section].in # "none")

\* The mistake of taking local symbols with the same name for one
coffNameShared(file, i) == file.symbols[i].name

\* A local symbol gets the number of its entry in its name, as two can have the same name
coffName(file, i) == IF file.symbols[i].external THEN file.symbols[i].name ELSE file.symbols[i].name \o <<"@", ToString(i)>>

readSymbol(p, file, i) ==
    LET e == file.symbols[i]
        name == coffName(file, i)
        k == SelectInSeq(p.o.symbols, LAMBDA s : s.name = name)
        old == IF k # 0 THEN p.o.symbols[k] ELSE [name |-> name, section |-> "none", offset |-> 0, is_global |-> FALSE, is_extern |-> FALSE, library |-> ""]
        new == IF e.section > 0 THEN [old EXCEPT !.section = p.placed[e.section].in, !.offset = p.placed[e.section].at + e.value, !.is_global = e.external]
               ELSE [old EXCEPT !.is_extern = TRUE]
    IN  IF ~isKept(file, p.placed, i) THEN p
        ELSE [p EXCEPT !.o.symbols = IF k # 0 THEN [@ EXCEPT ![k] = new] ELSE Append(@, new)]

\* The addend of a relocation is in its field
readReloc(p, file, k, r) ==
    LET section == p.placed[k].in
        at == p.placed[k].at + r.offset
        field(n) == SignExtended(SubSeq(p.o.sections[section], at + 1, at + n))
        kind == CASE r.type = 1 -> "abs64" [] r.type = 3 -> "rva32" [] r.type = 11 -> "secrel32" [] r.type \in 4..9 -> "rel32" [] OTHER -> ""
    IN  IF p.error # "" THEN p
        ELSE IF kind = "" THEN [p EXCEPT !.error = "a relocation of an unknown type"]
        ELSE IF ~isKept(file, p.placed, r.target) THEN [p EXCEPT !.error = "a relocation to a symbol that was left out"]
        ELSE [p EXCEPT !.o.relocs = Append(@, [section |-> section, offset |-> at, kind |-> kind, symbol |-> coffName(file, r.target),
                                              addend |-> field(IF kind = "abs64" THEN 8 ELSE 4), trailing |-> IF kind = "rel32" THEN r.type - 4 ELSE 0])]

\* Returns the object, where the sections went, and an error
coff_read(file) ==
    LET none == [sections |-> [text |-> <<>>, data |-> <<>>, rdata |-> <<>>], alignment |-> [text |-> 16, data |-> 16, rdata |-> 16],
                 extra |-> <<>>, symbols |-> <<>>, relocs |-> <<>>]
        placed == FoldLeft(placeSection, [o |-> none, placed |-> <<>>, error |-> ""], file.sections)
        named == FoldLeft(LAMBDA p, i : readSymbol(p, file, i), placed, [i \in DOMAIN file.symbols |-> i])
        relocsOf(p, k) == IF p.placed[k].in = "none" THEN p ELSE FoldLeft(LAMBDA q, r : readReloc(q, file, k, r), p, file.sections[k].relocs)
    IN  IF placed.error # "" THEN placed ELSE FoldLeft(relocsOf, named, [k \in DOMAIN file.sections |-> k])

-----------------------------------------------------------------------------
(* PE: the program                                                         *)

PE_SECTION_ALIGNMENT == \h1000
PE_IMAGE_BASE == <<0, 0, 0, \h40, 1, 0, 0, 0>>

\* The entry point needs exit() of the C runtime
withExit(o) ==
    LET k == SelectInSeq(o.symbols, LAMBDA s : s.name = <<"exit">>)
        exit == [name |-> <<"exit">>, section |-> "none", offset |-> 0, is_global |-> FALSE, is_extern |-> TRUE, library |-> ""]
    IN  CASE k = 0 -> [o EXCEPT !.symbols = Append(@, exit)]
          [] k # 0 /\ o.symbols[k].section = "none" -> [o EXCEPT !.symbols[k].is_extern = TRUE]
          [] OTHER -> o

hasMain(o) == \E s \in Range(o.symbols) : s.name = <<"main">> /\ s.section = "text"
imports(o) == SelectSeq(o.symbols, LAMBDA s : s.section = "none" /\ s.is_extern)
libraryOf(s) == IF s.library = "" THEN "msvcrt.dll" ELSE s.library
libraries(o) == FoldLeft(LAMBDA ls, s : IF Contains(ls, libraryOf(s)) THEN ls ELSE Append(ls, libraryOf(s)), <<>>, imports(o))
importsOf(o, library) == SelectSeq(imports(o), LAMBDA s : libraryOf(s) = library)

\* .text: the code, the entry point (sub rsp, 40; call main; mov ecx, eax; call exit; int3), and 'jmp [rip + slot]' for each import
entry_code == <<\h48, \h83, \hEC, \h28, \hE8, 0, 0, 0, 0, \h89, \hC1, \hE8, 0, 0, 0, 0, \hCC>>
thunk_code == <<\hFF, \h25, 0, 0, 0, 0, \hCC, \hCC>>
entryAt(o) == rounded(Len(o.sections.text), 16)
thunkAt(o, i) == rounded(entryAt(o) + Len(entry_code), 8) + 8 * (i - 1)
peText(o) == pad(pad(o.sections.text, 16) \o entry_code, 8) \o FlattenSeq([i \in DOMAIN imports(o) |-> thunk_code])

text_rva == PE_SECTION_ALIGNMENT
rdata_rva(o) == text_rva + rounded(Len(peText(o)), PE_SECTION_ALIGNMENT)

\* .rdata: the data, the directory, the lookup tables, the address tables, the names of the imports and of the libraries.
\* at has where the tables, then the names are
directoryAt(o) == rounded(Len(o.sections.rdata), 16)
addPart(t, part) == LET b == pad(t.bytes, part.align) IN [bytes |-> b \o part.bytes, at |-> Append(t.at, Len(b))]
peParts(o) ==
    LET libs == libraries(o)
        table(l) == [align |-> 8, bytes |-> zeros(8 * (Len(importsOf(o, l)) + 1))]
        name(s) == [align |-> 2, bytes |-> <<0, 0>> \o Spelling(s.name) \o <<0>>]
        library(l) == [align |-> 1, bytes |-> Spelling(<<l>>) \o <<0>>]
        all == [i \in DOMAIN libs |-> table(libs[i])] \o [i \in DOMAIN libs |-> table(libs[i])]
               \o [i \in DOMAIN imports(o) |-> name(imports(o)[i])] \o [i \in DOMAIN libs |-> library(libs[i])]
    IN  FoldLeft(addPart, [bytes |-> pad(o.sections.rdata, 16) \o zeros(20 * (Len(libs) + 1)), at |-> <<>>], all)

\* The slot of an import in the tables of its library, and the address of its name
slotOf(o, s) == 8 * (SelectInSeq(importsOf(o, libraryOf(s)), LAMBDA t : t.name = s.name) - 1)
libraryIndex(o, s) == SelectInSeq(libraries(o), LAMBDA l : l = libraryOf(s))
iat_entry(o, i) == LET s == imports(o)[i] IN rdata_rva(o) + peParts(o).at[Len(libraries(o)) + libraryIndex(o, s)] + slotOf(o, s)

peRdata(o) ==
    LET parts == peParts(o)
        n == Len(libraries(o))
        rva(k) == Word(rdata_rva(o) + parts.at[k])
        hint(b, i) == LET s == imports(o)[i] l == libraryIndex(o, s) IN
            putAt(putAt(b, parts.at[l] + slotOf(o, s), rva(2 * n + i)), parts.at[n + l] + slotOf(o, s), rva(2 * n + i))
        entry(b, l) == LET d == directoryAt(o) + 20 * (l - 1) IN
            putAt(putAt(putAt(b, d, u32(rva(l))), d + 12, u32(rva(2 * n + Len(imports(o)) + l))), d + 16, u32(rva(n + l)))
    IN  FoldLeft(entry, FoldLeft(hint, parts.bytes, [i \in DOMAIN imports(o) |-> i]), [l \in 1..n |-> l])

\* Where the sections are: .text, .rdata, .data, then the extra ones
sectionRvas(o) ==
    LET rdata == rdata_rva(o)
        data == rdata + rounded(Len(peParts(o).bytes), PE_SECTION_ALIGNMENT)
        size(n) == rounded(n, PE_SECTION_ALIGNMENT)
        first == [text |-> text_rva, rdata |-> rdata, data |-> data]
        after[k \in 0..Len(o.extra)] ==
            IF k = 0 THEN data + size(IF o.sections.data = <<>> THEN 8 ELSE Len(o.sections.data))
            ELSE LET n == Len(o.sections[o.extra[k]]) IN after[k - 1] + size(IF n = 0 THEN 1 ELSE n)
    IN  [s \in DOMAIN o.sections |-> IF s \in DOMAIN first THEN first[s] ELSE after[SelectInSeq(o.extra, LAMBDA e : e = s) - 1]]

symbolRva(o, rvas, s) ==
    IF s.section # "none" THEN rvas[s.section] + s.offset
    ELSE IF s.is_extern THEN text_rva + thunkAt(o, SelectInSeq(imports(o), LAMBDA i : i.name = s.name)) ELSE 0

relocate(sections, o, rvas, r) ==
    LET s == symbolOf(o, r)
        target == Plus(Word(symbolRva(o, rvas, s)), r.addend)
        value == CASE r.kind = "abs64" -> Plus(PE_IMAGE_BASE, target)
                   [] r.kind = "rva32" -> u32(target)
                   [] r.kind = "secrel32" -> u32(Plus(Word(s.offset), r.addend))
                   [] r.kind = "rel32" -> u32(Plus(target, Word(-(rvas[r.section] + r.offset + 4 + r.trailing))))
    IN  [sections EXCEPT ![r.section] = putAt(@, r.offset, value)]

pe_write(obj) ==
    LET o == withExit(obj)
        rvas == sectionRvas(o)
        named(name) == o.symbols[SelectInSeq(o.symbols, LAMBDA s : s.name = name)]
        relocated == FoldLeft(LAMBDA ss, r : relocate(ss, o, rvas, r), [o.sections EXCEPT !.text = peText(o), !.rdata = peRdata(o)], o.relocs)
        callAt(bytes, at, name) == putAt(bytes, at, u32(Word(symbolRva(o, rvas, named(name)) - (text_rva + at + 4))))
        thunk(bytes, i) == putAt(bytes, thunkAt(o, i) + 2, u32(Word(iat_entry(o, i) - (text_rva + thunkAt(o, i) + 6))))
        entered == callAt(callAt(relocated.text, entryAt(o) + 5, <<"main">>), entryAt(o) + 12, <<"exit">>)
    IN  [sections |-> [relocated EXCEPT !.text = FoldLeft(thunk, entered, [i \in DOMAIN imports(o) |-> i])],
         rva |-> rvas, base |-> PE_IMAGE_BASE, entry |-> text_rva + entryAt(o), directory |-> rdata_rva(o) + directoryAt(o), externs |-> <<>>]

peError(o) == CASE ~hasMain(o) -> "no main function"
                [] hasMain(o) /\ Len(libraries(withExit(o))) > MaxLibraries -> "more libraries than fit"
                [] OTHER -> ""
=============================================================================
